------------------------------ MODULE RemoteTree ------------------------------
(***************************************************************************)
(* A pull: the folders, documents and tree order of the server, read one    *)
(* after the other, brought into the binder of a device.  Folders are named *)
(* three times: by the server's rows, by the identity of the directory and  *)
(* by the tree order; documents by a path the server keeps beside them.     *)
(* Another device changes its own binder and publishes the change row by    *)
(* row; the writer goes on working here between the reading and the         *)
(* application, which nothing but the end of the process interrupts.        *)
(* All folders stand in one parent; two documents never have one leaf name; *)
(* the place among siblings is left out.                                    *)
(***************************************************************************)
EXTENDS Naturals, Sequences, FiniteSets, SequencesExt

CONSTANTS
  Folder, Name, Document,
  Own,           \* identities this device gives to directories no row names
  Tree,          \* the tree order, as work waiting to be sent
  Trash, None,
  MaxChanges,    \* bound: changes of the other device
  MaxLocal,      \* bound: changes of this one
  MaxFaults      \* bound: writes that fail and ends of the process

VARIABLES
  server,        \* rows: each folder's versions; docs: each document's; the order
  peer,          \* the other device's binder
  place,         \* where the directory of an identity is, name and trash
  at,            \* the directory a document's file is in
  bare,          \* directories and copies no identity names
  store,         \* sync_folders, sync_documents, the order's row and settings
  queued,        \* documents, and the order, with operations still to be sent
  typing,        \* protected paths: editors with unsaved text
  pull,
  bounds,        \* changes, local, faults
  past           \* history: directories renamed by inference; blocked pulls
                 \* retried; live documents binned with their directory

Uuid == Folder \cup Own
device == <<place, at, bare, store>>
treeVars == <<server, peer, place, at, bare, store, queued, typing, pull, bounds, past>>

Live(n) == [bin |-> FALSE, name |-> n]
Binned(n) == [bin |-> TRUE, name |-> n]

DirAt(n) == {u \in Uuid : place[u] = Live(n)}
Exists(n) == DirAt(n) # {} \/ n \in bare

\* A path in a folder of the trash is written as the folder's identity.
PathIn(u) == IF place[u].bin THEN u ELSE place[u].name
PathOf(d) == IF at[d] \in Uuid THEN PathIn(at[d]) ELSE at[d]

Known(d) == store.docs[d] # None
LocalLive(d) == Known(d) /\ ~ store.docs[d].deleted
DocumentsAt(path) == {d \in Document : Known(d) /\ store.docs[d].path = path}

MovePaths(docs, Renamed(_)) ==
  [d \in Document |->
     IF docs[d] = None THEN None
     ELSE [docs[d] EXCEPT !.path = Renamed(docs[d].path)]]

-----------------------------------------------------------------------------
(* The server's projection *)

Alive(versions) == versions # <<>> /\ ~ Last(versions).deleted

LiveRows(s) == {f \in Folder : Alive(s.rows[f])}
NameOf(s, f) == Last(s.rows[f]).name
RowIdAt(s, n) == {f \in LiveRows(s) : NameOf(s, f) = n}
LiveDocs(s) == {d \in Document : Alive(s.docs[d])}
DeadDocs(s) == {d \in Document : s.docs[d] # <<>> /\ ~ Alive(s.docs[d])}

Layout(folders, leaves) == [folders |-> folders, leaves |-> leaves]

Versions(s) == [x \in Folder \cup Document |->
                  IF x \in Folder THEN Len(s.rows[x]) ELSE Len(s.docs[x])]

\* What the order was written after stands for the time it was written at.
WithOrder(s, layout) ==
  [s EXCEPT !.order = [revision |-> s.order.revision + 1, layout |-> layout,
                       seen |-> Versions(s)]]

Row(n, deleted) == [name |-> n, deleted |-> deleted]
Text(n, deleted) == [dir |-> n, deleted |-> deleted]

-----------------------------------------------------------------------------
(* The other device: a change of its binder, published row by row *)

Taken(dirs) == {dirs[f] : f \in Folder} \ {None}

PeerLayout ==
  Layout(Taken(peer.dirs),
         {<<peer.dirs[peer.docs[d]], d>> :
            d \in {e \in Document : peer.docs[e] # None}})

Counted(what) == bounds' = [bounds EXCEPT ![what] = @ + 1]

PeerChanges(next) ==
  /\ bounds.changes < MaxChanges
  /\ peer' = next
  /\ Counted("changes")
  /\ UNCHANGED <<server, device, queued, typing, pull, past>>

PeerNames(f, n) ==
  n \notin Taken(peer.dirs) /\ PeerChanges([peer EXCEPT !.dirs[f] = n])

PeerDeletes(f) ==
  /\ peer.dirs[f] # None
  /\ PeerChanges([dirs |-> [peer.dirs EXCEPT ![f] = None],
                  docs |-> [d \in Document |->
                              IF peer.docs[d] = f THEN None ELSE peer.docs[d]]])

PeerPuts(d, f) ==
  /\ Known(d) => store.docs[d].revision > 0
  /\ peer.docs[d] # f
  /\ f # None => peer.dirs[f] # None
  /\ PeerChanges([peer EXCEPT !.docs[d] = f])

Publish(next) ==
  /\ server' = next
  /\ UNCHANGED <<peer, device, queued, typing, pull, bounds, past>>

\* commit_folder: a name is free among the live rows, and a folder is deleted
\* after its documents.
PublishRow(f) ==
  LET n == peer.dirs[f]
      old == server.rows[f]
  IN  IF n # None
      THEN /\ Alive(old) => Last(old).name # n
           /\ RowIdAt(server, n) \subseteq {f}
           /\ Publish([server EXCEPT !.rows[f] = Append(old, Row(n, FALSE))])
      ELSE /\ Alive(old)
           /\ \A d \in LiveDocs(server) : Last(server.docs[d]).dir # Last(old).name
           /\ Publish([server EXCEPT
                         !.rows[f] = Append(old, Row(Last(old).name, TRUE))])

PublishDocument(d) ==
  LET f == peer.docs[d]
      old == server.docs[d]
  IN  IF f # None
      THEN /\ RowIdAt(server, peer.dirs[f]) = {f}
           /\ Alive(old) => Last(old).dir # peer.dirs[f]
           /\ Publish([server EXCEPT
                         !.docs[d] = Append(old, Text(peer.dirs[f], FALSE))])
      ELSE /\ Alive(old)
           /\ Publish([server EXCEPT
                         !.docs[d] = Append(old, Text(Last(old).dir, TRUE))])

PublishOrder ==
  /\ server.order.layout # PeerLayout
  /\ Publish(WithOrder(server, PeerLayout))

-----------------------------------------------------------------------------
(* The writer of this device, while no pull is being applied *)

Idle == [phase |-> "idle"]
Blocked == [phase |-> "blocked"]
Applying ==
  pull.phase \in {"identities", "restores", "moves", "documents", "order",
                  "folders", "audit"}

Works(kind) ==
  /\ ~ Applying
  /\ bounds.local < MaxLocal
  /\ Counted("local")
  /\ UNCHANGED <<server, peer, place, bare, past>>

InBinder(d) == at[d] \in Uuid /\ ~ place[at[d]].bin

\* A live document the binder shows where the store has it.
Shows(d) == InBinder(d) /\ LocalLive(d) /\ PathOf(d) = store.docs[d].path

Types(d) ==
  /\ Works("text")
  /\ Shows(d) /\ d \notin typing
  /\ typing' = typing \cup {d}
  /\ UNCHANGED <<at, store, queued, pull>>

\* upload_content_async, with the editor clean again.
Saves(d) ==
  /\ ~ Applying
  /\ d \in typing
  /\ typing' = typing \ {d}
  /\ queued' = queued \cup {d}
  /\ UNCHANGED <<server, peer, place, at, bare, store, pull, bounds, past>>

\* Mutant: a pull on its way is applied as it was read.
OutdatedNever == pull

\* local_structure_mutation: a pull on its way is out of date.
Outdated ==
  IF pull.phase \in {"reading", "half read", "fetched"}
  THEN [pull EXCEPT !.stale = TRUE] ELSE pull

Places(d, u, docs) ==
  /\ Works("structure")
  /\ place[u] # None /\ ~ place[u].bin
  /\ at' = [at EXCEPT ![d] = u]
  /\ store' = [store EXCEPT !.docs = docs,
                 !.order.shown = Layout(@.folders, {l \in @.leaves : l[2] # d}
                                          \cup {<<place[u].name, d>>})]
  /\ queued' = queued \cup {d, Tree}
  /\ pull' = Outdated
  /\ UNCHANGED typing

Creates(d, u) ==
  /\ ~ Known(d) /\ server.docs[d] = <<>> /\ peer.docs[d] = None /\ at[d] = None
  /\ Places(d, u, [store.docs EXCEPT
                     ![d] = [revision |-> 0, path |-> place[u].name,
                             sent |-> place[u].name, deleted |-> FALSE]])

Moves(d, u) ==
  /\ Shows(d) /\ at[d] # u
  /\ Places(d, u, [store.docs EXCEPT ![d].path = place[u].name])

\* A worker's commit lands in a folder both devices have there, and the other
\* one follows; a conflict is settled with the server's version.
Sends(d) ==
  /\ ~ Applying
  /\ d \in queued
  /\ queued' = queued \ {d}
  /\ IF store.docs[d].revision # Len(server.docs[d])
     THEN UNCHANGED <<server, peer, store>>
     ELSE \E f \in RowIdAt(server, store.docs[d].path) :
            /\ peer.dirs[f] = store.docs[d].path
            /\ server' = [server EXCEPT !.docs[d] = Append(@, Text(peer.dirs[f], FALSE))]
            /\ peer' = [peer EXCEPT !.docs[d] = f]
            /\ store' = [store EXCEPT !.docs[d].revision = @ + 1,
                                      !.docs[d].sent = peer.dirs[f]]
  /\ UNCHANGED <<place, at, bare, typing, pull, bounds, past>>

SendsOrder ==
  /\ ~ Applying
  /\ queued = {Tree}
  /\ queued' = {}
  /\ IF store.order.revision = server.order.revision
     THEN /\ server' = WithOrder(server, store.order.shown)
          /\ store' = [store EXCEPT !.order.revision = @ + 1,
                                    !.order.base = store.order.shown]
     ELSE UNCHANGED <<server, store>>
  /\ UNCHANGED <<peer, place, at, bare, typing, pull, bounds, past>>

-----------------------------------------------------------------------------
(* Reading the server: documents with the order first, the folders after *)

Reads(next) ==
  /\ pull' = next
  /\ UNCHANGED <<server, peer, device, queued, typing, bounds, past>>

\* _ordinary_pull_gate_is_open
StartPull ==
  /\ pull.phase = "idle"
  /\ queued = {}
  /\ Reads([phase |-> "reading", stale |-> FALSE])

ReadDocuments ==
  /\ pull.phase = "reading"
  /\ Reads([phase |-> "half read", stale |-> pull.stale, snap |-> server])

\* _legacy_structure_snapshot_in_flight: something younger than the order is
\* not in it.
InFlight(s) ==
  \/ \E f \in LiveRows(s) : /\ NameOf(s, f) \notin s.order.layout.folders
                            /\ Len(s.rows[f]) > s.order.seen[f]
  \/ \E d \in LiveDocs(s) : /\ <<Last(s.docs[d]).dir, d>> \notin s.order.layout.leaves
                            /\ Len(s.docs[d]) > s.order.seen[d]

\* Read again for a while, then given up: no project structure can be told.
ReadFolders ==
  /\ pull.phase = "half read"
  /\ LET s == [pull.snap EXCEPT !.rows = server.rows]
     IN  IF InFlight(s)
         THEN \E next \in {[phase |-> "reading", stale |-> pull.stale], Blocked} : Reads(next)
         ELSE Reads([phase |-> "fetched", stale |-> pull.stale, snap |-> s])

\* handle_result: local structure that moved meanwhile asks for a new pull.
BeginApply ==
  /\ pull.phase = "fetched"
  /\ IF pull.stale
     THEN Reads(Idle)
     ELSE Reads([phase |-> "identities", snap |-> pull.snap, before |-> store.rows,
                 renamed |-> {}, through |-> {}, todo |-> {}, failed |-> FALSE,
                 clash |-> FALSE, deferred |-> FALSE])

\* The timer leaves a blocked project alone; the writer, or opening it again,
\* asks once more.
Retry ==
  /\ pull.phase = "blocked"
  /\ pull' = Idle
  /\ past' = [past EXCEPT !.retried = TRUE]
  /\ UNCHANGED <<server, peer, device, queued, typing, bounds>>

Snap == pull.snap
OrderNames == Snap.order.layout.folders
GoOn(phase) == [pull EXCEPT !.phase = phase]
StillLocal == UNCHANGED <<server, peer, queued, typing, bounds, past>>

Stop ==
  /\ pull' = Blocked
  /\ UNCHANGED device
  /\ StillLocal

-----------------------------------------------------------------------------
(* _apply_remote_folder_identities *)

StoredLive(f) == store.rows[f] # None /\ ~ store.rows[f].deleted

\* A live row the order leaves out is waited for when it is the stored one.
LeftOut == {f \in LiveRows(Snap) : NameOf(Snap, f) \notin OrderNames}
Unchanged(f) ==
  /\ StoredLive(f)
  /\ store.rows[f].revision = Len(Snap.rows[f])
  /\ store.rows[f].name = NameOf(Snap, f)

\* Where a folder was: on record, or the last live name of its history.
FormerNames(f) ==
  IF StoredLive(f)
  THEN {store.rows[f].name : r \in {x \in {store.rows[f].revision} : x < Len(Snap.rows[f])}}
  ELSE LET earlier == {i \in 1 .. Len(Snap.rows[f]) - 1 : ~ Snap.rows[f][i].deleted}
       IN  {Snap.rows[f][i].name : i \in {j \in earlier : \A k \in earlier : k <= j}}

Renames ==
  UNION {{<<old, NameOf(Snap, f)>> : old \in FormerNames(f) \ {NameOf(Snap, f)}} :
           f \in LiveRows(Snap)}

Empty(n) == \A d \in Document : at[d] \notin DirAt(n)
LocalDocsAt(n) == {d \in DocumentsAt(n) : ~ store.docs[d].deleted}

\* Mutant: nobody looks at the editors.
ObstructedByFiles(old, new) ==
  Exists(old) /\ Exists(new) /\ (~ Empty(old) \/ (DirAt(old) # {} /\ DirAt(new) # {}))

Obstructed(old, new) ==
  /\ Exists(old)
  /\ \/ \E d \in typing : PathOf(d) \in {old, new}
     \/ Exists(new) /\ ~ Empty(old)
     \/ DirAt(old) # {} /\ DirAt(new) # {}

\* A directory follows its row when the order agrees, all its documents go
\* with it, nobody works in it, and the place is free.
Refused(old, new) ==
  \/ old \in OrderNames \/ new \notin OrderNames
  \/ Tree \in queued
  \/ \E d \in LocalDocsAt(old) :
       d \in queued \/ ~ Alive(Snap.docs[d]) \/ Last(Snap.docs[d]).dir \notin {old, new}
  \/ Obstructed(old, new)

Renamed(n) ==
  IF \E r \in Renames : r[1] = n THEN (CHOOSE r \in Renames : r[1] = n)[2] ELSE n

\* replace_folder_snapshots: rows that are no longer live keep their revision.
Projection(rows) ==
  [f \in Folder |->
     IF f \in LiveRows(Snap)
     THEN [revision |-> Len(Snap.rows[f]), name |-> NameOf(Snap, f), deleted |-> FALSE]
     ELSE IF rows[f] = None THEN None ELSE [rows[f] EXCEPT !.deleted = TRUE]]

BareAfter ==
  {n \in bare : n \notin Name \/ \A r \in Renames : n \notin {r[1], r[2]}}
    \cup {r[2] : r \in {x \in Renames : /\ {x[1], x[2]} \cap bare # {}
                                        /\ DirAt(x[1]) \cup DirAt(x[2]) = {}}}

ApplyIdentities ==
  /\ pull.phase = "identities"
  /\ IF \/ \E f \in LeftOut : ~ Unchanged(f)
        \/ \E r \in Renames : Refused(r[1], r[2])
     THEN Stop
     ELSE /\ place' = [u \in Uuid |->
                         IF place[u] # None /\ ~ place[u].bin
                         THEN Live(Renamed(place[u].name)) ELSE place[u]]
          /\ bare' = BareAfter
          /\ store' = [store EXCEPT !.rows = Projection(store.rows),
                                    !.docs = MovePaths(store.docs, Renamed)]
          /\ pull' = [GoOn("restores") EXCEPT
                        !.through = Renames,
                        !.renamed = {r \in Renames : Exists(r[1])},
                        !.todo = {f \in LiveRows(Snap) : place[f] # None /\ place[f].bin},
                        !.deferred = LeftOut # {}]
          /\ UNCHANGED at
          /\ StillLocal

\* Documents keep the path the server knows; here they stand where their folder
\* went, in this pull or an earlier one.
StoredPrefix(d) ==
  /\ Known(d)
  /\ store.docs[d].path # store.docs[d].sent
  /\ store.docs[d].path \in Uuid => place[store.docs[d].path].name # store.docs[d].sent

Projected(d) ==
  LET raw == Last(Snap.docs[d]).dir
  IN  IF StoredPrefix(d) /\ store.docs[d].sent = raw
      THEN store.docs[d].path
      ELSE IF \E r \in pull.through : r[1] = raw
      THEN (CHOOSE r \in pull.through : r[1] = raw)[2]
      ELSE raw

LivePaths ==
  {<<Projected(d), d>> : d \in {e \in LiveDocs(Snap) : Projected(e) \in Name}}

-----------------------------------------------------------------------------
(* _apply_remote_folder_restores *)

\* _folder_move_is_safe: no document under the path is being written or waits.
Safe(path) ==
  /\ \A d \in queued \cap Document : store.docs[d].path # path
  /\ \A d \in typing : PathOf(d) # path

\* A directory that took the name while its folder was in the trash, and whose
\* own row is deleted in that very slot.
Replacement(n) ==
  {u \in DirAt(n) \cap Folder :
     /\ Snap.rows[u] # <<>> /\ ~ Alive(Snap.rows[u]) /\ Last(Snap.rows[u]).name = n
     /\ Safe(n) /\ Empty(n)}

\* It lands under the name the trash remembers, not the one of its row.
RestoreFolder(f) ==
  LET n      == NameOf(Snap, f)
      gone   == Replacement(n)
      landed == place[f].name
      free   == DirAt(n) = gone /\ n \notin bare
      taken  == landed # n /\ Exists(landed)
      moves  == free /\ ~ taken
      Where(path) == IF path = n /\ gone # {} THEN CHOOSE u \in gone : TRUE
                     ELSE IF path = f /\ moves THEN landed ELSE path
  IN  /\ f \in pull.todo
      /\ IF ~ Safe(f)
         THEN UNCHANGED <<place, store>> /\ pull' = [pull EXCEPT !.todo = @ \ {f}]
         ELSE /\ place' = [u \in Uuid |->
                             IF u \in gone THEN Binned(n)
                             ELSE IF u = f /\ moves THEN Live(landed) ELSE place[u]]
              /\ store' = [store EXCEPT !.docs = MovePaths(store.docs, Where)]
              /\ pull' = IF free /\ taken THEN Blocked
                         ELSE [pull EXCEPT !.todo = @ \ {f}]
      /\ UNCHANGED <<at, bare>>
      /\ StillLocal

ApplyRestores ==
  /\ pull.phase = "restores"
  /\ IF pull.todo = {}
     THEN pull' = GoOn("moves") /\ UNCHANGED device /\ StillLocal
     ELSE \E f \in Folder : RestoreFolder(f)

-----------------------------------------------------------------------------
(* _move_remote_renamed_folders: a directory without a row, moved after its     *)
(* documents when every one of them goes to the same place                      *)

Headed(n) == {Projected(d) : d \in {e \in LocalDocsAt(n) : Alive(Snap.docs[e])}} \ {n}

Follows(n, new) ==
  /\ Headed(n) = {new}
  /\ n \notin OrderNames /\ new \in OrderNames
  /\ \A d \in LocalDocsAt(n) :
       /\ d \notin queued /\ (d \in typing => PathOf(d) \notin {n, new})
       /\ Alive(Snap.docs[d]) /\ Projected(d) = new
  /\ DirAt(n) # {} /\ ~ Exists(new)

ApplyMoves ==
  LET moved == {u \in Uuid : \E n, new \in Name : place[u] = Live(n) /\ Follows(n, new)}
  IN  /\ pull.phase = "moves"
      /\ place' = [u \in Uuid |->
                     IF u \in moved
                     THEN Live(CHOOSE new \in Name : Follows(place[u].name, new))
                     ELSE place[u]]
      /\ past' = [past EXCEPT !.inferred = @ \cup moved]
      /\ pull' = [GoOn("documents") EXCEPT !.todo = LiveDocs(Snap) \cup DeadDocs(Snap)]
      /\ UNCHANGED <<server, peer, at, bare, store, queued, typing, bounds>>

-----------------------------------------------------------------------------
(* The documents: tombstones first, then by revision *)

Before(d, e) ==
  IF Alive(Snap.docs[d]) = Alive(Snap.docs[e])
  THEN Len(Snap.docs[d]) < Len(Snap.docs[e])
  ELSE Alive(Snap.docs[e])

Turn(d) == d \in pull.todo /\ \A e \in pull.todo : ~ Before(e, d)

Stored(d, path, deleted) ==
  [store EXCEPT !.docs[d] =
     [revision |-> Len(Snap.docs[d]), path |-> path,
      sent |-> Last(Snap.docs[d]).dir, deleted |-> deleted]]

Newer(d) == Known(d) => Len(Snap.docs[d]) > store.docs[d].revision
Waits(d, path) ==
  d \in queued \/ (d \in typing /\ PathOf(d) \in {path, store.docs[d].path})

Done(d) == [pull EXCEPT !.todo = @ \ {d}]
Fails(d) == [Done(d) EXCEPT !.failed = TRUE]

\* A deleted document whose file came back with its folder is copied beside it,
\* and the copy cannot have the identity the file still has.
Returned(d) == Known(d) /\ store.docs[d].deleted /\ store.docs[d].path \in Name

ApplyTombstone(d) ==
  /\ Turn(d) /\ d \in DeadDocs(Snap)
  /\ IF Waits(d, Last(Snap.docs[d]).dir) \/ ~ (Newer(d) \/ Returned(d))
     THEN pull' = Done(d) /\ UNCHANGED device
     ELSE IF Returned(d) /\ InBinder(d)
     THEN pull' = Fails(d) /\ bare' = bare \cup {Trash} /\ UNCHANGED <<place, at, store>>
     ELSE /\ at' = [at EXCEPT ![d] = IF @ # None /\ ~ InBinder(d) THEN @ ELSE Trash]
          /\ store' = Stored(d, IF at'[d] = Trash THEN Trash ELSE PathIn(at'[d]), TRUE)
          /\ pull' = Done(d)
          /\ UNCHANGED <<place, bare>>
  /\ StillLocal

Missing(d) ==
  /\ Known(d) /\ ~ store.docs[d].deleted
  /\ Len(Snap.docs[d]) = store.docs[d].revision
  /\ store.docs[d].path = Projected(d) /\ PathOf(d) # Projected(d)

\* The identity a directory gets: the row's, unless it is on record elsewhere; its
\* own where no row names it.
Host(n) ==
  IF DirAt(n) # {} THEN DirAt(n)
  ELSE IF RowIdAt(Snap, n) # {} THEN {f \in RowIdAt(Snap, n) : place[f] = None}
  ELSE LET free == {o \in Own : place[o] = None}
       IN  IF free = {} THEN {} ELSE {CHOOSE o \in free : TRUE}

\* identity_uuid_conflicts: the directory has another identity than its row.
Crossed(n) == DirAt(n) # {} /\ RowIdAt(Snap, n) # {} /\ DirAt(n) # RowIdAt(Snap, n)

Housed(n, host) == [place EXCEPT ![host] = Live(n)]

\* The file moves, or is written for the first time; a directory is made before
\* its identity is asked for only for a file that moves.
WriteDocument(d, n) ==
  LET moving == Known(d) /\ store.docs[d].path # n /\ PathOf(d) = store.docs[d].path
      stuck  == \/ ~ moving /\ at[d] # None /\ PathOf(d) # n
                \/ PathOf(d) # n /\ Host(n) = {}
      named  == PathOf(d) = n
  IN  IF stuck
      THEN /\ pull' = [Fails(d) EXCEPT !.clash = @ \/ Crossed(n)]
           /\ bare' = IF moving /\ ~ Exists(n) THEN bare \cup {n} ELSE bare
           /\ UNCHANGED <<place, at, store, bounds>>
      ELSE \E host \in IF named THEN {at[d]} ELSE Host(n) :
             /\ \/ /\ pull' = [Done(d) EXCEPT !.clash = @ \/ (~ named /\ Crossed(n))]
                   /\ place' = Housed(n, host)
                   /\ bare' = bare \ {n}
                   /\ at' = [at EXCEPT ![d] = host]
                   /\ store' = Stored(d, n, FALSE)
                   /\ UNCHANGED bounds
                \/ /\ bounds.faults < MaxFaults     \* the write fails
                   /\ Counted("faults")
                   /\ pull' = [Done(d) EXCEPT !.clash = @ \/ (~ named /\ Crossed(n))]
                   /\ place' = IF moving THEN Housed(n, host) ELSE place
                   /\ bare' = IF moving THEN bare \ {n} ELSE bare
                   /\ UNCHANGED <<at, store>>

ApplyDocument(d) ==
  /\ Turn(d) /\ d \in LiveDocs(Snap)
  /\ LET n == Projected(d)
     IN  IF n \notin Name \/ Waits(d, n) \/ ~ (Newer(d) \/ Missing(d))
         THEN pull' = Done(d) /\ UNCHANGED <<device, bounds>>
         ELSE WriteDocument(d, n)
  /\ UNCHANGED <<server, peer, queued, typing, past>>

ApplyDocuments ==
  /\ pull.phase = "documents"
  /\ \/ pull.todo = {} /\ pull' = GoOn("order") /\ UNCHANGED device /\ StillLocal
     \/ \E d \in Document : ApplyTombstone(d) \/ ApplyDocument(d)

-----------------------------------------------------------------------------
(* The tree order *)

\* _build_remote_tree_folder_plan: every entry is a live document, or a folder
\* that stands or has a row.
Unresolved ==
  \/ ~ (Snap.order.layout.leaves \subseteq LivePaths)
  \/ \E n \in OrderNames : ~ Exists(n) /\ RowIdAt(Snap, n) = {}

\* Documents that are here and on the server, or were made here, keep their
\* entry when an older order leaves them out.
Retained ==
  {l \in store.order.shown.leaves :
     /\ l[1] \in OrderNames /\ l[1] = PathOf(l[2])
     /\ l \in LivePaths \/ (l[2] \in queued /\ store.docs[l[2]].revision = 0)}

Shown == Layout(OrderNames, Snap.order.layout.leaves \cup Retained)

\* _build_remote_empty_folder_rename_plan: one empty folder for another in an
\* order that is otherwise the one last applied.
Swapped(old, new) ==
  /\ Snap.order.revision > store.order.revision
  /\ store.order.shown = store.order.base
  /\ OrderNames = (store.order.base.folders \ {old}) \cup {new}
  /\ old \in store.order.base.folders \ {new}
  /\ Snap.order.layout.leaves = store.order.base.leaves
  /\ \A l \in store.order.base.leaves : l[1] # old
  /\ DirAt(old) # {} /\ Empty(old) /\ ~ Exists(new)

\* Adopted under the row's identity where there is a row.
Unnamed(dirs) == {n \in OrderNames : ~ \E u \in Uuid : dirs[u] = Live(n)}
Adopts(dirs, hosts) ==
  /\ DOMAIN hosts = Unnamed(dirs)
  /\ \A n \in DOMAIN hosts :
       \/ hosts[n] \in RowIdAt(Snap, n) /\ dirs[hosts[n]] = None
       \/ RowIdAt(Snap, n) = {} /\ hosts[n] \in Own /\ dirs[hosts[n]] = None
  /\ \A n, k \in DOMAIN hosts : hosts[n] = hosts[k] => n = k

Adopted(dirs, hosts) ==
  [u \in Uuid |->
     IF \E n \in DOMAIN hosts : hosts[n] = u
     THEN Live(CHOOSE n \in DOMAIN hosts : hosts[n] = u) ELSE dirs[u]]

Materialize(dirs) ==
  LET plans == {h \in UNION {[N -> Uuid] : N \in SUBSET Name} : Adopts(dirs, h)}
  IN  IF plans = {}
      THEN /\ pull' = [GoOn("folders") EXCEPT !.failed = TRUE,
                                              !.todo = Folder \ LiveRows(Snap)]
           /\ UNCHANGED device
      ELSE \E h \in plans :
             /\ place' = Adopted(dirs, h)
             /\ bare' = bare \ OrderNames
             /\ store' = [store EXCEPT !.order =
                            [revision |-> Snap.order.revision,
                             base |-> Snap.order.layout, shown |-> Shown]]
             /\ pull' = [GoOn("folders") EXCEPT
                           !.clash = @ \/ \E n \in OrderNames : Crossed(n),
                           !.todo = Folder \ LiveRows(Snap)]
             /\ UNCHANGED at

Defer ==
  /\ pull' = [GoOn("folders") EXCEPT !.deferred = TRUE, !.todo = Folder \ LiveRows(Snap)]
  /\ UNCHANGED device

Outdone == \/ Snap.order.revision < store.order.revision
           \/ Snap.order.revision = store.order.revision /\ Tree \in queued

\* Nothing to do: the same order, shown as it would be, all folders standing.
AlreadyApplied ==
  /\ Snap.order.revision = store.order.revision /\ Tree \notin queued
  /\ store.order.base = Snap.order.layout /\ store.order.shown = Shown
  /\ \A n \in OrderNames : Exists(n)

ApplyOrder ==
  /\ pull.phase = "order"
  /\ \/ /\ pull.deferred \/ Unresolved
        /\ Defer
        /\ UNCHANGED <<bounds, past>>
     \/ /\ ~ pull.deferred /\ ~ Unresolved
        /\ IF Outdone \/ AlreadyApplied
           THEN /\ pull' = [GoOn("folders") EXCEPT !.todo = Folder \ LiveRows(Snap)]
                /\ UNCHANGED <<device, bounds, past>>
           ELSE \/ Materialize(place) /\ UNCHANGED <<bounds, past>>
                \/ \E old, new \in Name :
                     /\ Swapped(old, new)
                     /\ Materialize([u \in Uuid |-> IF place[u] = Live(old) THEN Live(new)
                                                    ELSE place[u]])
                     /\ past' = [past EXCEPT !.inferred = @ \cup DirAt(old)]
                     /\ UNCHANGED bounds
     \/ /\ ~ pull.deferred /\ ~ Unresolved /\ ~ Outdone /\ ~ AlreadyApplied
        /\ bounds.faults < MaxFaults                    \* the settings are not saved
        /\ Counted("faults")
        /\ Defer /\ UNCHANGED past
  /\ UNCHANGED <<server, peer, queued, typing>>

-----------------------------------------------------------------------------
(* The folders deleted elsewhere, and the verdict *)

\* _apply_remote_folder_tombstones
Doomed ==
  {f \in pull.todo : /\ Snap.rows[f] # <<>>
                     /\ place[f] # None /\ ~ place[f].bin
                     /\ Safe(place[f].name)}

ApplyFolderTombstones ==
  /\ pull.phase = "folders"
  /\ place' = [u \in Uuid |-> IF u \in Doomed THEN Binned(place[u].name) ELSE place[u]]
  /\ store' = [store EXCEPT !.docs = MovePaths(store.docs,
                 LAMBDA path : IF \E f \in Doomed : path = place[f].name
                               THEN CHOOSE f \in Doomed : path = place[f].name
                               ELSE path)]
  /\ pull' = [GoOn("audit") EXCEPT !.todo = Doomed]
  /\ past' = [past EXCEPT !.swept = @ \cup {d \in LiveDocs(Snap) : at[d] \in Doomed}]
  /\ UNCHANGED <<server, peer, at, bare, queued, typing, bounds>>

\* _restore_folder_snapshots: the rows from before, but for those whose rename
\* has landed.
RowsBefore ==
  [f \in Folder |->
     IF store.rows[f] = None THEN None
     ELSE IF pull.before[f] = None \/ pull.before[f].deleted
     THEN [store.rows[f] EXCEPT !.deleted = TRUE]
     ELSE IF \E r \in pull.renamed : r[1] = pull.before[f].name
     THEN store.rows[f] ELSE pull.before[f]]

\* _identity_audit_is_clean
Divergent ==
  \/ pull.clash
  \/ bare # {}
  \/ \E f \in Folder : /\ StoredLive(f)
                       /\ \/ DirAt(store.rows[f].name) \ {f} # {}
                          \/ place[f] # None /\ place[f] # Live(store.rows[f].name)
  \/ \E d \in Document : /\ Known(d) /\ ~ store.docs[d].deleted
                         /\ at[d] # None /\ PathOf(d) # store.docs[d].path

Applied == pull.phase = "audit" /\ ~ pull.failed /\ ~ Divergent

Finish ==
  /\ pull.phase = "audit"
  /\ pull' = IF pull.failed \/ Divergent THEN Blocked ELSE Idle
  /\ store' = IF pull.failed THEN [store EXCEPT !.rows = RowsBefore] ELSE store
  /\ UNCHANGED <<place, at, bare>>
  /\ StillLocal

\* The process ends between two steps of the application, or anywhere else.
Restart ==
  /\ bounds.faults < MaxFaults
  /\ pull.phase # "idle"
  /\ Counted("faults")
  /\ pull' = Idle
  /\ typing' = {}
  /\ UNCHANGED <<server, peer, device, queued, past>>

-----------------------------------------------------------------------------
(* The project as it was when both devices last agreed *)

Binders == {b \in [dirs : [Folder -> Name \cup {None}], docs : [Document -> Folder \cup {None}]] :
              /\ \A f, g \in Folder : b.dirs[f] = b.dirs[g] /\ b.dirs[f] # None => f = g
              /\ \A d \in Document : b.docs[d] # None => b.dirs[b.docs[d]] # None}

Agreed(b) ==
  LET layout == Layout(Taken(b.dirs),
                       {<<b.dirs[b.docs[d]], d>> : d \in {e \in Document : b.docs[e] # None}})
      rows == [f \in Folder |-> IF b.dirs[f] = None THEN <<>> ELSE <<Row(b.dirs[f], FALSE)>>]
      docs == [d \in Document |->
                 IF b.docs[d] = None THEN <<>> ELSE <<Text(b.dirs[b.docs[d]], FALSE)>>]
      seen == [x \in Folder \cup Document |->
                 IF x \in Folder THEN Len(rows[x]) ELSE Len(docs[x])]
  IN  /\ peer = b
      /\ server = [rows |-> rows, docs |-> docs,
                   order |-> [revision |-> 1, layout |-> layout, seen |-> seen]]
      /\ place = [u \in Uuid |-> IF u \in Folder /\ rows[u] # <<>> THEN Live(b.dirs[u]) ELSE None]
      /\ at = b.docs
      /\ store =
           [rows |-> [f \in Folder |->
                        IF rows[f] = <<>> THEN None
                        ELSE [revision |-> 1, name |-> b.dirs[f], deleted |-> FALSE]],
            docs |-> [d \in Document |->
                        IF docs[d] = <<>> THEN None
                        ELSE [revision |-> 1, path |-> b.dirs[b.docs[d]],
                              sent |-> b.dirs[b.docs[d]], deleted |-> FALSE]],
            order |-> [revision |-> 1, base |-> layout, shown |-> layout]]

TreeInit ==
  /\ \E b \in Binders : Agreed(b)
  /\ bare = {} /\ queued = {} /\ typing = {}
  /\ pull = Idle
  /\ bounds = [changes |-> 0, local |-> 0, faults |-> 0]
  /\ past = [inferred |-> {}, retried |-> FALSE, swept |-> {}]

PeerNext ==
  \/ \E f \in Folder, n \in Name : PeerNames(f, n)
  \/ \E f \in Folder : PeerDeletes(f) \/ PublishRow(f)
  \/ \E d \in Document, f \in Folder \cup {None} : PeerPuts(d, f)
  \/ \E d \in Document : PublishDocument(d)
  \/ PublishOrder

WriterNext ==
  \/ \E d \in Document : Types(d) \/ Saves(d) \/ Sends(d)
  \/ \E d \in Document, u \in Uuid : Creates(d, u) \/ Moves(d, u)
  \/ SendsOrder

PullNext ==
  \/ StartPull \/ ReadDocuments \/ ReadFolders \/ BeginApply \/ Retry
  \/ ApplyIdentities \/ ApplyRestores \/ ApplyMoves \/ ApplyDocuments
  \/ ApplyOrder \/ ApplyFolderTombstones \/ Finish

\* While the snapshot is applied the writer waits, and what the other device
\* does cannot be seen.
TreeNext == PullNext \/ Restart \/ (~ Applying /\ (PeerNext \/ WriterNext))

TreeSpec == TreeInit /\ [][TreeNext]_treeVars

-----------------------------------------------------------------------------
(* Properties *)

\* Whatever a pull brings, a document with unsent work stays in its directory,
\* under the path its editor was opened with.
LocalWorkStays ==
  [][Applying => \A d \in (queued \cup typing) \cap Document :
                   at'[d] = at[d] /\ PathOf(d) = PathOf(d)']_treeVars

Published(s) ==
  /\ \A f \in Folder : IF peer.dirs[f] = None THEN ~ Alive(s.rows[f])
                        ELSE f \in RowIdAt(s, peer.dirs[f])
  /\ \A d \in Document : IF peer.docs[d] = None THEN ~ Alive(s.docs[d])
                          ELSE Alive(s.docs[d]) /\ Last(s.docs[d]).dir = peer.dirs[peer.docs[d]]
  /\ s.order.layout = PeerLayout

\* A folder made elsewhere under the name of one this pull binned, which the
\* tree order has named all along: the next pull makes it.
Replaces(f) == \E g \in pull.todo : place[g] = Binned(peer.dirs[f])

\* A pull that ends well with everything the other device has leaves the same
\* binder here, after any torn readings before it; unless a rename was inferred,
\* a pull was blocked, or a write failed. Only a folder made in the place of one
\* just binned may wait for the next pull, and a document that went to the trash
\* with its directory stays there.
AppliedPullAgrees ==
  [][/\ Finish /\ Applied /\ ~ pull.deferred
     /\ past.inferred = {} /\ ~ past.retried /\ bounds.faults = 0
     /\ Published(Snap) /\ queued = {} /\ typing = {}
     => /\ \A f \in Folder : IF peer.dirs[f] = None THEN place[f] # None => place[f].bin
                              ELSE \/ place[f] = Live(peer.dirs[f])
                                   \/ place[f] = None /\ Replaces(f)
        /\ \A d \in Document : IF peer.docs[d] = None THEN ~ InBinder(d)
                                ELSE at[d] = peer.docs[d] \/ d \in past.swept]_treeVars

\* "A blocked pull must not leave the database describing folders identity never
\* heard of." (_apply_v2_remote_documents)
RowsAreNamed ==
  pull.phase = "blocked" => \A f \in Folder : StoredLive(f) => place[f] # None
=============================================================================
