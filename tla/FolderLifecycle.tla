---------------------------- MODULE FolderLifecycle ----------------------------
(***************************************************************************)
(* Volumes of a manuscript that one device creates, throws away and takes  *)
(* back while its queue is on its way: a volume has a folder identity on   *)
(* the server, chapters that are documents, and a place in the tree order, *)
(* a document of its own.  Folder rows are written by commit_folder, which *)
(* only the worker that carries a tree order or a chapter calls.           *)
(*                                                                         *)
(* A Text is a set: of volumes and chapters for a tree order, the chapter  *)
(* itself (and Note, once edited) for a chapter, {} for a tombstone.       *)
(***************************************************************************)
EXTENDS OperationStore

LOCAL INSTANCE FiniteSets
LOCAL INSTANCE FiniteSetsExt

CONSTANTS
  Volume, Chapter,
  Home,          \* the volume of each chapter
  Tree,          \* __antigravity__/tree-order.json
  Note,          \* what an edit adds to a chapter
  Nothing,
  MaxEdits,      \* bound: what the writer does
  MaxForeign     \* bound: what other devices do

VARIABLES
  store,         \* the SQLite queue
  intents,       \* sync_folder_delete_intents, the open one of each volume
  barrier,       \* sync_tree_barriers: an order that waits for chapters
  known,         \* sync_folders: what the device knows of the folder rows
  place,         \* identity: where each volume is on this device
  moving,        \* the volume a deletion has moved to the trash
  torn,          \* volumes whose deletion a crash or a refusal cut short
  cache,         \* the live volumes last published, and those confirmed
  worker,        \* the operation in flight
  server,        \* the server's documents
  rows,          \* the server's folder rows
  taken,         \* names another device's folder holds
  applied,       \* operations the server has applied
  edits, foreign

localVars == <<intents, barrier, known, place, moving, torn>>
serverVars == <<server, rows, taken, applied>>
bounds == <<edits, foreign>>
lifeVars == <<store, localVars, cache, worker, serverVars, bounds>>

Free == worker = Nothing

Carried == store.ops[worker.op]

In(v) == {c \in Chapter : Home[c] = v}

\* The order of the binder as it stands, and its folder-only skeleton.
Standing(p) == {v \in Volume : p[v] = "live"}

WholeOrder(p) == Standing(p) \cup {c \in Chapter : p[Home[c]] = "live"}

IsSkeleton(o) ==
  o.doc = Tree /\ o.text \cap Volume # {} /\ o.text \cap Chapter = {}

-----------------------------------------------------------------------------
(* Delete intents and tree orders in the store *)

Pending(its) == {v \in Volume : its[v] # Nothing}

\* The operation an enqueue hands back: the new one, or the one it repeats.
Queued(s, d) == Last(WaitingOf(s, d))

Attachable(intent, v, order, op) ==
  /\ intent.status # "blocked"
  /\ v \notin order
  /\ intent.tree \in {0, op}

Carries(its, order, op) ==
  {v \in Pending(its) : Attachable(its[v], v, order, op)}

\* attach_folder_delete_tree_operation raises when one of them was pinned to
\* another order; the order is queued all the same.
PinnedElsewhere(its, order, op) ==
  \E v \in Carries(its, order, op) : its[v].order # order

Attach(its, order, op) ==
  [v \in Volume |-> IF v \in Carries(its, order, op) THEN [its[v] EXCEPT !.tree = op]
                    ELSE its[v]]

TreeIsRecorded(s, its, order) ==
  /\ s.rows[Tree].base = order
  /\ ~ HasActive(s, Tree)
  /\ Pending(its) = {}

RecordTreeOrder(s, its, order) ==
  LET t  == Enqueue(s, Tree, order)
      op == Queued(t, Tree)
  IN  IF TreeIsRecorded(s, its, order)
      THEN [store |-> s, intents |-> its, raised |-> FALSE]
      ELSE IF PinnedElsewhere(its, order, op)
      THEN [store |-> t, intents |-> its, raised |-> TRUE]
      ELSE [store |-> t, intents |-> Attach(its, order, op), raised |-> FALSE]

\* One save of each chapter of C.
EnqueueAll(s, C, live) ==
  FoldSet(LAMBDA c, t : Enqueue(t, c, IF live THEN {c} ELSE {}), s, C)

\* Chapters a deletion has to tell the server about.
Tombstoned(s, v) ==
  {c \in In(v) : /\ s.rows[c] # NoRow
                 /\ s.rows[c].revision > 0 \/ HasActive(s, c)}

\* prepare_folder_delete_intent finds a folder to pin only once sync_folders
\* has a live row of it.
Pinned(s, v, order) ==
  IF known[v] = Nothing \/ ~ known[v].live THEN Nothing
  ELSE [base |-> known[v].revision, chapters |-> Tombstoned(s, v),
        tombs |-> [c \in Chapter |-> 0], order |-> order, tree |-> 0,
        status |-> "prepared"]

\* An open intent of the same folder is taken up again, unless it names
\* another revision.
SameIdentity(old, new) ==
  {old, new} \cap {Nothing} = {} => old.base = new.base

TakeUp(old, new) == IF old = Nothing \/ new = Nothing THEN new ELSE old

\* bind_folder_delete_document_operations: each dependency once, for good.
Bindable(intent, ops) ==
  /\ intent.chapters = DOMAIN ops
  /\ \A c \in DOMAIN ops : intent.tombs[c] \in {0, ops[c]}

Bind(intent, ops) ==
  [intent EXCEPT
     !.tombs = [c \in Chapter |-> IF c \in DOMAIN ops THEN ops[c] ELSE 0],
     !.status = "documents_pending"]

-----------------------------------------------------------------------------
(* The binder.  Each holds the structure gate from beginning to end. *)

Edit == edits < MaxEdits /\ edits' = edits + 1 /\ UNCHANGED foreign

AtRest == moving = Nothing

\* defer_tree_order: the newest order, after the chapters of all of them.
Deferred(sent, v) ==
  [order |-> WholeOrder([place EXCEPT ![v] = "live"]),
   ops |-> {Queued(sent, c) : c \in In(v)}
             \cup (IF barrier = Nothing THEN {} ELSE barrier.ops)]

\* add_volume: the folders first, then the chapters, and the whole order
\* when the chapters have arrived.
AddVolume(v) ==
  /\ Edit /\ AtRest
  /\ place[v] = "none" /\ In(v) # {}
  /\ place' = [place EXCEPT ![v] = "live"]
  /\ LET told == RecordTreeOrder(store, intents, Standing(place'))
         sent == EnqueueAll(told.store, In(v), TRUE)
     IN  /\ intents' = told.intents
         /\ IF told.raised THEN store' = told.store /\ UNCHANGED barrier
            ELSE store' = sent /\ barrier' = Deferred(sent, v)
  /\ UNCHANGED <<known, moving, torn, cache, worker, serverVars>>

\* A folder without chapters has only its place in the order to publish.
CreateFolder(v) ==
  /\ Edit /\ AtRest
  /\ place[v] = "none" /\ In(v) = {}
  /\ place' = [place EXCEPT ![v] = "live"]
  /\ LET told == RecordTreeOrder(store, intents, WholeOrder(place'))
     IN  store' = told.store /\ intents' = told.intents
  /\ UNCHANGED <<barrier, known, moving, torn, cache, worker, serverVars>>

EditChapter(c) ==
  /\ Edit /\ AtRest
  /\ place[Home[c]] = "live"
  /\ store' = Enqueue(store, c, {c, Note})
  /\ UNCHANGED <<localVars, cache, worker, serverVars>>

\* delete_tree_item, up to the moment the files are in the trash.
BeginDelete(v) ==
  /\ Edit /\ AtRest
  /\ place[v] = "live"
  /\ LET after == [place EXCEPT ![v] = "trash"]
         new   == Pinned(store, v, WholeOrder(after))
     IN  /\ SameIdentity(intents[v], new)
         /\ intents' = [intents EXCEPT ![v] = TakeUp(@, new)]
         /\ place' = after
  /\ moving' = v
  /\ UNCHANGED <<store, barrier, known, torn, cache, worker, serverVars>>

\* The tombstones are queued before they are bound; when the binding or the
\* order is refused the files come back and what was queued stays queued.
FinishTombstones(v, sent, ops) ==
  IF intents[v] # Nothing /\ ~ Bindable(intents[v], ops)
  THEN /\ store' = sent
       /\ place' = [place EXCEPT ![v] = "live"]
       /\ torn' = torn \cup {v}
       /\ UNCHANGED intents
  ELSE \E bound \in {IF intents[v] = Nothing THEN intents
                     ELSE [intents EXCEPT ![v] = Bind(@, ops)]} :
       \E told \in {RecordTreeOrder(sent, bound, WholeOrder(place))} :
         /\ store' = told.store
         /\ intents' = told.intents
         /\ place' = IF told.raised THEN [place EXCEPT ![v] = "live"] ELSE place
         /\ torn' = IF told.raised THEN torn \cup {v} ELSE torn

FinishDelete ==
  /\ moving # Nothing
  /\ \E gone \in {Tombstoned(store, moving)} :
       \E sent \in {EnqueueAll(store, gone, FALSE)} :
         FinishTombstones(moving, sent, [c \in gone |-> Queued(sent, c)])
  /\ moving' = Nothing
  /\ UNCHANGED <<barrier, known, cache, worker, serverVars, bounds>>

\* restore_trash_item: the chapters first; the order waits for them.
RestoreVolume(v) ==
  /\ Edit /\ AtRest
  /\ place[v] = "trash"
  /\ LET back == [place EXCEPT ![v] = "live"]
         sent == EnqueueAll(store, In(v), TRUE)
         told == RecordTreeOrder(store, intents, WholeOrder(back))
     IN  /\ place' = IF In(v) = {} /\ told.raised THEN place ELSE back
         /\ IF In(v) = {}
            THEN store' = told.store /\ intents' = told.intents /\ UNCHANGED barrier
            ELSE store' = sent /\ barrier' = Deferred(sent, v) /\ UNCHANGED intents
  /\ UNCHANGED <<known, moving, torn, cache, worker, serverVars>>

-----------------------------------------------------------------------------
(* The GUI thread between edits *)

\* next_ready_operation: a folder skeleton overtakes everything.
NextReady(s) ==
  LET skeletons == {i \in Dispatchable(s) : IsSkeleton(s.ops[i])}
  IN  IF skeletons # {} THEN First(skeletons) ELSE First(Dispatchable(s))

Dispatch ==
  /\ Free
  /\ Dispatchable(store) # {}
  /\ store' = MarkAttempt(store, NextReady(store))
  /\ worker' = [op |-> NextReady(store), phase |-> "sent"]
  /\ UNCHANGED <<localVars, cache, serverVars, bounds>>

\* Nothing is ready: an edit behind an operation that stopped goes next.
Recover(d) ==
  /\ Free
  /\ Dispatchable(store) = {}
  /\ Stranded(store, d)
  /\ store' = RecoverStranded(store, d)
  /\ UNCHANGED <<localVars, cache, worker, serverVars, bounds>>

\* mark_success: a tree order that arrived closes the deletions it carried.
CloseIntents(its, op) ==
  [v \in Volume |->
     IF /\ its[v] # Nothing
        /\ its[v].tree = op
        /\ its[v].status \in {"folder_committed", "tree_pending"}
     THEN Nothing ELSE its[v]]

\* Superseded operations count as finished here.
BarrierIsReady(s) ==
  /\ barrier # Nothing
  /\ \A i \in barrier.ops : s.ops[i].state \in TerminalStates

HandleRetry ==
  /\ worker.phase = "retry"
  /\ store' = MarkRetry(store, worker.op)
  /\ UNCHANGED <<intents, barrier>>

HandleSuccess ==
  /\ worker.phase = "committed"
  /\ \E done \in {MarkSuccess(store, worker.op, Carried.base + 1)},
        open \in {CloseIntents(intents, worker.op)} :
       IF ~ BarrierIsReady(done) THEN store' = done /\ intents' = open /\ UNCHANGED barrier
       ELSE \E told \in {RecordTreeOrder(done, open, barrier.order)} :
              /\ store' = told.store
              /\ intents' = told.intents
              /\ barrier' = IF told.raised THEN barrier ELSE Nothing

HandleFinished ==
  /\ ~ Free /\ AtRest
  /\ HandleRetry \/ HandleSuccess
  /\ worker' = Nothing
  /\ UNCHANGED <<known, place, moving, torn, cache, serverVars, bounds>>

\* A pull with nothing queued learns the folder rows; a row the server no
\* longer lists keeps the revision it had.
PullFolders ==
  /\ Free /\ AtRest
  /\ \A d \in Document : ~ HasActive(store, d)
  /\ known' = [v \in Volume |->
       IF rows[v].live THEN rows[v]
       ELSE IF known[v] = Nothing THEN Nothing
       ELSE [known[v] EXCEPT !.live = FALSE]]
  /\ known' # known
  /\ UNCHANGED <<store, intents, barrier, place, moving, torn, cache, worker,
                 serverVars, bounds>>

\* The process dies, perhaps between the two halves of a deletion.
Restart ==
  /\ foreign < MaxForeign
  /\ foreign' = foreign + 1
  /\ store' = RecoverInterruptedDispatches(store)
  /\ torn' = IF AtRest THEN torn ELSE torn \cup {moving}
  /\ moving' = Nothing
  /\ cache' = Nothing
  /\ worker' = Nothing
  /\ UNCHANGED <<intents, barrier, known, place, serverVars, edits>>

-----------------------------------------------------------------------------
(* The worker thread *)

Goes(phase) == worker' = [worker EXCEPT !.phase = phase]

\* commit_folder by this device: a live row, at its next revision.
Published(r, V) ==
  [v \in Volume |-> IF v \in V THEN [revision |-> r[v].revision + 1, live |-> TRUE]
                    ELSE r[v]]

Removed(r, V) ==
  [v \in Volume |-> IF v \in V THEN [revision |-> r[v].revision + 1, live |-> FALSE]
                    ELSE r[v]]

\* ensure_local_folder writes a row where there is none, at revision 0.
Noticed(k, V) ==
  [v \in Volume |-> IF v \in V /\ k[v] = Nothing
                    THEN [revision |-> 0, live |-> TRUE] ELSE k[v]]

\* Volumes a pass over the live identities still has to create or restore,
\* and those whose name another folder holds.
Missing(V) == {v \in V : ~ rows[v].live} \ taken

Refused(V) == {v \in V : ~ rows[v].live} \cap taken

PublishLive(V) ==
  /\ rows' = Published(rows, Missing(V))
  /\ known' = Noticed(known, Missing(V))

ParentConfirmed(v, confirmed) == v \in confirmed

\* _publish_live_parents_before_legacy_document: the folders are published
\* when the live set differs from the last one published.
SendChapter ==
  /\ ~ Free /\ worker.phase = "sent"
  /\ Carried.doc \in Chapter /\ Carried.text # {}
  /\ LET v == Home[Carried.doc] IN
     IF place[v] # "live"
     THEN Goes("cleared") /\ UNCHANGED <<rows, known, cache>>
     ELSE IF cache # Nothing /\ cache.place = place
     THEN /\ Goes(IF ParentConfirmed(v, cache.confirmed) THEN "cleared" ELSE "retry")
          /\ UNCHANGED <<rows, known, cache>>
     ELSE LET V == Standing(place) IN
          /\ PublishLive(V)
          /\ cache' = [place |-> place, confirmed |-> V \ Refused(V)]
          /\ Goes(IF ParentConfirmed(v, V \ Refused(V)) THEN "cleared" ELSE "retry")
  /\ UNCHANGED <<store, intents, barrier, place, moving, torn, server, taken,
                 applied, bounds>>

SendTombstone ==
  /\ ~ Free /\ worker.phase = "sent"
  /\ Carried.doc \in Chapter /\ Carried.text = {}
  /\ Goes("cleared")
  /\ UNCHANGED <<store, localVars, cache, serverVars, bounds>>

\* Deletions pinned to the tree order in flight, and those whose folder is
\* still to be tombstoned.
Mine == {v \in Pending(intents) : intents[v].tree = worker.op}

Unsettled ==
  {v \in Mine : intents[v].status \notin {"folder_committed", "tree_pending"}}

SendingTree == ~ Free /\ worker.phase = "sent" /\ Carried.doc = Tree

TombOf(v, c) == store.ops[intents[v].tombs[c]]

Unproven(v) ==
  \E c \in intents[v].chapters :
    intents[v].tombs[c] # 0 => TombOf(v, c).state \in {"blocked", "conflict"}

\* Mutant: takes a superseded tombstone for one that arrived.
AwaitsUnfinished(v) ==
  \E c \in intents[v].chapters : Active(TombOf(v, c))

Awaits(v) == \E c \in intents[v].chapters : TombOf(v, c).state # "completed"

WithStatus(V, status) ==
  [v \in Volume |-> IF v \in V THEN [intents[v] EXCEPT !.status = status]
                    ELSE intents[v]]

BlockTree ==
  /\ intents' = WithStatus(Mine, "blocked")
  /\ store' = MarkBlocked(store, worker.op)
  /\ worker' = Nothing
  /\ UNCHANGED <<barrier, known, place, moving, torn, cache, serverVars, bounds>>

\* A tombstone is missing or was refused.
DeletionUnproven ==
  /\ SendingTree
  /\ \E v \in Mine : Unproven(v)
  /\ BlockTree

AwaitTombstones(v) ==
  /\ SendingTree
  /\ v \in Mine /\ ~ Unproven(v) /\ Awaits(v)
  /\ intents' = WithStatus({v}, "documents_pending")
  /\ Goes("retry")
  /\ UNCHANGED <<store, barrier, known, place, moving, torn, cache, serverVars,
                 bounds>>

Proven ==
  SendingTree /\ \A v \in Mine : ~ Unproven(v) /\ ~ Awaits(v)

\* The row was there at another revision, or never.
RowDisagrees(v) ==
  IF rows[v].revision = 0 THEN intents[v].base > 0
  ELSE IF rows[v].live THEN rows[v].revision # intents[v].base
  ELSE rows[v].revision <= intents[v].base

FolderDisagrees(v) ==
  /\ Proven
  /\ v \in Unsettled /\ RowDisagrees(v)
  /\ BlockTree

\* Already gone, or tombstoned now; the answer may be lost.
DeleteFolder(v, answered) ==
  /\ Proven
  /\ v \in Unsettled /\ ~ RowDisagrees(v)
  /\ IF rows[v].live THEN rows' = Removed(rows, {v}) ELSE answered /\ UNCHANGED rows
  /\ IF answered THEN intents' = WithStatus({v}, "folder_committed") /\ UNCHANGED worker
     ELSE intents' = WithStatus({v}, "folder_pending") /\ Goes("retry")
  /\ UNCHANGED <<store, barrier, known, place, moving, torn, cache, server, taken,
                 applied, bounds>>

\* Mutant: looks for pending work of no chapter.
QuietAlways(v) == TRUE

\* No chapter of the volume is on its way.
Quiet(v) == \A c \in In(v) : ~ HasActive(store, c)

\* The folders the identities have thrown away and this order drops.
Dropped ==
  {v \in Volume : /\ place[v] = "trash"
                  /\ rows[v].live
                  /\ v \in Carried.from \ Carried.text
                  /\ Quiet(v)}

Named == Standing(place) \cap Carried.text

\* _commit_outbound_folder_lifecycle within the scope of this order; a name
\* that is taken blocks it.
CarryOrder ==
  /\ Proven
  /\ Unsettled = {}
  /\ rows' = Published(Removed(rows, Dropped), Missing(Named))
  /\ known' = Noticed(known, Missing(Named))
  /\ intents' = WithStatus(Mine, "tree_pending")
  /\ IF Refused(Named) = {}
     THEN Goes("cleared") /\ UNCHANGED store
     ELSE store' = MarkBlockedAndPromoteDependent(store, worker.op) /\ worker' = Nothing
  /\ UNCHANGED <<barrier, place, moving, torn, cache, server, taken, applied, bounds>>

Accepts == Carried.base = server[Carried.doc].revision

\* commit_document applies the operation, or knows it; the answer may be lost.
Commit(answered) ==
  /\ ~ Free /\ worker.phase = "cleared"
  /\ worker.op \in applied \/ Accepts
  /\ applied' = applied \cup {worker.op}
  /\ server' = IF worker.op \in applied THEN server
               ELSE [server EXCEPT ![Carried.doc] =
                       [revision |-> Carried.base + 1, text |-> Carried.text]]
  /\ Goes(IF answered THEN "committed" ELSE "retry")
  /\ UNCHANGED <<store, localVars, cache, rows, taken, bounds>>

\* Another device's order got there first: the orders are merged, or the
\* server's is taken.
MergeTree(merged) ==
  /\ ~ Free /\ worker.phase = "cleared"
  /\ worker.op \notin applied /\ ~ Accepts
  /\ LET base == Carried.from  mine == Carried.text  theirs == server[Tree].text IN
       merged \in {theirs, (mine \cap theirs) \cup (mine \ base) \cup (theirs \ base)}
  /\ store' = RebaseCleanMerge(store, worker.op, server[Tree].revision,
                               server[Tree].text, merged)
  /\ worker' = Nothing
  /\ UNCHANGED <<localVars, cache, serverVars, bounds>>

Fail ==
  /\ ~ Free /\ worker.phase \in {"sent", "cleared"}
  /\ Goes("retry")
  /\ UNCHANGED <<store, localVars, cache, serverVars, bounds>>

-----------------------------------------------------------------------------
(* Another device *)

Foreign == foreign < MaxForeign /\ foreign' = foreign + 1 /\ UNCHANGED edits

\* It arranges the same volumes differently.
ForeignOrder ==
  /\ Foreign
  /\ server' = [server EXCEPT ![Tree].revision = @ + 1]
  /\ UNCHANGED <<store, localVars, cache, worker, rows, taken, applied>>

\* It creates a folder of the same name under an identity of its own.
ForeignTakes(v) ==
  /\ Foreign
  /\ ~ rows[v].live /\ v \notin taken
  /\ taken' = taken \cup {v}
  /\ UNCHANGED <<store, localVars, cache, worker, server, rows, applied>>

-----------------------------------------------------------------------------
NoFolder == [revision |-> 0, live |-> FALSE]

\* A project all of whose volumes V have been published and pulled.
LifeInit ==
  \E V \in SUBSET Volume :
    /\ place = [v \in Volume |-> IF v \in V THEN "live" ELSE "none"]
    /\ rows = [v \in Volume |-> IF v \in V THEN [revision |-> 1, live |-> TRUE]
                                ELSE NoFolder]
    /\ known = [v \in Volume |-> IF v \in V THEN rows[v] ELSE Nothing]
    /\ server = [d \in Document |->
         IF d = Tree THEN [revision |-> 1, text |-> WholeOrder(place)]
         ELSE IF Home[d] \in V THEN [revision |-> 1, text |-> {d}]
         ELSE [revision |-> 0, text |-> {}]]
    /\ store = [ops |-> <<>>, rows |-> [d \in Document |->
         IF server[d].revision = 0 THEN NoRow ELSE CleanRow(1, server[d].text)]]
    /\ intents = [v \in Volume |-> Nothing]
    /\ barrier = Nothing /\ moving = Nothing /\ cache = Nothing /\ worker = Nothing
    /\ torn = {} /\ taken = {} /\ applied = {} /\ edits = 0 /\ foreign = 0

WriterStep ==
  \/ \E v \in Volume : AddVolume(v) \/ CreateFolder(v) \/ BeginDelete(v) \/ RestoreVolume(v)
  \/ \E c \in Chapter : EditChapter(c)
  \/ FinishDelete

GuiStep == Dispatch \/ HandleFinished \/ \E d \in Document : Recover(d)

WorkerStep ==
  \/ SendChapter \/ SendTombstone \/ DeletionUnproven \/ CarryOrder
  \/ \E v \in Volume : AwaitTombstones(v) \/ FolderDisagrees(v)
  \/ \E v \in Volume, answered \in BOOLEAN : DeleteFolder(v, answered)
  \/ \E answered \in BOOLEAN : Commit(answered)
  \/ \E merged \in Text : MergeTree(merged)

OutsideStep ==
  PullFolders \/ Restart \/ ForeignOrder \/ \E v \in Volume : ForeignTakes(v)

LifeNext == WriterStep \/ GuiStep \/ WorkerStep \/ Fail \/ OutsideStep

LifeSpec == LifeInit /\ [][LifeNext]_lifeVars

\* Timers are served and the worker gets through again and again.
LifeFairSpec ==
  /\ LifeSpec
  /\ WF_lifeVars(GuiStep)
  /\ WF_lifeVars(FinishDelete)
  /\ WF_lifeVars(PullFolders)
  /\ SF_lifeVars(WorkerStep)
  /\ SF_lifeVars(Commit(TRUE))
  /\ \A v \in Volume : SF_lifeVars(DeleteFolder(v, TRUE))

-----------------------------------------------------------------------------
(* Properties *)

\* The store, the intents and the two sides of the folder rows hold what the
\* code writes to them.
LifeTypeOK ==
  /\ store \in Store
  /\ worker = Nothing \/ worker.op \in DOMAIN store.ops
  /\ place \in [Volume -> {"none", "live", "trash"}]
  /\ \A v \in Pending(intents) :
       /\ intents[v].status \in {"prepared", "documents_pending", "folder_pending",
                                 "folder_committed", "tree_pending", "blocked"}
       /\ intents[v].tree \in 0 .. Len(store.ops)
       /\ intents[v].tombs \in [Chapter -> 0 .. Len(store.ops)]
  /\ barrier # Nothing => barrier.ops \subseteq DOMAIN store.ops
  /\ applied \subseteq DOMAIN store.ops

\* A volume leaves the server after the last of its chapters, through edits,
\* restores, retries, merges and lost answers, unless its deletion is under
\* way or was cut short by a crash or a refusal.
VolumesGoLast ==
  [][\A v \in Volume \ (torn \cup {moving}) :
       rows[v].live /\ ~ rows'[v].live => \A c \in In(v) : server[c].text = {}]_lifeVars

\* A deletion is closed only when the server has neither the volume nor any of
\* its chapters, whatever was lost, retried, merged or restarted in between;
\* unless the writer has taken the volume back.
ClosedMeansGone ==
  [][\A v \in Volume \ torn :
       /\ intents[v] # Nothing /\ intents'[v] = Nothing
       /\ place[v] = "trash"
       => ~ rows[v].live /\ \A c \in In(v) : server[c].text = {}]_lifeVars

OnlyOurOrders ==
  server[Tree].revision = 1 + Cardinality({i \in applied : store.ops[i].doc = Tree})

NothingToSend ==
  /\ Free /\ AtRest /\ barrier = Nothing
  /\ \A d \in Document : ~ HasActive(store, d)

\* When nothing is left to send and no other device wrote an order, the server
\* has no live folder for a volume in the trash.
TombstonesFinish ==
  NothingToSend /\ OnlyOurOrders =>
    \A v \in Volume \ (torn \cup taken) : place[v] = "trash" => ~ rows[v].live

\* A deletion that was begun comes to an end, or is shown to the writer.
DeletionsSettle ==
  \A v \in Volume :
    intents[v] # Nothing ~> IF intents[v] = Nothing THEN TRUE
                            ELSE intents[v].status = "blocked"
=============================================================================
