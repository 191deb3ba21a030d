----------------------------- MODULE ProjectLibrary -----------------------------
(***************************************************************************)
(* The works of one device as the dialogs handle them: the shelf (the      *)
(* workspace directory, one work under each title), the trash beside it,   *)
(* the bindings of titles to server projects, and the import of a server   *)
(* project.  A dialog runs one worker at a time; its job goes on in steps  *)
(* between which the server answers late or never, a move fails, another   *)
(* device changes the project, or the program stops.                       *)
(*                                                                         *)
(* A Work is a directory, whatever its title; a Project is the uuid that   *)
(* identity.json, the binding and the server row of a work agree on.  A    *)
(* trash entry is named after the project, or after the work itself where  *)
(* the code draws a fresh uuid.                                            *)
(***************************************************************************)
EXTENDS Naturals

CONSTANTS
  Work, Project, Title, Nothing,
  MaxFaults,     \* bound: lost answers, failed moves and stops of the program
  MaxOthers,     \* bound: what other devices do
  MaxActs        \* bound: what the writer does in the dialogs

VARIABLES
  server,        \* the state of each project's server row
  shelf,         \* the work under each title
  identity,      \* the project uuid in each work's identity.json
  marker,        \* the import marker in each work
  written,       \* works the writer has worked in
  bins, index,   \* trash: data and metadata of each entry
  bindings,      \* sync_projects, with the number of waiting operations as a flag
  imports,       \* sync_project_imports
  open,          \* the title the writing window has open
  job,           \* the worker of the dialog
  purged,        \* works deleted for good
  faults, others, acts

local == <<shelf, identity, marker, written, bins, index, bindings, imports, purged>>
bounds == <<faults, others, acts>>
libraryVars == <<server, local, open, job, bounds>>

Entry == Project \cup Work

Idle == job = Nothing

\* The dialogs belong to the choice of a work when the program starts.
Choosing == Idle /\ open = Nothing

Act == Choosing /\ acts < MaxActs /\ acts' = acts + 1

\* Mutant: works whose import is under way are listed too.
HiddenNever(w) == FALSE

Hidden(w) == marker[w] # Nothing /\ ~ marker[w].complete

\* get_all_projects leaves out a work whose import is not complete.
Listed == {t \in Title : shelf[t] # Nothing /\ ~ Hidden(shelf[t])}

BoundTo(t) == {u \in Project : bindings[u] # Nothing /\ bindings[u].title = t}

Unused(u) ==
  /\ server[u] = "absent" /\ bindings[u] = Nothing
  /\ \A w \in Work : identity[w] # u

\* A uuid is drawn at random: one that is not in use is like any other.
Drawn == IF \E u \in Project : Unused(u) THEN {CHOOSE u \in Project : Unused(u)} ELSE {}

Unmade == {w \in Work : identity[w] = Nothing}

New == IF Unmade = {} THEN {} ELSE {CHOOSE w \in Work : w \in Unmade}

WithState(u, s) ==
  IF bindings[u] = Nothing THEN bindings ELSE [bindings EXCEPT ![u].state = s]

\* Where the import dialog finds the binding of a project on this device.
Missing(u) == bindings[u] # Nothing /\ shelf[bindings[u].title] = Nothing

LibraryTypeOK ==
  /\ server \in [Project -> {"absent", "active", "trashed", "purged"}]
  /\ shelf \in [Title -> Work \cup {Nothing}]
  /\ identity \in [Work -> Project \cup {Nothing}]
  /\ marker \in [Work -> {Nothing} \cup [project : Project, complete : BOOLEAN]]
  /\ bins \in [Entry -> Work \cup {Nothing}]
  /\ index \in [Entry -> {Nothing} \cup
                  [title : Title, project : Project \cup {Nothing}]]
  /\ bindings \in [Project -> {Nothing} \cup
                     [title : Title, state : {"active", "trashed", "purged"},
                      waiting : BOOLEAN]]
  /\ imports \in [Project -> {"none", "begun", "complete"}]
  /\ open \in Title \cup {Nothing}
  /\ written \subseteq Work /\ purged \subseteq Work

LibraryInit ==
  /\ server = [u \in Project |-> "absent"]
  /\ shelf = [t \in Title |-> Nothing]
  /\ identity = [w \in Work |-> Nothing]
  /\ marker = [w \in Work |-> Nothing]
  /\ written = {}
  /\ bins = [e \in Entry |-> Nothing]
  /\ index = [e \in Entry |-> Nothing]
  /\ bindings = [u \in Project |-> Nothing]
  /\ imports = [u \in Project |-> "none"]
  /\ open = Nothing
  /\ job = Nothing
  /\ purged = {}
  /\ faults = 0 /\ others = 0 /\ acts = 0

-----------------------------------------------------------------------------
(* The shelf *)

Create(t, w, u) ==
  /\ Act
  /\ shelf[t] = Nothing /\ w \in New /\ u \in Drawn
  /\ shelf' = [shelf EXCEPT ![t] = w]
  /\ identity' = [identity EXCEPT ![w] = u]
  /\ UNCHANGED <<server, marker, written, bins, index, bindings, imports, purged,
                 open, job, faults, others>>

\* Mutant: opening a work sets its binding up anew.
BoundAfresh(t) ==
  LET u == identity[shelf[t]] IN
  IF BoundTo(t) # {}
  THEN [v \in Project |-> IF v \in BoundTo(t) THEN [bindings[v] EXCEPT !.state = "active"]
                          ELSE bindings[v]]
  ELSE [bindings EXCEPT ![u] = [title |-> t, state |-> "active", waiting |-> FALSE]]

\* configure_project: a binding already at the path is taken as it is; otherwise
\* the work's own uuid is bound, unless it is bound to another path.
Bound(t) ==
  LET u == identity[shelf[t]] IN
  IF BoundTo(t) # {} THEN bindings
  ELSE [bindings EXCEPT ![u] = [title |-> t, state |-> "active", waiting |-> FALSE]]

CanOpen(t) == BoundTo(t) # {} \/ bindings[identity[shelf[t]]] = Nothing

Open(t) ==
  /\ Choosing
  /\ t \in Listed /\ CanOpen(t)
  /\ open' = t
  /\ bindings' = Bound(t)
  /\ UNCHANGED <<server, shelf, identity, marker, written, bins, index, imports,
                 purged, job, bounds>>

Close ==
  /\ open # Nothing
  /\ open' = Nothing
  /\ UNCHANGED <<server, local, job, bounds>>

Write ==
  /\ open # Nothing
  /\ \E u \in BoundTo(open) :
       bindings' = [bindings EXCEPT ![u].waiting = TRUE]
  /\ written' = written \cup {shelf[open]}
  /\ UNCHANGED <<server, shelf, identity, marker, bins, index, imports, purged, open,
                 job, bounds>>

\* The worker of the open project asks for the project's state before it sends;
\* a project the server has no row of is created.
Sync ==
  /\ open # Nothing
  /\ \E u \in BoundTo(open) :
       LET state == IF server[u] = "absent" THEN "active" ELSE server[u] IN
       /\ server' = [server EXCEPT ![u] = state]
       /\ bindings' = [bindings EXCEPT ![u].state = state,
                         ![u].waiting = @ /\ state # "active"]
  /\ UNCHANGED <<shelf, identity, marker, written, bins, index, imports, purged, open,
                 job, bounds>>

\* rename_project moves the directory; the binding stays with the old title.
Rename(t, new) ==
  /\ Act /\ t \in Listed /\ shelf[new] = Nothing
  /\ shelf' = [shelf EXCEPT ![new] = shelf[t], ![t] = Nothing]
  /\ UNCHANGED <<server, identity, marker, written, bins, index, bindings, imports,
                 purged, open, job, faults, others>>

-----------------------------------------------------------------------------
(* A job and its request *)

At(kind, step) == job # Nothing /\ job.kind = kind /\ job.step = step

Start(kind, step, e, u, t) ==
  job' = [kind |-> kind, step |-> step, entry |-> e, project |-> u, title |-> t]

GoOn(step) == job' = [job EXCEPT !.step = step]

Done == job' = Nothing

Fault == faults < MaxFaults /\ faults' = faults + 1

\* What each RPC makes of a project, and from which states.
Result == [trash |-> "trashed", restore |-> "active", purge |-> "purged"]

Accepts == [trash |-> {"active", "trashed"}, restore |-> {"active", "trashed"},
            purge |-> {"trashed", "purged"}]

Answered(request) ==
  /\ server[job.project] \in Accepts[request]
  /\ server' = [server EXCEPT ![job.project] = Result[request]]

\* The request does not arrive, or arrives and its answer does not.
Lost(request) ==
  /\ Fault
  /\ UNCHANGED server \/ Answered(request)

\* The answer's state enters the binding.
Recorded(request) == bindings' = WithState(job.project, Result[request])

-----------------------------------------------------------------------------
(* To the trash *)

\* What trash_project asks the server to trash: the binding at the title, unless
\* the server is known to have purged it.
Reachable(t) == {u \in BoundTo(t) : bindings[u].state # "purged"}

TrashWork(t) ==
  /\ Act /\ t \in Listed
  /\ \A u \in Reachable(t) : ~ bindings[u].waiting
  /\ \E u \in IF Reachable(t) = {} THEN {Nothing} ELSE Reachable(t) :
       \E e \in {IF u = Nothing THEN shelf[t] ELSE u} :
         /\ bins[e] = Nothing
         /\ index' = [index EXCEPT ![e] = [title |-> t, project |-> u]]
         /\ Start("trash", IF u = Nothing THEN "move" ELSE "ask", e, u, t)
  /\ UNCHANGED <<server, shelf, identity, marker, written, bins, bindings, imports,
                 purged, open, faults, others>>

TrashAsk ==
  /\ At("trash", "ask")
  /\ Answered("trash") /\ GoOn("record")
  /\ UNCHANGED <<local, open, bounds>>

\* The server has the project no more: the work goes to the trash as a local one.
TrashGone ==
  /\ At("trash", "ask")
  /\ server[job.project] \in {"purged", "absent"}
  /\ index' = [index EXCEPT ![job.entry].project = Nothing]
  /\ GoOn("move")
  /\ UNCHANGED <<server, shelf, identity, marker, written, bins, bindings, imports,
                 purged, open, bounds>>

TrashLost ==
  /\ At("trash", "ask")
  /\ Lost("trash")
  /\ index' = [index EXCEPT ![job.entry] = Nothing]
  /\ Done
  /\ UNCHANGED <<shelf, identity, marker, written, bins, bindings, imports, purged,
                 open, others, acts>>

TrashRecord ==
  /\ At("trash", "record")
  /\ Recorded("trash") /\ GoOn("move")
  /\ UNCHANGED <<server, shelf, identity, marker, written, bins, index, imports, purged,
                 open, bounds>>

TrashMove ==
  /\ At("trash", "move")
  /\ bins' = [bins EXCEPT ![job.entry] = shelf[job.title]]
  /\ shelf' = [shelf EXCEPT ![job.title] = Nothing]
  /\ GoOn("finish")
  /\ UNCHANGED <<server, identity, marker, written, index, bindings, imports, purged,
                 open, bounds>>

\* The project was gone when the job began or when it asked: the binding is told.
TrashFinish ==
  /\ At("trash", "finish")
  /\ bindings' = IF index[job.entry].project # Nothing THEN bindings
                 ELSE [u \in Project |-> IF u \in BoundTo(job.title)
                                         THEN [bindings[u] EXCEPT !.state = "purged"]
                                         ELSE bindings[u]]
  /\ Done
  /\ UNCHANGED <<server, shelf, identity, marker, written, bins, index, imports, purged,
                 open, bounds>>

\* The import dialog trashes a project on the server alone.
TrashServer(u) ==
  /\ Act /\ server[u] = "active"
  /\ Start("server", "ask", u, u, Nothing)
  /\ UNCHANGED <<server, local, open, faults, others>>

TrashServerAsk ==
  /\ At("server", "ask")
  /\ \/ Answered("trash") /\ GoOn("record") /\ UNCHANGED faults
     \/ server[job.project] = "purged" /\ Done /\ UNCHANGED <<server, faults>>
     \/ Lost("trash") /\ Done
  /\ UNCHANGED <<local, open, others, acts>>

TrashServerRecord ==
  /\ At("server", "record")
  /\ Recorded("trash") /\ Done
  /\ UNCHANGED <<server, shelf, identity, marker, written, bins, index, imports, purged,
                 open, bounds>>

-----------------------------------------------------------------------------
(* From the trash *)

InBin(e) == bins[e] # Nothing /\ index[e] # Nothing

OnServer(e) == e \in Project /\ server[e] = "trashed"

\* The project of an entry: of its metadata, or of the server's own row.
EntryProject(e) == IF OnServer(e) THEN e ELSE index[e].project

Restore(e) ==
  /\ Act
  /\ InBin(e) \/ OnServer(e)
  /\ InBin(e) => shelf[index[e].title] = Nothing
  /\ Start("restore", IF EntryProject(e) = Nothing THEN "move" ELSE "ask", e,
           EntryProject(e), IF InBin(e) THEN index[e].title ELSE Nothing)
  /\ UNCHANGED <<server, local, open, faults, others>>

RestoreAsk ==
  /\ At("restore", "ask")
  /\ \/ Answered("restore") /\ GoOn("record") /\ UNCHANGED faults
     \/ server[job.project] = "purged" /\ Done /\ UNCHANGED <<server, faults>>
     \/ Lost("restore") /\ Done
  /\ UNCHANGED <<local, open, others, acts>>

\* Mutant: the metadata is removed before the move.
RestoreRecordAndForget ==
  /\ At("restore", "record")
  /\ Recorded("restore")
  /\ index' = [index EXCEPT ![job.entry] = Nothing]
  /\ IF job.title = Nothing THEN Done ELSE GoOn("move")
  /\ UNCHANGED <<server, shelf, identity, marker, written, bins, imports, purged,
                 open, bounds>>

RestoreRecord ==
  /\ At("restore", "record")
  /\ Recorded("restore")
  /\ IF job.title = Nothing THEN Done ELSE GoOn("move")
  /\ UNCHANGED <<server, shelf, identity, marker, written, bins, index, imports, purged,
                 open, bounds>>

RestoreMove ==
  /\ At("restore", "move")
  /\ shelf' = [shelf EXCEPT ![job.title] = bins[job.entry]]
  /\ bins' = [bins EXCEPT ![job.entry] = Nothing]
  /\ index' = [index EXCEPT ![job.entry] = Nothing]
  /\ Done
  /\ UNCHANGED <<server, identity, marker, written, bindings, imports, purged, open,
                 bounds>>

Purge(e) ==
  /\ Act
  /\ InBin(e) \/ OnServer(e)
  /\ Start("purge", IF EntryProject(e) = Nothing THEN "files" ELSE "ask", e,
           EntryProject(e), Nothing)
  /\ UNCHANGED <<server, local, open, faults, others>>

PurgeAsk ==
  /\ At("purge", "ask")
  /\ \/ Answered("purge") /\ GoOn("record") /\ UNCHANGED faults
     \/ server[job.project] = "active" /\ Done /\ UNCHANGED <<server, faults>>
     \/ Lost("purge") /\ Done
  /\ UNCHANGED <<local, open, others, acts>>

\* Mutant: the records go before the files.
PurgeRecordFirst ==
  /\ At("purge", "record")
  /\ bindings' = [bindings EXCEPT ![job.project] = Nothing] /\ GoOn("files")
  /\ UNCHANGED <<server, shelf, identity, marker, written, bins, index, imports, purged,
                 open, bounds>>

PurgeRecord ==
  /\ At("purge", "record")
  /\ Recorded("purge") /\ GoOn("files")
  /\ UNCHANGED <<server, shelf, identity, marker, written, bins, index, imports, purged,
                 open, bounds>>

PurgeFiles ==
  /\ At("purge", "files")
  /\ purged' = purged \cup ({bins[job.entry]} \ {Nothing})
  /\ bins' = [bins EXCEPT ![job.entry] = Nothing]
  /\ index' = [index EXCEPT ![job.entry] = Nothing]
  /\ IF job.project = Nothing THEN Done ELSE GoOn("records")
  /\ UNCHANGED <<server, shelf, identity, marker, written, bindings, imports, open,
                 bounds>>

PurgeRecords ==
  /\ At("purge", "records")
  /\ bindings' = [bindings EXCEPT ![job.project] = Nothing]
  /\ imports' = [imports EXCEPT ![job.project] = "none"]
  /\ Done
  /\ UNCHANGED <<server, shelf, identity, marker, written, bins, index, purged, open,
                 bounds>>

-----------------------------------------------------------------------------
(* Import of a server project *)

\* The catalog offers what the device does not hold whole already.
Offered(u) ==
  /\ server[u] = "active"
  /\ bindings[u] # Nothing /\ ~ Missing(u) => imports[u] = "begun"

\* _prepare_destination: what it demands of a binding the project has already.
Resumable(u, t) ==
  bindings[u] # Nothing =>
    /\ Missing(u) \/ imports[u] = "begun"
    /\ bindings[u].title = t
    /\ Missing(u) => ~ bindings[u].waiting

Reserved(u, t) ==
  shelf[t] # Nothing /\ bindings[u] = Nothing =>
    IF marker[shelf[t]] = Nothing THEN FALSE ELSE marker[shelf[t]].project = u

\* The destination is made, or found marked; a new one gets an identity of its own.
Import(u, t, w, fresh) ==
  /\ Act /\ Offered(u)
  /\ Resumable(u, t) /\ Reserved(u, t)
  /\ IF shelf[t] = Nothing
     THEN /\ w \in New /\ fresh \in Drawn
          /\ shelf' = [shelf EXCEPT ![t] = w]
          /\ identity' = [identity EXCEPT ![w] = fresh]
     ELSE w = shelf[t] /\ fresh = identity[w] /\ UNCHANGED <<shelf, identity>>
  /\ marker' = [marker EXCEPT ![w] = [project |-> u, complete |-> FALSE]]
  /\ Start("import", "bind", w, u, t)
  /\ UNCHANGED <<server, written, bins, index, bindings, imports, purged, open, faults, others>>

\* begin_project_import refuses a path that is bound to another project.
ImportBind ==
  /\ At("import", "bind")
  /\ IF BoundTo(job.title) \ {job.project} # {}
     THEN Done /\ UNCHANGED <<bindings, imports>>
     ELSE /\ bindings' = IF bindings[job.project] # Nothing THEN bindings
                         ELSE [bindings EXCEPT ![job.project] =
                                 [title |-> job.title, state |-> "active",
                                  waiting |-> FALSE]]
          /\ imports' = [imports EXCEPT ![job.project] = "begun"]
          /\ GoOn("pull")
  /\ UNCHANGED <<server, shelf, identity, marker, written, bins, index, purged, open,
                 bounds>>

\* The documents are pulled and applied; then the server's uuids are adopted.
ImportPull ==
  /\ At("import", "pull")
  /\ \/ GoOn("adopt") /\ UNCHANGED faults
     \/ Fault /\ Done
  /\ UNCHANGED <<server, local, open, others, acts>>

ImportAdopt ==
  /\ At("import", "adopt")
  /\ identity' = [identity EXCEPT ![job.entry] = job.project]
  /\ GoOn("complete")
  /\ UNCHANGED <<server, shelf, marker, written, bins, index, bindings, imports, purged,
                 open, bounds>>

ImportComplete ==
  /\ At("import", "complete")
  /\ imports' = [imports EXCEPT ![job.project] = "complete"]
  /\ GoOn("mark")
  /\ UNCHANGED <<server, shelf, identity, marker, written, bins, index, bindings, purged,
                 open, bounds>>

\* A marker that cannot be written takes the journal back.
ImportMark ==
  /\ At("import", "mark")
  /\ \/ /\ marker' = [marker EXCEPT ![job.entry].complete = TRUE]
        /\ UNCHANGED <<imports, faults>>
     \/ /\ Fault
        /\ imports' = [imports EXCEPT ![job.project] = "begun"]
        /\ UNCHANGED marker
  /\ Done
  /\ UNCHANGED <<server, shelf, identity, written, bins, index, bindings, purged, open,
                 others, acts>>

-----------------------------------------------------------------------------

\* A directory cannot be moved or removed: the worker gives up.
DiskFails ==
  /\ At("trash", "move") \/ At("restore", "move") \/ At("purge", "files")
  /\ Fault /\ Done
  /\ UNCHANGED <<server, local, open, others, acts>>

Stop ==
  /\ job # Nothing \/ open # Nothing
  /\ Fault /\ Done
  /\ open' = Nothing
  /\ UNCHANGED <<server, local, others, acts>>

\* Another device creates a project, or trashes, restores or purges one; a purge
\* follows a trashing this device may have missed.
Elsewhere(u) ==
  /\ others < MaxOthers /\ others' = others + 1
  /\ \/ u \in Drawn /\ server' = [server EXCEPT ![u] = "active"]
     \/ server[u] \in {"active", "trashed"} /\ server' \in
          {[server EXCEPT ![u] = s] : s \in {"active", "trashed", "purged"} \ {server[u]}}
  /\ UNCHANGED <<local, open, job, faults, acts>>

LibraryNext ==
  \/ \E t \in Title :
       \/ \E w \in Work, u \in Project : Create(t, w, u)
       \/ \E w \in Work, u, fresh \in Project : Import(u, t, w, fresh)
       \/ Open(t) \/ TrashWork(t)
       \/ \E new \in Title : Rename(t, new)
  \/ Close \/ Write \/ Sync
  \/ TrashAsk \/ TrashGone \/ TrashLost \/ TrashRecord \/ TrashMove \/ TrashFinish
  \/ \E u \in Project : TrashServer(u) \/ Elsewhere(u)
  \/ TrashServerAsk \/ TrashServerRecord
  \/ \E e \in Entry : Restore(e) \/ Purge(e)
  \/ RestoreAsk \/ RestoreRecord \/ RestoreMove
  \/ PurgeAsk \/ PurgeRecord \/ PurgeFiles \/ PurgeRecords
  \/ ImportBind \/ ImportPull \/ ImportAdopt \/ ImportComplete \/ ImportMark
  \/ DiskFails \/ Stop

LibrarySpec == LibraryInit /\ [][LibraryNext]_libraryVars

-----------------------------------------------------------------------------
(* Properties *)

\* Every work on disk is on the shelf or in an entry the trash lists, in one place
\* only, and only the trash deletes it: metadata goes before the move and stays
\* until the files are gone, whatever is lost in between.
Places(w) == {t \in Title : shelf[t] = w} \cup {e \in Entry : bins[e] = w}

WorksStayInReach ==
  /\ \A e \in Entry : bins[e] # Nothing => index[e] # Nothing
  /\ \A w \in Work : identity[w] # Nothing =>
       IF w \in purged THEN Places(w) = {}
       ELSE \E p \in Places(w) : Places(w) = {p}

\* A work in the trash that came from a server project comes back to it: until its
\* files are gone the binding stays at the title it will be restored to.
BindingsOutliveFiles ==
  \A e \in Entry :
    InBin(e) /\ index[e].project # Nothing =>
      /\ bindings[index[e].project] # Nothing
      /\ bindings[index[e].project].title = index[e].title

\* An import adopts the server's uuids only into a work nobody has written in.
WrittenKeepIdentity ==
  [][\A w \in written : identity'[w] = identity[w]]_libraryVars

\* What the device knows to be purged on the server it never takes for alive again
\* while it keeps the record, late answers to its own requests included.
KnownPurged(u) ==
  server[u] = "purged" /\ bindings[u] # Nothing /\ bindings[u].state = "purged"

PurgedIsRemembered ==
  [][\A u \in Project :
       KnownPurged(u) /\ bindings'[u] # Nothing => KnownPurged(u)']_libraryVars

\* A title is free again once its work is gone for good.
NamesAreFreed ==
  Idle => \A u \in Project :
    bindings[u] # Nothing /\ (\A w \in Work : identity[w] = u => w \in purged)
      => bindings[u].state # "purged"
=============================================================================
