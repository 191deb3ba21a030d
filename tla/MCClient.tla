-------------------------------- MODULE MCClient --------------------------------
(* One device in behaviours of its own for each of several parts: the queue   *)
(* of its saves, with a bare ledger in the server's place (OperationQueue),   *)
(* its works (ProjectLibrary), and the integrated editor (IntegratedEditor).  *)
EXTENDS OperationQueue, TLC

CONSTANTS
  Nothing,
  Work, Project, Title, MaxFaults, MaxOthers, MaxActs,
  Folder, Leaf, Top, Content, MaxRequests, MaxEmpty, MaxEdits, MaxSurprises

VARIABLES
  cloud, shelf, identity, marker, written, bins, index, bindings, imports, opened, job,
  purged, mishaps, elsewhere, acts,
  ws, files, cycle, scheduler, contract, arrivals, past,
  part

kept == <<cloud, shelf, identity, marker, written, bins, index, bindings, imports, opened,
          job, purged, mishaps, elsewhere, acts>>

edited == <<ws, files, cycle, scheduler, contract, arrivals, past>>

P == INSTANCE ProjectLibrary WITH
       server <- cloud, open <- opened, faults <- mishaps, others <- elsewhere

E == INSTANCE IntegratedEditor WITH
       Document <- Leaf, Text <- Content, MaxActs <- MaxEdits, server <- contract

\* A part that stands still stands where it began.
ClientInit ==
  /\ part \in {"queue", "library", "editor"}
  /\ Init /\ P!LibraryInit /\ E!EditorInit
  /\ part # "editor" => \A n \in Folder \cup Leaf : ws.rows[n] # Nothing /\ ws.rows[n].own

ClientNext ==
  /\ UNCHANGED part
  /\ \/ part = "queue" /\ Next /\ UNCHANGED <<kept, edited>>
     \/ part = "library" /\ P!LibraryNext /\ UNCHANGED <<vars, edited>>
     \/ part = "editor" /\ E!EditorNext /\ UNCHANGED <<vars, kept>>

ClientSpec == ClientInit /\ [][ClientNext]_<<part, vars, kept, edited>>

\* A work is on the shelf or in an entry the trash lists, and nowhere else; and
\* the binding waits for a work in the trash.
WorksStayInReach ==
  part = "library" => P!LibraryTypeOK /\ P!WorksStayInReach /\ P!BindingsOutliveFiles

\* A work the writer has worked in keeps its uuid, and a purge the device knows
\* of is not forgotten.
IdentityIsKept == P!WrittenKeepIdentity /\ P!PurgedIsRemembered

\* A request of the integrated editor leaves once, through lost answers and restarts.
LeavesOnce == part = "editor" => E!RequestsLeaveOnce

\* The answer of a request of the integrated editor is told right; and only another device, or a reception over a commit of one's own that waits
\* for its answer, stops the editor.
EditorIsSound ==
  part = "editor" =>
    /\ E!EditorTypeOK /\ E!AnswersAreToldRight
    /\ E!NothingStopsItself /\ E!ConflictsAreForeign

Symmetric == Permutations(Text)
=============================================================================
