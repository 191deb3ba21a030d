------------------------------ MODULE MCStructure ------------------------------
(* The folder tree of one device in behaviours of its own for each of its     *)
(* sides: volumes on the operation queue (FolderLifecycle), the same on       *)
(* structure batches (StructureBatches), the project's files beside the       *)
(* identities that name them (ProjectIdentity), and the gate that chooses     *)
(* between queue and batches (ContractGate).                                  *)
EXTENDS Integers, Sequences, TLC

CONSTANTS
  Volume, Chapter, v1, v2, Tree, Note, Nothing, NoBase, NoRow, MaxEdits, MaxForeign,
  Shelf, Title, Dir, Order, MaxBatches, MaxOthers,
  FolderName, DocName, Uuid, Main, Bin, Trash, Idle, Fault, MaxFaults, MaxOrder,
  MaxWorks, MaxTurns, MaxEvents

VARIABLES
  store, intents, barrier, known, place, moving, torn, cache, worker, server, rows,
  taken, applied, edits, foreign,
  shelves, batches, results, sender, remote, accepted, others,
  disk, identity, issued, journals, step, reserved, project, faults, causes,
  row, hold, works, host, app, ticket, card, bridge, tool, tally,
  part

lifecycle == <<store, intents, barrier, known, place, moving, torn, cache, worker,
               server, rows, taken, applied, edits, foreign>>
batched == <<shelves, batches, results, sender, remote, accepted, others>>
filed == <<disk, identity, issued, journals, step, reserved, project, faults, causes>>
gated == <<row, hold, works, host, app, ticket, card, bridge, tool, tally>>

L == INSTANCE FolderLifecycle WITH
       Home <- [c \in Chapter |-> v1], Document <- Chapter \cup {Tree},
       Text <- SUBSET (Volume \cup Chapter \cup {Note})

B == INSTANCE StructureBatches WITH
       Folder <- Shelf, Name <- Title, folders <- shelves, worker <- sender

I == INSTANCE ProjectIdentity

G == INSTANCE ContractGate WITH
       project <- row, server <- host, past <- tally, recovering <- bridge

\* The parts that stand still start in one state only.
StructureInit ==
  /\ part \in {"lifecycle", "batches", "identity", "gate"}
  /\ L!LifeInit /\ B!StructureInit /\ I!TreeInit /\ G!GateInit
  /\ part # "gate" => host.mode = "LEGACY"
  /\ part # "lifecycle" => \A v \in Volume : place[v] = "none"
  /\ part # "batches" => \A e \in Shelf \cup {Order} :
       /\ shelves[e].revision = 0
       /\ shelves[e].name = (CHOOSE n \in Title : TRUE)
       /\ shelves[e].dir = (CHOOSE d \in Dir : TRUE)

StructureNext ==
  /\ UNCHANGED part
  /\ \/ part = "lifecycle" /\ L!LifeNext /\ UNCHANGED <<batched, filed, gated>>
     \/ part = "batches" /\ B!StructureNext /\ UNCHANGED <<lifecycle, filed, gated>>
     \/ part = "identity" /\ I!TreeNext /\ UNCHANGED <<lifecycle, batched, gated>>
     \/ part = "gate" /\ G!GateNext /\ UNCHANGED <<lifecycle, batched, filed>>

StructureSpec ==
  StructureInit /\ [][StructureNext]_<<part, lifecycle, batched, filed, gated>>

\* A volume leaves the server after the last of its chapters, and a deletion is
\* closed only when the server has nothing of it any more.
DeletionsAreOrderly == []L!LifeTypeOK /\ L!VolumesGoLast /\ L!ClosedMeansGone

\* A structure batch is recorded whole or not at all; no folder has two requests
\* on their way, and its revision is the server's.
BatchesAreSound ==
  part = "batches" => B!StructureTypeOK /\ B!BatchesAreWhole /\ B!QueueIsSound

\* A uuid goes on naming its file, and a difference of files and identities has
\* a journal or a cause.
IdentityNamesFiles ==
  part = "identity" => I!TreeTypeOK /\ I!IdentityNamesFiles

\* What the queue holds agrees with the gate it was queued behind.
GateFitsTheQueue ==
  part = "gate" => G!WorkFitsItsGate /\ G!OriginalsHaveNoTwin

\* The send hold holds, and the observed mode of the server moves forward.
HoldAndModeAreKept == G!HoldIsKept /\ G!ModeMovesForward

Symmetric == Permutations(Uuid) \cup Permutations(DocName)
=============================================================================
