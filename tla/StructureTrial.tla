------------------------------ MODULE StructureTrial ------------------------------
(* The two writes the tool scripts/contract_path_preflight.py makes on a live   *)
(* project: a folder made through the contract path (run_structure_write) and   *)
(* a reorder that the server has to refuse (run_stale_reorder_probe). Both      *)
(* leave rows behind in the queue of the application, which finds them when it  *)
(* is started next. Tool and application share the credential's lock, so only   *)
(* one of them talks to the server; either may be killed at any step.           *)
EXTENDS Naturals, Sequences, FiniteSets

CONSTANTS
  Nothing,
  MaxBatches,      \* bound: structure batches
  MaxRuns,         \* bound: runs of the tool and starts of the application
  MaxOthers        \* bound: reorders by another device

VARIABLES
  site,            \* this device: directory, row of sync_folders, row of sync_tree_orders
  batches,         \* sync_contract_batches with the states of their operations
  remote,          \* the server's folder and order, and the batches it has applied
  program,         \* the tool or the application, whichever holds the credential
  rounds           \* counters

trialVars == <<site, batches, remote, program, rounds>>

None == [who |-> "nobody", step |-> Nothing, batch |-> Nothing, authority |-> FALSE]

TrialInit ==
  /\ site = [dir |-> FALSE, folder |-> Nothing, order |-> 2]
  /\ batches = <<>>
  /\ remote = [folder |-> FALSE, order |-> 2, applied |-> {}]
  /\ program = None
  /\ rounds = [runs |-> 0, others |-> 0]

Creates(b) == batches[b].kind = "create"

Unanswered == {b \in DOMAIN batches : ~ batches[b].answered}

\* unanswered_batch_for_folder: the oldest that makes the folder.
Resumable ==
  {b \in Unanswered : Creates(b) /\ \A c \in Unanswered : Creates(c) => b <= c}

-----------------------------------------------------------------------------
(* The queue *)

\* Opening the store: nobody knows what became of a request on its way.
Recovered ==
  [b \in DOMAIN batches |->
     IF batches[b].state = "inflight" THEN [batches[b] EXCEPT !.state = "retry_wait"]
     ELSE batches[b]]

Mark(b, state) == [batches EXCEPT ![b].state = state]

\* latest_active_structure_operation of the order: one that waits, or one that
\* was refused.
ActiveOrders == {b \in DOMAIN batches : batches[b].order /\ batches[b].state # "completed"}

Newest(S) == {b \in S : \A c \in S : c <= b}

\* What is left of a batch whose order is replaced: a folder's creation stays,
\* waiting in a batch that can no longer be sent whole, or refused with it.
Torn(b) ==
  [batches[b] EXCEPT !.order = FALSE,
     !.state = IF ~ Creates(b) THEN "cancelled" ELSE IF @ = "refused" THEN @ ELSE "torn"]

\* The new order takes the place of the newest one; the probe names none.
Queued(kind, base) ==
  LET replaced == IF kind = "probe" THEN {} ELSE Newest(ActiveOrders)
  IN Append([b \in DOMAIN batches |-> IF b \in replaced THEN Torn(b) ELSE batches[b]],
            [kind |-> kind, base |-> base, state |-> "pending", order |-> TRUE,
             answered |-> FALSE])

\* next_ready_structure_batch: every operation of the batch may be sent.
Sendable == {b \in Unanswered : batches[b].state \in {"pending", "retry_wait"}}

\* _check_contract_dispatch: a source of the structure was accepted by a pull of
\* this manager, and nothing in the project is refused.
MayDispatch(authority) ==
  /\ authority
  /\ \A b \in DOMAIN batches : batches[b].state # "refused"

-----------------------------------------------------------------------------
(* The server *)

Fits(b) == batches[b].base = remote.order

Replayed(b) == b \in remote.applied

\* The batch is taken whole or not at all, and once.
Taken(b) ==
  IF Replayed(b) \/ ~ Fits(b) THEN remote
  ELSE [folder  |-> remote.folder \/ Creates(b),
        order   |-> remote.order + 1,
        applied |-> remote.applied \cup {b}]

Verdict(b) == IF Replayed(b) \/ Fits(b) THEN "success" ELSE "conflict"

\* record_structure_batch_response: the answer, the states and the revisions of
\* the rows in one transaction. A refusal moves no row.
Answered(b) ==
  IF Verdict(b) = "success"
  THEN /\ batches' = [batches EXCEPT ![b].state = "completed", ![b].answered = TRUE]
       /\ site' = [site EXCEPT !.order = batches[b].base + 1,
                     !.folder = IF Creates(b) THEN 1 ELSE @]
  ELSE /\ batches' = [batches EXCEPT ![b].state = "refused", ![b].answered = TRUE]
       /\ UNCHANGED site

-----------------------------------------------------------------------------
(* The tool *)

Runs == rounds' = [rounds EXCEPT !.runs = @ + 1]

\* A standing folder is resumed through its own batch; else nothing of it may
\* be there, neither its row nor its directory.
MayResume(b) ==
  /\ site.folder = 0 /\ site.dir
  /\ Cardinality(Unanswered) = 1

\* Mutant: an answered batch leaves no trace.
MayMakeBesideRow == Unanswered = {}

MayMake == Unanswered = {} /\ site.folder = Nothing /\ ~ site.dir

\* run_structure_write up to its second reading of the rows.
WriteStarts ==
  /\ program = None /\ rounds.runs < MaxRuns
  /\ \/ \E b \in Resumable :
          /\ site.folder # Nothing /\ MayResume(b)
          /\ program' = [None EXCEPT !.who = "write", !.step = "queued", !.batch = b]
     \/ /\ site.folder = Nothing \/ Resumable = {}
        /\ MayMake
        /\ program' = [None EXCEPT !.who = "write", !.step = "looked"]
  /\ batches' = Recovered /\ Runs
  /\ UNCHANGED <<site, remote>>

MakeDirectory ==
  /\ program.who = "write" /\ program.step = "looked"
  /\ site' = [site EXCEPT !.dir = TRUE]
  /\ program' = [program EXCEPT !.step = "made"]
  /\ UNCHANGED <<batches, remote, rounds>>

\* The folder's row and its batch in one transaction.
QueueFolder ==
  /\ program.who = "write" /\ program.step = "made" /\ Len(batches) < MaxBatches
  /\ site' = [site EXCEPT !.folder = 0]
  /\ batches' = Queued("create", site.order)
  /\ program' = [program EXCEPT !.step = "queued", !.batch = Len(batches) + 1]
  /\ UNCHANGED <<remote, rounds>>

\* Mutant: the probe claims the revision that is there.
CurrentBase == site.order

StaleBase == site.order - 1

\* run_stale_reorder_probe: the order that is there, one revision too old.
QueueProbe ==
  /\ program = None /\ rounds.runs < MaxRuns /\ Len(batches) < MaxBatches
  /\ Unanswered = {} /\ site.order >= 2
  /\ batches' = Queued("probe", StaleBase)
  /\ program' = [None EXCEPT !.who = "probe", !.step = "rehearsed", !.batch = Len(batches) + 1]
  /\ Runs
  /\ UNCHANGED <<site, remote>>

\* The first dispatch of a write is made to fail: the attempt, then the wait.
Rehearse ==
  /\ program.who = "write" /\ program.step = "queued"
  /\ program.batch \in Sendable
  /\ batches' = Mark(program.batch, "inflight")
  /\ program' = [program EXCEPT !.step = "rehearsing"]
  /\ UNCHANGED <<site, remote, rounds>>

Refused ==
  /\ program.who = "write" /\ program.step = "rehearsing"
  /\ batches' = Mark(program.batch, "retry_wait")
  /\ program' = [program EXCEPT !.step = "rehearsed"]
  /\ UNCHANGED <<site, remote, rounds>>

\* "dispatch 2: the real one", and the one dispatch of the probe.
Dispatch ==
  /\ program.who \in {"write", "probe"} /\ program.step = "rehearsed"
  /\ batches' = Mark(program.batch, "inflight")
  /\ program' = [program EXCEPT !.step = "sending"]
  /\ UNCHANGED <<site, remote, rounds>>

\* A manager that has pulled nothing is paused before any request is built, so
\* no run of the tool asks the server: the batch waits, and the run ends.
Paused ==
  /\ program.who \in {"write", "probe"} /\ program.step = "sending"
  /\ ~ MayDispatch(program.authority)
  /\ batches' = Mark(program.batch, "retry_wait")
  /\ program' = None
  /\ UNCHANGED <<site, remote, rounds>>

-----------------------------------------------------------------------------
(* The application *)

Start ==
  /\ program = None /\ rounds.runs < MaxRuns
  /\ program' = [None EXCEPT !.who = "app"]
  /\ batches' = Recovered /\ Runs
  /\ UNCHANGED <<site, remote>>

\* A pull accepts a source, and brings the order unless work on it waits.
Pull ==
  /\ program.who = "app" /\ program.batch = Nothing
  /\ program' = [program EXCEPT !.authority = TRUE]
  /\ site' = IF ActiveOrders # {} THEN site
             ELSE [site EXCEPT !.order = remote.order]
  /\ UNCHANGED <<batches, remote, rounds>>

Reorder ==
  /\ program.who = "app" /\ program.authority /\ program.batch = Nothing
  /\ Len(batches) < MaxBatches
  /\ batches' = Queued("order", site.order)
  /\ UNCHANGED <<site, remote, program, rounds>>

Launch ==
  /\ program.who = "app" /\ program.batch = Nothing
  /\ MayDispatch(program.authority) /\ Sendable # {}
  /\ LET next == CHOOSE b \in Sendable : \A c \in Sendable : b <= c
     IN /\ batches' = Mark(next, "inflight")
        /\ program' = [program EXCEPT !.batch = next, !.step = "sending"]
  /\ UNCHANGED <<site, remote, rounds>>

\* The request arrives; its answer is recorded, or lost.
Serve ==
  /\ program.who = "app" /\ program.step = "sending"
  /\ MayDispatch(program.authority)
  /\ remote' = Taken(program.batch)
  /\ \/ Answered(program.batch)
     \/ batches' = Mark(program.batch, "retry_wait") /\ UNCHANGED site
  /\ program' = [program EXCEPT !.batch = Nothing, !.step = Nothing]
  /\ UNCHANGED rounds

-----------------------------------------------------------------------------

\* The tool or the application ends, or is killed.
Stop ==
  /\ program # None
  /\ program' = None
  /\ UNCHANGED <<site, batches, remote, rounds>>

OtherReorders ==
  /\ rounds.others < MaxOthers
  /\ remote' = [remote EXCEPT !.order = @ + 1]
  /\ rounds' = [rounds EXCEPT !.others = @ + 1]
  /\ UNCHANGED <<site, batches, program>>

TrialNext ==
  \/ WriteStarts \/ MakeDirectory \/ QueueFolder \/ QueueProbe
  \/ Rehearse \/ Refused \/ Dispatch \/ Paused
  \/ Start \/ Pull \/ Reorder \/ Launch \/ Serve
  \/ Stop \/ OtherReorders

TrialSpec == TrialInit /\ [][TrialNext]_trialVars

-----------------------------------------------------------------------------

\* However often the tool is run, killed and run again, one batch makes the
\* folder: its row, its directory and its batch belong together, and the row is
\* proven only by the server's folder.
FolderIsMadeOnce ==
  /\ \A b, c \in DOMAIN batches : Creates(b) /\ Creates(c) => b = c
  /\ site.folder # Nothing <=> \E b \in DOMAIN batches : Creates(b)
  /\ site.folder # Nothing => site.dir
  /\ site.folder = 1 => remote.folder

\* The probe is harmless: no server takes it, and this device never knows a
\* revision of the order that the server has not reached.
ProbeMovesNothing ==
  /\ \A b \in remote.applied : batches[b].kind # "probe"
  /\ site.order <= remote.order
=============================================================================
