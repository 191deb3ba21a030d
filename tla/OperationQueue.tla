---------------------------- MODULE OperationQueue ----------------------------
(***************************************************************************)
(* One Windows device sends the saves of several documents, one operation  *)
(* at a time: the GUI thread (saves, retry_pending_syncs, the handling of  *)
(* a worker's answer, pulls) and the V2QueueWorker thread of               *)
(* sync_manager.py, over the durable queue of OperationStore.              *)
(*                                                                         *)
(* The server is reduced to the ledger of each document and the operations *)
(* it has applied; other devices commit to it at any time.                 *)
(***************************************************************************)
EXTENDS OperationStore

CONSTANTS
  Errors,        \* error codes an attempt may end with
  Refusals,      \* error codes that block an operation for good
  MaxOps,        \* bound: rows ever inserted in the queue
  MaxForeign     \* bound: commits by other devices

\* Mutant: no retry timer after a network error.
LeaseRetried == {"LEASE_CONFLICT"}

\* Errors after which the GUI thread arms its retry timer.
Retried == {"NETWORK", "LEASE_CONFLICT"}

Answered == {"committed", "auto_merged", "conflict", "superseded"}

Phases == {"sent", "rejected"} \cup Answered \cup Errors \cup Refusals

Worker == [op : Nat \ {0}, phase : Phases, revision : Nat]

NoWorker == [op |-> 0, phase |-> "none", revision |-> 0]

ASSUME QueueAssumption ==
  /\ MaxOps \in Nat /\ MaxForeign \in Nat
  /\ Errors \cap Refusals = {}
  /\ (Errors \cup Refusals) \cap ({"sent", "rejected", "none"} \cup Answered) = {}

VARIABLES
  store,       \* the SQLite queue; it survives a crash
  worker,      \* the operation in flight and what its thread has learned
  wake,        \* a call of retry_pending_syncs is due (retry timer armed)
  recovering,  \* inside the transaction of recover_stranded_operations
  ledger,      \* the server: the texts of each document, by revision
  applied,     \* the server: which operation made which revision
  strays,      \* operations whose abandoned request may still reach the server
  foreign      \* commits by other devices so far

vars == <<store, worker, wake, recovering, ledger, applied, strays, foreign>>

Idle == worker = NoWorker

Carried == store.ops[worker.op]

Revision(d) == Len(ledger[d])

\* Mutant: remembers the last operation only.
AppliedLast(i) ==
  {a \in applied : a.op = i /\ a.revision = Len(ledger[store.ops[i].doc])}

\* What the server's ledger has of operation i.
AppliedAs(i) == {a \in applied : a.op = i}

-----------------------------------------------------------------------------
(* GUI thread *)

\* upload_content_async: a text the server already has, with nothing queued,
\* is not sent again.
Save(d, text) ==
  /\ ~ recovering
  /\ Len(store.ops) < MaxOps
  /\ IF /\ store.rows[d] # NoRow
        /\ store.rows[d].revision > 0
        /\ store.rows[d].base = text
        /\ ~ HasActive(store, d)
     THEN UNCHANGED <<store, wake>>
     ELSE /\ store' = Enqueue(store, d, text)
          /\ wake' = (wake \/ Idle)
  /\ UNCHANGED <<worker, recovering, ledger, applied, strays, foreign>>

\* recover_stranded_operations, row by row: nothing is ready, and the oldest
\* dependent goes first.
RecoverStrandedOperation(d) ==
  /\ wake
  /\ Idle
  /\ recovering \/ Dispatchable(store) = {}
  /\ Stranded(store, d)
  /\ \A e \in Document : Stranded(store, e) =>
       First(DependentsOf(store, d)) <= First(DependentsOf(store, e))
  /\ store' = RecoverStranded(store, d)
  /\ recovering' = TRUE
  /\ UNCHANGED <<worker, wake, ledger, applied, strays, foreign>>

\* retry_pending_syncs with work to do: next_ready_operation, mark_attempt and
\* a worker thread.
Dispatch ==
  /\ wake
  /\ Idle
  /\ Dispatchable(store) # {}
  /\ recovering => \A d \in Document : ~ Stranded(store, d)
  /\ LET i == First(Dispatchable(store)) IN
       /\ store' = MarkAttempt(store, i)
       /\ worker' = [op |-> i, phase |-> "sent", revision |-> 0]
  /\ wake' = FALSE
  /\ recovering' = FALSE
  /\ UNCHANGED <<ledger, applied, strays, foreign>>

\* retry_pending_syncs with nothing to do.
Rest ==
  /\ wake
  /\ Idle
  /\ Dispatchable(store) = {}
  /\ \A d \in Document : ~ Stranded(store, d)
  /\ wake' = FALSE
  /\ UNCHANGED <<store, worker, recovering, ledger, applied, strays, foreign>>

\* handle_finished: the answer is recorded and, for most answers, a follow-up
\* is scheduled.
HandleFinished ==
  /\ worker.phase \in Answered \cup Errors \cup Refusals
  /\ store' = CASE worker.phase = "committed" ->
                     MarkSuccess(store, worker.op, worker.revision)
                [] worker.phase \in Errors -> MarkRetry(store, worker.op)
                [] worker.phase \notin Errors \cup {"committed"} -> store
  /\ wake' = (wake \/ worker.phase \in Answered \cup Retried)
  /\ worker' = NoWorker
  /\ UNCHANGED <<recovering, ledger, applied, strays, foreign>>

\* A pull brings a revision the server had when it was asked.
ApplyPull(d, revision) ==
  /\ ~ recovering
  /\ AcceptsRemote(store, d, revision)
  /\ store' = ApplyRemoteSnapshot(store, d, revision, ledger[d][revision])
  /\ UNCHANGED <<worker, wake, recovering, ledger, applied, strays, foreign>>

\* Mutant: also when no operation is in flight.
AbandonAlways == strays' = strays \cup {worker.op}

\* Nobody waits for the request any more; it may have been sent all the same.
Abandon ==
  strays' = IF worker.phase = "sent" THEN strays \cup {worker.op} ELSE strays

\* The process dies, or is closed, and the program is opened again; its first
\* pull ends with retry_pending_syncs.
Restart ==
  /\ ~ recovering
  /\ store' = RecoverInterruptedDispatches(store)
  /\ worker' = NoWorker
  /\ wake' = TRUE
  /\ Abandon
  /\ UNCHANGED <<recovering, ledger, applied, foreign>>

-----------------------------------------------------------------------------
(* Worker thread and server *)

Learn(phase, revision) ==
  worker' = [worker EXCEPT !.phase = phase, !.revision = revision]

\* commit_document applies an operation whose base is the last revision.
Accepts(i) ==
  /\ AppliedAs(i) = {}
  /\ store.ops[i].base = Revision(store.ops[i].doc)

Apply(i) ==
  /\ ledger' = [ledger EXCEPT ![store.ops[i].doc] =
                  Append(@, store.ops[i].text)]
  /\ applied' = applied \cup {[op |-> i, revision |-> store.ops[i].base + 1]}

ServerCommits ==
  /\ worker.phase = "sent"
  /\ Accepts(worker.op)
  /\ Apply(worker.op)
  /\ Learn("committed", Carried.base + 1)
  /\ UNCHANGED <<store, wake, recovering, strays, foreign>>

\* The server knows the operation and repeats its answer.
ServerReplays ==
  /\ worker.phase = "sent"
  /\ \E a \in AppliedAs(worker.op) : Learn("committed", a.revision)
  /\ UNCHANGED <<store, wake, recovering, ledger, applied, strays, foreign>>

\* REVISION_CONFLICT or DOCUMENT_ALREADY_EXISTS.
ServerRejects ==
  /\ worker.phase = "sent"
  /\ AppliedAs(worker.op) = {}
  /\ ~ Accepts(worker.op)
  /\ Learn("rejected", 0)
  /\ UNCHANGED <<store, wake, recovering, ledger, applied, strays, foreign>>

\* The request was lost, or its answer was, or it is still under way.
AttemptFails(error) ==
  /\ worker.phase \in {"sent", "rejected"}
  /\ error \in Errors
  /\ Learn(error, 0)
  /\ IF error = "NETWORK" THEN Abandon ELSE UNCHANGED strays
  /\ UNCHANGED <<store, wake, recovering, ledger, applied, foreign>>

\* A request reaches the server after its sender stopped waiting.
StrayArrives(i) ==
  /\ i \in strays
  /\ strays' = strays \ {i}
  /\ IF Accepts(i) THEN Apply(i) ELSE UNCHANGED <<ledger, applied>>
  /\ UNCHANGED <<store, worker, wake, recovering, foreign>>

\* A refusal the queue gives up on; a tree-order snapshot whose folders were
\* refused makes room for the next one.
Refused(error) ==
  /\ worker.phase = "sent"
  /\ error \in Refusals
  /\ \/ /\ store' = MarkBlocked(store, worker.op)
        /\ Learn(error, 0)
     \/ /\ store' = MarkBlockedAndPromoteDependent(store, worker.op)
        /\ IF DependentsOf(store, Carried.doc) = {}
           THEN Learn(error, 0) ELSE Learn("superseded", 0)
  /\ UNCHANGED <<wake, recovering, ledger, applied, strays, foreign>>

\* The server's text is read and merged; the merge is clean, or it is not.
MergesCleanly(merged) ==
  /\ worker.phase = "rejected"
  /\ Len(store.ops) < MaxOps
  /\ LET d == Carried.doc IN
       store' = RebaseCleanMerge(store, worker.op, Revision(d),
                                 ledger[d][Revision(d)], merged)
  /\ Learn("auto_merged", 0)
  /\ UNCHANGED <<wake, recovering, ledger, applied, strays, foreign>>

Conflicts ==
  /\ worker.phase = "rejected"
  /\ LET d == Carried.doc IN
       store' = MarkConflict(store, worker.op, Revision(d),
                             ledger[d][Revision(d)], Carried.text)
  /\ Learn("conflict", 0)
  /\ UNCHANGED <<wake, recovering, ledger, applied, strays, foreign>>

ForeignCommit(d, text) ==
  /\ foreign < MaxForeign
  /\ ledger' = [ledger EXCEPT ![d] = Append(@, text)]
  /\ foreign' = foreign + 1
  /\ UNCHANGED <<store, worker, wake, recovering, applied, strays>>

-----------------------------------------------------------------------------
Init ==
  /\ store = EmptyStore
  /\ worker = NoWorker
  /\ wake = FALSE
  /\ recovering = FALSE
  /\ ledger = [d \in Document |-> <<>>]
  /\ applied = {}
  /\ strays = {}
  /\ foreign = 0

WorkerStep ==
  \/ ServerCommits
  \/ ServerReplays
  \/ ServerRejects
  \/ \E error \in Errors : AttemptFails(error)
  \/ \E error \in Refusals : Refused(error)
  \/ \E text \in Text : MergesCleanly(text)
  \/ Conflicts

DrainStep ==
  \/ Dispatch
  \/ Rest
  \/ HandleFinished
  \/ \E d \in Document : RecoverStrandedOperation(d)

Environment ==
  \/ Restart
  \/ \E i \in strays : StrayArrives(i)
  \/ \E d \in Document, text \in Text : Save(d, text) \/ ForeignCommit(d, text)
  \/ \E d \in Document :
       \E revision \in 1 .. Revision(d) : ApplyPull(d, revision)

Next == WorkerStep \/ DrainStep \/ Environment

Spec == Init /\ [][Next]_vars

\* Timers and signals are served, a worker thread comes to an end, the server
\* can be reached again and again, and the program is not killed every time
\* just before it handles an answer of the server.
Progress ==
  /\ WF_vars(Dispatch)
  /\ WF_vars(Rest)
  /\ WF_vars(HandleFinished)
  /\ SF_vars(worker.phase \notin Errors /\ HandleFinished)
  /\ \A d \in Document : WF_vars(RecoverStrandedOperation(d))
  /\ WF_vars(WorkerStep)
  /\ SF_vars(ServerCommits \/ ServerReplays \/ ServerRejects)
  /\ SF_vars(Conflicts \/ \E text \in Text : MergesCleanly(text))

FairSpec == Spec /\ Progress

-----------------------------------------------------------------------------
(* Properties *)

AppliedRow == [op : Nat \ {0}, revision : Nat \ {0}]

\* The store, the worker and the ledger hold what the code writes to them.
TypeOK ==
  /\ store \in Store
  /\ worker \in Worker \cup {NoWorker}
  /\ worker # NoWorker => worker.op \in DOMAIN store.ops
  /\ wake \in BOOLEAN
  /\ recovering \in BOOLEAN
  /\ ledger \in [Document -> Seq(Text)]
  /\ applied \in SUBSET AppliedRow
  /\ strays \in SUBSET DOMAIN store.ops
  /\ foreign \in Nat

\* Two operations of one document can never be sent side by side, through
\* saves, promotions, merges, refusals, recoveries and restarts in any order.
AtMostOneDispatchable ==
  \A i, j \in DOMAIN store.ops :
    /\ store.ops[i].doc = store.ops[j].doc
    /\ Waiting(store.ops[i]) /\ store.ops[i].base # NoBase
    /\ Waiting(store.ops[j]) /\ store.ops[j].base # NoBase
    => i = j

\* What the device takes for the server's text at a revision is the text the
\* server has at that revision, also after lost, late and repeated answers:
\* every three-way merge starts from it.
BaseAgreesWithLedger ==
  \A d \in Document :
    /\ store.rows[d] # NoRow
    /\ store.rows[d].revision > 0
    => /\ store.rows[d].revision <= Len(ledger[d])
       /\ store.rows[d].base = ledger[d][store.rows[d].revision]

\* The operation a document sends next names the revision and the text the
\* device last accepted.
HeadStartsFromAcceptedBase ==
  \A i \in DOMAIN store.ops :
    LET o == store.ops[i] IN
    Waiting(o) /\ o.base # NoBase =>
      /\ store.rows[o.doc] # NoRow
      /\ o.base = store.rows[o.doc].revision
      /\ o.from = store.rows[o.doc].base

\* Merges and requests start from the server's own texts: what is accepted is in
\* the ledger, and what is sent next is based on what is accepted.
SendsFromTheLedger == BaseAgreesWithLedger /\ HeadStartsFromAcceptedBase

\* An edit the server has applied is never shown to its writer as a conflict,
\* however its answer was lost.
AppliedNeverConflicts ==
  \A a \in applied : store.ops[a.op].state # "conflict"

\* A document is shown as being in conflict exactly while an operation of it
\* is stopped at one.
ConflictIsShown ==
  \A d \in Document : store.rows[d] # NoRow =>
    (store.rows[d].sync = "conflict"
       <=> \E i \in OpsOf(store, d) : store.ops[i].state = "conflict")

\* What is shown as a conflict is one: of a document with a stopped operation,
\* and never for an edit the server has taken, though its answer was lost, came
\* late, or the edit was superseded or merged meanwhile.
ConflictsAreTrue == AppliedNeverConflicts /\ ConflictIsShown

\* Two operations of one document are never sendable side by side, every request
\* and every merge starts from a text the server has, and only a real conflict is
\* shown as one.
QueueIsTrue ==
  TypeOK /\ AtMostOneDispatchable /\ SendsFromTheLedger /\ ConflictsAreTrue

\* A saved edit does not wait in the queue for ever.
EverySaveSettles ==
  \A d \in Document : WaitingOf(store, d) # {} ~> WaitingOf(store, d) = {}
=============================================================================
