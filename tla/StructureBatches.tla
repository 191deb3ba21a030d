--------------------------- MODULE StructureBatches ---------------------------
(***************************************************************************)
(* Folder changes of a project on the contract path: each change of the     *)
(* binder becomes one atomic batch of intents (what happened to the folder, *)
(* then the new tree order), stored with the local projection in a single   *)
(* transaction, sent whole by one worker and answered whole.  An intent     *)
(* takes the place of the newest active one of the same entity.             *)
(***************************************************************************)
EXTENDS Naturals, Sequences, FiniteSets

CONSTANTS
  Folder, Name,
  Dir,           \* folders a folder can be moved to
  Order,         \* the tree order, an entity as well
  Nothing,
  MaxBatches,    \* bound: changes the writer makes
  MaxOthers      \* bound: what other devices do, and restarts

VARIABLES
  folders,       \* sync_folders, and the revision of sync_tree_orders
  batches,       \* sync_contract_batches with their structure operations
  results,       \* sync_contract_batch_results
  worker,        \* V2StructureBatchWorker
  remote,        \* the server's rows
  accepted,      \* batches the server has applied
  others

queue == <<batches, results>>
structureVars == <<folders, batches, results, worker, remote, accepted, others>>

Entity == Folder \cup {Order}

ActiveStates == {"pending", "inflight", "retry_wait", "blocked", "conflict"}
ReadyStates == {"pending", "retry_wait"}

Settled(b) == results[b] # Nothing

-----------------------------------------------------------------------------
(* The store *)

\* Operations of an entity that still count, newest batch first; two of one
\* batch carry the same time, and their random identifiers decide.
ActiveOf(e) ==
  {x \in (1 .. Len(batches)) \X (1 .. 3) :
     /\ x[2] <= Len(batches[x[1]])
     /\ batches[x[1]][x[2]].entity = e
     /\ batches[x[1]][x[2]].state \in ActiveStates}

\* latest_active_structure_operation
LatestOf(e) == {x \in ActiveOf(e) : \A y \in ActiveOf(e) : y[1] <= x[1]}

Chosen(S) == IF S = {} THEN {Nothing} ELSE S

SetStates(bs, P(_, _), state) ==
  [b \in DOMAIN bs |->
     [i \in DOMAIN bs[b] |->
        IF P(b, i) THEN [bs[b][i] EXCEPT !.state = state] ELSE bs[b][i]]]

\* Mutant: the predecessors stay in the queue.
KeepsPredecessors(bs, replaced) == bs

Supersede(bs, replaced) ==
  SetStates(bs, LAMBDA b, i : <<b, i>> \in replaced, "cancelled")

\* create_structure_batch: the whole batch, or nothing.
AppendBatch(intents, replaced) ==
  /\ Len(batches) < MaxBatches
  /\ batches' = Append(Supersede(batches, replaced), intents)
  /\ results' = Append(results, Nothing)

Intent(e, kind, base, value) ==
  [entity |-> e, kind |-> kind, base |-> base, value |-> value, state |-> "pending"]

Reorder == Intent(Order, "reorder", folders[Order].revision, Nothing)

-----------------------------------------------------------------------------
(* Changes of the binder *)

\* _contract_path_change_intents: a folder never sent is created where it is;
\* the name is compared with the path, the parent with the proven parent.
PathIntents(f, name, dir) ==
  LET row    == folders[f]
      rename == IF row.name = name THEN <<>>
                ELSE <<Intent(f, "rename", row.revision, name)>>
      move   == IF row.dir = dir /\ row.parent = dir THEN <<>>
                ELSE <<Intent(f, "move", row.revision + Len(rename), dir)>>
  IN  IF row.revision = 0
      THEN <<Intent(f, "create", 0, [name |-> name, dir |-> dir])>>
      ELSE rename \o move

\* queue_contract_path_change_with_order: each entity's first intent takes the
\* place of its newest active operation.
QueueChange(f, intents) ==
  \E old \in Chosen(LatestOf(f)), order \in Chosen(LatestOf(Order)) :
    AppendBatch(intents \o <<Reorder>>,
                ((IF intents = <<>> THEN {} ELSE {old}) \cup {order}) \ {Nothing})

\* create_structure_batch_with_path_changes: the batch and the projection in
\* one transaction.
Store(f, intents, row) ==
  /\ QueueChange(f, intents)
  /\ folders' = [folders EXCEPT ![f] = row]
  /\ UNCHANGED <<worker, remote, accepted, others>>

\* move_folder_paths: the path and the name, never the parent's identity.
Moved(f, name, dir) == [folders[f] EXCEPT !.name = name, !.dir = dir]

ChangePath(f, name, dir) ==
  /\ ~ folders[f].deleted
  /\ <<name, dir>> # <<folders[f].name, folders[f].dir>>
  /\ Store(f, PathIntents(f, name, dir), Moved(f, name, dir))

\* _contract_folder_lifecycle_plan
Lifecycle(f, kind, value) == <<Intent(f, kind, folders[f].revision, value)>>

DeleteFolder(f) ==
  /\ ~ folders[f].deleted
  /\ Store(f, Lifecycle(f, "delete", Nothing), [folders[f] EXCEPT !.deleted = TRUE])

Restored(f, dir) ==
  [folders[f] EXCEPT !.deleted = FALSE, !.dir = dir, !.parent = dir]

RestoreFolder(f, dir) ==
  /\ folders[f].deleted
  /\ Store(f, Lifecycle(f, "restore", [name |-> folders[f].name, dir |-> dir]),
           Restored(f, dir))

-----------------------------------------------------------------------------
(* Sending *)

\* next_ready_structure_batch: the oldest whose operations may all be sent.
Ready ==
  {b \in DOMAIN batches :
     ~ Settled(b) /\ \A i \in DOMAIN batches[b] : batches[b][i].state \in ReadyStates}

Launch ==
  /\ worker = Nothing
  /\ Ready # {}
  /\ LET next == CHOOSE b \in Ready : \A c \in Ready : b <= c
     IN  /\ batches' = SetStates(batches, LAMBDA b, i : b = next, "inflight")
         /\ worker' = [batch |-> next, answer |-> Nothing]
  /\ UNCHANGED <<folders, results, remote, accepted, others>>

Request == batches[worker.batch]

\* The server's row after one intent of the batch.
RowAfter(rows, intent) ==
  LET row  == rows[intent.entity]
      next == [row EXCEPT !.revision = @ + 1]
  IN  CASE intent.kind = "rename"  -> [next EXCEPT !.name = intent.value]
        [] intent.kind = "move"    -> [next EXCEPT !.dir = intent.value]
        [] intent.kind = "delete"  -> [next EXCEPT !.deleted = TRUE]
        [] intent.kind = "reorder" -> next
        [] OTHER -> [next EXCEPT !.name = intent.value.name,
                                 !.dir = intent.value.dir, !.deleted = FALSE]

\* The server's rows after the first n intents of a batch; a batch has three at most.
After(rows, intents, n) ==
  LET Turn(r, i) == IF i <= n THEN [r EXCEPT ![intents[i].entity] = RowAfter(r, intents[i])]
                    ELSE r
  IN  Turn(Turn(Turn(rows, 1), 2), 3)

\* The first intent whose base is not the row's revision at its turn.
Clash(intents) ==
  LET clashes == {i \in DOMAIN intents :
        After(remote, intents, i - 1)[intents[i].entity].revision
          # intents[i].base}
  IN  IF clashes = {} THEN 0 ELSE CHOOSE i \in clashes : \A j \in clashes : i <= j

\* No answer, or one that cannot be read.
Lost == [lost |-> TRUE]

Answer(answer) == worker' = [worker EXCEPT !.answer = answer]

\* atomic_structure_commit: all the intents or none; a batch seen before gets
\* the answer it had.
ServerApplies ==
  /\ worker # Nothing /\ worker.answer = Nothing
  /\ worker.batch \in accepted \/ Clash(Request) = 0
  /\ IF worker.batch \in accepted THEN UNCHANGED <<remote, accepted>>
     ELSE /\ remote' = After(remote, Request, Len(Request))
          /\ accepted' = accepted \cup {worker.batch}
  /\ \E arrives \in BOOLEAN : Answer(IF arrives THEN [failed |-> 0] ELSE Lost)
  /\ UNCHANGED <<folders, queue, others>>

ServerRefuses(failed) ==
  /\ worker # Nothing /\ worker.answer = Nothing
  /\ worker.batch \notin accepted
  /\ failed \in DOMAIN Request
  /\ Clash(Request) \in {0, failed}
  /\ Answer([failed |-> failed])
  /\ UNCHANGED <<folders, queue, remote, accepted, others>>

Unanswered ==
  /\ worker # Nothing /\ worker.answer = Nothing
  /\ Answer(Lost)
  /\ UNCHANGED <<folders, queue, remote, accepted, others>>

\* Mutant: records what it can of the answer.
RecordableInPart == \E i \in DOMAIN Request : Request[i].state \in ActiveStates

\* An operation that was superseded meanwhile takes no more events, and the
\* transaction that records the answer raises as a whole.
Recordable == \A i \in DOMAIN Request : Request[i].state \in ActiveStates

\* record_structure_batch_response, applied: the revisions of the answer.
ResultRevision(e) ==
  LET mine == {i \in DOMAIN Request : Request[i].entity = e}
      last == CHOOSE i \in mine : \A j \in mine : j <= i
  IN  Request[last].base + 1

Project ==
  [e \in Entity |->
     IF \E i \in DOMAIN Request : Request[i].entity = e
     THEN [folders[e] EXCEPT !.revision = ResultRevision(e)] ELSE folders[e]]

CanRecord ==
  /\ worker # Nothing /\ worker.answer \notin {Nothing, Lost}
  /\ Recordable

RecordApplied ==
  /\ CanRecord
  /\ worker.answer.failed = 0
  /\ folders' = Project
  /\ batches' = SetStates(batches,
       LAMBDA b, i : b = worker.batch /\ batches[b][i].state \in ActiveStates,
       "completed")
  /\ results' = [results EXCEPT ![worker.batch] = "applied"]
  /\ worker' = Nothing
  /\ UNCHANGED <<remote, accepted, others>>

\* Refused: the intent that failed on its revision is the conflict, the rest
\* of the batch is blocked with it.
RecordRefused ==
  /\ CanRecord
  /\ worker.answer.failed # 0
  /\ LET failed == worker.answer.failed
         stale  == Clash(Request) = failed
     IN  batches' = [batches EXCEPT ![worker.batch] =
           [i \in DOMAIN Request |->
              [Request[i] EXCEPT !.state =
                 IF i = failed /\ stale THEN "conflict" ELSE "blocked"]]]
  /\ results' = [results EXCEPT ![worker.batch] = "refused"]
  /\ worker' = Nothing
  /\ UNCHANGED <<folders, remote, accepted, others>>

\* mark_structure_batch_retry: after a failure, or an answer that could not be
\* recorded.
MarkRetry ==
  /\ worker # Nothing /\ worker.answer # Nothing
  /\ IF worker.answer = Lost THEN TRUE ELSE ~ Recordable
  /\ batches' = SetStates(batches,
       LAMBDA b, i : b = worker.batch /\ batches[b][i].state = "inflight",
       "retry_wait")
  /\ worker' = Nothing
  /\ UNCHANGED <<folders, results, remote, accepted, others>>

-----------------------------------------------------------------------------
(* Around it *)

Happens == others < MaxOthers /\ others' = others + 1

\* _recover_interrupted_dispatches
Restart ==
  /\ Happens
  /\ batches' = SetStates(batches,
       LAMBDA b, i : batches[b][i].state = "inflight", "retry_wait")
  /\ worker' = Nothing
  /\ UNCHANGED <<folders, results, remote, accepted>>

NoneActive == \A e \in Entity : ActiveOf(e) = {}

\* A pull, once nothing is queued, takes the server's rows.
PullRows ==
  /\ worker = Nothing /\ NoneActive
  /\ folders' = [e \in Entity |->
       IF remote[e].revision <= folders[e].revision THEN folders[e]
       ELSE [revision |-> remote[e].revision, name |-> remote[e].name,
             dir |-> remote[e].dir, parent |-> remote[e].dir, deleted |-> remote[e].deleted]]
  /\ folders' # folders
  /\ UNCHANGED <<queue, worker, remote, accepted, others>>

OtherRenames(f, name) ==
  /\ Happens
  /\ remote[f].revision > 0 /\ ~ remote[f].deleted /\ remote[f].name # name
  /\ remote' = [remote EXCEPT ![f].name = name, ![f].revision = @ + 1]
  /\ UNCHANGED <<folders, queue, worker, accepted>>

StructureInit ==
  /\ \E rev \in [Folder -> {0, 1}], name \in Name, dir \in Dir :
       folders = [e \in Entity |->
         [revision |-> IF e = Order THEN 0 ELSE rev[e], name |-> name,
          dir |-> dir, parent |-> dir, deleted |-> FALSE]]
  /\ batches = <<>> /\ results = <<>> /\ worker = Nothing
  /\ remote = [e \in Entity |->
       [revision |-> folders[e].revision, name |-> folders[e].name,
        dir |-> folders[e].dir, deleted |-> FALSE]]
  /\ accepted = {} /\ others = 0

StructureNext ==
  \/ \E f \in Folder, name \in Name, dir \in Dir : ChangePath(f, name, dir)
  \/ \E f \in Folder, dir \in Dir : RestoreFolder(f, dir)
  \/ \E f \in Folder : DeleteFolder(f)
  \/ Launch \/ ServerApplies \/ Unanswered
  \/ \E failed \in 1 .. 3 : ServerRefuses(failed)
  \/ RecordApplied \/ RecordRefused \/ MarkRetry
  \/ Restart \/ PullRows
  \/ \E f \in Folder, name \in Name : OtherRenames(f, name)

StructureSpec == StructureInit /\ [][StructureNext]_structureVars

-----------------------------------------------------------------------------
(* Properties *)

\* Every operation of every batch, the answers and the worker have the values
\* the code writes.
StructureTypeOK ==
  /\ DOMAIN folders = Entity
  /\ \A e \in Entity : folders[e].revision \in Nat /\ remote[e].revision \in Nat
  /\ Len(results) = Len(batches)
  /\ \A b \in DOMAIN batches, i \in 1 .. 3 :
       i <= Len(batches[b]) =>
         batches[b][i].state \in ActiveStates \cup {"completed", "cancelled"}
  /\ worker # Nothing => worker.batch \in DOMAIN batches
  /\ accepted \subseteq DOMAIN batches

\* A batch is recorded whole or not at all: all its operations are completed
\* when it was applied, none of them otherwise, though a later change may take
\* the place of one of them while the answer is on its way; and only what the
\* server has applied is recorded as applied.
BatchesAreWhole ==
  \A b \in DOMAIN batches :
    /\ results[b] = "applied" =>
         b \in accepted /\ \A i \in DOMAIN batches[b] : batches[b][i].state = "completed"
    /\ results[b] # "applied" =>
         \A i \in DOMAIN batches[b] : batches[b][i].state # "completed"

\* Two requests for one entity are never on their way to the server at once,
\* and the newest change of an entity is never behind an older one that can
\* still be sent.
OneRequestPerEntity ==
  \A e \in Entity :
    \A x, y \in {z \in ActiveOf(e) : batches[z[1]][z[2]].state \in ReadyStates} :
      x[1] < y[1] => x[1] \notin Ready

\* While every batch the server has applied is recorded, and no other device
\* writes, the revision the device goes on from is the server's.
RevisionsAreProven ==
  (\A b \in accepted : results[b] = "applied") /\ others = 0 =>
    \A e \in Entity : folders[e].revision = remote[e].revision

\* What the queue promises of the entities its batches name.
QueueIsSound == OneRequestPerEntity /\ RevisionsAreProven

\* When no operation is active and nobody else has written, each folder stands
\* at the server where it stands on the device.
PathIntentsArrive ==
  NoneActive /\ worker = Nothing /\ others = 0 =>
    \A f \in Folder :
      remote[f].revision > 0 /\ ~ folders[f].deleted =>
        /\ remote[f].name = folders[f].name
        /\ remote[f].dir = folders[f].dir
=============================================================================
