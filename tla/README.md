# WriterPad synchronization: TLA+ models, checks and proofs

WriterPad is a desktop writing program (Python, PyQt, SQLite) whose manuscripts
are shared with other desktops and an iPad through a Supabase database.  These
modules model the part of it where mistakes cost text: the server's RPCs, the
durable queue of edits, the worker that sends it, the pull that receives other
devices' changes and decides what may be sent, the folder tree on both sides, the
login and handshake a structure batch is sent under, the once-only execution of a
reviewed batch, the works of a device with their identities, trash, imports and
backups, the opening of an older database, the trial editors and tools, and the
window of the AI assistant.  TLC checks small instances; TLAPS proves the most important results for
every value of the constants.

`PROJECT.json` holds the index: components, runs, the source lines behind each
definition, hazards, findings and theorems.

## 1. Inventory

### The program

| Component | State it keeps | Operations | Talks to |
|---|---|---|---|
| Document server (`supabase/migrations/*.sql`) | projects, members, documents, append-only `document_versions`, `edit_leases`, purge tombstones | `ensure_project`, `acquire/renew/release_edit_lease`, `commit_document`, trash, restore, purge, status | every device, over HTTP |
| Folder server (`20260803010000_folder_identity.sql`) | `folders`, append-only `folder_versions` | `commit_folder` | same database, same project rows |
| Operation store (`sync_v2_store.py`) | SQLite: `sync_documents`, `sync_operations`, their event log, structure batches, folder identity, trash, project flags | enqueue, coalesce, promote, claim, attempt, complete, conflict, merge, recover, apply a pull | called by the GUI thread and by worker threads, possibly by a second process |
| Sync worker and scheduler (`sync_manager.py`) | one `V2QueueWorker`, timers, leases the device believes it holds | dispatch, commit with lease, classify errors, three-way merge, retry | store, server, files |
| Editor save path (`writing_controller.py`, `text_editor.py`, `project_manager_writing.py`) | the manuscript file, the open editor, its dirty flag | save a file then queue the edit; autosave; refresh an open document | store, worker |
| Pull (`sync_manager.py`) | a coordinator per project and login: the pull reserved, what was deferred, whether the baseline is validated | reserve, start, answer, finish; apply to file then store; choose the authority | server, files, store, editor; holds back the queue |
| Handshake, authority, session (`sync_manager.py`, `handshake_lifecycle.py`, `network_recovery.py`) | the attached project, the login, their generations and epochs, the handshake reading, the structure authority, the project's server state | attach, sign in and out, renew, recover, probe, send a structure batch | server; gates structure batches and pulls |
| Structure batches and tree intents (`sync_v2_store.py`, `sync_manager.py`) | batches with an authority stamp, folder rename and delete intents, barriers | create, attempt, record, resolve | store, server, binder |
| Reviewed execution (`reviewed_contract_sender.py`, `contract_http_zero_recovery.py`, `contract_post_coordination_resume.py`) | three rows of attempts and a gate | claim, read the server twice, count, send, record, stop, recover at opening | store, server; several processes |
| Works of a device (`project_trash.py`, `project_creation_v1.py`, `project_identity_v1.py`, `server_project_import.py`, `project_archive.py`) | directories, identity files, journals, trash entries, bindings, import rows, packages | create, recover, rename, trash, restore, purge, import, back up | file system, store, server |
| Gate and tools (`general_test_gate.py`, `scripts/contract_path_preflight.py`) | the local gate, the send hold, the observed server mode; batches left in the queue | activate, release, deactivate, make a folder, probe | store, server, the application |
| Trial editors (`integrated_editor_*.py`, `normal_editor_*.py`) | a workspace row or a journal beside one manuscript, a budget | edit, send, receive, recover | server, files |
| Assistant (`mode_assistant.py`, `assistant_workflow.py`) | panels, documents, chapters, timers, requests | type, ask, apply, confirm a chapter | files, a paid service |
| Isolated tools, windows, settings | widgets, approvals | operator procedures, display | mostly none of the above |

What is correct, per part:

* **Document server**: an operation id is applied at most once, however often
  its request arrives; the ledger of a document is 1, 2, 3, ... without gaps; two
  live documents of a project have different paths; only the lease holder writes
  a next revision; trash freezes, purge is final.
* **Folder server**: the folders of a project form a tree, a live folder hangs
  under live folders, siblings have names that differ without regard to case.
* **Operation store and worker**: one operation of a document is on its way at a
  time and starts from what the device accepted; what the server applied is
  never shown as a conflict; a saved edit is eventually settled; nothing that
  reached a final state moves again.
* **Files and editors**: no saved text disappears; a reader's file never falls
  behind what its store says it has; no device overwrites another's change
  unless the writer chose to.
* **Reviewed execution**: the approved batch goes to HTTP at most once over all
  rounds, processes, crashes and openings; a round recorded as stopped sent
  nothing; the ledger never says other than the server.
* **Handshake and authority**: a structure batch is sent under one authorization
  that never lapsed, and a reading belongs to the login that made it.
* **Pull coordinator**: one pull at a time for a project and a login; the selection
  it opens is closed or remembered; a blocked authority stays blocked until the
  user asks; a reviewed batch sees one authority.
* **Folder tree**: a structure batch is recorded whole or not at all and no folder
  has two requests on their way; a volume leaves the server after its chapters; a
  pull leaves documents with unsent work where they are and ends with the binder
  of the other device.
* **Works of a device**: a work is on the shelf or in a trash entry that lists it;
  a uuid names one file for ever; a backup is the work at one moment; an older
  database opens however often its opening was killed.
* **Gate, tools, trials**: what is queued fits the gate it was queued behind; a
  tool's folder is made once; a trial editor's commit leaves once and its records
  explain its file wherever the program stops.
* **Assistant**: a text stays in its chapter, an answer ends once and reaches the
  chapter it is about, a summary has each chapter once.

### What makes it hard

The GUI thread saves while a worker thread is between its reading of a file, its
transaction and its writing of a file.  A request's answer can be lost after the
server applied it, and the abandoned request can still arrive later.  The process
can be killed between a file write and the queue entry that belongs to it.  The
server's transactions read a role before they hold the row they change.  A second
process can open the same database, and opening it recovers what it takes for
leftovers.  `PROJECT.json` lists each of these under `hazards`, at the line where
it bites, with the properties that look for it.

## 2. Modules

| Module | Models | Kind |
|---|---|---|
| `DocumentHistory` | what the server promises: growing lists of snapshots, no operation twice, unique live paths, final closing | abstract specification |
| `DocumentServer` | the document RPCs over the tables | detailed specification, implements `DocumentHistory` |
| `FolderServer` | `commit_folder` beside the documents; EXTENDS `DocumentServer` | detailed specification |
| `OperationStore` | the SQLite transactions on the queue, as operators on a store | operators |
| `OperationQueue` | one device's GUI thread and worker over `OperationStore`, against a reduced server | detailed specification |
| `DocumentSync` | several devices with file, editor, queue, worker and pull, against the whole `DocumentServer` | composition |
| `RemoteTree` | a pull of folders, documents and order into a binder in use | detailed specification |
| `FolderLifecycle` | volumes created, trashed and restored over `OperationStore`, with tombstones, orders, barriers | detailed specification |
| `StructureBatches` | binder changes as atomic batches on the contract path | detailed specification |
| `ProjectIdentity` | files and the identity file that names them, as journalled transactions | detailed specification |
| `ProjectLibrary` | the works of a device: shelf, trash, bindings, import | detailed specification |
| `ProjectArchive` | backups and restorations beside a writer | detailed specification |
| `StoreUpgrade` | the opening of an older database, statement by statement | detailed specification |
| `ReviewedExecution` | the reviewed batch, its three rounds, several processes | detailed specification |
| `ContractContext` | project, login, epochs and authority of one manager: the state the next two modules share, with its handlers | state and operators |
| `ContractDispatch` | the handshake and the worker that sends a structure batch; EXTENDS `ContractContext` | detailed specification |
| `PullCoordination` | who may pull and when, and what a pull decides; EXTENDS `ContractContext` | detailed specification |
| `ContractGate` | the local gate and everyone who moves it | detailed specification |
| `StructureTrial` | the preflight tool's writes and what the application makes of them | detailed specification |
| `IntegratedEditor`, `NormalEditor` | the two trial editors | detailed specifications |
| `AssistantMode` | the assistant's window and its requests | detailed specification |
| `*Proofs` (eight) | theorems in `ServerProofs` on `DocumentServer` and `FolderServer`, in `ClientProofs` on `OperationQueue` and `ProjectLibrary`, in `DocumentSyncProofs` on `DocumentSync`, in `WritersProofs` on `AssistantMode` as `MCWriters` composes it, in `ContractPathProofs` on `ReviewedExecution` and `ContractDispatch`, in `PullCoordinationProofs` on `PullCoordination`, in `DeviceProofs` on `NormalEditor`, `StructureTrial`, `ProjectArchive`, `StoreUpgrade`, in `StructureProofs` on `ContractGate` and `StructureBatches` | proofs |
| `MC*` | model values, symmetry, and several specifications side by side | instances |

### DocumentServer

`projects`, `documents`, `versions`, `leases` and `tombstones` are the tables.
An RPC is one transaction.  Two of them are cut where another transaction can
come in between: `commit_document` reads the caller's role before it takes the
project's advisory lock (`BeginCommit`, `FinishCommit`), and `acquire_edit_lease`
holds the document's row before it looks at the lease (`BeginAcquire`,
`FinishAcquire`).  `CommitVerdict` is the RPC's order of checks: a known
operation is answered as it was if the request is the same and refused if not;
then the base revision, the lease, the path.  `now` is `transaction_timestamp()`:
a transaction uses the time at which it began, which is why `commits` and
`acquires` carry it.  `MemberRole` (roles of users who do not own the project) is
a constant.

`ImplementsHistory` maps the tables to `DocumentHistory`: `Ledger` reads the
snapshots of each document off `versions` in the order of their revisions,
`closed` is `tombstones`.

### FolderServer

`commit_folder` takes the project's lock first, so a call is one action with the
verdict `FolderVerdict`.  `Ancestors` is the recursive query of the RPC, defined
as the least set closed upwards so that no recursive operator is needed.  `Lower`
is the case folding that the unique index compares names by.

### OperationStore and OperationQueue

A store is a record: `ops` is `sync_operations` in order of `queue_id`, each with
the state its last event gives it, `rows` is `sync_documents`.  The operators are
the transactions: `InsertSave` (enqueue with its cancellation of what waits),
`Claim`, `Complete` with the promotion of the next edit, `Recover`, the merge and
the conflict.  `OperationQueue` schedules them: `Dispatch` is
`retry_pending_syncs`, `HandleFinished` the slot that gets the worker's result,
`wake` an armed timer, `recovering` the inside of `recover_stranded_operations`.
The server here is only `ledger` and `applied`, and `strays` are requests the
client gave up on that still may arrive.

### DocumentSync

Each device has `disk`, `editor`, `store`, `gui` (the step of a save or pull the
GUI thread is in), `worker` (the step of `_process_v2_operation`) and `pulled`.
The save is file, queue entry, clean flag; the pull is fetch, file, store, editor;
the merge is read server, read file, rebase the queue, write the merged file; a
crash can come between any two.  A content is a set of passages and writers only
add, so a passage that is gone was lost by the program.  A merge keeps both
sides' passages or is refused (`MergeConflicts`), which is what the three-way
merge promises; the algorithm is not modelled.

### RemoteTree

A directory has three names: the server's row, the identity file, the tree order;
a document has a path beside them.  `pull` carries the rows as they were read, in
three queries between which `PeerActs` and `Publish` move on; `ApplyFolders`,
`ApplyDocuments` and `ApplyOrder` are the loops of the application, one row at a
time, with writes that fail and ends of the process.  The writer's own changes
(`queued`, `typing`) go on between reading and applying.  An order that is already
applied, with every planned folder there, ends the application before any directory
is adopted (`AlreadyApplied`, `sync_manager.py:7343` and `:7383`): such a pull
is accepted, and a folder another device replaced by one of the same name
(`Replaces`) keeps its old directory until a newer order comes; `past.swept`
records the documents that went with a folder.

### FolderLifecycle and StructureBatches

The two ways a folder change leaves the device.  In `FolderLifecycle`, on the
ordinary queue, a text is a set of members, a tombstone the empty one; `intents`
are the open rows of `sync_folder_delete_intents`, `barrier` an order that waits
for its chapters, `moving` a deletion between its move to the trash and its
records.  In `StructureBatches`, a change is one `AppendBatch` with the
projection of `folders`, superseding the newest active operation of each entity;
`Launch`, the server's answer, `RecordApplied`, `RecordRefused` and `MarkRetry`
are the worker.

### ProjectIdentity, ProjectLibrary, ProjectArchive

`ProjectIdentity` is at the granularity of files: `disk` says which uuid the file
at a path was born with, `identity` is what the identity file says, `step` the
place of a command in its transaction, and `causes` which known gap (a purge cut
short, an unnamed copy, a rename in the trash, work over a pending journal) has
made a difference that no journal explains.  `ProjectLibrary` works with whole
directories: a dialog has one job, and between the job's steps an answer is lost,
a move fails, the program stops, another device changes the project.
`ProjectArchive` reads a work file by file while `Save`, `CreateFile` and
`DeleteFile` go on.

### StoreUpgrade

Since `executescript` ends the transaction that `_initialize` has begun, each later
statement is durable by itself: an opening is a walk over statements, of several
processes, each of which can be killed at any of them.

### ReviewedExecution

`state`, `attempts`, `owner`, `receipt` are the rows of the three tables, `gate`
the flag the structure path is opened by, `stage` where a process is.  A process
claims a round, reads the server, opens the gate, prepares, reads the server
again, counts the attempt, sends, records the verdict, settles, closes the gate.
Any check that depends on state outside this model may refuse (`Refuse`).
Opening the store (`Reopen`, `CloseForeignGate`, `GiveUpForeign`) settles the
rounds of other processes one commit at a time, with other processes running.

### ContractContext

`generation`, `login`, `epoch` and `writeEpoch` are the counters by which late
answers are recognised; `PullIdentity`, `ContextKey` and `ProjectContext` are the
tuples the code compares, without the ids that change only together with the
generation.  `authority` holds the choice and the identity it was chosen for, as
the two attributes of the manager do.  A sign-in or sign-out holds the UI thread
between its two blocks (`uiCall`), while workers find the login expired or renew
it.  The account is that of the token the client holds (`holder`), which counts
only while `authenticated`.  `DispatchAllowed`, which every ordinary write asks,
lets an authority of another identity pass; `AuthorityAllows`, which the contract
path asks, does not: both are as in the code.

### ContractDispatch

`BeginHandshake`, `AskHandshake` and the three ends are
`perform_contract_handshake`, cut where the lock is released: the tokens used are
those of the moment of the question, the reading is kept if the key has not
changed since the slot was taken.  `Launch`, four times `Passes` and `SenderEnds`
are the worker: each of its four checks of `_check_contract_dispatch` is an action
and between two of them a network call takes as long as it likes.  `lapsed` is a
history variable: it becomes true when anything the batch relies on is missing,
for however short a time, between launch and request.  The pull is here only by
its decisions (`PullBegins`, `PullDecides`).

### PullCoordination

`coord` is the coordinator made last (one of another identity is dead in the
code).  `RequestPull` is `pull_remote_changes_async` in its order: deferred by a
review, refused without a login, held back by a blocked authority, by a pull on
its way or by the gate, or reserved.  `StartPull`, `PullResult` and `PullFinished`
are the three later steps of the same pull on the UI thread.  `Drain` is
`retry_pending_syncs` with the deferred pull at its boundary.  A pull's flags say
what it was asked for, `stale` that the local tree changed while it ran, `then`
what its answer leaves for the finish.  Left out: all waiting times (a timer may
fire at any moment, a back-off is a flag), the hold of a general test, the
callbacks of local structure operations, the handshake inside a pull.

### ContractGate and StructureTrial

Two processes on one database.  In `ContractGate` the application, the trial's
card, the recovery of a rejected queue and the tool move one gate; a save takes the
form of the gate it finds (`FormOfNext`), what is sent is decided later, and `late`
records what was shaped between a look and a switch.  In `StructureTrial` the tool
makes a directory, queues its creation, sends it and records the answer, or sends
a reorder that must be refused; the application finds the rest of it.

### IntegratedEditor and NormalEditor

`IntegratedEditor` has the one row `ws` with its jobs, whose requests become
immutable one at a time, and the `cycle` that recovers, receives and sends under
the budget of an approval; requests that follow each other without a decision
between them (login and handshake, the tables of a reading, the two of a receipt)
are one.  A row of the seed is nobody's to edit, one received since may be.  `NormalEditor` has a journal beside one file: each
handler is a list of durable steps (`Steps`), after each of which the program may
stop, and `cut` and `hasty` record two awkward moments the code does not survive
unharmed (section 4).

### AssistantMode

`desk` is what the window shows and the files hold; a handler is a function from
desk to desk, so that a click is the composition the code makes of them.  An open
panel disables the side bar, and `SwitchTab` with it, but not the shortcut of the
global search, whose jump is `GotoSearchResult`.  `ai`
and `workers` are the request and the threads of older ones; `past` carries the
newest text of each chapter and the known `causes` of a misplaced text.

## 3. Runs

Several specifications that share no variable are checked by one run: a variable
(`part`, `situation`) is chosen in the initial state, only the chosen part moves,
the others stand still in one fixed state, and every property is stated of its
part.

| Run | Parts and instance | Question |
|---|---|---|
| `server_paths` | 1 device, 2 documents, 2 paths, 4 operations | replays, renames, deletes, restores, trash and purge: one effect per operation, unique live paths, final purge, and the refinement of `DocumentHistory` |
| `server_leases` | 2 devices with different accounts, 2 transactions in progress, a clock | leases taken over, renewed and expired between the steps of a commit |
| `folders` | `FolderServer` with 2 folders, 1 name in 2 spellings, 3 operations; `RemoteTree` with 2 directories, 1 document, 2 changes elsewhere, 1 disturbance here | one tree on the server; a pull leaves unsent work where it is and ends in the other device's binder |
| `client` | `OperationQueue` with 2 texts, 3 queued edits, 2 foreign commits; `ProjectLibrary` with 2 works, 3 projects, 2 titles; `IntegratedEditor` with 1 folder, 1 document, 12 requests | the queue against the ledger with lost, late and repeated answers and restarts; works stay in reach and keep their identity; a request leaves once and only a peer stops the editor |
| `device` | `OperationQueue` under fairness; `NormalEditor`; `StructureTrial`; `StoreUpgrade` with 2 openers; `ProjectArchive` with 2 files | every save settles; records explain the file; the tool's folder is made once; older files open; backups are moments |
| `sync` | `DocumentSync` with a writer and a reader and 1 crash each, or with 2 writers without crashes and clock; `AssistantMode` with 3 chapters | nothing saved by a lone writer is lost, the reader follows, an applied edit is never a conflict; texts stay in their chapters, answers reach theirs |
| `structure` | `FolderLifecycle` with 2 volumes and 2 chapters; `StructureBatches` with 1 folder and 2 batches; `ProjectIdentity` with 2 uuids and every fault; `ContractGate` with 2 works | ordered deletions; whole batches; identities name their files; the queue fits the gate |
| `contract_path` | `ReviewedExecution` with 3 processes and 3 rounds; `ContractDispatch` with 2 accounts, `MaxChanges` = 2; `PullCoordination` with `MaxPulls` = 3 | at most one HTTP attempt, truthful ledger, clean openings; one authorization from launch to request; pulls one at a time, nothing forgotten, no loop, no pull under a review |
| `sync_save_during_merge`, `selection_stalls`, `path_intents_lost`, `blocked_rows` | smallest instances | findings, section 4 |

**Bounds.** Every bound is a constant named `Max...` with a comment in its module,
and a guard of the action that grows what it bounds: `MaxOps`, `MaxForeign`,
`MaxTokens`, `MaxTime`, `MaxInProgress`, `MaxBase`, `MaxCrashes` in the server, queue
and sync modules; `MaxChanges`, `MaxPulls` (events from outside, pulls) on the
contract path; `MaxChanges`, `MaxLocal`, `MaxFaults`, `MaxDisturbances` in
`RemoteTree` and `MCFolders`; `MaxEdits`, `MaxForeign` in `FolderLifecycle`;
`MaxBatches`, `MaxOthers`, `MaxRuns` in `StructureBatches` and `StructureTrial`;
`MaxFaults`, `MaxOrder` in `ProjectIdentity`; `MaxFaults`, `MaxOthers`, `MaxActs` in
`ProjectLibrary`; `MaxSaves`, `MaxTries`, `MaxDamages` in `ProjectArchive`;
`MaxOpenings`, `MaxSends` in `StoreUpgrade`; `MaxWorks`, `MaxTurns`, `MaxEvents` in
`ContractGate`; `MaxRequests` and `MaxEmpty` (the approval's own budget), `MaxActs`
(`MaxEdits` in `MCClient`) and `MaxSurprises` in the trial editors; `MaxActs`,
`MaxFaults` in `AssistantMode`.

They are large enough for the cases that matter: 4 operations create, move, delete
and restore two documents in any order; a clock of one tick with leases of one tick
lets a lease be live, expired and taken over; two transactions in progress are the
shortest race of a commit with another transaction; 3 queued edits hold one in
flight, one waiting and one saved meanwhile; 3 folder operations close a cycle of
2 folders if the check for one is weakened; two changes from outside take a thing
away and bring it back, which is what a check by value would miss; with `MaxPulls`
= 3 a first reading is followed by a pull with a validated baseline and by one more;
3 processes give each round a process of its own or a second one beside the
executing one; one fault at any step of a transaction is what its journal is for;
12 requests are a cycle of 5 whose answer is lost, the 2 of its recovery and a
second cycle, so that a request sent again would be seen (`LeavesOnce`).
For each property there is a mutant in `PROJECT.json`, a definition changed the way
a bug would, and the run finds the property violated, so that the bound is known to
reach the case.

**Symmetry** is used over operations, documents, paths, texts, passages, uuids,
projects, accounts and processes, sets no definition orders or names a member of,
and never in the run of a liveness property.

**Deadlock** is not checked: each instance stops when its bounds are used up, and
the program itself may be idle.

**Fairness** (`Progress` in `OperationQueue`) is assumed for `device`, where only
`EverySaveSettles` needs it.  Weak fairness of `Dispatch`, `Rest`, `HandleFinished`
and `RecoverStrandedOperation`: the Qt event loop runs a timer that has expired, a
slot whose signal was emitted, and the call that is due at start.  Weak fairness
of the worker's own step: a started thread runs, and every HTTP call has a
timeout.  Strong fairness of the server answering, of an attempt that does not end
in an error, and of a merge attempt that ends either way: the network is not down
for ever and errors do not repeat for ever.  Saves, crashes, foreign commits and
pulls are not fair.

`PullFairness`, for `selection_stalls`, is weak fairness of what the UI thread
does with a queued event (start, answer and finish of a pull, a wake-up), of the
five-second timer that asks for a pull and for the queue (`mode_writing.py:383`
and `:600`), of the answer to what was sent, and of the end of a review.  Nothing
the user does is fair.

## 4. Findings

Checked by a run that finds the property violated:

* `sync_save_during_merge`: a save that falls between the rebase of the queue on
  the merged text (`sync_manager.py:10778`) and the write of that text to the file
  is promoted on the merged revision and takes the other device's passage away,
  which `docs/supabase-v2-protocol.md:211` forbids.
* `selection_stalls`: a pull of a validated project that finds the local tree
  changed under it (`stale_generation`) leaves the authority `UNKNOWN`.  If work is
  queued, `handle_finished` (`sync_manager.py:10434`) then retries the queue in
  place of the pull (`:10450`); the queue is refused because no authority is chosen
  (`:3788`), and every later request is a general pull, whose gate the queue and
  the authority shut (`:1323`).  The timer changes nothing; opening the project
  again or signing in does.  The docstring at `:2317` closes the exits only
  "while one pull chooses its source".
* `path_intents_lost`: a folder renamed, and moved before the rename is sent; the
  batch of the move says nothing of the name, and the server keeps the old one.
* `blocked_rows`: a folder is deleted elsewhere, made again under its name and put
  into a newer order; the pull, blocked by two identities of one directory, leaves
  the row of the new folder behind although its directory was never named.

Met while modelling; a property is stated around each (a cause or exception named
in the model) so that everything else it says is still checked:

* *Queue.* After `LEASE_EXPIRED` no timer is armed (`sync_manager.py:3661`), and the
  waiting operation shuts the pull gate; `device` therefore checks
  `EverySaveSettles` for the errors that do arm one.
* *Store upgrade* (`StoreUpgrade`, exception `cut`).  `executescript` ends the
  transaction of the opening.  A kill between the provenance of an old row and its
  events leaves the row half imported: without events `next_ready_operation`
  raises, with only `enqueued` a settled operation becomes pending and is sent
  again.  Two columns of `sync_projects` are added only inside a loop over stranded
  operations (`sync_v2_store.py:1209`).
* *Single-document editor* (`NormalEditor`, exceptions `cut`, `hasty`).  A stop
  between the two last records of a reception (`normal_editor_local.py:281`) makes
  the older draft look unsaved.  Pressing Send after a stop inside a reception,
  before the local recovery, queues the received text as an edit; reception and
  sending then refuse each other for ever.
* *Integrated editor.*  A reception while a commit of one's own waits for its answer
  ends in a snapshot conflict that nothing resolves; `EditorIsSound` names it.
* *Assistant* (`AssistantMode`, `causes`).  After the start only the active tab's
  document is loaded, and `handle_ai_generation` (`assistant_workflow.py:130`) and
  `handle_final_confirm` (`:226`) save the never-loaded empty document over another
  chapter's text.  Columns of one step share a document, but opening the split gives
  only the right panel the toolbar's chapter (`mode_assistant.py:424`), so that both
  autosave timers write one document to two chapters; a change of tab drops what was
  typed in the other column since its last save.  Tab switching is said to be
  shut while the AI panel is open (`assistant_workflow.py:99`), but only the side bar is:
  the global search jumps to another tab or chapter (`mode_assistant.py:678`), and the
  next feedback files its answer with the new place (`assistant_workflow.py:427`).  That
  is the cause `jumped`, recorded when the feedback is asked for.
* *Identity* (`ProjectIdentity`, `causes`).  A purge cut short, an unnamed copy of a
  remote file, a rename in the trash and work over a pending journal leave
  differences no journal explains.
* *Gate and tool.*  `_check_contract_dispatch` (`handshake_lifecycle.py:284`) needs
  an accepted authority that only a pull sets, so the tool's real dispatch always
  stops; a kill after its `mkdir` leaves a directory without a row; its probe's
  refusal leaves a conflict that holds up every later batch.
* *Library.*  A work purged elsewhere and trashed here keeps its title bound; a crash
  between an import's journal and its marker hides the work; a new work takes the
  binding of a trashed one with its title.

Every other property holds on its instance.

## 5. Proofs

All proofs are checked by tlapm.  The assumptions are those the modules name
(`RowsAssumption`, `ParametersAssumption`, `FoldersAssumption`, `NoneIsNothing`,
`ContextAssumption`, `PullsAssumption`, `StoreAssumption`, `QueueAssumption`,
`SyncAssumption`, `DeviceAssumption`, `WindowAssumption`): the "no such row" values are not rows, "no
project, no account" is neither, bounds are naturals, roles are roles,
and later summaries leave at least one chapter raw and at most as many as the last plain
collection has (5 and 25 in the code).

**ServerProofs**, for any number of clients, documents, operations and
transactions in progress: `TypeCorrect`, `AppliedOnce`, `Chain`, `Projection`,
`UniquePaths`, `FinalPurge`, `TrashFreezes`, `WrittenUnderLease`, `Implements`.
`LedgerIsAChain` alone is not inductive: a commit extends the ledger from the
current row, so the invariant `LedgerInv` joins the chain, the agreement of each row
with its last version, the uniqueness of operations and paths, and that a purged
project has no rows.  `WrittenUnderLease` and `TrashFreezes` speak of a step; they
need `LeaseInv` too: a lease and an acquire have an existing document, and that has
a project; the tokens that commits carry were issued; and where the project of a
document is in the trash, the lease of the document does not have the token of a
commit in progress, since the trash swept the old leases away.  That is what makes
a commit that passed its role check before the trash fail afterwards.
`Implements` is the refinement: under `LedgerInv` the function `Ledger` lists
exactly the versions of a document (`LedgerListsVersions`), so an applied commit
appends one snapshot (`CommitExtends`), a purge empties and closes
(`PurgeCloses`), and where the versions do not change the lists do not
(`HistoryStays`).

Of the folders it has `FolderTypes`, `Acyclic`, `Hanging`, `DistinctNames`,
`OneTree` (their conjunction, the property of the run), and `FoldersKeepServer`, by
which everything proved of `Spec` holds with folders.  `NoFolderCycle` is proved
without counting or induction over paths: `Ancestors` is the least upward closed
set, so after a move of `f` below a parent that does not have `f` among its
ancestors, the old closed sets show that no set reaches back.  The invariant
`TreeInv` also needs that the parent of a known folder is known (`ParentsKnown`),
since the code's check reads rows.

**ClientProofs**: `QueueStaysTrue`, for any documents and texts and any
number of saves, commits elsewhere, lost and late answers, merges and restarts.
The four parts of `QueueIsTrue` are not inductive.  `StoreInv` says of the queue
that at most one waiting operation of a document knows its base and that this base
is the document's own (`OneHead`, `HeadsMatch`), and that beside a conflict nothing
of the document waits (`ConflictsAlone`).  What is shown as a conflict is one because
of `Behind`: a refused operation starts from a revision the server has left and can
never be applied any more, so its late answer cannot contradict the refusal;
`LedgerOfOperations` ties what the server has recorded to the operation it came
from.  That a promotion takes the first of the waiting operations rests on the least
element of a set of numbers (`WFMin`), not on counting.

**PullCoordinationProofs**: `PullsStayOrderly` and `AuthorityStands` from
`PullInvariant` (types: `PullTypes`).  No identity that was handed out is newer than
the one at hand (`NotNewer`), so one that is left never returns (`LeftForGood`);
a pull of the identity at hand runs beside no review and finds the authority open
until it is answered (`PullFits`), owns the slot, and leaves no reason to ask again
when its answer closes the authority (`Holds`).  `UnknownIsRemembered` needs
`CoordinatorFits`: an answer that chooses nothing leaves a request behind or a
baseline to be read first.  `AuthorityStands` adds what each step may do to a closed
authority.

**ContractPathProofs**, on `ReviewedExecution`: `OnceOnly`, `StoppedIsUnsent`, `Truthful`,
`OneAtATime`, `Advances`, `OpeningsCleanUp`, `ExecutionTypes`, from one invariant
of named parts (`Parts`): the rows say what was sent, a worker's stage agrees with
the row it owns or that row has been given up, the wire and the server agree with
the rows, a lone process's opening has settled what it has passed (`Opening`).

On `ContractDispatch`: `BatchIsAuthorized`, `ReadingIsThisLogin`,
`DispatchTypeCorrect`, for any projects and accounts and any number of changes.
The worker compares counters, the property speaks of states.  The bridge is a
lemma on every action of `ContractContext` (`Noticed`): no counter moves back, and
if neither generation, epoch nor write epoch moves then project, account, authority
and server state are as they were and the login has at most become valid again;
`QueueNoticed` says the same of the local gate, the queue and its stamp.  The
invariant is then `SenderOK`: unless a counter has moved since the launch
(`Behind`), the batch is authorized and has never lapsed; and a check that lets the
batch pass shows that none has (`PassedIsNotBehind`).  `ReadingOK` does the same
for a reading, and for the question on its way, with the epoch alone.

**DocumentSyncProofs**, for any number of devices, writers, saves and crashes, over
the whole `DocumentServer`: `SyncStaysTrue`, `AppliedNeverConflicts`,
`FilesOfReaders`, `SoleWriterKeepsAll`.  `SyncInv` ties four processes to one ledger:
each version after the first was made by an operation of some device and carries its
text and base (`LedgerOfSaves`); each request under way carries a queued operation
(`CommitsCarryOperations`); a worker that has an operation holds the one in flight, and
what it has been refused or shown as a conflict is `Behind`: its base was left and no
version records it (`WorkerInv`, `ConflictsAreBehind`); a snapshot being pulled is a
version (`WindowInv`).  `Behind` is what makes the rest inductive: revisions only grow,
so it cannot become false, and a late answer finds it.  A merge that names the bases of
edits gives each a second id; `IdsUsed` counts them against the ids there are.
`ReadersInv` says of a device nobody types on that its queue is empty and its file is a
version not behind its row, also between the two writes of a pull.  `SoleInv` says of
the only writer that one operation leads, on the revision of the row, and the server is
there or one ahead through that very operation; so its worker is never refused and
nothing newer is ever pulled.  This theorem has the hypothesis `StructureRows`.
Without a structure revision in the row, `RefreshEqualRevision` writes the server's
text over a file that was saved but not yet queued when the process was killed, and
the saved passage is gone; the runs have rows with one,
and the theorem says so.

**WritersProofs**: `AssistantKeepsTheTexts` and `AnswersStayTrue`, for any number of
chapters, acts and failed writes, from `AssistantInv`.  What a handler does to the desk
is a function from desk to desk, so the first part, `DeskInv`, has one lemma for each
function (`SavedKeeps`, `LoadedKeeps` .. `SwitchedKeeps`, `TurnedKeeps`) and one for each
action.  It says that a document that was loaded is of the chapter its panel stands at
and a tab that is shown, or will be shown again after the settings, has been loaded
(`Filed`, `Ready`); that while the window was never split the toolbar shows the chapter
of the panel and both panels of a step show the same one (`NeverSplit`); and that then a
document that was loaded is the newest text of its chapter, and so is the file, except
that of the tab that is shown while a timer runs for it (`NewestKept`), which is why
nothing is reloaded over what was typed.  `RequestsInv` counts: every request but the active one
is in one of the four ends (`Tally`), its thread runs on or has put the end in the queue
(`Answered`), and the open panel holds the messages and answers of one chapter and step
(`PanelIsKeyed`), so a late answer finds the panel of its request or none.  Unless a
feedback was asked for after a jump, all of them are of the place the panel was opened
for (`AnswersAreKeyed`).  `TruthInv`
says what texts, messages and answers are about; of a whole summary it says which
chapters are summarized in it (`Early`) and which it has in full (`Late`), and the step
from one summary to the next moves exactly one chapter from the second to the first.
The causes after which the properties say nothing are in the invariant as well
(`CausesAreTold`): what the proof needs of a desk is told by the causes that are missing.
The theorems assume that the value for none is no request and no panel
(`NothingIsNoRequest`).

**DeviceProofs**: `TrialStaysHarmless`, `BackupsStayTrue`, `OldStoresStayOpen`,
`NormalEditorStaysSound`, from one invariant each, since only the chosen part moves.  `TrialInv`: the folder's row and
directory belong to the one batch that makes it (`OneCreation`), nothing of it is there
while the tool makes it (`NothingMade`), and a probe names a revision the server has
passed (`Passed`), so it is refused whenever it arrives.  `ArchiveInv` has the argument
for reading a work twice while it is written: there is a state, the one when the first
look ended, that everything seen is not newer than and everything there is not older
than (`LookedOver`); contents only grow, so what the second look finds unchanged was
there at that state.  The theorem assumes that the value for "no backup" is not the
record of one (`NothingIsNoBackup`), as a model value is not.  `UpgradeInv`: the events
of an operation the old queue had settled are none, the first or all of them, and
whoever is past the import finds all (`SafeRows`); two processes that are open have seen
each other, so one that fails was not alone (`Racing`); each stage finds what those
before it made (`Made`).  `EditorInv`: every tuple of durable steps consists of good
records only (`SavedGood`, `QueuedGood`, `FinishedGood`, `CompletedGood`), so it does not
matter where the program stops.  `Reception` ties an announced reception to the last
replace announced; `Pending` ties an operation to the base, to the revision it becomes
and to whether it was sent; `Followed` says that between what a text was typed on and
what it follows lie revisions of this device only, except after the stop that
`PeersAreNotReverted` names.  The theorem assumes that the value for none is neither an
operation nor a reception (`NothingIsNoRecord`).

**StructureProofs**: `QueueFitsItsGate` and `HoldAndModeStayKept`, for any number of
saves, attempts and jobs, from `GateInv`.  That a waiting save has the shape of the gate
is not inductive: three others move the gate, each after a look at the queue that may be
out of date when it writes.  `CardFits`, `ToolFits` and `BridgeFits` say for the job of
the general test, the tool in another process and the recovery of a rejected queue what
still holds of the queue between the look and the write: what came since is in
`tally.late`, the job holds all sending, the recovery runs without the hold and alone,
and the server has nothing of the chain it has proven absent.  `Refusals` says that only
a server that has left the legacy mode refuses, so no recovery finds it in legacy mode;
`Places` that no two waiting works have the same place and that a work which was replaced
is superseded and never at the server; the work that follows in its place is found by the
least element of a set of numbers (`WFMin`).  `SenderFits` says that what is on its way
is next, and that a request that has passed its last check leaves with the hold down.  The
theorems assume that the value for none is none of the steps and records
(`NothingIsNoStep`).  An earlier form of `JobLooks` closed the authority when a job that
releases looks at the queue; `general_test_gate.py:311` leaves it, and now so does the model.

`BatchesStaySound`, for any number of folders, batches, restarts and changes of other
devices, from `BatchInv`.  Three parts of it are not stated by the runs.  `NewestOnly`:
every batch ends with the new order and takes the place of the order before it, so only
the newest batch can still be sent or recorded (`OrderGivesWay`, `FullIsNewest`); that is
why no entity has two requests on their way.  `OneAhead`: while one batch alone is applied
and not recorded, the server stands for every entity at the revision after the batch's
last intent of it, so the revisions that the record writes are the server's
(`AppliedInTurn`, `ProjectReaches`).  `SentFits`: the batch on its way has no result, and
an answer that can be read says truly whether it was applied.  The theorem assumes that no
folder is named like the order and that the value for none is neither a result nor a place
in the queue (`OrderStandsApart`).  For this proof the server's turn through a batch is
written as three steps, the most a batch has, instead of a fold.

`IdentitiesStayNamed`, for any number of names, uuids, faults and restarts, from
`TreeInv`: while none of the causes has occurred, an open project at rest and without a
journal has exactly the files and folders its nodes name.  In the middle of a command
that is false, so the invariant says instead what each moment may differ by.
`TreeShaped` is the form of what is stored: what lies in a folder has that folder above
it, a uuid stands for a folder or for a document wherever it is told of, and a command
is at a stage its kind has.  `TreeExplained` has a part for
each stage of each kind (`CommandSound`: what is made is made and not yet named, what is
moved is moved and not yet renamed, of what is purged a part is gone) and one for a
journal that a kill left behind (`RecoversOn`): whatever the kill cut off, remaking the
files, keeping or undoing the move or finishing the removal ends with files and nodes
that fit, and a second kill in the recovery changes nothing of that.  The theorem assumes
that folders, documents and the trash have names that are told apart (a document's file ends
in `.txt`, the trash has a fixed path: `NamesStandApart`), and that the value for no command is no command
(`IdleIsNoCommand`).

`SettledStaySettled` is stated of the event log and of what a running process derives
from it.

Out of the prover's reach and left to TLC: liveness (`EverySaveSettles`,
`ClosedOnlyWhileChoosing`), whatever asks ENABLED, and what is defined by recursion
or folds over data (the order of a binder).
Left to TLC for now: `LeavesOnce`, `EditorIsSound` (the integrated editor), `DeletionsAreOrderly`
(the binder) and `PullsKeepAndAgree` (the pull of folders).

## 6. Not modelled

Grants and row policies, views, stored text and hashes, message wording, dialogs,
themes, widgets; realtime notifications (a pull may start at any time instead);
the iPad client, which is in another repository (it is one more device of
`DocumentSync`); package formats of backups; the three-way merge and the binder's
sort as algorithms; prompts, models and costs of the assistant; Unicode tables.
`PROJECT.json` gives the reason for each component with the status `not_modelled`,
and what is left out of each that is `partly` modelled.

## 7. Plan

1. Proofs of the properties that are only model-checked: `DeletionsAreOrderly`
   first, then the rest of the list in section 5.
2. A module that joins the recovery of a rejected queue with the pulls it can meet.
3. The shutdown flush and the store's repairs.
