----------------------------- MODULE DocumentSync -----------------------------
(***************************************************************************)
(* Several desktops edit one shared document through the server: each has  *)
(* an editor, a file, the durable queue of OperationStore, a GUI thread, a *)
(* V2QueueWorker thread and a pull thread; the server is DocumentServer.   *)
(*                                                                         *)
(* A content is a set of passages.  Writers add passages, so that a        *)
(* passage that is gone has been lost by somebody.                         *)
(***************************************************************************)
EXTENDS DocumentServer, Sequences

CONSTANTS
  Passage,          \* what a writer can type
  TheProject, TheDocument, ThePath,
  OperationOf,      \* the id of the i-th operation of a device: a fresh UUID
  FirstOperation,   \* the operation that created the document
  NoBase, NoRow,    \* see OperationStore
  Writers,          \* the sets of devices somebody may type on
  StructureRows,    \* whether the server's rows carry a structure revision
  MergeConflicts,   \* whether two changes may fall on the same line
  MaxOps,           \* bound: no save and no merge is queued behind so many rows
  MaxCrashes        \* bound: times a device is killed

Queue == INSTANCE OperationStore WITH Document <- {TheDocument}, Text <- Content

ASSUME SyncAssumption ==
  /\ Content = SUBSET Passage
  /\ TheProject \in Project /\ TheDocument \in Document /\ ThePath \in Path
  /\ FirstOperation \in Operation
  /\ OperationOf \in [Client \X (1 .. 2 * MaxOps) -> Operation \ {FirstOperation}]
  /\ \A x, y \in Client \X (1 .. 2 * MaxOps) : OperationOf[x] = OperationOf[y] => x = y
  /\ NoBase \notin Nat /\ NoRow \notin Queue!Row
  /\ Writers \subseteq SUBSET Client
  /\ StructureRows \in BOOLEAN /\ MergeConflicts \in BOOLEAN
  /\ MaxOps \in Nat /\ MaxCrashes \in Nat

VARIABLES
  store,     \* the device's SQLite queue
  disk,      \* the manuscript file
  editor,    \* the text in the open editor
  dirty,     \* the editor holds typing that is not in the file
  gui,       \* a save or a pull the GUI thread is in the middle of
  worker,    \* the operation in flight and what its thread has learned
  pulled,    \* a snapshot on its way from the pull thread to the GUI thread
  tokens,    \* leases the device believes it holds (0: none)
  kept,      \* texts copied to the conflict folder
  crashes,
  given,     \* passages a writer gave up when choosing a version
  writers    \* the devices somebody types on

deviceVars == <<store, disk, editor, dirty, gui, worker, pulled, tokens, kept,
                crashes, given>>

serverVars == <<projects, tombstones, documents, versions, leases, issued, now,
                commits, acquires>>

syncVars == <<serverVars, deviceVars, writers>>

d0 == TheDocument

NoWorker == [phase |-> "none"]

Free == [task |-> "none"]

NoSnapshot == [revision |-> 0]

RowOf(c) == store[c].rows[d0]

Carried(c) == store[c].ops[worker[c].op]

Server == documents[d0]

VersionAt(r) == CHOOSE v \in versions : v.doc = d0 /\ v.revision = r

-----------------------------------------------------------------------------
(* GUI thread *)

Typing(c, p) ==
  /\ c \in writers
  /\ gui[c] = Free
  /\ \A b \in Client : p \notin editor[b]
  /\ \A v \in versions : p \notin v.content
  /\ editor' = [editor EXCEPT ![c] = @ \cup {p}]
  /\ dirty' = [dirty EXCEPT ![c] = TRUE]
  /\ UNCHANGED <<store, disk, gui, worker, pulled, tokens, kept, crashes,
                 given>>
  /\ UNCHANGED serverVars

\* sync_file: the file first ...
SaveFile(c) ==
  /\ gui[c] = Free
  /\ dirty[c]
  /\ disk' = [disk EXCEPT ![c] = editor[c]]
  /\ dirty' = [dirty EXCEPT ![c] = FALSE]
  /\ gui' = [gui EXCEPT ![c] = [task |-> "save", text |-> editor[c]]]
  /\ UNCHANGED <<store, editor, worker, pulled, tokens, kept, crashes, given>>
  /\ UNCHANGED serverVars

Enqueued(c, text) ==
  IF RowOf(c).base = text /\ ~ Queue!HasActive(store[c], d0)
  THEN store[c] ELSE Queue!Enqueue(store[c], d0, text)

\* ... then upload_content_async writes it once more and queues it.
QueueSave(c) ==
  /\ gui[c].task = "save"
  /\ Len(store[c].ops) < MaxOps
  /\ disk' = [disk EXCEPT ![c] = gui[c].text]
  /\ store' = [store EXCEPT ![c] = Enqueued(c, gui[c].text)]
  /\ gui' = [gui EXCEPT ![c] = Free]
  /\ UNCHANGED <<editor, dirty, worker, pulled, tokens, kept, crashes, given>>
  /\ UNCHANGED serverVars

\* apply_conflict_choice: the chosen text is written, shown and queued.
ChooseVersion(c, text) ==
  /\ gui[c] = Free
  /\ text \in RowOf(c).clash
  /\ disk' = [disk EXCEPT ![c] = text]
  /\ editor' = [editor EXCEPT ![c] = text]
  /\ dirty' = [dirty EXCEPT ![c] = FALSE]
  /\ gui' = [gui EXCEPT ![c] = [task |-> "save", text |-> text]]
  /\ given' = given \cup (UNION RowOf(c).clash \ text)
  /\ UNCHANGED <<store, worker, pulled, tokens, kept, crashes>>
  /\ UNCHANGED serverVars

\* Mutant: enters the store before the file is written.
ApplyPulledToStoreFirst(c) ==
  /\ gui[c] = Free
  /\ Queue!AcceptsRemote(store[c], d0, pulled[c].revision)
  /\ ~ dirty[c]
  /\ store' = [store EXCEPT ![c] = Queue!ApplyRemoteSnapshot(
                 @, d0, pulled[c].revision, pulled[c].content)]
  /\ gui' = [gui EXCEPT ![c] = [task |-> "pull"]]
  /\ UNCHANGED <<disk, editor, dirty, worker, pulled, tokens, kept, crashes,
                 given>>
  /\ UNCHANGED serverVars

\* A newer revision of a document with no queued work and no unsaved typing
\* overwrites the file ...
ApplyPulledFile(c) ==
  /\ gui[c] = Free
  /\ Queue!AcceptsRemote(store[c], d0, pulled[c].revision)
  /\ ~ dirty[c]
  /\ disk' = [disk EXCEPT ![c] = pulled[c].content]
  /\ gui' = [gui EXCEPT ![c] = [task |-> "pull"]]
  /\ UNCHANGED <<store, editor, dirty, worker, pulled, tokens, kept, crashes,
                 given>>
  /\ UNCHANGED serverVars

\* ... then enters the store, and the clean editor is refreshed.
ApplyPulledSnapshot(c) ==
  /\ gui[c].task = "pull"
  /\ store' = [store EXCEPT ![c] = Queue!ApplyRemoteSnapshot(
                 @, d0, pulled[c].revision, pulled[c].content)]
  /\ editor' = [editor EXCEPT ![c] = pulled[c].content]
  /\ pulled' = [pulled EXCEPT ![c] = NoSnapshot]
  /\ gui' = [gui EXCEPT ![c] = Free]
  /\ UNCHANGED <<disk, dirty, worker, tokens, kept, crashes, given>>
  /\ UNCHANGED serverVars

\* Mutant: overwrites a file that was changed since.
RefreshesEqualAnyway(c) ==
  /\ pulled[c].revision = RowOf(c).revision
  /\ ~ Queue!HasActive(store[c], d0)
  /\ ~ dirty[c]

\* The snapshot of the revision the device already has, while the document is
\* open: a file that was changed behind the store's back is left alone when
\* the row has a structure revision, and overwritten when it has none.
RefreshesEqual(c) ==
  /\ pulled[c].revision = RowOf(c).revision
  /\ ~ Queue!HasActive(store[c], d0)
  /\ ~ dirty[c]
  /\ StructureRows => disk[c] = pulled[c].content

RefreshEqualRevision(c) ==
  /\ gui[c] = Free
  /\ RefreshesEqual(c)
  /\ disk' = [disk EXCEPT ![c] = pulled[c].content]
  /\ editor' = [editor EXCEPT ![c] = pulled[c].content]
  /\ pulled' = [pulled EXCEPT ![c] = NoSnapshot]
  /\ UNCHANGED <<store, dirty, gui, worker, tokens, kept, crashes, given>>
  /\ UNCHANGED serverVars

\* A snapshot of a document with local work, or an older one, is passed over.
SkipPulled(c) ==
  /\ gui[c] = Free
  /\ pulled[c] # NoSnapshot
  /\ ~ RefreshesEqual(c)
  /\ dirty[c] \/ ~ Queue!AcceptsRemote(store[c], d0, pulled[c].revision)
  /\ pulled' = [pulled EXCEPT ![c] = NoSnapshot]
  /\ UNCHANGED <<store, disk, editor, dirty, gui, worker, tokens, kept,
                 crashes, given>>
  /\ UNCHANGED serverVars

\* The pull thread reads the row of the document; an ordinary pull starts only
\* when nothing is queued.
FetchSnapshot(c) ==
  /\ pulled[c] = NoSnapshot
  /\ ~ Queue!HasActive(store[c], d0)
  /\ pulled' = [pulled EXCEPT
       ![c] = [revision |-> Server.revision, content |-> Server.content]]
  /\ UNCHANGED <<store, disk, editor, dirty, gui, worker, tokens, kept,
                 crashes, given>>
  /\ UNCHANGED serverVars

\* retry_pending_syncs.
Dispatch(c) ==
  LET s == IF Queue!Dispatchable(store[c]) = {}
           THEN Queue!RecoverStranded(store[c], d0) ELSE store[c]
      i == Queue!First(Queue!Dispatchable(s))
  IN  /\ gui[c] = Free
      /\ worker[c] = NoWorker
      /\ Queue!Dispatchable(s) # {}
      /\ store' = [store EXCEPT ![c] = Queue!MarkAttempt(s, i)]
      /\ worker' = [worker EXCEPT ![c] = [phase |-> "started", op |-> i]]
      /\ UNCHANGED <<disk, editor, dirty, gui, pulled, tokens, kept, crashes,
                     given>>
      /\ UNCHANGED serverVars

\* handle_finished.
FinishCommitted(c) ==
  /\ gui[c] = Free
  /\ worker[c].phase = "committed"
  /\ store' = [store EXCEPT ![c] =
                 Queue!MarkSuccess(@, worker[c].op, worker[c].revision)]
  /\ worker' = [worker EXCEPT ![c] = NoWorker]
  /\ UNCHANGED <<disk, editor, dirty, gui, pulled, tokens, kept, crashes,
                 given>>
  /\ UNCHANGED serverVars

FinishFailed(c) ==
  /\ gui[c] = Free
  /\ worker[c].phase = "failed"
  /\ store' = [store EXCEPT ![c] = Queue!MarkRetry(@, worker[c].op)]
  /\ worker' = [worker EXCEPT ![c] = NoWorker]
  /\ UNCHANGED <<disk, editor, dirty, gui, pulled, tokens, kept, crashes,
                 given>>
  /\ UNCHANGED serverVars

\* on_auto_merge_applied: the merged text replaces what is in the editor.
FinishMerged(c) ==
  /\ gui[c] = Free
  /\ worker[c].phase = "written"
  /\ editor' = [editor EXCEPT ![c] = worker[c].text]
  /\ dirty' = [dirty EXCEPT ![c] = FALSE]
  /\ worker' = [worker EXCEPT ![c] = NoWorker]
  /\ UNCHANGED <<store, disk, gui, pulled, tokens, kept, crashes, given>>
  /\ UNCHANGED serverVars

\* on_conflict_detected: both texts are copied to the conflict folder.
FinishConflict(c) ==
  /\ gui[c] = Free
  /\ worker[c].phase = "conflict"
  /\ kept' = [kept EXCEPT ![c] = @ \cup {worker[c].local, worker[c].remote}]
  /\ worker' = [worker EXCEPT ![c] = NoWorker]
  /\ UNCHANGED <<store, disk, editor, dirty, gui, pulled, tokens, crashes,
                 given>>
  /\ UNCHANGED serverVars

\* The process dies and the program is opened again on its file and store.
Crash(c) ==
  /\ crashes[c] < MaxCrashes
  /\ crashes' = [crashes EXCEPT ![c] = @ + 1]
  /\ store' = [store EXCEPT ![c] = Queue!RecoverInterruptedDispatches(@)]
  /\ editor' = [editor EXCEPT ![c] = disk[c]]
  /\ dirty' = [dirty EXCEPT ![c] = FALSE]
  /\ gui' = [gui EXCEPT ![c] = Free]
  /\ worker' = [worker EXCEPT ![c] = NoWorker]
  /\ pulled' = [pulled EXCEPT ![c] = NoSnapshot]
  /\ tokens' = [tokens EXCEPT ![c] = NoToken]
  /\ UNCHANGED <<disk, kept, given>>
  /\ UNCHANGED serverVars

\* A document that is closed gives its lease back; the RPC runs on a thread of
\* its own.
GiveBackLease(c) ==
  /\ tokens[c] # NoToken
  /\ IF leases[d0] # NoLease /\ leases[d0].client = c /\ leases[d0].token = tokens[c]
     THEN ReleaseLease(c, d0, tokens[c])
     ELSE UNCHANGED serverVars
  /\ tokens' = [tokens EXCEPT ![c] = NoToken]
  /\ UNCHANGED <<store, disk, editor, dirty, gui, worker, pulled, kept,
                 crashes, given>>

-----------------------------------------------------------------------------
(* Worker thread: _process_v2_operation *)

Learn(c, what) == worker' = [worker EXCEPT ![c] = what]

AtWorker == UNCHANGED <<disk, editor, dirty, gui, pulled, kept, crashes, given>>

StartAcquire(c) ==
  /\ worker[c].phase = "started"
  /\ BeginAcquire(c, d0)
  /\ Learn(c, [phase |-> "acquiring", op |-> worker[c].op,
               call |-> [client |-> c, doc |-> d0, at |-> now]])
  /\ AtWorker /\ UNCHANGED <<store, tokens>>

\* The token, or LEASE_CONFLICT.
AcquireAnswered(c) ==
  /\ worker[c].phase = "acquiring"
  /\ worker[c].call \in acquires
  /\ FinishAcquire(worker[c].call)
  /\ IF leases'[d0].client = c
     THEN /\ Learn(c, [phase |-> "leased", op |-> worker[c].op,
                       token |-> leases'[d0].token])
          /\ tokens' = [tokens EXCEPT ![c] = leases'[d0].token]
     ELSE /\ Learn(c, [phase |-> "failed", op |-> worker[c].op])
          /\ UNCHANGED tokens
  /\ AtWorker /\ UNCHANGED store

RequestOf(c, token) ==
  [op |-> OperationOf[c, worker[c].op], client |-> c, doc |-> d0,
   project |-> TheProject, base |-> Carried(c).base, path |-> ThePath,
   content |-> Carried(c).text, deleted |-> FALSE, token |-> token]

\* The worker sends the token it was just given, although the device may have
\* given it back in the meantime.
SendCommit(c) ==
  /\ worker[c].phase = "leased"
  /\ BeginCommit(RequestOf(c, worker[c].token))
  /\ Learn(c, [phase |-> "committing", op |-> worker[c].op,
               call |-> [request |-> RequestOf(c, worker[c].token),
                         at |-> now]])
  /\ AtWorker /\ UNCHANGED <<store, tokens>>

Outcome(c, verdict) ==
  CASE verdict = "committed" ->
         [phase |-> "committed", op |-> worker[c].op,
          revision |-> Carried(c).base + 1]
    [] verdict = "replayed" ->
         [phase |-> "committed", op |-> worker[c].op,
          revision |-> (CHOOSE v \in VersionOf(OperationOf[c, worker[c].op]) :
                          TRUE).revision]
    [] verdict = "REVISION_CONFLICT" ->
         [phase |-> "rejected", op |-> worker[c].op]
    [] verdict \notin {"committed", "replayed", "REVISION_CONFLICT"} ->
         [phase |-> "failed", op |-> worker[c].op]

CommitAnswered(c) ==
  /\ worker[c].phase = "committing"
  /\ worker[c].call \in commits
  /\ FinishCommit(worker[c].call)
  /\ Learn(c, Outcome(c, CommitVerdict(worker[c].call.request,
                                       worker[c].call.at)))
  /\ AtWorker /\ UNCHANGED <<store, tokens>>

\* Offline, or an answer that never comes: the call may still be carried out.
AttemptFails(c) ==
  /\ worker[c].phase \in
       {"started", "acquiring", "leased", "committing", "rejected"}
  /\ Learn(c, [phase |-> "failed", op |-> worker[c].op])
  /\ AtWorker /\ UNCHANGED <<store, tokens>>
  /\ UNCHANGED serverVars

\* _revision_conflict_read_first.
ReadServer(c) ==
  /\ worker[c].phase = "rejected"
  /\ Learn(c, [phase |-> "fetched", op |-> worker[c].op,
               revision |-> Server.revision, remote |-> Server.content])
  /\ AtWorker /\ UNCHANGED <<store, tokens>>
  /\ UNCHANGED serverVars

\* three_way_merge on sets of passages.
Merged(base, local, remote) ==
  (local \cup remote) \ ((base \ local) \cup (base \ remote))

OneSideUnchanged(base, local, remote) ==
  local = remote \/ local = base \/ remote = base

\* The file is read and merged ...
ReadFile(c) ==
  LET w == worker[c] IN
  /\ w.phase = "fetched"
  /\ \/ Learn(c, [phase |-> "merged", op |-> w.op, revision |-> w.revision,
                  remote |-> w.remote,
                  text |-> Merged(Carried(c).from, disk[c], w.remote)])
     \/ /\ MergeConflicts
        /\ ~ OneSideUnchanged(Carried(c).from, disk[c], w.remote)
        /\ Learn(c, [phase |-> "clashing", op |-> w.op,
                     revision |-> w.revision, remote |-> w.remote,
                     local |-> disk[c]])
  /\ AtWorker /\ UNCHANGED <<store, tokens>>
  /\ UNCHANGED serverVars

\* ... the queue is replaced by the merged text ...
Rebase(c) ==
  /\ worker[c].phase = "merged"
  /\ Len(store[c].ops) < MaxOps
  /\ store' = [store EXCEPT ![c] = Queue!RebaseCleanMerge(
                 @, worker[c].op, worker[c].revision, worker[c].remote,
                 worker[c].text)]
  /\ Learn(c, [phase |-> "rebased", text |-> worker[c].text])
  /\ AtWorker /\ UNCHANGED tokens
  /\ UNCHANGED serverVars

\* ... and the file is overwritten.
WriteMerged(c) ==
  /\ worker[c].phase = "rebased"
  /\ disk' = [disk EXCEPT ![c] = worker[c].text]
  /\ Learn(c, [phase |-> "written", text |-> worker[c].text])
  /\ UNCHANGED <<store, editor, dirty, gui, pulled, tokens, kept, crashes,
                 given>>
  /\ UNCHANGED serverVars

StopAtConflict(c) ==
  LET w == worker[c] IN
  /\ w.phase = "clashing"
  /\ store' = [store EXCEPT ![c] = Queue!MarkConflict(
                 @, w.op, w.revision, w.remote, w.local)]
  /\ Learn(c, [phase |-> "conflict", local |-> w.local, remote |-> w.remote])
  /\ AtWorker /\ UNCHANGED tokens
  /\ UNCHANGED serverVars

\* Calls nobody waits for any more are carried out all the same.
StrayCall ==
  /\ \/ \E a \in acquires :
          /\ \A c \in Client : worker[c].phase = "acquiring" => worker[c].call # a
          /\ FinishAcquire(a)
     \/ \E t \in commits :
          /\ \A c \in Client : worker[c].phase = "committing" => worker[c].call # t
          /\ FinishCommit(t)
  /\ UNCHANGED deviceVars

-----------------------------------------------------------------------------
FirstVersion(c) ==
  [doc |-> d0, project |-> TheProject, revision |-> 1, base |-> 0,
   op |-> FirstOperation, client |-> c, kind |-> "create",
   path |-> ThePath, content |-> {}, deleted |-> FALSE]

\* One device has created the document and every device has pulled it.
SyncInit ==
  /\ writers \in Writers
  /\ projects = [p \in Project |->
       IF p = TheProject
       THEN [owner |-> UserOf[CHOOSE c \in Client : TRUE], trashed |-> FALSE]
       ELSE NoProject]
  /\ tombstones = {}
  /\ documents = [d \in Document |->
       IF d = d0
       THEN [project |-> TheProject, path |-> ThePath, content |-> {},
             revision |-> 1, deleted |-> FALSE]
       ELSE NoDocument]
  /\ versions = {FirstVersion(CHOOSE c \in Client : TRUE)}
  /\ leases = [d \in Document |-> NoLease]
  /\ issued = 0
  /\ now = 0
  /\ commits = {}
  /\ acquires = {}
  /\ store = [c \in Client |->
       [ops |-> <<>>, rows |-> [d \in {d0} |-> Queue!CleanRow(1, {})]]]
  /\ disk = [c \in Client |-> {}]
  /\ editor = [c \in Client |-> {}]
  /\ dirty = [c \in Client |-> FALSE]
  /\ gui = [c \in Client |-> Free]
  /\ worker = [c \in Client |-> NoWorker]
  /\ pulled = [c \in Client |-> NoSnapshot]
  /\ tokens = [c \in Client |-> NoToken]
  /\ kept = [c \in Client |-> {}]
  /\ crashes = [c \in Client |-> 0]
  /\ given = {}

Writing(c) ==
  \/ \E p \in Passage : Typing(c, p)
  \/ SaveFile(c)
  \/ QueueSave(c)
  \/ \E text \in RowOf(c).clash : ChooseVersion(c, text)

Pulling(c) ==
  \/ FetchSnapshot(c)
  \/ ApplyPulledFile(c)
  \/ ApplyPulledSnapshot(c)
  \/ RefreshEqualRevision(c)
  \/ SkipPulled(c)

Finishing(c) ==
  FinishCommitted(c) \/ FinishFailed(c) \/ FinishMerged(c) \/ FinishConflict(c)

Working(c) ==
  \/ StartAcquire(c)
  \/ AcquireAnswered(c)
  \/ SendCommit(c)
  \/ CommitAnswered(c)
  \/ AttemptFails(c)
  \/ ReadServer(c)
  \/ ReadFile(c)
  \/ Rebase(c)
  \/ WriteMerged(c)
  \/ StopAtConflict(c)

SyncNext ==
  /\ UNCHANGED writers
  /\ \/ \E c \in Client :
          \/ Writing(c) \/ Pulling(c) \/ Dispatch(c) \/ Finishing(c)
          \/ Working(c) \/ Crash(c) \/ GiveBackLease(c)
     \/ StrayCall
     \/ Tick /\ UNCHANGED deviceVars

SyncSpec == SyncInit /\ [][SyncNext]_syncVars

-----------------------------------------------------------------------------
(* Properties *)

\* A save the server has applied is never shown to its writer as a conflict,
\* though the answer was lost, came late or came to nobody.
CommittedNeverConflicts ==
  \A c \in Client : \A i \in DOMAIN store[c].ops :
    (\E v \in versions : v.op = OperationOf[c, i]) =>
      store[c].ops[i].state # "conflict"

\* On a device nobody types on, the file is always a text the server has
\* recorded, and never behind the revision the device believes it has: a crash
\* in the middle of a pull cannot leave a file that no later pull brings up.
ReadersFollow ==
  \A c \in Client \ writers : \E v \in versions :
    v.content = disk[c] /\ v.revision >= RowOf(c).revision

\* A writer who works on one device only loses nothing that was saved, whatever
\* other devices read, replies get lost and processes get killed.
SoleWriterLosesNothing ==
  [][\A c \in writers : writers = {c} => disk[c] \subseteq disk'[c]]_syncVars

\* A commit does not take away what the revision before it held, unless the
\* writer chose to.
NoForcedOverwrite ==
  [][\A v, w \in versions' : v \notin versions /\ v.base = w.revision =>
       w.content \subseteq v.content \cup given']_syncVars

\* The passages that could still be found: in a file, on their way to one, in
\* the ledger, in the conflict folder or in an operation still queued.
Findable ==
  LET written == {gui[c].text : c \in {b \in Client : gui[b].task = "save"}}
      queued(c) == {store[c].ops[i].text :
                      i \in {j \in DOMAIN store[c].ops :
                               Queue!Active(store[c].ops[j])}}
  IN  UNION ({disk[c] : c \in Client} \cup {v.content : v \in versions}
             \cup UNION {kept[c] \cup queued(c) : c \in Client} \cup written)

\* What was saved to a file can always be found again.
SavedWorkIsKept == [][Findable \subseteq Findable']_syncVars
=============================================================================
