---------------------------- MODULE DocumentServer ----------------------------
(***************************************************************************)
(* The Supabase side of sync v2: projects, documents, their append-only    *)
(* version ledger and the edit leases, with one action per RPC of          *)
(* supabase/migrations.                                                    *)
(*                                                                         *)
(* A client is one signed-in device (auth.uid() + device_id).  An RPC is   *)
(* one database transaction.  Those that read the caller's role before     *)
(* they own the rows they write are split where the other transactions can *)
(* get in between: Begin* reads the clock and the role, Finish* runs under *)
(* the locks.  Errors roll the transaction back, so a refused call changes *)
(* nothing but the set of transactions in progress.                        *)
(***************************************************************************)
EXTENDS Naturals, FiniteSets

CONSTANTS
  Client,           \* signed-in devices
  UserOf,           \* the account a client is signed in with
  MemberRole,       \* role of a user who does not own the project (external)
  Project, Document, Path, Content, Operation,
  NoProject, NoDocument, NoLease,    \* "no such row"
  LeaseTTL,         \* default lease lifetime, in ticks
  MaxTime,          \* bound: the last instant of the model's clock
  MaxTokens,        \* bound: lease tokens ever issued
  MaxInProgress,    \* bound: transactions in progress at a time
  MaxBase           \* bound: the highest base revision a request names

Users == {UserOf[c] : c \in Client}
NoToken == 0

Kind == {"create", "update", "move", "delete", "restore"}

ProjectRow == [owner : Users, trashed : BOOLEAN]

DocumentRow ==
  [project : Project, path : Path, content : Content,
   revision : Nat \ {0}, deleted : BOOLEAN]

VersionRow ==
  [doc : Document, project : Project, revision : Nat \ {0}, base : Nat,
   op : Operation, client : Client, kind : Kind, path : Path,
   content : Content, deleted : BOOLEAN]

LeaseRow == [token : Nat \ {0}, client : Client, expires : Nat]

CommitRequest ==
  [op : Operation, client : Client, doc : Document, project : Project,
   base : Nat, path : Path, content : Content, deleted : BOOLEAN,
   token : Nat]

ASSUME RowsAssumption ==
  /\ NoProject \notin ProjectRow
  /\ NoDocument \notin DocumentRow
  /\ NoLease \notin LeaseRow

ASSUME ParametersAssumption ==
  /\ MemberRole \in [Users -> {"owner", "editor", "viewer", "none"}]
  /\ LeaseTTL \in Nat \ {0}
  /\ MaxTime \in Nat
  /\ MaxTokens \in Nat
  /\ MaxInProgress \in Nat
  /\ MaxBase \in Nat

VARIABLES
  projects,      \* public.projects
  tombstones,    \* private.project_purge_tombstones
  documents,     \* public.documents: the current state of each document
  versions,      \* public.document_versions: the ledger
  leases,        \* public.edit_leases
  issued,        \* lease tokens issued so far; gen_random_uuid never repeats
  now,           \* transaction_timestamp()
  commits,       \* commit_document calls past their role check
  acquires       \* acquire_edit_lease calls holding the document row

vars == <<projects, tombstones, documents, versions, leases, issued, now,
          commits, acquires>>

-----------------------------------------------------------------------------
(* Helpers *)

Exists(d) == documents[d] # NoDocument

ActiveProject(p) == projects[p] # NoProject /\ ~ projects[p].trashed

\* private.has_project_role(p, u, 'editor'): a trashed project grants nothing.
MayEdit(p, c) ==
  /\ ActiveProject(p)
  /\ \/ projects[p].owner = UserOf[c]
     \/ MemberRole[UserOf[c]] \in {"owner", "editor"}

Owns(p, c) == projects[p] # NoProject /\ projects[p].owner = UserOf[c]

InProgress == Cardinality(commits) + Cardinality(acquires)

\* Mutant: looks for the operation in the current revisions only.
NewestVersionOf(op) ==
  {v \in versions : v.op = op /\ v.revision = documents[v.doc].revision}

VersionOf(op) == {v \in versions : v.op = op}

\* The replayed request is compared field by field with the recorded one.
SameRequest(v, r) ==
  /\ v.doc = r.doc
  /\ v.project = r.project
  /\ v.base = r.base
  /\ v.client = r.client
  /\ v.path = r.path
  /\ v.content = r.content
  /\ v.deleted = r.deleted

\* Mutant: leaves moves and restores unchecked.
PathTakenOnCreate(r) ==
  /\ r.base = 0
  /\ \E d \in Document :
       /\ Exists(d)
       /\ documents[d].path = r.path
       /\ ~ documents[d].deleted

\* documents_live_path_uidx, checked before the row is written.
PathTaken(r) ==
  \E d \in Document \ {r.doc} :
    /\ Exists(d)
    /\ documents[d].project = r.project
    /\ documents[d].path = r.path
    /\ ~ documents[d].deleted

\* Mutant: lets an old base through.
FutureBase(r) == documents[r.doc].revision < r.base

\* The base is no longer, or not yet, the document's revision.
StaleBase(r) == documents[r.doc].revision # r.base

\* Mutant: does not ask whose lease it is.
SomebodyHoldsLease(r, at) == leases[r.doc] # NoLease

\* The lease must be the caller's and alive when the transaction began.
HoldsLease(r, at) ==
  /\ leases[r.doc] # NoLease
  /\ leases[r.doc].client = r.client
  /\ leases[r.doc].token = r.token
  /\ leases[r.doc].expires > at

CommitKind(r) ==
  IF r.base = 0 THEN "create"
  ELSE IF ~ documents[r.doc].deleted /\ r.deleted THEN "delete"
  ELSE IF documents[r.doc].deleted /\ ~ r.deleted THEN "restore"
  ELSE IF /\ documents[r.doc].path # r.path
          /\ documents[r.doc].content = r.content
  THEN "move" ELSE "update"

\* Mutant: accepts a first revision that is a deletion.
CreateVerdictUnchecked(r) ==
  IF Exists(r.doc) THEN "DOCUMENT_ALREADY_EXISTS"
  ELSE IF ~ r.deleted /\ PathTaken(r) THEN "PATH_CONFLICT"
  ELSE IF projects[r.project] = NoProject
  THEN "PROJECT_GONE" ELSE "committed"

\* A base revision of 0 asks for a new document.
CreateVerdict(r) ==
  IF Exists(r.doc) THEN "DOCUMENT_ALREADY_EXISTS"
  ELSE IF r.deleted \/ r.token # NoToken THEN "INVALID_ARGUMENT"
  ELSE IF PathTaken(r) THEN "PATH_CONFLICT"
  ELSE IF projects[r.project] = NoProject
  THEN "PROJECT_GONE"        \* the foreign key to projects
  ELSE "committed"

ContinueVerdict(r, at) ==
  IF ~ Exists(r.doc) THEN "DOCUMENT_NOT_FOUND"
  ELSE IF documents[r.doc].project # r.project THEN "DOCUMENT_NOT_FOUND"
  ELSE IF StaleBase(r) THEN "REVISION_CONFLICT"
  ELSE IF r.token = NoToken THEN "LEASE_REQUIRED"
  ELSE IF ~ HoldsLease(r, at) THEN "LEASE_EXPIRED"
  ELSE IF ~ r.deleted /\ PathTaken(r) THEN "PATH_CONFLICT"
  ELSE "committed"

\* What commit_document answers, in the order the code decides it.
CommitVerdict(r, at) ==
  IF VersionOf(r.op) # {}
  THEN IF \A v \in VersionOf(r.op) : SameRequest(v, r)
       THEN "replayed" ELSE "OPERATION_ID_REUSED"
  ELSE IF r.base = 0 THEN CreateVerdict(r) ELSE ContinueVerdict(r, at)

-----------------------------------------------------------------------------
(* Project life cycle *)

\* Mutant: does not look for a tombstone.
EnsureProjectAnyway(c, p) ==
  /\ projects[p] = NoProject
  /\ projects' = [projects EXCEPT
                    ![p] = [owner |-> UserOf[c], trashed |-> FALSE]]
  /\ UNCHANGED <<tombstones, documents, versions, leases, issued, now,
                 commits, acquires>>

\* The first call creates the project; later calls only rename it.
EnsureProject(c, p) ==
  /\ p \notin tombstones
  /\ projects[p] = NoProject
  /\ projects' = [projects EXCEPT
                    ![p] = [owner |-> UserOf[c], trashed |-> FALSE]]
  /\ UNCHANGED <<tombstones, documents, versions, leases, issued, now,
                 commits, acquires>>

\* Mutant: leaves the leases standing.
LeasesKept(p) == leases

\* The leases on the project's documents are swept away.
LeasesWithout(p) ==
  [d \in Document |-> IF Exists(d) /\ documents[d].project = p
                      THEN NoLease ELSE leases[d]]

\* Mutant: purges the documents but not their ledger.
LedgerKept(p) == versions

LedgerWithout(p) == {v \in versions : v.project # p}

TrashProject(c, p) ==
  /\ Owns(p, c)
  /\ ~ projects[p].trashed
  /\ projects' = [projects EXCEPT ![p].trashed = TRUE]
  /\ leases' = LeasesWithout(p)
  /\ UNCHANGED <<tombstones, documents, versions, issued, now,
                 commits, acquires>>

RestoreProject(c, p) ==
  /\ Owns(p, c)
  /\ projects[p].trashed
  /\ projects' = [projects EXCEPT ![p].trashed = FALSE]
  /\ UNCHANGED <<tombstones, documents, versions, leases, issued, now,
                 commits, acquires>>

\* The tombstone is written and every row of the project cascades away.
\* The delete waits for the row locks of the leases being acquired.
PurgeProject(c, p) ==
  /\ Owns(p, c)
  /\ projects[p].trashed
  /\ \A a \in acquires : documents[a.doc].project # p
  /\ projects' = [projects EXCEPT ![p] = NoProject]
  /\ tombstones' = tombstones \cup {p}
  /\ documents' = [d \in Document |->
                     IF Exists(d) /\ documents[d].project = p
                     THEN NoDocument ELSE documents[d]]
  /\ versions' = LedgerWithout(p)
  /\ leases' = LeasesWithout(p)
  /\ UNCHANGED <<issued, now, commits, acquires>>

-----------------------------------------------------------------------------
(* Edit leases *)

\* SELECT ... FOR UPDATE on the document row, then the role check.
BeginAcquire(c, d) ==
  /\ Exists(d)
  /\ MayEdit(documents[d].project, c)
  /\ \A a \in acquires : a.doc # d
  /\ InProgress < MaxInProgress
  /\ acquires' = acquires \cup {[client |-> c, doc |-> d, at |-> now]}
  /\ UNCHANGED <<projects, tombstones, documents, versions, leases, issued,
                 now, commits>>

LiveLease(d, at) == leases[d] # NoLease /\ leases[d].expires > at

\* LEASE_CONFLICT: another holder's lease is alive; the call changes nothing.
AcquireRefused(a) ==
  /\ LiveLease(a.doc, a.at)
  /\ leases[a.doc].client # a.client
  /\ UNCHANGED <<leases, issued>>

\* The holder's own live lease keeps its token and lives longer.
AcquireExtends(a) ==
  /\ LiveLease(a.doc, a.at)
  /\ leases[a.doc].client = a.client
  /\ leases' = [leases EXCEPT ![a.doc].expires = a.at + LeaseTTL]
  /\ UNCHANGED issued

\* Mutant: hands out the token before the one it issued.
AcquireGrantsPrevious(a) ==
  /\ ~ LiveLease(a.doc, a.at)
  /\ issued < MaxTokens
  /\ issued' = issued + 1
  /\ leases' = [leases EXCEPT ![a.doc] =
                  [token |-> issued, client |-> a.client,
                   expires |-> a.at + LeaseTTL]]

\* An expired row is deleted first; the new row gets a token of its own.
AcquireGrants(a) ==
  /\ ~ LiveLease(a.doc, a.at)
  /\ issued < MaxTokens
  /\ issued' = issued + 1
  /\ leases' = [leases EXCEPT ![a.doc] =
                  [token |-> issued + 1, client |-> a.client,
                   expires |-> a.at + LeaseTTL]]

FinishAcquire(a) ==
  /\ AcquireRefused(a) \/ AcquireExtends(a) \/ AcquireGrants(a)
  /\ acquires' = acquires \ {a}
  /\ UNCHANGED <<projects, tombstones, documents, versions, now, commits>>

\* renew_edit_lease succeeds only for the exact live lease.
RenewLease(c, d, token) ==
  /\ Exists(d)
  /\ MayEdit(documents[d].project, c)
  /\ LiveLease(d, now)
  /\ leases[d].client = c
  /\ leases[d].token = token
  /\ leases' = [leases EXCEPT ![d].expires = now + LeaseTTL]
  /\ UNCHANGED <<projects, tombstones, documents, versions, issued, now,
                 commits, acquires>>

\* release_edit_lease deletes the exact lease, alive or not, role or not.
ReleaseLease(c, d, token) ==
  /\ leases[d] # NoLease
  /\ leases[d].client = c
  /\ leases[d].token = token
  /\ leases' = [leases EXCEPT ![d] = NoLease]
  /\ UNCHANGED <<projects, tombstones, documents, versions, issued, now,
                 commits, acquires>>

-----------------------------------------------------------------------------
(* commit_document *)

\* The role is read before the advisory locks are requested.
BeginCommit(r) ==
  /\ MayEdit(r.project, r.client)
  /\ InProgress < MaxInProgress
  /\ commits' = commits \cup {[request |-> r, at |-> now]}
  /\ UNCHANGED <<projects, tombstones, documents, versions, leases, issued,
                 now, acquires>>

LeaseAfterCommit(r, at) ==
  IF r.deleted THEN NoLease
  ELSE IF r.base > 0 THEN [leases[r.doc] EXCEPT !.expires = at + LeaseTTL]
  ELSE leases[r.doc]

\* Version and projection are written in one transaction.
Apply(r, at) ==
  /\ versions' = versions \cup
       {[doc |-> r.doc, project |-> r.project, revision |-> r.base + 1,
         base |-> r.base, op |-> r.op, client |-> r.client,
         kind |-> CommitKind(r), path |-> r.path, content |-> r.content,
         deleted |-> r.deleted]}
  /\ documents' = [documents EXCEPT ![r.doc] =
       [project |-> r.project, path |-> r.path, content |-> r.content,
        revision |-> r.base + 1, deleted |-> r.deleted]]
  /\ leases' = [leases EXCEPT ![r.doc] = LeaseAfterCommit(r, at)]

\* Under the locks: replay, refusal or the new revision.  A lease being
\* acquired holds the row this transaction must lock.
FinishCommit(t) ==
  /\ \A a \in acquires : a.doc # t.request.doc
  /\ commits' = commits \ {t}
  /\ IF CommitVerdict(t.request, t.at) = "committed"
     THEN Apply(t.request, t.at)
     ELSE UNCHANGED <<versions, documents, leases>>
  /\ UNCHANGED <<projects, tombstones, issued, now, acquires>>

-----------------------------------------------------------------------------
Tick ==
  /\ now < MaxTime
  /\ now' = now + 1
  /\ UNCHANGED <<projects, tombstones, documents, versions, leases, issued,
                 commits, acquires>>

Init ==
  /\ projects = [p \in Project |-> NoProject]
  /\ tombstones = {}
  /\ documents = [d \in Document |-> NoDocument]
  /\ versions = {}
  /\ leases = [d \in Document |-> NoLease]
  /\ issued = 0
  /\ now = 0
  /\ commits = {}
  /\ acquires = {}

\* Any request a client can put together, right or wrong: lease tokens are
\* unguessable, so it presents one that was issued, or none.
Requests ==
  [op : Operation, client : Client, doc : Document, project : Project,
   base : 0 .. MaxBase, path : Path, content : Content,
   deleted : BOOLEAN, token : 0 .. issued]

ProjectStep ==
  \E c \in Client, p \in Project :
    \/ EnsureProject(c, p)
    \/ TrashProject(c, p)
    \/ RestoreProject(c, p)
    \/ PurgeProject(c, p)

LeaseStep ==
  \/ \E c \in Client, d \in Document :
       \/ BeginAcquire(c, d)
       \/ \E token \in 1 .. issued :
            RenewLease(c, d, token) \/ ReleaseLease(c, d, token)
  \/ \E a \in acquires : FinishAcquire(a)

CommitStep ==
  \/ \E r \in Requests : BeginCommit(r)
  \/ \E t \in commits : FinishCommit(t)

Next == ProjectStep \/ LeaseStep \/ CommitStep \/ Tick

Spec == Init /\ [][Next]_vars

-----------------------------------------------------------------------------
(* Properties *)

CommitInProgress == [request : CommitRequest, at : Nat]

AcquireInProgress == [client : Client, doc : Document, at : Nat]

\* Every variable holds rows of its table.
TypeOK ==
  /\ projects \in [Project -> ProjectRow \cup {NoProject}]
  /\ tombstones \in SUBSET Project
  /\ documents \in [Document -> DocumentRow \cup {NoDocument}]
  /\ versions \in SUBSET VersionRow
  /\ leases \in [Document -> LeaseRow \cup {NoLease}]
  /\ issued \in Nat
  /\ now \in Nat
  /\ commits \in SUBSET CommitInProgress
  /\ acquires \in SUBSET AcquireInProgress

\* An operation id is applied at most once, however often commit_document is
\* called with it and whatever happened to the answer.
OperationAppliedOnce ==
  \A v, w \in versions : v.op = w.op => v = w

\* Each revision of a document was made from the one before it, by exactly one
\* commit, and none is missing: two commits on one base cannot both succeed.
LedgerIsAChain ==
  /\ \A v, w \in versions : v.doc = w.doc /\ v.revision = w.revision => v = w
  /\ \A v \in versions : v.base + 1 = v.revision
  /\ \A d \in Document : Exists(d) =>
       \A r \in 1 .. documents[d].revision :
         \E v \in versions : v.doc = d /\ v.revision = r

\* The projection of a document is its last version, never ahead or behind.
ProjectionIsLastVersion ==
  /\ \A v \in versions :
       /\ Exists(v.doc)
       /\ documents[v.doc].project = v.project
       /\ v.revision <= documents[v.doc].revision
  /\ \A d \in Document : Exists(d) =>
       \E v \in versions :
         /\ v.doc = d
         /\ v.revision = documents[d].revision
         /\ v.path = documents[d].path
         /\ v.content = documents[d].content
         /\ v.deleted = documents[d].deleted

\* No two live documents of a project share a path, through creates, moves,
\* deletes and restores in any order.
LivePathsAreUnique ==
  \A d, e \in Document :
    /\ Exists(d) /\ Exists(e)
    /\ ~ documents[d].deleted /\ ~ documents[e].deleted
    /\ documents[d].project = documents[e].project
    /\ documents[d].path = documents[e].path
    => d = e

\* A purged project never comes back, not even through a client that still
\* believes in it, and nothing of it stays behind.
PurgeIsFinal ==
  \A p \in tombstones :
    /\ projects[p] = NoProject
    /\ \A d \in Document : Exists(d) => documents[d].project # p
    /\ \A v \in versions : v.project # p

\* A document's next revision is written by the client whose lease stands on
\* it: a lease that passed to another device, was released or was swept away
\* by the trash cannot be used by a commit already on its way.
RevisionsAreWrittenUnderLease ==
  [][\A d \in Document :
       /\ documents[d] # NoDocument
       /\ documents'[d] # NoDocument
       /\ documents'[d].revision # documents[d].revision
       => /\ leases[d] # NoLease
          /\ \E v \in versions' \ versions :
               v.doc = d /\ v.client = leases[d].client]_vars

\* While a project is in the trash its documents stay as they are, although
\* commit_document reads the role before it takes its locks: the commit that
\* slipped past the role check finds its lease gone.
TrashedDocumentsAreFrozen ==
  [][\A d \in Document :
       /\ documents[d] # NoDocument
       /\ projects[documents[d].project].trashed
       => documents'[d] \in {documents[d], NoDocument}]_vars

-----------------------------------------------------------------------------
(* The ledger, read as one list of snapshots per document, is the promise of *)
(* DocumentHistory.                                                          *)

SnapshotAt(d, r) ==
  LET v == CHOOSE w \in versions : w.doc = d /\ w.revision = r
  IN  [project |-> v.project, op |-> v.op, path |-> v.path,
       content |-> v.content, deleted |-> v.deleted]

LedgerOf(d) ==
  [r \in 1 .. (IF Exists(d) THEN documents[d].revision ELSE 0) |->
     SnapshotAt(d, r)]

Ledger == [d \in Document |-> LedgerOf(d)]

History == INSTANCE DocumentHistory WITH history <- Ledger, closed <- tombstones

\* The server implements DocumentHistory: whatever the interleaving of RPCs,
\* its ledger evolves by whole snapshots, one operation each.
ImplementsHistory == History!HistorySpec

=============================================================================
