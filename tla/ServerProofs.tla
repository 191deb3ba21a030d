----------------------------- MODULE ServerProofs -----------------------------
(***************************************************************************)
(* What DocumentServer and, on top of it, FolderServer guarantee for any   *)
(* number of clients, projects, documents, folders, names, operations,     *)
(* tokens and transactions in progress.                                    *)
(***************************************************************************)
EXTENDS FolderServer, Sequences, TLAPS

-----------------------------------------------------------------------------
(* What a successful commit knows *)

\* A request that commit_document accepts either makes a document that is not
\* there, or continues one at its current revision under the caller's lease.
LEMMA CommittedFacts ==
  ASSUME TypeOK, NEW r \in CommitRequest, NEW at \in Nat,
         CommitVerdict(r, at) = "committed"
  PROVE  /\ VersionOf(r.op) = {}
         /\ r.deleted \/ ~ PathTaken(r)
         /\ \/ /\ r.base = 0
               /\ ~ Exists(r.doc)
               /\ ~ r.deleted
               /\ projects[r.project] # NoProject
            \/ /\ r.base > 0
               /\ Exists(r.doc)
               /\ documents[r.doc].project = r.project
               /\ documents[r.doc].revision = r.base
               /\ HoldsLease(r, at)
<1>1. VersionOf(r.op) = {}
  BY DEF CommitVerdict
<1>2. CASE r.base = 0
  <2>1. CreateVerdict(r) = "committed"
    BY <1>1, <1>2 DEF CommitVerdict
  <2> QED
    BY <1>1, <1>2, <2>1 DEF CreateVerdict
<1>3. CASE r.base # 0
  <2>1. ContinueVerdict(r, at) = "committed"
    BY <1>1, <1>3 DEF CommitVerdict
  <2>2. r.base \in Nat
    BY DEF CommitRequest
  <2> QED
    BY <1>1, <1>3, <2>1, <2>2 DEF ContinueVerdict, StaleBase
<1> QED
  BY <1>2, <1>3

-----------------------------------------------------------------------------
(* Type correctness *)

\* Every commit is recorded under one of the five kinds of the ledger.
LEMMA KindOfCommit ==
  ASSUME NEW r \in CommitRequest
  PROVE  CommitKind(r) \in Kind
BY DEF CommitKind, Kind

\* A lease row of the server stays one when only its expiry moves.
LEMMA LeaseLivesOn ==
  ASSUME TypeOK, NEW d \in Document, leases[d] # NoLease, NEW e \in Nat
  PROVE  [leases[d] EXCEPT !.expires = e] \in LeaseRow
BY DEF TypeOK, LeaseRow

\* A commit that is carried out, or refused, leaves rows of the right type.
LEMMA CommitTypeOK ==
  ASSUME TypeOK, NEW t \in commits, FinishCommit(t)
  PROVE  TypeOK'
<1> DEFINE r == t.request
<1>1. r \in CommitRequest /\ t.at \in Nat
  BY DEF TypeOK, CommitInProgress
<1>2. CASE CommitVerdict(r, t.at) # "committed"
  BY <1>2 DEF FinishCommit, TypeOK
<1>3. CASE CommitVerdict(r, t.at) = "committed"
  <2>1. Apply(r, t.at)
    BY <1>3 DEF FinishCommit
  <2>2. CommitKind(r) \in Kind
    BY <1>1, KindOfCommit
  <2>3. /\ r.doc \in Document /\ r.project \in Project /\ r.op \in Operation
        /\ r.client \in Client /\ r.path \in Path /\ r.content \in Content
        /\ r.deleted \in BOOLEAN /\ r.base \in Nat
    BY <1>1 DEF CommitRequest
  <2>4. /\ r.base + 1 \in Nat \ {0}
        /\ t.at + LeaseTTL \in Nat
    BY <1>1, <2>3, ParametersAssumption
  <2>5. versions' \in SUBSET VersionRow
    BY <2>1, <2>2, <2>3, <2>4 DEF Apply, TypeOK, VersionRow
  <2>6. documents' \in [Document -> DocumentRow \cup {NoDocument}]
    BY <2>1, <2>3, <2>4 DEF Apply, TypeOK, DocumentRow
  <2>7. LeaseAfterCommit(r, t.at) \in LeaseRow \cup {NoLease}
    <3>1. CASE r.deleted
      BY <3>1 DEF LeaseAfterCommit
    <3>2. CASE ~ r.deleted /\ r.base = 0
      BY <2>3, <3>2 DEF LeaseAfterCommit, TypeOK
    <3>3. CASE ~ r.deleted /\ r.base > 0
      <4>1. leases[r.doc] # NoLease
        BY <1>1, <1>3, <3>3, CommittedFacts DEF HoldsLease
      <4>2. [leases[r.doc] EXCEPT !.expires = t.at + LeaseTTL] \in LeaseRow
        BY <2>3, <2>4, <4>1, LeaseLivesOn
      <4> QED
        BY <3>3, <4>2 DEF LeaseAfterCommit
    <3> QED
      BY <2>3, <3>1, <3>2, <3>3
  <2>8. leases' \in [Document -> LeaseRow \cup {NoLease}]
    BY <2>1, <2>3, <2>7 DEF Apply, TypeOK
  <2> QED
    BY <2>5, <2>6, <2>8 DEF FinishCommit, TypeOK
<1> QED
  BY <1>2, <1>3

\* So does every step on a lease.
LEMMA LeaseTypeOK ==
  ASSUME TypeOK, LeaseStep
  PROVE  TypeOK'
<1>1. ASSUME NEW c \in Client, NEW d \in Document, BeginAcquire(c, d)
      PROVE  TypeOK'
  BY <1>1 DEF BeginAcquire, TypeOK, AcquireInProgress
<1>2. ASSUME NEW c \in Client, NEW d \in Document, NEW token \in 1 .. issued,
             RenewLease(c, d, token)
      PROVE  TypeOK'
  <2>1. leases[d] # NoLease /\ now + LeaseTTL \in Nat
    BY <1>2, ParametersAssumption DEF RenewLease, LiveLease, TypeOK
  <2>2. [leases[d] EXCEPT !.expires = now + LeaseTTL] \in LeaseRow
    BY <2>1, LeaseLivesOn
  <2> QED
    BY <1>2, <2>2 DEF RenewLease, TypeOK
<1>3. ASSUME NEW c \in Client, NEW d \in Document, NEW token \in 1 .. issued,
             ReleaseLease(c, d, token)
      PROVE  TypeOK'
  BY <1>3 DEF ReleaseLease, TypeOK
<1>4. ASSUME NEW a \in acquires, FinishAcquire(a)
      PROVE  TypeOK'
  <2>1. a.client \in Client /\ a.doc \in Document /\ a.at \in Nat
    BY DEF TypeOK, AcquireInProgress
  <2>2. a.at + LeaseTTL \in Nat
    BY <2>1, ParametersAssumption
  <2>3. /\ leases' \in [Document -> LeaseRow \cup {NoLease}]
        /\ issued' \in Nat
    <3>1. CASE AcquireRefused(a)
      BY <3>1 DEF AcquireRefused, TypeOK
    <3>2. CASE AcquireExtends(a)
      <4>1. [leases[a.doc] EXCEPT !.expires = a.at + LeaseTTL] \in LeaseRow
        BY <2>1, <2>2, <3>2, LeaseLivesOn DEF AcquireExtends, LiveLease
      <4> QED
        BY <3>2, <4>1 DEF AcquireExtends, TypeOK
    <3>3. CASE AcquireGrants(a)
      <4>1. [token |-> issued + 1, client |-> a.client,
             expires |-> a.at + LeaseTTL] \in LeaseRow
        BY <2>1, <2>2 DEF LeaseRow, TypeOK
      <4>2. issued' \in Nat
        BY <3>3 DEF AcquireGrants, TypeOK
      <4>3. leases' \in [Document -> LeaseRow \cup {NoLease}]
        BY <3>3, <4>1 DEF AcquireGrants, TypeOK
      <4> QED
        BY <4>2, <4>3
    <3> QED
      BY <1>4, <3>1, <3>2, <3>3 DEF FinishAcquire
  <2> QED
    BY <1>4, <2>3 DEF FinishAcquire, TypeOK
<1> QED
  BY <1>1, <1>2, <1>3, <1>4 DEF LeaseStep

\* So does every step of a project's life.
LEMMA ProjectTypeOK ==
  ASSUME TypeOK, NEW c \in Client, NEW p \in Project,
         \/ EnsureProject(c, p)
         \/ TrashProject(c, p)
         \/ RestoreProject(c, p)
         \/ PurgeProject(c, p)
  PROVE  TypeOK'
<1>1. UserOf[c] \in Users
  BY DEF Users
<1>2. CASE EnsureProject(c, p)
  BY <1>1, <1>2 DEF EnsureProject, TypeOK, ProjectRow
<1>3. CASE TrashProject(c, p)
  BY <1>3 DEF TrashProject, TypeOK, ProjectRow, Owns, LeasesWithout
<1>4. CASE RestoreProject(c, p)
  BY <1>4 DEF RestoreProject, TypeOK, ProjectRow, Owns
<1>5. CASE PurgeProject(c, p)
  BY <1>5 DEF PurgeProject, TypeOK, LeasesWithout, LedgerWithout
<1> QED
  BY <1>2, <1>3, <1>4, <1>5

\* Every variable of the server holds rows of its table, whatever RPCs are
\* called in whatever order.
THEOREM TypeCorrect == Spec => []TypeOK
<1>1. Init => TypeOK
  BY DEF Init, TypeOK
<1>2. TypeOK /\ [Next]_vars => TypeOK'
  <2> SUFFICES ASSUME TypeOK, [Next]_vars
               PROVE  TypeOK'
    OBVIOUS
  <2>1. CASE ProjectStep
    BY <2>1, ProjectTypeOK DEF ProjectStep
  <2>2. CASE LeaseStep
    BY <2>2, LeaseTypeOK
  <2>3. ASSUME NEW r \in Requests, BeginCommit(r)
        PROVE  TypeOK'
    <3>1. r \in CommitRequest
      BY ParametersAssumption DEF Requests, CommitRequest, TypeOK
    <3> QED
      BY <2>3, <3>1 DEF BeginCommit, TypeOK, CommitInProgress
  <2>4. ASSUME NEW t \in commits, FinishCommit(t)
        PROVE  TypeOK'
    BY <2>4, CommitTypeOK
  <2>5. CASE Tick
    BY <2>5 DEF Tick, TypeOK
  <2>6. CASE UNCHANGED vars
    BY <2>6 DEF vars, TypeOK
  <2> QED
    BY <2>1, <2>2, <2>3, <2>4, <2>5, <2>6 DEF Next, CommitStep
<1> QED
  BY <1>1, <1>2, PTL DEF Spec

-----------------------------------------------------------------------------
(* The ledger *)

\* The five ledger invariants support each other: a new revision is new
\* because the projection is never behind the ledger, and a purged project
\* stays empty because a version belongs to the project of its document.
LedgerInv ==
  /\ OperationAppliedOnce
  /\ LedgerIsAChain
  /\ ProjectionIsLastVersion
  /\ LivePathsAreUnique
  /\ PurgeIsFinal

\* A step that leaves documents, ledger and purged projects alone.
LEMMA QuietStep ==
  ASSUME LedgerInv,
         UNCHANGED <<documents, versions, tombstones>>,
         \A q \in tombstones : projects'[q] = projects[q]
  PROVE  LedgerInv'
BY DEF LedgerInv, OperationAppliedOnce, LedgerIsAChain,
       ProjectionIsLastVersion, LivePathsAreUnique, PurgeIsFinal, Exists

\* Creating, trashing and restoring a project leave its ledger as it is.
LEMMA ProjectQuiet ==
  ASSUME TypeOK, LedgerInv, NEW c \in Client, NEW p \in Project,
         \/ EnsureProject(c, p)
         \/ TrashProject(c, p)
         \/ RestoreProject(c, p)
  PROVE  LedgerInv'
<1>1. p \notin tombstones
  BY DEF EnsureProject, TrashProject, RestoreProject, Owns, LedgerInv,
         PurgeIsFinal
<1>2. \A q \in tombstones : projects'[q] = projects[q]
  BY <1>1 DEF EnsureProject, TrashProject, RestoreProject, TypeOK
<1>3. UNCHANGED <<documents, versions, tombstones>>
  BY DEF EnsureProject, TrashProject, RestoreProject
<1> QED
  BY <1>2, <1>3, QuietStep

\* A purge removes a project's documents together with their versions.
LEMMA PurgeKeepsLedger ==
  ASSUME TypeOK, LedgerInv, NEW c \in Client, NEW p \in Project,
         PurgeProject(c, p)
  PROVE  LedgerInv'
<1>1. /\ versions' = {v \in versions : v.project # p}
      /\ tombstones' = tombstones \cup {p}
      /\ projects' = [projects EXCEPT ![p] = NoProject]
  BY DEF PurgeProject, LedgerWithout
<1>2. \A d \in Document :
        /\ Exists(d)' <=> Exists(d) /\ documents[d].project # p
        /\ Exists(d)' => documents'[d] = documents[d]
  BY DEF PurgeProject, TypeOK, Exists
<1>3. \A v \in versions : v.doc \in Document
  BY DEF TypeOK, VersionRow
<1>4. OperationAppliedOnce'
  BY <1>1 DEF LedgerInv, OperationAppliedOnce
<1>5. LedgerIsAChain'
  <2>1. \A d \in Document : Exists(d)' =>
          \A r \in 1 .. documents'[d].revision :
            \E v \in versions' : v.doc = d /\ v.revision = r
    <3> SUFFICES ASSUME NEW d \in Document, Exists(d)',
                        NEW r \in 1 .. documents'[d].revision
                 PROVE  \E v \in versions' : v.doc = d /\ v.revision = r
      OBVIOUS
    <3>1. PICK v \in versions : v.doc = d /\ v.revision = r
      BY <1>2 DEF LedgerInv, LedgerIsAChain
    <3>2. v.project # p
      BY <1>2, <3>1 DEF LedgerInv, ProjectionIsLastVersion
    <3> QED
      BY <1>1, <3>1, <3>2
  <2> QED
    BY <1>1, <2>1 DEF LedgerInv, LedgerIsAChain
<1>6. ProjectionIsLastVersion'
  <2>1. \A v \in versions' :
          /\ Exists(v.doc)'
          /\ documents'[v.doc].project = v.project
          /\ v.revision <= documents'[v.doc].revision
    BY <1>1, <1>2, <1>3 DEF LedgerInv, ProjectionIsLastVersion
  <2>2. \A d \in Document : Exists(d)' =>
          \E v \in versions' :
            /\ v.doc = d
            /\ v.revision = documents'[d].revision
            /\ v.path = documents'[d].path
            /\ v.content = documents'[d].content
            /\ v.deleted = documents'[d].deleted
    <3> SUFFICES ASSUME NEW d \in Document, Exists(d)'
                 PROVE  \E v \in versions' :
                          /\ v.doc = d
                          /\ v.revision = documents'[d].revision
                          /\ v.path = documents'[d].path
                          /\ v.content = documents'[d].content
                          /\ v.deleted = documents'[d].deleted
      OBVIOUS
    <3>1. PICK v \in versions :
            /\ v.doc = d
            /\ v.revision = documents[d].revision
            /\ v.path = documents[d].path
            /\ v.content = documents[d].content
            /\ v.deleted = documents[d].deleted
      BY <1>2 DEF LedgerInv, ProjectionIsLastVersion
    <3>2. v.project # p
      BY <1>2, <3>1 DEF LedgerInv, ProjectionIsLastVersion
    <3> QED
      BY <1>1, <1>2, <3>1, <3>2
  <2> QED
    BY <2>1, <2>2 DEF ProjectionIsLastVersion
<1>7. LivePathsAreUnique'
  BY <1>2 DEF LedgerInv, LivePathsAreUnique
<1>8. PurgeIsFinal'
  <2>1. \A q \in tombstones' : projects'[q] = NoProject
    BY <1>1 DEF LedgerInv, PurgeIsFinal, TypeOK
  <2>2. \A q \in tombstones' :
          /\ \A d \in Document : Exists(d)' => documents'[d].project # q
          /\ \A v \in versions' : v.project # q
    BY <1>1, <1>2 DEF LedgerInv, PurgeIsFinal
  <2> QED
    BY <2>1, <2>2 DEF PurgeIsFinal
<1> QED
  BY <1>4, <1>5, <1>6, <1>7, <1>8 DEF LedgerInv

\* What a commit that goes through does to the ledger and the projection.
LEMMA CommitEffect ==
  ASSUME TypeOK, NEW r \in CommitRequest, NEW at \in Nat, Apply(r, at)
  PROVE  \E new \in VersionRow :
           /\ versions' = versions \cup {new}
           /\ new.doc = r.doc /\ new.project = r.project /\ new.op = r.op
           /\ new.base = r.base /\ new.revision = r.base + 1
           /\ new.path = r.path /\ new.content = r.content
           /\ new.deleted = r.deleted
           /\ documents' = [documents EXCEPT ![r.doc] =
                [project |-> r.project, path |-> r.path,
                 content |-> r.content, revision |-> r.base + 1,
                 deleted |-> r.deleted]]
<1> DEFINE new == [doc |-> r.doc, project |-> r.project,
                   revision |-> r.base + 1, base |-> r.base, op |-> r.op,
                   client |-> r.client, kind |-> CommitKind(r),
                   path |-> r.path, content |-> r.content,
                   deleted |-> r.deleted]
<1>1. CommitKind(r) \in Kind
  BY KindOfCommit
<1>2. new \in VersionRow
  BY <1>1 DEF CommitRequest, VersionRow
<1>3. versions' = versions \cup {new}
  BY DEF Apply
<1>4. WITNESS new \in VersionRow
<1> QED
  BY <1>3 DEF Apply

\* The new version extends the ledger of its document by one.
LEMMA CommitKeepsLedger ==
  ASSUME TypeOK, LedgerInv, NEW r \in CommitRequest, NEW at \in Nat,
         CommitVerdict(r, at) = "committed",
         Apply(r, at),
         UNCHANGED <<projects, tombstones>>
  PROVE  LedgerInv'
<1>1. PICK new \in VersionRow :
        /\ versions' = versions \cup {new}
        /\ new.doc = r.doc /\ new.project = r.project /\ new.op = r.op
        /\ new.base = r.base /\ new.revision = r.base + 1
        /\ new.path = r.path /\ new.content = r.content
        /\ new.deleted = r.deleted
        /\ documents' = [documents EXCEPT ![r.doc] =
             [project |-> r.project, path |-> r.path,
              content |-> r.content, revision |-> r.base + 1,
              deleted |-> r.deleted]]
  BY CommitEffect
<1>2. /\ r.doc \in Document /\ r.project \in Project /\ r.base \in Nat
      /\ r.path \in Path /\ r.content \in Content /\ r.deleted \in BOOLEAN
  BY DEF CommitRequest
<1>3. /\ VersionOf(r.op) = {}
      /\ r.deleted \/ ~ PathTaken(r)
      /\ \/ /\ r.base = 0
            /\ ~ Exists(r.doc)
            /\ ~ r.deleted
            /\ projects[r.project] # NoProject
         \/ /\ r.base > 0
            /\ Exists(r.doc)
            /\ documents[r.doc].project = r.project
            /\ documents[r.doc].revision = r.base
            /\ HoldsLease(r, at)
  BY CommittedFacts
<1>4. /\ Exists(r.doc)'
      /\ documents'[r.doc] = [project |-> r.project, path |-> r.path,
                              content |-> r.content,
                              revision |-> r.base + 1,
                              deleted |-> r.deleted]
      /\ \A d \in Document \ {r.doc} : /\ documents'[d] = documents[d]
                                       /\ Exists(d)' <=> Exists(d)
  <2>1. [project |-> r.project, path |-> r.path, content |-> r.content,
         revision |-> r.base + 1, deleted |-> r.deleted] \in DocumentRow
    BY <1>2 DEF DocumentRow
  <2> QED
    BY <1>1, <1>2, <2>1, RowsAssumption DEF TypeOK, Exists
<1>5. \A v \in versions :
        /\ v.doc \in Document
        /\ v.revision \in Nat
        /\ v.doc = r.doc => r.base > 0 /\ v.revision <= r.base
  BY <1>3 DEF TypeOK, VersionRow, LedgerInv, ProjectionIsLastVersion
<1>6. OperationAppliedOnce'
  BY <1>1, <1>3 DEF VersionOf, LedgerInv, OperationAppliedOnce
<1>7. LedgerIsAChain'
  <2>1. \A v, w \in versions' :
          v.doc = w.doc /\ v.revision = w.revision => v = w
    BY <1>1, <1>2, <1>5 DEF LedgerInv, LedgerIsAChain
  <2>2. \A v \in versions' : v.base + 1 = v.revision
    BY <1>1 DEF LedgerInv, LedgerIsAChain
  <2>3. \A d \in Document : Exists(d)' =>
          \A q \in 1 .. documents'[d].revision :
            \E v \in versions' : v.doc = d /\ v.revision = q
    <3> SUFFICES ASSUME NEW d \in Document, Exists(d)',
                        NEW q \in 1 .. documents'[d].revision
                 PROVE  \E v \in versions' : v.doc = d /\ v.revision = q
      OBVIOUS
    <3>1. CASE d # r.doc
      BY <1>1, <1>4, <3>1 DEF LedgerInv, LedgerIsAChain
    <3>2. CASE d = r.doc /\ q = r.base + 1
      BY <1>1, <3>2
    <3>3. CASE d = r.doc /\ q # r.base + 1
      <4>1. r.base > 0 /\ q \in 1 .. documents[d].revision
        BY <1>2, <1>3, <1>4, <3>3
      <4>2. \E v \in versions : v.doc = d /\ v.revision = q
        BY <1>2, <1>3, <3>3, <4>1 DEF LedgerInv, LedgerIsAChain
      <4> QED
        BY <1>1, <4>2
    <3> QED
      BY <3>1, <3>2, <3>3
  <2> QED
    BY <2>1, <2>2, <2>3 DEF LedgerIsAChain
<1>8. ProjectionIsLastVersion'
  <2>1. ASSUME NEW v \in versions'
        PROVE  /\ Exists(v.doc)'
               /\ documents'[v.doc].project = v.project
               /\ v.revision <= documents'[v.doc].revision
    <3>1. CASE v = new
      BY <1>1, <1>2, <1>4, <3>1
    <3>2. CASE v # new /\ v.doc = r.doc
      <4>1. v \in versions
        BY <1>1, <3>2
      <4>2. v.revision <= r.base /\ v.revision \in Nat /\ r.base > 0
        BY <1>5, <3>2, <4>1
      <4>3. v.project = r.project
        BY <1>3, <3>2, <4>1, <4>2 DEF LedgerInv, ProjectionIsLastVersion
      <4> QED
        BY <1>2, <1>4, <3>2, <4>2, <4>3
    <3>3. CASE v # new /\ v.doc # r.doc
      <4>1. v \in versions
        BY <1>1, <3>3
      <4> QED
        BY <1>4, <1>5, <3>3, <4>1 DEF LedgerInv, ProjectionIsLastVersion
    <3> QED
      BY <3>1, <3>2, <3>3
  <2>2. ASSUME NEW d \in Document, Exists(d)'
        PROVE  \E v \in versions' :
                 /\ v.doc = d
                 /\ v.revision = documents'[d].revision
                 /\ v.path = documents'[d].path
                 /\ v.content = documents'[d].content
                 /\ v.deleted = documents'[d].deleted
    <3>1. CASE d = r.doc
      BY <1>1, <1>4, <3>1
    <3>2. CASE d # r.doc
      BY <1>1, <1>4, <2>2, <3>2 DEF LedgerInv, ProjectionIsLastVersion
    <3> QED
      BY <3>1, <3>2
  <2> QED
    BY <2>1, <2>2 DEF ProjectionIsLastVersion
<1>9. LivePathsAreUnique'
  <2> SUFFICES ASSUME NEW d \in Document, NEW e \in Document,
                      Exists(d)', Exists(e)',
                      ~ documents'[d].deleted, ~ documents'[e].deleted,
                      documents'[d].project = documents'[e].project,
                      documents'[d].path = documents'[e].path,
                      d # e
               PROVE  FALSE
    BY DEF LivePathsAreUnique
  <2>1. CASE d = r.doc
    BY <1>2, <1>3, <1>4, <2>1 DEF PathTaken
  <2>2. CASE e = r.doc
    BY <1>2, <1>3, <1>4, <2>2 DEF PathTaken
  <2>3. CASE d # r.doc /\ e # r.doc
    BY <1>4, <2>3 DEF LedgerInv, LivePathsAreUnique
  <2> QED
    BY <2>1, <2>2, <2>3
<1>10. PurgeIsFinal'
  <2>1. r.project \notin tombstones
    BY <1>2, <1>3 DEF LedgerInv, PurgeIsFinal
  <2> SUFFICES ASSUME NEW p \in tombstones
               PROVE  /\ projects[p] = NoProject
                      /\ \A d \in Document :
                           Exists(d)' => documents'[d].project # p
                      /\ \A v \in versions' : v.project # p
    BY DEF PurgeIsFinal
  <2>2. projects[p] = NoProject
    BY DEF LedgerInv, PurgeIsFinal
  <2>3. ASSUME NEW d \in Document, Exists(d)'
        PROVE  documents'[d].project # p
    BY <1>4, <2>1, <2>3 DEF LedgerInv, PurgeIsFinal
  <2>4. \A v \in versions' : v.project # p
    BY <1>1, <2>1 DEF LedgerInv, PurgeIsFinal
  <2> QED
    BY <2>2, <2>3, <2>4
<1> QED
  BY <1>6, <1>7, <1>8, <1>9, <1>10 DEF LedgerInv

ServerInv == TypeOK /\ LedgerInv

\* The ledger invariants hold in every state of the server.
THEOREM ServerInvariant == Spec => []ServerInv
<1>1. Init => ServerInv
  BY DEF Init, ServerInv, TypeOK, LedgerInv, OperationAppliedOnce,
         LedgerIsAChain, ProjectionIsLastVersion, LivePathsAreUnique,
         PurgeIsFinal, Exists
<1>2. TypeOK /\ TypeOK' /\ LedgerInv /\ [Next]_vars => LedgerInv'
  <2> SUFFICES ASSUME TypeOK, LedgerInv, [Next]_vars
               PROVE  LedgerInv'
    OBVIOUS
  <2> DEFINE Quiet == UNCHANGED <<documents, versions, tombstones, projects>>
  <2>1. ASSUME Quiet
        PROVE  LedgerInv'
    BY <2>1, QuietStep
  <2>2. CASE ProjectStep
    BY <2>2, ProjectQuiet, PurgeKeepsLedger DEF ProjectStep
  <2>3. CASE LeaseStep
    <3>1. Quiet
      BY <2>3 DEF LeaseStep, BeginAcquire, RenewLease, ReleaseLease,
                  FinishAcquire
    <3> QED
      BY <2>1, <3>1
  <2>4. ASSUME NEW r \in Requests, BeginCommit(r)
        PROVE  LedgerInv'
    BY <2>1, <2>4 DEF BeginCommit
  <2>5. ASSUME NEW t \in commits, FinishCommit(t)
        PROVE  LedgerInv'
    <3>1. t.request \in CommitRequest /\ t.at \in Nat
      BY DEF TypeOK, CommitInProgress
    <3>2. CASE CommitVerdict(t.request, t.at) # "committed"
      BY <2>1, <2>5, <3>2 DEF FinishCommit
    <3>3. CASE CommitVerdict(t.request, t.at) = "committed"
      BY <2>5, <3>1, <3>3, CommitKeepsLedger DEF FinishCommit
    <3> QED
      BY <3>2, <3>3
  <2>6. CASE Tick
    BY <2>1, <2>6 DEF Tick
  <2>7. CASE UNCHANGED vars
    BY <2>1, <2>7 DEF vars
  <2> QED
    BY <2>2, <2>3, <2>4, <2>5, <2>6, <2>7 DEF Next, CommitStep
<1> QED
  BY <1>1, <1>2, TypeCorrect, PTL DEF Spec, ServerInv

\* Calling commit_document again with an operation id, with the same request or
\* another, never makes a second revision.
THEOREM AppliedOnce == Spec => []OperationAppliedOnce
BY ServerInvariant, PTL DEF ServerInv, LedgerInv

\* No revision of a document is skipped, and no two commits share a base.
THEOREM Chain == Spec => []LedgerIsAChain
BY ServerInvariant, PTL DEF ServerInv, LedgerInv

\* What a pull reads in documents is what the last commit recorded.
THEOREM Projection == Spec => []ProjectionIsLastVersion
BY ServerInvariant, PTL DEF ServerInv, LedgerInv

\* Moves, deletes and restores never leave two live documents on one path.
THEOREM UniquePaths == Spec => []LivePathsAreUnique
BY ServerInvariant, PTL DEF ServerInv, LedgerInv

\* Neither ensure_project nor a commit that was under way brings a purged
\* project back.
THEOREM FinalPurge == Spec => []PurgeIsFinal
BY ServerInvariant, PTL DEF ServerInv, LedgerInv

-----------------------------------------------------------------------------
(* Leases, and the project trash *)

Trashed(d) == projects[documents[d].project].trashed

\* The role of a commit is read before it takes its locks, so a commit can be
\* under way in a project that is trashed meanwhile.  It cannot hold a lease
\* there: the trash swept the leases away, and one that is granted afterwards
\* has a token that no commit under way has ever seen.
LeaseInv ==
  /\ \A d \in Document : ~ Exists(d) => leases[d] = NoLease
  /\ \A a \in acquires : Exists(a.doc)
  /\ \A d \in Document :
       Exists(d) => projects[documents[d].project] # NoProject
  /\ \A t \in commits : t.request.token <= issued
  /\ \A d \in Document : \A t \in commits :
       /\ Exists(d)
       /\ Trashed(d)
       /\ leases[d] # NoLease
       /\ t.request.doc = d
       /\ t.request.project = documents[d].project
       => t.request.token # leases[d].token

\* At first there is no lease, no document and no commit.
LEMMA LeaseInvInit == Init => LeaseInv
BY DEF Init, LeaseInv, Exists

\* The trash sweeps the leases away; the other steps of a project's life put no
\* document into the trash.
LEMMA LeaseInvProject ==
  ASSUME TypeOK, LedgerInv, LeaseInv, NEW c \in Client, NEW p \in Project,
         \/ EnsureProject(c, p)
         \/ TrashProject(c, p)
         \/ RestoreProject(c, p)
         \/ PurgeProject(c, p)
  PROVE  LeaseInv'
<1>1. \A d \in Document : Exists(d) => documents[d].project \in Project
  BY DEF TypeOK, DocumentRow, Exists
<1>2. CASE EnsureProject(c, p)
  <2>1. /\ UNCHANGED <<documents, leases, acquires, commits, issued>>
        /\ projects[p] = NoProject
        /\ \A q \in Project : q # p => projects'[q] = projects[q]
    BY <1>2 DEF EnsureProject, TypeOK
  <2>2. \A d \in Document :
          Exists(d) => projects'[documents[d].project] =
                         projects[documents[d].project]
    BY <1>1, <1>2, <2>1 DEF EnsureProject, LeaseInv
  <2> QED
    BY <2>1, <2>2 DEF LeaseInv, Exists, Trashed
<1>3. CASE TrashProject(c, p)
  <2>1. /\ UNCHANGED <<documents, acquires, commits, issued>>
        /\ leases' = LeasesWithout(p)
        /\ \A q \in Project : q # p => projects'[q] = projects[q]
        /\ projects'[p] \in ProjectRow
    BY <1>3 DEF TrashProject, TypeOK, Owns, ProjectRow
  <2>2. \A d \in Document :
          leases'[d] # NoLease => /\ leases'[d] = leases[d]
                                  /\ Exists(d) => documents[d].project # p
    BY <2>1 DEF LeasesWithout
  <2>3. \A d \in Document : ~ Exists(d)' => leases'[d] = NoLease
    BY <2>1, <2>2 DEF LeaseInv, Exists
  <2>4. \A d \in Document :
          Exists(d)' => projects'[documents'[d].project] # NoProject
    BY <1>1, <2>1, RowsAssumption DEF LeaseInv, Exists
  <2>5. \A d \in Document : \A t \in commits' :
          /\ Exists(d)' /\ Trashed(d)' /\ leases'[d] # NoLease
          /\ t.request.doc = d
          /\ t.request.project = documents'[d].project
          => t.request.token # leases'[d].token
    BY <1>1, <2>1, <2>2 DEF LeaseInv, Exists, Trashed
  <2> QED
    BY <2>1, <2>3, <2>4, <2>5 DEF LeaseInv, Exists
<1>4. CASE RestoreProject(c, p)
  <2>1. /\ UNCHANGED <<documents, leases, acquires, commits, issued>>
        /\ \A q \in Project : q # p => projects'[q] = projects[q]
        /\ projects'[p] \in ProjectRow /\ projects'[p].trashed = FALSE
    BY <1>4 DEF RestoreProject, TypeOK, Owns, ProjectRow
  <2>2. \A d \in Document :
          Exists(d)' => projects'[documents'[d].project] # NoProject
    BY <1>1, <2>1, RowsAssumption DEF LeaseInv, Exists
  <2>3. \A d \in Document : Exists(d) /\ Trashed(d)' => Trashed(d)
    BY <1>1, <2>1 DEF Trashed
  <2> QED
    BY <2>1, <2>2, <2>3 DEF LeaseInv, Exists, Trashed
<1>5. CASE PurgeProject(c, p)
  <2>1. /\ UNCHANGED <<acquires, commits, issued>>
        /\ leases' = LeasesWithout(p)
        /\ \A q \in Project : q # p => projects'[q] = projects[q]
    BY <1>5 DEF PurgeProject, TypeOK
  <2>2. \A d \in Document :
          /\ Exists(d)' <=> Exists(d) /\ documents[d].project # p
          /\ Exists(d)' => documents'[d] = documents[d]
    BY <1>5 DEF PurgeProject, TypeOK, Exists
  <2>3. \A d \in Document :
          leases'[d] # NoLease => leases'[d] = leases[d] /\ Exists(d)'
    BY <2>1, <2>2 DEF LeasesWithout, LeaseInv
  <2>4. \A a \in acquires' : Exists(a.doc)'
    BY <1>5, <2>1, <2>2 DEF PurgeProject, LeaseInv, TypeOK,
                            AcquireInProgress
  <2>5. \A d \in Document :
          Exists(d)' => projects'[documents'[d].project] # NoProject
    BY <1>1, <2>1, <2>2 DEF LeaseInv
  <2>6. \A d \in Document : Exists(d)' /\ Trashed(d)' => Trashed(d)
    BY <1>1, <2>1, <2>2 DEF Trashed
  <2>7. \A d \in Document : \A t \in commits' :
          /\ Exists(d)' /\ Trashed(d)' /\ leases'[d] # NoLease
          /\ t.request.doc = d
          /\ t.request.project = documents'[d].project
          => t.request.token # leases'[d].token
    BY <2>1, <2>2, <2>3, <2>6 DEF LeaseInv
  <2> QED
    BY <2>1, <2>3, <2>4, <2>5, <2>7 DEF LeaseInv
<1> QED
  BY <1>2, <1>3, <1>4, <1>5

\* Acquiring, renewing and releasing leave documents and projects alone.  A
\* lease is NoLease afterwards, or keeps its token, or has the next one.
LEMMA LeaseStepEffect ==
  ASSUME TypeOK, LeaseInv, LeaseStep
  PROVE  /\ UNCHANGED <<projects, documents, versions, commits>>
         /\ issued' \in Nat /\ issued <= issued'
         /\ \A a \in acquires' : Exists(a.doc)
         /\ \A d \in Document :
              \/ leases'[d] = NoLease
              \/ /\ leases[d] # NoLease
                 /\ leases'[d].token = leases[d].token
              \/ /\ Exists(d)
                 /\ leases'[d].token = issued + 1
<1>1. ASSUME NEW c \in Client, NEW d \in Document, BeginAcquire(c, d)
      PROVE  /\ UNCHANGED <<projects, documents, versions, commits, issued,
                            leases>>
             /\ \A a \in acquires' : Exists(a.doc)
  BY <1>1 DEF BeginAcquire, LeaseInv
<1>2. ASSUME NEW c \in Client, NEW d \in Document, NEW token \in 1 .. issued,
             RenewLease(c, d, token)
      PROVE  /\ UNCHANGED <<projects, documents, versions, commits, issued,
                            acquires>>
             /\ leases[d] # NoLease
             /\ leases' = [leases EXCEPT ![d].expires = now + LeaseTTL]
             /\ leases'[d].token = leases[d].token
             /\ \A e \in Document : e # d => leases'[e] = leases[e]
  BY <1>2 DEF RenewLease, LiveLease, TypeOK, LeaseRow
<1>3. ASSUME NEW c \in Client, NEW d \in Document, NEW token \in 1 .. issued,
             ReleaseLease(c, d, token)
      PROVE  /\ UNCHANGED <<projects, documents, versions, commits, issued,
                            acquires>>
             /\ \A e \in Document : leases'[e] \in {leases[e], NoLease}
  BY <1>3 DEF ReleaseLease, TypeOK
<1>4. ASSUME NEW a \in acquires, FinishAcquire(a)
      PROVE  /\ UNCHANGED <<projects, documents, versions, commits>>
             /\ issued' \in Nat /\ issued <= issued'
             /\ acquires' \subseteq acquires
             /\ \A d \in Document :
                  \/ leases'[d] = leases[d]
                  \/ /\ leases[d] # NoLease
                     /\ leases'[d].token = leases[d].token
                  \/ /\ Exists(d)
                     /\ leases'[d].token = issued + 1
  <2>1. a.doc \in Document /\ Exists(a.doc)
    BY DEF TypeOK, AcquireInProgress, LeaseInv
  <2>2. CASE AcquireRefused(a)
    BY <1>4, <2>2 DEF FinishAcquire, AcquireRefused, TypeOK
  <2>3. CASE AcquireExtends(a)
    BY <1>4, <2>1, <2>3
       DEF FinishAcquire, AcquireExtends, LiveLease, TypeOK, LeaseRow
  <2>4. CASE AcquireGrants(a)
    BY <1>4, <2>1, <2>4 DEF FinishAcquire, AcquireGrants, TypeOK
  <2> QED
    BY <1>4, <2>2, <2>3, <2>4 DEF FinishAcquire
<1>5. issued \in Nat /\ \A a \in acquires : Exists(a.doc)
  BY DEF TypeOK, LeaseInv
<1>6. ASSUME NEW c \in Client, NEW d \in Document, BeginAcquire(c, d)
      PROVE  \A e \in Document :
               leases'[e] = NoLease
               \/ (leases[e] # NoLease /\ leases'[e].token = leases[e].token)
  BY <1>1, <1>6
<1>7. ASSUME NEW c \in Client, NEW d \in Document, NEW token \in 1 .. issued,
             RenewLease(c, d, token)
      PROVE  \A e \in Document :
               leases'[e] = NoLease
               \/ (leases[e] # NoLease /\ leases'[e].token = leases[e].token)
  BY <1>2, <1>7
<1>8. ASSUME NEW c \in Client, NEW d \in Document, NEW token \in 1 .. issued,
             ReleaseLease(c, d, token)
      PROVE  \A e \in Document :
               leases'[e] = NoLease
               \/ (leases[e] # NoLease /\ leases'[e].token = leases[e].token)
  BY <1>3, <1>8
<1>9. ASSUME NEW a \in acquires, FinishAcquire(a)
      PROVE  /\ \A b \in acquires' : Exists(b.doc)
             /\ \A e \in Document :
                  \/ leases'[e] = NoLease
                  \/ (leases[e] # NoLease /\ leases'[e].token = leases[e].token)
                  \/ (Exists(e) /\ leases'[e].token = issued + 1)
  BY <1>4, <1>5, <1>9
<1> QED
  BY <1>1, <1>2, <1>3, <1>4, <1>5, <1>6, <1>7, <1>8, <1>9 DEF LeaseStep

\* A lease granted in a trashed project has a token nobody has sent.
LEMMA LeaseInvLease ==
  ASSUME TypeOK, LeaseInv, LeaseStep
  PROVE  LeaseInv'
<1>1. /\ UNCHANGED <<projects, documents, commits>>
      /\ issued' \in Nat /\ issued <= issued'
      /\ \A a \in acquires' : Exists(a.doc)
      /\ \A d \in Document :
           \/ leases'[d] = NoLease
           \/ /\ leases[d] # NoLease
              /\ leases'[d].token = leases[d].token
           \/ /\ Exists(d)
              /\ leases'[d].token = issued + 1
  BY LeaseStepEffect
<1>2. /\ issued \in Nat
      /\ \A t \in commits : t.request.token \in Nat
      /\ \A t \in commits : t.request.token <= issued
  BY DEF TypeOK, CommitInProgress, CommitRequest, LeaseInv
<1>3. \A d \in Document : ~ Exists(d)' => leases'[d] = NoLease
  BY <1>1 DEF LeaseInv, Exists
<1>4. \A t \in commits' : t.request.token <= issued'
  BY <1>1, <1>2
<1>5. ASSUME NEW d \in Document, NEW t \in commits,
             Exists(d), Trashed(d), leases'[d] # NoLease, t.request.doc = d,
             t.request.project = documents[d].project
      PROVE  t.request.token # leases'[d].token
  <2>1. CASE leases[d] # NoLease /\ leases'[d].token = leases[d].token
    BY <1>5, <2>1 DEF LeaseInv
  <2>2. CASE leases'[d].token = issued + 1
    BY <1>2, <2>2
  <2> QED
    BY <1>1, <1>5, <2>1, <2>2
<1> QED
  BY <1>1, <1>3, <1>4, <1>5 DEF LeaseInv, Exists, Trashed

\* A commit that passes its role check is not aimed at a trashed project.
LEMMA LeaseInvBeginCommit ==
  ASSUME TypeOK, LeaseInv, NEW r \in Requests, BeginCommit(r)
  PROVE  LeaseInv'
<1>1. /\ UNCHANGED <<projects, documents, leases, issued, acquires>>
      /\ commits' = commits \cup {[request |-> r, at |-> now]}
      /\ ~ projects[r.project].trashed
  BY DEF BeginCommit, MayEdit, ActiveProject
<1>2. r.token \in 0 .. issued
  BY DEF Requests
<1>3. \A t \in commits' : t.request.token <= issued
  BY <1>1, <1>2 DEF LeaseInv, TypeOK
<1>4. ASSUME NEW d \in Document, NEW t \in commits',
             Exists(d), Trashed(d), leases[d] # NoLease, t.request.doc = d,
             t.request.project = documents[d].project
      PROVE  t.request.token # leases[d].token
  <2>1. t \in commits
    BY <1>1, <1>4 DEF Trashed
  <2> QED
    BY <1>4, <2>1 DEF LeaseInv
<1> QED
  BY <1>1, <1>3, <1>4 DEF LeaseInv, Exists, Trashed

\* A commit keeps the token of the lease it was made under.
LEMMA LeaseInvFinishCommit ==
  ASSUME TypeOK, LedgerInv, LeaseInv, NEW t \in commits, FinishCommit(t)
  PROVE  LeaseInv'
<1> DEFINE r == t.request
<1>1. r \in CommitRequest /\ t.at \in Nat /\ r.doc \in Document
  BY DEF TypeOK, CommitInProgress, CommitRequest
<1>2. /\ UNCHANGED <<projects, issued, acquires>>
      /\ commits' \subseteq commits
  BY DEF FinishCommit
<1>3. CASE CommitVerdict(r, t.at) # "committed"
  <2>1. UNCHANGED <<documents, leases>>
    BY <1>3 DEF FinishCommit
  <2> QED
    BY <1>2, <2>1 DEF LeaseInv, Exists, Trashed
<1>4. CASE CommitVerdict(r, t.at) = "committed"
  <2>1. Apply(r, t.at)
    BY <1>4 DEF FinishCommit
  <2>2. \/ ~ Exists(r.doc) /\ r.base = 0 /\ ~ r.deleted
        \/ /\ Exists(r.doc)
           /\ documents[r.doc].project = r.project
           /\ leases[r.doc] # NoLease
    BY <1>1, <1>4, CommittedFacts DEF HoldsLease
  <2>3. projects[r.project] # NoProject
    BY <1>1, <1>4, CommittedFacts DEF LeaseInv
  <2>4. /\ \A d \in Document : d # r.doc => /\ documents'[d] = documents[d]
                                           /\ leases'[d] = leases[d]
        /\ documents'[r.doc].project = r.project
        /\ documents'[r.doc] # NoDocument
    <3>1. documents'[r.doc] \in DocumentRow
      <4>1. /\ r.project \in Project /\ r.path \in Path
            /\ r.content \in Content /\ r.deleted \in BOOLEAN
            /\ r.base + 1 \in Nat \ {0}
        BY <1>1 DEF CommitRequest
      <4> QED
        BY <1>1, <2>1, <4>1 DEF Apply, TypeOK, DocumentRow
    <3> QED
      BY <1>1, <2>1, <3>1, RowsAssumption DEF Apply, TypeOK
  <2>5. \/ leases'[r.doc] = NoLease
        \/ /\ Exists(r.doc)
           /\ documents[r.doc].project = r.project
           /\ leases[r.doc] # NoLease
           /\ leases'[r.doc].token = leases[r.doc].token
    <3>1. leases'[r.doc] = LeaseAfterCommit(r, t.at)
      BY <1>1, <2>1 DEF Apply, TypeOK
    <3>2. CASE ~ Exists(r.doc) /\ r.base = 0 /\ ~ r.deleted
      BY <1>1, <3>1, <3>2 DEF LeaseAfterCommit, LeaseInv
    <3>3. CASE Exists(r.doc) /\ leases[r.doc] # NoLease
      <4>1. leases[r.doc] \in LeaseRow
        BY <1>1, <3>3 DEF TypeOK
      <4> QED
        BY <2>2, <3>1, <3>3, <4>1 DEF LeaseAfterCommit, LeaseRow
    <3> QED
      BY <2>2, <3>2, <3>3
  <2>6. \A d \in Document : Exists(d) => Exists(d)'
    BY <2>4 DEF Exists
  <2>7. \A a \in acquires' : Exists(a.doc)'
    BY <1>2, <2>6 DEF LeaseInv, TypeOK, AcquireInProgress
  <2>8. \A d \in Document : ~ Exists(d)' => leases'[d] = NoLease
    BY <2>4 DEF LeaseInv, Exists
  <2>9. \A d \in Document :
          Exists(d)' => projects'[documents'[d].project] # NoProject
    BY <1>2, <2>3, <2>4 DEF LeaseInv, Exists
  <2>10. ASSUME NEW d \in Document, NEW u \in commits', Exists(d)',
                Trashed(d)', leases'[d] # NoLease, u.request.doc = d,
                u.request.project = documents'[d].project
         PROVE  u.request.token # leases'[d].token
    <3>1. CASE d = r.doc
      BY <1>2, <2>4, <2>5, <2>10, <3>1 DEF LeaseInv, Trashed
    <3>2. CASE d # r.doc
      BY <1>2, <2>4, <2>10, <3>2 DEF LeaseInv, Exists, Trashed
    <3> QED
      BY <3>1, <3>2
  <2>11. \A u \in commits' : u.request.token <= issued'
    BY <1>2 DEF LeaseInv
  <2> QED
    BY <2>7, <2>8, <2>9, <2>10, <2>11 DEF LeaseInv
<1> QED
  BY <1>3, <1>4

LeaseServerInv == ServerInv /\ LeaseInv

\* The invariant behind the two theorems on leases below.
THEOREM LeaseInvariant == Spec => []LeaseServerInv
<1>1. Init => LeaseInv
  BY LeaseInvInit
<1>2. ServerInv /\ LeaseInv /\ [Next]_vars => LeaseInv'
  <2> SUFFICES ASSUME TypeOK, LedgerInv, LeaseInv, [Next]_vars
               PROVE  LeaseInv'
    BY DEF ServerInv
  <2>1. CASE ProjectStep
    BY <2>1, LeaseInvProject DEF ProjectStep
  <2>2. CASE LeaseStep
    BY <2>2, LeaseInvLease
  <2>3. CASE CommitStep
    BY <2>3, LeaseInvBeginCommit, LeaseInvFinishCommit DEF CommitStep
  <2>4. CASE Tick \/ UNCHANGED vars
    BY <2>4 DEF Tick, vars, LeaseInv, Exists, Trashed
  <2> QED
    BY <2>1, <2>2, <2>3, <2>4 DEF Next
<1> QED
  BY <1>1, <1>2, ServerInvariant, PTL DEF Spec, LeaseServerInv

\* The documents a step changes: none, those a purge deletes, or the one a
\* successful commit writes.
LEMMA DocumentsChange ==
  ASSUME [Next]_vars
  PROVE  \/ UNCHANGED documents
         \/ \E c \in Client, p \in Project : PurgeProject(c, p)
         \/ \E t \in commits : /\ CommitVerdict(t.request, t.at) = "committed"
                               /\ Apply(t.request, t.at)
<1>1. CASE ProjectStep
  BY <1>1 DEF ProjectStep, EnsureProject, TrashProject, RestoreProject
<1>2. CASE LeaseStep
  BY <1>2 DEF LeaseStep, BeginAcquire, RenewLease, ReleaseLease, FinishAcquire
<1>3. CASE CommitStep
  BY <1>3 DEF CommitStep, BeginCommit, FinishCommit
<1>4. CASE Tick \/ UNCHANGED vars
  BY <1>4 DEF Tick, vars
<1> QED
  BY <1>1, <1>2, <1>3, <1>4 DEF Next

\* A purge does not rewrite the documents it leaves.
LEMMA PurgeLeavesOrDeletes ==
  ASSUME TypeOK, NEW c \in Client, NEW p \in Project, PurgeProject(c, p),
         NEW d \in Document
  PROVE  documents'[d] \in {documents[d], NoDocument}
BY DEF PurgeProject, TypeOK

\* A commit that passed its role check before the project was trashed writes
\* nothing once it is.
THEOREM TrashFreezes == Spec => TrashedDocumentsAreFrozen
<1>1. LeaseServerInv /\ [Next]_vars =>
        \A d \in Document :
          /\ documents[d] # NoDocument
          /\ projects[documents[d].project].trashed
          => documents'[d] \in {documents[d], NoDocument}
  <2> SUFFICES ASSUME TypeOK, LeaseInv, [Next]_vars, NEW d \in Document,
                      documents[d] # NoDocument,
                      projects[documents[d].project].trashed
               PROVE  documents'[d] \in {documents[d], NoDocument}
    BY DEF LeaseServerInv, ServerInv
  <2>1. ASSUME NEW t \in commits,
               CommitVerdict(t.request, t.at) = "committed",
               Apply(t.request, t.at)
        PROVE  documents'[d] = documents[d]
    <3>1. t.request \in CommitRequest /\ t.at \in Nat
      BY DEF TypeOK, CommitInProgress
    <3>2. t.request.doc # d
      <4> SUFFICES ASSUME t.request.doc = d
                   PROVE  FALSE
        OBVIOUS
      <4>1. /\ Exists(d)
            /\ documents[d].project = t.request.project
            /\ HoldsLease(t.request, t.at)
        BY <2>1, <3>1, CommittedFacts DEF Exists
      <4> QED
        BY <4>1 DEF LeaseInv, HoldsLease, Trashed
    <3> QED
      BY <2>1, <3>1, <3>2 DEF Apply, TypeOK, CommitRequest
  <2> QED
    BY <2>1, DocumentsChange, PurgeLeavesOrDeletes
<1> QED
  BY <1>1, LeaseInvariant, PTL DEF Spec, TrashedDocumentsAreFrozen

\* Whoever writes a revision of an existing document holds its lease.
THEOREM WrittenUnderLease == Spec => RevisionsAreWrittenUnderLease
<1>1. LeaseServerInv /\ [Next]_vars =>
        \A d \in Document :
          /\ documents[d] # NoDocument
          /\ documents'[d] # NoDocument
          /\ documents'[d].revision # documents[d].revision
          => /\ leases[d] # NoLease
             /\ \E v \in versions' \ versions :
                  v.doc = d /\ v.client = leases[d].client
  <2> SUFFICES ASSUME TypeOK, [Next]_vars, NEW d \in Document,
                      documents[d] # NoDocument,
                      documents'[d] # NoDocument,
                      documents'[d].revision # documents[d].revision
               PROVE  /\ leases[d] # NoLease
                      /\ \E v \in versions' \ versions :
                           v.doc = d /\ v.client = leases[d].client
    BY DEF LeaseServerInv, ServerInv
  <2>1. PICK t \in commits :
               /\ CommitVerdict(t.request, t.at) = "committed"
               /\ Apply(t.request, t.at)
    BY DocumentsChange, PurgeLeavesOrDeletes
  <2> DEFINE r == t.request
  <2>2. r \in CommitRequest /\ t.at \in Nat
    BY DEF TypeOK, CommitInProgress
  <2>3. r.doc = d
    BY <2>1, <2>2 DEF Apply, TypeOK, CommitRequest
  <2>4. HoldsLease(r, t.at) /\ VersionOf(r.op) = {}
    BY <2>1, <2>2, <2>3, CommittedFacts DEF Exists
  <2>5. \E v \in versions' :
          v.doc = d /\ v.client = r.client /\ v.op = r.op
    <3> DEFINE new == [doc |-> r.doc, project |-> r.project,
                       revision |-> r.base + 1, base |-> r.base, op |-> r.op,
                       client |-> r.client, kind |-> CommitKind(r),
                       path |-> r.path, content |-> r.content,
                       deleted |-> r.deleted]
    <3>1. new \in versions'
      BY <2>1 DEF Apply
    <3>2. new.doc = d /\ new.client = r.client /\ new.op = r.op
      BY <2>3
    <3> QED
      BY <3>1, <3>2
  <2> QED
    BY <2>3, <2>4, <2>5 DEF HoldsLease, VersionOf
<1> QED
  BY <1>1, LeaseInvariant, PTL DEF Spec, RevisionsAreWrittenUnderLease
-----------------------------------------------------------------------------
(* The server implements DocumentHistory *)

Shot(v) ==
  [project |-> v.project, op |-> v.op, path |-> v.path, content |-> v.content,
   deleted |-> v.deleted]

\* The list of a document has the document's versions, each at its revision.
Lists(h, d) ==
  /\ h[d] \in Seq(History!Snapshot)
  /\ Len(h[d]) = IF Exists(d) THEN documents[d].revision ELSE 0
  /\ \A i \in 1 .. Len(h[d]) :
       \E v \in versions : v.doc = d /\ v.revision = i /\ h[d][i] = Shot(v)

ListsAll(h) == h = [d \in Document |-> h[d]] /\ \A d \in Document : Lists(h, d)

LEMMA SnapshotIsShot ==
  ASSUME LedgerIsAChain, NEW v \in versions
  PROVE  SnapshotAt(v.doc, v.revision) = Shot(v)
<1> DEFINE w == CHOOSE x \in versions : x.doc = v.doc /\ x.revision = v.revision
<1>1. w \in versions /\ w.doc = v.doc /\ w.revision = v.revision
  OBVIOUS
<1>2. w = v
  BY <1>1 DEF LedgerIsAChain
<1> QED
  BY <1>2 DEF SnapshotAt, Shot

LEMMA LedgerListsVersions == ServerInv => ListsAll(Ledger)
<1> SUFFICES ASSUME ServerInv, NEW d \in Document
             PROVE  Lists(Ledger, d)
  BY DEF ListsAll, Ledger
<1> DEFINE n == IF Exists(d) THEN documents[d].revision ELSE 0
           h == [i \in 1 .. n |-> SnapshotAt(d, i)]
<1>1. Ledger[d] = h
  BY DEF Ledger, LedgerOf
<1>2. n \in Nat
  BY DEF ServerInv, TypeOK, DocumentRow, Exists
<1>3. ASSUME NEW i \in 1 .. n
      PROVE  /\ SnapshotAt(d, i) \in History!Snapshot
             /\ \E v \in versions : v.doc = d /\ v.revision = i /\ SnapshotAt(d, i) = Shot(v)
  <2>1. PICK v \in versions : v.doc = d /\ v.revision = i
    BY <1>3 DEF ServerInv, LedgerInv, LedgerIsAChain
  <2>2. SnapshotAt(d, i) = Shot(v)
    BY <2>1, SnapshotIsShot DEF ServerInv, LedgerInv
  <2>3. Shot(v) \in History!Snapshot
    BY DEF ServerInv, TypeOK, VersionRow, Shot, History!Snapshot
  <2> QED
    BY <2>1, <2>2, <2>3
<1> HIDE DEF n
<1>4. h \in Seq(History!Snapshot) /\ Len(h) = n /\ \A i \in 1 .. n : h[i] = SnapshotAt(d, i)
  BY <1>2, <1>3
<1> HIDE DEF h
<1> QED
  BY <1>1, <1>3, <1>4 DEF Lists, n

\* The same of the next state.
LEMMA NextLedgerListsVersions == ServerInv' => ListsAll(Ledger)'
BY LedgerListsVersions, PTL
\* Two lists of the same versions are one.
LEMMA ListsAgree ==
  ASSUME NEW vs, \A v, w \in vs : v.doc = w.doc /\ v.revision = w.revision => v = w,
         NEW d, NEW g \in Seq(History!Snapshot), NEW h \in Seq(History!Snapshot),
         Len(g) = Len(h),
         \A i \in 1 .. Len(g) : \E v \in vs : v.doc = d /\ v.revision = i /\ g[i] = Shot(v),
         \A i \in 1 .. Len(h) : \E v \in vs : v.doc = d /\ v.revision = i /\ h[i] = Shot(v)
  PROVE  g = h
<1>1. ASSUME NEW i \in 1 .. Len(g) PROVE g[i] = h[i]
  <2>1. PICK v \in vs : v.doc = d /\ v.revision = i /\ g[i] = Shot(v)
    OBVIOUS
  <2>2. PICK w \in vs : w.doc = d /\ w.revision = i /\ h[i] = Shot(w)
    OBVIOUS
  <2>3. v = w
    BY <2>1, <2>2
  <2> QED
    BY <2>1, <2>2, <2>3
<1> QED
  BY <1>1

\* The newest snapshot of a document is its row.
LEMMA NewestIsTheRow ==
  ASSUME ServerInv, NEW d \in Document
  PROVE  /\ History!Known(d) <=> Exists(d)
         /\ Exists(d) => /\ History!Newest(d).project = documents[d].project
                         /\ History!Newest(d).path = documents[d].path
                         /\ History!Newest(d).deleted = documents[d].deleted
<1>1. Lists(Ledger, d)
  BY LedgerListsVersions DEF ListsAll
<1>2. Exists(d) => documents[d].revision \in Nat \ {0}
  BY DEF ServerInv, TypeOK, DocumentRow, Exists
<1>3. History!Known(d) <=> Exists(d)
  BY <1>1, <1>2 DEF Lists, History!Known
<1>4. ASSUME Exists(d)
      PROVE  /\ History!Newest(d).project = documents[d].project
             /\ History!Newest(d).path = documents[d].path
             /\ History!Newest(d).deleted = documents[d].deleted
  <2> DEFINE n == documents[d].revision
  <2>1. Len(Ledger[d]) = n /\ n \in 1 .. Len(Ledger[d])
    BY <1>1, <1>2, <1>4 DEF Lists
  <2>2. PICK v \in versions : v.doc = d /\ v.revision = n /\ Ledger[d][n] = Shot(v)
    BY <1>1, <2>1 DEF Lists
  <2>3. PICK w \in versions :
          /\ w.doc = d /\ w.revision = n /\ w.path = documents[d].path
          /\ w.content = documents[d].content /\ w.deleted = documents[d].deleted
    BY <1>4 DEF ServerInv, LedgerInv, ProjectionIsLastVersion
  <2>4. w = v
    BY <2>2, <2>3 DEF ServerInv, LedgerInv, LedgerIsAChain
  <2>5. v.project = documents[d].project
    BY <2>2 DEF ServerInv, LedgerInv, ProjectionIsLastVersion
  <2>6. History!Newest(d) = Shot(v)
    BY <2>1, <2>2 DEF History!Newest
  <2> QED
    BY <2>3, <2>4, <2>5, <2>6 DEF Shot
<1> QED
  BY <1>3, <1>4

\* A purge closes the project.
LEMMA PurgeCloses ==
  ASSUME ServerInv, ServerInv', NEW c \in Client, NEW p \in Project, PurgeProject(c, p)
  PROVE  History!Close(p)
<1>1. /\ tombstones' = tombstones \cup {p}
      /\ versions' = {v \in versions : v.project # p}
  BY DEF PurgeProject, LedgerWithout
<1>2. \A d \in Document :
        /\ Exists(d)' <=> Exists(d) /\ documents[d].project # p
        /\ Exists(d)' => documents'[d] = documents[d]
  BY DEF PurgeProject, ServerInv, TypeOK, Exists
<1>3. ListsAll(Ledger) /\ ListsAll(Ledger)'
  BY LedgerListsVersions, NextLedgerListsVersions
<1>4. ASSUME NEW d \in Document
      PROVE  Ledger'[d] = IF History!Known(d) /\ History!Newest(d).project = p
                          THEN <<>> ELSE Ledger[d]
  <2>1. Lists(Ledger, d) /\ Lists(Ledger, d)'
    BY <1>3 DEF ListsAll
  <2>2. CASE Exists(d) /\ documents[d].project = p
    <3>1. History!Known(d) /\ History!Newest(d).project = p
      BY <2>2, NewestIsTheRow
    <3>2. Ledger'[d] = <<>>
      BY <1>2, <2>1, <2>2 DEF Lists
    <3> QED
      BY <3>1, <3>2
  <2>3. CASE ~ (Exists(d) /\ documents[d].project = p)
    <3>1. ~ (History!Known(d) /\ History!Newest(d).project = p)
      BY <2>3, NewestIsTheRow
    <3>2. Len(Ledger'[d]) = Len(Ledger[d])
      BY <1>2, <2>1, <2>3 DEF Lists
    <3>3. Ledger'[d] = Ledger[d]
      BY <1>1, <2>1, <3>2, ListsAgree DEF Lists, ServerInv, LedgerInv, LedgerIsAChain
    <3> QED
      BY <3>1, <3>3
  <2> QED
    BY <2>2, <2>3
<1>5. Ledger' = [d \in Document |-> Ledger'[d]]
  BY <1>3 DEF ListsAll
<1> QED
  BY <1>1, <1>4, <1>5 DEF History!Close
LEMMA OneMore ==
  ASSUME NEW S, NEW h \in Seq(S), NEW s \in S
  PROVE  /\ h \o <<s>> \in Seq(S) /\ Len(h \o <<s>>) = Len(h) + 1
         /\ \A i \in 1 .. Len(h) : (h \o <<s>>)[i] = h[i]
         /\ (h \o <<s>>)[Len(h) + 1] = s
OBVIOUS

\* A commit that goes through extends the history of its document.
LEMMA CommitExtends ==
  ASSUME ServerInv, ServerInv', NEW r \in CommitRequest, NEW at \in Nat,
         CommitVerdict(r, at) = "committed", Apply(r, at), UNCHANGED tombstones
  PROVE  \E s \in History!Snapshot : History!Extend(r.doc, s)
<1> DEFINE s == [project |-> r.project, op |-> r.op, path |-> r.path, content |-> r.content,
                 deleted |-> r.deleted]
           h == Ledger[r.doc]
<1>1. TypeOK /\ LedgerInv /\ r.doc \in Document
  BY DEF ServerInv, CommitRequest
<1>2. /\ VersionOf(r.op) = {}
      /\ r.deleted \/ ~ PathTaken(r)
      /\ \/ /\ r.base = 0 /\ ~ Exists(r.doc) /\ ~ r.deleted
            /\ projects[r.project] # NoProject
         \/ /\ r.base > 0 /\ Exists(r.doc)
            /\ documents[r.doc].project = r.project
            /\ documents[r.doc].revision = r.base
  BY <1>1, CommittedFacts
<1>3. PICK new \in VersionRow :
        /\ versions' = versions \cup {new}
        /\ new.doc = r.doc /\ new.project = r.project /\ new.op = r.op
        /\ new.base = r.base /\ new.revision = r.base + 1
        /\ new.path = r.path /\ new.content = r.content
        /\ new.deleted = r.deleted
        /\ documents' = [documents EXCEPT ![r.doc] =
             [project |-> r.project, path |-> r.path,
              content |-> r.content, revision |-> r.base + 1,
              deleted |-> r.deleted]]
  BY <1>1, CommitEffect
<1>4. s \in History!Snapshot /\ s = Shot(new)
  BY <1>3 DEF CommitRequest, Shot, History!Snapshot
<1>5. s.project = r.project /\ s.op = r.op /\ s.path = r.path /\ s.deleted = r.deleted
  OBVIOUS
<1> HIDE DEF s
<1>6. ListsAll(Ledger) /\ ListsAll(Ledger)'
  BY LedgerListsVersions, NextLedgerListsVersions
<1>7. s.project \notin tombstones
  BY <1>1, <1>2, <1>5 DEF LedgerInv, PurgeIsFinal
<1>8. ~ History!Applied(s.op)
  <2> SUFFICES ASSUME NEW d \in Document, NEW i \in 1 .. Len(Ledger[d]), Ledger[d][i].op = s.op
               PROVE  FALSE
    BY DEF History!Applied
  <2>1. Lists(Ledger, d)
    BY <1>6 DEF ListsAll
  <2>2. PICK v \in versions : Ledger[d][i] = Shot(v)
    BY <2>1 DEF Lists
  <2>3. v \in VersionOf(r.op)
    BY <1>5, <2>2 DEF Shot, VersionOf
  <2> QED
    BY <1>2, <2>3
<1>9. IF History!Known(r.doc) THEN s.project = History!Newest(r.doc).project ELSE ~ s.deleted
  BY <1>1, <1>2, <1>5, NewestIsTheRow
<1>10. s.deleted \/ ~ History!NamesAnother(r.doc, s)
  <2> SUFFICES ASSUME NEW d \in Document \ {r.doc}, History!Known(d),
                      History!Newest(d).project = s.project,
                      History!Newest(d).path = s.path, ~ History!Newest(d).deleted
               PROVE  PathTaken(r)
    BY <1>2, <1>5 DEF History!NamesAnother
  <2>1. /\ Exists(d) /\ documents[d].project = r.project /\ documents[d].path = r.path
        /\ ~ documents[d].deleted
    BY <1>5, NewestIsTheRow
  <2> QED
    BY <2>1 DEF PathTaken
<1>11. Ledger' = [Ledger EXCEPT ![r.doc] = Ledger[r.doc] \o <<s>>]
  <2>0. \A v, w \in versions' : v.doc = w.doc /\ v.revision = w.revision => v = w
    BY DEF ServerInv, LedgerInv, LedgerIsAChain
  <2>1. DOMAIN Ledger = Document /\ Ledger' = [d \in Document |-> Ledger'[d]]
    BY <1>6 DEF ListsAll
  <2>2. ASSUME NEW d \in Document, d # r.doc
        PROVE  Ledger'[d] = Ledger[d]
    <3>1. Lists(Ledger, d) /\ Lists(Ledger, d)'
      BY <1>6 DEF ListsAll
    <3>2. documents'[d] = documents[d]
      BY <1>1, <1>3, <2>2 DEF TypeOK
    <3>3. Len(Ledger'[d]) = Len(Ledger[d])
      BY <3>1, <3>2 DEF Lists, Exists
    <3>4. \A i \in 1 .. Len(Ledger[d]) :
            \E v \in versions' : v.doc = d /\ v.revision = i /\ Ledger[d][i] = Shot(v)
      BY <1>3, <3>1 DEF Lists
    <3> QED
      BY <2>0, <3>1, <3>3, <3>4, ListsAgree DEF Lists
  <2>3. Ledger'[r.doc] = Ledger[r.doc] \o <<s>>
    <3>1. Lists(Ledger, r.doc) /\ Lists(Ledger, r.doc)'
      BY <1>1, <1>6 DEF ListsAll
    <3>2. documents'[r.doc].revision = r.base + 1 /\ r.base \in Nat
      BY <1>1, <1>3 DEF TypeOK, CommitRequest
    <3>3. Exists(r.doc)'
      BY <1>3 DEF ServerInv, LedgerInv, ProjectionIsLastVersion
    <3>4. Len(Ledger[r.doc]) = r.base
      BY <1>2, <3>1, <3>2 DEF Lists
    <3>5. Len(Ledger'[r.doc]) = r.base + 1
      BY <3>1, <3>2, <3>3 DEF Lists
    <3>6. h \in Seq(History!Snapshot) /\ Len(h) = r.base
      BY <3>1, <3>4 DEF Lists
    <3> DEFINE g == h \o <<s>>
    <3>7. /\ g \in Seq(History!Snapshot) /\ Len(g) = r.base + 1
          /\ \A i \in 1 .. r.base : g[i] = h[i]
          /\ g[r.base + 1] = s
      BY <1>4, <3>6, OneMore
    <3> HIDE DEF g, h
    <3>8. ASSUME NEW i \in 1 .. Len(g)
          PROVE  \E v \in versions' : v.doc = r.doc /\ v.revision = i /\ g[i] = Shot(v)
      <4>1. CASE i = r.base + 1
        BY <1>3, <1>4, <3>7, <4>1
      <4>2. CASE i \in 1 .. r.base
        <5>1. PICK v \in versions : v.doc = r.doc /\ v.revision = i /\ h[i] = Shot(v)
          BY <3>1, <3>4, <4>2 DEF Lists, h
        <5> QED
          BY <1>3, <3>7, <4>2, <5>1
      <4> QED
        BY <3>2, <3>7, <4>1, <4>2
    <3>9. Ledger'[r.doc] = g
      <4>1. /\ Ledger'[r.doc] \in Seq(History!Snapshot)
            /\ \A i \in 1 .. Len(Ledger'[r.doc]) :
                 \E v \in versions' : v.doc = r.doc /\ v.revision = i /\ Ledger'[r.doc][i] = Shot(v)
        BY <3>1 DEF Lists
      <4>2. Len(Ledger'[r.doc]) = Len(g)
        BY <3>5, <3>7
      <4> QED
        BY <2>0, <3>7, <3>8, <4>1, <4>2, ListsAgree
    <3> QED
      BY <3>9 DEF g, h
  <2> QED
    BY <1>1, <2>1, <2>2, <2>3
<1>12. History!Extend(r.doc, s)
  BY <1>7, <1>8, <1>9, <1>10, <1>11 DEF History!Extend
<1> QED
  BY <1>4, <1>12

\* Every other step leaves the history as it is.
LEMMA HistoryStays ==
  ASSUME UNCHANGED <<documents, versions, tombstones>>
  PROVE  UNCHANGED <<Ledger, tombstones>>
BY DEF Ledger, LedgerOf, SnapshotAt, Exists

\* A step of the server is a step of DocumentHistory or none: no interleaving of
\* leases, roles, retries and purges shows its clients more than whole snapshots,
\* one for each operation.
THEOREM Implements == Spec => ImplementsHistory
<1>1. Init => History!HistoryInit
  <2> SUFFICES ASSUME Init PROVE Ledger = [d \in Document |-> <<>>] /\ tombstones = {}
    BY DEF History!HistoryInit
  <2>1. \A d \in Document : ~ Exists(d)
    BY DEF Init, Exists
  <2>2. \A d \in Document : LedgerOf(d) = <<>>
    BY <2>1 DEF LedgerOf
  <2> QED
    BY <2>2 DEF Init, Ledger
<1>2. ServerInv /\ ServerInv' /\ [Next]_vars => [History!HistoryNext]_<<Ledger, tombstones>>
  <2> SUFFICES ASSUME ServerInv, ServerInv', [Next]_vars,
                      ~ UNCHANGED <<Ledger, tombstones>>
               PROVE  History!HistoryNext
    OBVIOUS
  <2>1. ~ UNCHANGED <<documents, versions, tombstones>>
    BY HistoryStays
  <2>2. CASE ProjectStep
    <3>1. PICK c \in Client, p \in Project : PurgeProject(c, p)
      BY <2>1, <2>2 DEF ProjectStep, EnsureProject, TrashProject, RestoreProject
    <3> QED
      BY <3>1, PurgeCloses DEF History!HistoryNext
  <2>3. CASE CommitStep
    <3>1. PICK t \in commits : FinishCommit(t)
      BY <2>1, <2>3 DEF CommitStep, BeginCommit
    <3>2. t.request \in CommitRequest /\ t.at \in Nat
      BY DEF ServerInv, TypeOK, CommitInProgress
    <3>3. /\ CommitVerdict(t.request, t.at) = "committed"
          /\ Apply(t.request, t.at) /\ UNCHANGED tombstones
      BY <2>1, <3>1 DEF FinishCommit
    <3>4. \E s \in History!Snapshot : History!Extend(t.request.doc, s)
      BY <3>2, <3>3, CommitExtends
    <3> QED
      BY <3>2, <3>4 DEF CommitRequest, History!HistoryNext
  <2>4. ~ LeaseStep /\ ~ Tick /\ ~ UNCHANGED vars
    BY <2>1 DEF LeaseStep, BeginAcquire, RenewLease, ReleaseLease, FinishAcquire, Tick, vars
  <2> QED
    BY <2>2, <2>3, <2>4 DEF Next
<1> QED
  BY <1>1, <1>2, ServerInvariant, PTL DEF Spec, ImplementsHistory, History!HistorySpec

-----------------------------------------------------------------------------
(* The folder tree rests on the document server *)

\* Folders are added to the server without changing it: what is true of its
\* documents, leases and projects stays true.
THEOREM FoldersKeepServer == FolderSpec => Spec
<1>1. FolderInit => Init
  BY DEF FolderInit
<1>2. [FolderNext]_<<vars, folderVars>> => [Next]_vars
  <2> SUFFICES ASSUME [FolderNext]_<<vars, folderVars>>
               PROVE  [Next]_vars
    OBVIOUS
  <2>1. ASSUME NEW r \in FolderRequest, CommitFolder(r)
        PROVE  UNCHANGED vars
    BY <2>1 DEF CommitFolder
  <2>2. ASSUME NEW c \in Client, NEW p \in Project, PurgeFolders(c, p)
        PROVE  ProjectStep
    BY <2>2 DEF PurgeFolders, ProjectStep
  <2>3. CASE OtherProjectStep
    BY <2>3 DEF OtherProjectStep, ProjectStep, Next
  <2>4. CASE DocumentStep
    BY <2>4 DEF DocumentStep, Next
  <2> QED
    BY <2>1, <2>2, <2>3, <2>4 DEF FolderNext, Next
<1> QED
  BY <1>1, <1>2, PTL DEF FolderSpec, Spec

-----------------------------------------------------------------------------
(* What a successful commit_folder knows *)

\* A request that commit_folder accepts makes a folder that is not there, or
\* continues one at its current revision; in both cases under a parent that can
\* be seen and is not below the folder.
LEMMA CommittedFolderFacts ==
  ASSUME NEW r \in FolderRequest, CommitFolder(r)
  PROVE  /\ FolderVersionOf(r.op) = {}
         /\ ~ ParentMissing(r)
         /\ ~ MakesCycle(r)
         /\ r.parent # r.folder
         /\ r.deleted \/ ~ NameTaken(r)
         /\ \/ r.base = 0 /\ ~ Known(r.folder) /\ ~ r.deleted
            \/ /\ r.base # 0
               /\ InProject(r.folder, r.project)
               /\ folders[r.folder].revision = r.base
               /\ r.deleted => ~ Occupied(r.folder, r.project)
<1>1. /\ FolderVersionOf(r.op) = {}
      /\ ~ ParentMissing(r)
      /\ ~ MakesCycle(r)
      /\ r.parent # r.folder
      /\ IF r.base = 0 THEN CreateFolderVerdict(r) = "committed"
         ELSE ContinueFolderVerdict(r) = "committed"
  BY DEF CommitFolder, FolderVerdict
<1>2. CASE r.base = 0
  BY <1>1, <1>2 DEF CreateFolderVerdict
<1>3. CASE r.base # 0
  BY <1>1, <1>3 DEF ContinueFolderVerdict
<1> QED
  BY <1>2, <1>3

\* The row a commit leaves, and the rows it leaves alone.
LEMMA CommitFolderEffect ==
  ASSUME FolderTypeOK, NEW r \in FolderRequest, CommitFolder(r)
  PROVE  /\ r.folder \in Folder /\ r.project \in Project /\ r.base \in Nat
         /\ r.parent \in Folder \cup {Root}
         /\ folders'[r.folder] \in FolderRow
         /\ folders'[r.folder] # NoFolder
         /\ folders'[r.folder].project = r.project
         /\ folders'[r.folder].parent = r.parent
         /\ folders'[r.folder].name = r.name
         /\ folders'[r.folder].revision = r.base + 1
         /\ folders'[r.folder].deleted = r.deleted
         /\ \A f \in Folder : f # r.folder => folders'[f] = folders[f]
<1> DEFINE row == [project |-> r.project, parent |-> r.parent,
                   name |-> r.name, revision |-> r.base + 1,
                   deleted |-> r.deleted]
<1>1. /\ r.folder \in Folder /\ r.project \in Project /\ r.base \in Nat
      /\ r.parent \in Folder \cup {Root} /\ r.name \in Name
      /\ r.deleted \in BOOLEAN
  BY ParametersAssumption DEF FolderRequest
<1>2. folders' = [folders EXCEPT ![r.folder] = row]
  BY DEF CommitFolder, NextRevision
<1>3. /\ folders'[r.folder] = row
      /\ \A f \in Folder : f # r.folder => folders'[f] = folders[f]
  BY <1>1, <1>2 DEF FolderTypeOK
<1>4. row \in FolderRow
  BY <1>1 DEF FolderRow
<1> QED
  BY <1>1, <1>3, <1>4, FoldersAssumption

-----------------------------------------------------------------------------
(* Going up a tree *)

\* A folder is among its own ancestors, and so is the parent of each of them.
LEMMA AncestorsAreClosed ==
  ASSUME NEW p, NEW g \in Folder
  PROVE  /\ g \in Ancestors(g, p)
         /\ \A a \in Ancestors(g, p) :
              /\ InProject(a, p)
              /\ folders[a].parent \in Folder
              /\ folders[a].parent # Root
              /\ InProject(folders[a].parent, p)
              => folders[a].parent \in Ancestors(g, p)
BY DEF Ancestors, ClosedUpwards

\* The ancestors of a folder of a project are folders of that project.
LEMMA AncestorsStayInProject ==
  ASSUME FolderTypeOK, NEW p, NEW g \in Folder, InProject(g, p)
  PROVE  \A a \in Ancestors(g, p) : a \in Folder /\ InProject(a, p)
<1> DEFINE S == {f \in Folder : InProject(f, p)}
<1>1. \A f \in Folder : Known(f) => folders[f].parent \in Folder \cup {Root}
  BY DEF FolderTypeOK, FolderRow, Known
<1>2. ClosedUpwards(S, p)
  BY <1>1 DEF ClosedUpwards, InProject
<1>3. S \in SUBSET Folder /\ g \in S
  OBVIOUS
<1>4. \A a \in Ancestors(g, p) : a \in Folder /\ a \in S
  BY <1>2, <1>3 DEF Ancestors
<1> QED
  BY <1>4

-----------------------------------------------------------------------------
(* The folders of a project form a tree *)

\* A folder's parent is always a folder of its own project, also when one of
\* them is deleted.
ParentsKnown ==
  \A f \in Folder :
    Known(f) /\ folders[f].parent # Root =>
      InProject(folders[f].parent, folders[f].project)

TreeInv ==
  /\ FolderTypeOK
  /\ ParentsKnown
  /\ NoFolderCycle
  /\ LiveFoldersHang
  /\ SiblingNamesDiffer

\* commit_folder leaves rows of the right type.
LEMMA CommitFolderTypeOK ==
  ASSUME FolderTypeOK, NEW r \in FolderRequest, CommitFolder(r)
  PROVE  FolderTypeOK'
<1>1. FolderKindOf(r) \in FolderKind
  BY DEF FolderKindOf, FolderKind
<1>2. /\ r.folder \in Folder /\ r.project \in Project /\ r.base \in Nat
      /\ r.parent \in Folder \cup {Root} /\ r.name \in Name
      /\ r.deleted \in BOOLEAN /\ r.op \in Operation /\ r.client \in Client
  BY ParametersAssumption DEF FolderRequest
<1>3. folderVersions' \in SUBSET FolderVersionRow
  BY <1>1, <1>2 DEF CommitFolder, NextRevision, FolderTypeOK, FolderVersionRow
<1>4. folders' \in [Folder -> FolderRow \cup {NoFolder}]
  <2>1. [project |-> r.project, parent |-> r.parent, name |-> r.name,
         revision |-> r.base + 1, deleted |-> r.deleted] \in FolderRow
    BY <1>2 DEF FolderRow
  <2> QED
    BY <1>2, <2>1 DEF CommitFolder, NextRevision, FolderTypeOK
<1> QED
  BY <1>3, <1>4 DEF FolderTypeOK

\* The cycle a move could make would pass through the new parent; its ancestors
\* would then already have been a cycle, or the folder one of them.
LEMMA CommitFolderMakesNoCycle ==
  ASSUME TreeInv, NEW r \in FolderRequest, CommitFolder(r)
  PROVE  NoFolderCycle'
<1> SUFFICES ASSUME NEW S \in SUBSET Folder, S # {},
                    \A f \in S : Known(f)' /\ folders'[f].parent \in S
             PROVE  FALSE
  BY DEF NoFolderCycle
<1> DEFINE d == r.folder
           g == r.parent
           A == Ancestors(g, r.project)
<1>1. /\ d \in Folder /\ g \in Folder \cup {Root}
      /\ folders'[d].parent = g
      /\ \A f \in Folder : f # d => folders'[f] = folders[f]
  BY CommitFolderEffect DEF TreeInv
<1>2. CASE d \notin S
  <2>1. \A f \in S : Known(f) /\ folders[f].parent \in S
    BY <1>1, <1>2 DEF Known
  <2> QED
    BY <2>1 DEF TreeInv, NoFolderCycle
<1>3. CASE d \in S
  <2>1. g \in S /\ g \in Folder /\ g # Root
    BY <1>1, <1>3, FoldersAssumption
  <2>2. InProject(g, r.project) /\ d \notin A
    BY <2>1, CommittedFolderFacts DEF ParentMissing, MakesCycle
  <2> DEFINE B == S \cap A
  <2>3. g \in B
    BY <2>1, AncestorsAreClosed
  <2>4. ASSUME NEW f \in B
        PROVE  Known(f) /\ folders[f].parent \in B
    <3>1. f # d /\ f \in Folder
      BY <2>2
    <3>2. Known(f) /\ folders[f].parent \in S
      BY <1>1, <3>1 DEF Known
    <3>3. InProject(f, r.project)
      BY <2>1, <2>2, AncestorsStayInProject DEF TreeInv
    <3>4. folders[f].parent \in Folder /\ folders[f].parent # Root
      BY <3>2, FoldersAssumption
    <3>5. InProject(folders[f].parent, r.project)
      BY <3>1, <3>2, <3>3, <3>4 DEF TreeInv, ParentsKnown, InProject
    <3>6. folders[f].parent \in A
      BY <2>1, <3>3, <3>4, <3>5, AncestorsAreClosed
    <3> QED
      BY <3>2, <3>6
  <2>5. B \in SUBSET Folder /\ B # {}
    BY <2>3
  <2> QED
    BY <2>4, <2>5 DEF TreeInv, NoFolderCycle
<1> QED
  BY <1>2, <1>3

\* What hangs from the written folder stays visible, and the folder itself hangs
\* from a visible one.
LEMMA CommitFolderKeepsHanging ==
  ASSUME TreeInv, NEW r \in FolderRequest, CommitFolder(r)
  PROVE  ParentsKnown' /\ LiveFoldersHang'
<1> DEFINE d == r.folder
<1>1. /\ d \in Folder /\ r.parent \in Folder \cup {Root}
      /\ folders'[d] # NoFolder
      /\ folders'[d].project = r.project
      /\ folders'[d].parent = r.parent
      /\ folders'[d].deleted = r.deleted
      /\ \A f \in Folder : f # d => folders'[f] = folders[f]
  BY CommitFolderEffect DEF TreeInv
<1>2. r.parent # Root => /\ r.parent \in Folder /\ r.parent # d
                         /\ InProject(r.parent, r.project)
                         /\ Live(r.parent)
  BY <1>1, CommittedFolderFacts DEF ParentMissing
<1>3. Known(d) => /\ InProject(d, r.project)
                  /\ r.deleted => ~ Occupied(d, r.project)
  BY CommittedFolderFacts DEF InProject
<1>4. ASSUME NEW f \in Folder, Known(f)', folders'[f].parent # Root
      PROVE  InProject(folders[f].parent, folders[f].project)'
  <2>1. CASE f = d
    BY <1>1, <1>2, <1>4, <2>1 DEF InProject, Known
  <2>2. CASE f # d
    <3>1. /\ Known(f) /\ folders[f].parent \in Folder
          /\ InProject(folders[f].parent, folders[f].project)
      BY <1>1, <1>4, <2>2
         DEF TreeInv, ParentsKnown, FolderTypeOK, FolderRow, Known
    <3> QED
      BY <1>1, <1>3, <2>2, <3>1 DEF InProject, Known
  <2> QED
    BY <2>1, <2>2
<1>5. ASSUME NEW f \in Folder, Live(f)', folders'[f].parent # Root
      PROVE  Live(folders[f].parent)'
  <2>1. CASE f = d
    BY <1>1, <1>2, <1>5, <2>1 DEF Live, Known
  <2>2. CASE f # d
    <3>1. /\ Live(f) /\ folders[f].parent \in Folder
          /\ Live(folders[f].parent)
          /\ folders[folders[f].parent].project = folders[f].project
      BY <1>1, <1>5, <2>2
         DEF TreeInv, LiveFoldersHang, FolderTypeOK, FolderRow, Known, Live
    <3>2. CASE folders[f].parent = d
      <4>1. InProject(f, r.project)
        BY <1>3, <3>1, <3>2 DEF InProject, Live
      <4> QED
        BY <1>1, <1>3, <2>2, <3>1, <3>2, <4>1 DEF Occupied, Live, Known
    <3>3. CASE folders[f].parent # d
      BY <1>1, <2>2, <3>1, <3>3 DEF Live, Known
    <3> QED
      BY <3>2, <3>3
  <2> QED
    BY <2>1, <2>2
<1>6. ParentsKnown'
  BY <1>4 DEF ParentsKnown
<1> QED
  BY <1>4, <1>5, <1>6 DEF LiveFoldersHang, Live, InProject

\* The name of the written folder differs from those of its live siblings.
LEMMA CommitFolderKeepsNames ==
  ASSUME TreeInv, NEW r \in FolderRequest, CommitFolder(r)
  PROVE  SiblingNamesDiffer'
<1> DEFINE d == r.folder
<1>1. /\ d \in Folder
      /\ folders'[d].project = r.project
      /\ folders'[d].parent = r.parent
      /\ folders'[d].name = r.name
      /\ folders'[d].deleted = r.deleted
      /\ \A f \in Folder : f # d => folders'[f] = folders[f]
  BY CommitFolderEffect DEF TreeInv
<1>2. r.deleted \/ ~ NameTaken(r)
  BY CommittedFolderFacts
<1>3. ASSUME NEW f \in Folder, f # d, Live(f)', Live(d)',
             folders'[f].project = r.project, folders'[f].parent = r.parent,
             Lower[folders'[f].name] = Lower[r.name]
      PROVE  FALSE
  BY <1>1, <1>2, <1>3 DEF NameTaken, InProject, Live, Known
<1> SUFFICES ASSUME NEW f \in Folder, NEW g \in Folder, Live(f)', Live(g)',
                    folders'[f].project = folders'[g].project,
                    folders'[f].parent = folders'[g].parent,
                    Lower[folders'[f].name] = Lower[folders'[g].name],
                    f # g
             PROVE  FALSE
  BY DEF SiblingNamesDiffer
<1>4. CASE f = d
  BY <1>1, <1>3, <1>4
<1>5. CASE g = d
  BY <1>1, <1>3, <1>5
<1>6. CASE f # d /\ g # d
  BY <1>1, <1>6 DEF TreeInv, SiblingNamesDiffer, Live, Known
<1> QED
  BY <1>4, <1>5, <1>6

\* A purge takes whole trees.
LEMMA PurgeKeepsTrees ==
  ASSUME TreeInv, NEW c \in Client, NEW p \in Project, PurgeFolders(c, p)
  PROVE  TreeInv'
<1>1. \A f \in Folder : folders'[f] = IF InProject(f, p) THEN NoFolder
                                      ELSE folders[f]
  BY DEF PurgeFolders
<1>2. \A f \in Folder : Known(f)' => /\ folders'[f] = folders[f]
                                     /\ Known(f)
                                     /\ folders[f].project # p
  BY <1>1 DEF Known, InProject
<1>3. \A f \in Folder : Known(f) => folders[f].parent \in Folder \cup {Root}
  BY DEF TreeInv, FolderTypeOK, FolderRow, Known
<1>4. \A f \in Folder : Known(f) /\ folders[f].project # p =>
                          folders'[f] = folders[f]
  BY <1>1 DEF InProject
<1>5. FolderTypeOK'
  BY DEF PurgeFolders, TreeInv, FolderTypeOK
<1>6. ParentsKnown'
  BY <1>2, <1>3, <1>4 DEF TreeInv, ParentsKnown, InProject, Known
<1>7. NoFolderCycle'
  <2> SUFFICES ASSUME NEW S \in SUBSET Folder, S # {},
                      \A f \in S : Known(f)' /\ folders'[f].parent \in S
               PROVE  FALSE
    BY DEF NoFolderCycle
  <2>1. \A f \in S : Known(f) /\ folders[f].parent \in S
    BY <1>2
  <2> QED
    BY <2>1 DEF TreeInv, NoFolderCycle
<1>8. LiveFoldersHang'
  BY <1>2, <1>3, <1>4 DEF TreeInv, LiveFoldersHang, Live, Known
<1>9. SiblingNamesDiffer'
  BY <1>2 DEF TreeInv, SiblingNamesDiffer, Live
<1> QED
  BY <1>5, <1>6, <1>7, <1>8, <1>9 DEF TreeInv

\* The folders of a project are a tree whose visible part hangs together.
THEOREM FolderTree == FolderSpec => []TreeInv
<1>1. FolderInit => TreeInv
  BY DEF FolderInit, TreeInv, FolderTypeOK, ParentsKnown, NoFolderCycle,
         LiveFoldersHang, SiblingNamesDiffer, Known, Live
<1>2. TreeInv /\ [FolderNext]_<<vars, folderVars>> => TreeInv'
  <2> SUFFICES ASSUME TreeInv, [FolderNext]_<<vars, folderVars>>
               PROVE  TreeInv'
    OBVIOUS
  <2>1. ASSUME NEW r \in FolderRequest, CommitFolder(r)
        PROVE  TreeInv'
    BY <2>1, CommitFolderTypeOK, CommitFolderMakesNoCycle,
       CommitFolderKeepsHanging, CommitFolderKeepsNames DEF TreeInv
  <2>2. ASSUME NEW c \in Client, NEW p \in Project, PurgeFolders(c, p)
        PROVE  TreeInv'
    BY <2>2, PurgeKeepsTrees
  <2>3. CASE UNCHANGED folderVars
    BY <2>3 DEF folderVars, TreeInv, FolderTypeOK, ParentsKnown,
                NoFolderCycle, LiveFoldersHang, SiblingNamesDiffer, Known,
                Live, InProject
  <2> QED
    BY <2>1, <2>2, <2>3 DEF FolderNext, OtherProjectStep, DocumentStep
<1> QED
  BY <1>1, <1>2, PTL DEF FolderSpec

\* No sequence of moves, deletes and restores puts a folder inside itself.
THEOREM Acyclic == FolderSpec => []NoFolderCycle
BY FolderTree, PTL DEF TreeInv

\* A live folder is never left under a deleted one, nor in another project.
THEOREM Hanging == FolderSpec => []LiveFoldersHang
BY FolderTree, PTL DEF TreeInv

\* Live siblings can be told apart on a file system that folds case.
THEOREM DistinctNames == FolderSpec => []SiblingNamesDiffer
BY FolderTree, PTL DEF TreeInv

\* Through every create, move, rename, delete, restore, replay and purge the live
\* folders of a project stay one tree with names Windows can tell apart.
THEOREM OneTree == FolderSpec => []FoldersFormATree
BY FolderTree, PTL DEF TreeInv, FoldersFormATree

\* Both folder tables hold rows of their types.
THEOREM FolderTypes == FolderSpec => []FolderTypeOK
BY FolderTree, PTL DEF TreeInv
=============================================================================
