-------------------------- MODULE DocumentSyncProofs --------------------------
(***************************************************************************)
(* Proofs about DocumentSync, for any number of devices, any passages and  *)
(* any bounds: what the server has applied is never shown as a conflict, a *)
(* reader's file follows the ledger, and a sole writer loses nothing.      *)
(***************************************************************************)
EXTENDS DocumentSync, FiniteSetTheorems, WellFoundedInduction, TLAPS

-----------------------------------------------------------------------------
(* The invariant *)

Base(c, i) == store[c].ops[i].base

\* Version v records operation i of device c.
Records(v, c, i) == v.op = OperationOf[c, i] /\ v.revision = Base(c, i) + 1

\* Every version is the first one or records an operation of some device, and
\* the document's row repeats the last of them.
LedgerOfSaves ==
  /\ documents[d0] \in DocumentRow
  /\ \A v \in versions :
       /\ v.revision \in 1 .. Server.revision
       /\ \/ v.op = FirstOperation
          \/ \E c \in Client : \E i \in DOMAIN store[c].ops : Records(v, c, i)
  /\ \E v \in versions :
       v.revision = Server.revision /\ v.content = Server.content

\* A request that is under way carries an operation and its base.
CommitsCarryOperations ==
  \A t \in commits :
    /\ t.request.doc = d0 /\ t.request.project = TheProject
    /\ t.request.path = ThePath /\ t.request.content \in Content
    /\ t.request.deleted = FALSE
    /\ \E c \in Client : \E i \in DOMAIN store[c].ops :
         /\ t.request.op = OperationOf[c, i]
         /\ t.request.base = Base(c, i) /\ Base(c, i) # NoBase

\* Operation i of device c starts from a revision the server has left behind,
\* and can never be applied any more.
Behind(c, i) ==
  /\ Base(c, i) # NoBase /\ Base(c, i) < Server.revision
  /\ VersionOf(OperationOf[c, i]) = {}

\* Edits whose base is still to be known each take a second id when it is.
Unnamed(s) ==
  {i \in DOMAIN s.ops : s.ops[i].base = NoBase /\ Queue!Active(s.ops[i])}

IdsUsed(s) == Len(s.ops) + Cardinality(Unnamed(s))

\* What a store may say when the server has come to a revision.
Bases(s, revision) ==
  /\ s \in Queue!Store
  /\ s.rows[d0] # NoRow /\ s.rows[d0].revision \in 1 .. revision
  /\ \A i \in DOMAIN s.ops : s.ops[i].base \in (1 .. revision) \cup {NoBase}

QueuesAreBounded ==
  \A c \in Client :
    Bases(store[c], Server.revision) /\ IdsUsed(store[c]) <= 2 * MaxOps

ConflictsAreBehind ==
  \A c \in Client : \A i \in DOMAIN store[c].ops :
    store[c].ops[i].state = "conflict" => Behind(c, i)

\* The phases of a worker that has an operation, and those in which it knows
\* the server's text.
Refused == {"rejected", "fetched", "merged", "clashing"}

Carrying ==
  {"started", "acquiring", "leased", "committing", "committed", "failed"} \cup Refused

WorkerInv(c) ==
  LET w == worker[c] IN
  /\ w.phase \in Carrying \cup {"none", "rebased", "written", "conflict"}
  /\ w.phase \in Carrying =>
       /\ w.op \in DOMAIN store[c].ops
       /\ Carried(c).base # NoBase /\ Carried(c).state = "inflight"
  /\ w.phase = "none" => w = NoWorker
  /\ w.phase = "committing" =>
       /\ w.call.request.op = OperationOf[c, w.op]
       /\ w.call.request.base = Carried(c).base
  /\ w.phase = "committed" =>
       \E v \in versions : Records(v, c, w.op) /\ v.revision = w.revision
  /\ w.phase \in Refused => Behind(c, w.op)
  /\ w.phase \in Refused \ {"rejected"} =>
       w.revision \in 1 .. Server.revision /\ w.remote \in Content
  /\ w.phase \in {"merged", "rebased", "written"} => w.text \in Content
  /\ w.phase = "clashing" => w.local \in Content

\* A pulled snapshot is a version of the ledger.
Recorded(snapshot) ==
  /\ snapshot.revision \in 1 .. Server.revision /\ snapshot.content \in Content
  /\ \E v \in versions :
       v.revision = snapshot.revision /\ v.content = snapshot.content

WindowInv(c) ==
  /\ disk[c] \in Content /\ editor[c] \in Content
  /\ gui[c].task \in {"none", "save", "pull"}
  /\ gui[c].task = "none" <=> gui[c] = Free
  /\ gui[c].task = "save" => gui[c].text \in Content
  /\ gui[c].task = "pull" => pulled[c] # NoSnapshot
  /\ pulled[c] # NoSnapshot => Recorded(pulled[c])

Tables ==
  /\ DOMAIN documents = Document
  /\ DOMAIN store = Client /\ DOMAIN worker = Client /\ DOMAIN pulled = Client
  /\ DOMAIN gui = Client /\ DOMAIN disk = Client /\ DOMAIN editor = Client

SyncInv ==
  /\ Tables /\ writers \subseteq Client
  /\ LedgerOfSaves /\ CommitsCarryOperations
  /\ QueuesAreBounded /\ ConflictsAreBehind
  /\ \A c \in Client : WorkerInv(c) /\ WindowInv(c)

\* A device nobody types on has nothing to send, and its file is a version:
\* the one its row names, or the one it is pulling.
ReaderInv(c) ==
  /\ DOMAIN store[c].ops = {} /\ ~ dirty[c] /\ worker[c] = NoWorker
  /\ RowOf(c).clash = {}
  /\ gui[c].task \in {"none", "pull"}
  /\ gui[c].task = "pull" =>
       pulled[c].revision > RowOf(c).revision /\ disk[c] = pulled[c].content
  /\ \E v \in versions : v.content = disk[c] /\ v.revision >= RowOf(c).revision

ReadersInv ==
  DOMAIN dirty = Client /\ \A c \in Client \ writers : ReaderInv(c)

\* The operation that knows its base and is not finished.
Leads(s, i) == s.ops[i].base # NoBase /\ Queue!Active(s.ops[i])

Applied(c, i) == VersionOf(OperationOf[c, i]) # {}

\* In a store of c at most one operation leads, on the revision of the row; the
\* server is at that revision, or one ahead, which the leading operation made.
InOrder(s, c) ==
  /\ s.rows[d0].clash = {}
  /\ \A i \in DOMAIN s.ops :
       /\ s.ops[i].state \notin {"conflict", "blocked"}
       /\ Leads(s, i) => s.ops[i].base = s.rows[d0].revision
       /\ s.ops[i].base # NoBase => Leads(s, i) \/ Applied(c, i)
  /\ \A i, j \in DOMAIN s.ops : Leads(s, i) /\ Leads(s, j) => i = j
  /\ \/ Server.revision = s.rows[d0].revision
     \/ /\ Server.revision = s.rows[d0].revision + 1
        /\ \E i \in DOMAIN s.ops : Leads(s, i) /\ Applied(c, i)

\* The sole writer's worker is never refused, and the file is never ahead of the
\* editor, nor a pulled text ahead of the row.
SoleInv(c) ==
  /\ InOrder(store[c], c)
  /\ worker[c].phase \in (Carrying \ Refused) \cup {"none"}
  /\ gui[c].task \in {"none", "save"}
  /\ gui[c].task = "save" => disk[c] = gui[c].text
  /\ disk[c] \subseteq editor[c]
  /\ pulled[c].revision <= RowOf(c).revision

SoleWriterInv == \A c \in writers : writers = {c} => SoleInv(c)

-----------------------------------------------------------------------------
(* What the steps of the transactions do to a store of one document *)

LEMMA StoreFields ==
  ASSUME NEW s \in Queue!Store
  PROVE  /\ s.ops \in Seq(Queue!OpRow) /\ Len(s.ops) \in Nat
         /\ DOMAIN s.ops = 1 .. Len(s.ops)
         /\ \A i \in DOMAIN s.ops : s.ops[i] \in Queue!OpRow
         /\ s.rows \in [{d0} -> Queue!Row \cup {NoRow}]
BY DEF Queue!Store, d0

\* Operations I are in another state.
Moved(s, t, I, state) ==
  /\ t \in Queue!Store /\ t.rows = s.rows /\ DOMAIN t.ops = DOMAIN s.ops
  /\ \A i \in DOMAIN s.ops :
       /\ t.ops[i].base = s.ops[i].base /\ t.ops[i].text = s.ops[i].text
       /\ t.ops[i].state = IF i \in I THEN state ELSE s.ops[i].state

LEMMA SetStateEffect ==
  ASSUME NEW s \in Queue!Store, NEW I, NEW state \in Queue!State
  PROVE  Moved(s, Queue!SetState(s, I, state), I, state)
<1> DEFINE ops == [i \in DOMAIN s.ops |->
              IF i \in I THEN [s.ops[i] EXCEPT !.state = state] ELSE s.ops[i]]
           t == Queue!SetState(s, I, state)
<1>1. /\ Len(s.ops) \in Nat /\ DOMAIN s.ops = 1 .. Len(s.ops)
      /\ \A i \in DOMAIN s.ops : s.ops[i] \in Queue!OpRow
  BY StoreFields
<1>2. \A i \in DOMAIN s.ops :
        /\ ops[i] \in Queue!OpRow
        /\ ops[i].base = s.ops[i].base /\ ops[i].text = s.ops[i].text
        /\ ops[i].state = IF i \in I THEN state ELSE s.ops[i].state
  BY <1>1 DEF Queue!OpRow
<1>3. ops \in [1 .. Len(s.ops) -> Queue!OpRow]
  BY <1>1, <1>2
<1>4. ops \in Seq(Queue!OpRow) /\ DOMAIN ops = DOMAIN s.ops
  BY <1>1, <1>3
<1>5. t = [s EXCEPT !.ops = ops]
  BY DEF Queue!SetState
<1> HIDE DEF ops, t
<1>6. t = [ops |-> ops, rows |-> s.rows]
  BY <1>5 DEF Queue!Store
<1>7. t \in Queue!Store
  BY <1>4, <1>6 DEF Queue!Store
<1>8. Moved(s, t, I, state)
  BY <1>2, <1>4, <1>6, <1>7 DEF Moved
<1> QED BY <1>8 DEF t
\* Operation n is new.
Added(s, t, n, base, text) ==
  /\ t \in Queue!Store /\ n = Len(s.ops) + 1
  /\ DOMAIN t.ops = 1 .. n /\ Len(t.ops) = n
  /\ \A i \in DOMAIN s.ops : t.ops[i] = s.ops[i]
  /\ t.ops[n].base = base /\ t.ops[n].text = text /\ t.ops[n].state = "pending"

LEMMA InsertEffect ==
  ASSUME NEW s \in Queue!Store, NEW base \in Nat \cup {NoBase},
         NEW from \in Content, NEW text \in Content
  PROVE  /\ Queue!Insert(s, d0, base, from, text).rows = s.rows
         /\ Added(s, Queue!Insert(s, d0, base, from, text), Len(s.ops) + 1, base, text)
<1> DEFINE o == [doc |-> d0, base |-> base, from |-> from, text |-> text, state |-> "pending"]
           t == Queue!Insert(s, d0, base, from, text)
           n == Len(s.ops) + 1
<1>1. /\ o \in Queue!OpRow
      /\ o.base = base /\ o.text = text /\ o.state = "pending"
  BY DEF Queue!OpRow, Queue!State, d0
<1>2. s.ops \in Seq(Queue!OpRow) /\ Len(s.ops) \in Nat /\ DOMAIN s.ops = 1 .. Len(s.ops)
  BY StoreFields
<1>3. t = [s EXCEPT !.ops = Append(s.ops, o)]
  BY Zenon DEF Queue!Insert
<1> HIDE DEF o, t
<1>4. t = [ops |-> Append(s.ops, o), rows |-> s.rows]
  BY <1>3 DEF Queue!Store
<1>5. /\ Append(s.ops, o) \in Seq(Queue!OpRow) /\ Len(Append(s.ops, o)) = n
      /\ \A i \in DOMAIN s.ops : Append(s.ops, o)[i] = s.ops[i]
      /\ Append(s.ops, o)[n] = o
  BY <1>1, <1>2
<1>6. t \in Queue!Store
  BY <1>4, <1>5 DEF Queue!Store
<1>7. DOMAIN t.ops = 1 .. n /\ Len(t.ops) = n
  BY <1>4, <1>5
<1>8. Added(s, t, n, base, text)
  BY <1>1, <1>4, <1>5, <1>6, <1>7 DEF Added
<1>9. t.rows = s.rows
  BY <1>4
<1> QED BY <1>8, <1>9, Zenon DEF t

\* The row of document d0 is now row; the operations are the same.
RowSet(s, t, row) ==
  t \in Queue!Store /\ t.ops = s.ops /\ t.rows[d0] = row /\ row # NoRow

LEMMA SetRowEffect ==
  ASSUME NEW s \in Queue!Store, NEW row \in Queue!Row
  PROVE  RowSet(s, Queue!SetRow(s, d0, row), row)
<1>1. Queue!SetRow(s, d0, row) = [ops |-> s.ops, rows |-> [s.rows EXCEPT ![d0] = row]]
  BY DEF Queue!SetRow, Queue!Store
<1>2. s.ops \in Seq(Queue!OpRow) /\ s.rows \in [{d0} -> Queue!Row \cup {NoRow}]
  BY StoreFields
<1>3. /\ [s.rows EXCEPT ![d0] = row] \in [{d0} -> Queue!Row \cup {NoRow}]
      /\ [s.rows EXCEPT ![d0] = row][d0] = row
  BY <1>2
<1> QED BY <1>1, <1>2, <1>3, SyncAssumption DEF Queue!Store, d0, RowSet

\* The operations are the same, and the row says this.
Says(s, t, revision, clash) ==
  /\ t \in Queue!Store /\ t.ops = s.ops /\ t.rows[d0] # NoRow
  /\ t.rows[d0].revision = revision /\ t.rows[d0].clash = clash

LEMMA SetBaseEffect ==
  ASSUME NEW s \in Queue!Store, s.rows[d0] # NoRow, NEW revision \in Nat,
         NEW base \in Content, NEW sync \in {"synced", "pending", "conflict"}
  PROVE  Says(s, Queue!SetBase(s, d0, revision, base, sync), revision, s.rows[d0].clash)
<1> DEFINE row == [s.rows[d0] EXCEPT !.revision = revision, !.base = base, !.sync = sync]
<1>1. s.rows[d0] \in Queue!Row
  BY StoreFields
<1>2. row \in Queue!Row /\ row.revision = revision /\ row.clash = s.rows[d0].clash
  BY <1>1 DEF Queue!Row
<1>3. Queue!SetBase(s, d0, revision, base, sync) = Queue!SetRow(s, d0, row)
  BY Zenon DEF Queue!SetBase
<1> HIDE DEF row
<1>4. RowSet(s, Queue!SetRow(s, d0, row), row)
  BY <1>2, SetRowEffect
<1> QED BY <1>2, <1>3, <1>4 DEF RowSet, Says

LEMMA SetSyncEffect ==
  ASSUME NEW s \in Queue!Store, s.rows[d0] # NoRow,
         NEW sync \in {"synced", "pending", "conflict"}
  PROVE  Says(s, Queue!SetSync(s, d0, sync), s.rows[d0].revision, s.rows[d0].clash)
<1> DEFINE row == [s.rows[d0] EXCEPT !.sync = sync]
<1>1. s.rows[d0] \in Queue!Row
  BY StoreFields
<1>2. /\ row \in Queue!Row /\ row.revision = s.rows[d0].revision
      /\ row.clash = s.rows[d0].clash
  BY <1>1 DEF Queue!Row
<1>3. Queue!SetSync(s, d0, sync) = Queue!SetRow(s, d0, row)
  BY Zenon DEF Queue!SetSync
<1> HIDE DEF row
<1>4. RowSet(s, Queue!SetRow(s, d0, row), row)
  BY <1>2, SetRowEffect
<1> QED BY <1>2, <1>3, <1>4 DEF RowSet, Says

LEMMA CleanRowEffect ==
  ASSUME NEW s \in Queue!Store, NEW revision \in Nat, NEW remote \in Content
  PROVE  Says(s, Queue!ApplyRemoteSnapshot(s, d0, revision, remote), revision, {})
<1> DEFINE row == Queue!CleanRow(revision, remote)
<1>1. row \in Queue!Row /\ row.revision = revision /\ row.clash = {}
  BY DEF Queue!Row, Queue!CleanRow
<1>2. Queue!ApplyRemoteSnapshot(s, d0, revision, remote) = Queue!SetRow(s, d0, row)
  BY Zenon DEF Queue!ApplyRemoteSnapshot
<1> HIDE DEF row
<1>3. RowSet(s, Queue!SetRow(s, d0, row), row)
  BY <1>1, SetRowEffect
<1> QED BY <1>1, <1>2, <1>3 DEF RowSet, Says

\* Every non-empty set of numbers has a first one.
LEMMA LeastExists ==
  ASSUME NEW I \in SUBSET Nat, I # {}
  PROVE  \E i \in I : \A j \in I : i <= j
<1> DEFINE less == OpToRel(<, Nat)
<1>1. IsWellFoundedOn(less, Nat)
  BY NatLessThanWellFounded
<1>2. \A i, j \in Nat : j < i => <<j, i>> \in less
  BY DEF OpToRel
<1> HIDE DEF less
<1>3. PICK i \in I : \A j \in I : ~ (<<j, i>> \in less)
  BY <1>1, WFMin, Zenon
<1>4. \A j \in I : ~ (j < i)
  BY <1>2, <1>3, Zenon
<1> QED BY <1>4

LEMMA FirstIsOne ==
  ASSUME NEW I \in SUBSET Nat, I # {}
  PROVE  Queue!First(I) \in I
BY LeastExists DEF Queue!First

LEMMA LastIsOne ==
  ASSUME NEW n \in Nat, NEW I \in SUBSET (1 .. n), I # {}
  PROVE  Queue!Last(I) \in I
<1> DEFINE left == {n - i : i \in I}
<1>1. left \in SUBSET Nat /\ left # {}
  <2>1. \A i \in I : n - i \in Nat
    OBVIOUS
  <2> QED BY <2>1
<1>2. PICK k \in left : \A j \in left : k <= j
  BY <1>1, LeastExists
<1>3. PICK i \in I : k = n - i
  OBVIOUS
<1>4. \A j \in I : n - i <= n - j
  BY <1>2, <1>3
<1>5. \A a, b \in 1 .. n : n - a <= n - b => b <= a
  OBVIOUS
<1> HIDE DEF left
<1>6. \A j \in I : j <= i
  BY <1>4, <1>5
<1> QED BY <1>6 DEF Queue!Last

-----------------------------------------------------------------------------
(* What the transactions do *)

\* All operations are of the one document.
LEMMA OneDocument ==
  ASSUME NEW s \in Queue!Store
  PROVE  Queue!OpsOf(s, d0) = DOMAIN s.ops
<1>1. \A i \in DOMAIN s.ops : s.ops[i].doc = d0
  BY StoreFields DEF Queue!OpRow, d0
<1> QED BY <1>1 DEF Queue!OpsOf

\* The edits that wait for an earlier one.
Dependent(s, i) == s.ops[i].base = NoBase /\ Queue!Ready(s.ops[i])

LEMMA DependentsAre ==
  ASSUME NEW s \in Queue!Store
  PROVE  /\ Queue!DependentsOf(s, d0) = {i \in DOMAIN s.ops : Dependent(s, i)}
         /\ Queue!WaitingOf(s, d0) = {i \in DOMAIN s.ops : Queue!Waiting(s.ops[i])}
         /\ Queue!ActiveOf(s, d0) = {i \in DOMAIN s.ops : Queue!Active(s.ops[i])}
BY OneDocument DEF Queue!DependentsOf, Queue!WaitingOf, Queue!ActiveOf, Dependent

\* Operation k, which did not know its base, is issued anew on one.
Reissued(s, t, k, base) ==
  /\ t \in Queue!Store /\ t.rows = s.rows
  /\ k \in DOMAIN s.ops /\ Dependent(s, k)
  /\ Len(t.ops) = Len(s.ops) + 1 /\ DOMAIN t.ops = DOMAIN s.ops \cup {Len(s.ops) + 1}
  /\ t.ops[Len(s.ops) + 1].base = base /\ t.ops[Len(s.ops) + 1].state = "pending"
  /\ \A i \in DOMAIN s.ops :
       /\ t.ops[i].base = s.ops[i].base
       /\ t.ops[i].state = IF i = k THEN "cancelled" ELSE s.ops[i].state

LEMMA ReissueEffect ==
  ASSUME NEW s \in Queue!Store, NEW base \in Nat, NEW from \in Content,
         Queue!DependentsOf(s, d0) # {}
  PROVE  \E k : Reissued(s, Queue!Promote(s, d0, base, from), k, base)
<1> DEFINE k == Queue!First(Queue!DependentsOf(s, d0))
           u == Queue!Insert(s, d0, base, from, s.ops[k].text)
           n == Len(s.ops) + 1
           one == {k}
           t == Queue!SetState(u, one, "cancelled")
<1>1. Len(s.ops) \in Nat /\ DOMAIN s.ops = 1 .. Len(s.ops)
  BY StoreFields
<1>2. Queue!DependentsOf(s, d0) \in SUBSET Nat
  BY <1>1, DependentsAre
<1>3. k \in Queue!DependentsOf(s, d0)
  BY <1>2, FirstIsOne
<1>4. k \in DOMAIN s.ops /\ Dependent(s, k)
  BY <1>3, DependentsAre
<1>5. s.ops[k].text \in Content
  BY <1>4, StoreFields DEF Queue!OpRow
<1>6. Queue!Promote(s, d0, base, from) = t
  BY Zenon DEF Queue!Promote, Queue!Reissue
<1>7. \A i : i \in one <=> i = k
  OBVIOUS
<1> HIDE DEF k, one
<1>8. u.rows = s.rows /\ Added(s, u, n, base, s.ops[k].text)
  BY <1>5, InsertEffect
<1> HIDE DEF u
<1>9. u \in Queue!Store
  BY <1>8 DEF Added
<1>10. "cancelled" \in Queue!State
  BY DEF Queue!State
<1>11. Moved(u, t, one, "cancelled")
  BY <1>9, <1>10, SetStateEffect
<1> HIDE DEF t
<1>12. t \in Queue!Store /\ t.rows = s.rows /\ DOMAIN t.ops = 1 .. n
  BY <1>8, <1>11 DEF Moved, Added
<1>13. Len(t.ops) = n
  BY <1>12, <1>1, StoreFields
<1>14. \A i \in DOMAIN s.ops :
         /\ t.ops[i].base = s.ops[i].base
         /\ t.ops[i].state = IF i = k THEN "cancelled" ELSE s.ops[i].state
  BY <1>1, <1>7, <1>8, <1>11 DEF Moved, Added
<1>15. t.ops[n].base = base /\ t.ops[n].state = "pending"
  BY <1>1, <1>4, <1>7, <1>8, <1>11 DEF Moved, Added
<1>16. Reissued(s, t, k, base)
  BY <1>1, <1>4, <1>12, <1>13, <1>14, <1>15 DEF Reissued
<1> QED BY <1>6, <1>16
\* The operations are the same but for those of I.
Turned(s, t, I, state) ==
  /\ t \in Queue!Store /\ DOMAIN t.ops = DOMAIN s.ops
  /\ \A i \in DOMAIN s.ops :
       /\ t.ops[i].base = s.ops[i].base
       /\ t.ops[i].state = IF i \in I THEN state ELSE s.ops[i].state

\* What the row says of the server, and of a conflict.
RowSays(t, revision, clash) ==
  /\ t.rows[d0] # NoRow
  /\ t.rows[d0].revision = revision /\ t.rows[d0].clash = clash

\* The answered operation is completed on the server's revision, and the oldest
\* edit that waited for it is issued.
LEMMA SuccessEffect ==
  ASSUME NEW s \in Queue!Store, s.rows[d0] # NoRow, NEW i \in DOMAIN s.ops,
         s.ops[i].state # "completed", NEW revision \in Nat
  PROVE  \E u : /\ Turned(s, u, {i}, "completed")
                /\ RowSays(u, revision, s.rows[d0].clash)
                /\ \/ Queue!MarkSuccess(s, i, revision) = u
                   \/ \E k : Reissued(u, Queue!MarkSuccess(s, i, revision), k, revision)
<1> DEFINE one == {i}
           x == Queue!SetState(s, one, "completed")
           text == s.ops[i].text
           sync == IF Queue!HasActive(x, d0) THEN "pending" ELSE "synced"
           u == Queue!SetBase(x, d0, revision, text, sync)
<1>1. s.ops[i].doc = d0 /\ text \in Content
  BY StoreFields DEF Queue!OpRow, d0
<1>2. Queue!MarkSuccess(s, i, revision) = Queue!Promote(u, d0, revision, text)
  BY <1>1, Zenon DEF Queue!MarkSuccess, Queue!AcceptedText
<1>3. "completed" \in Queue!State
  BY DEF Queue!State
<1>4. sync \in {"synced", "pending", "conflict"}
  OBVIOUS
<1> HIDE DEF one, text, sync
<1>5. Moved(s, x, one, "completed")
  BY <1>3, SetStateEffect
<1> HIDE DEF x
<1>6. x \in Queue!Store /\ x.rows = s.rows
  BY <1>5 DEF Moved
<1>7. Says(x, u, revision, s.rows[d0].clash)
  BY <1>1, <1>4, <1>6, SetBaseEffect
<1> HIDE DEF u
<1>8. Turned(s, u, one, "completed")
  BY <1>5, <1>7 DEF Moved, Says, Turned
<1>9. RowSays(u, revision, s.rows[d0].clash)
  BY <1>7 DEF Says, RowSays
<1>10. \/ Queue!Promote(u, d0, revision, text) = u
       \/ \E k : Reissued(u, Queue!Promote(u, d0, revision, text), k, revision)
  <2>1. u \in Queue!Store
    BY <1>7 DEF Says
  <2>2. CASE Queue!DependentsOf(u, d0) = {}
    BY <2>2, Zenon DEF Queue!Promote
  <2>3. CASE Queue!DependentsOf(u, d0) # {}
    BY <1>1, <2>1, <2>3, ReissueEffect
  <2> QED BY <2>2, <2>3
<1> QED BY <1>2, <1>8, <1>9, <1>10, Zenon DEF one

LEMMA RetryEffect ==
  ASSUME NEW s \in Queue!Store, s.rows[d0] # NoRow, NEW i \in DOMAIN s.ops,
         s.ops[i].state = "inflight"
  PROVE  /\ Turned(s, Queue!MarkRetry(s, i), {i}, "retry_wait")
         /\ RowSays(Queue!MarkRetry(s, i), s.rows[d0].revision, s.rows[d0].clash)
<1> DEFINE one == {i}
           x == Queue!SetState(s, one, "retry_wait")
           t == Queue!SetSync(x, d0, "pending")
<1>1. s.ops[i].doc = d0
  BY StoreFields DEF Queue!OpRow, d0
<1>2. s.ops[i].state \notin Queue!TerminalStates \cup {"retry_wait"}
  BY DEF Queue!TerminalStates
<1>3. Queue!MarkRetry(s, i) = t
  BY <1>1, <1>2, Zenon DEF Queue!MarkRetry
<1>4. "retry_wait" \in Queue!State
  BY DEF Queue!State
<1> HIDE DEF one
<1>5. Moved(s, x, one, "retry_wait")
  BY <1>4, SetStateEffect
<1> HIDE DEF x
<1>6. x \in Queue!Store /\ x.rows = s.rows
  BY <1>5 DEF Moved
<1>7. Says(x, t, s.rows[d0].revision, s.rows[d0].clash)
  BY <1>6, SetSyncEffect
<1> HIDE DEF t
<1>8. Turned(s, t, one, "retry_wait")
  BY <1>5, <1>7 DEF Moved, Says, Turned
<1>9. RowSays(t, s.rows[d0].revision, s.rows[d0].clash)
  BY <1>7 DEF Says, RowSays
<1> QED BY <1>3, <1>8, <1>9 DEF one

LEMMA AttemptEffect ==
  ASSUME NEW s \in Queue!Store, NEW i
  PROVE  /\ Turned(s, Queue!MarkAttempt(s, i), {i}, "inflight")
         /\ Queue!MarkAttempt(s, i).rows = s.rows
<1> DEFINE one == {i}
           t == Queue!SetState(s, one, "inflight")
<1>1. Queue!MarkAttempt(s, i) = t
  BY Zenon DEF Queue!MarkAttempt
<1>2. "inflight" \in Queue!State
  BY DEF Queue!State
<1> HIDE DEF one
<1>3. Moved(s, t, one, "inflight")
  BY <1>2, SetStateEffect
<1> HIDE DEF t
<1>4. Turned(s, t, one, "inflight") /\ t.rows = s.rows
  BY <1>3 DEF Moved, Turned
<1> QED BY <1>1, <1>4 DEF one

InFlight(s) == {i \in DOMAIN s.ops : s.ops[i].state = "inflight"}

LEMMA RestartEffect ==
  ASSUME NEW s \in Queue!Store
  PROVE  /\ Turned(s, Queue!RecoverInterruptedDispatches(s), InFlight(s), "retry_wait")
         /\ Queue!RecoverInterruptedDispatches(s).rows = s.rows
<1> DEFINE t == Queue!SetState(s, InFlight(s), "retry_wait")
<1>1. Queue!RecoverInterruptedDispatches(s) = t
  BY Zenon DEF Queue!RecoverInterruptedDispatches, InFlight
<1>2. "retry_wait" \in Queue!State
  BY DEF Queue!State
<1>3. Moved(s, t, InFlight(s), "retry_wait")
  BY <1>2, SetStateEffect
<1> HIDE DEF t
<1>4. Turned(s, t, InFlight(s), "retry_wait") /\ t.rows = s.rows
  BY <1>3 DEF Moved, Turned
<1> QED BY <1>1, <1>4
LEMMA StrandedEffect ==
  ASSUME NEW s \in Queue!Store, s.rows[d0] # NoRow
  PROVE  \/ Queue!RecoverStranded(s, d0) = s
         \/ /\ \A i \in DOMAIN s.ops : Queue!Waiting(s.ops[i]) => s.ops[i].base = NoBase
            /\ \E k : Reissued(s, Queue!RecoverStranded(s, d0), k, s.rows[d0].revision)
<1>1. s.rows[d0].revision \in Nat /\ s.rows[d0].base \in Content
  BY StoreFields DEF Queue!Row
<1>2. CASE ~ Queue!Stranded(s, d0)
  BY <1>2, Zenon DEF Queue!RecoverStranded
<1>3. CASE Queue!Stranded(s, d0)
  <2>1. Queue!DependentsOf(s, d0) # {}
    BY <1>3, Zenon DEF Queue!Stranded
  <2>2. Queue!RecoverStranded(s, d0)
          = Queue!Promote(s, d0, s.rows[d0].revision, s.rows[d0].base)
    BY <1>3, Zenon DEF Queue!RecoverStranded
  <2>3. \A i \in Queue!WaitingOf(s, d0) : s.ops[i].base = NoBase
    BY <1>3, Zenon DEF Queue!Stranded
  <2>4. \A i \in DOMAIN s.ops : Queue!Waiting(s.ops[i]) => s.ops[i].base = NoBase
    BY <2>3, DependentsAre
  <2> QED BY <1>1, <2>1, <2>2, <2>4, ReissueEffect
<1> QED BY <1>2, <1>3

\* One more operation; the others are the same.
Grown(s, t, base) ==
  /\ t \in Queue!Store
  /\ Len(t.ops) = Len(s.ops) + 1 /\ DOMAIN t.ops = DOMAIN s.ops \cup {Len(s.ops) + 1}
  /\ t.ops[Len(s.ops) + 1].base = base /\ t.ops[Len(s.ops) + 1].state = "pending"
  /\ \A i \in DOMAIN s.ops :
       t.ops[i].base = s.ops[i].base /\ t.ops[i].state = s.ops[i].state

LEMMA InsertGrows ==
  ASSUME NEW s \in Queue!Store, NEW base \in Nat \cup {NoBase},
         NEW from \in Content, NEW text \in Content
  PROVE  /\ Grown(s, Queue!Insert(s, d0, base, from, text), base)
         /\ Queue!Insert(s, d0, base, from, text).rows = s.rows
<1> DEFINE t == Queue!Insert(s, d0, base, from, text)
<1>1. t.rows = s.rows /\ Added(s, t, Len(s.ops) + 1, base, text)
  BY InsertEffect
<1> HIDE DEF t
<1>2. Len(s.ops) \in Nat /\ DOMAIN s.ops = 1 .. Len(s.ops)
  BY StoreFields
<1>3. Grown(s, t, base)
  BY <1>1, <1>2 DEF Added, Grown
<1> QED BY <1>1, <1>3 DEF t

LEMMA InsertSaveEffect ==
  ASSUME NEW s \in Queue!Store, s.rows[d0] # NoRow, NEW base \in Nat \cup {NoBase},
         NEW from \in Content, NEW text \in Content
  PROVE  /\ Grown(s, Queue!InsertSave(s, d0, base, from, text), base)
         /\ RowSays(Queue!InsertSave(s, d0, base, from, text), s.rows[d0].revision, {})
<1> DEFINE x == Queue!Insert(s, d0, base, from, text)
           row == [x.rows[d0] EXCEPT !.sync = "pending", !.clash = {}]
           t == Queue!SetRow(x, d0, row)
<1>1. x.rows = s.rows /\ Grown(s, x, base)
  BY InsertGrows
<1>2. Queue!InsertSave(s, d0, base, from, text) = t
  BY Zenon DEF Queue!InsertSave
<1> HIDE DEF x
<1>3. x \in Queue!Store /\ x.rows[d0] \in Queue!Row
  BY <1>1, StoreFields DEF Grown
<1>4. row \in Queue!Row /\ row.revision = s.rows[d0].revision /\ row.clash = {}
  BY <1>1, <1>3 DEF Queue!Row
<1> HIDE DEF row
<1>5. RowSet(x, t, row)
  BY <1>3, <1>4, SetRowEffect
<1> HIDE DEF t
<1>6. Grown(s, t, base)
  BY <1>1, <1>5 DEF Grown, RowSet
<1>7. RowSays(t, s.rows[d0].revision, {})
  BY <1>4, <1>5 DEF RowSays, RowSet
<1> QED BY <1>2, <1>6, <1>7

Stopped(s) == {i \in DOMAIN s.ops : s.ops[i].state \in {"conflict", "blocked"}}

\* A save after the operations that stopped were cancelled.
SavedOn(s, u, t) ==
  \/ t = u
  \/ \E base \in Nat \cup {NoBase} :
       /\ Grown(u, t, base) /\ RowSays(t, s.rows[d0].revision, {})
       /\ base # NoBase => /\ base = s.rows[d0].revision
                           /\ \A i \in DOMAIN s.ops : ~ Queue!Waiting(s.ops[i])

LEMMA EnqueueEffect ==
  ASSUME NEW s \in Queue!Store, s.rows[d0] # NoRow, NEW text \in Content
  PROVE  \E u : /\ Turned(s, u, Stopped(s), "cancelled") /\ u.rows = s.rows
                /\ SavedOn(s, u, Queue!Enqueue(s, d0, text))
<1> DEFINE u == Queue!SetState(s, Stopped(s), "cancelled")
           waiting == Queue!WaitingOf(s, d0)
           revision == u.rows[d0].revision
           base == u.rows[d0].base
           first == Queue!InsertSave(u, d0, revision, base, text)
           last == s.ops[Queue!Last(waiting)].text
           next == Queue!InsertSave(u, d0, NoBase, last, text)
<1>1. Stopped(s) = {i \in Queue!OpsOf(s, d0) : s.ops[i].state \in {"conflict", "blocked"}}
  BY OneDocument DEF Stopped
<1>2. Queue!EnsureDocument(s, d0, text) = s
  BY DEF Queue!EnsureDocument
<1>3. Queue!Enqueue(s, d0, text)
        = IF waiting = {} THEN first ELSE IF last = text THEN u ELSE next
  BY <1>1, <1>2, Zenon DEF Queue!Enqueue
<1>4. "cancelled" \in Queue!State
  BY DEF Queue!State
<1>5. Moved(s, u, Stopped(s), "cancelled")
  BY <1>4, SetStateEffect
<1> HIDE DEF u
<1>6. u \in Queue!Store /\ u.rows = s.rows
  BY <1>5 DEF Moved
<1>7. Turned(s, u, Stopped(s), "cancelled")
  BY <1>5 DEF Moved, Turned
<1>8. revision = s.rows[d0].revision /\ revision \in Nat /\ base \in Content
  BY <1>6, StoreFields DEF Queue!Row
<1>9. waiting = {i \in DOMAIN s.ops : Queue!Waiting(s.ops[i])}
  BY DependentsAre
<1> HIDE DEF waiting, revision, base
<1>10. CASE waiting = {}
  <2>1. Grown(u, first, revision) /\ RowSays(first, s.rows[d0].revision, {})
    BY <1>6, <1>8, InsertSaveEffect
  <2>2. \A i \in DOMAIN s.ops : ~ Queue!Waiting(s.ops[i])
    BY <1>9, <1>10
  <2>3. Queue!Enqueue(s, d0, text) = first
    BY <1>3, <1>10, Zenon
  <2> HIDE DEF first
  <2>4. SavedOn(s, u, first)
    BY <1>8, <2>1, <2>2 DEF SavedOn
  <2> QED BY <1>6, <1>7, <2>3, <2>4
<1>11. CASE waiting # {}
  <2>1. last \in Content
    <3>1. Len(s.ops) \in Nat /\ waiting \in SUBSET (1 .. Len(s.ops))
      BY <1>9, StoreFields
    <3>2. Queue!Last(waiting) \in waiting
      BY <1>11, <3>1, LastIsOne
    <3>3. Queue!Last(waiting) \in DOMAIN s.ops
      BY <1>9, <3>2
    <3> QED BY <3>3, StoreFields DEF Queue!OpRow
  <2> HIDE DEF last
  <2>2. Grown(u, next, NoBase) /\ RowSays(next, s.rows[d0].revision, {})
    BY <1>6, <2>1, InsertSaveEffect
  <2>3. Queue!Enqueue(s, d0, text) \in {u, next}
    BY <1>3, <1>11, Zenon
  <2> HIDE DEF next
  <2>4. SavedOn(s, u, u) /\ SavedOn(s, u, next)
    BY <2>2 DEF SavedOn
  <2> QED BY <1>6, <1>7, <2>3, <2>4
<1> QED BY <1>10, <1>11
\* The merged text is queued on the server's revision, and everything that was
\* queued before it is cancelled.
LEMMA RebaseEffect ==
  ASSUME NEW s \in Queue!Store, s.rows[d0] # NoRow, NEW i \in DOMAIN s.ops,
         NEW revision \in Nat, NEW remote \in Content, NEW merged \in Content
  PROVE  \E u : /\ Grown(s, u, revision)
                /\ Turned(u, Queue!RebaseCleanMerge(s, i, revision, remote, merged),
                          Queue!ActiveOf(s, d0), "cancelled")
                /\ RowSays(Queue!RebaseCleanMerge(s, i, revision, remote, merged),
                           revision, s.rows[d0].clash)
<1> DEFINE u == Queue!Insert(s, d0, revision, remote, merged)
           active == Queue!ActiveOf(s, d0)
           x == Queue!SetState(u, active, "cancelled")
           t == Queue!SetBase(x, d0, revision, remote, "pending")
<1>1. s.ops[i].doc = d0
  BY StoreFields DEF Queue!OpRow, d0
<1>2. Queue!RebaseCleanMerge(s, i, revision, remote, merged) = t
  BY <1>1, Zenon DEF Queue!RebaseCleanMerge
<1>3. Grown(s, u, revision) /\ u.rows = s.rows
  BY InsertGrows
<1> HIDE DEF u, active
<1>4. u \in Queue!Store
  BY <1>3 DEF Grown
<1>5. "cancelled" \in Queue!State
  BY DEF Queue!State
<1>6. Moved(u, x, active, "cancelled")
  BY <1>4, <1>5, SetStateEffect
<1> HIDE DEF x
<1>7. x \in Queue!Store /\ x.rows = s.rows
  BY <1>3, <1>6 DEF Moved
<1>8. Says(x, t, revision, s.rows[d0].clash)
  BY <1>7, SetBaseEffect
<1> HIDE DEF t
<1>9. Turned(u, t, active, "cancelled")
  BY <1>6, <1>8 DEF Moved, Says, Turned
<1>10. RowSays(t, revision, s.rows[d0].clash)
  BY <1>8 DEF Says, RowSays
<1> QED BY <1>2, <1>3, <1>9, <1>10, Zenon DEF active

\* The operation stops at a conflict, and what waits behind it stops too.
LEMMA ConflictEffect ==
  ASSUME NEW s \in Queue!Store, NEW i \in DOMAIN s.ops,
         NEW revision \in Nat, NEW remote \in Content, NEW local \in Content
  PROVE  \E u : /\ Turned(s, u, Queue!WaitingOf(s, d0) \ {i}, "blocked")
                /\ Turned(u, Queue!MarkConflict(s, i, revision, remote, local),
                          {i}, "conflict")
                /\ RowSays(Queue!MarkConflict(s, i, revision, remote, local),
                           revision, {local, remote})
<1> DEFINE one == {i}
           behind == Queue!WaitingOf(s, d0) \ {i}
           u == Queue!SetState(s, behind, "blocked")
           x == Queue!SetState(u, one, "conflict")
           texts == {local, remote}
           row == [revision |-> revision, base |-> remote, sync |-> "conflict",
                   clash |-> texts]
           t == Queue!SetRow(x, d0, row)
<1>1. s.ops[i].doc = d0
  BY StoreFields DEF Queue!OpRow, d0
<1>2. Queue!MarkConflict(s, i, revision, remote, local) = t
  BY <1>1, Zenon DEF Queue!MarkConflict
<1>3. texts \in SUBSET Content
  OBVIOUS
<1> HIDE DEF one, behind, texts
<1>4. row \in Queue!Row /\ row.revision = revision /\ row.clash = texts
  BY <1>3 DEF Queue!Row
<1> HIDE DEF row
<1>5. "blocked" \in Queue!State /\ "conflict" \in Queue!State
  BY DEF Queue!State
<1>6. Moved(s, u, behind, "blocked")
  BY <1>5, SetStateEffect
<1> HIDE DEF u
<1>7. u \in Queue!Store
  BY <1>6 DEF Moved
<1>8. Moved(u, x, one, "conflict")
  BY <1>5, <1>7, SetStateEffect
<1> HIDE DEF x
<1>9. x \in Queue!Store
  BY <1>8 DEF Moved
<1>10. RowSet(x, t, row)
  BY <1>4, <1>9, SetRowEffect
<1> HIDE DEF t
<1>11. Turned(s, u, behind, "blocked")
  BY <1>6 DEF Moved, Turned
<1>12. Turned(u, t, one, "conflict")
  BY <1>8, <1>10 DEF Moved, RowSet, Turned
<1>13. RowSays(t, revision, texts)
  BY <1>4, <1>10 DEF RowSet, RowSays
<1> QED BY <1>2, <1>11, <1>12, <1>13, Zenon DEF one, behind, texts

-----------------------------------------------------------------------------
(* What a transaction may do to a device's store *)

\* No save is forgotten, no base is changed or unknown to the server, and only
\* the operations of X come to a conflict.
Evolves(s, t, revision, X) ==
  /\ Bases(t, revision)
  /\ DOMAIN s.ops \subseteq DOMAIN t.ops
  /\ \A i \in DOMAIN s.ops : t.ops[i].base = s.ops[i].base
  /\ \A i \in DOMAIN t.ops : t.ops[i].state = "conflict" =>
       i \in X \/ (i \in DOMAIN s.ops /\ s.ops[i].state = "conflict")

LEMMA EvolvesOnce ==
  ASSUME NEW s, NEW revision, Bases(s, revision), NEW X
  PROVE  Evolves(s, s, revision, X)
BY DEF Evolves

LEMMA EvolvesTwice ==
  ASSUME NEW s, NEW u, NEW t, NEW revision, NEW X,
         Evolves(s, u, revision, X), Evolves(u, t, revision, X)
  PROVE  Evolves(s, t, revision, X)
BY DEF Evolves

LEMMA TurnedEvolves ==
  ASSUME NEW s, NEW t, NEW revision, NEW I, NEW state, NEW X, Turned(s, t, I, state),
         state = "conflict" => I \subseteq X, Bases(s, revision),
         t.rows[d0] # NoRow, t.rows[d0].revision \in 1 .. revision
  PROVE  Evolves(s, t, revision, X)
BY DEF Turned, Evolves, Bases

LEMMA GrownEvolves ==
  ASSUME NEW s, NEW t, NEW revision, NEW base \in (1 .. revision) \cup {NoBase}, NEW X,
         Grown(s, t, base), Bases(s, revision),
         t.rows[d0] # NoRow, t.rows[d0].revision \in 1 .. revision
  PROVE  Evolves(s, t, revision, X)
BY DEF Grown, Evolves, Bases

LEMMA ReissuedEvolves ==
  ASSUME NEW s, NEW t, NEW revision, NEW k, NEW base \in 1 .. revision, NEW X,
         Reissued(s, t, k, base), Bases(s, revision)
  PROVE  Evolves(s, t, revision, X)
BY DEF Reissued, Evolves, Bases
-----------------------------------------------------------------------------
(* The ids a device may need *)

LEMMA UnnamedAreFew ==
  ASSUME NEW s \in Queue!Store
  PROVE  /\ IsFiniteSet(Unnamed(s)) /\ Cardinality(Unnamed(s)) \in Nat
         /\ Cardinality(Unnamed(s)) <= Len(s.ops)
<1>1. Len(s.ops) \in Nat /\ DOMAIN s.ops = 1 .. Len(s.ops)
  BY StoreFields
<1>2. /\ IsFiniteSet(1 .. Len(s.ops))
      /\ Cardinality(1 .. Len(s.ops)) = Len(s.ops)
  BY <1>1, FS_Interval, SMT
<1>3. Unnamed(s) \subseteq 1 .. Len(s.ops)
  BY <1>1 DEF Unnamed
<1>4. /\ IsFiniteSet(Unnamed(s))
      /\ Cardinality(Unnamed(s)) <= Cardinality(1 .. Len(s.ops))
  BY <1>2, <1>3, FS_Subset
<1>5. Cardinality(Unnamed(s)) \in Nat
  BY <1>4, FS_CardinalityType
<1> QED BY <1>2, <1>4, <1>5

\* The saves and merges themselves leave room ...
LEMMA RoomForShort ==
  ASSUME NEW s \in Queue!Store, Len(s.ops) <= MaxOps
  PROVE  IdsUsed(s) <= 2 * MaxOps
<1>1. Len(s.ops) \in Nat /\ MaxOps \in Nat
  BY StoreFields, SyncAssumption
<1> QED BY <1>1, UnnamedAreFew DEF IdsUsed

\* ... and no other step needs more than there is.
LEMMA RoomIsKept ==
  ASSUME NEW s \in Queue!Store, NEW t \in Queue!Store, Len(t.ops) = Len(s.ops),
         Unnamed(t) \subseteq Unnamed(s)
  PROVE  IdsUsed(t) <= IdsUsed(s)
<1>1. IsFiniteSet(Unnamed(s)) /\ Cardinality(Unnamed(s)) \in Nat
  BY UnnamedAreFew
<1>2. Cardinality(Unnamed(t)) <= Cardinality(Unnamed(s))
  BY <1>1, FS_Subset
<1>3. Cardinality(Unnamed(t)) \in Nat /\ Len(s.ops) \in Nat
  BY UnnamedAreFew, StoreFields
<1> QED BY <1>1, <1>2, <1>3 DEF IdsUsed

LEMMA TurnedKeepsRoom ==
  ASSUME NEW s \in Queue!Store, NEW t, NEW I, NEW state, Turned(s, t, I, state),
         \/ state \in {"cancelled", "completed"}
         \/ \A i \in DOMAIN s.ops : i \in I =>
              s.ops[i].base # NoBase \/ Queue!Active(s.ops[i])
  PROVE  IdsUsed(t) <= IdsUsed(s)
<1>1. t \in Queue!Store
  BY DEF Turned
<1>2. Len(t.ops) = Len(s.ops)
  <2>1. /\ Len(s.ops) \in Nat /\ DOMAIN s.ops = 1 .. Len(s.ops)
        /\ Len(t.ops) \in Nat /\ DOMAIN t.ops = 1 .. Len(t.ops)
    BY <1>1, StoreFields
  <2>2. DOMAIN t.ops = DOMAIN s.ops
    BY DEF Turned
  <2> QED BY <2>1, <2>2
<1>3. Unnamed(t) \subseteq Unnamed(s)
  BY DEF Turned, Unnamed, Queue!Active, Queue!TerminalStates
<1> QED BY <1>1, <1>2, <1>3, RoomIsKept

LEMMA ReissuedKeepsRoom ==
  ASSUME NEW s \in Queue!Store, NEW t, NEW k, NEW base \in Nat, Reissued(s, t, k, base)
  PROVE  IdsUsed(t) <= IdsUsed(s)
<1> DEFINE rest == Unnamed(s) \ {k}
<1>1. t \in Queue!Store /\ Len(t.ops) = Len(s.ops) + 1
  BY DEF Reissued
<1>2. k \in Unnamed(s)
  BY DEF Reissued, Dependent, Unnamed, Queue!Ready, Queue!Active, Queue!TerminalStates
<1>3. /\ IsFiniteSet(Unnamed(s)) /\ Cardinality(Unnamed(s)) \in Nat
      /\ Cardinality(Unnamed(t)) \in Nat /\ Len(s.ops) \in Nat
  BY <1>1, UnnamedAreFew, StoreFields
<1>4. IsFiniteSet(rest) /\ Cardinality(rest) = Cardinality(Unnamed(s)) - 1
  BY <1>2, <1>3, FS_RemoveElement
<1>5. Unnamed(t) \subseteq rest
  BY SyncAssumption DEF Reissued, Unnamed, Queue!Active, Queue!TerminalStates
<1>6. Cardinality(Unnamed(t)) <= Cardinality(rest)
  BY <1>4, <1>5, FS_Subset
<1> QED BY <1>1, <1>3, <1>4, <1>6 DEF IdsUsed
-----------------------------------------------------------------------------
(* The transactions keep the device's store in order *)

Serves(s, t, revision, X) ==
  Evolves(s, t, revision, X) /\ IdsUsed(t) <= 2 * MaxOps

Orderly(s, revision) ==
  revision \in Nat /\ Bases(s, revision) /\ IdsUsed(s) <= 2 * MaxOps

LEMMA NumbersAdd ==
  ASSUME NEW s \in Queue!Store, NEW t \in Queue!Store,
         IdsUsed(s) <= 2 * MaxOps, IdsUsed(t) <= IdsUsed(s)
  PROVE  IdsUsed(t) <= 2 * MaxOps
<1>1. IdsUsed(s) \in Nat /\ IdsUsed(t) \in Nat
  BY UnnamedAreFew, StoreFields DEF IdsUsed
<1> QED BY <1>1, SyncAssumption

LEMMA ReissueServes ==
  ASSUME NEW s, NEW revision, Orderly(s, revision), NEW t, NEW k,
         NEW base \in 1 .. revision, Reissued(s, t, k, base), NEW X
  PROVE  Serves(s, t, revision, X)
<1>1. s \in Queue!Store /\ t \in Queue!Store /\ base \in Nat
  BY DEF Orderly, Bases, Reissued
<1>2. Evolves(s, t, revision, X)
  BY ReissuedEvolves DEF Orderly
<1>3. IdsUsed(t) <= IdsUsed(s)
  BY <1>1, ReissuedKeepsRoom
<1> QED BY <1>1, <1>2, <1>3, NumbersAdd DEF Serves, Orderly

LEMMA TurnServes ==
  ASSUME NEW s, NEW revision, Orderly(s, revision), NEW t, NEW I, NEW state, NEW X,
         Turned(s, t, I, state), state = "conflict" => I \subseteq X,
         \/ state \in {"cancelled", "completed"}
         \/ \A i \in DOMAIN s.ops : i \in I =>
              s.ops[i].base # NoBase \/ Queue!Active(s.ops[i]),
         t.rows[d0] # NoRow, t.rows[d0].revision \in 1 .. revision
  PROVE  Serves(s, t, revision, X)
<1>1. s \in Queue!Store /\ t \in Queue!Store
  BY DEF Orderly, Bases, Turned
<1>2. Evolves(s, t, revision, X)
  BY TurnedEvolves DEF Orderly
<1>3. IdsUsed(t) <= IdsUsed(s)
  BY <1>1, TurnedKeepsRoom
<1> QED BY <1>1, <1>2, <1>3, NumbersAdd DEF Serves, Orderly

LEMMA ServesTwice ==
  ASSUME NEW s, NEW u, NEW t, NEW revision, NEW X,
         Serves(s, u, revision, X), Serves(u, t, revision, X)
  PROVE  Serves(s, t, revision, X)
BY EvolvesTwice DEF Serves

LEMMA ServesOrderly ==
  ASSUME NEW s, NEW t, NEW revision, NEW X, Orderly(s, revision),
         Serves(s, t, revision, X)
  PROVE  Orderly(t, revision)
BY DEF Serves, Evolves, Orderly

\* Operations in flight stay in flight.
FlightKept(s, t) ==
  \A i \in DOMAIN s.ops : s.ops[i].state = "inflight" => t.ops[i].state = "inflight"

LEMMA SaveServes ==
  ASSUME NEW s, NEW revision, Orderly(s, revision), Len(s.ops) < MaxOps,
         NEW text \in Content
  PROVE  /\ Serves(s, Queue!Enqueue(s, d0, text), revision, {})
         /\ FlightKept(s, Queue!Enqueue(s, d0, text))
<1> DEFINE t == Queue!Enqueue(s, d0, text)
<1>1. s \in Queue!Store /\ s.rows[d0] # NoRow /\ s.rows[d0].revision \in 1 .. revision
  BY DEF Orderly, Bases
<1>2. PICK u : /\ Turned(s, u, Stopped(s), "cancelled") /\ u.rows = s.rows
               /\ SavedOn(s, u, t)
  BY <1>1, EnqueueEffect, Zenon
<1> HIDE DEF t
<1>3. Serves(s, u, revision, {})
  BY <1>1, <1>2, TurnServes
<1>4. Orderly(u, revision)
  BY <1>3, ServesOrderly
<1>5. Len(u.ops) = Len(s.ops) /\ u \in Queue!Store
  <2>1. u \in Queue!Store /\ DOMAIN u.ops = DOMAIN s.ops
    BY <1>2 DEF Turned
  <2> QED BY <1>1, <2>1, StoreFields
<1>6. CASE t = u
  <2>1. FlightKept(s, u)
    BY <1>2 DEF FlightKept, Turned, Stopped
  <2> QED BY <1>3, <1>6, <2>1 DEF t
<1>7. CASE t # u
  <2>1. PICK base \in Nat \cup {NoBase} :
          /\ Grown(u, t, base) /\ RowSays(t, s.rows[d0].revision, {})
          /\ base # NoBase => base = s.rows[d0].revision
    BY <1>2, <1>7 DEF SavedOn
  <2>2. base \in (1 .. revision) \cup {NoBase}
    BY <1>1, <2>1
  <2>3. Evolves(u, t, revision, {})
    BY <1>1, <1>4, <2>1, <2>2, GrownEvolves DEF Orderly, RowSays
  <2>4. t \in Queue!Store /\ Len(t.ops) <= MaxOps
    <3>1. t \in Queue!Store /\ Len(t.ops) = Len(s.ops) + 1
      BY <1>5, <2>1 DEF Grown
    <3>2. Len(s.ops) \in Nat
      BY <1>1, StoreFields
    <3> QED BY <3>1, <3>2, SyncAssumption
  <2>5. Serves(u, t, revision, {})
    BY <2>3, <2>4, RoomForShort DEF Serves
  <2>6. FlightKept(s, t)
    BY <1>2, <2>1 DEF FlightKept, Turned, Grown, Stopped
  <2> QED BY <1>3, <2>5, <2>6, ServesTwice DEF t
<1> QED BY <1>6, <1>7

LEMMA RecoverServes ==
  ASSUME NEW s, NEW revision, Orderly(s, revision)
  PROVE  Serves(s, Queue!RecoverStranded(s, d0), revision, {})
<1> DEFINE t == Queue!RecoverStranded(s, d0)
<1>1. s \in Queue!Store /\ s.rows[d0] # NoRow /\ s.rows[d0].revision \in 1 .. revision
  BY DEF Orderly, Bases
<1>2. t = s \/ \E k : Reissued(s, t, k, s.rows[d0].revision)
  BY <1>1, StrandedEffect, Zenon
<1> HIDE DEF t
<1>3. Serves(s, s, revision, {})
  BY EvolvesOnce DEF Orderly, Serves
<1>4. ASSUME NEW k, Reissued(s, t, k, s.rows[d0].revision)
      PROVE  Serves(s, t, revision, {})
  BY <1>1, <1>4, ReissueServes
<1> QED BY <1>2, <1>3, <1>4 DEF t

LEMMA AttemptServes ==
  ASSUME NEW s, NEW revision, Orderly(s, revision), NEW i \in DOMAIN s.ops,
         s.ops[i].base # NoBase
  PROVE  /\ Serves(s, Queue!MarkAttempt(s, i), revision, {})
         /\ Queue!MarkAttempt(s, i).ops[i].state = "inflight"
<1> DEFINE t == Queue!MarkAttempt(s, i)
<1>1. s \in Queue!Store /\ s.rows[d0] # NoRow /\ s.rows[d0].revision \in 1 .. revision
  BY DEF Orderly, Bases
<1>2. Turned(s, t, {i}, "inflight") /\ t.rows = s.rows
  BY <1>1, AttemptEffect
<1> HIDE DEF t
<1>3. Serves(s, t, revision, {})
  BY <1>1, <1>2, TurnServes
<1>4. t.ops[i].state = "inflight"
  BY <1>2 DEF Turned
<1> QED BY <1>3, <1>4 DEF t
LEMMA RetryServes ==
  ASSUME NEW s, NEW revision, Orderly(s, revision), NEW i \in DOMAIN s.ops,
         s.ops[i].base # NoBase, s.ops[i].state = "inflight"
  PROVE  Serves(s, Queue!MarkRetry(s, i), revision, {})
<1> DEFINE t == Queue!MarkRetry(s, i)
<1>1. s \in Queue!Store /\ s.rows[d0] # NoRow /\ s.rows[d0].revision \in 1 .. revision
  BY DEF Orderly, Bases
<1>2. /\ Turned(s, t, {i}, "retry_wait")
      /\ RowSays(t, s.rows[d0].revision, s.rows[d0].clash)
  BY <1>1, RetryEffect
<1> HIDE DEF t
<1>3. Serves(s, t, revision, {})
  BY <1>1, <1>2, TurnServes DEF RowSays
<1> QED BY <1>3 DEF t

LEMMA SuccessServes ==
  ASSUME NEW s, NEW revision, Orderly(s, revision), NEW i \in DOMAIN s.ops,
         s.ops[i].state = "inflight", NEW accepted \in 1 .. revision
  PROVE  Serves(s, Queue!MarkSuccess(s, i, accepted), revision, {})
<1> DEFINE t == Queue!MarkSuccess(s, i, accepted)
<1>1. s \in Queue!Store /\ s.rows[d0] # NoRow /\ accepted \in Nat
  BY DEF Orderly, Bases
<1>2. PICK u : /\ Turned(s, u, {i}, "completed")
               /\ RowSays(u, accepted, s.rows[d0].clash)
               /\ t = u \/ \E k : Reissued(u, t, k, accepted)
  BY <1>1, SuccessEffect
<1> HIDE DEF t
<1>3. Serves(s, u, revision, {})
  BY <1>1, <1>2, TurnServes DEF RowSays
<1>4. Orderly(u, revision)
  BY <1>3, ServesOrderly
<1>5. ASSUME NEW k, Reissued(u, t, k, accepted)
      PROVE  Serves(u, t, revision, {})
  BY <1>4, <1>5, ReissueServes
<1> QED BY <1>2, <1>3, <1>5, ServesTwice DEF t

LEMMA RestartServes ==
  ASSUME NEW s, NEW revision, Orderly(s, revision)
  PROVE  Serves(s, Queue!RecoverInterruptedDispatches(s), revision, {})
<1> DEFINE t == Queue!RecoverInterruptedDispatches(s)
<1>1. s \in Queue!Store /\ s.rows[d0] # NoRow /\ s.rows[d0].revision \in 1 .. revision
  BY DEF Orderly, Bases
<1>2. Turned(s, t, InFlight(s), "retry_wait") /\ t.rows = s.rows
  BY <1>1, RestartEffect
<1> HIDE DEF t
<1>3. \A i \in DOMAIN s.ops : i \in InFlight(s) => Queue!Active(s.ops[i])
  BY DEF InFlight, Queue!Active, Queue!TerminalStates
<1>4. Serves(s, t, revision, {})
  BY <1>1, <1>2, <1>3, TurnServes
<1> QED BY <1>4 DEF t

LEMMA PullServes ==
  ASSUME NEW s, NEW revision, Orderly(s, revision), NEW newer \in 1 .. revision,
         NEW remote \in Content
  PROVE  Serves(s, Queue!ApplyRemoteSnapshot(s, d0, newer, remote), revision, {})
<1> DEFINE t == Queue!ApplyRemoteSnapshot(s, d0, newer, remote)
<1>1. s \in Queue!Store /\ s.rows[d0] # NoRow /\ newer \in Nat
  BY DEF Orderly, Bases
<1>2. Says(s, t, newer, {})
  BY <1>1, CleanRowEffect
<1> HIDE DEF t
<1>3. Evolves(s, t, revision, {})
  BY <1>2 DEF Says, Evolves, Orderly, Bases
<1>4. IdsUsed(t) = IdsUsed(s)
  BY <1>2 DEF Says, IdsUsed, Unnamed
<1> QED BY <1>3, <1>4 DEF t, Serves, Orderly

LEMMA RebaseServes ==
  ASSUME NEW s, NEW revision, Orderly(s, revision), Len(s.ops) < MaxOps,
         NEW i \in DOMAIN s.ops, NEW newer \in 1 .. revision,
         NEW remote \in Content, NEW merged \in Content
  PROVE  Serves(s, Queue!RebaseCleanMerge(s, i, newer, remote, merged), revision, {})
<1> DEFINE t == Queue!RebaseCleanMerge(s, i, newer, remote, merged)
<1>1. s \in Queue!Store /\ s.rows[d0] # NoRow /\ newer \in Nat
  BY DEF Orderly, Bases
<1>2. PICK u : /\ Grown(s, u, newer)
               /\ Turned(u, t, Queue!ActiveOf(s, d0), "cancelled")
               /\ RowSays(t, newer, s.rows[d0].clash)
  BY <1>1, RebaseEffect
<1> HIDE DEF t
<1>3. Evolves(s, t, revision, {})
  <2>1. /\ t \in Queue!Store /\ DOMAIN t.ops = DOMAIN s.ops \cup {Len(s.ops) + 1}
        /\ \A j \in DOMAIN s.ops :
             /\ t.ops[j].base = s.ops[j].base
             /\ t.ops[j].state \in {s.ops[j].state, "cancelled"}
        /\ t.ops[Len(s.ops) + 1].base = newer
        /\ t.ops[Len(s.ops) + 1].state \in {"pending", "cancelled"}
    BY <1>2 DEF Grown, Turned
  <2>2. t.rows[d0] # NoRow /\ t.rows[d0].revision \in 1 .. revision
    BY <1>2 DEF RowSays
  <2>3. \A j \in DOMAIN t.ops : t.ops[j].base \in (1 .. revision) \cup {NoBase}
    BY <2>1 DEF Orderly, Bases
  <2>4. \A j \in DOMAIN t.ops :
          t.ops[j].state = "conflict" => j \in DOMAIN s.ops /\ s.ops[j].state = "conflict"
    BY <2>1
  <2> QED BY <2>1, <2>2, <2>3, <2>4 DEF Evolves, Bases
<1>4. t \in Queue!Store /\ Len(t.ops) <= MaxOps
  <2>1. /\ u \in Queue!Store /\ t \in Queue!Store /\ DOMAIN t.ops = DOMAIN u.ops
        /\ Len(u.ops) = Len(s.ops) + 1
    BY <1>2 DEF Grown, Turned
  <2>2. Len(t.ops) = Len(u.ops)
    BY <2>1, StoreFields
  <2>3. Len(s.ops) \in Nat
    BY <1>1, StoreFields
  <2> QED BY <2>1, <2>2, <2>3, SyncAssumption
<1> QED BY <1>3, <1>4, RoomForShort DEF Serves, t

LEMMA ConflictServes ==
  ASSUME NEW s, NEW revision, Orderly(s, revision), NEW i \in DOMAIN s.ops,
         s.ops[i].base # NoBase,
         NEW newer \in 1 .. revision, NEW remote \in Content, NEW local \in Content
  PROVE  Serves(s, Queue!MarkConflict(s, i, newer, remote, local), revision, {i})
<1> DEFINE t == Queue!MarkConflict(s, i, newer, remote, local)
           behind == Queue!WaitingOf(s, d0) \ {i}
<1>1. s \in Queue!Store /\ s.rows[d0] # NoRow /\ newer \in Nat
  BY DEF Orderly, Bases
<1>2. PICK u : /\ Turned(s, u, behind, "blocked") /\ Turned(u, t, {i}, "conflict")
               /\ RowSays(t, newer, {local, remote})
  BY <1>1, ConflictEffect
<1>3. \A j \in DOMAIN s.ops : j \in behind => Queue!Active(s.ops[j])
  BY <1>1, DependentsAre DEF Queue!Waiting, Queue!Active, Queue!TerminalStates
<1> HIDE DEF t, behind
<1>4. Evolves(s, t, revision, {i})
  BY <1>2 DEF Turned, RowSays, Evolves, Orderly, Bases
<1>5. IdsUsed(u) <= IdsUsed(s)
  BY <1>1, <1>2, <1>3, TurnedKeepsRoom
<1>6. IdsUsed(t) <= IdsUsed(u)
  <2>1. u \in Queue!Store /\ \A j \in DOMAIN u.ops : j \in {i} => u.ops[j].base # NoBase
    BY <1>2 DEF Turned
  <2> QED BY <1>2, <2>1, TurnedKeepsRoom
<1>7. u \in Queue!Store /\ t \in Queue!Store
  BY <1>2 DEF Turned
<1>8. IdsUsed(t) <= 2 * MaxOps
  BY <1>1, <1>5, <1>6, <1>7, NumbersAdd DEF Orderly
<1> QED BY <1>4, <1>8 DEF Serves, t
-----------------------------------------------------------------------------
(* Steps of a device *)

LEMMA StoresAreOrderly ==
  ASSUME SyncInv, NEW c \in Client
  PROVE  Orderly(store[c], Server.revision)
BY DEF SyncInv, LedgerOfSaves, DocumentRow, QueuesAreBounded, Orderly

\* The other devices' windows, workers and stores.
OthersStay(c) ==
  \A e \in Client \ {c} :
    /\ store'[e] = store[e] /\ worker'[e] = worker[e] /\ gui'[e] = gui[e]
    /\ pulled'[e] = pulled[e] /\ disk'[e] = disk[e] /\ editor'[e] = editor[e]

LedgerStays == UNCHANGED <<documents, versions, writers>>
\* What is said of the ledger and of the requests goes on being true when one
\* store changes in order.
LEMMA StoreStep ==
  ASSUME SyncInv, NEW c \in Client, OthersStay(c), LedgerStays,
         NEW X, Serves(store[c], store'[c], Server.revision, X),
         \A i \in X : i \in DOMAIN store[c].ops => Behind(c, i)
  PROVE  /\ LedgerOfSaves'
         /\ QueuesAreBounded'
         /\ \A e \in Client : \A i \in DOMAIN store[e].ops :
              i \in DOMAIN store'[e].ops /\ Base(e, i)' = Base(e, i)
<1> DEFINE held == \A e \in Client : \A i \in DOMAIN store[e].ops :
                     i \in DOMAIN store'[e].ops /\ Base(e, i)' = Base(e, i)
<1>1. held
  BY DEF OthersStay, Serves, Evolves, Base
<1>2. LedgerOfSaves'
  <2>1. documents' = documents /\ versions' = versions /\ Server' = Server
    BY DEF LedgerStays, Server
  <2>2. \A v \in versions, e \in Client : \A i \in DOMAIN store[e].ops :
          Records(v, e, i) => i \in DOMAIN store'[e].ops /\ Records(v, e, i)'
    BY <1>1 DEF Records
  <2> HIDE DEF held
  <2>3. LedgerOfSaves
    BY DEF SyncInv
  <2> QED BY <2>1, <2>2, <2>3 DEF LedgerOfSaves
<1>3. QueuesAreBounded'
  <2>1. Server' = Server
    BY DEF LedgerStays, Server
  <2>2. \A e \in Client : Bases(store'[e], Server.revision) /\ IdsUsed(store'[e]) <= 2 * MaxOps
    BY DEF OthersStay, Serves, Evolves, SyncInv, QueuesAreBounded
  <2> QED BY <2>1, <2>2 DEF QueuesAreBounded, Bases, IdsUsed, Unnamed
<1> QED BY <1>1, <1>2, <1>3
LEMMA RequestsStep ==
  ASSUME SyncInv, commits' = commits,
         \A e \in Client : \A i \in DOMAIN store[e].ops :
           i \in DOMAIN store'[e].ops /\ Base(e, i)' = Base(e, i)
  PROVE  CommitsCarryOperations'
<1>1. CommitsCarryOperations
  BY DEF SyncInv
<1> QED BY <1>1 DEF CommitsCarryOperations

LEMMA BehindStays ==
  ASSUME documents' = documents, versions' = versions, NEW e \in Client, NEW i, Base(e, i)' = Base(e, i), Behind(e, i)
  PROVE  Behind(e, i)'
BY DEF Behind, Server, VersionOf

LEMMA OthersKeep ==
  ASSUME SyncInv, NEW c \in Client, OthersStay(c), LedgerStays
  PROVE  \A e \in Client \ {c} : WorkerInv(e)' /\ WindowInv(e)'
<1> SUFFICES ASSUME NEW e \in Client \ {c}
             PROVE  WorkerInv(e)' /\ WindowInv(e)'
  OBVIOUS
<1>1. /\ store'[e] = store[e] /\ worker'[e] = worker[e] /\ gui'[e] = gui[e]
      /\ pulled'[e] = pulled[e] /\ disk'[e] = disk[e] /\ editor'[e] = editor[e]
  BY DEF OthersStay
<1>2. versions' = versions /\ Server' = Server
  BY DEF LedgerStays, Server
<1>3. WorkerInv(e)'
  <2>1. WorkerInv(e)
    BY DEF SyncInv
  <2>2. Carried(e)' = Carried(e) /\ \A i : Base(e, i)' = Base(e, i)
    BY <1>1 DEF Carried, Base
  <2>3. \A i : (\E v \in versions : Records(v, e, i) /\ v.revision = worker[e].revision)
                 => (\E v \in versions : Records(v, e, i) /\ v.revision = worker[e].revision)'
    BY <1>1, <1>2, <2>2 DEF Records
  <2>4. \A i : Behind(e, i) => Behind(e, i)'
    BY <2>2, BehindStays DEF LedgerStays
  <2> QED BY <1>1, <1>2, <2>1, <2>2, <2>3, <2>4 DEF WorkerInv
<1>4. WindowInv(e)'
  <2>1. WindowInv(e)
    BY DEF SyncInv
  <2> QED BY <1>1, <1>2, <2>1 DEF WindowInv, Recorded
<1> QED BY <1>3, <1>4

LEMMA DeviceStep ==
  ASSUME SyncInv, NEW c \in Client, OthersStay(c), LedgerStays,
         NEW X, Serves(store[c], store'[c], Server.revision, X),
         \A i \in X : i \in DOMAIN store[c].ops => Behind(c, i),
         X \subseteq DOMAIN store[c].ops,
         commits' = commits \/ CommitsCarryOperations',
         Tables', WorkerInv(c)', WindowInv(c)'
  PROVE  SyncInv'
<1>1. /\ LedgerOfSaves' /\ QueuesAreBounded'
      /\ \A e \in Client : \A i \in DOMAIN store[e].ops :
           i \in DOMAIN store'[e].ops /\ Base(e, i)' = Base(e, i)
  BY StoreStep
<1>2. CommitsCarryOperations'
  BY <1>1, RequestsStep
<1>3. ConflictsAreBehind'
  <2>1. ASSUME NEW e \in Client, NEW i \in DOMAIN store'[e].ops,
               store'[e].ops[i].state = "conflict"
        PROVE  Behind(e, i)'
    <3>1. i \in DOMAIN store[e].ops /\ Behind(e, i)
      <4>1. ConflictsAreBehind
        BY DEF SyncInv
      <4>2. CASE e = c
        BY <2>1, <4>1, <4>2 DEF Serves, Evolves, ConflictsAreBehind
      <4>3. CASE e # c
        BY <2>1, <4>1, <4>3 DEF OthersStay, ConflictsAreBehind
      <4> QED BY <4>2, <4>3
    <3> QED BY <1>1, <3>1, BehindStays DEF LedgerStays
  <2> QED BY <2>1 DEF ConflictsAreBehind
<1>4. \A e \in Client : WorkerInv(e)' /\ WindowInv(e)'
  BY OthersKeep
<1>5. (writers \subseteq Client)'
  BY DEF SyncInv, LedgerStays
<1> QED BY <1>1, <1>2, <1>3, <1>4, <1>5 DEF SyncInv

\* The same, for the steps that leave the queue alone.
LEMMA QuietStep ==
  ASSUME SyncInv, NEW c \in Client, OthersStay(c), LedgerStays, store'[c] = store[c],
         commits' = commits \/ CommitsCarryOperations',
         Tables', WorkerInv(c)', WindowInv(c)'
  PROVE  SyncInv'
<1>1. Serves(store[c], store'[c], Server.revision, {})
  BY StoresAreOrderly, EvolvesOnce DEF Orderly, Serves
<1> QED BY <1>1, DeviceStep

\* A worker whose operation is still in flight, and a window, go on when only
\* the store moves.
LEMMA WorkerStays ==
  ASSUME SyncInv, NEW c \in Client, LedgerStays, worker'[c] = worker[c],
         \A i \in DOMAIN store[c].ops :
           /\ i \in DOMAIN store'[c].ops /\ Base(c, i)' = Base(c, i)
           /\ store[c].ops[i].state = "inflight" => store'[c].ops[i].state = "inflight"
  PROVE  WorkerInv(c)'
<1>1. WorkerInv(c)
  BY DEF SyncInv
<1>2. versions' = versions /\ Server' = Server
  BY DEF LedgerStays, Server
<1>3. worker[c].phase \in Carrying =>
        /\ worker[c].op \in DOMAIN store[c].ops /\ worker[c].op \in DOMAIN store'[c].ops
        /\ Carried(c)'.base = Carried(c).base /\ Carried(c)'.state = "inflight"
        /\ Base(c, worker[c].op)' = Base(c, worker[c].op)
  BY <1>1 DEF WorkerInv, Carried, Base
<1>4. "committing" \in Carrying /\ "committed" \in Carrying /\ Refused \subseteq Carrying
  BY DEF Carrying, Refused
<1>5. worker[c].phase \in Refused => Behind(c, worker[c].op)'
  BY <1>1, <1>3, <1>4, BehindStays DEF WorkerInv, LedgerStays
<1>6. worker[c].phase = "committed" =>
        \E v \in versions : Records(v, c, worker[c].op)' /\ v.revision = worker[c].revision
  BY <1>1, <1>3, <1>4 DEF WorkerInv, Records
<1> QED BY <1>1, <1>2, <1>3, <1>4, <1>5, <1>6 DEF WorkerInv

LEMMA WindowStays ==
  ASSUME SyncInv, NEW c \in Client, LedgerStays, gui'[c] = gui[c], pulled'[c] = pulled[c],
         disk'[c] = disk[c], editor'[c] = editor[c]
  PROVE  WindowInv(c)'
<1>1. WindowInv(c)
  BY DEF SyncInv
<1>2. versions' = versions /\ Server' = Server
  BY DEF LedgerStays, Server
<1> QED BY <1>1, <1>2 DEF WindowInv, Recorded
-----------------------------------------------------------------------------
(* The steps of the GUI thread keep the invariant *)

LEMMA TypingKeeps ==
  ASSUME SyncInv, NEW c \in Client, NEW p \in Passage, Typing(c, p), UNCHANGED writers
  PROVE  SyncInv'
<1> USE DEF Typing, serverVars
<1>1. Tables
  BY DEF SyncInv
<1>2. Tables' /\ OthersStay(c) /\ LedgerStays
  BY <1>1 DEF Tables, OthersStay, LedgerStays
<1>3. WorkerInv(c)'
  BY <1>2, WorkerStays DEF Base
<1>4. WindowInv(c)'
  <2>1. WindowInv(c)
    BY DEF SyncInv
  <2>2. editor'[c] \in Content
    BY <1>1, <2>1, SyncAssumption DEF Tables, WindowInv
  <2>3. versions' = versions /\ Server' = Server
    BY DEF Server
  <2> QED BY <2>1, <2>2, <2>3 DEF WindowInv, Recorded
<1> QED BY <1>2, <1>3, <1>4, QuietStep

LEMMA SaveFileKeeps ==
  ASSUME SyncInv, NEW c \in Client, SaveFile(c), UNCHANGED writers
  PROVE  SyncInv'
<1> USE DEF SaveFile, serverVars
<1>1. Tables /\ WindowInv(c)
  BY DEF SyncInv
<1>2. Tables' /\ OthersStay(c) /\ LedgerStays
  BY <1>1 DEF Tables, OthersStay, LedgerStays
<1>3. WorkerInv(c)'
  BY <1>2, WorkerStays DEF Base
<1>4. WindowInv(c)'
  <2>1. gui'[c] = [task |-> "save", text |-> editor[c]] /\ disk'[c] = editor[c]
    BY <1>1 DEF Tables
  <2>2. versions' = versions /\ Server' = Server
    BY DEF Server
  <2> QED BY <1>1, <2>1, <2>2 DEF WindowInv, Recorded, Free
<1> QED BY <1>2, <1>3, <1>4, QuietStep

LEMMA QueueSaveKeeps ==
  ASSUME SyncInv, NEW c \in Client, QueueSave(c), UNCHANGED writers
  PROVE  SyncInv'
<1> USE DEF QueueSave, serverVars
<1>1. Tables /\ WindowInv(c)
  BY DEF SyncInv
<1>2. Tables' /\ OthersStay(c) /\ LedgerStays
  BY <1>1 DEF Tables, OthersStay, LedgerStays
<1>3. Orderly(store[c], Server.revision)
  BY StoresAreOrderly
<1>4. gui[c].text \in Content
  BY <1>1 DEF WindowInv
<1>5. /\ Serves(store[c], store'[c], Server.revision, {})
      /\ FlightKept(store[c], store'[c])
  <2>1. store'[c] = Enqueued(c, gui[c].text)
    BY <1>1 DEF Tables
  <2>2. CASE store'[c] = store[c]
    BY <1>3, <2>2, EvolvesOnce DEF Orderly, Serves, FlightKept
  <2>3. CASE store'[c] = Queue!Enqueue(store[c], d0, gui[c].text)
    BY <1>3, <1>4, <2>3, SaveServes
  <2> QED BY <2>1, <2>2, <2>3 DEF Enqueued
<1>6. WorkerInv(c)'
  <2>1. worker'[c] = worker[c]
    OBVIOUS
  <2>2. \A i \in DOMAIN store[c].ops :
          /\ i \in DOMAIN store'[c].ops /\ Base(c, i)' = Base(c, i)
          /\ store[c].ops[i].state = "inflight" => store'[c].ops[i].state = "inflight"
    BY <1>5 DEF Serves, Evolves, FlightKept, Base
  <2> QED BY <1>2, <2>1, <2>2, WorkerStays
<1>7. WindowInv(c)'
  <2>1. gui'[c] = Free /\ disk'[c] = gui[c].text
    BY <1>1 DEF Tables
  <2>2. versions' = versions /\ Server' = Server
    BY DEF Server
  <2> QED BY <1>1, <1>4, <2>1, <2>2 DEF WindowInv, Recorded, Free
<1> QED BY <1>2, <1>5, <1>6, <1>7, DeviceStep

LEMMA ChooseVersionKeeps ==
  ASSUME SyncInv, NEW c \in Client, NEW text, ChooseVersion(c, text), UNCHANGED writers
  PROVE  SyncInv'
<1> USE DEF ChooseVersion, serverVars
<1>1. Tables /\ WindowInv(c)
  BY DEF SyncInv
<1>2. Tables' /\ OthersStay(c) /\ LedgerStays
  BY <1>1 DEF Tables, OthersStay, LedgerStays
<1>3. text \in Content
  <2>1. store[c] \in Queue!Store /\ RowOf(c) # NoRow
    BY DEF SyncInv, QueuesAreBounded, Bases, RowOf
  <2>2. RowOf(c) \in Queue!Row
    BY <2>1, StoreFields DEF RowOf
  <2> QED BY <2>2 DEF Queue!Row
<1>4. WorkerInv(c)'
  BY <1>2, WorkerStays DEF Base
<1>5. WindowInv(c)'
  <2>1. /\ gui'[c] = [task |-> "save", text |-> text]
        /\ disk'[c] = text /\ editor'[c] = text
    BY <1>1 DEF Tables
  <2>2. versions' = versions /\ Server' = Server
    BY DEF Server
  <2> QED BY <1>1, <1>3, <2>1, <2>2 DEF WindowInv, Recorded, Free
<1> QED BY <1>2, <1>4, <1>5, QuietStep

LEMMA ApplyPulledFileKeeps ==
  ASSUME SyncInv, NEW c \in Client, ApplyPulledFile(c), UNCHANGED writers
  PROVE  SyncInv'
<1> USE DEF ApplyPulledFile, serverVars
<1>1. Tables /\ WindowInv(c)
  BY DEF SyncInv
<1>2. Tables' /\ OthersStay(c) /\ LedgerStays
  BY <1>1 DEF Tables, OthersStay, LedgerStays
<1>3. pulled[c] # NoSnapshot
  <2>1. store[c].rows[d0] # NoRow /\ store[c].rows[d0].revision \in Nat
    BY StoresAreOrderly DEF Orderly, Bases
  <2>2. store[c].rows[d0].revision < pulled[c].revision
    BY <2>1 DEF Queue!AcceptsRemote
  <2> QED BY <2>1, <2>2 DEF NoSnapshot
<1>4. WorkerInv(c)'
  BY <1>2, WorkerStays DEF Base
<1>5. WindowInv(c)'
  <2>1. gui'[c] = [task |-> "pull"] /\ disk'[c] = pulled[c].content
    BY <1>1 DEF Tables
  <2>2. versions' = versions /\ Server' = Server
    BY DEF Server
  <2> QED BY <1>1, <1>3, <2>1, <2>2 DEF WindowInv, Recorded, Free
<1> QED BY <1>2, <1>4, <1>5, QuietStep

LEMMA ApplyPulledSnapshotKeeps ==
  ASSUME SyncInv, NEW c \in Client, ApplyPulledSnapshot(c), UNCHANGED writers
  PROVE  SyncInv'
<1> USE DEF ApplyPulledSnapshot, serverVars
<1>1. Tables /\ WindowInv(c)
  BY DEF SyncInv
<1>2. Tables' /\ OthersStay(c) /\ LedgerStays
  BY <1>1 DEF Tables, OthersStay, LedgerStays
<1>3. pulled[c].revision \in 1 .. Server.revision /\ pulled[c].content \in Content
  BY <1>1 DEF WindowInv, Recorded
<1>4. store'[c] = Queue!ApplyRemoteSnapshot(store[c], d0, pulled[c].revision,
                                            pulled[c].content)
  BY <1>1 DEF Tables
<1>5. Serves(store[c], store'[c], Server.revision, {})
  BY <1>3, <1>4, StoresAreOrderly, PullServes
<1>6. store'[c].ops = store[c].ops
  <2>1. store[c] \in Queue!Store /\ pulled[c].revision \in Nat
    BY <1>3, StoresAreOrderly DEF Orderly, Bases
  <2>2. store[c].rows[d0] # NoRow
    BY StoresAreOrderly DEF Orderly, Bases
  <2> QED BY <1>3, <1>4, <2>1, <2>2, CleanRowEffect DEF Says
<1>7. WorkerInv(c)'
  BY <1>2, <1>6, WorkerStays DEF Base
<1>8. WindowInv(c)'
  <2>1. gui'[c] = Free /\ pulled'[c] = NoSnapshot /\ editor'[c] = pulled[c].content
    BY <1>1 DEF Tables
  <2> QED BY <1>1, <1>3, <2>1 DEF WindowInv, Free
<1> QED BY <1>2, <1>5, <1>7, <1>8, DeviceStep
LEMMA RefreshEqualKeeps ==
  ASSUME SyncInv, NEW c \in Client, RefreshEqualRevision(c), UNCHANGED writers
  PROVE  SyncInv'
<1> USE DEF RefreshEqualRevision, serverVars
<1>1. Tables /\ WindowInv(c)
  BY DEF SyncInv
<1>2. Tables' /\ OthersStay(c) /\ LedgerStays
  BY <1>1 DEF Tables, OthersStay, LedgerStays
<1>3. pulled[c] # NoSnapshot
  <2>1. RowOf(c).revision \in 1 .. Server.revision /\ Server.revision \in Nat
    BY StoresAreOrderly DEF Orderly, Bases, RowOf
  <2>2. RowOf(c).revision = pulled[c].revision
    BY DEF RefreshesEqual
  <2> QED BY <2>1, <2>2 DEF NoSnapshot
<1>4. WorkerInv(c)'
  BY <1>2, WorkerStays DEF Base
<1>5. WindowInv(c)'
  <2>1. /\ pulled'[c] = NoSnapshot /\ gui'[c] = Free
        /\ disk'[c] = pulled[c].content /\ editor'[c] = pulled[c].content
    BY <1>1 DEF Tables
  <2> QED BY <1>1, <1>3, <2>1 DEF WindowInv, Recorded, Free
<1> QED BY <1>2, <1>4, <1>5, QuietStep

LEMMA SkipPulledKeeps ==
  ASSUME SyncInv, NEW c \in Client, SkipPulled(c), UNCHANGED writers
  PROVE  SyncInv'
<1> USE DEF SkipPulled, serverVars
<1>1. Tables /\ WindowInv(c)
  BY DEF SyncInv
<1>2. Tables' /\ OthersStay(c) /\ LedgerStays
  BY <1>1 DEF Tables, OthersStay, LedgerStays
<1>3. WorkerInv(c)'
  BY <1>2, WorkerStays DEF Base
<1>4. WindowInv(c)'
  <2>1. pulled'[c] = NoSnapshot /\ gui'[c] = Free
    BY <1>1 DEF Tables
  <2> QED BY <1>1, <2>1 DEF WindowInv, Free
<1> QED BY <1>2, <1>3, <1>4, QuietStep

LEMMA FetchSnapshotKeeps ==
  ASSUME SyncInv, NEW c \in Client, FetchSnapshot(c), UNCHANGED writers
  PROVE  SyncInv'
<1> USE DEF FetchSnapshot, serverVars
<1>1. Tables /\ WindowInv(c) /\ LedgerOfSaves
  BY DEF SyncInv
<1>2. Tables' /\ OthersStay(c) /\ LedgerStays
  BY <1>1 DEF Tables, OthersStay, LedgerStays
<1>3. WorkerInv(c)'
  BY <1>2, WorkerStays DEF Base
<1>4. WindowInv(c)'
  <2>1. pulled'[c] = [revision |-> Server.revision, content |-> Server.content]
    BY <1>1 DEF Tables
  <2>2. versions' = versions /\ Server' = Server
    BY DEF Server
  <2>3. Server.revision \in Nat \ {0} /\ Server.content \in Content
    BY <1>1 DEF LedgerOfSaves, DocumentRow, Server
  <2>4. pulled'[c].revision = Server.revision /\ pulled'[c].content = Server.content
    BY <2>1
  <2>5. pulled'[c] # NoSnapshot
    BY <2>3, <2>4 DEF NoSnapshot
  <2>6. \E v \in versions : v.revision = Server.revision /\ v.content = Server.content
    BY <1>1 DEF LedgerOfSaves
  <2>7. Recorded(pulled[c])'
    BY <2>2, <2>3, <2>4, <2>6 DEF Recorded
  <2> QED BY <1>1, <2>5, <2>7 DEF WindowInv
<1> QED BY <1>2, <1>3, <1>4, QuietStep

LEMMA DispatchKeeps ==
  ASSUME SyncInv, NEW c \in Client, Dispatch(c), UNCHANGED writers
  PROVE  SyncInv'
<1> DEFINE s == IF Queue!Dispatchable(store[c]) = {}
                THEN Queue!RecoverStranded(store[c], d0) ELSE store[c]
           i == Queue!First(Queue!Dispatchable(s))
<1>1. Tables /\ WindowInv(c)
  BY DEF SyncInv
<1>2. /\ store' = [store EXCEPT ![c] = Queue!MarkAttempt(s, i)]
      /\ worker' = [worker EXCEPT ![c] = [phase |-> "started", op |-> i]]
      /\ Queue!Dispatchable(s) # {}
      /\ UNCHANGED <<disk, editor, gui, pulled>> /\ UNCHANGED serverVars
  BY Zenon DEF Dispatch
<1>3. Serves(store[c], s, Server.revision, {})
  <2>1. Orderly(store[c], Server.revision)
    BY StoresAreOrderly
  <2>2. Serves(store[c], Queue!RecoverStranded(store[c], d0), Server.revision, {})
    BY <2>1, RecoverServes
  <2>3. Serves(store[c], store[c], Server.revision, {})
    BY <2>1, EvolvesOnce DEF Orderly, Serves
  <2> QED BY <2>2, <2>3
<1>4. Orderly(s, Server.revision)
  BY <1>3, StoresAreOrderly, ServesOrderly
<1> HIDE DEF s
<1>5. i \in Queue!Dispatchable(s)
  <2>1. s \in Queue!Store
    BY <1>4 DEF Orderly, Bases
  <2>2. Queue!Dispatchable(s) \in SUBSET Nat
    BY <2>1, StoreFields DEF Queue!Dispatchable
  <2> QED BY <1>2, <2>2, FirstIsOne
<1>6. i \in DOMAIN s.ops /\ s.ops[i].base # NoBase
  BY <1>5 DEF Queue!Dispatchable
<1> HIDE DEF i
<1>7. Tables' /\ OthersStay(c) /\ LedgerStays /\ commits' = commits
  BY <1>1, <1>2 DEF Tables, OthersStay, LedgerStays, serverVars, Dispatch
<1>8. store'[c] = Queue!MarkAttempt(s, i) /\ worker'[c] = [phase |-> "started", op |-> i]
  BY <1>1, <1>2 DEF Tables
<1>9. Serves(s, store'[c], Server.revision, {}) /\ store'[c].ops[i].state = "inflight"
  BY <1>4, <1>6, <1>8, AttemptServes
<1>10. Serves(store[c], store'[c], Server.revision, {})
  BY <1>3, <1>9, ServesTwice
<1>11. WorkerInv(c)'
  <2>1. i \in DOMAIN store'[c].ops /\ store'[c].ops[i].base # NoBase
    BY <1>6, <1>9 DEF Serves, Evolves
  <2>2. worker'[c].phase = "started" /\ worker'[c].op = i
    BY <1>8
  <2>3. Carried(c)' = store'[c].ops[i]
    BY <2>2 DEF Carried
  <2> QED BY <1>9, <2>1, <2>2, <2>3 DEF WorkerInv, Carrying, Refused
<1>12. WindowInv(c)'
  BY <1>2, <1>7, WindowStays
<1> QED BY <1>7, <1>10, <1>11, <1>12, DeviceStep

\* The worker has nothing left to do.
LEMMA IdleWorker ==
  ASSUME NEW c, worker'[c] = NoWorker
  PROVE  WorkerInv(c)'
BY DEF WorkerInv, NoWorker, Carrying, Refused

LEMMA FinishCommittedKeeps ==
  ASSUME SyncInv, NEW c \in Client, FinishCommitted(c), UNCHANGED writers
  PROVE  SyncInv'
<1> USE DEF FinishCommitted, serverVars
<1>1. Tables /\ WorkerInv(c) /\ LedgerOfSaves
  BY DEF SyncInv
<1>2. Tables' /\ OthersStay(c) /\ LedgerStays
  BY <1>1 DEF Tables, OthersStay, LedgerStays
<1>3. "committed" \in Carrying
  BY DEF Carrying
<1>4. worker[c].op \in DOMAIN store[c].ops /\ store[c].ops[worker[c].op].state = "inflight"
  BY <1>1, <1>3 DEF WorkerInv, Carried
<1>5. worker[c].revision \in 1 .. Server.revision
  BY <1>1 DEF WorkerInv, LedgerOfSaves
<1>6. store'[c] = Queue!MarkSuccess(store[c], worker[c].op, worker[c].revision)
  BY <1>1 DEF Tables
<1>7. Serves(store[c], store'[c], Server.revision, {})
  BY <1>4, <1>5, <1>6, StoresAreOrderly, SuccessServes
<1>8. WorkerInv(c)'
  BY <1>1, IdleWorker DEF Tables
<1>9. WindowInv(c)'
  BY <1>2, WindowStays
<1> QED BY <1>2, <1>7, <1>8, <1>9, DeviceStep

LEMMA FinishFailedKeeps ==
  ASSUME SyncInv, NEW c \in Client, FinishFailed(c), UNCHANGED writers
  PROVE  SyncInv'
<1> USE DEF FinishFailed, serverVars
<1>1. Tables /\ WorkerInv(c)
  BY DEF SyncInv
<1>2. Tables' /\ OthersStay(c) /\ LedgerStays
  BY <1>1 DEF Tables, OthersStay, LedgerStays
<1>3. "failed" \in Carrying
  BY DEF Carrying
<1>4. /\ worker[c].op \in DOMAIN store[c].ops
      /\ store[c].ops[worker[c].op].state = "inflight"
      /\ store[c].ops[worker[c].op].base # NoBase
  BY <1>1, <1>3 DEF WorkerInv, Carried
<1>5. store'[c] = Queue!MarkRetry(store[c], worker[c].op)
  BY <1>1 DEF Tables
<1>6. Serves(store[c], store'[c], Server.revision, {})
  BY <1>4, <1>5, StoresAreOrderly, RetryServes
<1>7. WorkerInv(c)'
  BY <1>1, IdleWorker DEF Tables
<1>8. WindowInv(c)'
  BY <1>2, WindowStays
<1> QED BY <1>2, <1>6, <1>7, <1>8, DeviceStep

LEMMA FinishMergedKeeps ==
  ASSUME SyncInv, NEW c \in Client, FinishMerged(c), UNCHANGED writers
  PROVE  SyncInv'
<1> USE DEF FinishMerged, serverVars
<1>1. Tables /\ WorkerInv(c) /\ WindowInv(c)
  BY DEF SyncInv
<1>2. Tables' /\ OthersStay(c) /\ LedgerStays
  BY <1>1 DEF Tables, OthersStay, LedgerStays
<1>3. WorkerInv(c)'
  BY <1>1, IdleWorker DEF Tables
<1>4. WindowInv(c)'
  <2>1. editor'[c] = worker[c].text /\ worker[c].text \in Content
    BY <1>1 DEF Tables, WorkerInv
  <2>2. versions' = versions /\ Server' = Server
    BY DEF Server
  <2> QED BY <1>1, <2>1, <2>2 DEF WindowInv, Recorded
<1> QED BY <1>2, <1>3, <1>4, QuietStep

LEMMA FinishConflictKeeps ==
  ASSUME SyncInv, NEW c \in Client, FinishConflict(c), UNCHANGED writers
  PROVE  SyncInv'
<1> USE DEF FinishConflict, serverVars
<1>1. Tables
  BY DEF SyncInv
<1>2. Tables' /\ OthersStay(c) /\ LedgerStays
  BY <1>1 DEF Tables, OthersStay, LedgerStays
<1>3. WorkerInv(c)'
  BY <1>1, IdleWorker DEF Tables
<1>4. WindowInv(c)'
  BY <1>2, WindowStays
<1> QED BY <1>2, <1>3, <1>4, QuietStep

LEMMA CrashKeeps ==
  ASSUME SyncInv, NEW c \in Client, Crash(c), UNCHANGED writers
  PROVE  SyncInv'
<1> USE DEF Crash, serverVars
<1>1. Tables /\ WindowInv(c)
  BY DEF SyncInv
<1>2. Tables' /\ OthersStay(c) /\ LedgerStays
  BY <1>1 DEF Tables, OthersStay, LedgerStays
<1>3. store'[c] = Queue!RecoverInterruptedDispatches(store[c])
  BY <1>1 DEF Tables
<1>4. Serves(store[c], store'[c], Server.revision, {})
  BY <1>3, StoresAreOrderly, RestartServes
<1>5. WorkerInv(c)'
  BY <1>1, IdleWorker DEF Tables
<1>6. WindowInv(c)'
  <2>1. gui'[c] = Free /\ pulled'[c] = NoSnapshot /\ editor'[c] = disk[c]
    BY <1>1 DEF Tables
  <2> QED BY <1>1, <2>1 DEF WindowInv, Free
<1>7. commits' = commits
  OBVIOUS
<1> HIDE DEF Crash
<1> QED BY <1>2, <1>4, <1>5, <1>6, <1>7, DeviceStep
-----------------------------------------------------------------------------
(* The steps of the server *)

LEMMA IdsSuffice ==
  ASSUME SyncInv, NEW c \in Client, NEW i \in DOMAIN store[c].ops
  PROVE  <<c, i>> \in Client \X (1 .. 2 * MaxOps)
<1>1. store[c] \in Queue!Store /\ IdsUsed(store[c]) <= 2 * MaxOps
  BY DEF SyncInv, QueuesAreBounded, Bases
<1>2. /\ i \in 1 .. Len(store[c].ops) /\ Len(store[c].ops) \in Nat
      /\ Cardinality(Unnamed(store[c])) \in Nat
  BY <1>1, StoreFields, UnnamedAreFew
<1>3. Len(store[c].ops) <= 2 * MaxOps
  BY <1>1, <1>2, SyncAssumption DEF IdsUsed
<1> QED BY <1>2, <1>3, SyncAssumption

LEMMA IdsAreFresh ==
  ASSUME SyncInv, NEW c \in Client, NEW i \in DOMAIN store[c].ops,
         NEW e \in Client, NEW j \in DOMAIN store[e].ops,
         OperationOf[c, i] = OperationOf[e, j]
  PROVE  c = e /\ i = j
<1>1. <<c, i>> \in Client \X (1 .. 2 * MaxOps)
  BY IdsSuffice, Zenon
<1>2. <<e, j>> \in Client \X (1 .. 2 * MaxOps)
  BY IdsSuffice, Zenon
<1>3. <<c, i>> = <<e, j>>
  BY <1>1, <1>2, SyncAssumption, Zenon
<1> QED BY <1>3

LEMMA NotTheFirst ==
  ASSUME SyncInv, NEW c \in Client, NEW i \in DOMAIN store[c].ops
  PROVE  OperationOf[c, i] # FirstOperation
<1>1. <<c, i>> \in Client \X (1 .. 2 * MaxOps)
  BY IdsSuffice, Zenon
<1> QED BY <1>1, SyncAssumption

\* A version of an operation is on the base the operation names.
LEMMA VersionsRecord ==
  ASSUME SyncInv, NEW c \in Client, NEW i \in DOMAIN store[c].ops,
         NEW v \in versions, v.op = OperationOf[c, i]
  PROVE  Records(v, c, i)
<1>1. v.op = FirstOperation
        \/ \E e \in Client : \E j \in DOMAIN store[e].ops : Records(v, e, j)
  BY DEF SyncInv, LedgerOfSaves
<1>2. v.op # FirstOperation
  BY NotTheFirst
<1>3. PICK e \in Client : \E j \in DOMAIN store[e].ops : Records(v, e, j)
  BY <1>1, <1>2
<1>4. PICK j \in DOMAIN store[e].ops : Records(v, e, j)
  BY <1>3
<1>5. OperationOf[c, i] = OperationOf[e, j]
  BY <1>4 DEF Records
<1>6. c = e /\ i = j
  BY <1>5, IdsAreFresh
<1> QED BY <1>4, <1>6

\* What a request carries.
LEMMA RequestFacts ==
  ASSUME SyncInv, NEW t \in commits
  PROVE  /\ t.request.doc = d0 /\ t.request.project = TheProject
         /\ t.request.path = ThePath /\ t.request.content \in Content
         /\ t.request.deleted = FALSE
         /\ t.request.base \in 1 .. Server.revision /\ Server.revision \in Nat
         /\ \E c \in Client : \E i \in DOMAIN store[c].ops :
              t.request.op = OperationOf[c, i] /\ t.request.base = Base(c, i)
<1>1. Server.revision \in Nat
  BY DEF SyncInv, LedgerOfSaves, DocumentRow, Server
<1>2. PICK c \in Client : \E i \in DOMAIN store[c].ops :
        /\ t.request.op = OperationOf[c, i]
        /\ t.request.base = Base(c, i) /\ Base(c, i) # NoBase
  BY DEF SyncInv, CommitsCarryOperations
<1>3. PICK i \in DOMAIN store[c].ops :
        /\ t.request.op = OperationOf[c, i]
        /\ t.request.base = Base(c, i) /\ Base(c, i) # NoBase
  BY <1>2
<1>4. Base(c, i) \in 1 .. Server.revision
  BY <1>3 DEF SyncInv, QueuesAreBounded, Bases, Base
<1> QED BY <1>1, <1>3, <1>4 DEF SyncInv, CommitsCarryOperations

\* A request is applied only on the document's last revision, once.
LEMMA VerdictFacts ==
  ASSUME SyncInv, NEW t \in commits
  PROVE  LET verdict == CommitVerdict(t.request, t.at) IN
         /\ verdict = "committed" =>
              VersionOf(t.request.op) = {} /\ Server.revision = t.request.base
         /\ verdict = "REVISION_CONFLICT" =>
              VersionOf(t.request.op) = {} /\ Server.revision # t.request.base
         /\ verdict = "replayed" => VersionOf(t.request.op) # {}
         /\ VersionOf(t.request.op) # {} => verdict \in {"replayed", "OPERATION_ID_REUSED"}
<1>1. t.request.doc = d0 /\ t.request.base # 0
  <2>1. t.request.doc = d0 /\ t.request.base \in 1 .. Server.revision /\ Server.revision \in Nat
    BY RequestFacts, Zenon
  <2> QED BY <2>1
<1>2. CommitVerdict(t.request, t.at) =
        IF VersionOf(t.request.op) # {}
        THEN IF \A v \in VersionOf(t.request.op) : SameRequest(v, t.request)
             THEN "replayed" ELSE "OPERATION_ID_REUSED"
        ELSE ContinueVerdict(t.request, t.at)
  BY <1>1 DEF CommitVerdict
<1>3. /\ ContinueVerdict(t.request, t.at) = "committed" => ~ StaleBase(t.request)
      /\ ContinueVerdict(t.request, t.at) = "REVISION_CONFLICT" => StaleBase(t.request)
      /\ ContinueVerdict(t.request, t.at) # "replayed"
  BY DEF ContinueVerdict
<1>4. StaleBase(t.request) <=> Server.revision # t.request.base
  BY <1>1 DEF StaleBase, Server
<1> QED BY <1>2, <1>3, <1>4
\* The ledger only grows, and what it has left behind stays behind.
Advances ==
  /\ Server.revision \in Nat /\ Server'.revision \in Nat
  /\ Server.revision <= Server'.revision
  /\ versions \subseteq versions'
  /\ \A e \in Client : \A j \in DOMAIN store[e].ops : Behind(e, j) => Behind(e, j)'

LEMMA LedgerAdvances ==
  ASSUME SyncInv, NEW t \in commits, FinishCommit(t), store' = store
  PROVE  /\ Advances /\ LedgerOfSaves' /\ DOMAIN documents' = Document
         /\ CommitVerdict(t.request, t.at) = "committed" =>
              \E v \in versions' : v.op = t.request.op /\ v.revision = t.request.base + 1
         /\ CommitVerdict(t.request, t.at) # "committed" =>
              Server' = Server /\ versions' = versions
<1>1. LedgerOfSaves /\ DOMAIN documents = Document /\ Server.revision \in Nat
  BY DEF SyncInv, Tables, LedgerOfSaves, DocumentRow, Server
<1>2. CASE CommitVerdict(t.request, t.at) # "committed"
  <2>1. documents' = documents /\ versions' = versions /\ Server' = Server
    BY <1>2 DEF FinishCommit, Server
  <2>2. LedgerOfSaves'
    BY <1>1, <2>1 DEF LedgerOfSaves, Records, Base
  <2>3. Advances
    <3>1. \A e \in Client : \A j \in DOMAIN store[e].ops : Behind(e, j) => Behind(e, j)'
      <4>1. \A e \in Client : \A j \in DOMAIN store[e].ops : Base(e, j)' = Base(e, j)
        BY DEF Base
      <4> QED BY <2>1, <4>1, BehindStays
    <3> QED BY <1>1, <2>1, <3>1 DEF Advances
  <2> QED BY <1>1, <1>2, <2>1, <2>2, <2>3
<1>3. CASE CommitVerdict(t.request, t.at) = "committed"
  <2> DEFINE r == t.request
             kind == CommitKind(r)
             new == [doc |-> r.doc, project |-> r.project, revision |-> r.base + 1,
                     base |-> r.base, op |-> r.op, client |-> r.client,
                     kind |-> kind, path |-> r.path, content |-> r.content,
                     deleted |-> r.deleted]
             row == [project |-> r.project, path |-> r.path, content |-> r.content,
                     revision |-> r.base + 1, deleted |-> r.deleted]
  <2>1. VersionOf(r.op) = {} /\ Server.revision = r.base
    BY <1>3, VerdictFacts
  <2>2. /\ r.doc = d0 /\ r.project = TheProject /\ r.path = ThePath
        /\ r.content \in Content /\ r.deleted = FALSE /\ r.base \in Nat
    BY <1>1, <2>1, RequestFacts
  <2>3. PICK c \in Client : \E i \in DOMAIN store[c].ops :
          r.op = OperationOf[c, i] /\ r.base = Base(c, i)
    BY RequestFacts, Zenon
  <2>4. PICK i \in DOMAIN store[c].ops : r.op = OperationOf[c, i] /\ r.base = Base(c, i)
    BY <2>3
  <2>5. versions' = versions \cup {new} /\ documents' = [documents EXCEPT ![r.doc] = row]
    BY <1>3, Zenon DEF FinishCommit, Apply
  <2> HIDE DEF r, kind
  <2>6. /\ new.op = r.op /\ new.revision = r.base + 1 /\ new.content = r.content
        /\ row.content = r.content /\ row.revision = r.base + 1
    OBVIOUS
  <2>7. row \in DocumentRow
    <3>1. TheProject \in Project /\ ThePath \in Path
      BY SyncAssumption
    <3>2. r.base + 1 \in Nat \ {0}
      BY <2>2
    <3> QED BY <2>2, <3>1, <3>2 DEF DocumentRow, row
  <2> HIDE DEF new, row
  <2>8. Server' = row /\ DOMAIN documents' = Document /\ documents'[d0] \in DocumentRow
    BY <1>1, <2>2, <2>5, <2>7, SyncAssumption DEF Server, d0
  <2>9. \A v : v = new => Records(v, c, i)'
    BY <2>4, <2>6 DEF Records, Base
  <2>10. LedgerOfSaves'
    <3>1. \A v \in versions' : v.revision \in 1 .. Server'.revision
      BY <1>1, <2>1, <2>2, <2>5, <2>6, <2>8 DEF LedgerOfSaves
    <3>2. \A v \in versions, e \in Client : \A j \in DOMAIN store[e].ops :
            Records(v, e, j) => Records(v, e, j)'
      BY DEF Records, Base
    <3>3. \A v \in versions' : \/ v.op = FirstOperation
            \/ \E e \in Client : \E j \in DOMAIN store'[e].ops : Records(v, e, j)'
      BY <1>1, <2>4, <2>5, <2>9, <3>2 DEF LedgerOfSaves
    <3>4. \E v \in versions' :
            v.revision = Server'.revision /\ v.content = Server'.content
      BY <2>5, <2>6, <2>8
    <3> QED BY <2>8, <3>1, <3>3, <3>4 DEF LedgerOfSaves
  <2>11. Advances
    <3>1. ASSUME NEW e \in Client, NEW j \in DOMAIN store[e].ops, Behind(e, j)
          PROVE  Behind(e, j)'
      <4>1. OperationOf[e, j] # r.op
        <5>1. SUFFICES ASSUME OperationOf[e, j] = r.op PROVE FALSE
          OBVIOUS
        <5>2. e = c /\ j = i
          BY <2>4, <5>1, IdsAreFresh
        <5>3. Base(e, j) < Server.revision
          BY <3>1 DEF Behind
        <5>4. Base(e, j) = Server.revision
          BY <2>1, <2>4, <5>2
        <5> HIDE DEF Base
        <5> QED BY <1>1, <5>3, <5>4
      <4>2. VersionOf(OperationOf[e, j])' = {}
        BY <2>5, <2>6, <3>1, <4>1 DEF VersionOf, Behind
      <4>3. Base(e, j)' = Base(e, j) /\ Base(e, j) # NoBase
        BY <3>1 DEF Base, Behind
      <4>4. Base(e, j) < Server'.revision
        <5>1. Base(e, j) \in Nat /\ Base(e, j) < Server.revision
          <6>1. Base(e, j) < Server.revision
            BY <3>1 DEF Behind
          <6>2. Base(e, j) \in (1 .. Server.revision) \cup {NoBase}
            BY <3>1 DEF SyncInv, QueuesAreBounded, Bases, Base
          <6> QED BY <1>1, <4>3, <6>1, <6>2
        <5> QED BY <1>1, <2>1, <2>6, <2>8, <5>1
      <4> QED BY <4>2, <4>3, <4>4 DEF Behind
    <3> QED BY <1>1, <2>1, <2>5, <2>6, <2>8, <3>1 DEF Advances
  <2>12. \E v \in versions' : v.op = r.op /\ v.revision = r.base + 1
    BY <2>5, <2>6
  <2> QED BY <1>3, <2>8, <2>10, <2>11, <2>12 DEF r
<1> QED BY <1>2, <1>3
\* A worker, and a window, that do not move while the ledger grows.
LEMMA WorkerWaits ==
  ASSUME SyncInv, Advances, store' = store, NEW e \in Client, worker'[e] = worker[e]
  PROVE  WorkerInv(e)'
<1>1. WorkerInv(e)
  BY DEF SyncInv
<1>2. Carried(e)' = Carried(e) /\ \A i : Base(e, i)' = Base(e, i)
  BY DEF Carried, Base
<1>3. \A v, i : Records(v, e, i) => Records(v, e, i)'
  BY <1>2 DEF Records
<1>4. worker[e].phase = "committed" =>
        \E v \in versions' : Records(v, e, worker[e].op)' /\ v.revision = worker[e].revision
  BY <1>1, <1>3 DEF WorkerInv, Advances
<1>5. worker[e].phase \in Refused => Behind(e, worker[e].op)'
  <2>1. Refused \subseteq Carrying
    BY DEF Carrying
  <2> QED BY <1>1, <2>1 DEF WorkerInv, Advances
<1>6. \A n : n \in 1 .. Server.revision => n \in 1 .. Server'.revision
  BY DEF Advances
<1> QED BY <1>1, <1>2, <1>4, <1>5, <1>6 DEF WorkerInv

LEMMA WindowWaits ==
  ASSUME SyncInv, Advances, NEW e \in Client,
         UNCHANGED <<gui, pulled, disk, editor>>
  PROVE  WindowInv(e)'
<1>1. WindowInv(e)
  BY DEF SyncInv
<1>2. \A n : n \in 1 .. Server.revision => n \in 1 .. Server'.revision
  BY DEF Advances
<1>3. versions \subseteq versions'
  BY DEF Advances
<1>4. Recorded(pulled[e]) => Recorded(pulled[e])'
  BY <1>2, <1>3 DEF Recorded
<1> QED BY <1>1, <1>4 DEF WindowInv

LEMMA ServerStep ==
  ASSUME SyncInv, NEW t \in commits, FinishCommit(t),
         UNCHANGED <<store, gui, pulled, disk, editor, writers>>,
         DOMAIN worker' = Client,
         \A e \in Client : worker'[e] = worker[e] \/ WorkerInv(e)'
  PROVE  SyncInv'
<1>1. Advances /\ LedgerOfSaves' /\ DOMAIN documents' = Document
  BY LedgerAdvances
<1>2. Tables'
  BY <1>1 DEF SyncInv, Tables
<1>3. CommitsCarryOperations'
  <2>1. commits' \subseteq commits /\ CommitsCarryOperations
    BY DEF FinishCommit, SyncInv
  <2> QED BY <2>1 DEF CommitsCarryOperations, Base
<1>4. QueuesAreBounded'
  <2>1. \A n : n \in 1 .. Server.revision => n \in 1 .. Server'.revision
    BY <1>1 DEF Advances
  <2>2. \A c \in Client : Bases(store[c], Server.revision) => Bases(store[c], Server'.revision)
    BY <2>1 DEF Bases
  <2>3. QueuesAreBounded
    BY DEF SyncInv
  <2>4. \A c \in Client : Bases(store'[c], Server'.revision) /\ IdsUsed(store'[c]) <= 2 * MaxOps
    BY <2>2, <2>3 DEF QueuesAreBounded
  <2> QED BY <2>4 DEF QueuesAreBounded, Bases, IdsUsed, Unnamed
<1>5. ConflictsAreBehind'
  BY <1>1 DEF SyncInv, ConflictsAreBehind, Advances
<1>6. \A e \in Client : WorkerInv(e)' /\ WindowInv(e)'
  BY <1>1, WorkerWaits, WindowWaits
<1>7. (writers \subseteq Client)'
  BY DEF SyncInv
<1> QED BY <1>1, <1>2, <1>3, <1>4, <1>5, <1>6, <1>7 DEF SyncInv

LEMMA CommitAnsweredKeeps ==
  ASSUME SyncInv, NEW c \in Client, CommitAnswered(c), UNCHANGED writers
  PROVE  SyncInv'
<1> PICK t \in commits : t = worker[c].call
  BY DEF CommitAnswered
<1> PICK op : op = worker[c].op
  OBVIOUS
<1> DEFINE verdict == CommitVerdict(t.request, t.at)
<1>1. Tables /\ WorkerInv(c)
  BY DEF SyncInv
<1>2. /\ worker[c].phase = "committing" /\ t \in commits /\ FinishCommit(t)
      /\ worker' = [worker EXCEPT ![c] = Outcome(c, verdict)]
      /\ UNCHANGED <<store, gui, pulled, disk, editor>>
  BY Zenon DEF CommitAnswered, Learn, AtWorker
<1>3. /\ DOMAIN worker' = Client /\ worker'[c] = Outcome(c, verdict)
      /\ \A e \in Client \ {c} : worker'[e] = worker[e]
  BY <1>1, <1>2 DEF Tables
<1>4. /\ op \in DOMAIN store[c].ops /\ Carried(c).base # NoBase
      /\ Carried(c).state = "inflight"
      /\ t.request.op = OperationOf[c, op] /\ t.request.base = Carried(c).base
  BY <1>1, <1>2 DEF WorkerInv, Carrying
<1>5. Carried(c).base = Base(c, op)
  BY DEF Carried, Base
<1>6. /\ Advances
      /\ verdict = "committed" =>
           \E v \in versions' : v.op = t.request.op /\ v.revision = t.request.base + 1
      /\ verdict # "committed" => Server' = Server /\ versions' = versions
  BY <1>2, LedgerAdvances, Zenon
<1>7. /\ verdict = "REVISION_CONFLICT" =>
           VersionOf(t.request.op) = {} /\ Server.revision # t.request.base
      /\ verdict = "replayed" => VersionOf(t.request.op) # {}
  BY <1>2, VerdictFacts, Zenon
<1> HIDE DEF verdict
<1>8. WorkerInv(c)'
  <2>1. /\ op \in DOMAIN store'[c].ops /\ store'[c].ops[op].base # NoBase
        /\ store'[c].ops[op].state = "inflight" /\ Base(c, op)' = Base(c, op)
    BY <1>2, <1>4 DEF Carried, Base
  <2>2. ASSUME worker'[c].op = op,
               worker'[c].phase \in {"committed", "rejected", "failed"},
               worker'[c].phase = "committed" =>
                 \E v \in versions' : Records(v, c, op)' /\ v.revision = worker'[c].revision,
               worker'[c].phase = "rejected" => Behind(c, op)'
        PROVE  WorkerInv(c)'
    <3>1. worker'[c].phase \in Carrying
      BY <2>2 DEF Carrying, Refused
    <3>2. Carried(c)' = store'[c].ops[op]
      BY <2>2 DEF Carried
    <3> QED BY <2>1, <2>2, <3>1, <3>2 DEF WorkerInv, Refused
  <2>3. CASE verdict = "committed"
    <3>1. /\ worker'[c].phase = "committed" /\ worker'[c].op = op
          /\ worker'[c].revision = Carried(c).base + 1
      BY <1>3, <2>3 DEF Outcome
    <3>2. PICK v \in versions' : v.op = t.request.op /\ v.revision = t.request.base + 1
      BY <1>6, <2>3
    <3>3. Records(v, c, op)' /\ v.revision = worker'[c].revision
      BY <1>4, <1>5, <2>1, <3>1, <3>2 DEF Records
    <3> QED BY <2>2, <3>1, <3>3
  <2>4. CASE verdict = "replayed"
    <3>0. PICK v : v = CHOOSE x \in VersionOf(OperationOf[c, op]) : TRUE
      OBVIOUS
    <3>1. v \in versions /\ v.op = OperationOf[c, op]
      BY <1>4, <1>7, <2>4, <3>0 DEF VersionOf
    <3>2. /\ worker'[c].phase = "committed" /\ worker'[c].op = op
          /\ worker'[c].revision = v.revision
      <4>1. Outcome(c, "replayed") =
              [phase |-> "committed", op |-> worker[c].op,
               revision |-> (CHOOSE x \in VersionOf(OperationOf[c, worker[c].op]) : TRUE).revision]
        BY DEF Outcome
      <4>2. worker'[c] = [phase |-> "committed", op |-> op, revision |-> v.revision]
        BY <1>3, <2>4, <3>0, <4>1, Zenon
      <4> QED BY <4>2
    <3>3. Records(v, c, op)
      BY <1>4, <3>1, VersionsRecord
    <3>4. Records(v, c, op)' /\ v \in versions'
      BY <1>6, <2>1, <3>1, <3>3 DEF Records, Advances
    <3> QED BY <2>2, <3>2, <3>4
  <2>5. CASE verdict = "REVISION_CONFLICT"
    <3>1. worker'[c].phase = "rejected" /\ worker'[c].op = op
      BY <1>3, <2>5 DEF Outcome
    <3>2. Base(c, op) \in 1 .. Server.revision /\ Server.revision \in Nat
      <4>1. t.request.base \in 1 .. Server.revision /\ Server.revision \in Nat
        BY RequestFacts, Zenon
      <4> QED BY <1>4, <1>5, <4>1
    <3>3. Base(c, op) < Server.revision
      <4>1. Base(c, op) # Server.revision
        BY <1>4, <1>5, <1>7, <2>5, Zenon
      <4> QED BY <3>2, <4>1
    <3>4. Behind(c, op)
      BY <1>4, <1>5, <1>7, <2>5, <3>3 DEF Behind
    <3>5. Behind(c, op)'
      BY <1>4, <1>6, <3>4 DEF Advances
    <3> QED BY <2>2, <3>1, <3>5
  <2>6. CASE verdict \notin {"committed", "replayed", "REVISION_CONFLICT"}
    <3>1. worker'[c].phase = "failed" /\ worker'[c].op = op
      BY <1>3, <2>6 DEF Outcome
    <3> QED BY <2>2, <3>1
  <2> QED BY <2>3, <2>4, <2>5, <2>6
<1>9. \A e \in Client : worker'[e] = worker[e] \/ WorkerInv(e)'
  BY <1>3, <1>8
<1> QED BY <1>2, <1>3, <1>9, ServerStep
LEMMA StrayCallKeeps ==
  ASSUME SyncInv, StrayCall, UNCHANGED writers
  PROVE  SyncInv'
<1>1. UNCHANGED <<store, gui, pulled, disk, editor, worker>>
  BY DEF StrayCall, deviceVars
<1>2. DOMAIN worker = Client
  BY DEF SyncInv, Tables
<1>3. CASE \E t \in commits : FinishCommit(t)
  <2>1. PICK t \in commits : FinishCommit(t)
    BY <1>3
  <2> QED BY <1>1, <1>2, <2>1, ServerStep
<1>4. CASE \E a \in acquires : FinishAcquire(a)
  <2>1. UNCHANGED <<documents, versions, commits>>
    BY <1>4 DEF FinishAcquire
  <2>2. LedgerStays
    BY <2>1 DEF LedgerStays
  <2>3. \A e \in Client : OthersStay(e) /\ WorkerInv(e)' /\ WindowInv(e)'
    BY <1>1, <2>2, WorkerStays, WindowStays DEF OthersStay, Base
  <2>4. Tables'
    BY <1>1, <2>1 DEF SyncInv, Tables
  <2>5. CASE Client = {}
    BY <1>1, <2>1, <2>4, <2>5 DEF SyncInv, LedgerOfSaves, CommitsCarryOperations,
       QueuesAreBounded, ConflictsAreBehind, Server
  <2>6. CASE Client # {}
    <3>1. PICK e \in Client : TRUE
      BY <2>6
    <3> QED BY <1>1, <2>1, <2>2, <2>3, <2>4, QuietStep
  <2> QED BY <2>5, <2>6
<1> QED BY <1>3, <1>4 DEF StrayCall

LEMMA TickKeeps ==
  ASSUME SyncInv, Tick, UNCHANGED deviceVars, UNCHANGED writers
  PROVE  SyncInv'
<1>1. UNCHANGED <<store, gui, pulled, disk, editor, worker, documents, versions, commits, writers>>
  BY DEF Tick, deviceVars
<1>2. Server' = Server
  BY <1>1 DEF Server
<1>3. Tables' /\ (writers \subseteq Client)'
  BY <1>1 DEF SyncInv, Tables
<1>4. LedgerOfSaves' /\ CommitsCarryOperations'
  BY <1>1, <1>2 DEF SyncInv, LedgerOfSaves, CommitsCarryOperations, Records, Base
<1>5. QueuesAreBounded' /\ ConflictsAreBehind'
  <2>1. QueuesAreBounded'
    BY <1>1, <1>2 DEF SyncInv, QueuesAreBounded, Bases, IdsUsed, Unnamed
  <2>2. ConflictsAreBehind'
    BY <1>1, <1>2 DEF SyncInv, ConflictsAreBehind, Behind, Base, VersionOf
  <2> QED BY <2>1, <2>2
<1>6. \A e \in Client : WorkerInv(e)' /\ WindowInv(e)'
  BY <1>1, WorkerStays, WindowStays DEF LedgerStays, Base
<1> QED BY <1>3, <1>4, <1>5, <1>6 DEF SyncInv

\* A worker that goes on with its operation and has learned nothing of the
\* server's text.
LEMMA WorkerGoesOn ==
  ASSUME SyncInv, NEW c \in Client, worker[c].phase \in Carrying,
         worker'[c].op = worker[c].op,
         worker'[c].phase \in {"acquiring", "leased", "failed"}, store'[c] = store[c]
  PROVE  WorkerInv(c)'
<1>1. /\ worker[c].op \in DOMAIN store[c].ops
      /\ Carried(c).base # NoBase /\ Carried(c).state = "inflight"
  BY DEF SyncInv, WorkerInv
<1>2. Carried(c)' = Carried(c)
  BY DEF Carried
<1> QED BY <1>1, <1>2 DEF WorkerInv, Carrying, Refused

LEMMA GiveBackLeaseKeeps ==
  ASSUME SyncInv, NEW c \in Client, GiveBackLease(c), UNCHANGED writers
  PROVE  SyncInv'
<1>1. UNCHANGED <<store, gui, pulled, disk, editor, worker, documents, versions, commits>>
  BY DEF GiveBackLease, ReleaseLease, serverVars
<1>2. Tables' /\ OthersStay(c) /\ LedgerStays
  BY <1>1 DEF SyncInv, Tables, OthersStay, LedgerStays
<1>3. WorkerInv(c)' /\ WindowInv(c)'
  BY <1>1, <1>2, WorkerStays, WindowStays DEF Base
<1> QED BY <1>1, <1>2, <1>3, QuietStep

LEMMA StartAcquireKeeps ==
  ASSUME SyncInv, NEW c \in Client, StartAcquire(c), UNCHANGED writers
  PROVE  SyncInv'
<1> USE DEF StartAcquire, Learn, AtWorker
<1>1. Tables
  BY DEF SyncInv
<1>2. UNCHANGED <<documents, versions, commits, store>>
  BY DEF BeginAcquire
<1>3. Tables' /\ OthersStay(c) /\ LedgerStays
  BY <1>1, <1>2 DEF Tables, OthersStay, LedgerStays
<1>4. worker'[c].phase = "acquiring" /\ worker'[c].op = worker[c].op
  BY <1>1 DEF Tables
<1>5. WorkerInv(c)'
  BY <1>2, <1>4, WorkerGoesOn DEF Carrying
<1>6. WindowInv(c)'
  BY <1>3, WindowStays
<1> QED BY <1>2, <1>3, <1>5, <1>6, QuietStep

LEMMA AcquireAnsweredKeeps ==
  ASSUME SyncInv, NEW c \in Client, AcquireAnswered(c), UNCHANGED writers
  PROVE  SyncInv'
<1>1. Tables
  BY DEF SyncInv
<1>2. /\ UNCHANGED <<documents, versions, commits, store, gui, pulled, disk, editor>>
      /\ worker[c].phase = "acquiring"
      /\ \/ worker' = [worker EXCEPT ![c] = [phase |-> "leased", op |-> worker[c].op,
                                              token |-> leases'[d0].token]]
         \/ worker' = [worker EXCEPT ![c] = [phase |-> "failed", op |-> worker[c].op]]
  BY Zenon DEF AcquireAnswered, FinishAcquire, Learn, AtWorker
<1>3. Tables' /\ OthersStay(c) /\ LedgerStays
  BY <1>1, <1>2 DEF Tables, OthersStay, LedgerStays
<1>4. worker'[c].phase \in {"leased", "failed"} /\ worker'[c].op = worker[c].op
  BY <1>1, <1>2 DEF Tables
<1>5. WorkerInv(c)'
  BY <1>2, <1>4, WorkerGoesOn DEF Carrying
<1>6. WindowInv(c)'
  BY <1>2, <1>3, WindowStays
<1> QED BY <1>2, <1>3, <1>5, <1>6, QuietStep

LEMMA SendCommitKeeps ==
  ASSUME SyncInv, NEW c \in Client, SendCommit(c), UNCHANGED writers
  PROVE  SyncInv'
<1> PICK op : op = worker[c].op
  OBVIOUS
<1> DEFINE r == RequestOf(c, worker[c].token)
           call == [request |-> r, at |-> now]
<1>1. Tables /\ WorkerInv(c) /\ CommitsCarryOperations
  BY DEF SyncInv
<1>2. /\ UNCHANGED <<documents, versions, store, gui, pulled, disk, editor>>
      /\ worker[c].phase = "leased" /\ commits' = commits \cup {call}
      /\ worker' = [worker EXCEPT ![c] = [phase |-> "committing", op |-> op,
                                           call |-> call]]
  BY Zenon DEF SendCommit, BeginCommit, Learn, AtWorker
<1>3. Tables' /\ OthersStay(c) /\ LedgerStays
  BY <1>1, <1>2 DEF Tables, OthersStay, LedgerStays
<1>4. /\ op \in DOMAIN store[c].ops /\ Carried(c).base # NoBase
      /\ Carried(c).state = "inflight" /\ Carried(c) = store[c].ops[op]
  BY <1>1, <1>2 DEF WorkerInv, Carrying, Carried
<1>5. /\ r.op = OperationOf[c, op] /\ r.base = Carried(c).base
      /\ r.doc = d0 /\ r.project = TheProject /\ r.path = ThePath
      /\ r.content = Carried(c).text /\ r.deleted = FALSE
  BY DEF RequestOf
<1>6. Carried(c).text \in Content
  <2>1. store[c] \in Queue!Store
    BY StoresAreOrderly DEF Orderly, Bases
  <2> QED BY <1>4, <2>1, StoreFields DEF Queue!OpRow
<1> HIDE DEF r
<1>7. call.request = r
  OBVIOUS
<1> HIDE DEF call
<1>8. CommitsCarryOperations'
  <2>1. ASSUME NEW t \in commits'
        PROVE  /\ t.request.doc = d0 /\ t.request.project = TheProject
               /\ t.request.path = ThePath /\ t.request.content \in Content
               /\ t.request.deleted = FALSE
               /\ \E e \in Client : \E i \in DOMAIN store'[e].ops :
                    /\ t.request.op = OperationOf[e, i]
                    /\ t.request.base = Base(e, i)' /\ Base(e, i)' # NoBase
    <3>1. \A e, i : Base(e, i)' = Base(e, i)
      BY <1>2 DEF Base
    <3>2. CASE t \in commits
      BY <1>1, <1>2, <3>1, <3>2 DEF CommitsCarryOperations
    <3>3. CASE t = call
      <4>1. r.op = OperationOf[c, op] /\ r.base = Base(c, op)' /\ Base(c, op)' # NoBase
        <5>1. Base(c, op) = Carried(c).base
          BY <1>4 DEF Base
        <5> QED BY <1>4, <1>5, <3>1, <5>1
      <4> QED BY <1>2, <1>4, <1>5, <1>6, <1>7, <3>3, <4>1
    <3> QED BY <1>2, <3>2, <3>3
  <2> QED BY <2>1 DEF CommitsCarryOperations
<1>9. WorkerInv(c)'
  <2>1. worker'[c] = [phase |-> "committing", op |-> op, call |-> call]
    BY <1>1, <1>2 DEF Tables
  <2>2. worker'[c].phase = "committing" /\ worker'[c].op = op /\ worker'[c].call.request = r
    BY <1>7, <2>1
  <2>3. Carried(c)' = Carried(c)
    BY <1>2, <1>4, <2>2 DEF Carried
  <2> QED BY <1>2, <1>4, <1>5, <2>2, <2>3 DEF WorkerInv, Carrying, Refused
<1>10. WindowInv(c)'
  BY <1>2, <1>3, WindowStays
<1> QED BY <1>2, <1>3, <1>8, <1>9, <1>10, QuietStep

LEMMA AttemptFailsKeeps ==
  ASSUME SyncInv, NEW c \in Client, AttemptFails(c), UNCHANGED writers
  PROVE  SyncInv'
<1> USE DEF AttemptFails, Learn, AtWorker, serverVars
<1>1. Tables
  BY DEF SyncInv
<1>2. Tables' /\ OthersStay(c) /\ LedgerStays
  BY <1>1 DEF Tables, OthersStay, LedgerStays
<1>3. worker'[c].phase = "failed" /\ worker'[c].op = worker[c].op
  BY <1>1 DEF Tables
<1>4. WorkerInv(c)'
  BY <1>3, WorkerGoesOn DEF Carrying, Refused
<1>5. WindowInv(c)'
  BY <1>2, WindowStays
<1> QED BY <1>2, <1>4, <1>5, QuietStep
\* A worker that has read the server's text.
LEMMA WorkerKnows ==
  ASSUME SyncInv, NEW c \in Client, worker[c].phase \in Refused, LedgerStays,
         worker'[c].op = worker[c].op, worker'[c].phase \in Refused \ {"rejected"},
         store'[c] = store[c],
         worker'[c].revision \in 1 .. Server.revision, worker'[c].remote \in Content,
         worker'[c].phase = "merged" => worker'[c].text \in Content,
         worker'[c].phase = "clashing" => worker'[c].local \in Content
  PROVE  WorkerInv(c)'
<1> PICK op : op = worker[c].op
  OBVIOUS
<1>1. Refused \subseteq Carrying /\ worker'[c].phase \in {"fetched", "merged", "clashing"}
  BY DEF Carrying, Refused
<1>2. /\ op \in DOMAIN store[c].ops /\ Behind(c, op)
      /\ Carried(c).base # NoBase /\ Carried(c).state = "inflight"
  BY <1>1 DEF SyncInv, WorkerInv
<1>3. Carried(c)' = Carried(c) /\ Base(c, op)' = Base(c, op)
  BY DEF Carried, Base
<1>4. Behind(c, op)'
  BY <1>2, <1>3, BehindStays DEF LedgerStays
<1>5. Server' = Server
  BY DEF LedgerStays, Server
<1>6. worker'[c].phase \in Carrying
  BY <1>1 DEF Carrying, Refused
<1> QED BY <1>1, <1>2, <1>3, <1>4, <1>5, <1>6 DEF WorkerInv

LEMMA ReadServerKeeps ==
  ASSUME SyncInv, NEW c \in Client, ReadServer(c), UNCHANGED writers
  PROVE  SyncInv'
<1> USE DEF ReadServer, Learn, AtWorker, serverVars
<1>1. Tables /\ LedgerOfSaves
  BY DEF SyncInv
<1>2. Tables' /\ OthersStay(c) /\ LedgerStays
  BY <1>1 DEF Tables, OthersStay, LedgerStays
<1>3. /\ worker'[c].phase = "fetched" /\ worker'[c].op = worker[c].op
      /\ worker'[c].revision = Server.revision /\ worker'[c].remote = Server.content
  BY <1>1 DEF Tables
<1>4. Server.revision \in Nat \ {0} /\ Server.content \in Content
  BY <1>1 DEF LedgerOfSaves, DocumentRow, Server
<1>5. worker'[c].revision \in 1 .. Server.revision
  BY <1>3, <1>4
<1>6. worker[c].phase = "rejected" /\ store'[c] = store[c]
  OBVIOUS
<1> HIDE DEF ReadServer
<1>7. WorkerInv(c)'
  BY <1>2, <1>3, <1>4, <1>5, <1>6, WorkerKnows DEF Refused
<1>8. WindowInv(c)' /\ commits' = commits
  BY <1>2, WindowStays DEF ReadServer
<1> QED BY <1>2, <1>6, <1>7, <1>8, QuietStep

LEMMA ReadFileKeeps ==
  ASSUME SyncInv, NEW c \in Client, ReadFile(c), UNCHANGED writers
  PROVE  SyncInv'
<1> PICK from, local, remote, op :
      /\ from = Carried(c).from /\ local = disk[c]
      /\ remote = worker[c].remote /\ op = worker[c].op
  OBVIOUS
<1>1. Tables /\ WorkerInv(c) /\ WindowInv(c)
  BY DEF SyncInv
<1>2. /\ UNCHANGED <<documents, versions, commits, store, gui, pulled, disk, editor>>
      /\ worker[c].phase = "fetched"
      /\ \/ worker' = [worker EXCEPT ![c] =
               [phase |-> "merged", op |-> op, revision |-> worker[c].revision,
                remote |-> remote, text |-> Merged(from, local, remote)]]
         \/ worker' = [worker EXCEPT ![c] =
               [phase |-> "clashing", op |-> op, revision |-> worker[c].revision,
                remote |-> remote, local |-> local]]
  BY Zenon DEF ReadFile, Learn, AtWorker, serverVars
<1>3. Tables' /\ OthersStay(c) /\ LedgerStays
  BY <1>1, <1>2 DEF Tables, OthersStay, LedgerStays
<1>4. /\ worker[c].revision \in 1 .. Server.revision
      /\ remote \in Content /\ local \in Content
  BY <1>1, <1>2 DEF WorkerInv, WindowInv, Refused
<1>5. Merged(from, local, remote) \in Content
  BY <1>4, SyncAssumption DEF Merged
<1>6. /\ worker'[c].op = op /\ worker'[c].phase \in {"merged", "clashing"}
      /\ worker'[c].revision \in 1 .. Server.revision /\ worker'[c].remote \in Content
      /\ worker'[c].phase = "merged" => worker'[c].text \in Content
      /\ worker'[c].phase = "clashing" => worker'[c].local \in Content
  BY <1>1, <1>2, <1>4, <1>5 DEF Tables
<1>7. WorkerInv(c)'
  BY <1>2, <1>3, <1>6, WorkerKnows DEF Refused
<1>8. WindowInv(c)'
  BY <1>2, <1>3, WindowStays
<1> QED BY <1>2, <1>3, <1>7, <1>8, QuietStep

LEMMA RebaseKeeps ==
  ASSUME SyncInv, NEW c \in Client, Rebase(c), UNCHANGED writers
  PROVE  SyncInv'
<1> PICK w : w = worker[c]
  OBVIOUS
<1>1. Tables /\ WorkerInv(c)
  BY DEF SyncInv
<1>2. /\ UNCHANGED <<documents, versions, commits, gui, pulled, disk, editor>>
      /\ w.phase = "merged" /\ Len(store[c].ops) < MaxOps
      /\ store' = [store EXCEPT ![c] = Queue!RebaseCleanMerge(
                     store[c], w.op, w.revision, w.remote, w.text)]
      /\ worker' = [worker EXCEPT ![c] = [phase |-> "rebased", text |-> w.text]]
  BY DEF Rebase, Learn, AtWorker, serverVars
<1>3. Tables' /\ OthersStay(c) /\ LedgerStays
  BY <1>1, <1>2 DEF Tables, OthersStay, LedgerStays
<1>4. /\ w.op \in DOMAIN store[c].ops /\ w.revision \in 1 .. Server.revision
      /\ w.remote \in Content /\ w.text \in Content
  BY <1>1, <1>2 DEF WorkerInv, Carrying, Refused
<1>5. store'[c] = Queue!RebaseCleanMerge(store[c], w.op, w.revision, w.remote, w.text)
  BY <1>1, <1>2 DEF Tables
<1>6. Serves(store[c], store'[c], Server.revision, {})
  BY <1>2, <1>4, <1>5, StoresAreOrderly, RebaseServes
<1>7. WorkerInv(c)'
  <2>1. worker'[c].phase = "rebased" /\ worker'[c].text \in Content
    BY <1>1, <1>2, <1>4 DEF Tables
  <2> QED BY <2>1 DEF WorkerInv, Carrying, Refused
<1>8. WindowInv(c)'
  BY <1>2, <1>3, WindowStays
<1>9. commits' = commits
  BY <1>2
<1> QED BY <1>3, <1>6, <1>7, <1>8, <1>9, DeviceStep

LEMMA WriteMergedKeeps ==
  ASSUME SyncInv, NEW c \in Client, WriteMerged(c), UNCHANGED writers
  PROVE  SyncInv'
<1> USE DEF WriteMerged, Learn, serverVars
<1>1. Tables /\ WorkerInv(c) /\ WindowInv(c)
  BY DEF SyncInv
<1>2. Tables' /\ OthersStay(c) /\ LedgerStays
  BY <1>1 DEF Tables, OthersStay, LedgerStays
<1>3. /\ worker'[c].phase = "written" /\ worker'[c].text = worker[c].text
      /\ disk'[c] = worker[c].text /\ worker[c].text \in Content
  BY <1>1 DEF Tables, WorkerInv
<1>4. WorkerInv(c)'
  BY <1>3 DEF WorkerInv, Carrying, Refused
<1>5. WindowInv(c)'
  <2>1. versions' = versions /\ Server' = Server
    BY DEF Server
  <2> QED BY <1>1, <1>3, <2>1 DEF WindowInv, Recorded
<1> QED BY <1>2, <1>4, <1>5, QuietStep

LEMMA StopAtConflictKeeps ==
  ASSUME SyncInv, NEW c \in Client, StopAtConflict(c), UNCHANGED writers
  PROVE  SyncInv'
<1> PICK w : w = worker[c]
  OBVIOUS
<1>1. Tables /\ WorkerInv(c)
  BY DEF SyncInv
<1>2. /\ UNCHANGED <<documents, versions, commits, gui, pulled, disk, editor>>
      /\ w.phase = "clashing"
      /\ store' = [store EXCEPT ![c] = Queue!MarkConflict(
                     store[c], w.op, w.revision, w.remote, w.local)]
      /\ worker' = [worker EXCEPT ![c] =
                      [phase |-> "conflict", local |-> w.local, remote |-> w.remote]]
  BY DEF StopAtConflict, Learn, AtWorker, serverVars
<1>3. Tables' /\ OthersStay(c) /\ LedgerStays
  BY <1>1, <1>2 DEF Tables, OthersStay, LedgerStays
<1>4. /\ w.op \in DOMAIN store[c].ops /\ w.revision \in 1 .. Server.revision
      /\ w.remote \in Content /\ w.local \in Content /\ Behind(c, w.op)
      /\ store[c].ops[w.op].base # NoBase
  BY <1>1, <1>2 DEF WorkerInv, Carrying, Refused, Carried
<1>5. store'[c] = Queue!MarkConflict(store[c], w.op, w.revision, w.remote, w.local)
  BY <1>1, <1>2 DEF Tables
<1>6. Serves(store[c], store'[c], Server.revision, {w.op})
  BY <1>4, <1>5, StoresAreOrderly, ConflictServes
<1>7. WorkerInv(c)'
  <2>1. worker'[c].phase = "conflict"
    BY <1>1, <1>2 DEF Tables
  <2> QED BY <2>1 DEF WorkerInv, Carrying, Refused
<1>8. WindowInv(c)'
  BY <1>2, <1>3, WindowStays
<1> QED BY <1>2, <1>3, <1>4, <1>6, <1>7, <1>8, DeviceStep
-----------------------------------------------------------------------------
(* What the server has applied is never shown as a conflict *)

LEMMA EmptyQueue ==
  ASSUME NEW s, s = [ops |-> <<>>, rows |-> [d \in {d0} |-> Queue!CleanRow(1, {})]]
  PROVE  /\ Bases(s, 1) /\ IdsUsed(s) <= 2 * MaxOps /\ DOMAIN s.ops = {}
         /\ s.rows[d0].revision = 1 /\ s.rows[d0].clash = {}
<1> DEFINE row == Queue!CleanRow(1, {})
<1>1. {} \in Content
  BY SyncAssumption
<1>2. row \in Queue!Row /\ row.revision = 1 /\ row.clash = {}
  BY <1>1 DEF Queue!CleanRow, Queue!Row
<1> HIDE DEF row
<1>3. row # NoRow
  BY <1>2, SyncAssumption
<1>4. s.ops = <<>> /\ s.rows = [d \in {d0} |-> row]
  BY Zenon DEF row
<1>5. s \in Queue!Store /\ Len(s.ops) = 0 /\ DOMAIN s.ops = {} /\ s.rows[d0] = row
  <2>1. s = [ops |-> <<>>, rows |-> [d \in {d0} |-> row]]
    BY Zenon DEF row
  <2>2. <<>> \in Seq(Queue!OpRow) /\ [d \in {d0} |-> row] \in [{d0} -> Queue!Row \cup {NoRow}]
    BY <1>2
  <2>3. s \in Queue!Store
    BY <2>1, <2>2 DEF Queue!Store, d0
  <2> QED BY <1>4, <2>3
<1>6. Bases(s, 1)
  BY <1>2, <1>3, <1>5 DEF Bases
<1>7. IdsUsed(s) <= 2 * MaxOps
  <2>1. Unnamed(s) = {}
    BY <1>5 DEF Unnamed
  <2>2. IdsUsed(s) = 0
    BY <1>5, <2>1, FS_EmptySet DEF IdsUsed
  <2> QED BY <2>2, SyncAssumption
<1> QED BY <1>2, <1>5, <1>6, <1>7

LEMMA SyncInitInv ==
  ASSUME SyncInit
  PROVE  SyncInv
<1> DEFINE row == [project |-> TheProject, path |-> ThePath, content |-> {},
                   revision |-> 1, deleted |-> FALSE]
           first == FirstVersion(CHOOSE c \in Client : TRUE)
<1>1. Tables /\ writers \subseteq Client
  BY SyncAssumption, Zenon DEF SyncInit, Tables
<1>2. {} \in Content
  BY SyncAssumption
<1>3. row \in DocumentRow /\ row.revision = 1 /\ row.content = {}
  BY <1>2, SyncAssumption DEF DocumentRow
<1>4. documents[d0] = row
  BY SyncAssumption, Zenon DEF SyncInit, d0
<1>5. versions = {first}
  BY Zenon DEF SyncInit
<1>6. first.revision = 1 /\ first.content = {} /\ first.op = FirstOperation
  BY DEF FirstVersion
<1> HIDE DEF row, first
<1>7. LedgerOfSaves
  <2>1. Server.revision = 1 /\ Server.content = {}
    BY <1>3, <1>4 DEF Server
  <2> QED BY <1>3, <1>4, <1>5, <1>6, <2>1 DEF LedgerOfSaves
<1>8. CommitsCarryOperations
  BY Zenon DEF SyncInit, CommitsCarryOperations
<1>9. \A c \in Client : store[c] = [ops |-> <<>>, rows |-> [d \in {d0} |-> Queue!CleanRow(1, {})]]
  BY Zenon DEF SyncInit
<1>10. QueuesAreBounded
  <2>1. Server.revision = 1
    BY <1>3, <1>4 DEF Server
  <2> QED BY <1>9, <2>1, EmptyQueue, Zenon DEF QueuesAreBounded
<1>11. ConflictsAreBehind
  BY <1>9, EmptyQueue, Zenon DEF ConflictsAreBehind
<1>12. ASSUME NEW c \in Client
       PROVE  WorkerInv(c) /\ WindowInv(c)
  <2>1. /\ worker[c] = NoWorker /\ gui[c] = Free /\ pulled[c] = NoSnapshot
        /\ disk[c] = {} /\ editor[c] = {}
    BY Zenon DEF SyncInit
  <2>2. WorkerInv(c)
    BY <2>1 DEF WorkerInv, NoWorker, Carrying, Refused
  <2> QED BY <1>2, <2>1, <2>2 DEF WindowInv, Free
<1> QED BY <1>1, <1>7, <1>8, <1>10, <1>11, <1>12 DEF SyncInv

LEMMA StutterKeeps ==
  ASSUME SyncInv, UNCHANGED syncVars
  PROVE  SyncInv'
<1>1. /\ UNCHANGED <<documents, versions, commits, writers, store>>
      /\ UNCHANGED <<worker, gui, pulled, disk, editor>>
  BY DEF syncVars, serverVars, deviceVars
<1>2. Server' = Server
  BY <1>1 DEF Server
<1>3. Tables' /\ (writers \subseteq Client)'
  BY <1>1 DEF SyncInv, Tables
<1>4. LedgerOfSaves' /\ CommitsCarryOperations'
  BY <1>1, <1>2 DEF SyncInv, LedgerOfSaves, CommitsCarryOperations, Records, Base
<1>5. QueuesAreBounded'
  BY <1>1, <1>2 DEF SyncInv, QueuesAreBounded, Bases, IdsUsed, Unnamed
<1>6. ConflictsAreBehind'
  BY <1>1, <1>2 DEF SyncInv, ConflictsAreBehind, Behind, Base, VersionOf
<1>7. \A e \in Client : WorkerInv(e)' /\ WindowInv(e)'
  BY <1>1, WorkerStays, WindowStays DEF LedgerStays, Base
<1> QED BY <1>3, <1>4, <1>5, <1>6, <1>7 DEF SyncInv

LEMMA SyncInvStep ==
  ASSUME SyncInv, [SyncNext]_syncVars
  PROVE  SyncInv'
<1>1. CASE UNCHANGED syncVars
  BY <1>1, StutterKeeps
<1>2. CASE SyncNext
  <2>1. UNCHANGED writers
    BY <1>2, Zenon DEF SyncNext
  <2>2. ASSUME NEW c \in Client, Writing(c)
        PROVE  SyncInv'
    BY <2>1, <2>2, TypingKeeps, SaveFileKeeps, QueueSaveKeeps, ChooseVersionKeeps,
       Zenon DEF Writing
  <2>3. ASSUME NEW c \in Client, Pulling(c)
        PROVE  SyncInv'
    BY <2>1, <2>3, FetchSnapshotKeeps, ApplyPulledFileKeeps, ApplyPulledSnapshotKeeps,
       RefreshEqualKeeps, SkipPulledKeeps, Zenon DEF Pulling
  <2>4. ASSUME NEW c \in Client, Finishing(c)
        PROVE  SyncInv'
    BY <2>1, <2>4, FinishCommittedKeeps, FinishFailedKeeps, FinishMergedKeeps,
       FinishConflictKeeps, Zenon DEF Finishing
  <2>5. ASSUME NEW c \in Client, Working(c)
        PROVE  SyncInv'
    BY <2>1, <2>5, StartAcquireKeeps, AcquireAnsweredKeeps, SendCommitKeeps,
       CommitAnsweredKeeps, AttemptFailsKeeps, ReadServerKeeps, ReadFileKeeps,
       RebaseKeeps, WriteMergedKeeps, StopAtConflictKeeps, Zenon DEF Working
  <2>6. ASSUME NEW c \in Client, Dispatch(c) \/ Crash(c) \/ GiveBackLease(c)
        PROVE  SyncInv'
    BY <2>1, <2>6, DispatchKeeps, CrashKeeps, GiveBackLeaseKeeps, Zenon
  <2>7. CASE StrayCall
    BY <2>1, <2>7, StrayCallKeeps
  <2>8. CASE Tick /\ UNCHANGED deviceVars
    BY <2>1, <2>8, TickKeeps, Zenon
  <2> QED BY <1>2, <2>2, <2>3, <2>4, <2>5, <2>6, <2>7, <2>8, Zenon DEF SyncNext
<1> QED BY <1>1, <1>2

\* The devices' queues, their workers, the requests under way and the ledger
\* agree, whatever is lost, crashes or comes late.
THEOREM SyncStaysTrue == SyncSpec => []SyncInv
<1>1. SyncInit => SyncInv
  BY SyncInitInv
<1>2. SyncInv /\ [SyncNext]_syncVars => SyncInv'
  BY SyncInvStep
<1> QED BY <1>1, <1>2, PTL DEF SyncSpec

\* A save the server has applied is never shown to its writer as a conflict:
\* an operation stops at a conflict only when the server had refused it, with
\* its base left behind, and from then on it cannot be applied any more.
THEOREM AppliedNeverConflicts == SyncSpec => []CommittedNeverConflicts
<1>1. SyncInv => CommittedNeverConflicts
  BY DEF SyncInv, ConflictsAreBehind, Behind, VersionOf, CommittedNeverConflicts
<1> QED BY <1>1, SyncStaysTrue, PTL-----------------------------------------------------------------------------
(* A reader's file is a version, and never behind its row *)

\* A step of device c leaves the other devices alone, and the ledger grows.
Apart(c) ==
  /\ OthersStay(c) /\ \A e \in Client \ {c} : dirty'[e] = dirty[e]
  /\ DOMAIN dirty' = Client /\ versions \subseteq versions'

LEMMA StepsApart ==
  ASSUME SyncInv, DOMAIN dirty = Client, NEW c \in Client,
         \/ Writing(c) \/ Pulling(c) \/ Dispatch(c) \/ Finishing(c)
         \/ Working(c) \/ Crash(c) \/ GiveBackLease(c)
  PROVE  Apart(c)
<1> USE DEF Tables, Apart, OthersStay, serverVars
<1>1. Tables
  BY DEF SyncInv
<1>2. CASE Writing(c)
  BY <1>1, <1>2 DEF Writing, Typing, SaveFile, QueueSave, ChooseVersion
<1>3. CASE Pulling(c)
  BY <1>1, <1>3 DEF Pulling, FetchSnapshot, ApplyPulledFile, ApplyPulledSnapshot,
     RefreshEqualRevision, SkipPulled
<1>4. CASE Dispatch(c)
  BY <1>1, <1>4 DEF Dispatch
<1>5. CASE Finishing(c)
  BY <1>1, <1>5 DEF Finishing, FinishCommitted, FinishFailed, FinishMerged, FinishConflict
<1>6. CASE Crash(c)
  BY <1>1, <1>6 DEF Crash
<1>7. CASE GiveBackLease(c)
  BY <1>1, <1>7 DEF GiveBackLease, ReleaseLease
<1>8. CASE Working(c)
  <2> USE DEF AtWorker, Learn
  <2>1. CASE StartAcquire(c)
    BY <1>1, <2>1 DEF StartAcquire, BeginAcquire
  <2>2. CASE AcquireAnswered(c)
    BY <1>1, <2>2 DEF AcquireAnswered, FinishAcquire
  <2>3. CASE SendCommit(c)
    BY <1>1, <2>3 DEF SendCommit, BeginCommit
  <2>4. CASE CommitAnswered(c)
    BY <1>1, <2>4 DEF CommitAnswered, FinishCommit, Apply
  <2>5. CASE AttemptFails(c) \/ ReadServer(c) \/ ReadFile(c)
    BY <1>1, <2>5 DEF AttemptFails, ReadServer, ReadFile
  <2>6. CASE Rebase(c) \/ WriteMerged(c) \/ StopAtConflict(c)
    BY <1>1, <2>6 DEF Rebase, WriteMerged, StopAtConflict
  <2> QED BY <1>8, <2>1, <2>2, <2>3, <2>4, <2>5, <2>6 DEF Working
<1> QED BY <1>2, <1>3, <1>4, <1>5, <1>6, <1>7, <1>8

\* A reader's device that does not move.
LEMMA ReaderWaits ==
  ASSUME NEW e, ReaderInv(e), versions \subseteq versions',
         store'[e] = store[e], dirty'[e] = dirty[e], worker'[e] = worker[e],
         gui'[e] = gui[e], pulled'[e] = pulled[e], disk'[e] = disk[e]
  PROVE  ReaderInv(e)'
BY DEF ReaderInv, RowOf

\* Without an operation there is nothing to send.
LEMMA NothingToSend ==
  ASSUME NEW c, DOMAIN store[c].ops = {}
  PROVE  ~ Dispatch(c) /\ ~ Queue!HasActive(store[c], d0)
<1>1. Queue!Dispatchable(store[c]) = {} /\ Queue!OpsOf(store[c], d0) = {}
  BY DEF Queue!Dispatchable, Queue!OpsOf
<1>2. Queue!DependentsOf(store[c], d0) = {} /\ ~ Queue!HasActive(store[c], d0)
  BY <1>1 DEF Queue!DependentsOf, Queue!HasActive, Queue!ActiveOf
<1>3. Queue!RecoverStranded(store[c], d0) = store[c]
  BY <1>2, Zenon DEF Queue!RecoverStranded, Queue!Stranded
<1>4. ~ Dispatch(c)
  BY <1>1, <1>3, Zenon DEF Dispatch
<1> QED BY <1>2, <1>4

\* What a reader's device can do is pull, be killed and give a lease back.
LEMMA ReadersSteps ==
  ASSUME SyncInv, NEW c \in Client \ writers, ReaderInv(c),
         \/ Writing(c) \/ Pulling(c) \/ Dispatch(c) \/ Finishing(c)
         \/ Working(c) \/ Crash(c) \/ GiveBackLease(c)
  PROVE  Pulling(c) \/ Crash(c) \/ GiveBackLease(c)
<1>1. ~ Writing(c)
  <2>1. \A p \in Passage : ~ Typing(c, p)
    BY DEF Typing
  <2>2. ~ SaveFile(c) /\ ~ QueueSave(c)
    BY DEF SaveFile, QueueSave, ReaderInv
  <2>3. \A text \in RowOf(c).clash : ~ ChooseVersion(c, text)
    BY DEF ReaderInv
  <2> QED BY <2>1, <2>2, <2>3 DEF Writing
<1>2. ~ Dispatch(c)
  BY NothingToSend DEF ReaderInv
<1>3. worker[c].phase = "none"
  BY DEF ReaderInv, NoWorker
<1>4. ~ Finishing(c)
  BY <1>3 DEF Finishing, FinishCommitted, FinishFailed, FinishMerged, FinishConflict
<1>5. ~ Working(c)
  BY <1>3 DEF Working, StartAcquire, AcquireAnswered, SendCommit, CommitAnswered,
     AttemptFails, ReadServer, ReadFile, Rebase, WriteMerged, StopAtConflict
<1> QED BY <1>1, <1>2, <1>4, <1>5

LEMMA ReaderPulls ==
  ASSUME SyncInv, DOMAIN dirty = Client, NEW c \in Client \ writers, ReaderInv(c), Pulling(c)
  PROVE  ReaderInv(c)'
<1>1. Tables /\ WindowInv(c)
  BY DEF SyncInv
<1>2. CASE FetchSnapshot(c)
  <2>1. gui[c].task # "pull"
    BY <1>1, <1>2 DEF FetchSnapshot, WindowInv
  <2> QED BY <1>1, <1>2, <2>1 DEF FetchSnapshot, ReaderInv, RowOf, serverVars
<1>3. CASE ApplyPulledFile(c)
  <2>1. /\ UNCHANGED <<store, dirty, worker, pulled, versions>>
        /\ gui'[c] = [task |-> "pull"] /\ disk'[c] = pulled[c].content
    BY <1>1, <1>3 DEF ApplyPulledFile, Tables, serverVars
  <2>2. RowOf(c).revision \in Nat /\ store[c].rows[d0] # NoRow
    BY StoresAreOrderly DEF Orderly, Bases, RowOf
  <2>3. RowOf(c).revision < pulled[c].revision
    BY <1>3, <2>2 DEF ApplyPulledFile, Queue!AcceptsRemote, RowOf
  <2>4. pulled[c] # NoSnapshot
    BY <2>2, <2>3 DEF NoSnapshot
  <2>5. \E v \in versions : v.revision = pulled[c].revision /\ v.content = pulled[c].content
    BY <1>1, <2>4 DEF WindowInv, Recorded
  <2>6. pulled[c].revision \in Nat
    BY <1>1, <2>4, StoresAreOrderly DEF WindowInv, Recorded, Orderly
  <2>7. RowOf(c)' = RowOf(c)
    BY <2>1 DEF RowOf
  <2>8. pulled[c].revision > RowOf(c).revision /\ pulled[c].revision >= RowOf(c).revision
    BY <2>2, <2>3, <2>6
  <2> QED BY <2>1, <2>5, <2>7, <2>8 DEF ReaderInv
<1>4. CASE ApplyPulledSnapshot(c)
  <2>1. /\ UNCHANGED <<disk, dirty, worker, versions>> /\ gui[c].task = "pull"
        /\ gui'[c] = Free /\ pulled'[c] = NoSnapshot
        /\ store'[c] = Queue!ApplyRemoteSnapshot(store[c], d0, pulled[c].revision,
                                                 pulled[c].content)
    BY <1>1, <1>4 DEF ApplyPulledSnapshot, Tables, serverVars
  <2>2. store[c] \in Queue!Store
    BY StoresAreOrderly DEF Orderly, Bases
  <2>3. Recorded(pulled[c]) /\ disk[c] = pulled[c].content
    BY <1>1, <2>1 DEF WindowInv, ReaderInv
  <2>4. pulled[c].revision \in Nat /\ pulled[c].content \in Content
    BY <2>3, StoresAreOrderly DEF Recorded, Orderly
  <2>5. Says(store[c], store'[c], pulled[c].revision, {})
    BY <2>1, <2>2, <2>4, CleanRowEffect
  <2>6. /\ DOMAIN store'[c].ops = DOMAIN store[c].ops
        /\ RowOf(c)'.clash = {} /\ RowOf(c)'.revision = pulled[c].revision
    BY <2>5 DEF Says, RowOf
  <2>7. \E v \in versions : v.content = disk[c] /\ v.revision >= pulled[c].revision
    BY <2>3, <2>4 DEF Recorded
  <2> QED BY <2>1, <2>6, <2>7 DEF ReaderInv, Free
<1>5. CASE RefreshEqualRevision(c)
  <2>1. /\ UNCHANGED <<store, dirty, worker, gui, versions>> /\ gui[c] = Free
        /\ pulled[c].revision = RowOf(c).revision /\ disk'[c] = pulled[c].content
    BY <1>1, <1>5 DEF RefreshEqualRevision, RefreshesEqual, Tables, serverVars
  <2>2. RowOf(c).revision \in 1 .. Server.revision /\ Server.revision \in Nat
    BY StoresAreOrderly DEF Orderly, Bases, RowOf
  <2>3. Recorded(pulled[c])
    BY <1>1, <2>1, <2>2 DEF WindowInv, NoSnapshot
  <2>4. RowOf(c)' = RowOf(c)
    BY <2>1 DEF RowOf
  <2>5. \E v \in versions : v.content = disk'[c] /\ v.revision >= RowOf(c).revision
    BY <2>1, <2>2, <2>3 DEF Recorded
  <2> QED BY <2>1, <2>4, <2>5 DEF ReaderInv, Free
<1>6. CASE SkipPulled(c)
  BY <1>1, <1>6 DEF SkipPulled, ReaderInv, RowOf, Free, serverVars
<1> QED BY <1>2, <1>3, <1>4, <1>5, <1>6 DEF Pulling

LEMMA ReaderRestarts ==
  ASSUME SyncInv, DOMAIN dirty = Client, NEW c \in Client, ReaderInv(c), Crash(c)
  PROVE  ReaderInv(c)'
<1>1. Tables
  BY DEF SyncInv
<1>2. /\ ~ dirty'[c] /\ gui'[c] = Free /\ worker'[c] = NoWorker
      /\ disk' = disk /\ versions' = versions
      /\ store'[c] = Queue!RecoverInterruptedDispatches(store[c])
  BY <1>1 DEF Crash, Tables, serverVars
<1>3. store[c] \in Queue!Store
  BY StoresAreOrderly DEF Orderly, Bases
<1>4. DOMAIN store'[c].ops = DOMAIN store[c].ops /\ store'[c].rows = store[c].rows
  BY <1>2, <1>3, RestartEffect DEF Turned
<1> QED BY <1>2, <1>4 DEF ReaderInv, RowOf, Free

LEMMA ReadersInvStep ==
  ASSUME SyncInv, ReadersInv, [SyncNext]_syncVars
  PROVE  ReadersInv'
<1>1. writers' = writers
  BY Zenon DEF SyncNext, syncVars
<1>2. ASSUME UNCHANGED deviceVars, versions \subseteq versions'
      PROVE  ReadersInv'
  <2>1. UNCHANGED <<store, dirty, worker, gui, pulled, disk>>
    BY <1>2 DEF deviceVars
  <2> QED BY <1>1, <1>2, <2>1, ReaderWaits DEF ReadersInv
<1>3. ASSUME NEW c \in Client,
             \/ Writing(c) \/ Pulling(c) \/ Dispatch(c) \/ Finishing(c)
             \/ Working(c) \/ Crash(c) \/ GiveBackLease(c)
      PROVE  ReadersInv'
  <2>1. Apart(c) /\ DOMAIN dirty = Client
    BY <1>3, StepsApart DEF ReadersInv
  <2>2. ASSUME NEW e \in Client \ writers, e # c
        PROVE  ReaderInv(e)'
    BY <2>1, <2>2, ReaderWaits DEF ReadersInv, Apart, OthersStay
  <2>3. ASSUME c \notin writers
        PROVE  ReaderInv(c)'
    <3>1. ReaderInv(c)
      BY <2>3 DEF ReadersInv
    <3>2. CASE Pulling(c)
      BY <2>1, <2>3, <3>1, <3>2, ReaderPulls
    <3>3. CASE Crash(c)
      BY <2>1, <3>1, <3>3, ReaderRestarts
    <3>4. CASE GiveBackLease(c)
      <4>1. UNCHANGED <<store, dirty, worker, gui, pulled, disk, versions>>
        BY <3>4 DEF GiveBackLease, ReleaseLease, serverVars
      <4> QED BY <3>1, <4>1, ReaderWaits
    <3> QED BY <1>3, <2>3, <3>1, <3>2, <3>3, <3>4, ReadersSteps
  <2> QED BY <1>1, <2>1, <2>2, <2>3 DEF ReadersInv, Apart
<1>4. ASSUME StrayCall
      PROVE  ReadersInv'
  <2>1. UNCHANGED deviceVars
    BY <1>4 DEF StrayCall
  <2>2. versions \subseteq versions'
    BY <1>4 DEF StrayCall, FinishCommit, Apply, FinishAcquire
  <2> QED BY <1>2, <2>1, <2>2
<1>5. ASSUME Tick, UNCHANGED deviceVars
      PROVE  ReadersInv'
  BY <1>2, <1>5 DEF Tick
<1>6. ASSUME UNCHANGED syncVars
      PROVE  ReadersInv'
  BY <1>2, <1>6 DEF syncVars, serverVars
<1> QED BY <1>3, <1>4, <1>5, <1>6, Zenon DEF SyncNext

LEMMA ReadersInitInv ==
  ASSUME SyncInit
  PROVE  ReadersInv
<1> DEFINE first == FirstVersion(CHOOSE c \in Client : TRUE)
<1>1. DOMAIN dirty = Client
  BY Zenon DEF SyncInit
<1>2. ASSUME NEW c \in Client
      PROVE  ReaderInv(c)
  <2>1. /\ worker[c] = NoWorker /\ gui[c] = Free /\ pulled[c] = NoSnapshot
        /\ disk[c] = {} /\ dirty[c] = FALSE
        /\ store[c] = [ops |-> <<>>, rows |-> [d \in {d0} |-> Queue!CleanRow(1, {})]]
    BY Zenon DEF SyncInit
  <2>2. DOMAIN store[c].ops = {} /\ RowOf(c).revision = 1 /\ RowOf(c).clash = {}
    BY <2>1, EmptyQueue, Zenon DEF RowOf
  <2>3. versions = {first}
    BY Zenon DEF SyncInit
  <2>4. first.revision = 1 /\ first.content = {}
    BY DEF FirstVersion
  <2> HIDE DEF first
  <2>5. \E v \in versions : v.content = disk[c] /\ v.revision >= RowOf(c).revision
    BY <2>1, <2>2, <2>3, <2>4
  <2> QED BY <2>1, <2>2, <2>5 DEF ReaderInv, Free
<1> QED BY <1>1, <1>2 DEF ReadersInv

THEOREM ReadersStayReaders == SyncSpec => [](SyncInv /\ ReadersInv)
<1>1. SyncInit => ReadersInv
  BY ReadersInitInv
<1>2. SyncInv /\ ReadersInv /\ [SyncNext]_syncVars => ReadersInv'
  BY ReadersInvStep
<1> QED BY <1>1, <1>2, SyncStaysTrue, PTL DEF SyncSpec

\* On a device nobody types on the file is always a text the server has
\* recorded and never behind the revision of its row: such a device has nothing
\* queued, no worker and no typing, so all it does is pull, and a crash in the
\* middle of a pull leaves the newer text in the file and the older row.
THEOREM FilesOfReaders == SyncSpec => []ReadersFollow
<1>1. SyncInv /\ ReadersInv => ReadersFollow
  BY DEF ReadersInv, ReaderInv, ReadersFollow
<1> QED BY <1>1, ReadersStayReaders, PTL-----------------------------------------------------------------------------
(* What the transactions do to the store of a sole writer *)

LEMMA OrderKept ==
  ASSUME NEW s, NEW t, NEW c, InOrder(s, c), DOMAIN t.ops = DOMAIN s.ops,
         t.rows[d0].revision = s.rows[d0].revision, t.rows[d0].clash = {},
         \A i \in DOMAIN s.ops :
           /\ t.ops[i].base = s.ops[i].base
           /\ t.ops[i].state \notin {"conflict", "blocked"}
           /\ Queue!Active(t.ops[i]) <=> Queue!Active(s.ops[i])
  PROVE  InOrder(t, c)
<1>1. \A i \in DOMAIN s.ops : Leads(t, i) <=> Leads(s, i)
  BY DEF Leads
<1> QED BY <1>1 DEF InOrder

LEMMA OrderTurned ==
  ASSUME NEW s, NEW t, NEW c, InOrder(s, c), NEW I, NEW state \in {"inflight", "retry_wait"},
         Turned(s, t, I, state), t.rows[d0].revision = s.rows[d0].revision,
         t.rows[d0].clash = {}, \A i \in DOMAIN s.ops : i \in I => Queue!Active(s.ops[i])
  PROVE  InOrder(t, c)
<1>1. \A i \in DOMAIN s.ops :
        /\ t.ops[i].base = s.ops[i].base
        /\ t.ops[i].state \notin {"conflict", "blocked"}
        /\ Queue!Active(t.ops[i]) <=> Queue!Active(s.ops[i])
  BY DEF Turned, InOrder, Queue!Active, Queue!TerminalStates
<1>2. DOMAIN t.ops = DOMAIN s.ops
  BY DEF Turned
<1> QED BY <1>1, <1>2, OrderKept

LEMMA OrderGrown ==
  ASSUME NEW s \in Queue!Store, NEW t, NEW c, InOrder(s, c), NEW base, Grown(s, t, base),
         t.rows[d0].revision = s.rows[d0].revision, t.rows[d0].clash = {},
         base # NoBase => /\ base = s.rows[d0].revision
                          /\ \A i \in DOMAIN s.ops : ~ Leads(s, i)
  PROVE  InOrder(t, c)
<1> DEFINE n == Len(s.ops) + 1
<1>1. n \notin DOMAIN s.ops
  BY StoreFields
<1>2. /\ DOMAIN t.ops = DOMAIN s.ops \cup {n}
      /\ t.ops[n].base = base /\ t.ops[n].state = "pending"
      /\ \A i \in DOMAIN s.ops :
           t.ops[i].base = s.ops[i].base /\ t.ops[i].state = s.ops[i].state
  BY DEF Grown
<1> HIDE DEF n
<1>3. \A i \in DOMAIN s.ops : Leads(t, i) <=> Leads(s, i)
  BY <1>2 DEF Leads, Queue!Active
<1>4. Leads(t, n) <=> base # NoBase
  BY <1>2 DEF Leads, Queue!Active, Queue!TerminalStates
<1>5. \A i \in DOMAIN t.ops :
        /\ t.ops[i].state \notin {"conflict", "blocked"}
        /\ Leads(t, i) => t.ops[i].base = t.rows[d0].revision
        /\ t.ops[i].base # NoBase => Leads(t, i) \/ Applied(c, i)
  BY <1>2, <1>3, <1>4 DEF InOrder
<1>6. \A i, j \in DOMAIN t.ops : Leads(t, i) /\ Leads(t, j) => i = j
  BY <1>2, <1>3, <1>4 DEF InOrder
<1>7. \/ Server.revision = t.rows[d0].revision
      \/ /\ Server.revision = t.rows[d0].revision + 1
         /\ \E i \in DOMAIN t.ops : Leads(t, i) /\ Applied(c, i)
  BY <1>2, <1>3 DEF InOrder
<1> QED BY <1>5, <1>6, <1>7 DEF InOrder

LEMMA OrderReissued ==
  ASSUME NEW s \in Queue!Store, NEW t, NEW c, InOrder(s, c), NEW k,
         Reissued(s, t, k, s.rows[d0].revision), s.rows[d0].revision # NoBase,
         \A i \in DOMAIN s.ops : ~ Leads(s, i)
  PROVE  InOrder(t, c)
<1> DEFINE n == Len(s.ops) + 1
<1>1. n \notin DOMAIN s.ops
  BY StoreFields
<1>2. /\ DOMAIN t.ops = DOMAIN s.ops \cup {n} /\ t.rows = s.rows
      /\ t.ops[n].base = s.rows[d0].revision /\ t.ops[n].state = "pending"
      /\ \A i \in DOMAIN s.ops :
           /\ t.ops[i].base = s.ops[i].base
           /\ t.ops[i].state = IF i = k THEN "cancelled" ELSE s.ops[i].state
  BY DEF Reissued
<1> HIDE DEF n
<1>3. \A i \in DOMAIN s.ops : ~ Leads(t, i)
  BY <1>2 DEF Leads, Queue!Active, Queue!TerminalStates
<1>4. \A i \in DOMAIN t.ops :
        /\ t.ops[i].state \notin {"conflict", "blocked"}
        /\ Leads(t, i) => t.ops[i].base = t.rows[d0].revision
        /\ t.ops[i].base # NoBase => Leads(t, i) \/ Applied(c, i)
  <2>1. Leads(t, n)
    BY <1>2 DEF Leads, Queue!Active, Queue!TerminalStates
  <2> QED BY <1>2, <1>3, <2>1 DEF InOrder
<1>5. \A i, j \in DOMAIN t.ops : Leads(t, i) /\ Leads(t, j) => i = j
  BY <1>2, <1>3
<1>6. Server.revision = t.rows[d0].revision /\ t.rows[d0].clash = {}
  BY <1>2 DEF InOrder
<1> QED BY <1>4, <1>5, <1>6 DEF InOrder

\* A save is queued behind what waits, or on the row when nothing does.
LEMMA OrderSaved ==
  ASSUME NEW s \in Queue!Store, s.rows[d0] # NoRow, NEW c, InOrder(s, c),
         NEW text \in Content
  PROVE  InOrder(Queue!Enqueue(s, d0, text), c)
<1> DEFINE t == Queue!Enqueue(s, d0, text)
<1>1. PICK u : /\ Turned(s, u, Stopped(s), "cancelled") /\ u.rows = s.rows
               /\ SavedOn(s, u, t)
  BY EnqueueEffect, Zenon
<1> HIDE DEF t
<1>2. \A i \in DOMAIN s.ops : i \notin Stopped(s)
  BY DEF InOrder, Stopped
<1>3. /\ DOMAIN u.ops = DOMAIN s.ops /\ u \in Queue!Store
      /\ \A i \in DOMAIN s.ops :
           u.ops[i].base = s.ops[i].base /\ u.ops[i].state = s.ops[i].state
  BY <1>1, <1>2 DEF Turned
<1>4. InOrder(u, c)
  <2>1. \A i \in DOMAIN s.ops :
          /\ u.ops[i].base = s.ops[i].base
          /\ u.ops[i].state \notin {"conflict", "blocked"}
          /\ Queue!Active(u.ops[i]) <=> Queue!Active(s.ops[i])
    BY <1>3 DEF InOrder, Queue!Active
  <2>2. u.rows[d0].revision = s.rows[d0].revision /\ u.rows[d0].clash = {}
    BY <1>1 DEF InOrder
  <2> QED BY <1>3, <2>1, <2>2, OrderKept
<1>5. CASE t = u
  BY <1>4, <1>5 DEF t
<1>6. CASE t # u
  <2>1. PICK base \in Nat \cup {NoBase} :
          /\ Grown(u, t, base) /\ RowSays(t, s.rows[d0].revision, {})
          /\ base # NoBase => /\ base = s.rows[d0].revision
                              /\ \A i \in DOMAIN s.ops : ~ Queue!Waiting(s.ops[i])
    BY <1>1, <1>6 DEF SavedOn
  <2>2. ASSUME base # NoBase, NEW i \in DOMAIN u.ops
        PROVE  ~ Leads(u, i)
    <3>1. i \in DOMAIN s.ops /\ ~ Queue!Waiting(s.ops[i])
      BY <1>3, <2>1, <2>2
    <3>2. s.ops[i].state \in Queue!State /\ s.ops[i].state \notin {"conflict", "blocked"}
      BY <3>1, StoreFields DEF InOrder, Queue!OpRow
    <3> QED BY <1>3, <3>1, <3>2
        DEF Leads, Queue!Waiting, Queue!Active, Queue!TerminalStates, Queue!State
  <2>3. /\ t.rows[d0].revision = u.rows[d0].revision /\ t.rows[d0].clash = {}
        /\ base # NoBase => base = u.rows[d0].revision
    BY <1>1, <2>1 DEF RowSays
  <2>4. InOrder(t, c)
    BY <1>3, <1>4, <2>1, <2>2, <2>3, OrderGrown
  <2> QED BY <2>4 DEF t
<1> QED BY <1>5, <1>6

\* An edit whose predecessor will never answer is issued when nothing leads.
LEMMA OrderRecovered ==
  ASSUME NEW s \in Queue!Store, s.rows[d0] # NoRow, NEW c, InOrder(s, c)
  PROVE  InOrder(Queue!RecoverStranded(s, d0), c)
<1> DEFINE t == Queue!RecoverStranded(s, d0)
<1>1. \/ t = s
      \/ /\ \A i \in DOMAIN s.ops : Queue!Waiting(s.ops[i]) => s.ops[i].base = NoBase
         /\ \E k : Reissued(s, t, k, s.rows[d0].revision)
  BY StrandedEffect, Zenon
<1> HIDE DEF t
<1>2. ASSUME \A i \in DOMAIN s.ops : Queue!Waiting(s.ops[i]) => s.ops[i].base = NoBase,
             NEW k, Reissued(s, t, k, s.rows[d0].revision)
      PROVE  InOrder(t, c)
  <2>1. ASSUME NEW i \in DOMAIN s.ops
        PROVE  ~ Leads(s, i)
    <3>1. s.ops[i].state \in Queue!State /\ s.ops[i].state \notin {"conflict", "blocked"}
      BY StoreFields DEF InOrder, Queue!OpRow
    <3> QED BY <1>2, <3>1
        DEF Leads, Queue!Waiting, Queue!Active, Queue!TerminalStates, Queue!State
  <2>2. s.rows[d0].revision # NoBase
    <3>1. s.rows[d0].revision \in Nat
      BY StoreFields DEF Queue!Row
    <3> QED BY <3>1, SyncAssumption
  <2> QED BY <1>2, <2>1, <2>2, OrderReissued
<1> QED BY <1>1, <1>2 DEF t

\* The leading operation is answered with the revision it made.
LEMMA OrderAnswered ==
  ASSUME NEW s \in Queue!Store, s.rows[d0] # NoRow, NEW c, InOrder(s, c),
         NEW i \in DOMAIN s.ops, Leads(s, i), Applied(c, i),
         s.ops[i].state = "inflight", Server.revision \in Nat,
         Server.revision = s.rows[d0].revision + 1
  PROVE  /\ InOrder(Queue!MarkSuccess(s, i, Server.revision), c)
         /\ Queue!MarkSuccess(s, i, Server.revision).rows[d0].revision = Server.revision
<1> DEFINE t == Queue!MarkSuccess(s, i, Server.revision)
<1>1. PICK revision : revision = Server.revision
  OBVIOUS
<1>2. PICK u : /\ Turned(s, u, {i}, "completed")
               /\ RowSays(u, revision, s.rows[d0].clash)
               /\ \/ t = u
                  \/ \E k : Reissued(u, t, k, revision)
  <2>1. s.ops[i].state # "completed"
    OBVIOUS
  <2> QED BY <1>1, <2>1, SuccessEffect
<1> HIDE DEF t
<1>3. \A j \in DOMAIN u.ops : ~ Leads(u, j)
  <2>1. ~ Leads(u, i)
    BY <1>2 DEF Turned, Leads, Queue!Active, Queue!TerminalStates
  <2>2. ASSUME NEW j \in DOMAIN s.ops, j # i
        PROVE  ~ Leads(u, j)
    <3>1. ~ Leads(s, j)
      BY <2>2 DEF InOrder
    <3> QED BY <1>2, <2>2, <3>1 DEF Turned, Leads, Queue!Active
  <2> QED BY <1>2, <2>1, <2>2 DEF Turned
<1>4. InOrder(u, c)
  <2>1. \A j \in DOMAIN u.ops :
          /\ u.ops[j].state \notin {"conflict", "blocked"}
          /\ u.ops[j].base # NoBase => Applied(c, j)
    <3>1. ASSUME NEW j \in DOMAIN s.ops
          PROVE  /\ u.ops[j].state \notin {"conflict", "blocked"}
                 /\ u.ops[j].base # NoBase => Applied(c, j)
      <4>1. u.ops[j].state \notin {"conflict", "blocked"}
        BY <1>2 DEF Turned, InOrder
      <4>2. u.ops[j].base = s.ops[j].base
        BY <1>2 DEF Turned
      <4>3. s.ops[j].base # NoBase => Applied(c, j)
        BY DEF InOrder
      <4> QED BY <4>1, <4>2, <4>3
    <3> QED BY <1>2, <3>1 DEF Turned
  <2>2. u.rows[d0].revision = Server.revision /\ u.rows[d0].clash = {}
    BY <1>1, <1>2 DEF RowSays, InOrder
  <2> QED BY <1>3, <2>1, <2>2 DEF InOrder
<1>5. u \in Queue!Store /\ u.rows[d0].revision = revision
  BY <1>2 DEF Turned, RowSays
<1>6. ASSUME NEW k, Reissued(u, t, k, revision)
      PROVE  InOrder(t, c) /\ t.rows[d0].revision = revision
  <2>1. revision # NoBase
    BY <1>1, SyncAssumption
  <2>2. InOrder(t, c)
    BY <1>3, <1>4, <1>5, <1>6, <2>1, OrderReissued
  <2>3. t.rows = u.rows
    BY <1>6 DEF Reissued
  <2> QED BY <1>5, <2>2, <2>3
<1> QED BY <1>1, <1>2, <1>4, <1>5, <1>6 DEF t-----------------------------------------------------------------------------
(* A sole writer loses nothing *)

\* The file only gains, and the invariant goes on.
SoleKept(c) == disk[c] \subseteq disk'[c] /\ SoleInv(c)'

LEMMA OrderStays ==
  ASSUME NEW c, InOrder(store'[c], c), UNCHANGED <<documents, versions>>
  PROVE  InOrder(store[c], c)'
<1>1. Server' = Server /\ \A i : Applied(c, i)' = Applied(c, i)
  BY DEF Server, Applied, VersionOf
<1> QED BY <1>1 DEF InOrder, Leads

LEMMA SoleFacts ==
  ASSUME SyncInv, NEW c \in Client
  PROVE  /\ store[c] \in Queue!Store /\ store[c].rows[d0] # NoRow
         /\ RowOf(c) = store[c].rows[d0]
         /\ RowOf(c).revision \in 1 .. Server.revision /\ Server.revision \in Nat
         /\ RowOf(c).revision \in Nat
<1>1. Orderly(store[c], Server.revision)
  BY StoresAreOrderly
<1>2. /\ store[c] \in Queue!Store /\ store[c].rows[d0] # NoRow
      /\ store[c].rows[d0].revision \in 1 .. Server.revision /\ Server.revision \in Nat
  BY <1>1 DEF Orderly, Bases
<1> QED BY <1>2 DEF RowOf

\* The worker of a sole writer carries the leading operation.
LEMMA SoleOperation ==
  ASSUME SyncInv, NEW c \in Client, SoleInv(c), worker[c].phase # "none"
  PROVE  /\ worker[c].op \in DOMAIN store[c].ops
         /\ store[c].ops[worker[c].op].state = "inflight"
         /\ Leads(store[c], worker[c].op)
         /\ store[c].ops[worker[c].op].base = RowOf(c).revision
<1>1. /\ worker[c].op \in DOMAIN store[c].ops
      /\ Carried(c).base # NoBase /\ Carried(c).state = "inflight"
  BY DEF SyncInv, WorkerInv, SoleInv
<1>2. Leads(store[c], worker[c].op)
  BY <1>1 DEF Leads, Carried, Queue!Active, Queue!TerminalStates
<1>3. store[c].ops[worker[c].op].base = RowOf(c).revision
  BY <1>1, <1>2 DEF SoleInv, InOrder, RowOf
<1> QED BY <1>1, <1>2, <1>3 DEF Carried

\* It is never shown a conflict, and never finds a newer revision to pull.
LEMMA SoleCannot ==
  ASSUME SyncInv, NEW c \in Client, SoleInv(c)
  PROVE  /\ \A text \in RowOf(c).clash : ~ ChooseVersion(c, text)
         /\ ~ ApplyPulledFile(c) /\ ~ ApplyPulledSnapshot(c)
         /\ ~ FinishMerged(c) /\ ~ FinishConflict(c)
         /\ ~ ReadServer(c) /\ ~ ReadFile(c) /\ ~ Rebase(c)
         /\ ~ WriteMerged(c) /\ ~ StopAtConflict(c)
<1>1. worker[c].phase \notin
        {"rejected", "fetched", "merged", "clashing", "rebased", "written", "conflict"}
  BY DEF SoleInv, Carrying, Refused
<1>2. /\ ~ FinishMerged(c) /\ ~ FinishConflict(c)
      /\ ~ ReadServer(c) /\ ~ ReadFile(c) /\ ~ Rebase(c)
      /\ ~ WriteMerged(c) /\ ~ StopAtConflict(c)
  BY <1>1 DEF FinishMerged, FinishConflict, ReadServer, ReadFile, Rebase, WriteMerged,
     StopAtConflict
<1>3. RowOf(c).clash = {}
  BY DEF SoleInv, InOrder, RowOf
<1>4. ~ ApplyPulledSnapshot(c)
  BY DEF ApplyPulledSnapshot, SoleInv
<1>5. ~ ApplyPulledFile(c)
  <2>1. SUFFICES ASSUME ApplyPulledFile(c) PROVE FALSE
    OBVIOUS
  <2>2. RowOf(c).revision < pulled[c].revision
    BY <2>1, SoleFacts DEF ApplyPulledFile, Queue!AcceptsRemote
  <2>3. pulled[c].revision <= RowOf(c).revision
    BY DEF SoleInv
  <2>4. pulled[c].revision \in Nat
    <3>1. pulled[c] = NoSnapshot \/ pulled[c].revision \in 1 .. Server.revision
      BY DEF SyncInv, WindowInv, Recorded
    <3> QED BY <3>1, SoleFacts DEF NoSnapshot
  <2> QED BY <2>2, <2>3, <2>4, SoleFacts
<1> QED BY <1>2, <1>3, <1>4, <1>5

LEMMA SoleWrites ==
  ASSUME SyncInv, NEW c \in Client, SoleInv(c), Writing(c)
  PROVE  SoleKept(c)
<1>1. Tables /\ WindowInv(c)
  BY DEF SyncInv
<1>2. RowOf(c)' = store'[c].rows[d0]
  BY DEF RowOf
<1>3. ASSUME NEW p \in Passage, Typing(c, p)
      PROVE  SoleKept(c)
  <2>1. /\ UNCHANGED <<store, worker, gui, disk, pulled, documents, versions>>
        /\ editor'[c] = editor[c] \cup {p}
    BY <1>1, <1>3 DEF Typing, Tables, serverVars
  <2>2. InOrder(store[c], c)'
    BY <2>1, OrderStays DEF SoleInv
  <2> QED BY <2>1, <2>2 DEF SoleKept, SoleInv, RowOf
<1>4. CASE SaveFile(c)
  <2>1. /\ UNCHANGED <<store, worker, editor, pulled, documents, versions>>
        /\ disk'[c] = editor[c] /\ gui'[c] = [task |-> "save", text |-> editor[c]]
    BY <1>1, <1>4 DEF SaveFile, Tables, serverVars
  <2>2. InOrder(store[c], c)'
    BY <2>1, OrderStays DEF SoleInv
  <2> QED BY <2>1, <2>2 DEF SoleKept, SoleInv, RowOf
<1>5. CASE QueueSave(c)
  <2>1. /\ UNCHANGED <<worker, editor, pulled, documents, versions>>
        /\ disk'[c] = gui[c].text /\ gui'[c] = Free /\ gui[c].task = "save"
        /\ store'[c] = Enqueued(c, gui[c].text)
    BY <1>1, <1>5 DEF QueueSave, Tables, serverVars
  <2>2. gui[c].text \in Content /\ disk'[c] = disk[c]
    BY <1>1, <2>1 DEF WindowInv, SoleInv
  <2>3. store'[c] \in {store[c], Queue!Enqueue(store[c], d0, gui[c].text)}
    BY <2>1 DEF Enqueued
  <2>4. InOrder(store'[c], c)
    BY <2>2, <2>3, SoleFacts, OrderSaved DEF SoleInv
  <2>5. store'[c].rows[d0].revision = RowOf(c).revision
    <3>1. CASE store'[c] = store[c]
      BY <3>1 DEF RowOf
    <3>2. CASE store'[c] = Queue!Enqueue(store[c], d0, gui[c].text)
      <4>1. PICK u : /\ Turned(store[c], u, Stopped(store[c]), "cancelled")
                     /\ u.rows = store[c].rows /\ SavedOn(store[c], u, store'[c])
        BY <2>2, <3>2, SoleFacts, EnqueueEffect, Zenon
      <4> QED BY <4>1 DEF SavedOn, RowSays, RowOf
    <3> QED BY <2>3, <3>1, <3>2
  <2>6. InOrder(store[c], c)'
    BY <2>1, <2>4, OrderStays
  <2> QED BY <1>2, <2>1, <2>2, <2>5, <2>6 DEF SoleKept, SoleInv, Free
<1> QED BY <1>3, <1>4, <1>5, SoleCannot DEF Writing

LEMMA SolePulls ==
  ASSUME SyncInv, NEW c \in Client, SoleInv(c), Pulling(c), StructureRows
  PROVE  SoleKept(c)
<1>1. Tables /\ WindowInv(c)
  BY DEF SyncInv
<1>2. UNCHANGED <<store, worker, documents, versions>>
  BY <1>1, SoleCannot DEF Pulling, FetchSnapshot, RefreshEqualRevision, SkipPulled, serverVars
<1>3. InOrder(store[c], c)' /\ RowOf(c)' = RowOf(c)
  BY <1>2, OrderStays DEF SoleInv, RowOf
<1>4. NoSnapshot.revision <= RowOf(c).revision
  BY SoleFacts DEF NoSnapshot
<1>5. CASE FetchSnapshot(c)
  <2>1. /\ UNCHANGED <<gui, disk, editor>> /\ pulled'[c].revision = Server.revision
        /\ ~ Queue!HasActive(store[c], d0)
    BY <1>1, <1>5 DEF FetchSnapshot, Tables
  <2>2. \A i \in DOMAIN store[c].ops : ~ Leads(store[c], i)
    BY <2>1, SoleFacts, DependentsAre DEF Queue!HasActive, Leads
  <2>3. Server.revision = RowOf(c).revision
    BY <2>2 DEF SoleInv, InOrder, RowOf
  <2>4. pulled'[c].revision <= RowOf(c).revision
    BY <2>1, <2>3, SoleFacts
  <2> QED BY <1>2, <1>3, <2>1, <2>4 DEF SoleKept, SoleInv
<1>6. CASE RefreshEqualRevision(c)
  <2>1. /\ gui' = gui /\ pulled'[c] = NoSnapshot /\ gui[c] = Free
        /\ disk'[c] = disk[c] /\ editor'[c] = disk[c]
    BY <1>1, <1>6 DEF RefreshEqualRevision, RefreshesEqual, Tables
  <2> QED BY <1>2, <1>3, <1>4, <2>1 DEF SoleKept, SoleInv, Free
<1>7. CASE SkipPulled(c)
  <2>1. UNCHANGED <<gui, disk, editor>> /\ pulled'[c] = NoSnapshot
    BY <1>1, <1>7 DEF SkipPulled, Tables
  <2> QED BY <1>2, <1>3, <1>4, <2>1 DEF SoleKept, SoleInv
<1> QED BY <1>5, <1>6, <1>7, SoleCannot DEF Pulling

LEMMA SoleDispatches ==
  ASSUME SyncInv, NEW c \in Client, SoleInv(c), Dispatch(c)
  PROVE  SoleKept(c)
<1> DEFINE s == IF Queue!Dispatchable(store[c]) = {}
                THEN Queue!RecoverStranded(store[c], d0) ELSE store[c]
           i == Queue!First(Queue!Dispatchable(s))
<1>1. Tables
  BY DEF SyncInv
<1>2. /\ store' = [store EXCEPT ![c] = Queue!MarkAttempt(s, i)]
      /\ worker' = [worker EXCEPT ![c] = [phase |-> "started", op |-> i]]
      /\ Queue!Dispatchable(s) # {}
      /\ UNCHANGED <<disk, editor, gui, pulled>> /\ UNCHANGED serverVars
  BY Zenon DEF Dispatch
<1>3. Serves(store[c], s, Server.revision, {}) /\ s.rows[d0].revision = RowOf(c).revision
  <2>1. Orderly(store[c], Server.revision)
    BY StoresAreOrderly
  <2>2. Serves(store[c], Queue!RecoverStranded(store[c], d0), Server.revision, {})
    BY <2>1, RecoverServes
  <2>3. Serves(store[c], store[c], Server.revision, {})
    BY <2>1, EvolvesOnce DEF Orderly, Serves
  <2>4. Queue!RecoverStranded(store[c], d0).rows = store[c].rows
    BY SoleFacts, StrandedEffect DEF Reissued
  <2> QED BY <2>2, <2>3, <2>4 DEF RowOf
<1>4. InOrder(s, c)
  BY SoleFacts, OrderRecovered DEF SoleInv
<1>5. s \in Queue!Store
  BY <1>3 DEF Serves, Evolves, Bases
<1> HIDE DEF s
<1>6. i \in Queue!Dispatchable(s)
  <2>1. Queue!Dispatchable(s) \in SUBSET Nat
    BY <1>5, StoreFields DEF Queue!Dispatchable
  <2> QED BY <1>2, <2>1, FirstIsOne
<1> HIDE DEF i
<1>7. i \in DOMAIN s.ops /\ Queue!Active(s.ops[i])
  BY <1>6 DEF Queue!Dispatchable, Queue!Ready, Queue!Active, Queue!TerminalStates
<1>8. /\ store'[c] = Queue!MarkAttempt(s, i)
      /\ worker'[c] = [phase |-> "started", op |-> i]
      /\ UNCHANGED <<documents, versions>>
  BY <1>1, <1>2 DEF Tables, serverVars
<1>9. Turned(s, store'[c], {i}, "inflight") /\ store'[c].rows = s.rows
  BY <1>5, <1>8, AttemptEffect
<1>10. InOrder(store'[c], c)
  <2>1. \A j \in DOMAIN s.ops : j \in {i} => Queue!Active(s.ops[j])
    BY <1>7
  <2>2. store'[c].rows[d0].clash = {}
    BY <1>4, <1>9 DEF InOrder
  <2> QED BY <1>4, <1>9, <2>1, <2>2, OrderTurned
<1>11. InOrder(store[c], c)'
  BY <1>8, <1>10, OrderStays
<1>12. RowOf(c)'.revision = RowOf(c).revision
  BY <1>3, <1>9 DEF RowOf
<1>13. worker'[c].phase \in Carrying \ Refused
  BY <1>8 DEF Carrying, Refused
<1> QED BY <1>2, <1>11, <1>12, <1>13 DEF SoleKept, SoleInv

LEMMA SoleFinishes ==
  ASSUME SyncInv, NEW c \in Client, SoleInv(c), Finishing(c)
  PROVE  SoleKept(c)
<1> PICK op : op = worker[c].op
  OBVIOUS
<1>1. Tables /\ WorkerInv(c) /\ LedgerOfSaves
  BY DEF SyncInv
<1>2. /\ UNCHANGED <<disk, editor, gui, pulled, documents, versions>>
      /\ worker'[c] = NoWorker /\ worker[c].phase \in {"committed", "failed"}
  BY <1>1, SoleCannot
     DEF Finishing, FinishCommitted, FinishFailed, Tables, serverVars
<1>3. /\ op \in DOMAIN store[c].ops /\ store[c].ops[op].state = "inflight"
      /\ Leads(store[c], op) /\ store[c].ops[op].base = RowOf(c).revision
  BY <1>2, SoleOperation
<1>4. ASSUME InOrder(store'[c], c), RowOf(c).revision <= store'[c].rows[d0].revision,
             store'[c].rows[d0].revision \in Nat
      PROVE  SoleKept(c)
  <2>1. InOrder(store[c], c)'
    BY <1>2, <1>4, OrderStays
  <2>2. pulled[c].revision <= store'[c].rows[d0].revision
    <3>1. pulled[c] = NoSnapshot \/ pulled[c].revision \in 1 .. Server.revision
      BY DEF SyncInv, WindowInv, Recorded
    <3>2. pulled[c].revision \in Nat
      BY <3>1, SoleFacts DEF NoSnapshot
    <3>3. pulled[c].revision <= RowOf(c).revision
      BY DEF SoleInv
    <3> QED BY <1>4, <3>2, <3>3, SoleFacts
  <2>3. pulled'[c].revision <= RowOf(c)'.revision
    BY <1>2, <2>2 DEF RowOf
  <2>4. worker'[c].phase = "none"
    BY <1>2 DEF NoWorker
  <2> QED BY <1>2, <2>1, <2>3, <2>4 DEF SoleKept, SoleInv
<1>5. CASE FinishCommitted(c)
  <2>1. /\ worker[c].phase = "committed"
        /\ store'[c] = Queue!MarkSuccess(store[c], op, worker[c].revision)
    BY <1>1, <1>5 DEF FinishCommitted, Tables
  <2>2. PICK v \in versions : Records(v, c, op) /\ v.revision = worker[c].revision
    BY <1>1, <2>1 DEF WorkerInv
  <2>3. Applied(c, op)
    BY <2>2 DEF Applied, Records, VersionOf
  <2>4. v.revision = RowOf(c).revision + 1
    BY <1>3, <2>2 DEF Records, Base
  <2>5. v.revision \in 1 .. Server.revision
    BY <1>1 DEF LedgerOfSaves
  <2>6. Server.revision = RowOf(c).revision \/ Server.revision = RowOf(c).revision + 1
    BY DEF SoleInv, InOrder, RowOf
  <2>7. /\ Server.revision = RowOf(c).revision + 1 /\ worker[c].revision = Server.revision
        /\ Server.revision \in Nat /\ RowOf(c).revision <= Server.revision
    BY <2>2, <2>4, <2>5, <2>6, SoleFacts
  <2>8. /\ InOrder(store'[c], c) /\ store'[c].rows[d0].revision = Server.revision
    BY <1>3, <2>1, <2>3, <2>7, SoleFacts, OrderAnswered DEF SoleInv
  <2> QED BY <1>4, <2>7, <2>8
<1>6. CASE FinishFailed(c)
  <2>1. store'[c] = Queue!MarkRetry(store[c], op)
    BY <1>1, <1>6 DEF FinishFailed, Tables
  <2>2. /\ Turned(store[c], store'[c], {op}, "retry_wait")
        /\ RowSays(store'[c], store[c].rows[d0].revision, store[c].rows[d0].clash)
    BY <1>3, <2>1, SoleFacts, RetryEffect
  <2>3. /\ store'[c].rows[d0].revision = store[c].rows[d0].revision
        /\ store'[c].rows[d0].clash = {}
    BY <2>2 DEF RowSays, SoleInv, InOrder
  <2>4. \A j \in DOMAIN store[c].ops : j \in {op} => Queue!Active(store[c].ops[j])
    BY <1>3 DEF Leads
  <2>5. InOrder(store'[c], c)
    BY <2>2, <2>3, <2>4, OrderTurned DEF SoleInv
  <2>6. /\ RowOf(c).revision <= store'[c].rows[d0].revision
        /\ store'[c].rows[d0].revision \in Nat
    BY <2>3, SoleFacts
  <2> QED BY <1>4, <2>5, <2>6
<1> QED BY <1>5, <1>6, SoleCannot DEF Finishing

LEMMA SoleRestarts ==
  ASSUME SyncInv, NEW c \in Client, SoleInv(c), Crash(c)
  PROVE  SoleKept(c)
<1>1. Tables
  BY DEF SyncInv
<1>2. /\ UNCHANGED <<disk, documents, versions>>
      /\ editor'[c] = disk[c] /\ gui'[c] = Free /\ worker'[c] = NoWorker
      /\ pulled'[c] = NoSnapshot
      /\ store'[c] = Queue!RecoverInterruptedDispatches(store[c])
  BY <1>1 DEF Crash, Tables, serverVars
<1>3. /\ Turned(store[c], store'[c], InFlight(store[c]), "retry_wait")
      /\ store'[c].rows = store[c].rows
  BY <1>2, SoleFacts, RestartEffect
<1>4. InOrder(store'[c], c)
  <2>1. \A i \in DOMAIN store[c].ops : i \in InFlight(store[c]) => Queue!Active(store[c].ops[i])
    BY DEF InFlight, Queue!Active, Queue!TerminalStates
  <2>2. store'[c].rows[d0].clash = {}
    BY <1>3 DEF SoleInv, InOrder
  <2> QED BY <1>3, <2>1, <2>2, OrderTurned DEF SoleInv
<1>5. InOrder(store[c], c)' /\ RowOf(c)' = RowOf(c)
  BY <1>2, <1>3, <1>4, OrderStays DEF RowOf
<1>6. pulled'[c].revision <= RowOf(c).revision
  BY <1>2, SoleFacts DEF NoSnapshot
<1>7. worker'[c].phase = "none" /\ gui'[c].task = "none"
  BY <1>2 DEF NoWorker, Free
<1> QED BY <1>2, <1>5, <1>6, <1>7 DEF SoleKept, SoleInv

\* The device's own picture of itself stays while the server takes a step.
LEMMA SoleGoesOn ==
  ASSUME NEW c, SoleInv(c), InOrder(store[c], c)',
         UNCHANGED <<store, disk, editor, gui, pulled>>,
         worker'[c] = worker[c] \/ worker'[c].phase \in Carrying \ Refused
  PROVE  SoleKept(c)
BY DEF SoleKept, SoleInv, RowOf

\* Only the sole writer's operations are sent, and a commit that is applied is
\* the leading one.
LEMMA SoleCommits ==
  ASSUME SyncInv, ReadersInv, NEW c \in Client, writers = {c}, SoleInv(c),
         NEW t \in commits, FinishCommit(t), store' = store
  PROVE  InOrder(store[c], c)'
<1>1. PICK e \in Client : \E i \in DOMAIN store[e].ops :
        /\ t.request.op = OperationOf[e, i]
        /\ t.request.base = Base(e, i) /\ Base(e, i) # NoBase
  BY DEF SyncInv, CommitsCarryOperations
<1>2. PICK i \in DOMAIN store[e].ops :
        /\ t.request.op = OperationOf[e, i]
        /\ t.request.base = Base(e, i) /\ Base(e, i) # NoBase
  BY <1>1
<1>3. e = c
  BY <1>2 DEF ReadersInv, ReaderInv
<1>4. CASE CommitVerdict(t.request, t.at) # "committed"
  <2>1. UNCHANGED <<documents, versions>>
    BY <1>4 DEF FinishCommit
  <2> QED BY <2>1, OrderStays DEF SoleInv
<1>5. CASE CommitVerdict(t.request, t.at) = "committed"
  <2>1. VersionOf(t.request.op) = {} /\ Server.revision = t.request.base
    BY <1>5, VerdictFacts
  <2>2. i \in DOMAIN store[c].ops /\ ~ Applied(c, i)
    BY <1>2, <1>3, <2>1 DEF Applied
  <2>3. Leads(store[c], i) /\ store[c].ops[i].base = store[c].rows[d0].revision
    BY <1>2, <1>3, <2>2 DEF SoleInv, InOrder, Base
  <2>4. /\ versions \subseteq versions'
        /\ \E v \in versions' : v.op = t.request.op /\ v.revision = t.request.base + 1
    BY <1>5, LedgerAdvances DEF Advances
  <2>5. Applied(c, i)' /\ \A j : Applied(c, j) => Applied(c, j)'
    BY <1>2, <1>3, <2>4 DEF Applied, VersionOf
  <2>6. Server'.revision = store[c].rows[d0].revision + 1
    <3>1. t.request.doc = d0
      BY RequestFacts, Zenon
    <3>2. documents' = [documents EXCEPT ![d0] =
            [project |-> t.request.project, path |-> t.request.path,
             content |-> t.request.content, revision |-> t.request.base + 1,
             deleted |-> t.request.deleted]]
      BY <1>5, <3>1 DEF FinishCommit, Apply
    <3>3. DOMAIN documents = Document /\ d0 \in Document
      BY SyncAssumption DEF SyncInv, Tables, d0
    <3>4. Server'.revision = t.request.base + 1
      BY <3>2, <3>3 DEF Server
    <3> QED BY <1>2, <1>3, <2>3, <3>4 DEF Base
  <2>7. \A j \in DOMAIN store[c].ops : Leads(store[c], j)' <=> Leads(store[c], j)
    BY DEF Leads
  <2> QED BY <2>2, <2>3, <2>5, <2>6, <2>7 DEF SoleInv, InOrder
<1> QED BY <1>4, <1>5

LEMMA SoleAnswered ==
  ASSUME SyncInv, ReadersInv, NEW c \in Client, writers = {c}, SoleInv(c), CommitAnswered(c)
  PROVE  SoleKept(c)
<1> PICK t \in commits : t = worker[c].call
  BY DEF CommitAnswered
<1> PICK op : op = worker[c].op
  OBVIOUS
<1> DEFINE verdict == CommitVerdict(t.request, t.at)
<1>1. Tables /\ WorkerInv(c)
  BY DEF SyncInv
<1>2. /\ worker[c].phase = "committing" /\ t \in commits /\ FinishCommit(t)
      /\ worker' = [worker EXCEPT ![c] = Outcome(c, verdict)]
      /\ UNCHANGED <<store, gui, pulled, disk, editor>>
  BY Zenon DEF CommitAnswered, Learn, AtWorker
<1>3. worker'[c] = Outcome(c, verdict)
  BY <1>1, <1>2 DEF Tables
<1>4. /\ op \in DOMAIN store[c].ops /\ Leads(store[c], op)
      /\ store[c].ops[op].base = RowOf(c).revision
  BY <1>2, SoleOperation
<1>5. t.request.op = OperationOf[c, op] /\ t.request.base = RowOf(c).revision
  BY <1>1, <1>2, <1>4 DEF WorkerInv, Carried
<1>6. verdict # "REVISION_CONFLICT"
  <2>1. SUFFICES ASSUME verdict = "REVISION_CONFLICT" PROVE FALSE
    OBVIOUS
  <2>2. ~ Applied(c, op) /\ Server.revision # RowOf(c).revision
    BY <1>2, <1>5, <2>1, VerdictFacts, Zenon DEF Applied
  <2> QED BY <1>4, <2>2 DEF SoleInv, InOrder, RowOf
<1>7. InOrder(store[c], c)'
  BY <1>2, SoleCommits
<1> HIDE DEF verdict
<1>8. Outcome(c, verdict).phase \in {"committed", "failed"}
  BY <1>6 DEF Outcome
<1>9. worker'[c].phase \in Carrying \ Refused
  BY <1>3, <1>8 DEF Carrying, Refused
<1> QED BY <1>2, <1>7, <1>9, SoleGoesOn

LEMMA SoleWorks ==
  ASSUME SyncInv, ReadersInv, NEW c \in Client, writers = {c}, SoleInv(c), Working(c)
  PROVE  SoleKept(c)
<1> USE DEF Learn, AtWorker
<1>1. Tables
  BY DEF SyncInv
<1>2. ASSUME StartAcquire(c) \/ AcquireAnswered(c) \/ SendCommit(c) \/ AttemptFails(c)
      PROVE  SoleKept(c)
  <2>1. /\ UNCHANGED <<store, disk, editor, gui, pulled, documents, versions>>
        /\ worker'[c].phase \in {"acquiring", "leased", "failed", "committing"}
    <3>1. CASE StartAcquire(c)
      BY <1>1, <3>1 DEF StartAcquire, BeginAcquire, Tables
    <3>2. CASE AcquireAnswered(c)
      BY <1>1, <3>2 DEF AcquireAnswered, FinishAcquire, Tables
    <3>3. CASE SendCommit(c)
      BY <1>1, <3>3 DEF SendCommit, BeginCommit, Tables
    <3>4. CASE AttemptFails(c)
      BY <1>1, <3>4 DEF AttemptFails, serverVars, Tables
    <3> QED BY <1>2, <3>1, <3>2, <3>3, <3>4
  <2>2. InOrder(store[c], c)'
    BY <2>1, OrderStays DEF SoleInv
  <2>3. worker'[c].phase \in Carrying \ Refused
    BY <2>1 DEF Carrying, Refused
  <2> QED BY <2>1, <2>2, <2>3, SoleGoesOn
<1> QED BY <1>2, SoleAnswered, SoleCannot DEF Working
\* A step of a device nobody types on.
LEMMA SoleAsOthersMove ==
  ASSUME SyncInv, ReadersInv, NEW c \in Client, SoleInv(c), NEW e \in Client \ writers,
         e # c,
         \/ Writing(e) \/ Pulling(e) \/ Dispatch(e) \/ Finishing(e)
         \/ Working(e) \/ Crash(e) \/ GiveBackLease(e)
  PROVE  SoleKept(c)
<1>1. OthersStay(e)
  BY StepsApart DEF ReadersInv, Apart
<1>2. Pulling(e) \/ Crash(e) \/ GiveBackLease(e)
  BY ReadersSteps DEF ReadersInv
<1>3. UNCHANGED <<documents, versions>>
  <2>1. CASE Pulling(e)
    BY <2>1 DEF Pulling, FetchSnapshot, ApplyPulledFile, ApplyPulledSnapshot,
       RefreshEqualRevision, SkipPulled, serverVars
  <2>2. CASE Crash(e)
    BY <2>2 DEF Crash, serverVars
  <2>3. CASE GiveBackLease(e)
    BY <2>3 DEF GiveBackLease, ReleaseLease, serverVars
  <2> QED BY <1>2, <2>1, <2>2, <2>3
<1>4. /\ store'[c] = store[c] /\ worker'[c] = worker[c] /\ gui'[c] = gui[c]
      /\ pulled'[c] = pulled[c] /\ disk'[c] = disk[c] /\ editor'[c] = editor[c]
  BY <1>1 DEF OthersStay
<1>5. InOrder(store[c], c)'
  BY <1>3, <1>4, OrderStays DEF SoleInv
<1> QED BY <1>4, <1>5 DEF SoleKept, SoleInv, RowOf

LEMMA SoleStep ==
  ASSUME SyncInv, ReadersInv, NEW c \in Client, writers = {c}, SoleInv(c),
         StructureRows, [SyncNext]_syncVars
  PROVE  SoleKept(c)
<1>1. ASSUME NEW e \in Client,
             \/ Writing(e) \/ Pulling(e) \/ Dispatch(e) \/ Finishing(e)
             \/ Working(e) \/ Crash(e) \/ GiveBackLease(e)
      PROVE  SoleKept(c)
  <2>1. CASE e # c
    BY <1>1, <2>1, SoleAsOthersMove
  <2>2. CASE GiveBackLease(c)
    <3>1. UNCHANGED <<store, disk, editor, gui, pulled, worker, documents, versions>>
      BY <2>2 DEF GiveBackLease, ReleaseLease, serverVars
    <3>2. InOrder(store[c], c)'
      BY <3>1, OrderStays DEF SoleInv
    <3> QED BY <3>1, <3>2, SoleGoesOn
  <2> QED BY <1>1, <2>1, <2>2, SoleWrites, SolePulls, SoleDispatches, SoleFinishes,
             SoleWorks, SoleRestarts
<1>2. ASSUME UNCHANGED deviceVars, InOrder(store[c], c)'
      PROVE  SoleKept(c)
  BY <1>2, SoleGoesOn DEF deviceVars
<1>3. ASSUME StrayCall
      PROVE  SoleKept(c)
  <2>1. UNCHANGED deviceVars /\ store' = store
    BY <1>3 DEF StrayCall, deviceVars
  <2>2. CASE \E t \in commits : FinishCommit(t)
    BY <1>2, <2>1, <2>2, SoleCommits
  <2>3. CASE \E a \in acquires : FinishAcquire(a)
    <3>1. UNCHANGED <<documents, versions>>
      BY <2>3 DEF FinishAcquire
    <3> QED BY <1>2, <2>1, <3>1, OrderStays DEF SoleInv
  <2> QED BY <1>3, <2>2, <2>3 DEF StrayCall
<1>4. ASSUME Tick, UNCHANGED deviceVars
      PROVE  SoleKept(c)
  <2>1. UNCHANGED <<documents, versions, store>>
    BY <1>4 DEF Tick, deviceVars
  <2> QED BY <1>2, <1>4, <2>1, OrderStays DEF SoleInv
<1>5. ASSUME UNCHANGED syncVars
      PROVE  SoleKept(c)
  <2>1. UNCHANGED <<documents, versions, store>> /\ UNCHANGED deviceVars
    BY <1>5 DEF syncVars, serverVars, deviceVars
  <2> QED BY <1>2, <2>1, OrderStays DEF SoleInv
<1> QED BY <1>1, <1>3, <1>4, <1>5, Zenon DEF SyncNext

LEMMA SoleInitInv ==
  ASSUME SyncInit
  PROVE  SoleWriterInv
<1>1. ASSUME NEW c \in Client
      PROVE  SoleInv(c)
  <2>1. /\ worker[c] = NoWorker /\ gui[c] = Free /\ pulled[c] = NoSnapshot
        /\ disk[c] = {} /\ editor[c] = {}
        /\ store[c] = [ops |-> <<>>, rows |-> [d \in {d0} |-> Queue!CleanRow(1, {})]]
    BY Zenon DEF SyncInit
  <2>2. /\ DOMAIN store[c].ops = {} /\ store[c].rows[d0].revision = 1
        /\ store[c].rows[d0].clash = {}
    BY <2>1, EmptyQueue, Zenon
  <2>3. Server.revision = 1
    <3>1. documents[d0] = [project |-> TheProject, path |-> ThePath, content |-> {},
                           revision |-> 1, deleted |-> FALSE]
      BY SyncAssumption, Zenon DEF SyncInit, d0
    <3> QED BY <3>1 DEF Server
  <2>4. InOrder(store[c], c)
    BY <2>2, <2>3 DEF InOrder
  <2>5. pulled[c].revision <= RowOf(c).revision
    BY <2>1, <2>2 DEF NoSnapshot, RowOf
  <2> QED BY <2>1, <2>4, <2>5 DEF SoleInv, NoWorker, Free
<1>2. writers \subseteq Client
  BY SyncAssumption, Zenon DEF SyncInit
<1> QED BY <1>1, <1>2 DEF SoleWriterInv

\* A writer who works on one device only loses nothing that was saved, when the
\* rows of the server carry a structure revision: the leading operation of the
\* device is on the server's revision or is what made it, so that its worker is
\* never refused, nothing newer is ever pulled, and the file is only written
\* from the editor it is never ahead of.
THEOREM SoleWriterKeepsAll ==
  ASSUME StructureRows
  PROVE  SyncSpec => SoleWriterLosesNothing
<1> DEFINE Inv == SyncInv /\ ReadersInv /\ SoleWriterInv
           Kept == \A c \in writers : writers = {c} => disk[c] \subseteq disk'[c]
<1>1. SyncInit => Inv
  BY SyncInitInv, ReadersInitInv, SoleInitInv
<1>2. Inv /\ [SyncNext]_syncVars => Inv' /\ Kept
  <2> SUFFICES ASSUME Inv, [SyncNext]_syncVars PROVE Inv' /\ Kept
    OBVIOUS
  <2>1. SyncInv' /\ ReadersInv' /\ writers' = writers
    BY SyncInvStep, ReadersInvStep, Zenon DEF SyncNext, syncVars
  <2>2. ASSUME NEW c \in writers, writers = {c}
        PROVE  SoleKept(c)
    <3>1. c \in Client
      BY <2>2 DEF SyncInv
    <3> QED BY <2>2, <3>1, SoleStep DEF SoleWriterInv
  <2> QED BY <2>1, <2>2 DEF SoleWriterInv, SoleKept
<1>3. Inv /\ [SyncNext]_syncVars => [Kept]_syncVars
  BY <1>2
<1> QED BY <1>1, <1>2, <1>3, PTL DEF SyncSpec, SoleWriterLosesNothing
=============================================================================
