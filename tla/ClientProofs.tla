----------------------------- MODULE ClientProofs -----------------------------
(***************************************************************************)
(* Proofs about one device: about OperationQueue, for any documents,       *)
(* texts, error codes and bounds, and about ProjectLibrary, for any works, *)
(* projects and titles.                                                    *)
(*                                                                         *)
(* The first part of the queue looks at the store alone: StoreInv, the     *)
(* part of the invariant that each SQLite transaction keeps by itself.     *)
(* The second adds the worker's operation and the server's ledger          *)
(* (QueueInv).  The works of the device follow (LibraryInv).               *)
(***************************************************************************)
EXTENDS MCClient, WellFoundedInduction, TLAPS

\* Saves are made of documents the store knows.
RowsKnown(s) == \A i \in DOMAIN s.ops : s.rows[s.ops[i].doc] # NoRow

Heads(o) == Waiting(o) /\ o.base # NoBase

\* At most one waiting operation of a document knows its base ...
OneHead(s) ==
  \A i, j \in DOMAIN s.ops :
    s.ops[i].doc = s.ops[j].doc /\ Heads(s.ops[i]) /\ Heads(s.ops[j]) => i = j

\* ... and that is the document's own.
HeadsMatch(s) ==
  \A i \in DOMAIN s.ops :
    Heads(s.ops[i]) => /\ s.ops[i].base = s.rows[s.ops[i].doc].revision
                      /\ s.ops[i].from = s.rows[s.ops[i].doc].base

\* While a document is stopped at a conflict, nothing of it is under way: the
\* next save cancels the conflict before it queues anything.
ConflictsAlone(s) ==
  \A i, j \in DOMAIN s.ops :
    s.ops[i].doc = s.ops[j].doc /\ s.ops[i].state = "conflict" => ~ Waiting(s.ops[j])

ConflictsShown(s) ==
  \A d \in Document : s.rows[d] # NoRow =>
    (s.rows[d].sync = "conflict"
       <=> \E i \in DOMAIN s.ops : s.ops[i].doc = d /\ s.ops[i].state = "conflict")

StoreInv(s) ==
  /\ s \in Store
  /\ RowsKnown(s) /\ OneHead(s) /\ HeadsMatch(s)
  /\ ConflictsAlone(s) /\ ConflictsShown(s)

\* The operation of a worker that has not been given up is still in flight.
AtWork == {"sent", "rejected", "committed"} \cup Errors

WorkerHoldsHead ==
  worker.phase \in AtWork => Carried.state = "inflight" /\ Carried.base # NoBase

\* What the server has recorded of an operation is what the operation says.
LedgerOfOperations ==
  \A a \in applied :
    LET o == store.ops[a.op] IN
    a.revision \in 1 .. Len(ledger[o.doc]) /\ ledger[o.doc][a.revision] = o.text

\* The operation i starts from a revision the server has left behind, and can
\* never be applied any more.
Behind(i) ==
  /\ store.ops[i].base # NoBase
  /\ store.ops[i].base < Revision(store.ops[i].doc)
  /\ AppliedAs(i) = {}

RejectedIsBehind == worker.phase = "rejected" => Behind(worker.op)

ConflictsAreBehind ==
  \A i \in DOMAIN store.ops : store.ops[i].state = "conflict" => Behind(i)

CommittedIsApplied ==
  worker.phase = "committed" => [op |-> worker.op, revision |-> worker.revision] \in applied

AppliedExist == \A a \in applied : a.op \in DOMAIN store.ops

QueueInv ==
  /\ TypeOK /\ AppliedExist /\ StoreInv(store) /\ BaseAgreesWithLedger
  /\ WorkerHoldsHead /\ LedgerOfOperations
  /\ RejectedIsBehind /\ ConflictsAreBehind /\ CommittedIsApplied

-----------------------------------------------------------------------------
(* The oldest and the newest of some operations *)

\* Every non-empty set of numbers has a first one.
LEMMA LeastExists ==
  ASSUME NEW I \in SUBSET Nat, I # {}
  PROVE  \E i \in I : \A j \in I : i <= j
<1> DEFINE less == OpToRel(<, Nat)
<1>1. IsWellFoundedOn(less, Nat)
  BY NatLessThanWellFounded
<1>2. \A i, j \in Nat : j < i => <<j, i>> \in less
  BY DEF OpToRel
<1> HIDE DEF less
<1>3. PICK i \in I : \A j \in I : ~ (<<j, i>> \in less)
  BY <1>1, WFMin, Zenon
<1>4. \A j \in I : ~ (j < i)
  BY <1>2, <1>3, Zenon
<1> QED BY <1>4

LEMMA FirstIsOldest ==
  ASSUME NEW I \in SUBSET Nat, I # {}
  PROVE  First(I) \in I /\ \A j \in I : First(I) <= j
BY LeastExists DEF First

LEMMA LastIsNewest ==
  ASSUME NEW n \in Nat, NEW I \in SUBSET (1 .. n), I # {}
  PROVE  Last(I) \in I /\ \A j \in I : j <= Last(I)
<1> DEFINE left == {n - i : i \in I}
<1>1. left \in SUBSET Nat /\ left # {}
  <2>1. \A i \in I : n - i \in Nat
    OBVIOUS
  <2> QED BY <2>1
<1>2. PICK k \in left : \A j \in left : k <= j
  BY <1>1, LeastExists
<1>3. PICK i \in I : k = n - i
  OBVIOUS
<1>4. \A j \in I : n - i <= n - j
  BY <1>2, <1>3
<1>5. \A a, b \in 1 .. n : n - a <= n - b => b <= a
  OBVIOUS
<1> HIDE DEF left
<1>6. \A j \in I : j <= i
  BY <1>4, <1>5
<1> QED BY <1>6 DEF Last

-----------------------------------------------------------------------------
(* What the steps of the transactions do to a store *)

LEMMA StoreFields ==
  ASSUME NEW s \in Store
  PROVE  /\ Len(s.ops) \in Nat /\ DOMAIN s.ops = 1 .. Len(s.ops)
         /\ \A i \in DOMAIN s.ops : s.ops[i] \in OpRow
         /\ \A d \in Document : s.rows[d] \in Row \cup {NoRow}
         /\ DOMAIN s.rows = Document
BY DEF Store

\* Operations I are in another state.
Moved(s, t, I, state) ==
  /\ t \in Store /\ t.rows = s.rows /\ DOMAIN t.ops = DOMAIN s.ops
  /\ \A i \in DOMAIN s.ops :
       /\ t.ops[i].doc = s.ops[i].doc /\ t.ops[i].base = s.ops[i].base
       /\ t.ops[i].from = s.ops[i].from /\ t.ops[i].text = s.ops[i].text
       /\ t.ops[i].state = IF i \in I THEN state ELSE s.ops[i].state

LEMMA SetStateEffect ==
  ASSUME NEW s \in Store, NEW I, NEW state \in State
  PROVE  Moved(s, SetState(s, I, state), I, state)
<1> DEFINE ops == [i \in DOMAIN s.ops |->
              IF i \in I THEN [s.ops[i] EXCEPT !.state = state] ELSE s.ops[i]]
           t == SetState(s, I, state)
<1>1. /\ Len(s.ops) \in Nat /\ DOMAIN s.ops = 1 .. Len(s.ops)
      /\ s.rows \in [Document -> Row \cup {NoRow}]
      /\ \A i \in DOMAIN s.ops : s.ops[i] \in OpRow
  BY DEF Store
<1>2. \A i \in DOMAIN s.ops :
        /\ ops[i] \in OpRow
        /\ ops[i].doc = s.ops[i].doc /\ ops[i].base = s.ops[i].base
        /\ ops[i].from = s.ops[i].from /\ ops[i].text = s.ops[i].text
        /\ ops[i].state = IF i \in I THEN state ELSE s.ops[i].state
  BY <1>1 DEF OpRow
<1>3. ops \in [1 .. Len(s.ops) -> OpRow]
  BY <1>1, <1>2
<1>4. ops \in Seq(OpRow) /\ Len(ops) = Len(s.ops) /\ DOMAIN ops = DOMAIN s.ops
  BY <1>1, <1>3
<1>5. t = [s EXCEPT !.ops = ops]
  BY DEF SetState
<1> HIDE DEF ops, t
<1>6. t = [ops |-> ops, rows |-> s.rows]
  BY <1>5 DEF Store
<1>7. t \in Store
  BY <1>1, <1>4, <1>6 DEF Store
<1>8. Moved(s, t, I, state)
  BY <1>2, <1>4, <1>6, <1>7 DEF Moved
<1> QED BY <1>8 DEF t

\* Operation n is new.
Added(s, t, n, d, base, from, text) ==
  /\ t \in Store
  /\ DOMAIN t.ops = DOMAIN s.ops \cup {n} /\ n \notin DOMAIN s.ops
  /\ \A i \in DOMAIN s.ops : t.ops[i] = s.ops[i]
  /\ t.ops[n].doc = d /\ t.ops[n].base = base /\ t.ops[n].from = from
  /\ t.ops[n].text = text /\ t.ops[n].state = "pending"

LEMMA InsertEffect ==
  ASSUME NEW s \in Store, NEW d \in Document, NEW base \in Nat \cup {NoBase},
         NEW from \in Text, NEW text \in Text
  PROVE  /\ Insert(s, d, base, from, text).rows = s.rows
         /\ \E n : Added(s, Insert(s, d, base, from, text), n, d, base, from, text)
<1> DEFINE o == [doc |-> d, base |-> base, from |-> from, text |-> text, state |-> "pending"]
           t == Insert(s, d, base, from, text)
           n == Len(s.ops) + 1
<1>1. /\ o \in OpRow
      /\ o.doc = d /\ o.base = base /\ o.from = from /\ o.text = text /\ o.state = "pending"
  BY DEF OpRow, State
<1>2. s.ops \in Seq(OpRow) /\ s.rows \in [Document -> Row \cup {NoRow}]
  BY DEF Store
<1>3. t = [s EXCEPT !.ops = Append(s.ops, o)]
  BY Zenon DEF Insert
<1> HIDE DEF o, t
<1>4. t = [ops |-> Append(s.ops, o), rows |-> s.rows]
  BY <1>3 DEF Store
<1>5. /\ Append(s.ops, o) \in Seq(OpRow) /\ Len(Append(s.ops, o)) = Len(s.ops) + 1
      /\ \A i \in DOMAIN s.ops : Append(s.ops, o)[i] = s.ops[i]
      /\ Append(s.ops, o)[Len(s.ops) + 1] = o
  BY <1>1, <1>2
<1>6. t \in Store
  BY <1>2, <1>4, <1>5 DEF Store
<1>7. DOMAIN t.ops = DOMAIN s.ops \cup {n} /\ n \notin DOMAIN s.ops
  BY <1>4, <1>5, <1>6, StoreFields
<1>8. Added(s, t, n, d, base, from, text)
  BY <1>1, <1>4, <1>5, <1>6, <1>7 DEF Added
<1>9. t.rows = s.rows
  BY <1>4
<1> QED BY <1>8, <1>9, Zenon DEF t

\* Document d has another row.
Rewritten(s, t, d, row) ==
  /\ t \in Store /\ t.ops = s.ops
  /\ \A e \in Document : t.rows[e] = IF e = d THEN row ELSE s.rows[e]

LEMMA SetRowEffect ==
  ASSUME NEW s \in Store, NEW d \in Document, NEW row \in Row
  PROVE  Rewritten(s, SetRow(s, d, row), d, row)
<1>1. SetRow(s, d, row) = [ops |-> s.ops, rows |-> [s.rows EXCEPT ![d] = row]]
  BY DEF SetRow, Store
<1>2. s.ops \in Seq(OpRow) /\ s.rows \in [Document -> Row \cup {NoRow}]
  BY DEF Store
<1>3. [s.rows EXCEPT ![d] = row] \in [Document -> Row \cup {NoRow}]
  BY <1>2
<1> QED BY <1>1, <1>2, <1>3 DEF Store, Rewritten

\* A row whose state of synchronisation changes says the same of the server.
SameBase(row, new) == new.revision = row.revision /\ new.base = row.base

LEMMA SavedRow ==
  ASSUME NEW row \in Row, NEW new, new = [row EXCEPT !.sync = "pending", !.clash = {}]
  PROVE  new \in Row /\ new.sync = "pending" /\ SameBase(row, new)
BY DEF Row, SameBase

\* A save of document d is new, and its row says so.
SavedIn(s, t, d, base, from, text) ==
  /\ \E n : Added(s, t, n, d, base, from, text)
  /\ t.rows[d] # NoRow /\ t.rows[d].sync = "pending"
  /\ SameBase(s.rows[d], t.rows[d])
  /\ \A e \in Document \ {d} : t.rows[e] = s.rows[e]

LEMMA InsertSaveEffect ==
  ASSUME NEW s \in Store, NEW d \in Document, s.rows[d] # NoRow,
         NEW base \in Nat \cup {NoBase}, NEW from \in Text, NEW text \in Text
  PROVE  SavedIn(s, InsertSave(s, d, base, from, text), d, base, from, text)
<1> DEFINE x == Insert(s, d, base, from, text)
           row == [x.rows[d] EXCEPT !.sync = "pending", !.clash = {}]
           t == SetRow(x, d, row)
<1>1. PICK n : x.rows = s.rows /\ Added(s, x, n, d, base, from, text)
  BY InsertEffect, Zenon
<1> HIDE DEF x
<1>2. x \in Store /\ x.rows[d] \in Row
  BY <1>1, StoreFields DEF Added
<1>3. row \in Row /\ row.sync = "pending" /\ SameBase(x.rows[d], row)
  BY <1>2, SavedRow, Zenon
<1> HIDE DEF row
<1>4. Rewritten(x, t, d, row)
  BY <1>2, <1>3, SetRowEffect, Zenon
<1>5. InsertSave(s, d, base, from, text) = t
  BY Zenon DEF InsertSave, t, x, row
<1> HIDE DEF t
<1>6. Added(s, t, n, d, base, from, text)
  BY <1>1, <1>4 DEF Rewritten, Added
<1>7. /\ t.rows[d] = row /\ row # NoRow /\ SameBase(s.rows[d], row)
      /\ \A e \in Document \ {d} : t.rows[e] = s.rows[e]
  BY <1>1, <1>3, <1>4, StoreAssumption DEF Rewritten
<1> QED BY <1>3, <1>5, <1>6, <1>7 DEF SavedIn

-----------------------------------------------------------------------------
(* What the rest of the system may count on when a transaction runs *)

\* No save is forgotten or rewritten, and no conflict appears.
OpsKept(s, t) ==
  /\ DOMAIN s.ops \subseteq DOMAIN t.ops
  /\ \A i \in DOMAIN s.ops :
       /\ t.ops[i].doc = s.ops[i].doc /\ t.ops[i].base = s.ops[i].base
       /\ t.ops[i].text = s.ops[i].text
  /\ \A i \in DOMAIN t.ops :
       t.ops[i].state = "conflict" => i \in DOMAIN s.ops /\ s.ops[i].state = "conflict"

\* No document takes another text for the server's.
RowsKept(s, t) ==
  \A d \in Document :
    t.rows[d] # NoRow /\ t.rows[d].revision > 0 =>
      /\ s.rows[d] # NoRow
      /\ t.rows[d].revision = s.rows[d].revision /\ t.rows[d].base = s.rows[d].base

InFlightKept(s, t) ==
  \A i \in DOMAIN s.ops : s.ops[i].state = "inflight" => t.ops[i].state = "inflight"

Keeps(s, t) == StoreInv(t) /\ OpsKept(s, t) /\ RowsKept(s, t)

LEMMA KeptIsTransitive ==
  ASSUME NEW s \in Store, NEW t \in Store, NEW u \in Store,
         OpsKept(s, t) /\ RowsKept(s, t), OpsKept(t, u) /\ RowsKept(t, u)
  PROVE  OpsKept(s, u) /\ RowsKept(s, u)
BY DEF OpsKept, RowsKept

LEMMA KeepsItself ==
  ASSUME NEW s, StoreInv(s)
  PROVE  Keeps(s, s) /\ InFlightKept(s, s)
BY DEF Keeps, OpsKept, RowsKept, InFlightKept

LEMMA KeepsIsTransitive ==
  ASSUME NEW s, StoreInv(s), NEW t, Keeps(s, t), NEW u, Keeps(t, u)
  PROVE  Keeps(s, u)
BY KeptIsTransitive DEF Keeps, StoreInv

LEMMA InFlightIsTransitive ==
  ASSUME NEW s, NEW t, OpsKept(s, t), InFlightKept(s, t), NEW u, InFlightKept(t, u)
  PROVE  InFlightKept(s, u)
BY DEF OpsKept, InFlightKept

\* No operation of document d is stopped at a conflict; none knows its base.
NoConflict(s, d) ==
  \A i \in DOMAIN s.ops : s.ops[i].doc = d => s.ops[i].state # "conflict"

NoHead(s, d) ==
  \A i \in DOMAIN s.ops : s.ops[i].doc = d => ~ Heads(s.ops[i])

LEMMA WaitingMeansNoConflict ==
  ASSUME NEW s, StoreInv(s), NEW d, NEW i \in DOMAIN s.ops, s.ops[i].doc = d,
         Waiting(s.ops[i])
  PROVE  NoConflict(s, d)
BY DEF StoreInv, ConflictsAlone, NoConflict

\* Waiting operations stop; no conflict is touched.
LEMMA StopOperations ==
  ASSUME NEW s, StoreInv(s), NEW I, NEW state \in {"cancelled", "blocked", "completed"},
         \A i \in DOMAIN s.ops : i \in I => s.ops[i].state # "conflict",
         NEW t, Moved(s, t, I, state)
  PROVE  Keeps(s, t)
<1> USE DEF Moved
<1>1. \A i \in DOMAIN s.ops :
        /\ Waiting(t.ops[i]) => Waiting(s.ops[i])
        /\ Heads(t.ops[i]) => Heads(s.ops[i])
        /\ t.ops[i].state = "conflict" <=> s.ops[i].state = "conflict"
  BY DEF Waiting, Heads
<1>2. RowsKnown(t) /\ OneHead(t) /\ HeadsMatch(t)
  BY <1>1 DEF StoreInv, RowsKnown, OneHead, HeadsMatch
<1>3. ConflictsAlone(t) /\ ConflictsShown(t)
  BY <1>1 DEF StoreInv, ConflictsAlone, ConflictsShown
<1>4. OpsKept(s, t) /\ RowsKept(s, t)
  BY <1>1 DEF OpsKept, RowsKept
<1> QED BY <1>2, <1>3, <1>4 DEF StoreInv, Keeps

\* Waiting operations go on waiting, in flight or for another attempt.
LEMMA MoveOperations ==
  ASSUME NEW s, StoreInv(s), NEW I, NEW state \in {"inflight", "retry_wait"},
         \A i \in DOMAIN s.ops : i \in I => Waiting(s.ops[i]),
         NEW t, Moved(s, t, I, state)
  PROVE  Keeps(s, t)
<1> USE DEF Moved
<1>1. \A i \in DOMAIN s.ops :
        /\ Waiting(t.ops[i]) <=> Waiting(s.ops[i])
        /\ Heads(t.ops[i]) <=> Heads(s.ops[i])
        /\ t.ops[i].state = "conflict" <=> s.ops[i].state = "conflict"
  BY DEF Waiting, Heads
<1>2. RowsKnown(t) /\ OneHead(t) /\ HeadsMatch(t)
  BY <1>1 DEF StoreInv, RowsKnown, OneHead, HeadsMatch
<1>3. ConflictsAlone(t) /\ ConflictsShown(t)
  BY <1>1 DEF StoreInv, ConflictsAlone, ConflictsShown
<1>4. OpsKept(s, t) /\ RowsKept(s, t)
  BY <1>1 DEF OpsKept, RowsKept
<1> QED BY <1>2, <1>3, <1>4 DEF StoreInv, Keeps

LEMMA MoveKeepsInFlight ==
  ASSUME NEW s, NEW I, NEW state, NEW t, Moved(s, t, I, state),
         \A i \in DOMAIN s.ops : i \in I => s.ops[i].state # "inflight"
  PROVE  InFlightKept(s, t)
BY DEF Moved, InFlightKept

\* The document's row changes, and no conflict of it is shown.
LEMMA ChangeRow ==
  ASSUME NEW s, StoreInv(s), NEW d \in Document, NEW row \in Row, row.sync # "conflict",
         NoConflict(s, d),
         NoHead(s, d) \/ SameBase(s.rows[d], row),
         NEW t, Rewritten(s, t, d, row)
  PROVE  StoreInv(t) /\ OpsKept(s, t) /\ InFlightKept(s, t)
<1> USE DEF Rewritten
<1>1. \A i \in DOMAIN s.ops : s.ops[i].doc \in Document
  BY StoreFields DEF StoreInv, OpRow
<1>2. row # NoRow
  BY StoreAssumption
<1>3. RowsKnown(t)
  BY <1>1, <1>2 DEF StoreInv, RowsKnown
<1>4. OneHead(t) /\ ConflictsAlone(t)
  BY DEF StoreInv, OneHead, ConflictsAlone
<1>5. HeadsMatch(t)
  BY <1>1 DEF StoreInv, HeadsMatch, NoHead, SameBase
<1>6. ConflictsShown(t)
  BY DEF StoreInv, ConflictsShown, NoConflict
<1>7. OpsKept(s, t) /\ InFlightKept(s, t)
  BY DEF OpsKept, InFlightKept
<1> QED BY <1>3, <1>4, <1>5, <1>6, <1>7 DEF StoreInv

LEMMA SameBaseKeeps ==
  ASSUME NEW s, NEW d \in Document, NEW row, NEW t, Rewritten(s, t, d, row),
         row.revision = 0 \/ (s.rows[d] # NoRow /\ SameBase(s.rows[d], row))
  PROVE  RowsKept(s, t)
BY DEF Rewritten, RowsKept, SameBase

\* A new operation of a document without conflict; the head if it knows its base.
LEMMA AddOperation ==
  ASSUME NEW s, StoreInv(s), NEW d \in Document, s.rows[d] # NoRow, NEW base, NEW from,
         NEW text, NoConflict(s, d),
         base # NoBase =>
           NoHead(s, d) /\ base = s.rows[d].revision /\ from = s.rows[d].base,
         NEW t, NEW n, Added(s, t, n, d, base, from, text), t.rows = s.rows
  PROVE  Keeps(s, t) /\ InFlightKept(s, t) /\ NoConflict(t, d)
<1> USE DEF Added
<1>1. RowsKnown(t)
  BY DEF StoreInv, RowsKnown
<1>2. OneHead(t)
  BY DEF StoreInv, OneHead, Heads, NoHead
<1>3. HeadsMatch(t)
  BY DEF StoreInv, HeadsMatch, Heads
<1>4. ConflictsAlone(t)
  BY DEF StoreInv, ConflictsAlone, NoConflict
<1>5. ConflictsShown(t)
  BY DEF StoreInv, ConflictsShown
<1>6. OpsKept(s, t) /\ RowsKept(s, t) /\ InFlightKept(s, t) /\ NoConflict(t, d)
  BY DEF OpsKept, RowsKept, InFlightKept, NoConflict
<1> QED BY <1>1, <1>2, <1>3, <1>4, <1>5, <1>6 DEF StoreInv, Keeps

-----------------------------------------------------------------------------
(* The transactions keep the store's part of the invariant *)

LEMMA EnsureDocumentKeeps ==
  ASSUME NEW s, StoreInv(s), NEW d \in Document, NEW text \in Text
  PROVE  LET t == EnsureDocument(s, d, text)
         IN Keeps(s, t) /\ InFlightKept(s, t) /\ t.ops = s.ops /\ t.rows[d] \in Row
<1> DEFINE t == EnsureDocument(s, d, text)
<1>1. CASE s.rows[d] = NoRow
  <2> DEFINE row == CleanRow(0, text)
  <2>1. row \in Row /\ row.sync # "conflict" /\ row.revision = 0
    BY DEF CleanRow, Row
  <2>2. NoConflict(s, d) /\ NoHead(s, d)
    BY <1>1 DEF StoreInv, RowsKnown, NoConflict, NoHead
  <2>3. t = SetRow(s, d, row)
    BY <1>1 DEF EnsureDocument
  <2> HIDE DEF row, t
  <2>4. Rewritten(s, t, d, row)
    BY <2>1, <2>3, SetRowEffect DEF StoreInv
  <2>5. StoreInv(t) /\ OpsKept(s, t) /\ InFlightKept(s, t) /\ RowsKept(s, t)
    BY <2>1, <2>2, <2>4, ChangeRow, SameBaseKeeps
  <2>6. t.ops = s.ops /\ t.rows[d] \in Row
    BY <2>1, <2>4 DEF Rewritten
  <2> QED BY <2>5, <2>6 DEF Keeps, t
<1>2. CASE s.rows[d] # NoRow
  <2>1. t = s /\ s.rows[d] \in Row
    BY <1>2, StoreFields DEF EnsureDocument, StoreInv
  <2> HIDE DEF t
  <2> QED BY <2>1, KeepsItself DEF t
<1> QED BY <1>1, <1>2

\* A save that joins the others of its document.
LEMMA InsertSaveKeeps ==
  ASSUME NEW s, StoreInv(s), NEW d \in Document, s.rows[d] # NoRow,
         NEW from \in Text, NEW text \in Text, NoConflict(s, d)
  PROVE  LET t == InsertSave(s, d, NoBase, from, text)
         IN Keeps(s, t) /\ InFlightKept(s, t)
<1> DEFINE t == InsertSave(s, d, NoBase, from, text)
<1>1. NoBase \in Nat \cup {NoBase} /\ s \in Store
  BY DEF StoreInv
<1>2. SavedIn(s, t, d, NoBase, from, text)
  BY <1>1, InsertSaveEffect, Zenon
<1> HIDE DEF t
<1> USE DEF SavedIn
<1>3. PICK n : Added(s, t, n, d, NoBase, from, text)
  BY <1>2
<1>4. \A i \in DOMAIN s.ops : s.ops[i].doc \in Document
  BY <1>1, StoreFields DEF OpRow
<1> USE DEF Added
<1>5. RowsKnown(t)
  BY <1>2, <1>3, <1>4 DEF StoreInv, RowsKnown
<1>6. OneHead(t)
  BY <1>3 DEF StoreInv, OneHead, Heads
<1>7. HeadsMatch(t)
  BY <1>2, <1>3, <1>4 DEF StoreInv, HeadsMatch, Heads, SameBase
<1>8. ConflictsAlone(t)
  BY <1>3 DEF StoreInv, ConflictsAlone, NoConflict
<1>9. ConflictsShown(t)
  BY <1>2, <1>3 DEF StoreInv, ConflictsShown, NoConflict
<1>10. OpsKept(s, t) /\ InFlightKept(s, t)
  BY <1>3 DEF OpsKept, InFlightKept
<1>11. RowsKept(s, t)
  BY <1>2 DEF RowsKept, SameBase
<1> QED BY <1>3, <1>5, <1>6, <1>7, <1>8, <1>9, <1>10, <1>11 DEF StoreInv, Keeps, t

\* One operation replaces whatever was under way or stopped of its document, and
\* starts from what the row says.
ReplacedBy(s, t, d, n) ==
  /\ DOMAIN t.ops = DOMAIN s.ops \cup {n} /\ n \notin DOMAIN s.ops
  /\ \A i \in DOMAIN s.ops :
       /\ t.ops[i].doc = s.ops[i].doc /\ t.ops[i].base = s.ops[i].base
       /\ t.ops[i].from = s.ops[i].from /\ t.ops[i].text = s.ops[i].text
       /\ s.ops[i].doc # d => t.ops[i].state = s.ops[i].state
       /\ s.ops[i].doc = d => t.ops[i].state # "conflict" /\ ~ Waiting(t.ops[i])
  /\ t.ops[n].doc = d /\ t.ops[n].state = "pending"
  /\ t.ops[n].base = t.rows[d].revision /\ t.ops[n].from = t.rows[d].base
  /\ t.rows[d] # NoRow /\ t.rows[d].sync = "pending"
  /\ \A e \in Document \ {d} : t.rows[e] = s.rows[e]

LEMMA ReplacementKeeps ==
  ASSUME NEW s, StoreInv(s), NEW d \in Document, NEW t \in Store, NEW n,
         ReplacedBy(s, t, d, n)
  PROVE  StoreInv(t) /\ OpsKept(s, t)
<1> USE DEF ReplacedBy
<1>1. \A i \in DOMAIN s.ops : s.ops[i].doc \in Document
  BY StoreFields DEF StoreInv, OpRow
<1>2. \A i \in DOMAIN s.ops :
        /\ s.ops[i].doc = d => ~ Heads(t.ops[i])
        /\ s.ops[i].doc # d => /\ Waiting(t.ops[i]) <=> Waiting(s.ops[i])
                               /\ Heads(t.ops[i]) <=> Heads(s.ops[i])
  BY DEF Waiting, Heads
<1>3. RowsKnown(t)
  BY <1>1 DEF StoreInv, RowsKnown
<1>4. OneHead(t)
  BY <1>2 DEF StoreInv, OneHead
<1>5. HeadsMatch(t)
  BY <1>1, <1>2 DEF StoreInv, HeadsMatch
<1>6. ConflictsAlone(t)
  BY <1>2 DEF StoreInv, ConflictsAlone
<1>7. ConflictsShown(t)
  BY DEF StoreInv, ConflictsShown
<1>8. OpsKept(s, t)
  BY DEF OpsKept
<1> QED BY <1>3, <1>4, <1>5, <1>6, <1>7, <1>8 DEF StoreInv

\* A save of a document of which nothing waits: it sends what the row says, and
\* whatever was stopped gives way to it.
LEMMA FreshSaveKeeps ==
  ASSUME NEW s, StoreInv(s), NEW d \in Document, s.rows[d] # NoRow, NEW text \in Text,
         NEW stopped, NEW u, Moved(s, u, stopped, "cancelled"),
         \A i \in DOMAIN s.ops :
           /\ i \in stopped <=> s.ops[i].doc = d /\ s.ops[i].state \in {"conflict", "blocked"}
           /\ s.ops[i].doc = d => ~ Waiting(s.ops[i])
  PROVE  LET t == InsertSave(u, d, u.rows[d].revision, u.rows[d].base, text)
         IN Keeps(s, t) /\ InFlightKept(s, t)
<1> DEFINE base == u.rows[d].revision
           from == u.rows[d].base
           t == InsertSave(u, d, base, from, text)
<1>1. /\ u \in Store /\ u.rows[d] \in Row /\ u.rows[d] # NoRow
      /\ base \in Nat \cup {NoBase} /\ from \in Text
  BY StoreFields DEF Moved, StoreInv, Row
<1> HIDE DEF base, from
<1>2. SavedIn(u, t, d, base, from, text)
  BY <1>1, InsertSaveEffect, Zenon
<1> HIDE DEF t
<1> USE DEF SavedIn
<1>3. PICK n : Added(u, t, n, d, base, from, text)
  BY <1>2
<1>4. \A i \in DOMAIN s.ops :
        s.ops[i].doc = d => t.ops[i].state # "conflict" /\ ~ Waiting(t.ops[i])
  BY <1>3 DEF Moved, Added, Waiting
<1>5. \A i \in DOMAIN s.ops : s.ops[i].doc # d => t.ops[i].state = s.ops[i].state
  BY <1>3 DEF Moved, Added
<1>6. ReplacedBy(s, t, d, n)
  BY <1>2, <1>3, <1>4, <1>5 DEF ReplacedBy, Moved, Added, SameBase, base, from
<1>7. InFlightKept(s, t)
  BY <1>3 DEF InFlightKept, Moved, Added
<1>8. RowsKept(s, t)
  BY <1>2 DEF RowsKept, Moved, SameBase
<1>9. t \in Store
  BY <1>3 DEF Added
<1> QED BY <1>6, <1>7, <1>8, <1>9, ReplacementKeeps DEF Keeps, t, base, from

LEMMA EnqueueKeeps ==
  ASSUME NEW s, StoreInv(s), NEW d \in Document, NEW text \in Text
  PROVE  Keeps(s, Enqueue(s, d, text)) /\ InFlightKept(s, Enqueue(s, d, text))
<1> DEFINE known == EnsureDocument(s, d, text)
           stopped == {i \in OpsOf(s, d) : s.ops[i].state \in {"conflict", "blocked"}}
           u == SetState(known, stopped, "cancelled")
           waiting == WaitingOf(s, d)
           newest == s.ops[Last(waiting)].text
           t == Enqueue(s, d, text)
<1>1. /\ Keeps(s, known) /\ InFlightKept(s, known)
      /\ known.ops = s.ops /\ known.rows[d] \in Row
  BY EnsureDocumentKeeps
<1>2. \A i \in DOMAIN s.ops :
        i \in stopped <=> s.ops[i].doc = d /\ s.ops[i].state \in {"conflict", "blocked"}
  BY DEF OpsOf
<1>3. t = IF waiting = {} THEN InsertSave(u, d, u.rows[d].revision, u.rows[d].base, text)
          ELSE IF newest = text THEN u ELSE InsertSave(u, d, NoBase, newest, text)
  BY Zenon DEF Enqueue
<1>4. waiting # {} => \E w \in DOMAIN s.ops : s.ops[w].doc = d /\ Waiting(s.ops[w])
  BY DEF WaitingOf, OpsOf
<1>5. waiting = {} => \A i \in DOMAIN s.ops : s.ops[i].doc = d => ~ Waiting(s.ops[i])
  BY DEF WaitingOf, OpsOf
<1>6. waiting # {} => newest \in Text
  <2>1. waiting \in SUBSET (1 .. Len(s.ops)) /\ Len(s.ops) \in Nat
    BY StoreFields DEF StoreInv, WaitingOf, OpsOf
  <2>2. waiting # {} => Last(waiting) \in 1 .. Len(s.ops)
    BY <2>1, LastIsNewest
  <2> HIDE DEF waiting
  <2> QED BY <2>2, StoreFields DEF StoreInv, OpRow
<1> HIDE DEF known, stopped, waiting, newest, t
<1>7. StoreInv(known) /\ known \in Store /\ known.rows[d] # NoRow /\ "cancelled" \in State
  BY <1>1, StoreAssumption DEF Keeps, StoreInv, State
<1>8. Moved(known, u, stopped, "cancelled")
  BY <1>7, SetStateEffect
<1> HIDE DEF u
<1>9. CASE waiting = {}
  <2>1. Keeps(known, t) /\ InFlightKept(known, t)
    BY <1>1, <1>2, <1>3, <1>5, <1>7, <1>8, <1>9, FreshSaveKeeps
  <2> QED BY <1>1, <2>1, KeepsIsTransitive, InFlightIsTransitive DEF Keeps, t
<1>10. CASE waiting # {}
  <2>1. NoConflict(s, d)
    BY <1>4, <1>10, WaitingMeansNoConflict
  <2>2. \A i \in DOMAIN known.ops :
          i \in stopped => known.ops[i].state # "conflict" /\ known.ops[i].state # "inflight"
    BY <1>1, <1>2, <2>1 DEF NoConflict
  <2>3. Keeps(known, u) /\ InFlightKept(known, u)
    BY <1>7, <1>8, <2>2, StopOperations, MoveKeepsInFlight
  <2>4. Keeps(s, u) /\ InFlightKept(s, u)
    BY <1>1, <2>3, KeepsIsTransitive, InFlightIsTransitive DEF Keeps
  <2>5. CASE newest = text
    BY <1>3, <1>10, <2>4, <2>5 DEF t
  <2>6. CASE newest # text
    <3>1. StoreInv(u) /\ NoConflict(u, d) /\ u.rows[d] # NoRow
      BY <1>7, <1>8, <2>1, <2>4 DEF Keeps, OpsKept, NoConflict, Moved
    <3>2. t = InsertSave(u, d, NoBase, newest, text)
      BY <1>3, <1>10, <2>6
    <3>3. Keeps(u, t) /\ InFlightKept(u, t)
      BY <1>6, <1>10, <3>1, <3>2, InsertSaveKeeps
    <3> QED BY <2>4, <3>3, KeepsIsTransitive, InFlightIsTransitive DEF Keeps, t
  <2> QED BY <2>5, <2>6
<1> QED BY <1>9, <1>10

LEMMA PromoteKeeps ==
  ASSUME NEW s, StoreInv(s), NEW d \in Document, s.rows[d] # NoRow, NoHead(s, d)
  PROVE  Keeps(s, Promote(s, d, s.rows[d].revision, s.rows[d].base))
<1> DEFINE base == s.rows[d].revision
           from == s.rows[d].base
           I == DependentsOf(s, d)
           i == First(I)
           one == {i}
           text == s.ops[i].text
           x == Insert(s, d, base, from, text)
           t == Promote(s, d, base, from)
<1>1. CASE I = {}
  BY <1>1, KeepsItself DEF Promote
<1>2. CASE I # {}
  <2>1. /\ s \in Store /\ s.rows[d] \in Row /\ Len(s.ops) \in Nat
        /\ DOMAIN s.ops = 1 .. Len(s.ops) /\ \A j \in DOMAIN s.ops : s.ops[j] \in OpRow
    BY StoreFields DEF StoreInv
  <2>2. base \in Nat \cup {NoBase} /\ from \in Text
    BY <2>1 DEF Row
  <2>3. i \in I
    <3>1. I \in SUBSET Nat
      BY <2>1 DEF DependentsOf, OpsOf
    <3> QED BY <1>2, <3>1, FirstIsOldest
  <2>4. i \in DOMAIN s.ops /\ s.ops[i].doc = d /\ Ready(s.ops[i]) /\ text \in Text
    BY <2>1, <2>3 DEF DependentsOf, OpsOf, OpRow
  <2>5. NoConflict(s, d)
    BY <2>4, WaitingMeansNoConflict DEF Ready, Waiting
  <2>6. t = SetState(x, one, "cancelled")
    BY <1>2 DEF Promote, Reissue
  <2>7. \A j : j \in one <=> j = i
    OBVIOUS
  <2> HIDE DEF I, i, one, text, t
  <2>8. PICK n : x.rows = s.rows /\ Added(s, x, n, d, base, from, text)
    BY <2>1, <2>2, <2>4, InsertEffect, Zenon
  <2> HIDE DEF x
  <2>9. Keeps(s, x)
    BY <2>5, <2>8, AddOperation
  <2>10. x \in Store /\ "cancelled" \in State
    BY <2>8 DEF Added, State
  <2>11. Moved(x, t, one, "cancelled")
    BY <2>6, <2>10, SetStateEffect
  <2>12. x.ops[i].state # "conflict"
    BY <2>4, <2>8 DEF Ready, Added
  <2>13. Keeps(x, t)
    BY <2>7, <2>9, <2>11, <2>12, StopOperations DEF Keeps
  <2> QED BY <2>9, <2>13, KeepsIsTransitive DEF t
<1> QED BY <1>1, <1>2

LEMMA RecoverStrandedKeeps ==
  ASSUME NEW s, StoreInv(s), NEW d \in Document
  PROVE  Keeps(s, RecoverStranded(s, d))
<1>1. CASE ~ Stranded(s, d)
  BY <1>1, KeepsItself DEF RecoverStranded
<1>2. CASE Stranded(s, d)
  <2>1. PICK i \in DOMAIN s.ops : s.ops[i].doc = d
    BY <1>2 DEF Stranded, DependentsOf, OpsOf
  <2>2. s.rows[d] # NoRow
    BY <2>1 DEF StoreInv, RowsKnown
  <2>3. NoHead(s, d)
    BY <1>2 DEF Stranded, WaitingOf, OpsOf, NoHead, Heads
  <2> QED BY <1>2, <2>2, <2>3, PromoteKeeps DEF RecoverStranded
<1> QED BY <1>1, <1>2

LEMMA MarkAttemptKeeps ==
  ASSUME NEW s, StoreInv(s), NEW i \in Dispatchable(s)
  PROVE  LET t == MarkAttempt(s, i)
         IN Keeps(s, t) /\ t.ops[i].state = "inflight" /\ t.ops[i].base # NoBase
<1> DEFINE one == {i}
           t == MarkAttempt(s, i)
<1>1. i \in DOMAIN s.ops /\ s.ops[i].base # NoBase /\ Waiting(s.ops[i]) /\ s \in Store
  BY DEF Dispatchable, Ready, Waiting, StoreInv
<1>2. "inflight" \in State
  BY DEF State
<1>3. \A j : j \in one <=> j = i
  OBVIOUS
<1>4. t = SetState(s, one, "inflight")
  BY DEF MarkAttempt
<1> HIDE DEF one, t
<1>5. Moved(s, t, one, "inflight")
  BY <1>1, <1>2, <1>4, SetStateEffect
<1>6. Keeps(s, t)
  BY <1>1, <1>3, <1>5, MoveOperations
<1>7. t.ops[i].state = "inflight" /\ t.ops[i].base # NoBase
  BY <1>1, <1>3, <1>5 DEF Moved
<1> QED BY <1>6, <1>7 DEF t

LEMMA RestartKeeps ==
  ASSUME NEW s, StoreInv(s)
  PROVE  Keeps(s, RecoverInterruptedDispatches(s))
<1> DEFINE I == {i \in DOMAIN s.ops : s.ops[i].state = "inflight"}
           t == RecoverInterruptedDispatches(s)
<1>1. s \in Store /\ "retry_wait" \in State
  BY DEF StoreInv, State
<1>2. \A i \in DOMAIN s.ops : i \in I => Waiting(s.ops[i])
  BY DEF Waiting
<1>3. t = SetState(s, I, "retry_wait")
  BY DEF RecoverInterruptedDispatches
<1> HIDE DEF I, t
<1>4. Moved(s, t, I, "retry_wait")
  BY <1>1, <1>3, SetStateEffect
<1>5. Keeps(s, t)
  BY <1>2, <1>4, MoveOperations
<1> QED BY <1>5 DEF t

LEMMA SetSyncKeeps ==
  ASSUME NEW s, StoreInv(s), NEW d \in Document, s.rows[d] # NoRow, NoConflict(s, d)
  PROVE  LET t == SetSync(s, d, "pending") IN Keeps(s, t) /\ t.ops = s.ops
<1> DEFINE row == [s.rows[d] EXCEPT !.sync = "pending"]
           t == SetSync(s, d, "pending")
<1>1. s.rows[d] \in Row /\ s \in Store
  BY StoreFields DEF StoreInv
<1>2. row \in Row /\ row.sync # "conflict" /\ SameBase(s.rows[d], row)
  BY <1>1 DEF Row, SameBase
<1>3. t = SetRow(s, d, row)
  BY DEF SetSync
<1> HIDE DEF row, t
<1>4. Rewritten(s, t, d, row)
  BY <1>1, <1>2, <1>3, SetRowEffect
<1>5. StoreInv(t) /\ OpsKept(s, t)
  BY <1>2, <1>4, ChangeRow
<1>6. RowsKept(s, t)
  BY <1>2, <1>4, SameBaseKeeps
<1> QED BY <1>4, <1>5, <1>6 DEF Keeps, Rewritten, t

LEMMA MarkRetryKeeps ==
  ASSUME NEW s, StoreInv(s), NEW i \in DOMAIN s.ops, s.ops[i].state = "inflight"
  PROVE  Keeps(s, MarkRetry(s, i))
<1> DEFINE one == {i}
           x == SetState(s, one, "retry_wait")
           d == s.ops[i].doc
<1>1. s \in Store /\ "retry_wait" \in State /\ Waiting(s.ops[i])
  BY DEF StoreInv, State, Waiting
<1>2. \A j : j \in one <=> j = i
  OBVIOUS
<1>3. d \in Document /\ s.rows[d] # NoRow
  BY StoreFields DEF StoreInv, RowsKnown, OpRow
<1>4. NoConflict(s, d)
  BY <1>1, WaitingMeansNoConflict
<1>5. MarkRetry(s, i) = SetSync(x, d, "pending")
  BY DEF MarkRetry, TerminalStates
<1> HIDE DEF one, d
<1>6. Moved(s, x, one, "retry_wait")
  BY <1>1, SetStateEffect
<1> HIDE DEF x
<1>7. Keeps(s, x)
  BY <1>1, <1>2, <1>6, MoveOperations
<1>8. StoreInv(x) /\ NoConflict(x, d) /\ x.rows[d] # NoRow
  BY <1>3, <1>4, <1>6, <1>7 DEF Keeps, NoConflict, Moved, OpsKept
<1>9. Keeps(x, SetSync(x, d, "pending"))
  BY <1>3, <1>8, SetSyncKeeps
<1> QED BY <1>5, <1>7, <1>9, KeepsIsTransitive

\* The head of a document stops: nothing else of the document knows its base.
LEMMA StoppedHeadLeavesNone ==
  ASSUME NEW s, StoreInv(s), NEW i \in DOMAIN s.ops, Heads(s.ops[i]),
         NEW state \in {"blocked", "completed", "conflict", "cancelled"},
         NEW I, \A j : j \in I <=> j = i, NEW t, Moved(s, t, I, state)
  PROVE  NoHead(t, s.ops[i].doc)
<1>1. \A j \in DOMAIN s.ops : j # i => (Heads(t.ops[j]) <=> Heads(s.ops[j]))
  BY DEF Moved, Heads, Waiting
<1>2. ~ Heads(t.ops[i])
  BY DEF Moved, Heads, Waiting
<1> QED BY <1>1, <1>2 DEF StoreInv, OneHead, NoHead, Moved

\* What is known of a document when its head, in flight, has stopped.
LEMMA StoppedHead ==
  ASSUME NEW s, StoreInv(s), NEW i \in DOMAIN s.ops, s.ops[i].state = "inflight",
         s.ops[i].base # NoBase, NEW state \in {"blocked", "completed"},
         NEW t, t = SetState(s, {i}, state)
  PROVE  LET d == s.ops[i].doc
         IN /\ d \in Document /\ t.rows[d] # NoRow
            /\ Keeps(s, t) /\ NoConflict(t, d) /\ NoHead(t, d)
            /\ t.rows = s.rows /\ i \in DOMAIN t.ops /\ t.ops[i].state = state
<1> DEFINE one == {i}
           d == s.ops[i].doc
<1>1. s \in Store /\ state \in State /\ Waiting(s.ops[i]) /\ Heads(s.ops[i])
  BY DEF StoreInv, State, Waiting, Heads
<1>2. \A j : j \in one <=> j = i
  OBVIOUS
<1> HIDE DEF one
<1>3. Moved(s, t, one, state)
  BY <1>1, SetStateEffect DEF one
<1>4. Keeps(s, t)
  BY <1>2, <1>3, StopOperations
<1>5. NoHead(t, d)
  BY <1>1, <1>2, <1>3, StoppedHeadLeavesNone
<1>6. d \in Document /\ s.rows[d] # NoRow
  BY StoreFields DEF StoreInv, RowsKnown, OpRow
<1>7. NoConflict(s, d)
  BY <1>1, WaitingMeansNoConflict
<1>8. NoConflict(t, d)
  BY <1>4, <1>7, <1>3 DEF Keeps, OpsKept, NoConflict
<1>9. t.rows = s.rows /\ i \in DOMAIN t.ops /\ t.ops[i].state = state
  BY <1>2, <1>3 DEF Moved
<1> QED BY <1>4, <1>5, <1>6, <1>8, <1>9

LEMMA SupersededKeeps ==
  ASSUME NEW s, StoreInv(s), NEW i \in DOMAIN s.ops, s.ops[i].state = "inflight",
         s.ops[i].base # NoBase
  PROVE  Keeps(s, MarkBlockedAndPromoteDependent(s, i))
<1> DEFINE d == s.ops[i].doc
           b == MarkBlocked(s, i)
           p == Promote(b, d, b.rows[d].revision, b.rows[d].base)
           one == {i}
           c == SetState(p, one, "cancelled")
           t == SetSync(c, d, "pending")
<1>1. /\ d \in Document /\ b.rows[d] # NoRow /\ Keeps(s, b) /\ NoConflict(b, d)
      /\ NoHead(b, d) /\ i \in DOMAIN b.ops /\ b.ops[i].state = "blocked"
  <2>1. b = SetState(s, {i}, "blocked")
    BY DEF MarkBlocked
  <2> HIDE DEF b
  <2> QED BY <2>1, StoppedHead
<1>2. CASE DependentsOf(b, d) = {}
  BY <1>1, <1>2 DEF MarkBlockedAndPromoteDependent
<1>3. CASE DependentsOf(b, d) # {}
  <2>1. MarkBlockedAndPromoteDependent(s, i) = t
    BY <1>3, Zenon DEF MarkBlockedAndPromoteDependent
  <2>2. \A j : j \in one <=> j = i
    OBVIOUS
  <2> HIDE DEF b, d, one
  <2>3. Keeps(b, p)
    BY <1>1, PromoteKeeps DEF Keeps
  <2> HIDE DEF p
  <2>4. p \in Store /\ "cancelled" \in State /\ NoConflict(p, d)
    BY <1>1, <2>3 DEF Keeps, OpsKept, NoConflict, StoreInv, State
  <2>5. Moved(p, c, one, "cancelled")
    BY <2>4, SetStateEffect
  <2> HIDE DEF c
  <2>6. p.ops[i].state # "conflict"
    BY <1>1, <2>3 DEF Keeps, OpsKept
  <2>7. Keeps(p, c)
    BY <2>2, <2>3, <2>5, <2>6, StopOperations DEF Keeps
  <2>8. Keeps(s, c)
    BY <1>1, <2>3, <2>7, KeepsIsTransitive
  <2>9. NoConflict(c, d)
    BY <2>4, <2>7, <2>5 DEF Keeps, OpsKept, NoConflict, Moved
  <2>10. c.rows[d] # NoRow
    BY <2>8 DEF Keeps, OpsKept, d, StoreInv, RowsKnown
  <2>11. Keeps(c, t)
    BY <1>1, <2>8, <2>9, <2>10, SetSyncKeeps DEF Keeps
  <2> QED BY <2>1, <2>8, <2>11, KeepsIsTransitive
<1> QED BY <1>2, <1>3

\* Document d takes text for the server's at this revision; the others keep theirs.
Takes(s, t, d, revision, text) ==
  \A e \in Document :
    t.rows[e] # NoRow /\ t.rows[e].revision > 0 =>
      IF e = d THEN t.rows[e].revision = revision /\ t.rows[e].base = text
      ELSE /\ s.rows[e] # NoRow
           /\ t.rows[e].revision = s.rows[e].revision /\ t.rows[e].base = s.rows[e].base

\* A document of which no head waits starts from another revision.
LEMMA NewBaseKeeps ==
  ASSUME NEW s, StoreInv(s), NEW d \in Document, NEW row \in Row, row.sync # "conflict",
         NoConflict(s, d), NoHead(s, d), NEW t, t = SetRow(s, d, row)
  PROVE  /\ StoreInv(t) /\ OpsKept(s, t) /\ t.ops = s.ops
         /\ t.rows[d] = row /\ t.rows[d] # NoRow
         /\ Takes(s, t, d, row.revision, row.base)
<1>1. Rewritten(s, t, d, row)
  BY SetRowEffect DEF StoreInv
<1>2. StoreInv(t) /\ OpsKept(s, t)
  BY <1>1, ChangeRow
<1> QED BY <1>1, <1>2, StoreAssumption DEF Rewritten, Takes

LEMMA ApplyRemoteSnapshotKeeps ==
  ASSUME NEW s, StoreInv(s), NEW d \in Document, ~ HasActive(s, d),
         NEW revision \in Nat, NEW text \in Text
  PROVE  LET t == ApplyRemoteSnapshot(s, d, revision, text)
         IN StoreInv(t) /\ OpsKept(s, t) /\ t.ops = s.ops /\ Takes(s, t, d, revision, text)
<1> DEFINE row == CleanRow(revision, text)
           t == ApplyRemoteSnapshot(s, d, revision, text)
<1>1. /\ row \in Row /\ row.sync # "conflict"
      /\ row.revision = revision /\ row.base = text
  BY DEF CleanRow, Row
<1>2. \A i \in DOMAIN s.ops : s.ops[i].doc = d => ~ Active(s.ops[i])
  BY DEF HasActive, ActiveOf, OpsOf
<1>3. NoConflict(s, d) /\ NoHead(s, d)
  BY <1>2 DEF NoConflict, NoHead, Heads, Waiting, Active, TerminalStates
<1>4. t = SetRow(s, d, row)
  BY DEF ApplyRemoteSnapshot
<1> HIDE DEF row, t
<1>5. /\ StoreInv(t) /\ OpsKept(s, t) /\ t.ops = s.ops
      /\ Takes(s, t, d, row.revision, row.base)
  BY <1>1, <1>3, <1>4, NewBaseKeeps
<1> QED BY <1>1, <1>5 DEF t

LEMMA MarkSuccessKeeps ==
  ASSUME NEW s, StoreInv(s), NEW i \in DOMAIN s.ops, s.ops[i].state = "inflight",
         s.ops[i].base # NoBase, NEW revision \in Nat
  PROVE  LET t == MarkSuccess(s, i, revision)
         IN /\ StoreInv(t) /\ OpsKept(s, t)
            /\ Takes(s, t, s.ops[i].doc, revision, s.ops[i].text)
<1> DEFINE d == s.ops[i].doc
           text == s.ops[i].text
           done == SetState(s, {i}, "completed")
           state == IF HasActive(done, d) THEN "pending" ELSE "synced"
           row == [done.rows[d] EXCEPT !.revision = revision, !.base = text, !.sync = state]
           x == SetRow(done, d, row)
           t == MarkSuccess(s, i, revision)
<1>1. /\ d \in Document /\ done.rows[d] # NoRow /\ Keeps(s, done) /\ NoConflict(done, d)
      /\ NoHead(done, d) /\ done.rows = s.rows
  <2> HIDE DEF done
  <2> QED BY StoppedHead DEF done
<1>2. text \in Text
  BY StoreFields DEF StoreInv, OpRow
<1>3. state \in {"pending", "synced"}
  OBVIOUS
<1>4. t = Promote(x, d, revision, text)
  BY Zenon DEF MarkSuccess, AcceptedText, SetBase
<1> HIDE DEF d, text, done, state, t
<1>5. done.rows[d] \in Row
  BY <1>1, StoreFields DEF Keeps, StoreInv
<1>6. /\ row \in Row /\ row.sync # "conflict"
      /\ row.revision = revision /\ row.base = text
  BY <1>2, <1>3, <1>5 DEF Row
<1> HIDE DEF row
<1>7. x = SetRow(done, d, row) /\ StoreInv(done)
  BY <1>1 DEF Keeps
<1> HIDE DEF x
<1>8. /\ StoreInv(x) /\ OpsKept(done, x) /\ x.ops = done.ops
      /\ x.rows[d] = row /\ x.rows[d] # NoRow
      /\ Takes(done, x, d, row.revision, row.base)
  BY <1>1, <1>6, <1>7, NewBaseKeeps
<1>9. NoHead(x, d)
  BY <1>1, <1>8 DEF NoHead
<1>10. Keeps(x, t)
  BY <1>1, <1>4, <1>6, <1>8, <1>9, PromoteKeeps
<1>11. StoreInv(t)
  BY <1>10 DEF Keeps
<1>12. OpsKept(s, t)
  BY <1>1, <1>8, <1>10 DEF Keeps, OpsKept
<1>13. Takes(s, t, d, revision, text)
  BY <1>1, <1>6, <1>8, <1>10 DEF Keeps, RowsKept, Takes
<1> QED BY <1>11, <1>12, <1>13 DEF d, text, t

\* Another edit than those of document d is not touched.
LEMMA RebaseCleanMergeKeeps ==
  ASSUME NEW s, StoreInv(s), NEW i \in DOMAIN s.ops, NEW revision \in Nat,
         NEW remote \in Text, NEW merged \in Text
  PROVE  LET t == RebaseCleanMerge(s, i, revision, remote, merged)
         IN StoreInv(t) /\ OpsKept(s, t) /\ Takes(s, t, s.ops[i].doc, revision, remote)
<1> DEFINE d == s.ops[i].doc
           x == Insert(s, d, revision, remote, merged)
           I == ActiveOf(s, d)
           c == SetState(x, I, "cancelled")
           row == [c.rows[d] EXCEPT !.revision = revision, !.base = remote, !.sync = "pending"]
           t == RebaseCleanMerge(s, i, revision, remote, merged)
<1>1. d \in Document /\ s.rows[d] \in Row /\ s.rows[d] # NoRow
  BY StoreFields DEF StoreInv, RowsKnown, OpRow
<1>2. revision \in Nat \cup {NoBase} /\ s \in Store /\ "cancelled" \in State
  BY DEF StoreInv, State
<1>3. \A j \in DOMAIN s.ops : j \in I <=> s.ops[j].doc = d /\ Active(s.ops[j])
  BY DEF ActiveOf, OpsOf
<1>4. I \subseteq DOMAIN s.ops
  BY DEF ActiveOf, OpsOf
<1>5. t = SetRow(c, d, row)
  BY Zenon DEF RebaseCleanMerge, SetBase
<1> HIDE DEF d, I, t
<1>6. PICK n : x.rows = s.rows /\ Added(s, x, n, d, revision, remote, merged)
  BY <1>1, <1>2, InsertEffect, Zenon
<1> HIDE DEF x
<1>7. x \in Store
  BY <1>6 DEF Added
<1>8. Moved(x, c, I, "cancelled")
  BY <1>2, <1>7, SetStateEffect
<1> HIDE DEF c
<1>9. c \in Store /\ c.rows[d] \in Row
  BY <1>1, <1>6, <1>8 DEF Moved
<1>10. row \in Row /\ row.revision = revision /\ row.base = remote /\ row.sync = "pending"
  BY <1>9 DEF Row
<1> HIDE DEF row
<1>11. Rewritten(c, t, d, row)
  BY <1>1, <1>5, <1>9, <1>10, SetRowEffect
<1>12. t \in Store
  BY <1>11 DEF Rewritten
<1>13. /\ DOMAIN t.ops = DOMAIN s.ops \cup {n} /\ n \notin DOMAIN s.ops
       /\ \A j \in DOMAIN s.ops :
            /\ t.ops[j].doc = s.ops[j].doc /\ t.ops[j].base = s.ops[j].base
            /\ t.ops[j].from = s.ops[j].from /\ t.ops[j].text = s.ops[j].text
            /\ t.ops[j].state = IF j \in I THEN "cancelled" ELSE s.ops[j].state
  BY <1>6, <1>8, <1>11 DEF Added, Moved, Rewritten
<1>14. /\ t.ops[n].doc = d /\ t.ops[n].base = revision /\ t.ops[n].from = remote
       /\ t.ops[n].state = "pending"
  BY <1>4, <1>6, <1>8, <1>11 DEF Added, Moved, Rewritten
<1>15. /\ t.rows[d] = row /\ t.rows[d] # NoRow
       /\ \A e \in Document \ {d} : t.rows[e] = s.rows[e]
  BY <1>1, <1>6, <1>8, <1>10, <1>11, StoreAssumption DEF Moved, Rewritten
<1>16. \A j \in DOMAIN s.ops :
         /\ s.ops[j].doc # d => t.ops[j].state = s.ops[j].state
         /\ s.ops[j].doc = d => t.ops[j].state # "conflict" /\ ~ Waiting(t.ops[j])
  BY <1>3, <1>13 DEF Active, TerminalStates, Waiting
<1>17. ReplacedBy(s, t, d, n)
  BY <1>10, <1>13, <1>14, <1>15, <1>16 DEF ReplacedBy
<1>18. StoreInv(t) /\ OpsKept(s, t)
  BY <1>1, <1>12, <1>17, ReplacementKeeps
<1>19. Takes(s, t, d, revision, remote)
  BY <1>10, <1>15 DEF Takes
<1> QED BY <1>18, <1>19 DEF d, t

\* No save is forgotten or rewritten, and only operation i may be a new conflict.
StoppedAt(s, t, i) ==
  /\ DOMAIN t.ops = DOMAIN s.ops
  /\ \A j \in DOMAIN s.ops :
       /\ t.ops[j].doc = s.ops[j].doc /\ t.ops[j].base = s.ops[j].base
       /\ t.ops[j].text = s.ops[j].text
       /\ t.ops[j].state = "conflict" => j = i \/ s.ops[j].state = "conflict"

LEMMA MarkConflictKeeps ==
  ASSUME NEW s, StoreInv(s), NEW i \in DOMAIN s.ops, s.ops[i].state = "inflight",
         s.ops[i].base # NoBase, NEW revision \in Nat, NEW remote \in Text, NEW local \in Text
  PROVE  LET t == MarkConflict(s, i, revision, remote, local)
         IN StoreInv(t) /\ StoppedAt(s, t, i) /\ Takes(s, t, s.ops[i].doc, revision, remote)
<1> DEFINE d == s.ops[i].doc
           behind == WaitingOf(s, d) \ {i}
           one == {i}
           x == SetState(s, behind, "blocked")
           c == SetState(x, one, "conflict")
           row == [revision |-> revision, base |-> remote, sync |-> "conflict",
                   clash |-> {local, remote}]
           t == MarkConflict(s, i, revision, remote, local)
<1>1. d \in Document /\ s \in Store /\ "blocked" \in State /\ "conflict" \in State
  BY StoreFields DEF StoreInv, OpRow, State
<1>2. \A j \in DOMAIN s.ops : j \in behind <=> s.ops[j].doc = d /\ Waiting(s.ops[j]) /\ j # i
  BY DEF WaitingOf, OpsOf
<1>3. \A j : j \in one <=> j = i
  OBVIOUS
<1>4. row \in Row /\ row.revision = revision /\ row.base = remote /\ row.sync = "conflict"
  BY DEF Row
<1>5. t = SetRow(c, d, row)
  BY Zenon DEF MarkConflict
<1> HIDE DEF behind, one, row, t
<1>6. Moved(s, x, behind, "blocked")
  BY <1>1, SetStateEffect
<1> HIDE DEF x
<1>7. Moved(x, c, one, "conflict")
  BY <1>1, <1>6, SetStateEffect DEF Moved
<1> HIDE DEF c
<1>8. Rewritten(c, t, d, row)
  BY <1>1, <1>4, <1>5, <1>7, SetRowEffect DEF Moved
<1>9. DOMAIN t.ops = DOMAIN s.ops /\ t \in Store
  BY <1>6, <1>7, <1>8 DEF Moved, Rewritten
<1>10. \A j \in DOMAIN s.ops :
         /\ t.ops[j].doc = s.ops[j].doc /\ t.ops[j].base = s.ops[j].base
         /\ t.ops[j].from = s.ops[j].from /\ t.ops[j].text = s.ops[j].text
  BY <1>6, <1>7, <1>8 DEF Moved, Rewritten
<1>11. \A j \in DOMAIN s.ops :
         t.ops[j].state = IF j = i THEN "conflict"
                          ELSE IF j \in behind THEN "blocked" ELSE s.ops[j].state
  BY <1>3, <1>6, <1>7, <1>8 DEF Moved, Rewritten
<1>12. \A e \in Document : t.rows[e] = IF e = d THEN row ELSE s.rows[e]
  <2>1. c.rows = s.rows
    BY <1>6, <1>7 DEF Moved
  <2> HIDE DEF d
  <2> QED BY <1>8, <2>1, Zenon DEF Rewritten
<1>13. \A j \in DOMAIN s.ops :
         /\ s.ops[j].doc = d => ~ Waiting(t.ops[j]) /\ ~ Heads(t.ops[j])
         /\ s.ops[j].doc # d => /\ t.ops[j].state = s.ops[j].state
                                /\ Waiting(t.ops[j]) <=> Waiting(s.ops[j])
                                /\ Heads(t.ops[j]) <=> Heads(s.ops[j])
  BY <1>2, <1>10, <1>11 DEF Waiting, Heads
<1>14. \A j \in DOMAIN s.ops : s.ops[j].doc \in Document
  BY StoreFields DEF StoreInv, OpRow
<1>15. row # NoRow
  BY <1>4, StoreAssumption
<1>16. RowsKnown(t)
  BY <1>9, <1>10, <1>12, <1>14, <1>15 DEF StoreInv, RowsKnown
<1>17. OneHead(t)
  BY <1>9, <1>10, <1>13 DEF StoreInv, OneHead
<1>18. HeadsMatch(t)
  BY <1>9, <1>10, <1>12, <1>13, <1>14 DEF StoreInv, HeadsMatch
<1>19. ConflictsAlone(t)
  BY <1>9, <1>10, <1>13 DEF StoreInv, ConflictsAlone
<1>20. ConflictsShown(t)
  BY <1>4, <1>9, <1>10, <1>11, <1>12, <1>13 DEF ConflictsShown, StoreInv
<1>21. StoppedAt(s, t, i)
  BY <1>9, <1>10, <1>11 DEF StoppedAt
<1>22. Takes(s, t, d, revision, remote)
  BY <1>4, <1>12 DEF Takes
<1>23. StoreInv(t)
  BY <1>9, <1>16, <1>17, <1>18, <1>19, <1>20 DEF StoreInv
<1> QED BY <1>21, <1>22, <1>23 DEF d, t

-----------------------------------------------------------------------------
(* The queue, its worker and the ledger *)

\* A ledger that grows keeps what it has.
Grown(l, m) ==
  \A d \in Document :
    /\ Len(m[d]) \in Nat /\ Len(l[d]) \in Nat /\ Len(l[d]) <= Len(m[d])
    /\ \A k \in 1 .. Len(l[d]) : m[d][k] = l[d][k]

\* The text is the next one of document d.
Extended(l, m, d, text) ==
  /\ m \in [Document -> Seq(Text)] /\ Grown(l, m)
  /\ Len(m[d]) = Len(l[d]) + 1 /\ m[d][Len(l[d]) + 1] = text

LEMMA AppendGrows ==
  ASSUME NEW l \in [Document -> Seq(Text)], NEW d \in Document, NEW text \in Text
  PROVE  Extended(l, [l EXCEPT ![d] = Append(@, text)], d, text)
<1> DEFINE m == [l EXCEPT ![d] = Append(@, text)]
<1>1. l[d] \in Seq(Text)
  OBVIOUS
<1>2. /\ Append(l[d], text) \in Seq(Text) /\ Len(Append(l[d], text)) = Len(l[d]) + 1
      /\ Append(l[d], text)[Len(l[d]) + 1] = text /\ Len(l[d]) \in Nat
      /\ \A k \in 1 .. Len(l[d]) : Append(l[d], text)[k] = l[d][k]
  BY <1>1
<1>3. m[d] = Append(l[d], text) /\ \A e \in Document \ {d} : m[e] = l[e]
  OBVIOUS
<1>4. m \in [Document -> Seq(Text)]
  BY <1>2
<1>5. Grown(l, m)
  <2> SUFFICES ASSUME NEW e \in Document
               PROVE  /\ Len(m[e]) \in Nat /\ Len(l[e]) \in Nat /\ Len(l[e]) <= Len(m[e])
                      /\ \A k \in 1 .. Len(l[e]) : m[e][k] = l[e][k]
    BY DEF Grown
  <2>1. CASE e = d
    BY <1>2, <1>3, <2>1
  <2>2. CASE e # d
    BY <1>3, <2>2
  <2> QED BY <2>1, <2>2
<1> HIDE DEF m
<1>6. Extended(l, m, d, text)
  BY <1>2, <1>3, <1>4, <1>5 DEF Extended
<1> QED BY <1>6 DEF m

\* The parts of the invariant that speak of the ledger and the operations alone.
LedgerInv ==
  AppliedExist /\ BaseAgreesWithLedger /\ LedgerOfOperations /\ ConflictsAreBehind

StillBehind == \A i \in DOMAIN store.ops : Behind(i) => Behind(i)'

\* A transaction of the store changes nothing the ledger's part rests on.
LEMMA StoreStep ==
  ASSUME QueueInv, OpsKept(store, store'), RowsKept(store, store'),
         UNCHANGED <<ledger, applied>>
  PROVE  LedgerInv' /\ StillBehind
<1>1. \A i \in DOMAIN store.ops : Behind(i) => Behind(i)'
  BY DEF OpsKept, Behind, AppliedAs, Revision
<1>2. AppliedExist'
  BY DEF QueueInv, AppliedExist, OpsKept
<1>3. BaseAgreesWithLedger'
  BY DEF QueueInv, BaseAgreesWithLedger, RowsKept
<1>4. LedgerOfOperations'
  BY DEF QueueInv, LedgerOfOperations, AppliedExist, OpsKept
<1>5. ConflictsAreBehind'
  BY <1>1 DEF QueueInv, ConflictsAreBehind, OpsKept
<1> QED BY <1>1, <1>2, <1>3, <1>4, <1>5 DEF LedgerInv, StillBehind

\* So does one that takes another text of the ledger for a document's base.
LEMMA BaseStep ==
  ASSUME QueueInv, OpsKept(store, store'), NEW d \in Document, NEW revision \in Nat,
         NEW text, Takes(store, store', d, revision, text),
         revision > 0 => revision <= Len(ledger[d]) /\ ledger[d][revision] = text,
         UNCHANGED <<ledger, applied>>
  PROVE  LedgerInv' /\ StillBehind
<1>1. \A i \in DOMAIN store.ops : Behind(i) => Behind(i)'
  BY DEF OpsKept, Behind, AppliedAs, Revision
<1>2. AppliedExist'
  BY DEF QueueInv, AppliedExist, OpsKept
<1>3. BaseAgreesWithLedger'
  BY DEF QueueInv, BaseAgreesWithLedger, Takes
<1>4. LedgerOfOperations'
  BY DEF QueueInv, LedgerOfOperations, AppliedExist, OpsKept
<1>5. ConflictsAreBehind'
  BY <1>1 DEF QueueInv, ConflictsAreBehind, OpsKept
<1> QED BY <1>1, <1>2, <1>3, <1>4, <1>5 DEF LedgerInv, StillBehind

\* Other devices' commits.
LEMMA ForeignStep ==
  ASSUME QueueInv, NEW d \in Document, NEW text \in Text,
         ledger' = [ledger EXCEPT ![d] = Append(@, text)], UNCHANGED <<store, applied>>
  PROVE  LedgerInv' /\ StillBehind /\ ledger' \in [Document -> Seq(Text)]
<1>1. ledger \in [Document -> Seq(Text)]
  BY DEF QueueInv, TypeOK
<1>2. ledger' \in [Document -> Seq(Text)] /\ Grown(ledger, ledger')
  BY <1>1, AppendGrows, Zenon DEF Extended
<1>3. /\ \A i \in DOMAIN store.ops : store.ops[i] \in OpRow
      /\ \A e \in Document : store.rows[e] \in Row \cup {NoRow}
  BY StoreFields DEF QueueInv, StoreInv
<1>4. \A i \in DOMAIN store.ops : Behind(i) => Behind(i)'
  BY <1>2, <1>3 DEF Behind, AppliedAs, Revision, Grown, OpRow
<1>5. AppliedExist'
  BY DEF QueueInv, AppliedExist
<1>6. BaseAgreesWithLedger'
  BY <1>2, <1>3 DEF QueueInv, BaseAgreesWithLedger, Grown, Row
<1>7. LedgerOfOperations'
  BY <1>2, <1>3 DEF QueueInv, LedgerOfOperations, AppliedExist, Grown, OpRow
<1>8. ConflictsAreBehind'
  BY <1>4 DEF QueueInv, ConflictsAreBehind
<1> QED BY <1>2, <1>4, <1>5, <1>6, <1>7, <1>8 DEF LedgerInv, StillBehind

\* The server applies an operation.
LEMMA ApplyStep ==
  ASSUME QueueInv, NEW i \in DOMAIN store.ops, Accepts(i), Apply(i), UNCHANGED store
  PROVE  /\ LedgerInv' /\ StillBehind /\ ledger' \in [Document -> Seq(Text)]
         /\ applied' \in SUBSET AppliedRow
<1> DEFINE o == store.ops[i]
           new == [op |-> i, revision |-> o.base + 1]
<1>1. ledger \in [Document -> Seq(Text)] /\ applied \in SUBSET AppliedRow
  BY DEF QueueInv, TypeOK
<1>2. /\ \A j \in DOMAIN store.ops : store.ops[j] \in OpRow
      /\ \A e \in Document : store.rows[e] \in Row \cup {NoRow}
      /\ Len(store.ops) \in Nat /\ DOMAIN store.ops = 1 .. Len(store.ops)
  BY StoreFields DEF QueueInv, StoreInv
<1>3. o.doc \in Document /\ o.text \in Text /\ Len(ledger[o.doc]) \in Nat
  BY <1>1, <1>2 DEF OpRow
<1>4. o.base = Len(ledger[o.doc]) /\ AppliedAs(i) = {}
  BY DEF Accepts, Revision
<1>5. /\ ledger' = [ledger EXCEPT ![o.doc] = Append(@, o.text)]
      /\ applied' = applied \cup {new}
  BY DEF Apply
<1>6. /\ ledger' \in [Document -> Seq(Text)] /\ Grown(ledger, ledger')
      /\ Len(ledger'[o.doc]) = Len(ledger[o.doc]) + 1
      /\ ledger'[o.doc][Len(ledger[o.doc]) + 1] = o.text
  <2>1. PICK d \in Document, text \in Text : d = o.doc /\ text = o.text
    BY <1>3
  <2>2. ledger' = [ledger EXCEPT ![d] = Append(@, text)]
    BY <1>5, <2>1
  <2> HIDE DEF o
  <2>3. Extended(ledger, ledger', d, text)
    BY <1>1, <2>2, AppendGrows, Zenon
  <2> QED BY <2>1, <2>3 DEF Extended
<1>7. new.op = i /\ new.revision = Len(ledger[o.doc]) + 1 /\ new \in AppliedRow
  BY <1>2, <1>3, <1>4 DEF AppliedRow
<1>8. \A a \in applied' : a \in applied \/ a = new
  BY <1>5
<1> HIDE DEF new
<1>9. applied' \in SUBSET AppliedRow
  BY <1>1, <1>7, <1>8
<1>10. ~ Behind(i)
  BY <1>3, <1>4 DEF Behind, Revision
<1>11. \A j \in DOMAIN store.ops : Behind(j) => Behind(j)'
  <2> SUFFICES ASSUME NEW j \in DOMAIN store.ops, Behind(j)
               PROVE  Behind(j)'
    OBVIOUS
  <2>1. j # i
    BY <1>10
  <2>2. AppliedAs(j)' = {}
    BY <1>7, <1>8, <2>1 DEF Behind, AppliedAs
  <2>3. store.ops[j].base # NoBase /\ store.ops[j].base < Len(ledger[store.ops[j].doc])
    BY DEF Behind, Revision
  <2>4. /\ store.ops[j].base \in Nat /\ store.ops[j].doc \in Document
        /\ Len(ledger[store.ops[j].doc]) <= Len(ledger'[store.ops[j].doc])
        /\ Len(ledger[store.ops[j].doc]) \in Nat /\ Len(ledger'[store.ops[j].doc]) \in Nat
    BY <1>2, <1>6, <2>3 DEF OpRow, Grown
  <2>5. store.ops[j].base < Len(ledger'[store.ops[j].doc])
    BY <2>3, <2>4
  <2> QED BY <2>2, <2>3, <2>5 DEF Behind, Revision
<1>12. AppliedExist'
  BY <1>7, <1>8 DEF QueueInv, AppliedExist
<1>13. BaseAgreesWithLedger'
  <2>1. Grown(ledger, ledger')
    BY <1>6
  <2> QED BY <1>2, <2>1 DEF QueueInv, BaseAgreesWithLedger, Grown, Row
<1>14. LedgerOfOperations'
  <2> SUFFICES ASSUME NEW a \in applied'
               PROVE  /\ a.revision \in 1 .. Len(ledger'[store.ops[a.op].doc])
                      /\ ledger'[store.ops[a.op].doc][a.revision] = store.ops[a.op].text
    BY DEF LedgerOfOperations
  <2>1. CASE a = new
    BY <1>3, <1>6, <1>7, <2>1
  <2>2. CASE a \in applied
    <3>1. a.op \in DOMAIN store.ops /\ store.ops[a.op].doc \in Document
      BY <1>2, <2>2 DEF QueueInv, AppliedExist, OpRow
    <3>2. /\ a.revision \in 1 .. Len(ledger[store.ops[a.op].doc])
          /\ ledger[store.ops[a.op].doc][a.revision] = store.ops[a.op].text
      BY <2>2 DEF QueueInv, LedgerOfOperations
    <3> QED BY <1>6, <3>1, <3>2 DEF Grown
  <2> QED BY <1>8, <2>1, <2>2
<1>15. ConflictsAreBehind'
  BY <1>11 DEF QueueInv, ConflictsAreBehind
<1> QED BY <1>6, <1>9, <1>11, <1>12, <1>13, <1>14, <1>15 DEF LedgerInv, StillBehind

-----------------------------------------------------------------------------
(* The worker *)

WorkerInv == WorkerHoldsHead /\ RejectedIsBehind /\ CommittedIsApplied

\* The worker's operation is one of the store's.
WorkerKnown == worker # NoWorker => worker.op \in DOMAIN store.ops

LEMMA PhasesAreApart ==
  /\ "none" \notin AtWork /\ "none" \notin Phases
  /\ \A error \in Refusals : error \notin AtWork
  /\ \A phase \in Answered \ {"committed"} : phase \notin AtWork
  /\ \A error \in Errors \cup Refusals :
       error \notin {"sent", "rejected", "committed", "none"}
BY QueueAssumption DEF AtWork, Phases, Answered

\* The worker goes on with the operation it has.
LEMMA WorkerStays ==
  ASSUME QueueInv, UNCHANGED worker, OpsKept(store, store'), InFlightKept(store, store'),
         StillBehind, applied \subseteq applied'
  PROVE  WorkerInv'
<1>1. worker.phase \in AtWork => worker.op \in DOMAIN store.ops
  BY PhasesAreApart DEF QueueInv, TypeOK, NoWorker
<1>2. WorkerHoldsHead'
  BY <1>1 DEF QueueInv, WorkerHoldsHead, Carried, OpsKept, InFlightKept
<1>3. RejectedIsBehind'
  BY <1>1 DEF AtWork, QueueInv, RejectedIsBehind, StillBehind
<1>4. CommittedIsApplied'
  BY DEF QueueInv, CommittedIsApplied
<1> QED BY <1>2, <1>3, <1>4 DEF WorkerInv

\* The worker is gone, or has nothing more to say of its operation.
LEMMA WorkerDone ==
  ASSUME worker'.phase \notin AtWork
  PROVE  WorkerInv'
BY DEF WorkerInv, AtWork, WorkerHoldsHead, RejectedIsBehind, CommittedIsApplied

\* The worker learns something; the store and the ledger do not change.
LEMMA WorkerAtWork ==
  ASSUME QueueInv, worker # NoWorker, NEW phase \in Phases, NEW revision \in Nat,
         Learn(phase, revision), UNCHANGED store
  PROVE  /\ worker' \in Worker /\ worker'.op = worker.op
         /\ worker'.phase = phase /\ worker'.revision = revision
         /\ WorkerKnown /\ WorkerKnown'
<1>1. worker \in Worker /\ worker.op \in DOMAIN store.ops
  BY DEF QueueInv, TypeOK
<1>2. /\ worker' \in Worker /\ worker'.op = worker.op
      /\ worker'.phase = phase /\ worker'.revision = revision
  BY <1>1 DEF Worker, Learn
<1> QED BY <1>1, <1>2 DEF WorkerKnown

LEMMA QueueStep ==
  ASSUME QueueInv, TypeOK', StoreInv(store'), LedgerInv', WorkerInv'
  PROVE  QueueInv'
BY DEF QueueInv, LedgerInv, WorkerInv

LEMMA QueueHas ==
  ASSUME QueueInv
  PROVE  /\ StoreInv(store) /\ Keeps(store, store) /\ InFlightKept(store, store)
         /\ ledger \in [Document -> Seq(Text)] /\ \A d \in Document : Revision(d) \in Nat
         /\ \A i \in DOMAIN store.ops : store.ops[i] \in OpRow
BY KeepsItself, StoreFields DEF QueueInv, StoreInv, TypeOK, Revision

\* A transaction of the store, its worker going on or gone.
LEMMA TransactionStep ==
  ASSUME QueueInv, Keeps(store, store'), WorkerInv' \/ (UNCHANGED worker /\ InFlightKept(store, store')),
         worker' \in Worker \cup {NoWorker}, WorkerKnown',
         wake' \in BOOLEAN, recovering' \in BOOLEAN,
         strays' \in SUBSET DOMAIN store.ops, UNCHANGED <<ledger, applied, foreign>>
  PROVE  QueueInv'
<1>1. StoreInv(store') /\ OpsKept(store, store') /\ RowsKept(store, store')
  BY DEF Keeps
<1>2. LedgerInv' /\ StillBehind
  BY <1>1, StoreStep
<1>3. WorkerInv'
  BY <1>1, <1>2, WorkerStays
<1>4. store' \in Store /\ strays' \in SUBSET DOMAIN store'.ops
  BY <1>1 DEF StoreInv, OpsKept
<1>5. ledger' \in [Document -> Seq(Text)] /\ applied' \in SUBSET AppliedRow /\ foreign' \in Nat
  BY DEF QueueInv, TypeOK
<1>6. TypeOK'
  BY <1>4, <1>5, Zenon DEF TypeOK, WorkerKnown
<1> QED BY <1>1, <1>2, <1>3, <1>6, QueueStep

LEMMA WorkerStillKnown ==
  ASSUME QueueInv, UNCHANGED worker, OpsKept(store, store')
  PROVE  worker' \in Worker \cup {NoWorker} /\ WorkerKnown'
BY DEF QueueInv, TypeOK, WorkerKnown, OpsKept

-----------------------------------------------------------------------------
(* One lemma per action *)

LEMMA SaveStep ==
  ASSUME QueueInv, NEW d \in Document, NEW text \in Text, Save(d, text)
  PROVE  QueueInv'
<1>1. Keeps(store, store') /\ InFlightKept(store, store')
  BY QueueHas, EnqueueKeeps DEF Save
<1>2. wake \in BOOLEAN /\ recovering \in BOOLEAN /\ strays \in SUBSET DOMAIN store.ops
  BY DEF QueueInv, TypeOK
<1>3. /\ wake' \in BOOLEAN /\ recovering' \in BOOLEAN /\ UNCHANGED worker
      /\ strays' \in SUBSET DOMAIN store.ops /\ UNCHANGED <<ledger, applied, foreign>>
  BY <1>2, Zenon DEF Save
<1>4. worker' \in Worker \cup {NoWorker} /\ WorkerKnown'
  BY <1>1, <1>3, WorkerStillKnown DEF Keeps
<1> QED BY <1>1, <1>3, <1>4, TransactionStep

LEMMA RecoverStep ==
  ASSUME QueueInv, NEW d \in Document, RecoverStrandedOperation(d)
  PROVE  QueueInv'
<1>1. Keeps(store, store')
  BY QueueHas, RecoverStrandedKeeps DEF RecoverStrandedOperation
<1>2. wake \in BOOLEAN /\ strays \in SUBSET DOMAIN store.ops
  BY DEF QueueInv, TypeOK
<1>3. /\ wake' \in BOOLEAN /\ recovering' \in BOOLEAN /\ UNCHANGED worker
      /\ strays' \in SUBSET DOMAIN store.ops /\ UNCHANGED <<ledger, applied, foreign>>
  BY <1>2 DEF RecoverStrandedOperation
<1>4. worker' \in Worker \cup {NoWorker} /\ WorkerKnown'
  BY <1>1, <1>3, WorkerStillKnown DEF Keeps
<1>5. WorkerInv'
  BY PhasesAreApart, WorkerDone DEF RecoverStrandedOperation, Idle, NoWorker
<1> QED BY <1>1, <1>3, <1>4, <1>5, TransactionStep

LEMMA DispatchStep ==
  ASSUME QueueInv, Dispatch
  PROVE  QueueInv'
<1> DEFINE i == First(Dispatchable(store))
<1>1. i \in Dispatchable(store) /\ i \in DOMAIN store.ops /\ i \in Nat \ {0}
  <2>1. Dispatchable(store) \in SUBSET Nat /\ DOMAIN store.ops = 1 .. Len(store.ops)
    BY StoreFields DEF Dispatchable, QueueInv, StoreInv
  <2>2. i \in Dispatchable(store)
    BY <2>1, FirstIsOldest DEF Dispatch
  <2>3. i \in DOMAIN store.ops
    BY <2>2 DEF Dispatchable
  <2> HIDE DEF i
  <2> QED BY <2>1, <2>2, <2>3
<1>2. store' = MarkAttempt(store, i) /\ worker' = [op |-> i, phase |-> "sent", revision |-> 0]
  BY DEF Dispatch
<1> HIDE DEF i
<1>3. /\ Keeps(store, store') /\ store'.ops[i].state = "inflight"
      /\ store'.ops[i].base # NoBase
  BY <1>1, <1>2, QueueHas, MarkAttemptKeeps
<1>4. strays \in SUBSET DOMAIN store.ops
  BY DEF QueueInv, TypeOK
<1>5. /\ wake' \in BOOLEAN /\ recovering' \in BOOLEAN
      /\ strays' \in SUBSET DOMAIN store.ops /\ UNCHANGED <<ledger, applied, foreign>>
  BY <1>4 DEF Dispatch
<1>6. worker' \in Worker
  BY <1>1, <1>2 DEF Worker, Phases
<1>7. WorkerKnown' /\ worker'.op = i /\ worker'.phase = "sent"
  BY <1>1, <1>2, <1>3 DEF WorkerKnown, Keeps, OpsKept
<1>8. WorkerInv'
  BY <1>3, <1>7 DEF WorkerInv, WorkerHoldsHead, Carried, RejectedIsBehind, CommittedIsApplied
<1> QED BY <1>3, <1>5, <1>6, <1>7, <1>8, TransactionStep

LEMMA RestStep ==
  ASSUME QueueInv, Rest
  PROVE  QueueInv'
<1>1. Keeps(store, store') /\ InFlightKept(store, store')
  BY QueueHas DEF Rest
<1>2. recovering \in BOOLEAN /\ strays \in SUBSET DOMAIN store.ops
  BY DEF QueueInv, TypeOK
<1>3. /\ wake' \in BOOLEAN /\ recovering' \in BOOLEAN /\ UNCHANGED worker
      /\ strays' \in SUBSET DOMAIN store.ops /\ UNCHANGED <<ledger, applied, foreign>>
  BY <1>2 DEF Rest
<1>4. worker' \in Worker \cup {NoWorker} /\ WorkerKnown'
  BY <1>1, <1>3, WorkerStillKnown DEF Keeps
<1> QED BY <1>1, <1>3, <1>4, TransactionStep

LEMMA HandleFinishedStep ==
  ASSUME QueueInv, HandleFinished
  PROVE  QueueInv'
<1>1. worker # NoWorker /\ worker \in Worker /\ worker.op \in DOMAIN store.ops
  BY PhasesAreApart DEF HandleFinished, Phases, NoWorker, QueueInv, TypeOK
<1>2. worker' = NoWorker /\ UNCHANGED <<recovering, ledger, applied, strays, foreign>>
  BY DEF HandleFinished
<1>3. /\ worker' \in Worker \cup {NoWorker} /\ WorkerKnown' /\ WorkerInv'
  BY <1>2, PhasesAreApart, WorkerDone DEF WorkerKnown, NoWorker
<1>4. /\ wake' \in BOOLEAN /\ recovering' \in BOOLEAN
      /\ strays' \in SUBSET DOMAIN store.ops
  BY <1>2 DEF QueueInv, TypeOK, HandleFinished
<1>5. CASE worker.phase = "committed"
  <2> DEFINE i == worker.op
             d == store.ops[i].doc
             text == store.ops[i].text
  <2>1. store' = MarkSuccess(store, i, worker.revision) /\ worker.revision \in Nat
    BY <1>1, <1>5, PhasesAreApart DEF HandleFinished, Worker
  <2>2. store.ops[i].state = "inflight" /\ store.ops[i].base # NoBase
    BY <1>5 DEF QueueInv, WorkerHoldsHead, AtWork, Carried
  <2>3. d \in Document
    BY <1>1, QueueHas DEF OpRow
  <2>4. /\ worker.revision \in 1 .. Len(ledger[d]) /\ ledger[d][worker.revision] = text
    <3> DEFINE a == [op |-> i, revision |-> worker.revision]
    <3>1. a \in applied /\ a.op = i /\ a.revision = worker.revision
      BY <1>5 DEF QueueInv, CommittedIsApplied
    <3> HIDE DEF a
    <3> QED BY <3>1 DEF QueueInv, LedgerOfOperations
  <2> HIDE DEF d, text, i
  <2>5. /\ StoreInv(store') /\ OpsKept(store, store')
        /\ Takes(store, store', d, worker.revision, text)
    BY <1>1, <2>1, <2>2, QueueHas, MarkSuccessKeeps DEF i, d, text
  <2>6. LedgerInv'
    BY <1>2, <2>1, <2>3, <2>4, <2>5, BaseStep
  <2>7. TypeOK'
    BY <1>2, <1>3, <1>4, <2>5 DEF StoreInv, OpsKept, QueueInv, TypeOK, WorkerKnown
  <2> QED BY <1>3, <2>5, <2>6, <2>7, QueueStep
<1>6. CASE worker.phase # "committed"
  <2>1. Keeps(store, store')
    <3>1. CASE worker.phase \in Errors
      BY <1>1, <1>6, <3>1, QueueHas, MarkRetryKeeps DEF HandleFinished, QueueInv,
         WorkerHoldsHead, AtWork, Carried
    <3>2. CASE worker.phase \notin Errors
      BY <1>6, <3>2, QueueHas DEF HandleFinished
    <3> QED BY <3>1, <3>2
  <2> QED BY <1>2, <1>3, <1>4, <2>1, TransactionStep
<1> QED BY <1>5, <1>6

LEMMA ApplyPullStep ==
  ASSUME QueueInv, NEW d \in Document, NEW revision \in 1 .. Revision(d),
         ApplyPull(d, revision)
  PROVE  QueueInv'
<1>1. /\ store' = ApplyRemoteSnapshot(store, d, revision, ledger[d][revision])
      /\ ~ HasActive(store, d)
      /\ UNCHANGED <<worker, wake, recovering, ledger, applied, strays, foreign>>
  BY DEF ApplyPull, AcceptsRemote
<1>2. revision \in Nat /\ ledger[d][revision] \in Text /\ revision <= Len(ledger[d])
  BY QueueHas DEF Revision
<1>3. /\ StoreInv(store') /\ OpsKept(store, store') /\ store'.ops = store.ops
      /\ Takes(store, store', d, revision, ledger[d][revision])
  BY <1>1, <1>2, QueueHas, ApplyRemoteSnapshotKeeps
<1>4. LedgerInv' /\ StillBehind
  BY <1>1, <1>2, <1>3, BaseStep
<1>5. WorkerInv'
  BY <1>1, <1>3, <1>4, WorkerStays DEF InFlightKept
<1>6. TypeOK'
  BY <1>1, <1>3 DEF QueueInv, TypeOK, StoreInv
<1> QED BY <1>3, <1>4, <1>5, <1>6, QueueStep

LEMMA RestartStep ==
  ASSUME QueueInv, Restart
  PROVE  QueueInv'
<1>1. Keeps(store, store')
  BY QueueHas, RestartKeeps DEF Restart
<1>2. worker' = NoWorker /\ wake' = TRUE /\ UNCHANGED <<recovering, ledger, applied, foreign>>
  BY DEF Restart
<1>3. /\ worker' \in Worker \cup {NoWorker} /\ WorkerKnown' /\ WorkerInv'
  BY <1>2, PhasesAreApart, WorkerDone DEF WorkerKnown, NoWorker
<1>4. strays' \in SUBSET DOMAIN store.ops
  BY PhasesAreApart DEF Restart, Abandon, QueueInv, TypeOK, NoWorker
<1>5. wake' \in BOOLEAN /\ recovering' \in BOOLEAN
  BY <1>2 DEF QueueInv, TypeOK
<1> QED BY <1>1, <1>2, <1>3, <1>4, <1>5, TransactionStep

\* The actions that leave the store alone, and only teach the worker something.
LEMMA LearnStep ==
  ASSUME QueueInv, worker # NoWorker, NEW phase \in Phases, NEW revision \in Nat,
         Learn(phase, revision), UNCHANGED <<store, wake, recovering, foreign>>,
         LedgerInv', ledger' \in [Document -> Seq(Text)], applied' \in SUBSET AppliedRow,
         strays' \in SUBSET DOMAIN store.ops, WorkerInv'
  PROVE  QueueInv'
<1>1. worker' \in Worker /\ WorkerKnown'
  BY WorkerAtWork
<1>2. /\ store' \in Store /\ wake' \in BOOLEAN /\ recovering' \in BOOLEAN /\ foreign' \in Nat
      /\ strays' \in SUBSET DOMAIN store'.ops
  BY DEF QueueInv, TypeOK
<1>3. TypeOK'
  BY <1>1, <1>2, Zenon DEF TypeOK, WorkerKnown
<1>4. StoreInv(store')
  BY DEF QueueInv
<1> QED BY <1>3, <1>4, QueueStep

LEMMA WorkerPresent ==
  ASSUME QueueInv, worker.phase \in {"sent", "rejected"}
  PROVE  /\ worker # NoWorker /\ worker \in Worker /\ worker.op \in DOMAIN store.ops
         /\ store.ops[worker.op].state = "inflight" /\ store.ops[worker.op].base # NoBase
<1>1. worker # NoWorker
  BY DEF NoWorker
<1>2. worker.phase \in AtWork
  BY DEF AtWork
<1> QED BY <1>1, <1>2 DEF QueueInv, TypeOK, WorkerHoldsHead, Carried

\* Nothing of the ledger's part changes when nothing it speaks of does.
LEMMA LedgerStays ==
  ASSUME QueueInv, UNCHANGED <<store, ledger, applied>>
  PROVE  /\ LedgerInv' /\ StillBehind
         /\ ledger' \in [Document -> Seq(Text)] /\ applied' \in SUBSET AppliedRow
<1>1. Keeps(store, store')
  BY QueueHas
<1>2. LedgerInv' /\ StillBehind
  BY <1>1, StoreStep DEF Keeps
<1> QED BY <1>2 DEF QueueInv, TypeOK

LEMMA ServerCommitsStep ==
  ASSUME QueueInv, ServerCommits
  PROVE  QueueInv'
<1> DEFINE i == worker.op
           revision == store.ops[i].base + 1
<1>1. /\ Accepts(i) /\ Apply(i) /\ Learn("committed", revision)
      /\ UNCHANGED <<store, wake, recovering, strays, foreign>>
  BY DEF ServerCommits, Carried
<1>2. /\ worker # NoWorker /\ i \in DOMAIN store.ops
      /\ store.ops[i].state = "inflight" /\ store.ops[i].base # NoBase
  BY WorkerPresent DEF ServerCommits
<1>3. /\ LedgerInv' /\ ledger' \in [Document -> Seq(Text)]
      /\ applied' \in SUBSET AppliedRow
  BY <1>1, <1>2, ApplyStep
<1>4. revision \in Nat /\ "committed" \in Phases
  BY <1>2, QueueHas DEF OpRow, Phases, Answered
<1>5. [op |-> i, revision |-> revision] \in applied'
  BY <1>1 DEF Apply
<1> HIDE DEF revision
<1>6. /\ worker'.op = worker.op /\ worker'.phase = "committed"
      /\ worker'.revision = revision
  BY <1>1, <1>2, <1>4, WorkerAtWork
<1>7. WorkerInv'
  BY <1>1, <1>2, <1>5, <1>6
     DEF WorkerInv, WorkerHoldsHead, Carried, RejectedIsBehind, CommittedIsApplied
<1>8. strays' \in SUBSET DOMAIN store.ops
  BY <1>1 DEF QueueInv, TypeOK
<1> QED BY <1>1, <1>2, <1>3, <1>4, <1>7, <1>8, LearnStep

LEMMA ServerReplaysStep ==
  ASSUME QueueInv, ServerReplays
  PROVE  QueueInv'
<1>1. PICK a \in AppliedAs(worker.op) : Learn("committed", a.revision)
  BY DEF ServerReplays
<1>2. UNCHANGED <<store, wake, recovering, ledger, applied, strays, foreign>>
  BY DEF ServerReplays
<1>3. /\ worker # NoWorker /\ worker.op \in DOMAIN store.ops
      /\ store.ops[worker.op].state = "inflight" /\ store.ops[worker.op].base # NoBase
  BY WorkerPresent DEF ServerReplays
<1>4. /\ a \in applied /\ a.revision \in Nat
      /\ a = [op |-> worker.op, revision |-> a.revision]
  BY DEF AppliedAs, QueueInv, TypeOK, AppliedRow
<1>5. "committed" \in Phases
  BY DEF Phases, Answered
<1>6. /\ worker'.op = worker.op /\ worker'.phase = "committed"
      /\ worker'.revision = a.revision
  BY <1>1, <1>2, <1>3, <1>4, <1>5, WorkerAtWork
<1>7. WorkerInv'
  BY <1>2, <1>3, <1>4, <1>6
     DEF WorkerInv, WorkerHoldsHead, Carried, RejectedIsBehind, CommittedIsApplied
<1>8. strays' \in SUBSET DOMAIN store.ops
  BY <1>2 DEF QueueInv, TypeOK
<1>9. LedgerInv' /\ ledger' \in [Document -> Seq(Text)] /\ applied' \in SUBSET AppliedRow
  BY <1>2, LedgerStays
<1> QED BY <1>1, <1>2, <1>3, <1>4, <1>5, <1>7, <1>8, <1>9, LearnStep

\* A refused operation starts from a revision the server has left behind: the
\* server is never behind the device.
LEMMA ServerRejectsStep ==
  ASSUME QueueInv, ServerRejects
  PROVE  QueueInv'
<1> DEFINE o == store.ops[worker.op]
<1>1. /\ Learn("rejected", 0) /\ AppliedAs(worker.op) = {} /\ ~ Accepts(worker.op)
      /\ UNCHANGED <<store, wake, recovering, ledger, applied, strays, foreign>>
  BY DEF ServerRejects
<1>2. /\ worker # NoWorker /\ worker.op \in DOMAIN store.ops
      /\ o.state = "inflight" /\ o.base # NoBase
  BY WorkerPresent DEF ServerRejects
<1>3. o.base \in Nat /\ o.doc \in Document /\ Len(ledger[o.doc]) \in Nat
  BY <1>2, QueueHas DEF OpRow
<1>4. o.base = store.rows[o.doc].revision /\ store.rows[o.doc] # NoRow
  BY <1>2 DEF QueueInv, StoreInv, HeadsMatch, RowsKnown, Heads, Waiting
<1>5. o.base <= Len(ledger[o.doc])
  BY <1>3, <1>4 DEF QueueInv, BaseAgreesWithLedger
<1>6. o.base # Len(ledger[o.doc])
  BY <1>1 DEF Accepts, Revision
<1>7. Behind(worker.op)
  BY <1>1, <1>2, <1>3, <1>5, <1>6 DEF Behind, Revision
<1>8. "rejected" \in Phases /\ 0 \in Nat
  BY DEF Phases
<1>9. worker'.op = worker.op /\ worker'.phase = "rejected"
  BY <1>1, <1>2, <1>8, WorkerAtWork
<1>10. /\ LedgerInv' /\ StillBehind
       /\ ledger' \in [Document -> Seq(Text)] /\ applied' \in SUBSET AppliedRow
  BY <1>1, LedgerStays
<1>11. Behind(worker.op)'
  BY <1>1, <1>7, <1>9 DEF Behind, AppliedAs, Revision
<1>12. WorkerInv'
  BY <1>1, <1>2, <1>9, <1>11
     DEF WorkerInv, WorkerHoldsHead, Carried, RejectedIsBehind, CommittedIsApplied
<1>13. strays' \in SUBSET DOMAIN store.ops
  BY <1>1 DEF QueueInv, TypeOK
<1> QED BY <1>1, <1>2, <1>8, <1>10, <1>12, <1>13, LearnStep

LEMMA AttemptFailsStep ==
  ASSUME QueueInv, NEW error \in Errors, AttemptFails(error)
  PROVE  QueueInv'
<1>1. /\ Learn(error, 0)
      /\ UNCHANGED <<store, wake, recovering, ledger, applied, foreign>>
  BY DEF AttemptFails
<1>2. /\ worker # NoWorker /\ worker.op \in DOMAIN store.ops
      /\ store.ops[worker.op].state = "inflight" /\ store.ops[worker.op].base # NoBase
  BY WorkerPresent DEF AttemptFails
<1>3. error \in Phases /\ 0 \in Nat
  BY DEF Phases
<1>4. worker'.op = worker.op /\ worker'.phase = error
  BY <1>1, <1>2, <1>3, WorkerAtWork
<1>5. error \notin {"rejected", "committed"}
  BY PhasesAreApart
<1>6. WorkerInv'
  BY <1>1, <1>2, <1>4, <1>5
     DEF WorkerInv, WorkerHoldsHead, Carried, RejectedIsBehind, CommittedIsApplied
<1>7. strays' \in SUBSET DOMAIN store.ops
  BY <1>2 DEF QueueInv, TypeOK, AttemptFails, Abandon
<1>8. LedgerInv' /\ ledger' \in [Document -> Seq(Text)] /\ applied' \in SUBSET AppliedRow
  BY <1>1, LedgerStays
<1> QED BY <1>1, <1>2, <1>3, <1>6, <1>7, <1>8, LearnStep

LEMMA StrayArrivesStep ==
  ASSUME QueueInv, NEW i \in strays, StrayArrives(i)
  PROVE  QueueInv'
<1>1. i \in DOMAIN store.ops /\ strays' \in SUBSET DOMAIN store'.ops
  BY DEF QueueInv, TypeOK, StrayArrives
<1>2. UNCHANGED <<store, worker, wake, recovering, foreign>>
  BY DEF StrayArrives
<1>3. /\ LedgerInv' /\ StillBehind /\ ledger' \in [Document -> Seq(Text)]
      /\ applied' \in SUBSET AppliedRow /\ applied \subseteq applied'
  <2>1. CASE Accepts(i)
    BY <1>1, <1>2, <2>1, ApplyStep DEF StrayArrives, Apply
  <2>2. CASE ~ Accepts(i)
    BY <1>2, <2>2, LedgerStays DEF StrayArrives
  <2> QED BY <2>1, <2>2
<1>4. OpsKept(store, store') /\ InFlightKept(store, store') /\ StoreInv(store')
  BY <1>2, QueueHas DEF Keeps
<1>5. WorkerInv'
  BY <1>2, <1>3, <1>4, WorkerStays
<1>6. TypeOK'
  BY <1>1, <1>2, <1>3 DEF QueueInv, TypeOK
<1> QED BY <1>3, <1>4, <1>5, <1>6, QueueStep

LEMMA RefusedStep ==
  ASSUME QueueInv, NEW error \in Refusals, Refused(error)
  PROVE  QueueInv'
<1>1. /\ worker # NoWorker /\ worker \in Worker /\ worker.op \in DOMAIN store.ops
      /\ store.ops[worker.op].state = "inflight" /\ store.ops[worker.op].base # NoBase
  BY WorkerPresent DEF Refused
<1>2. Keeps(store, store')
  <2>1. CASE store' = MarkBlocked(store, worker.op)
    <3>1. store' = SetState(store, {worker.op}, "blocked")
      BY <2>1 DEF MarkBlocked
    <3> QED BY <1>1, <3>1, QueueHas, StoppedHead
  <2>2. CASE store' = MarkBlockedAndPromoteDependent(store, worker.op)
    BY <1>1, <2>2, QueueHas, SupersededKeeps
  <2> QED BY <2>1, <2>2 DEF Refused
<1>3. UNCHANGED <<wake, recovering, ledger, applied, strays, foreign>>
  BY DEF Refused
<1>4. Learn(error, 0) \/ Learn("superseded", 0)
  BY DEF Refused
<1>5. \E phase \in Phases : phase \notin AtWork /\ Learn(phase, 0)
  BY <1>4, PhasesAreApart DEF Phases, Answered
<1>6. worker' \in Worker /\ worker'.op = worker.op /\ worker'.phase \notin AtWork
  <2>1. PICK phase \in Phases : phase \notin AtWork /\ Learn(phase, 0)
    BY <1>5
  <2> QED BY <1>1, <2>1 DEF Learn, Worker
<1>7. WorkerKnown' /\ WorkerInv'
  BY <1>1, <1>2, <1>6, WorkerDone DEF WorkerKnown, Keeps, OpsKept
<1>8. wake' \in BOOLEAN /\ recovering' \in BOOLEAN /\ strays' \in SUBSET DOMAIN store.ops
  BY <1>3 DEF QueueInv, TypeOK
<1> QED BY <1>2, <1>3, <1>6, <1>7, <1>8, TransactionStep

\* What the server has of a rejected operation's document.
LEMMA RejectedRemote ==
  ASSUME QueueInv, worker.phase = "rejected"
  PROVE  LET d == store.ops[worker.op].doc
         IN /\ d \in Document /\ Revision(d) \in Nat /\ Revision(d) > 0
            /\ ledger[d][Revision(d)] \in Text
            /\ store.ops[worker.op].text \in Text
<1> DEFINE o == store.ops[worker.op]
<1>1. worker.op \in DOMAIN store.ops /\ o \in OpRow
  BY WorkerPresent, QueueHas
<1>2. o.doc \in Document /\ o.text \in Text /\ o.base \in Nat \cup {NoBase}
  BY <1>1 DEF OpRow
<1>3. o.base # NoBase /\ o.base < Revision(o.doc)
  BY DEF QueueInv, RejectedIsBehind, Behind
<1>4. ledger[o.doc] \in Seq(Text) /\ Revision(o.doc) = Len(ledger[o.doc])
  BY <1>2, QueueHas DEF Revision
<1> HIDE DEF o
<1>5. Revision(o.doc) \in Nat /\ Revision(o.doc) > 0
  BY <1>2, <1>3, <1>4
<1>6. ledger[o.doc][Revision(o.doc)] \in Text
  BY <1>4, <1>5
<1> QED BY <1>2, <1>5, <1>6 DEF o

LEMMA MergesCleanlyStep ==
  ASSUME QueueInv, NEW merged \in Text, MergesCleanly(merged)
  PROVE  QueueInv'
<1> DEFINE i == worker.op
           d == store.ops[i].doc
           revision == Revision(d)
           remote == ledger[d][revision]
<1>1. /\ worker # NoWorker /\ worker \in Worker /\ i \in DOMAIN store.ops
  BY WorkerPresent DEF MergesCleanly
<1>2. /\ d \in Document /\ revision \in Nat /\ remote \in Text
      /\ revision = Len(ledger[d])
  BY RejectedRemote DEF MergesCleanly, Revision
<1>3. /\ store' = RebaseCleanMerge(store, i, revision, remote, merged)
      /\ Learn("auto_merged", 0)
      /\ UNCHANGED <<wake, recovering, ledger, applied, strays, foreign>>
  BY DEF MergesCleanly, Carried
<1> HIDE DEF revision, remote
<1>4. /\ StoreInv(store') /\ OpsKept(store, store')
      /\ Takes(store, store', d, revision, remote)
  BY <1>1, <1>2, <1>3, QueueHas, RebaseCleanMergeKeeps
<1>5. LedgerInv'
  <2>1. remote = ledger[d][revision]
    BY DEF remote
  <2> HIDE DEF d
  <2> QED BY <1>2, <1>3, <1>4, <2>1, BaseStep
<1>6. "auto_merged" \in Phases /\ "auto_merged" \notin AtWork
  BY PhasesAreApart DEF Phases, Answered
<1>7. worker' \in Worker /\ worker'.op = i /\ worker'.phase \notin AtWork
  BY <1>1, <1>3, <1>6 DEF Learn, Worker
<1>8. WorkerKnown' /\ WorkerInv'
  BY <1>1, <1>4, <1>7, WorkerDone DEF WorkerKnown, OpsKept
<1>9. TypeOK'
  BY <1>3, <1>4, <1>7, <1>8 DEF StoreInv, OpsKept, QueueInv, TypeOK, WorkerKnown
<1> QED BY <1>4, <1>5, <1>8, <1>9, QueueStep

\* The stopped operation is one the server has left behind, and never takes.
LEMMA ConflictsStep ==
  ASSUME QueueInv, Conflicts
  PROVE  QueueInv'
<1> DEFINE i == worker.op
           d == store.ops[i].doc
           revision == Revision(d)
           remote == ledger[d][revision]
           local == store.ops[i].text
<1>1. /\ worker # NoWorker /\ worker \in Worker /\ i \in DOMAIN store.ops
      /\ store.ops[i].state = "inflight" /\ store.ops[i].base # NoBase
  BY WorkerPresent DEF Conflicts
<1>2. /\ d \in Document /\ revision \in Nat /\ remote \in Text /\ local \in Text
      /\ revision = Len(ledger[d])
  BY RejectedRemote DEF Conflicts, Revision
<1>3. /\ store' = MarkConflict(store, i, revision, remote, local)
      /\ Learn("conflict", 0)
      /\ UNCHANGED <<wake, recovering, ledger, applied, strays, foreign>>
  BY DEF Conflicts, Carried
<1>4. Behind(i)
  BY DEF QueueInv, RejectedIsBehind, Conflicts
<1>5. ledger[d][revision] = remote
  OBVIOUS
<1> HIDE DEF revision, remote, local
<1>6. /\ StoreInv(store') /\ StoppedAt(store, store', i)
      /\ Takes(store, store', d, revision, remote)
  BY <1>1, <1>2, <1>3, QueueHas, MarkConflictKeeps
<1>7. LedgerInv'
  <2>1. \A j \in DOMAIN store.ops : Behind(j) => Behind(j)'
    BY <1>3, <1>6 DEF StoppedAt, Behind, AppliedAs, Revision
  <2>2. AppliedExist'
    BY <1>3, <1>6 DEF QueueInv, AppliedExist, StoppedAt
  <2>3. BaseAgreesWithLedger'
    <3> HIDE DEF d
    <3> QED BY <1>2, <1>3, <1>5, <1>6 DEF QueueInv, BaseAgreesWithLedger, Takes
  <2>4. LedgerOfOperations'
    BY <1>3, <1>6 DEF QueueInv, LedgerOfOperations, AppliedExist, StoppedAt
  <2>5. ConflictsAreBehind'
    BY <1>4, <1>6, <2>1 DEF QueueInv, ConflictsAreBehind, StoppedAt
  <2> QED BY <2>2, <2>3, <2>4, <2>5 DEF LedgerInv
<1>8. "conflict" \in Phases /\ "conflict" \notin AtWork
  BY PhasesAreApart DEF Phases, Answered
<1>9. worker' \in Worker /\ worker'.op = i /\ worker'.phase \notin AtWork
  BY <1>1, <1>3, <1>8 DEF Learn, Worker
<1>10. WorkerKnown' /\ WorkerInv'
  BY <1>1, <1>6, <1>9, WorkerDone DEF WorkerKnown, StoppedAt
<1>11. TypeOK'
  BY <1>3, <1>6, <1>9, <1>10 DEF StoreInv, StoppedAt, QueueInv, TypeOK, WorkerKnown
<1> QED BY <1>6, <1>7, <1>10, <1>11, QueueStep

LEMMA ForeignCommitStep ==
  ASSUME QueueInv, NEW d \in Document, NEW text \in Text, ForeignCommit(d, text)
  PROVE  QueueInv'
<1>1. /\ ledger' = [ledger EXCEPT ![d] = Append(@, text)] /\ foreign' = foreign + 1
      /\ UNCHANGED <<store, worker, wake, recovering, applied, strays>>
  BY DEF ForeignCommit
<1>2. LedgerInv' /\ StillBehind /\ ledger' \in [Document -> Seq(Text)]
  BY <1>1, ForeignStep
<1>3. OpsKept(store, store') /\ InFlightKept(store, store') /\ StoreInv(store')
  BY <1>1, QueueHas DEF Keeps
<1>4. WorkerInv'
  BY <1>1, <1>2, <1>3, WorkerStays
<1>5. foreign' \in Nat
  BY <1>1 DEF QueueInv, TypeOK
<1>6. TypeOK'
  BY <1>1, <1>2, <1>5 DEF QueueInv, TypeOK
<1> QED BY <1>2, <1>3, <1>4, <1>6, QueueStep

-----------------------------------------------------------------------------
(* The queue *)

LEMMA InitHolds == Init => QueueInv
<1> SUFFICES ASSUME Init PROVE QueueInv
  OBVIOUS
<1>1. /\ store = [ops |-> <<>>, rows |-> [d \in Document |-> NoRow]]
      /\ worker = NoWorker /\ wake = FALSE /\ recovering = FALSE
      /\ ledger = [d \in Document |-> <<>>] /\ applied = {} /\ strays = {} /\ foreign = 0
  BY DEF Init, EmptyStore
<1>2. store \in Store /\ DOMAIN store.ops = {}
  BY <1>1 DEF Store
<1>3. ledger \in [Document -> Seq(Text)]
  BY <1>1
<1>4. TypeOK
  BY <1>1, <1>2, <1>3 DEF TypeOK
<1>5. StoreInv(store)
  BY <1>1, <1>2
     DEF StoreInv, RowsKnown, OneHead, HeadsMatch, ConflictsAlone, ConflictsShown
<1>6. worker.phase \notin AtWork
  BY <1>1, PhasesAreApart DEF NoWorker
<1>7. WorkerHoldsHead /\ RejectedIsBehind /\ CommittedIsApplied
  BY <1>6 DEF AtWork, WorkerHoldsHead, RejectedIsBehind, CommittedIsApplied
<1>8. AppliedExist /\ LedgerOfOperations /\ ConflictsAreBehind /\ BaseAgreesWithLedger
  BY <1>1, <1>2 DEF AppliedExist, LedgerOfOperations, ConflictsAreBehind, BaseAgreesWithLedger
<1> QED BY <1>4, <1>5, <1>7, <1>8 DEF QueueInv

LEMMA NextKeeps == QueueInv /\ [Next]_vars => QueueInv'
<1> SUFFICES ASSUME QueueInv, [Next]_vars PROVE QueueInv'
  OBVIOUS
<1>1. ASSUME WorkerStep PROVE QueueInv'
  BY <1>1, ServerCommitsStep, ServerReplaysStep, ServerRejectsStep, AttemptFailsStep,
     RefusedStep, MergesCleanlyStep, ConflictsStep DEF WorkerStep
<1>2. ASSUME DrainStep PROVE QueueInv'
  BY <1>2, DispatchStep, RestStep, HandleFinishedStep, RecoverStep DEF DrainStep
<1>3. ASSUME Environment PROVE QueueInv'
  BY <1>3, RestartStep, StrayArrivesStep, SaveStep, ForeignCommitStep, ApplyPullStep
     DEF Environment
<1>4. CASE UNCHANGED vars
  <2>1. UNCHANGED <<store, worker, wake, recovering, ledger, applied, strays, foreign>>
    BY <1>4 DEF vars
  <2> QED BY <2>1 DEF QueueInv, TypeOK, AppliedExist, BaseAgreesWithLedger,
       WorkerHoldsHead, Carried, LedgerOfOperations, RejectedIsBehind, ConflictsAreBehind,
       CommittedIsApplied, Behind, AppliedAs, Revision
<1> QED BY <1>1, <1>2, <1>3, <1>4 DEF Next

\* The queue, the worker's operation and the server's ledger always fit together.
THEOREM QueueInvariant == Spec => []QueueInv
<1> QED BY InitHolds, NextKeeps, PTL DEF Spec

LEMMA QueueInvMeans == QueueInv => QueueIsTrue
<1> SUFFICES ASSUME QueueInv PROVE QueueIsTrue
  OBVIOUS
<1>1. TypeOK /\ BaseAgreesWithLedger
  BY DEF QueueInv
<1>2. AtMostOneDispatchable
  BY DEF QueueInv, StoreInv, OneHead, Heads, AtMostOneDispatchable
<1>3. HeadStartsFromAcceptedBase
  BY DEF QueueInv, StoreInv, HeadsMatch, RowsKnown, Heads, HeadStartsFromAcceptedBase
<1>4. AppliedNeverConflicts
  BY DEF QueueInv, AppliedExist, ConflictsAreBehind, Behind, AppliedAs, AppliedNeverConflicts
<1>5. ConflictIsShown
  BY DEF QueueInv, StoreInv, ConflictsShown, ConflictIsShown, OpsOf
<1> QED BY <1>1, <1>2, <1>3, <1>4, <1>5
     DEF QueueIsTrue, SendsFromTheLedger, ConflictsAreTrue

\* Whatever is saved, pulled, refused, merged, lost, repeated or interrupted, and
\* whatever other devices commit meanwhile: no two operations of a document are
\* sendable side by side, every request and every merge starts from a text the
\* server has at that revision, and only a real conflict is shown as one.
THEOREM QueueStaysTrue == Spec => []QueueIsTrue
<1> QED BY QueueInvariant, QueueInvMeans, PTL

-----------------------------------------------------------------------------
(* The works of one device (ProjectLibrary) *)

Titled == [title : Title, project : Project \cup {Nothing}]

Binding == [title : Title, state : {"active", "trashed", "purged"}, waiting : BOOLEAN]

Marker == [project : Project, complete : BOOLEAN]

\* The mark of what is not there is no work, no title and no record.
NothingIsNoWork ==
  Nothing \notin Work \cup Project \cup Title \cup Titled \cup Binding \cup Marker

Steps == {"ask", "record", "move", "finish", "files", "records", "bind", "pull", "adopt",
          "complete", "mark"}

Jobs ==
  [kind : {"trash", "server", "restore", "purge", "import"}, step : Steps,
   entry : P!Entry, project : Project \cup {Nothing}, title : Title \cup {Nothing}]

LibraryTypes == P!LibraryTypeOK /\ job \in {Nothing} \cup Jobs

\* A work is in one place ...
Apart ==
  /\ \A t1, t2 \in Title : shelf[t1] # Nothing /\ shelf[t1] = shelf[t2] => t1 = t2
  /\ \A e1, e2 \in P!Entry : bins[e1] # Nothing /\ bins[e1] = bins[e2] => e1 = e2
  /\ \A t \in Title, e \in P!Entry : shelf[t] # Nothing => shelf[t] # bins[e]

\* ... and was made before it came there; what is deleted is nowhere.
Made ==
  /\ \A t \in Title : shelf[t] # Nothing =>
       identity[shelf[t]] # Nothing /\ shelf[t] \notin purged
  /\ \A e \in P!Entry : bins[e] # Nothing =>
       identity[bins[e]] # Nothing /\ bins[e] \notin purged
  /\ \A w \in purged : identity[w] # Nothing

Placed ==
  \A w \in Work : identity[w] # Nothing /\ w \notin purged =>
    \/ \E t \in Title : shelf[t] = w
    \/ \E e \in P!Entry : bins[e] = w

\* The trash lists what it holds, an entry of a project under its uuid.
Listing ==
  \A e \in P!Entry :
    /\ bins[e] # Nothing => index[e] # Nothing
    /\ index[e] # Nothing /\ index[e].project # Nothing => e = index[e].project

OneTitle ==
  \A u, v \in Project :
    bindings[u] # Nothing /\ bindings[v] # Nothing /\ bindings[u].title = bindings[v].title
      => u = v

Gone(u) == cloud[u] \in {"purged", "absent"}

PurgedIsGone ==
  \A u \in Project : bindings[u] # Nothing /\ bindings[u].state = "purged" => Gone(u)

\* Nothing runs beside the open work, and the open work is whole.
OpenAlone ==
  opened # Nothing => job = Nothing /\ shelf[opened] # Nothing /\ ~ P!Hidden(shelf[opened])

\* An import under way keeps its work at the title of its binding ...
Begun ==
  \A u \in Project : imports[u] = "begun" =>
    /\ bindings[u] # Nothing
    /\ shelf[bindings[u].title] # Nothing /\ P!Hidden(shelf[bindings[u].title])

\* ... and a finished one its binding, until the project is purged.
Imported ==
  \A w \in Work : marker[w] # Nothing /\ marker[w].complete =>
    bindings[marker[w].project] # Nothing \/ cloud[marker[w].project] = "purged"

Untouched == \A w \in written : identity[w] # Nothing /\ ~ P!Hidden(w)

\* A work on its way to the trash: its entry is made before it moves, and names
\* its project as long as the server has that.
TrashFits ==
  job # Nothing /\ job.kind = "trash" =>
    /\ job.title \in Title
    /\ index[job.entry] # Nothing /\ index[job.entry].title = job.title
    /\ index[job.entry].project \in {Nothing, job.project}
    /\ job.project # Nothing => job.project \in P!BoundTo(job.title)
    /\ job.step \in {"ask", "record"} =>
         index[job.entry].project = job.project /\ job.project # Nothing
    /\ job.step = "record" => bindings[job.project].state # "purged"
    /\ job.step \in {"ask", "record", "move"} =>
         /\ bins[job.entry] = Nothing
         /\ shelf[job.title] # Nothing /\ ~ P!Hidden(shelf[job.title])
    /\ index[job.entry].project = Nothing => \A u \in P!BoundTo(job.title) : Gone(u)

\* An answer of the server that is about to be recorded is not overtaken by what
\* the device knows.
AnswerFits ==
  job # Nothing /\ job.kind \in {"server", "restore"} =>
    /\ job.step \in {"ask", "record"} => job.project # Nothing
    /\ job.step = "record" /\ bindings[job.project] # Nothing =>
         bindings[job.project].state # "purged"

RestoreFits ==
  job # Nothing /\ job.kind = "restore" =>
    /\ job.step = "move" => job.title # Nothing
    /\ job.title # Nothing =>
         P!InBin(job.entry) /\ index[job.entry].title = job.title /\ shelf[job.title] = Nothing

PurgeFits ==
  job # Nothing /\ job.kind = "purge" =>
    /\ job.project \in {Nothing, job.entry}
    /\ job.step \in {"ask", "record", "records"} => job.project # Nothing
    /\ job.step \in {"record", "files", "records"} /\ job.project # Nothing =>
         cloud[job.project] = "purged"
    /\ job.step = "records" => bins[job.entry] = Nothing

\* The work of an import is hidden at its title until the marker is complete.
ImportFits ==
  job # Nothing /\ job.kind = "import" =>
    /\ job.project # Nothing /\ job.title # Nothing
    /\ job.entry \in Work /\ shelf[job.title] = job.entry
    /\ P!Hidden(job.entry) /\ marker[job.entry].project = job.project
    /\ bindings[job.project] # Nothing => bindings[job.project].title = job.title
    /\ job.step # "bind" => bindings[job.project] # Nothing
    /\ job.step = "mark" => imports[job.project] = "complete"

DiskInv == Apart /\ Made /\ Placed

RecordInv == Listing /\ OneTitle /\ PurgedIsGone /\ P!BindingsOutliveFiles

ImportInv == Begun /\ Imported /\ Untouched

JobInv == TrashFits /\ AnswerFits /\ RestoreFits /\ PurgeFits /\ ImportFits

LibraryInv == LibraryTypes /\ DiskInv /\ RecordInv /\ OpenAlone /\ ImportInv /\ JobInv

-----------------------------------------------------------------------------
(* What stands when nothing it speaks of changes *)

LEMMA DiskStays ==
  ASSUME DiskInv, UNCHANGED <<shelf, identity, bins, purged>>
  PROVE  DiskInv'
BY DEF DiskInv, Apart, Made, Placed

\* The bindings stay where they are, whatever state they are told.
TitlesStay ==
  \A u \in Project :
    /\ bindings'[u] = Nothing <=> bindings[u] = Nothing
    /\ bindings[u] # Nothing => bindings'[u].title = bindings[u].title

PurgedStays == \A u \in Project : cloud[u] = "purged" => cloud'[u] = "purged"

LEMMA RecordsStay ==
  ASSUME LibraryTypes, RecordInv, TitlesStay, UNCHANGED <<bins, index>>, PurgedIsGone'
  PROVE  RecordInv'
<1>1. \A e \in P!Entry : index[e] # Nothing => index[e] \in Titled
  BY DEF LibraryTypes, P!LibraryTypeOK, Titled
<1>2. OneTitle'
  BY DEF RecordInv, OneTitle, TitlesStay
<1>3. Listing'
  BY DEF RecordInv, Listing
<1>4. P!BindingsOutliveFiles'
  BY <1>1 DEF RecordInv, P!BindingsOutliveFiles, TitlesStay, P!InBin, Titled
<1> QED BY <1>2, <1>3, <1>4 DEF RecordInv

LEMMA ImportsStay ==
  ASSUME LibraryTypes, ImportInv, TitlesStay, PurgedStays,
         UNCHANGED <<shelf, identity, marker, written, imports>>
  PROVE  ImportInv'
<1>1. \A w \in Work : marker[w] # Nothing => marker[w].project \in Project
  BY DEF LibraryTypes, P!LibraryTypeOK
<1>2. \A w \in Work : P!Hidden(w)' <=> P!Hidden(w)
  BY DEF P!Hidden
<1>3. \A u \in Project : bindings[u] # Nothing => bindings[u].title \in Title
  BY DEF LibraryTypes, P!LibraryTypeOK
<1>4. Begun'
  BY <1>3 DEF ImportInv, Begun, TitlesStay, P!Hidden
<1>5. Imported'
  BY <1>1 DEF ImportInv, Imported, TitlesStay, PurgedStays
<1>6. Untouched'
  BY DEF ImportInv, Untouched, P!Hidden
<1> QED BY <1>4, <1>5, <1>6 DEF ImportInv

\* Where no binding changes.
LEMMA BindingsStay ==
  ASSUME UNCHANGED bindings
  PROVE  TitlesStay
BY DEF TitlesStay

LEMMA NoJob ==
  ASSUME job' = Nothing
  PROVE  JobInv'
BY DEF JobInv, TrashFits, AnswerFits, RestoreFits, PurgeFits, ImportFits

LEMMA NoneOpen ==
  ASSUME opened' = Nothing
  PROVE  OpenAlone'
BY DEF OpenAlone

LEMMA JobOf ==
  ASSUME LibraryTypes, NEW k, NEW s, P!At(k, s)
  PROVE  /\ job # Nothing /\ job \in Jobs /\ job.kind = k /\ job.step = s
         /\ job.entry \in P!Entry /\ job.project \in Project \cup {Nothing}
         /\ job.title \in Title \cup {Nothing}
BY DEF LibraryTypes, P!At, Jobs

LEMMA JobGoesOn ==
  ASSUME NEW s \in Steps, job \in Jobs, P!GoOn(s)
  PROVE  /\ job' \in Jobs /\ job'.kind = job.kind /\ job'.step = s
         /\ job'.entry = job.entry /\ job'.project = job.project /\ job'.title = job.title
BY DEF P!GoOn, Jobs

\* A binding that is told a state stays where it is.
LEMMA BindingTold ==
  ASSUME NothingIsNoWork, LibraryTypes, NEW u \in Project,
         NEW s \in {"active", "trashed", "purged"}, bindings' = P!WithState(u, s)
  PROVE  /\ TitlesStay /\ bindings' \in [Project -> {Nothing} \cup Binding]
         /\ \A v \in Project : bindings[v] # Nothing =>
              bindings'[v].state = IF v = u THEN s ELSE bindings[v].state
<1>1. bindings \in [Project -> {Nothing} \cup Binding] /\ Nothing \notin Binding
  BY DEF LibraryTypes, P!LibraryTypeOK, Binding, NothingIsNoWork
<1>2. CASE bindings[u] = Nothing
  BY <1>1, <1>2 DEF P!WithState, TitlesStay
<1>3. CASE bindings[u] # Nothing
  <2> DEFINE b == [bindings[u] EXCEPT !.state = s]
  <2>1. b \in Binding /\ b.title = bindings[u].title /\ b.state = s
    BY <1>1, <1>3 DEF Binding
  <2>2. bindings' = [bindings EXCEPT ![u] = b]
    BY <1>3 DEF P!WithState
  <2> HIDE DEF b
  <2> QED BY <1>1, <1>3, <2>1, <2>2 DEF TitlesStay
<1> QED BY <1>2, <1>3

-----------------------------------------------------------------------------
(* The shelf *)

LEMMA NewIs ==
  ASSUME NEW w, w \in P!New
  PROVE  w \in Work /\ identity[w] = Nothing
<1>1. P!Unmade # {} /\ w = CHOOSE v \in Work : v \in P!Unmade
  BY DEF P!New
<1>2. \E v \in Work : v \in P!Unmade
  BY <1>1 DEF P!Unmade
<1> QED BY <1>1, <1>2 DEF P!Unmade

LEMMA DrawnIs ==
  ASSUME NEW u, u \in P!Drawn
  PROVE  u \in Project /\ cloud[u] = "absent" /\ bindings[u] = Nothing
<1>1. /\ \E v \in Project : P!Unused(v)
      /\ u = CHOOSE v \in Project : P!Unused(v)
  BY DEF P!Drawn
<1>2. u \in Project /\ P!Unused(u)
  BY <1>1
<1> QED BY <1>2 DEF P!Unused

LEMMA CreateStep ==
  ASSUME NothingIsNoWork, LibraryInv, NEW t \in Title, NEW w \in Work, NEW u \in Project,
         P!Create(t, w, u)
  PROVE  LibraryInv'
<1>1. /\ job = Nothing /\ opened = Nothing /\ shelf[t] = Nothing
      /\ shelf' = [shelf EXCEPT ![t] = w] /\ identity' = [identity EXCEPT ![w] = u]
      /\ UNCHANGED <<cloud, marker, written, bins, index, bindings, imports, purged,
                     opened, job>>
  BY DEF P!Create, P!Act, P!Choosing, P!Idle
<1>2. identity[w] = Nothing
  BY NewIs DEF P!Create
<1>3. LibraryTypes /\ DiskInv /\ RecordInv /\ ImportInv /\ w # Nothing /\ u # Nothing
  BY DEF LibraryInv, NothingIsNoWork
<1>4. LibraryTypes'
  BY <1>1, <1>3 DEF LibraryTypes, P!LibraryTypeOK
<1>5. \A v \in Title : shelf[v] # w
  BY <1>2, <1>3 DEF DiskInv, Made
<1>6. \A e \in P!Entry : bins[e] # w
  BY <1>2, <1>3 DEF DiskInv, Made
<1>7. Apart'
  BY <1>1, <1>3, <1>5, <1>6 DEF DiskInv, Apart, LibraryTypes, P!LibraryTypeOK
<1>8. w \notin purged
  BY <1>2, <1>3 DEF DiskInv, Made
<1>9. Made'
  BY <1>1, <1>3, <1>8 DEF DiskInv, Made, LibraryTypes, P!LibraryTypeOK
<1>10. Placed'
  BY <1>1, <1>3 DEF LibraryTypes, P!LibraryTypeOK, NothingIsNoWork, DiskInv, Placed
<1>11. RecordInv'
  BY <1>1, <1>3, BindingsStay, RecordsStay DEF RecordInv, PurgedIsGone, Gone
<1>12. Begun' /\ Imported'
  BY <1>1, <1>3 DEF ImportInv, Begun, Imported, P!Hidden, LibraryTypes, P!LibraryTypeOK
<1>13. Untouched'
  BY <1>1, <1>2, <1>3 DEF ImportInv, Untouched, P!Hidden, LibraryTypes, P!LibraryTypeOK
<1> QED BY <1>1, <1>4, <1>7, <1>9, <1>10, <1>11, <1>12, <1>13, NoJob, NoneOpen
     DEF LibraryInv, DiskInv, ImportInv

LEMMA BoundIs ==
  ASSUME NothingIsNoWork, LibraryInv, NEW t \in Title, t \in P!Listed, P!CanOpen(t),
         bindings' = P!Bound(t)
  PROVE  \/ UNCHANGED bindings
         \/ \E u \in Project :
              /\ bindings[u] = Nothing /\ P!BoundTo(t) = {}
              /\ bindings' = [bindings EXCEPT ![u] =
                                [title |-> t, state |-> "active", waiting |-> FALSE]]
<1>1. shelf[t] \in Work /\ identity[shelf[t]] \in Project
  BY DEF LibraryInv, LibraryTypes, P!LibraryTypeOK, P!Listed, DiskInv, Made
<1>2. CASE P!BoundTo(t) # {}
  BY <1>2 DEF P!Bound
<1>3. CASE P!BoundTo(t) = {}
  BY <1>1, <1>3 DEF P!Bound, P!CanOpen
<1> QED BY <1>2, <1>3

\* A binding made at a free title.
LEMMA BindingMade ==
  ASSUME NothingIsNoWork, LibraryTypes, RecordInv, NEW t \in Title, NEW u \in Project,
         bindings[u] = Nothing,
         \A v \in Project : bindings[v] # Nothing => bindings[v].title # t,
         bindings' = [bindings EXCEPT ![u] =
                        [title |-> t, state |-> "active", waiting |-> FALSE]],
         UNCHANGED <<cloud, bins, index>>
  PROVE  /\ RecordInv' /\ bindings' \in [Project -> {Nothing} \cup Binding]
         /\ bindings'[u] # Nothing /\ bindings'[u].title = t
         /\ \A v \in Project \ {u} : bindings'[v] = bindings[v]
<1> DEFINE b == [title |-> t, state |-> "active", waiting |-> FALSE]
<1>1. b \in Binding /\ b # Nothing /\ b.title = t /\ b.state = "active"
  <2>1. b \in Binding
    BY DEF Binding
  <2> QED BY <2>1 DEF NothingIsNoWork
<1>2. bindings \in [Project -> {Nothing} \cup Binding]
  BY DEF LibraryTypes, P!LibraryTypeOK, Binding
<1>3. bindings' = [bindings EXCEPT ![u] = b]
  OBVIOUS
<1>4. \A e \in P!Entry : index[e] # Nothing => index[e] \in Titled
  BY DEF LibraryTypes, P!LibraryTypeOK, Titled
<1> HIDE DEF b
<1>5. /\ bindings' \in [Project -> {Nothing} \cup Binding] /\ bindings'[u] = b
      /\ \A v \in Project \ {u} : bindings'[v] = bindings[v]
  BY <1>1, <1>2, <1>3
<1>6. OneTitle'
  BY <1>1, <1>5 DEF RecordInv, OneTitle
<1>7. PurgedIsGone'
  BY <1>1, <1>5 DEF RecordInv, PurgedIsGone, Gone
<1>8. P!BindingsOutliveFiles'
  BY <1>1, <1>4, <1>5 DEF RecordInv, P!BindingsOutliveFiles, P!InBin, Titled
<1>9. Listing'
  BY DEF RecordInv, Listing
<1> QED BY <1>1, <1>5, <1>6, <1>7, <1>8, <1>9 DEF RecordInv

LEMMA OpenStep ==
  ASSUME NothingIsNoWork, LibraryInv, NEW t \in Title, P!Open(t)
  PROVE  LibraryInv'
<1>1. /\ job = Nothing /\ t \in P!Listed /\ P!CanOpen(t) /\ opened' = t
      /\ bindings' = P!Bound(t)
      /\ UNCHANGED <<cloud, shelf, identity, marker, written, bins, index, imports,
                     purged, job>>
  BY DEF P!Open, P!Choosing, P!Idle
<1>2. LibraryTypes /\ DiskInv /\ RecordInv /\ ImportInv
  BY DEF LibraryInv
<1>3. /\ RecordInv' /\ bindings' \in [Project -> {Nothing} \cup Binding]
      /\ \A v \in Project : bindings[v] # Nothing => bindings'[v] = bindings[v]
  <2>1. CASE UNCHANGED bindings
    BY <1>1, <1>2, <2>1, BindingsStay, RecordsStay
       DEF RecordInv, PurgedIsGone, Gone, LibraryTypes, P!LibraryTypeOK, Binding
  <2>2. ASSUME NEW u \in Project, bindings[u] = Nothing, P!BoundTo(t) = {},
               bindings' = [bindings EXCEPT ![u] =
                              [title |-> t, state |-> "active", waiting |-> FALSE]]
        PROVE  /\ RecordInv' /\ bindings' \in [Project -> {Nothing} \cup Binding]
               /\ \A v \in Project : bindings[v] # Nothing => bindings'[v] = bindings[v]
    BY <1>1, <1>2, <2>2, BindingMade DEF P!BoundTo
  <2> QED BY <1>1, <2>1, <2>2, BoundIs
<1>4. LibraryTypes'
  BY <1>1, <1>2, <1>3 DEF LibraryTypes, P!LibraryTypeOK, Binding
<1>5. DiskInv'
  BY <1>1, <1>2, DiskStays
<1>6. OpenAlone'
  BY <1>1 DEF OpenAlone, P!Listed, P!Hidden
<1>7. Begun'
  BY <1>1, <1>2, <1>3 DEF ImportInv, Begun, P!Hidden
<1>8. Imported' /\ Untouched'
  BY <1>1, <1>2, <1>3 DEF LibraryTypes, P!LibraryTypeOK, ImportInv, Imported, Untouched,
     P!Hidden
<1> QED BY <1>1, <1>3, <1>4, <1>5, <1>6, <1>7, <1>8, NoJob DEF LibraryInv, ImportInv

LEMMA CloseStep ==
  ASSUME LibraryInv, P!Close
  PROVE  LibraryInv'
<1>1. /\ opened' = Nothing
      /\ UNCHANGED <<cloud, shelf, identity, marker, written, bins, index, bindings,
                     imports, purged, job>>
  BY DEF P!Close, P!local
<1>2. LibraryTypes /\ DiskInv /\ RecordInv /\ ImportInv /\ JobInv
  BY DEF LibraryInv
<1>3. LibraryTypes'
  BY <1>1, <1>2 DEF LibraryTypes, P!LibraryTypeOK
<1>4. RecordInv' /\ ImportInv'
  BY <1>1, <1>2, BindingsStay, RecordsStay, ImportsStay
     DEF RecordInv, PurgedIsGone, Gone, PurgedStays
<1>5. job = Nothing
  BY DEF LibraryInv, OpenAlone, P!Close
<1> QED BY <1>1, <1>2, <1>3, <1>4, <1>5, DiskStays, NoneOpen, NoJob DEF LibraryInv

LEMMA WriteStep ==
  ASSUME NothingIsNoWork, LibraryInv, P!Write
  PROVE  LibraryInv'
<1>1. /\ opened # Nothing /\ written' = written \cup {shelf[opened]}
      /\ UNCHANGED <<cloud, shelf, identity, marker, bins, index, imports, purged,
                     opened, job>>
  BY DEF P!Write
<1>2. PICK u \in P!BoundTo(opened) : bindings' = [bindings EXCEPT ![u].waiting = TRUE]
  BY DEF P!Write
<1>3. LibraryTypes /\ DiskInv /\ RecordInv /\ ImportInv
  BY DEF LibraryInv
<1>4. /\ job = Nothing /\ opened \in Title /\ shelf[opened] \in Work
      /\ identity[shelf[opened]] # Nothing /\ ~ P!Hidden(shelf[opened])
  BY <1>1, <1>3 DEF LibraryInv, OpenAlone, LibraryTypes, P!LibraryTypeOK, DiskInv, Made
<1>5. u \in Project /\ bindings[u] # Nothing
  BY <1>2 DEF P!BoundTo
<1> DEFINE b == [bindings[u] EXCEPT !.waiting = TRUE]
<1>6. bindings \in [Project -> {Nothing} \cup Binding] /\ Nothing \notin Binding
  BY <1>3 DEF LibraryTypes, P!LibraryTypeOK, Binding, NothingIsNoWork
<1>7. b \in Binding /\ b.title = bindings[u].title /\ b.state = bindings[u].state
  BY <1>5, <1>6 DEF Binding
<1>8. bindings' = [bindings EXCEPT ![u] = b]
  BY <1>2
<1> HIDE DEF b
<1>9. bindings' \in [Project -> {Nothing} \cup Binding] /\ TitlesStay
  BY <1>5, <1>6, <1>7, <1>8 DEF TitlesStay
<1>10. \A v \in Project : /\ bindings'[v] = Nothing <=> bindings[v] = Nothing
                          /\ bindings[v] # Nothing => bindings'[v].state = bindings[v].state
  BY <1>5, <1>6, <1>7, <1>8
<1>11. RecordInv'
  BY <1>1, <1>3, <1>9, <1>10, RecordsStay DEF RecordInv, PurgedIsGone, Gone
<1>12. LibraryTypes'
  BY <1>1, <1>3, <1>4, <1>9 DEF LibraryTypes, P!LibraryTypeOK, Binding
<1>13. Begun'
  BY <1>1, <1>3, <1>9 DEF LibraryTypes, P!LibraryTypeOK, ImportInv, Begun, TitlesStay,
     P!Hidden
<1>14. Imported'
  BY <1>1, <1>3, <1>9 DEF LibraryTypes, P!LibraryTypeOK, ImportInv, Imported, TitlesStay
<1>15. Untouched'
  BY <1>1, <1>3, <1>4 DEF ImportInv, Untouched, P!Hidden
<1>16. OpenAlone'
  BY <1>1 DEF LibraryInv, OpenAlone, P!Hidden
<1> QED BY <1>1, <1>3, <1>4, <1>11, <1>12, <1>13, <1>14, <1>15, <1>16, DiskStays, NoJob
     DEF LibraryInv, ImportInv

LEMMA SyncStep ==
  ASSUME NothingIsNoWork, LibraryInv, P!Sync
  PROVE  /\ LibraryInv'
         /\ \A v \in Project : P!KnownPurged(v) => P!KnownPurged(v)'
<1>1. /\ opened # Nothing
      /\ UNCHANGED <<shelf, identity, marker, written, bins, index, imports, purged,
                     opened, job>>
  BY DEF P!Sync
<1> DEFINE told(v) == IF cloud[v] = "absent" THEN "active" ELSE cloud[v]
<1>2. PICK u \in P!BoundTo(opened) :
        /\ cloud' = [cloud EXCEPT ![u] = told(u)]
        /\ bindings' = [bindings EXCEPT ![u].state = told(u),
                                        ![u].waiting = @ /\ told(u) # "active"]
  BY DEF P!Sync
<1>3. LibraryTypes /\ DiskInv /\ RecordInv /\ ImportInv
  BY DEF LibraryInv
<1>4. u \in Project /\ bindings[u] # Nothing
  BY <1>2 DEF P!BoundTo
<1>5. /\ bindings \in [Project -> {Nothing} \cup Binding] /\ Nothing \notin Binding
      /\ cloud \in [Project -> {"absent", "active", "trashed", "purged"}]
  BY <1>3 DEF LibraryTypes, P!LibraryTypeOK, Binding, NothingIsNoWork
<1>6. /\ told(u) \in {"active", "trashed", "purged"}
      /\ told(u) = "purged" <=> cloud[u] = "purged"
  BY <1>4, <1>5
<1> DEFINE s == told(u)
<1>7. /\ cloud' = [cloud EXCEPT ![u] = s]
      /\ bindings' = [bindings EXCEPT ![u].state = s, ![u].waiting = @ /\ s # "active"]
  BY <1>2
<1>8. s \in {"active", "trashed", "purged"} /\ (s = "purged" <=> cloud[u] = "purged")
  BY <1>6
<1> HIDE DEF s, told
<1> DEFINE b == [bindings[u] EXCEPT !.state = s]
           c == [b EXCEPT !.waiting = @ /\ s # "active"]
<1>9. b \in Binding /\ b.title = bindings[u].title /\ b.state = s
  BY <1>4, <1>5, <1>8 DEF Binding
<1>10. c \in Binding /\ c.title = b.title /\ c.state = b.state
  <2> HIDE DEF b
  <2> QED BY <1>9 DEF Binding
<1>11. bindings' = [bindings EXCEPT ![u] = c]
  BY <1>4, <1>5, <1>7
<1> HIDE DEF c
<1>12. c.title = bindings[u].title /\ c.state = s
  BY <1>9, <1>10
<1> HIDE DEF b
<1>13. bindings' \in [Project -> {Nothing} \cup Binding] /\ TitlesStay
  BY <1>4, <1>5, <1>10, <1>11, <1>12 DEF TitlesStay
<1>14. \A v \in Project : bindings[v] # Nothing =>
         bindings'[v].state = IF v = u THEN s ELSE bindings[v].state
  BY <1>4, <1>5, <1>11, <1>12
<1>15. /\ cloud' \in [Project -> {"absent", "active", "trashed", "purged"}]
       /\ cloud'[u] = s /\ \A v \in Project \ {u} : cloud'[v] = cloud[v]
  BY <1>4, <1>5, <1>7, <1>8
<1>16. PurgedIsGone'
  BY <1>3, <1>8, <1>13, <1>14, <1>15 DEF RecordInv, PurgedIsGone, Gone, TitlesStay
<1>17. PurgedStays
  BY <1>8, <1>15 DEF PurgedStays
<1>18. RecordInv' /\ ImportInv' /\ DiskInv'
  BY <1>1, <1>3, <1>13, <1>16, <1>17, RecordsStay, ImportsStay, DiskStays
<1>19. LibraryTypes'
  BY <1>1, <1>3, <1>13, <1>15 DEF LibraryTypes, P!LibraryTypeOK, Binding
<1>20. OpenAlone' /\ job' = Nothing
  BY <1>1 DEF LibraryInv, OpenAlone, P!Hidden
<1>21. \A v \in Project : P!KnownPurged(v) => P!KnownPurged(v)'
  BY <1>8, <1>13, <1>14, <1>15 DEF P!KnownPurged, TitlesStay
<1> QED BY <1>18, <1>19, <1>20, <1>21, NoJob DEF LibraryInv

LEMMA RenameStep ==
  ASSUME NothingIsNoWork, LibraryInv, NEW t \in Title, NEW new \in Title, P!Rename(t, new)
  PROVE  LibraryInv'
<1>1. /\ job = Nothing /\ opened = Nothing /\ t \in P!Listed /\ shelf[new] = Nothing
      /\ shelf' = [shelf EXCEPT ![new] = shelf[t], ![t] = Nothing]
      /\ UNCHANGED <<cloud, identity, marker, written, bins, index, bindings, imports,
                     purged, opened, job>>
  BY DEF P!Rename, P!Act, P!Choosing, P!Idle
<1>2. LibraryTypes /\ DiskInv /\ RecordInv /\ ImportInv
  BY DEF LibraryInv
<1>3. /\ shelf \in [Title -> Work \cup {Nothing}] /\ shelf[t] # Nothing /\ t # new
      /\ ~ P!Hidden(shelf[t])
  BY <1>1, <1>2 DEF LibraryTypes, P!LibraryTypeOK, P!Listed
<1>4. /\ shelf' \in [Title -> Work \cup {Nothing}]
      /\ shelf'[new] = shelf[t] /\ shelf'[t] = Nothing
      /\ \A v \in Title \ {t, new} : shelf'[v] = shelf[v]
  BY <1>1, <1>3
<1>5. LibraryTypes'
  BY <1>1, <1>2, <1>4 DEF LibraryTypes, P!LibraryTypeOK
<1>6. Apart'
  BY <1>1, <1>2, <1>3, <1>4 DEF DiskInv, Apart
<1>7. Made'
  BY <1>1, <1>2, <1>3, <1>4 DEF DiskInv, Made
<1>8. Placed'
  BY <1>1, <1>2, <1>3, <1>4 DEF DiskInv, Placed
<1>9. RecordInv'
  BY <1>1, <1>2, BindingsStay, RecordsStay DEF RecordInv, PurgedIsGone, Gone
<1>10. Begun'
  BY <1>1, <1>2, <1>3, <1>4 DEF LibraryTypes, P!LibraryTypeOK, ImportInv, Begun, P!Hidden
<1>11. Imported' /\ Untouched'
  BY <1>1, <1>2 DEF ImportInv, Imported, Untouched, P!Hidden
<1> QED BY <1>1, <1>5, <1>6, <1>7, <1>8, <1>9, <1>10, <1>11, NoJob, NoneOpen
     DEF LibraryInv, DiskInv, ImportInv

-----------------------------------------------------------------------------
(* To the trash *)

Rows == [Project -> {"absent", "active", "trashed", "purged"}]

\* What the server has lost stays lost.
GoneStays == \A u \in Project : Gone(u) => Gone(u)'

\* An answer, or none.
LEMMA AnswerIs ==
  ASSUME LibraryInv, NEW r \in {"trash", "restore", "purge"}, job.project \in Project,
         P!Answered(r) \/ UNCHANGED cloud, UNCHANGED bindings
  PROVE  cloud' \in Rows /\ PurgedStays /\ GoneStays /\ PurgedIsGone'
<1>1. cloud \in Rows
  BY DEF LibraryInv, LibraryTypes, P!LibraryTypeOK, Rows
<1>2. CASE UNCHANGED cloud
  BY <1>1, <1>2 DEF LibraryInv, RecordInv, PurgedIsGone, PurgedStays, GoneStays, Gone
<1>3. CASE P!Answered(r)
  <2>1. /\ cloud[job.project] \in P!Accepts[r]
        /\ cloud' = [cloud EXCEPT ![job.project] = P!Result[r]]
    BY <1>3 DEF P!Answered
  <2>2. /\ P!Result[r] \in {"active", "trashed", "purged"}
        /\ cloud[job.project] # "absent"
        /\ cloud[job.project] = "purged" => P!Result[r] = "purged"
    BY <2>1 DEF P!Accepts, P!Result
  <2>3. cloud' \in Rows /\ PurgedStays /\ GoneStays
    BY <1>1, <2>1, <2>2 DEF Rows, PurgedStays, GoneStays, Gone
  <2>4. PurgedIsGone'
    BY <2>3 DEF LibraryInv, RecordInv, PurgedIsGone, GoneStays
  <2> QED BY <2>3, <2>4
<1> QED BY <1>2, <1>3

LEMMA JobAlone ==
  ASSUME LibraryInv, job # Nothing
  PROVE  opened = Nothing
BY DEF LibraryInv, OpenAlone

\* Where a step changes nothing on this device but its job.
LEMMA OnlyTheJob ==
  ASSUME LibraryInv, UNCHANGED P!local, opened' = Nothing,
         cloud' \in Rows, PurgedStays, PurgedIsGone', job' \in {Nothing} \cup Jobs
  PROVE  LibraryTypes' /\ DiskInv' /\ RecordInv' /\ OpenAlone' /\ ImportInv'
<1>1. UNCHANGED <<shelf, identity, marker, written, bins, index, bindings, imports, purged>>
  BY DEF P!local
<1>2. LibraryTypes /\ DiskInv /\ RecordInv /\ ImportInv
  BY DEF LibraryInv
<1>3. LibraryTypes'
  BY <1>1, <1>2 DEF LibraryTypes, P!LibraryTypeOK, Rows
<1>4. RecordInv'
  BY <1>1, <1>2, BindingsStay, RecordsStay
<1>5. ImportInv'
  BY <1>1, <1>2, BindingsStay, ImportsStay
<1>6. DiskInv'
  BY <1>1, <1>2, DiskStays
<1> QED BY <1>3, <1>4, <1>5, <1>6, NoneOpen

LEMMA CloudStays ==
  ASSUME LibraryInv, UNCHANGED <<cloud, bindings>>
  PROVE  cloud' \in Rows /\ PurgedStays /\ GoneStays /\ PurgedIsGone'
BY DEF LibraryInv, LibraryTypes, P!LibraryTypeOK, Rows, PurgedStays, GoneStays, Gone,
       RecordInv, PurgedIsGone

LEMMA TrashWorkStep ==
  ASSUME NothingIsNoWork, LibraryInv, NEW t \in Title, P!TrashWork(t)
  PROVE  LibraryInv'
<1>1. /\ job = Nothing /\ opened = Nothing /\ t \in P!Listed
      /\ UNCHANGED <<cloud, shelf, identity, marker, written, bins, bindings, imports,
                     purged, opened>>
  BY DEF P!TrashWork, P!Act, P!Choosing, P!Idle
<1>2. LibraryTypes /\ DiskInv /\ RecordInv /\ ImportInv
  BY DEF LibraryInv
<1>3. /\ shelf[t] \in Work /\ ~ P!Hidden(shelf[t])
      /\ index \in [P!Entry -> {Nothing} \cup Titled]
  BY <1>1, <1>2 DEF LibraryTypes, P!LibraryTypeOK, P!Listed, Titled
<1>4. PICK u \in IF P!Reachable(t) = {} THEN {Nothing} ELSE P!Reachable(t) :
        \E e \in {IF u = Nothing THEN shelf[t] ELSE u} :
          /\ bins[e] = Nothing
          /\ index' = [index EXCEPT ![e] = [title |-> t, project |-> u]]
          /\ P!Start("trash", IF u = Nothing THEN "move" ELSE "ask", e, u, t)
  BY DEF P!TrashWork
<1>5. IF P!Reachable(t) = {} THEN u = Nothing ELSE u \in P!Reachable(t) /\ u # Nothing
  BY <1>4 DEF NothingIsNoWork, P!Reachable, P!BoundTo
<1>6. PICK e \in {IF u = Nothing THEN shelf[t] ELSE u} :
        /\ bins[e] = Nothing
        /\ index' = [index EXCEPT ![e] = [title |-> t, project |-> u]]
        /\ P!Start("trash", IF u = Nothing THEN "move" ELSE "ask", e, u, t)
  BY <1>4
<1>7. u \in Project \cup {Nothing} /\ e \in P!Entry /\ (u # Nothing => e = u)
  BY <1>3, <1>5, <1>6 DEF P!Reachable, P!BoundTo, P!Entry
<1> DEFINE r == [title |-> t, project |-> u]
<1>8. r \in Titled /\ r.title = t /\ r.project = u
  BY <1>7 DEF Titled
<1>9. r # Nothing
  BY <1>8 DEF NothingIsNoWork
<1>10. index' = [index EXCEPT ![e] = r]
  BY <1>6
<1> HIDE DEF r
<1>11. /\ index' \in [P!Entry -> {Nothing} \cup Titled] /\ index'[e] = r
       /\ \A f \in P!Entry \ {e} : index'[f] = index[f]
  BY <1>3, <1>7, <1>8, <1>10
<1>12. /\ job' \in Jobs /\ job'.kind = "trash" /\ job'.entry = e /\ job'.project = u
       /\ job'.title = t /\ job'.step = IF u = Nothing THEN "move" ELSE "ask"
  BY <1>6, <1>7 DEF P!Start, Jobs, Steps
<1>13. LibraryTypes'
  BY <1>1, <1>2, <1>11, <1>12 DEF LibraryTypes, P!LibraryTypeOK, Titled
<1>14. RecordInv'
  <2>1. Listing'
    BY <1>1, <1>2, <1>7, <1>8, <1>9, <1>11 DEF RecordInv, Listing
  <2>2. P!BindingsOutliveFiles'
    BY <1>1, <1>2, <1>6, <1>11 DEF RecordInv, P!BindingsOutliveFiles, P!InBin
  <2> QED BY <1>1, <1>2, <2>1, <2>2 DEF RecordInv, OneTitle, PurgedIsGone, Gone
<1>15. ImportInv'
  BY <1>1, <1>2, BindingsStay, ImportsStay DEF PurgedStays
<1>16. TrashFits'
  <2>1. u # Nothing => u \in P!BoundTo(t)
    BY <1>5 DEF P!Reachable
  <2>2. u = Nothing => \A v \in P!BoundTo(t) : Gone(v)
    BY <1>2, <1>5 DEF RecordInv, PurgedIsGone, P!Reachable, P!BoundTo
  <2>3. \A v : v \in P!BoundTo(t)' <=> v \in P!BoundTo(t)
    BY <1>1 DEF P!BoundTo
  <2>4. \A v \in P!BoundTo(t) : Gone(v) => Gone(v)'
    BY <1>1 DEF Gone
  <2>5. ~ P!Hidden(shelf[t])'
    BY <1>1, <1>3 DEF P!Hidden
  <2>6. bins'[e] = Nothing /\ shelf'[t] # Nothing
    BY <1>1, <1>3, <1>6 DEF NothingIsNoWork
  <2>7. job'.step # "record"
    BY <1>12
  <2>8. job'.step = "ask" => u # Nothing
    BY <1>12
  <2> QED BY <1>8, <1>9, <1>11, <1>12, <2>1, <2>2, <2>3, <2>4, <2>5, <2>6, <2>7, <2>8
       DEF TrashFits
<1>17. JobInv'
  BY <1>12, <1>16 DEF JobInv, AnswerFits, RestoreFits, PurgeFits, ImportFits
<1> QED BY <1>1, <1>2, <1>13, <1>14, <1>15, <1>17, DiskStays, NoneOpen DEF LibraryInv

LEMMA TrashAskStep ==
  ASSUME NothingIsNoWork, LibraryInv, P!TrashAsk
  PROVE  LibraryInv'
<1>1. /\ P!At("trash", "ask") /\ P!Answered("trash") /\ P!GoOn("record")
      /\ UNCHANGED P!local /\ UNCHANGED opened
      /\ UNCHANGED <<shelf, marker, bins, index, bindings>>
  BY DEF P!TrashAsk, P!local
<1>2. LibraryTypes /\ TrashFits
  BY DEF LibraryInv, JobInv
<1>3. /\ job # Nothing /\ job \in Jobs /\ job.kind = "trash" /\ job.step = "ask"
      /\ job.entry \in P!Entry /\ opened = Nothing
  BY <1>1, <1>2, JobOf, JobAlone
<1>4. /\ job' \in Jobs /\ job'.kind = "trash" /\ job'.step = "record"
      /\ job'.entry = job.entry /\ job'.project = job.project /\ job'.title = job.title
  BY <1>1, <1>3, JobGoesOn DEF Steps
<1>5. job.project \in P!BoundTo(job.title) /\ job.project \in Project
  BY <1>2, <1>3 DEF TrashFits, P!BoundTo
<1>6. cloud' \in Rows /\ PurgedStays /\ GoneStays /\ PurgedIsGone'
  BY <1>1, <1>5, AnswerIs
<1>7. bindings[job.project].state # "purged"
  <2>1. cloud[job.project] \in {"active", "trashed"}
    BY <1>1 DEF P!Answered, P!Accepts
  <2> QED BY <1>5, <2>1 DEF LibraryInv, RecordInv, PurgedIsGone, Gone, P!BoundTo
<1>8. TrashFits'
  BY <1>1, <1>2, <1>3, <1>4, <1>7 DEF P!BoundTo, TrashFits, P!Hidden
<1>9. JobInv'
  BY <1>4, <1>8 DEF JobInv, AnswerFits, RestoreFits, PurgeFits, ImportFits
<1> QED BY <1>1, <1>3, <1>4, <1>6, <1>9, OnlyTheJob DEF LibraryInv

LEMMA TrashGoneStep ==
  ASSUME NothingIsNoWork, LibraryInv, P!TrashGone
  PROVE  LibraryInv'
<1>1. /\ P!At("trash", "ask") /\ cloud[job.project] \in {"purged", "absent"}
      /\ index' = [index EXCEPT ![job.entry].project = Nothing] /\ P!GoOn("move")
      /\ UNCHANGED <<cloud, shelf, identity, marker, written, bins, bindings, imports,
                     purged, opened>>
  BY DEF P!TrashGone
<1>2. LibraryTypes /\ DiskInv /\ RecordInv /\ ImportInv /\ TrashFits
  BY DEF LibraryInv, JobInv
<1>3. /\ job # Nothing /\ job \in Jobs /\ job.kind = "trash" /\ job.step = "ask"
      /\ job.entry \in P!Entry /\ opened = Nothing
  BY <1>1, <1>2, JobOf, JobAlone
<1>4. /\ job' \in Jobs /\ job'.kind = "trash" /\ job'.step = "move"
      /\ job'.entry = job.entry /\ job'.project = job.project /\ job'.title = job.title
  BY <1>1, <1>3, JobGoesOn DEF Steps
<1> DEFINE e == job.entry
           r == [index[e] EXCEPT !.project = Nothing]
<1>5. /\ index \in [P!Entry -> {Nothing} \cup Titled] /\ e \in P!Entry /\ index[e] # Nothing
      /\ index[e].title = job.title /\ bins[e] = Nothing
  BY <1>2, <1>3 DEF LibraryTypes, P!LibraryTypeOK, Titled, TrashFits
<1>6. r \in Titled /\ r.title = job.title /\ r.project = Nothing
  BY <1>5 DEF Titled
<1>7. r # Nothing
  BY <1>6 DEF NothingIsNoWork
<1>8. index' = [index EXCEPT ![e] = r]
  BY <1>1
<1> HIDE DEF r, e
<1>9. /\ index' \in [P!Entry -> {Nothing} \cup Titled] /\ index'[e] = r
      /\ \A f \in P!Entry \ {e} : index'[f] = index[f]
  BY <1>5, <1>6, <1>8
<1>10. LibraryTypes'
  BY <1>1, <1>2, <1>4, <1>9 DEF LibraryTypes, P!LibraryTypeOK, Titled
<1>11. RecordInv'
  <2>1. Listing'
    BY <1>1, <1>2, <1>5, <1>6, <1>7, <1>9 DEF RecordInv, Listing
  <2>2. P!BindingsOutliveFiles'
    BY <1>1, <1>2, <1>5, <1>9 DEF RecordInv, P!BindingsOutliveFiles, P!InBin
  <2> QED BY <1>1, <1>2, <2>1, <2>2 DEF RecordInv, OneTitle, PurgedIsGone, Gone
<1>12. ImportInv'
  BY <1>1, <1>2, BindingsStay, ImportsStay DEF PurgedStays
<1>13. TrashFits'
  <2>1. \A v : v \in P!BoundTo(job.title)' <=> v \in P!BoundTo(job.title)
    BY <1>1, <1>4 DEF P!BoundTo
  <2>2. \A v \in P!BoundTo(job.title) : v = job.project
    BY <1>2, <1>3 DEF RecordInv, OneTitle, TrashFits, P!BoundTo
  <2>3. \A v \in P!BoundTo(job.title) : Gone(v)'
    BY <1>1, <2>2 DEF Gone
  <2>4. shelf'[job.title] # Nothing /\ ~ P!Hidden(shelf[job.title])'
    BY <1>1, <1>2, <1>3, <1>4 DEF TrashFits, P!Hidden
  <2>5. job.title \in Title /\ (job.project # Nothing => job.project \in P!BoundTo(job.title))
    BY <1>2, <1>3 DEF TrashFits
  <2> QED BY <1>1, <1>4, <1>5, <1>6, <1>7, <1>9, <2>1, <2>3, <2>4, <2>5 DEF TrashFits, e
<1>14. JobInv'
  BY <1>4, <1>13 DEF JobInv, AnswerFits, RestoreFits, PurgeFits, ImportFits
<1> QED BY <1>1, <1>2, <1>3, <1>10, <1>11, <1>12, <1>14, DiskStays, NoneOpen DEF LibraryInv

LEMMA TrashLostStep ==
  ASSUME NothingIsNoWork, LibraryInv, P!TrashLost
  PROVE  LibraryInv'
<1>1. /\ P!Answered("trash") \/ UNCHANGED cloud
      /\ index' = [index EXCEPT ![job.entry] = Nothing] /\ job' = Nothing
      /\ UNCHANGED <<shelf, identity, marker, written, bins, bindings, imports, purged,
                     opened>>
  BY DEF P!TrashLost, P!Lost, P!Done
<1>2. LibraryTypes /\ DiskInv /\ RecordInv /\ ImportInv /\ TrashFits
  BY DEF LibraryInv, JobInv
<1>3. /\ job # Nothing /\ job \in Jobs /\ job.kind = "trash" /\ job.step = "ask"
      /\ job.entry \in P!Entry /\ opened = Nothing
  BY <1>2, JobOf, JobAlone DEF P!TrashLost
<1>4. job.project \in Project /\ bins[job.entry] = Nothing
  BY <1>2, <1>3 DEF TrashFits, P!BoundTo
<1>5. cloud' \in Rows /\ PurgedStays /\ PurgedIsGone'
  BY <1>1, <1>4, AnswerIs
<1>6. /\ index' \in [P!Entry -> {Nothing} \cup Titled] /\ index'[job.entry] = Nothing
      /\ \A f \in P!Entry \ {job.entry} : index'[f] = index[f]
  BY <1>1, <1>2, <1>3 DEF LibraryTypes, P!LibraryTypeOK, Titled
<1>7. LibraryTypes'
  BY <1>1, <1>2, <1>5, <1>6 DEF LibraryTypes, P!LibraryTypeOK, Titled, Rows
<1>8. RecordInv'
  BY <1>1, <1>2, <1>4, <1>5, <1>6 DEF RecordInv, Listing, P!BindingsOutliveFiles, P!InBin,
     OneTitle
<1>9. ImportInv'
  BY <1>1, <1>2, <1>5, BindingsStay, ImportsStay
<1> QED BY <1>1, <1>2, <1>3, <1>7, <1>8, <1>9, DiskStays, NoneOpen, NoJob DEF LibraryInv

\* A step that tells the binding of the job's project a state.
LEMMA ToldStep ==
  ASSUME NothingIsNoWork, LibraryInv, job # Nothing, TitlesStay,
         bindings' \in [Project -> {Nothing} \cup Binding], PurgedIsGone',
         job' \in {Nothing} \cup Jobs,
         UNCHANGED <<cloud, shelf, identity, marker, written, bins, index, imports, purged,
                     opened>>
  PROVE  LibraryTypes' /\ DiskInv' /\ RecordInv' /\ OpenAlone' /\ ImportInv'
<1>1. LibraryTypes /\ DiskInv /\ RecordInv /\ ImportInv
  BY DEF LibraryInv
<1>2. LibraryTypes'
  BY <1>1 DEF LibraryTypes, P!LibraryTypeOK, Binding
<1>3. RecordInv' /\ ImportInv' /\ DiskInv'
  BY <1>1, RecordsStay, ImportsStay, DiskStays DEF PurgedStays
<1> QED BY <1>2, <1>3, JobAlone, NoneOpen

\* The answer to a trashing or a restoring is no news of a purge.
LEMMA RecordedIs ==
  ASSUME NothingIsNoWork, LibraryInv, NEW r \in {"trash", "restore"}, P!Recorded(r),
         job.project \in Project, UNCHANGED cloud,
         bindings[job.project] # Nothing => bindings[job.project].state # "purged"
  PROVE  /\ TitlesStay /\ bindings' \in [Project -> {Nothing} \cup Binding] /\ PurgedIsGone'
         /\ \A v \in Project : bindings[v] # Nothing =>
              (bindings'[v].state = "purged" <=> bindings[v].state = "purged")
<1>1. P!Result[r] \in {"active", "trashed"}
  BY DEF P!Result
<1>2. bindings' = P!WithState(job.project, P!Result[r])
  BY DEF P!Recorded
<1>3. /\ TitlesStay /\ bindings' \in [Project -> {Nothing} \cup Binding]
      /\ \A v \in Project : bindings[v] # Nothing =>
           bindings'[v].state = IF v = job.project THEN P!Result[r] ELSE bindings[v].state
  BY <1>1, <1>2, BindingTold DEF LibraryInv
<1>4. \A v \in Project : bindings[v] # Nothing =>
        (bindings'[v].state = "purged" <=> bindings[v].state = "purged")
  BY <1>1, <1>3
<1>5. PurgedIsGone'
  BY <1>3, <1>4 DEF LibraryInv, RecordInv, PurgedIsGone, Gone, TitlesStay
<1> QED BY <1>3, <1>4, <1>5

LEMMA TrashRecordStep ==
  ASSUME NothingIsNoWork, LibraryInv, P!TrashRecord
  PROVE  /\ LibraryInv'
         /\ \A v \in Project : P!KnownPurged(v) => P!KnownPurged(v)'
<1>1. /\ P!At("trash", "record") /\ P!Recorded("trash") /\ P!GoOn("move")
      /\ UNCHANGED <<cloud, shelf, identity, marker, written, bins, index, imports, purged,
                     opened>>
  BY DEF P!TrashRecord
<1>2. LibraryTypes /\ TrashFits
  BY DEF LibraryInv, JobInv
<1>3. /\ job # Nothing /\ job \in Jobs /\ job.kind = "trash" /\ job.step = "record"
      /\ job.entry \in P!Entry
  BY <1>1, <1>2, JobOf
<1>4. /\ job' \in Jobs /\ job'.kind = "trash" /\ job'.step = "move"
      /\ job'.entry = job.entry /\ job'.project = job.project /\ job'.title = job.title
  BY <1>1, <1>3, JobGoesOn DEF Steps
<1>5. /\ job.project \in P!BoundTo(job.title) /\ job.project \in Project
      /\ bindings[job.project].state # "purged"
  BY <1>2, <1>3 DEF TrashFits, P!BoundTo
<1>6. /\ TitlesStay /\ bindings' \in [Project -> {Nothing} \cup Binding] /\ PurgedIsGone'
      /\ \A v \in Project : bindings[v] # Nothing =>
           (bindings'[v].state = "purged" <=> bindings[v].state = "purged")
  BY <1>1, <1>5, RecordedIs
<1>7. TrashFits'
  BY <1>1, <1>2, <1>3, <1>4, <1>6 DEF P!BoundTo, TitlesStay, TrashFits, P!Hidden
<1>8. JobInv'
  BY <1>4, <1>7 DEF JobInv, AnswerFits, RestoreFits, PurgeFits, ImportFits
<1>9. \A v \in Project : P!KnownPurged(v) => P!KnownPurged(v)'
  BY <1>1, <1>6 DEF P!KnownPurged, TitlesStay
<1> QED BY <1>1, <1>3, <1>4, <1>6, <1>8, <1>9, ToldStep DEF LibraryInv

LEMMA TrashMoveStep ==
  ASSUME NothingIsNoWork, LibraryInv, P!TrashMove
  PROVE  LibraryInv'
<1>1. /\ P!At("trash", "move")
      /\ bins' = [bins EXCEPT ![job.entry] = shelf[job.title]]
      /\ shelf' = [shelf EXCEPT ![job.title] = Nothing] /\ P!GoOn("finish")
      /\ UNCHANGED <<cloud, identity, marker, written, index, bindings, imports, purged,
                     opened>>
  BY DEF P!TrashMove
<1>2. LibraryTypes /\ DiskInv /\ RecordInv /\ ImportInv /\ TrashFits
  BY DEF LibraryInv, JobInv
<1>3. /\ job # Nothing /\ job \in Jobs /\ job.kind = "trash" /\ job.step = "move"
      /\ job.entry \in P!Entry /\ opened = Nothing
  BY <1>1, <1>2, JobOf, JobAlone
<1>4. /\ job' \in Jobs /\ job'.kind = "trash" /\ job'.step = "finish"
      /\ job'.entry = job.entry /\ job'.project = job.project /\ job'.title = job.title
  BY <1>1, <1>3, JobGoesOn DEF Steps
<1> DEFINE e == job.entry
           t == job.title
<1>5. /\ t \in Title /\ e \in P!Entry /\ bins[e] = Nothing /\ shelf[t] # Nothing
      /\ ~ P!Hidden(shelf[t]) /\ index[e] # Nothing /\ index[e].title = t
      /\ index[e].project # Nothing => index[e].project \in P!BoundTo(t)
  BY <1>2, <1>3 DEF TrashFits
<1>6. bins' = [bins EXCEPT ![e] = shelf[t]] /\ shelf' = [shelf EXCEPT ![t] = Nothing]
  BY <1>1
<1> HIDE DEF e, t
<1>7. /\ shelf \in [Title -> Work \cup {Nothing}] /\ bins \in [P!Entry -> Work \cup {Nothing}]
  BY <1>2 DEF LibraryTypes, P!LibraryTypeOK
<1>8. /\ shelf' \in [Title -> Work \cup {Nothing}] /\ bins' \in [P!Entry -> Work \cup {Nothing}]
      /\ shelf'[t] = Nothing /\ bins'[e] = shelf[t]
      /\ \A v \in Title \ {t} : shelf'[v] = shelf[v]
      /\ \A f \in P!Entry \ {e} : bins'[f] = bins[f]
  BY <1>5, <1>6, <1>7
<1>9. LibraryTypes'
  BY <1>1, <1>2, <1>4, <1>8 DEF LibraryTypes, P!LibraryTypeOK
<1>10. Apart'
  BY <1>2, <1>5, <1>8 DEF DiskInv, Apart
<1>11. Made'
  BY <1>1, <1>2, <1>5, <1>8 DEF DiskInv, Made
<1>12. Placed'
  BY <1>1, <1>2, <1>5, <1>8 DEF DiskInv, Placed
<1>13. RecordInv'
  <2>1. Listing'
    BY <1>1, <1>2, <1>5, <1>8 DEF RecordInv, Listing
  <2>2. P!BindingsOutliveFiles'
    BY <1>1, <1>2, <1>5, <1>8 DEF RecordInv, P!BindingsOutliveFiles, P!InBin, P!BoundTo
  <2> QED BY <1>1, <1>2, <2>1, <2>2 DEF RecordInv, OneTitle, PurgedIsGone, Gone
<1>14. ImportInv'
  <2>1. \A v \in Project : bindings[v] # Nothing => bindings[v].title \in Title
    BY <1>2 DEF LibraryTypes, P!LibraryTypeOK
  <2>2. Begun'
    BY <1>1, <1>2, <1>5, <1>8, <2>1 DEF ImportInv, Begun, P!Hidden
  <2> QED BY <1>1, <1>2, <2>2 DEF ImportInv, Imported, Untouched, P!Hidden
<1>15. TrashFits'
  BY <1>1, <1>2, <1>3, <1>4 DEF P!BoundTo, Gone, TrashFits
<1>16. JobInv'
  BY <1>4, <1>15 DEF JobInv, AnswerFits, RestoreFits, PurgeFits, ImportFits
<1> QED BY <1>1, <1>3, <1>9, <1>10, <1>11, <1>12, <1>13, <1>14, <1>16, NoneOpen
     DEF LibraryInv, DiskInv

LEMMA TrashFinishStep ==
  ASSUME NothingIsNoWork, LibraryInv, P!TrashFinish
  PROVE  /\ LibraryInv'
         /\ \A v \in Project : P!KnownPurged(v) => P!KnownPurged(v)'
<1>1. /\ P!At("trash", "finish") /\ job' = Nothing
      /\ UNCHANGED <<cloud, shelf, identity, marker, written, bins, index, imports, purged,
                     opened>>
  BY DEF P!TrashFinish, P!Done
<1>2. LibraryTypes /\ TrashFits
  BY DEF LibraryInv, JobInv
<1>3. job # Nothing /\ job.kind = "trash"
  BY <1>1, <1>2, JobOf
<1>4. /\ bindings \in [Project -> {Nothing} \cup Binding] /\ Nothing \notin Binding
  BY <1>2 DEF LibraryTypes, P!LibraryTypeOK, Binding, NothingIsNoWork
<1> DEFINE told(u) == [bindings[u] EXCEPT !.state = "purged"]
<1>5. \A u \in Project : bindings[u] # Nothing =>
        told(u) \in Binding /\ told(u).title = bindings[u].title /\ told(u).state = "purged"
  BY <1>4 DEF Binding
<1>6. CASE index[job.entry].project # Nothing
  <2>1. UNCHANGED bindings
    BY <1>6 DEF P!TrashFinish
  <2>2. TitlesStay /\ PurgedIsGone' /\ bindings' \in [Project -> {Nothing} \cup Binding]
    BY <1>1, <1>4, <2>1, BindingsStay, CloudStays
  <2> QED BY <1>1, <1>3, <2>1, <2>2, ToldStep, NoJob DEF LibraryInv, P!KnownPurged
<1>7. CASE index[job.entry].project = Nothing
  <2>1. \A u \in P!BoundTo(job.title) : Gone(u)
    BY <1>2, <1>3, <1>7 DEF TrashFits
  <2>2. bindings' = [u \in Project |-> IF u \in P!BoundTo(job.title) THEN told(u)
                                       ELSE bindings[u]]
    BY <1>7 DEF P!TrashFinish
  <2> HIDE DEF told
  <2>3. \A u \in P!BoundTo(job.title) : u \in Project /\ bindings[u] # Nothing
    BY DEF P!BoundTo
  <2>4. TitlesStay /\ bindings' \in [Project -> {Nothing} \cup Binding]
    BY <1>4, <1>5, <2>2, <2>3 DEF TitlesStay
  <2>5. \A u \in Project : bindings[u] # Nothing =>
          bindings'[u].state = IF u \in P!BoundTo(job.title) THEN "purged"
                               ELSE bindings[u].state
    BY <1>5, <2>2
  <2>6. PurgedIsGone'
    BY <1>1, <2>1, <2>3, <2>4, <2>5 DEF LibraryInv, RecordInv, PurgedIsGone, Gone, TitlesStay
  <2>7. \A v \in Project : P!KnownPurged(v) => P!KnownPurged(v)'
    BY <1>1, <2>4, <2>5 DEF P!KnownPurged, TitlesStay
  <2> QED BY <1>1, <1>3, <2>4, <2>6, <2>7, ToldStep, NoJob DEF LibraryInv
<1> QED BY <1>6, <1>7

LEMMA TrashServerStep ==
  ASSUME NothingIsNoWork, LibraryInv, NEW u \in Project, P!TrashServer(u)
  PROVE  LibraryInv'
<1>1. /\ opened = Nothing /\ P!Start("server", "ask", u, u, Nothing)
      /\ UNCHANGED <<cloud, P!local, opened>> /\ UNCHANGED bindings
  BY DEF P!TrashServer, P!Act, P!Choosing, P!local
<1>2. /\ job' \in Jobs /\ job'.kind = "server" /\ job'.step = "ask" /\ job'.project = u
  BY <1>1 DEF P!Start, Jobs, Steps, P!Entry
<1>3. u # Nothing
  BY DEF NothingIsNoWork
<1>4. JobInv'
  BY <1>2, <1>3 DEF JobInv, TrashFits, AnswerFits, RestoreFits, PurgeFits, ImportFits
<1> QED BY <1>1, <1>2, <1>4, CloudStays, OnlyTheJob DEF LibraryInv

LEMMA TrashServerAskStep ==
  ASSUME NothingIsNoWork, LibraryInv, P!TrashServerAsk
  PROVE  LibraryInv'
<1>1. /\ P!At("server", "ask")
      /\ \/ P!Answered("trash") /\ P!GoOn("record")
         \/ UNCHANGED cloud /\ job' = Nothing
         \/ P!Answered("trash") /\ job' = Nothing
      /\ UNCHANGED <<P!local, opened>> /\ UNCHANGED bindings
  BY DEF P!TrashServerAsk, P!local, P!Done, P!Lost
<1>2. LibraryTypes /\ AnswerFits
  BY DEF LibraryInv, JobInv
<1>3. /\ job # Nothing /\ job \in Jobs /\ job.kind = "server" /\ job.step = "ask"
      /\ opened = Nothing
  BY <1>1, <1>2, JobOf, JobAlone
<1>4. job.project \in Project
  BY <1>2, <1>3 DEF AnswerFits, Jobs
<1>5. cloud' \in Rows /\ PurgedStays /\ GoneStays /\ PurgedIsGone'
  BY <1>1, <1>4, AnswerIs
<1>6. CASE P!Answered("trash") /\ P!GoOn("record")
  <2>1. /\ job' \in Jobs /\ job'.kind = "server" /\ job'.step = "record"
        /\ job'.project = job.project
    BY <1>3, <1>6, JobGoesOn DEF Steps
  <2>2. cloud[job.project] \in {"active", "trashed"}
    BY <1>6 DEF P!Answered, P!Accepts
  <2>3. bindings[job.project] # Nothing => bindings[job.project].state # "purged"
    BY <1>4, <2>2 DEF LibraryInv, RecordInv, PurgedIsGone, Gone
  <2>4. job'.project # Nothing
    BY <1>4, <2>1 DEF NothingIsNoWork
  <2>5. JobInv'
    BY <1>1, <2>1, <2>3, <2>4
       DEF JobInv, TrashFits, AnswerFits, RestoreFits, PurgeFits, ImportFits
  <2> QED BY <1>1, <1>3, <1>5, <2>1, <2>5, OnlyTheJob DEF LibraryInv
<1>7. CASE job' = Nothing
  BY <1>1, <1>3, <1>5, <1>7, OnlyTheJob, NoJob DEF LibraryInv
<1> QED BY <1>1, <1>6, <1>7

LEMMA TrashServerRecordStep ==
  ASSUME NothingIsNoWork, LibraryInv, P!TrashServerRecord
  PROVE  /\ LibraryInv'
         /\ \A v \in Project : P!KnownPurged(v) => P!KnownPurged(v)'
<1>1. /\ P!At("server", "record") /\ P!Recorded("trash") /\ job' = Nothing
      /\ UNCHANGED <<cloud, shelf, identity, marker, written, bins, index, imports, purged,
                     opened>>
  BY DEF P!TrashServerRecord, P!Done
<1>2. LibraryTypes /\ AnswerFits
  BY DEF LibraryInv, JobInv
<1>3. job # Nothing /\ job \in Jobs /\ job.kind = "server" /\ job.step = "record"
  BY <1>1, <1>2, JobOf
<1>4. /\ job.project \in Project
      /\ bindings[job.project] # Nothing => bindings[job.project].state # "purged"
  BY <1>2, <1>3 DEF AnswerFits, Jobs
<1>5. /\ TitlesStay /\ bindings' \in [Project -> {Nothing} \cup Binding] /\ PurgedIsGone'
      /\ \A v \in Project : bindings[v] # Nothing =>
           (bindings'[v].state = "purged" <=> bindings[v].state = "purged")
  BY <1>1, <1>4, RecordedIs
<1>6. \A v \in Project : P!KnownPurged(v) => P!KnownPurged(v)'
  BY <1>1, <1>5 DEF P!KnownPurged, TitlesStay
<1> QED BY <1>1, <1>3, <1>5, <1>6, ToldStep, NoJob DEF LibraryInv

-----------------------------------------------------------------------------
(* From the trash *)

LEMMA EntryProjectIs ==
  ASSUME LibraryInv, NEW e \in P!Entry, P!InBin(e) \/ P!OnServer(e)
  PROVE  P!EntryProject(e) \in {Nothing, e} /\ P!EntryProject(e) \in Project \cup {Nothing}
<1>1. CASE P!OnServer(e)
  BY <1>1 DEF P!OnServer, P!EntryProject
<1>2. CASE ~ P!OnServer(e)
  <2>1. index[e] # Nothing /\ index[e] \in Titled
    BY <1>2 DEF P!InBin, LibraryInv, LibraryTypes, P!LibraryTypeOK, Titled
  <2>2. P!EntryProject(e) = index[e].project /\ index[e].project \in Project \cup {Nothing}
    BY <1>2, <2>1 DEF P!EntryProject, Titled
  <2> QED BY <2>1, <2>2 DEF LibraryInv, RecordInv, Listing
<1> QED BY <1>1, <1>2

LEMMA RestoreStep ==
  ASSUME NothingIsNoWork, LibraryInv, NEW e \in P!Entry, P!Restore(e)
  PROVE  LibraryInv'
<1> DEFINE u == P!EntryProject(e)
           t == IF P!InBin(e) THEN index[e].title ELSE Nothing
           s == IF u = Nothing THEN "move" ELSE "ask"
<1>1. /\ opened = Nothing /\ (P!InBin(e) \/ P!OnServer(e))
      /\ P!InBin(e) => shelf[index[e].title] = Nothing
      /\ P!Start("restore", s, e, u, t)
      /\ UNCHANGED <<cloud, P!local, opened>> /\ UNCHANGED <<shelf, bins, index, bindings>>
  BY DEF P!Restore, P!Act, P!Choosing, P!local
<1>2. u \in Project \cup {Nothing}
  BY <1>1, EntryProjectIs
<1>3. P!InBin(e) => index[e].title \in Title
  BY DEF LibraryInv, LibraryTypes, P!LibraryTypeOK, P!InBin
<1>4. u = Nothing => P!InBin(e)
  BY <1>1 DEF P!OnServer, P!EntryProject, NothingIsNoWork
<1>5. /\ t \in Title \cup {Nothing}
      /\ t # Nothing => P!InBin(e) /\ index[e].title = t /\ shelf[t] = Nothing
  BY <1>1, <1>3
<1>6. u = Nothing => t # Nothing
  BY <1>3, <1>4 DEF NothingIsNoWork
<1>7. s \in {"move", "ask"} /\ (s = "ask" => u # Nothing) /\ (s = "move" => u = Nothing)
  OBVIOUS
<1> HIDE DEF u, t, s
<1>8. /\ job' \in Jobs /\ job'.kind = "restore" /\ job'.step = s /\ job'.entry = e
      /\ job'.project = u /\ job'.title = t
  BY <1>1, <1>2, <1>5, <1>7 DEF P!Start, Jobs, Steps
<1>9. P!InBin(e)' <=> P!InBin(e)
  BY <1>1 DEF P!InBin
<1>10. AnswerFits'
  BY <1>7, <1>8 DEF AnswerFits
<1>11. RestoreFits'
  BY <1>1, <1>5, <1>6, <1>7, <1>8, <1>9 DEF RestoreFits, P!InBin
<1>12. JobInv'
  BY <1>8, <1>10, <1>11 DEF JobInv, TrashFits, PurgeFits, ImportFits
<1> QED BY <1>1, <1>8, <1>12, CloudStays, OnlyTheJob DEF LibraryInv

LEMMA RestoreAskStep ==
  ASSUME NothingIsNoWork, LibraryInv, P!RestoreAsk
  PROVE  LibraryInv'
<1>1. /\ P!At("restore", "ask")
      /\ \/ P!Answered("restore") /\ P!GoOn("record")
         \/ UNCHANGED cloud /\ job' = Nothing
         \/ P!Answered("restore") /\ job' = Nothing
      /\ UNCHANGED <<P!local, opened>> /\ UNCHANGED <<shelf, bins, index, bindings>>
  BY DEF P!RestoreAsk, P!local, P!Done, P!Lost
<1>2. LibraryTypes /\ AnswerFits /\ RestoreFits
  BY DEF LibraryInv, JobInv
<1>3. /\ job # Nothing /\ job \in Jobs /\ job.kind = "restore" /\ job.step = "ask"
      /\ opened = Nothing
  BY <1>1, <1>2, JobOf, JobAlone
<1>4. job.project \in Project
  BY <1>2, <1>3 DEF AnswerFits, Jobs
<1>5. cloud' \in Rows /\ PurgedStays /\ GoneStays /\ PurgedIsGone'
  BY <1>1, <1>4, AnswerIs
<1>6. CASE P!Answered("restore") /\ P!GoOn("record")
  <2>1. /\ job' \in Jobs /\ job'.kind = "restore" /\ job'.step = "record"
        /\ job'.entry = job.entry /\ job'.project = job.project /\ job'.title = job.title
    BY <1>3, <1>6, JobGoesOn DEF Steps
  <2>2. cloud[job.project] \in {"active", "trashed"}
    BY <1>6 DEF P!Answered, P!Accepts
  <2>3. bindings[job.project] # Nothing => bindings[job.project].state # "purged"
    BY <1>4, <2>2 DEF LibraryInv, RecordInv, PurgedIsGone, Gone
  <2>4. AnswerFits'
    BY <1>1, <1>2, <1>3, <2>1, <2>3 DEF AnswerFits
  <2>5. RestoreFits'
    BY <1>1, <1>2, <1>3, <2>1 DEF RestoreFits, P!InBin
  <2>6. JobInv'
    BY <2>1, <2>4, <2>5 DEF JobInv, TrashFits, PurgeFits, ImportFits
  <2> QED BY <1>1, <1>3, <1>5, <2>1, <2>6, OnlyTheJob DEF LibraryInv
<1>7. CASE job' = Nothing
  BY <1>1, <1>3, <1>5, <1>7, OnlyTheJob, NoJob DEF LibraryInv
<1> QED BY <1>1, <1>6, <1>7

LEMMA RestoreRecordStep ==
  ASSUME NothingIsNoWork, LibraryInv, P!RestoreRecord
  PROVE  /\ LibraryInv'
         /\ \A v \in Project : P!KnownPurged(v) => P!KnownPurged(v)'
<1>1. /\ P!At("restore", "record") /\ P!Recorded("restore")
      /\ \/ job' = Nothing
         \/ job.title # Nothing /\ P!GoOn("move")
      /\ UNCHANGED <<cloud, shelf, identity, marker, written, bins, index, imports, purged,
                     opened>>
  BY DEF P!RestoreRecord, P!Done
<1>2. LibraryTypes /\ AnswerFits /\ RestoreFits
  BY DEF LibraryInv, JobInv
<1>3. job # Nothing /\ job \in Jobs /\ job.kind = "restore" /\ job.step = "record"
  BY <1>1, <1>2, JobOf
<1>4. /\ job.project \in Project
      /\ bindings[job.project] # Nothing => bindings[job.project].state # "purged"
  BY <1>2, <1>3 DEF AnswerFits, Jobs
<1>5. /\ TitlesStay /\ bindings' \in [Project -> {Nothing} \cup Binding] /\ PurgedIsGone'
      /\ \A v \in Project : bindings[v] # Nothing =>
           (bindings'[v].state = "purged" <=> bindings[v].state = "purged")
  BY <1>1, <1>4, RecordedIs
<1>6. \A v \in Project : P!KnownPurged(v) => P!KnownPurged(v)'
  BY <1>1, <1>5 DEF P!KnownPurged, TitlesStay
<1>7. CASE job' = Nothing
  BY <1>1, <1>3, <1>5, <1>6, <1>7, ToldStep, NoJob DEF LibraryInv
<1>8. CASE job.title # Nothing /\ P!GoOn("move")
  <2>1. /\ job' \in Jobs /\ job'.kind = "restore" /\ job'.step = "move"
        /\ job'.entry = job.entry /\ job'.project = job.project /\ job'.title = job.title
    BY <1>3, <1>8, JobGoesOn DEF Steps
  <2>2. RestoreFits'
    BY <1>1, <1>2, <1>3, <1>8, <2>1 DEF RestoreFits, P!InBin
  <2>3. JobInv'
    BY <2>1, <2>2 DEF JobInv, TrashFits, AnswerFits, PurgeFits, ImportFits
  <2> QED BY <1>1, <1>3, <1>5, <1>6, <2>1, <2>3, ToldStep DEF LibraryInv
<1> QED BY <1>1, <1>7, <1>8

LEMMA RestoreMoveStep ==
  ASSUME NothingIsNoWork, LibraryInv, P!RestoreMove
  PROVE  LibraryInv'
<1>1. /\ P!At("restore", "move") /\ job' = Nothing
      /\ shelf' = [shelf EXCEPT ![job.title] = bins[job.entry]]
      /\ bins' = [bins EXCEPT ![job.entry] = Nothing]
      /\ index' = [index EXCEPT ![job.entry] = Nothing]
      /\ UNCHANGED <<cloud, identity, marker, written, bindings, imports, purged, opened>>
  BY DEF P!RestoreMove, P!Done
<1>2. LibraryTypes /\ DiskInv /\ RecordInv /\ ImportInv /\ RestoreFits
  BY DEF LibraryInv, JobInv
<1>3. /\ job # Nothing /\ job.kind = "restore" /\ job.step = "move"
      /\ job.entry \in P!Entry /\ job.title \in Title \cup {Nothing} /\ opened = Nothing
  BY <1>1, <1>2, JobOf, JobAlone
<1> DEFINE e == job.entry
           t == job.title
<1>4. /\ t \in Title /\ e \in P!Entry /\ bins[e] # Nothing /\ shelf[t] = Nothing
  BY <1>2, <1>3 DEF RestoreFits, P!InBin
<1>5. /\ shelf' = [shelf EXCEPT ![t] = bins[e]] /\ bins' = [bins EXCEPT ![e] = Nothing]
      /\ index' = [index EXCEPT ![e] = Nothing]
  BY <1>1
<1> HIDE DEF e, t
<1>6. /\ shelf \in [Title -> Work \cup {Nothing}] /\ bins \in [P!Entry -> Work \cup {Nothing}]
      /\ index \in [P!Entry -> {Nothing} \cup Titled]
  BY <1>2 DEF LibraryTypes, P!LibraryTypeOK, Titled
<1>7. /\ shelf' \in [Title -> Work \cup {Nothing}] /\ bins' \in [P!Entry -> Work \cup {Nothing}]
      /\ index' \in [P!Entry -> {Nothing} \cup Titled]
      /\ shelf'[t] = bins[e] /\ bins'[e] = Nothing /\ index'[e] = Nothing
      /\ \A v \in Title \ {t} : shelf'[v] = shelf[v]
      /\ \A f \in P!Entry \ {e} : bins'[f] = bins[f] /\ index'[f] = index[f]
  BY <1>4, <1>5, <1>6
<1>8. LibraryTypes'
  BY <1>1, <1>2, <1>7 DEF LibraryTypes, P!LibraryTypeOK, Titled
<1>9. Apart'
  BY <1>2, <1>4, <1>7 DEF DiskInv, Apart
<1>10. Made'
  BY <1>1, <1>2, <1>4, <1>7 DEF DiskInv, Made
<1>11. Placed'
  BY <1>1, <1>2, <1>4, <1>7 DEF DiskInv, Placed
<1>12. RecordInv'
  <2>1. Listing'
    BY <1>1, <1>2, <1>4, <1>7 DEF RecordInv, Listing
  <2>2. P!BindingsOutliveFiles'
    BY <1>1, <1>2, <1>4, <1>7 DEF RecordInv, P!BindingsOutliveFiles, P!InBin
  <2> QED BY <1>1, <1>2, <2>1, <2>2 DEF RecordInv, OneTitle, PurgedIsGone, Gone
<1>13. ImportInv'
  <2>1. \A v \in Project : bindings[v] # Nothing => bindings[v].title \in Title
    BY <1>2 DEF LibraryTypes, P!LibraryTypeOK
  <2>2. Begun'
    BY <1>1, <1>2, <1>4, <1>7, <2>1 DEF ImportInv, Begun, P!Hidden
  <2> QED BY <1>1, <1>2, <2>2 DEF ImportInv, Imported, Untouched, P!Hidden
<1> QED BY <1>1, <1>3, <1>8, <1>9, <1>10, <1>11, <1>12, <1>13, NoneOpen, NoJob
     DEF LibraryInv, DiskInv

LEMMA PurgeStep ==
  ASSUME NothingIsNoWork, LibraryInv, NEW e \in P!Entry, P!Purge(e)
  PROVE  LibraryInv'
<1> DEFINE u == P!EntryProject(e)
           s == IF u = Nothing THEN "files" ELSE "ask"
<1>1. /\ opened = Nothing /\ (P!InBin(e) \/ P!OnServer(e))
      /\ P!Start("purge", s, e, u, Nothing)
      /\ UNCHANGED <<cloud, P!local, opened>> /\ UNCHANGED bindings
  BY DEF P!Purge, P!Act, P!Choosing, P!local
<1>2. u \in Project \cup {Nothing} /\ u \in {Nothing, e}
  BY <1>1, EntryProjectIs
<1>3. s \in {"files", "ask"} /\ (s = "ask" => u # Nothing) /\ (s = "files" => u = Nothing)
  OBVIOUS
<1> HIDE DEF u, s
<1>4. /\ job' \in Jobs /\ job'.kind = "purge" /\ job'.step = s /\ job'.entry = e
      /\ job'.project = u
  BY <1>1, <1>2, <1>3 DEF P!Start, Jobs, Steps
<1>5. PurgeFits'
  BY <1>2, <1>3, <1>4 DEF PurgeFits
<1>6. JobInv'
  BY <1>4, <1>5 DEF JobInv, TrashFits, AnswerFits, RestoreFits, ImportFits
<1> QED BY <1>1, <1>4, <1>6, CloudStays, OnlyTheJob DEF LibraryInv

LEMMA PurgeAskStep ==
  ASSUME NothingIsNoWork, LibraryInv, P!PurgeAsk
  PROVE  LibraryInv'
<1>1. /\ P!At("purge", "ask")
      /\ \/ P!Answered("purge") /\ P!GoOn("record")
         \/ UNCHANGED cloud /\ job' = Nothing
         \/ P!Answered("purge") /\ job' = Nothing
      /\ UNCHANGED <<P!local, opened>> /\ UNCHANGED bindings
  BY DEF P!PurgeAsk, P!local, P!Done, P!Lost
<1>2. LibraryTypes /\ PurgeFits
  BY DEF LibraryInv, JobInv
<1>3. /\ job # Nothing /\ job \in Jobs /\ job.kind = "purge" /\ job.step = "ask"
      /\ opened = Nothing
  BY <1>1, <1>2, JobOf, JobAlone
<1>4. job.project \in Project /\ job.project = job.entry
  BY <1>2, <1>3 DEF PurgeFits, Jobs
<1>5. cloud' \in Rows /\ PurgedStays /\ GoneStays /\ PurgedIsGone'
  BY <1>1, <1>4, AnswerIs
<1>6. CASE P!Answered("purge") /\ P!GoOn("record")
  <2>1. /\ job' \in Jobs /\ job'.kind = "purge" /\ job'.step = "record"
        /\ job'.entry = job.entry /\ job'.project = job.project
    BY <1>3, <1>6, JobGoesOn DEF Steps
  <2>2. cloud'[job.project] = "purged"
    BY <1>4, <1>6 DEF P!Answered, P!Result, LibraryInv, LibraryTypes, P!LibraryTypeOK
  <2>3. PurgeFits'
    BY <1>2, <1>3, <1>4, <2>1, <2>2 DEF PurgeFits
  <2>4. JobInv'
    BY <2>1, <2>3 DEF JobInv, TrashFits, AnswerFits, RestoreFits, ImportFits
  <2> QED BY <1>1, <1>3, <1>5, <2>1, <2>4, OnlyTheJob DEF LibraryInv
<1>7. CASE job' = Nothing
  BY <1>1, <1>3, <1>5, <1>7, OnlyTheJob, NoJob DEF LibraryInv
<1> QED BY <1>1, <1>6, <1>7

LEMMA PurgeRecordStep ==
  ASSUME NothingIsNoWork, LibraryInv, P!PurgeRecord
  PROVE  /\ LibraryInv'
         /\ \A v \in Project : P!KnownPurged(v) => P!KnownPurged(v)'
<1>1. /\ P!At("purge", "record") /\ bindings' = P!WithState(job.project, P!Result["purge"])
      /\ P!GoOn("files")
      /\ UNCHANGED <<cloud, shelf, identity, marker, written, bins, index, imports, purged,
                     opened>>
  BY DEF P!PurgeRecord, P!Recorded
<1>2. LibraryTypes /\ PurgeFits
  BY DEF LibraryInv, JobInv
<1>3. job # Nothing /\ job \in Jobs /\ job.kind = "purge" /\ job.step = "record"
  BY <1>1, <1>2, JobOf
<1>4. job.project \in Project /\ cloud[job.project] = "purged"
  BY <1>2, <1>3 DEF PurgeFits, Jobs
<1>5. P!Result["purge"] = "purged"
  BY DEF P!Result
<1>6. /\ TitlesStay /\ bindings' \in [Project -> {Nothing} \cup Binding]
      /\ \A v \in Project : bindings[v] # Nothing =>
           bindings'[v].state = IF v = job.project THEN "purged" ELSE bindings[v].state
  BY <1>1, <1>2, <1>4, <1>5, BindingTold
<1>7. PurgedIsGone'
  BY <1>1, <1>4, <1>6 DEF LibraryInv, RecordInv, PurgedIsGone, Gone, TitlesStay
<1>8. \A v \in Project : P!KnownPurged(v) => P!KnownPurged(v)'
  BY <1>1, <1>6 DEF P!KnownPurged, TitlesStay
<1>9. /\ job' \in Jobs /\ job'.kind = "purge" /\ job'.step = "files"
      /\ job'.entry = job.entry /\ job'.project = job.project
  BY <1>1, <1>3, JobGoesOn DEF Steps
<1>10. PurgeFits'
  BY <1>1, <1>2, <1>3, <1>4, <1>9 DEF PurgeFits
<1>11. JobInv'
  BY <1>9, <1>10 DEF JobInv, TrashFits, AnswerFits, RestoreFits, ImportFits
<1> QED BY <1>1, <1>3, <1>6, <1>7, <1>8, <1>9, <1>11, ToldStep DEF LibraryInv

LEMMA PurgeFilesStep ==
  ASSUME NothingIsNoWork, LibraryInv, P!PurgeFiles
  PROVE  LibraryInv'
<1>1. /\ P!At("purge", "files")
      /\ purged' = purged \cup ({bins[job.entry]} \ {Nothing})
      /\ bins' = [bins EXCEPT ![job.entry] = Nothing]
      /\ index' = [index EXCEPT ![job.entry] = Nothing]
      /\ \/ job' = Nothing
         \/ job.project # Nothing /\ P!GoOn("records")
      /\ UNCHANGED <<cloud, shelf, identity, marker, written, bindings, imports, opened>>
  BY DEF P!PurgeFiles, P!Done
<1>2. LibraryTypes /\ DiskInv /\ RecordInv /\ ImportInv /\ PurgeFits
  BY DEF LibraryInv, JobInv
<1>3. /\ job # Nothing /\ job \in Jobs /\ job.kind = "purge" /\ job.step = "files"
      /\ job.entry \in P!Entry /\ opened = Nothing
  BY <1>1, <1>2, JobOf, JobAlone
<1> DEFINE e == job.entry
<1>4. /\ bins \in [P!Entry -> Work \cup {Nothing}] /\ e \in P!Entry /\ purged \subseteq Work
      /\ index \in [P!Entry -> {Nothing} \cup Titled]
  BY <1>2, <1>3 DEF LibraryTypes, P!LibraryTypeOK, Titled
<1>5. /\ purged' = purged \cup ({bins[e]} \ {Nothing})
      /\ bins' = [bins EXCEPT ![e] = Nothing] /\ index' = [index EXCEPT ![e] = Nothing]
  BY <1>1
<1> HIDE DEF e
<1>6. /\ bins' \in [P!Entry -> Work \cup {Nothing}] /\ purged' \subseteq Work
      /\ index' \in [P!Entry -> {Nothing} \cup Titled]
      /\ bins'[e] = Nothing /\ index'[e] = Nothing
      /\ \A f \in P!Entry \ {e} : bins'[f] = bins[f] /\ index'[f] = index[f]
      /\ \A w \in Work : w \in purged' <=> w \in purged \/ (w = bins[e] /\ w # Nothing)
  BY <1>4, <1>5
<1>7. job' \in {Nothing} \cup Jobs
  BY <1>1, <1>3, JobGoesOn DEF Steps
<1>8. LibraryTypes'
  BY <1>1, <1>2, <1>6, <1>7 DEF LibraryTypes, P!LibraryTypeOK, Titled
<1>9. Apart'
  BY <1>1, <1>2, <1>4, <1>6 DEF DiskInv, Apart
<1>10. Made'
  BY <1>1, <1>2, <1>4, <1>5, <1>6 DEF DiskInv, Apart, LibraryTypes, P!LibraryTypeOK, Made
<1>11. Placed'
  BY <1>1, <1>2, <1>4, <1>6 DEF DiskInv, Placed, NothingIsNoWork
<1>12. RecordInv'
  <2>1. Listing'
    BY <1>2, <1>6 DEF RecordInv, Listing
  <2>2. P!BindingsOutliveFiles'
    BY <1>1, <1>2, <1>6 DEF RecordInv, P!BindingsOutliveFiles, P!InBin
  <2> QED BY <1>1, <1>2, <2>1, <2>2 DEF RecordInv, OneTitle, PurgedIsGone, Gone
<1>13. ImportInv'
  BY <1>1, <1>2, BindingsStay, ImportsStay DEF PurgedStays
<1>14. JobInv'
  <2>1. CASE job.project # Nothing /\ P!GoOn("records")
    <3>1. /\ job' \in Jobs /\ job'.kind = "purge" /\ job'.step = "records"
          /\ job'.entry = job.entry /\ job'.project = job.project
      BY <1>3, <2>1, JobGoesOn DEF Steps
    <3>2. PurgeFits'
      BY <1>1, <1>2, <1>3, <1>6, <2>1, <3>1 DEF PurgeFits, e
    <3> QED BY <3>1, <3>2 DEF JobInv, TrashFits, AnswerFits, RestoreFits, ImportFits
  <2> QED BY <1>1, <2>1, NoJob
<1> QED BY <1>1, <1>3, <1>8, <1>9, <1>10, <1>11, <1>12, <1>13, <1>14, NoneOpen
     DEF LibraryInv, DiskInv

LEMMA PurgeRecordsStep ==
  ASSUME NothingIsNoWork, LibraryInv, P!PurgeRecords
  PROVE  /\ LibraryInv'
         /\ \A v \in Project : P!KnownPurged(v) /\ bindings'[v] # Nothing => P!KnownPurged(v)'
<1>1. /\ P!At("purge", "records") /\ job' = Nothing
      /\ bindings' = [bindings EXCEPT ![job.project] = Nothing]
      /\ imports' = [imports EXCEPT ![job.project] = "none"]
      /\ UNCHANGED <<cloud, shelf, identity, marker, written, bins, index, purged, opened>>
  BY DEF P!PurgeRecords, P!Done
<1>2. LibraryTypes /\ DiskInv /\ RecordInv /\ ImportInv /\ PurgeFits
  BY DEF LibraryInv, JobInv
<1>3. /\ job # Nothing /\ job \in Jobs /\ job.kind = "purge" /\ job.step = "records"
      /\ opened = Nothing
  BY <1>1, <1>2, JobOf, JobAlone
<1> DEFINE u == job.project
<1>4. /\ u \in Project /\ u = job.entry /\ bins[job.entry] = Nothing /\ cloud[u] = "purged"
  BY <1>2, <1>3 DEF PurgeFits, Jobs
<1>5. /\ bindings \in [Project -> {Nothing} \cup Binding]
      /\ imports \in [Project -> {"none", "begun", "complete"}]
  BY <1>2 DEF LibraryTypes, P!LibraryTypeOK, Binding
<1>6. bindings' = [bindings EXCEPT ![u] = Nothing] /\ imports' = [imports EXCEPT ![u] = "none"]
  BY <1>1
<1>7. bins[u] = Nothing
  BY <1>4
<1> HIDE DEF u
<1>8. /\ bindings' \in [Project -> {Nothing} \cup Binding] /\ bindings'[u] = Nothing
      /\ imports' \in [Project -> {"none", "begun", "complete"}] /\ imports'[u] = "none"
      /\ \A v \in Project \ {u} : bindings'[v] = bindings[v] /\ imports'[v] = imports[v]
  BY <1>4, <1>5, <1>6
<1>9. LibraryTypes'
  BY <1>1, <1>2, <1>8 DEF LibraryTypes, P!LibraryTypeOK, Binding
<1>10. OneTitle' /\ PurgedIsGone' /\ Listing'
  BY <1>1, <1>2, <1>8 DEF RecordInv, OneTitle, PurgedIsGone, Listing, Gone
<1>11. P!BindingsOutliveFiles'
  BY <1>1, <1>2, <1>7, <1>8 DEF RecordInv, Listing, P!InBin, LibraryTypes, P!LibraryTypeOK,
     P!BindingsOutliveFiles
<1>12. ImportInv'
  <2>1. Begun'
    BY <1>1, <1>2, <1>8 DEF ImportInv, Begun, P!Hidden
  <2>2. \A w \in Work : marker[w] # Nothing => marker[w].project \in Project
    BY <1>2 DEF LibraryTypes, P!LibraryTypeOK
  <2>3. Imported'
    BY <1>1, <1>2, <1>4, <1>8, <2>2 DEF ImportInv, Imported
  <2> QED BY <1>1, <1>2, <2>1, <2>3 DEF ImportInv, Untouched, P!Hidden
<1>13. \A v \in Project : P!KnownPurged(v) /\ bindings'[v] # Nothing => P!KnownPurged(v)'
  BY <1>1, <1>8 DEF P!KnownPurged
<1> QED BY <1>1, <1>2, <1>3, <1>9, <1>10, <1>11, <1>12, <1>13, DiskStays, NoneOpen, NoJob
     DEF LibraryInv, RecordInv

-----------------------------------------------------------------------------
(* Import of a server project *)

\* What Import finds at its title or puts there: a work nobody has written in.
LEMMA ImportTakes ==
  ASSUME NothingIsNoWork, LibraryInv, NEW u \in Project, NEW t \in Title, NEW w \in Work,
         NEW fresh \in Project, P!Import(u, t, w, fresh)
  PROVE  /\ w \notin written
         /\ \/ shelf[t] = w /\ P!Hidden(w) /\ UNCHANGED <<shelf, identity>>
            \/ /\ shelf[t] = Nothing /\ identity[w] = Nothing /\ w \notin purged
               /\ shelf' = [shelf EXCEPT ![t] = w] /\ identity' = [identity EXCEPT ![w] = fresh]
         /\ bindings[u] # Nothing => bindings[u].title = t
<1>1. /\ P!Offered(u) /\ P!Resumable(u, t) /\ P!Reserved(u, t)
      /\ IF shelf[t] = Nothing
         THEN /\ w \in P!New /\ shelf' = [shelf EXCEPT ![t] = w]
              /\ identity' = [identity EXCEPT ![w] = fresh]
         ELSE w = shelf[t] /\ UNCHANGED <<shelf, identity>>
  BY DEF P!Import
<1>2. LibraryTypes /\ DiskInv /\ ImportInv
  BY DEF LibraryInv
<1>3. bindings[u] # Nothing => bindings[u].title = t
  BY <1>1 DEF P!Resumable
<1>4. CASE shelf[t] = Nothing
  BY <1>1, <1>2, <1>3, <1>4, NewIs DEF DiskInv, Made, ImportInv, Untouched
<1>5. CASE shelf[t] # Nothing
  <2>1. w = shelf[t] /\ UNCHANGED <<shelf, identity>>
    BY <1>1, <1>5
  <2>2. P!Hidden(w)
    <3>1. CASE bindings[u] = Nothing
      BY <1>1, <1>2, <1>5, <2>1, <3>1 DEF P!Reserved, P!Offered, ImportInv, Imported,
         P!Hidden
    <3>2. CASE bindings[u] # Nothing
      BY <1>1, <1>2, <1>3, <1>5, <2>1, <3>2 DEF P!Resumable, P!Missing, ImportInv, Begun
    <3> QED BY <3>1, <3>2
  <2>3. w \notin written
    BY <1>2, <2>2 DEF ImportInv, Untouched
  <2> QED BY <1>3, <2>1, <2>2, <2>3
<1> QED BY <1>4, <1>5

LEMMA ImportStep ==
  ASSUME NothingIsNoWork, LibraryInv, NEW u \in Project, NEW t \in Title, NEW w \in Work,
         NEW fresh \in Project, P!Import(u, t, w, fresh)
  PROVE  LibraryInv' /\ \A v \in written : identity'[v] = identity[v]
<1>1. /\ job = Nothing /\ opened = Nothing
      /\ marker' = [marker EXCEPT ![w] = [project |-> u, complete |-> FALSE]]
      /\ P!Start("import", "bind", w, u, t)
      /\ UNCHANGED <<cloud, written, bins, index, bindings, imports, purged, opened>>
  BY DEF P!Import, P!Act, P!Choosing, P!Idle
<1>2. LibraryTypes /\ DiskInv /\ RecordInv /\ ImportInv
  BY DEF LibraryInv
<1>3. /\ w \notin written
      /\ \/ shelf[t] = w /\ P!Hidden(w) /\ UNCHANGED <<shelf, identity>>
         \/ /\ shelf[t] = Nothing /\ identity[w] = Nothing /\ w \notin purged
            /\ shelf' = [shelf EXCEPT ![t] = w] /\ identity' = [identity EXCEPT ![w] = fresh]
      /\ bindings[u] # Nothing => bindings[u].title = t
  BY ImportTakes
<1> DEFINE m == [project |-> u, complete |-> FALSE]
<1>4. m \in Marker /\ m.project = u /\ m.complete = FALSE
  BY DEF Marker
<1>5. m # Nothing
  BY <1>4 DEF NothingIsNoWork
<1>6. marker' = [marker EXCEPT ![w] = m]
  BY <1>1
<1> HIDE DEF m
<1>7. /\ marker \in [Work -> {Nothing} \cup Marker]
      /\ shelf \in [Title -> Work \cup {Nothing}]
      /\ identity \in [Work -> Project \cup {Nothing}]
  BY <1>2 DEF LibraryTypes, P!LibraryTypeOK, Marker
<1>8. /\ marker' \in [Work -> {Nothing} \cup Marker] /\ marker'[w] = m
      /\ \A v \in Work \ {w} : marker'[v] = marker[v]
  BY <1>4, <1>6, <1>7
<1>9. w # Nothing /\ fresh # Nothing /\ u # Nothing /\ t # Nothing
  BY DEF NothingIsNoWork
<1>10. /\ shelf' \in [Title -> Work \cup {Nothing}] /\ shelf'[t] = w
       /\ \A v \in Title \ {t} : shelf'[v] = shelf[v]
  BY <1>3, <1>7
<1>11. /\ identity' \in [Work -> Project \cup {Nothing}] /\ identity'[w] # Nothing
       /\ \A v \in Work \ {w} : identity'[v] = identity[v]
  BY <1>2, <1>3, <1>7, <1>9 DEF DiskInv, Made
<1>12. P!Hidden(w)' /\ \A v \in Work \ {w} : P!Hidden(v)' <=> P!Hidden(v)
  BY <1>4, <1>5, <1>8 DEF P!Hidden
<1>13. /\ job' \in Jobs /\ job'.kind = "import" /\ job'.step = "bind" /\ job'.entry = w
       /\ job'.project = u /\ job'.title = t
  BY <1>1 DEF P!Start, Jobs, Steps, P!Entry
<1>14. LibraryTypes'
  BY <1>1, <1>2, <1>8, <1>10, <1>11, <1>13 DEF LibraryTypes, P!LibraryTypeOK, Marker
<1>15. DiskInv'
  <2>1. CASE UNCHANGED <<shelf, identity>>
    BY <1>1, <1>2, <2>1, DiskStays
  <2>2. CASE shelf[t] = Nothing /\ identity[w] = Nothing /\ w \notin purged
    <3>1. (\A v \in Title : shelf[v] # w) /\ (\A e \in P!Entry : bins[e] # w)
      BY <1>2, <1>9, <2>2 DEF DiskInv, Made
    <3>2. Apart'
      BY <1>1, <1>2, <1>10, <3>1 DEF DiskInv, Apart
    <3>3. (\A v \in Title : shelf[v] # Nothing => shelf[v] \in Work)
          /\ (\A e \in P!Entry : bins[e] # Nothing => bins[e] \in Work) /\ purged \subseteq Work
      BY <1>2 DEF LibraryTypes, P!LibraryTypeOK
    <3>4. Made'
      BY <1>1, <1>2, <1>10, <1>11, <2>2, <3>1, <3>3 DEF DiskInv, Made
    <3>5. \A v \in Title : shelf[v] # Nothing => shelf'[v] = shelf[v]
      BY <1>10, <2>2
    <3>6. \A v \in Work : v # Nothing
      BY DEF NothingIsNoWork
    <3>7. Placed'
      BY <1>1, <1>2, <1>10, <1>11, <3>5, <3>6 DEF DiskInv, Placed
    <3> QED BY <3>2, <3>4, <3>7 DEF DiskInv
  <2> QED BY <1>3, <2>1, <2>2
<1>16. RecordInv'
  BY <1>1, <1>2, BindingsStay, RecordsStay DEF RecordInv, PurgedIsGone, Gone
<1>17. Begun'
  <2> SUFFICES ASSUME NEW v \in Project, imports'[v] = "begun"
               PROVE  /\ bindings'[v] # Nothing /\ shelf'[bindings'[v].title] # Nothing
                      /\ P!Hidden(shelf[bindings[v].title])'
    BY DEF Begun
  <2>1. /\ bindings[v] # Nothing /\ bindings[v].title \in Title
        /\ shelf[bindings[v].title] \in Work /\ P!Hidden(shelf[bindings[v].title])
    BY <1>1, <1>2 DEF ImportInv, Begun, LibraryTypes, P!LibraryTypeOK
  <2>2. bindings' = bindings
    BY <1>1
  <2>3. \A y \in Title : shelf[y] \in Work /\ P!Hidden(shelf[y]) =>
          shelf'[y] \in Work /\ P!Hidden(shelf[y])'
    <3> SUFFICES ASSUME NEW y \in Title, shelf[y] \in Work, P!Hidden(shelf[y])
                 PROVE  shelf'[y] \in Work /\ P!Hidden(shelf[y])'
      OBVIOUS
    <3>1. CASE y = t
      BY <1>10, <1>12, <3>1 DEF P!Hidden
    <3>2. CASE y # t
      BY <1>10, <1>12, <3>2 DEF P!Hidden
    <3> QED BY <3>1, <3>2
  <2> QED BY <2>1, <2>2, <2>3 DEF NothingIsNoWork, P!Hidden
<1>18. Imported'
  BY <1>1, <1>2, <1>4, <1>8 DEF ImportInv, Imported
<1>19. Untouched'
  BY <1>1, <1>2, <1>3, <1>11, <1>12 DEF LibraryTypes, P!LibraryTypeOK, ImportInv, Untouched
<1>20. ImportFits'
  BY <1>1, <1>3, <1>4, <1>8, <1>9, <1>10, <1>12, <1>13 DEF ImportFits, P!Hidden
<1>21. JobInv'
  BY <1>13, <1>20 DEF JobInv, TrashFits, AnswerFits, RestoreFits, PurgeFits
<1>22. \A v \in written : identity'[v] = identity[v]
  BY <1>2, <1>3, <1>11 DEF LibraryTypes, P!LibraryTypeOK
<1> QED BY <1>1, <1>14, <1>15, <1>16, <1>17, <1>18, <1>19, <1>21, <1>22, NoneOpen
     DEF LibraryInv, ImportInv

LEMMA ImportBindStep ==
  ASSUME NothingIsNoWork, LibraryInv, P!ImportBind
  PROVE  /\ LibraryInv'
         /\ \A v \in Project : P!KnownPurged(v) => P!KnownPurged(v)'
<1> DEFINE u == job.project
           t == job.title
           rec == [title |-> t, state |-> "active", waiting |-> FALSE]
<1>1. /\ P!At("import", "bind")
      /\ UNCHANGED <<cloud, shelf, identity, marker, written, bins, index, purged, opened>>
      /\ IF P!BoundTo(t) \ {u} # {} THEN job' = Nothing /\ UNCHANGED <<bindings, imports>>
         ELSE /\ bindings' = IF bindings[u] # Nothing THEN bindings
                             ELSE [bindings EXCEPT ![u] = rec]
              /\ imports' = [imports EXCEPT ![u] = "begun"] /\ P!GoOn("pull")
  BY DEF P!ImportBind, P!Done
<1>2. LibraryTypes /\ DiskInv /\ RecordInv /\ ImportInv /\ ImportFits
  BY DEF LibraryInv, JobInv
<1>3. /\ job # Nothing /\ job \in Jobs /\ job.kind = "import" /\ job.step = "bind"
      /\ opened = Nothing
  BY <1>1, <1>2, JobOf, JobAlone
<1>4. /\ u \in Project /\ t \in Title /\ job.entry \in Work /\ shelf[t] = job.entry
      /\ P!Hidden(job.entry) /\ marker[job.entry].project = u
      /\ bindings[u] # Nothing => bindings[u].title = t
  BY <1>2, <1>3 DEF ImportFits, Jobs
<1>5. CASE P!BoundTo(t) \ {u} # {}
  BY <1>1, <1>3, <1>5, CloudStays, OnlyTheJob, NoJob DEF P!local, LibraryInv, P!KnownPurged
<1>6. CASE P!BoundTo(t) \ {u} = {}
  <2>1. imports' = [imports EXCEPT ![u] = "begun"] /\ P!GoOn("pull")
    BY <1>1, <1>6
  <2>2. /\ job' \in Jobs /\ job'.kind = "import" /\ job'.step = "pull"
        /\ job'.entry = job.entry /\ job'.project = u /\ job'.title = t
    BY <1>3, <2>1, JobGoesOn DEF Steps
  <2>3. /\ RecordInv' /\ bindings' \in [Project -> {Nothing} \cup Binding]
        /\ bindings'[u] # Nothing /\ bindings'[u].title = t
        /\ \A v \in Project : bindings[v] # Nothing => bindings'[v] = bindings[v]
    <3>1. CASE bindings[u] # Nothing
      BY <1>1, <1>2, <1>4, <1>6, <3>1, BindingsStay, RecordsStay DEF RecordInv,
         PurgedIsGone, Gone, LibraryTypes, P!LibraryTypeOK, Binding
    <3>2. CASE bindings[u] = Nothing
      <4>1. bindings' = [bindings EXCEPT ![u] = rec]
        BY <1>1, <1>6, <3>2
      <4>2. \A v \in Project : bindings[v] # Nothing => bindings[v].title # t
        BY <1>6, <3>2 DEF P!BoundTo
      <4>4. u \in Project /\ t \in Title /\ UNCHANGED <<cloud, bins, index>>
        BY <1>1, <1>4
      <4> HIDE DEF u, t
      <4>3. /\ RecordInv' /\ bindings' \in [Project -> {Nothing} \cup Binding]
            /\ bindings'[u] # Nothing /\ bindings'[u].title = t
            /\ \A v \in Project \ {u} : bindings'[v] = bindings[v]
        BY <1>2, <3>2, <4>1, <4>2, <4>4, BindingMade
      <4> QED BY <3>2, <4>3
    <3> QED BY <3>1, <3>2
  <2> HIDE DEF u, t, rec
  <2>4. /\ imports' \in [Project -> {"none", "begun", "complete"}] /\ imports'[u] = "begun"
        /\ \A v \in Project \ {u} : imports'[v] = imports[v]
    BY <1>2, <1>4, <2>1 DEF LibraryTypes, P!LibraryTypeOK
  <2>5. LibraryTypes'
    BY <1>1, <1>2, <2>2, <2>3, <2>4 DEF LibraryTypes, P!LibraryTypeOK, Binding
  <2>6. job.entry # Nothing
    BY <1>4 DEF NothingIsNoWork
  <2>7. Begun'
    BY <1>1, <1>2, <1>4, <2>3, <2>4, <2>6 DEF Begun, P!Hidden, ImportInv
  <2>8. Imported'
    BY <1>1, <1>2, <2>3 DEF LibraryTypes, P!LibraryTypeOK, ImportInv, Imported
  <2>9. Untouched'
    BY <1>1, <1>2 DEF ImportInv, Untouched, P!Hidden
  <2>10. ImportFits'
    BY <1>1, <1>4, <2>2, <2>3 DEF P!Hidden, NothingIsNoWork, ImportFits
  <2>11. JobInv'
    BY <2>2, <2>10 DEF JobInv, TrashFits, AnswerFits, RestoreFits, PurgeFits
  <2>12. \A v \in Project : P!KnownPurged(v) => P!KnownPurged(v)'
    BY <1>1, <2>3 DEF P!KnownPurged
  <2> QED BY <1>1, <1>2, <1>3, <2>3, <2>5, <2>7, <2>8, <2>9, <2>11, <2>12, DiskStays, NoneOpen
       DEF LibraryInv, ImportInv
<1> QED BY <1>5, <1>6

LEMMA ImportPullStep ==
  ASSUME NothingIsNoWork, LibraryInv, P!ImportPull
  PROVE  LibraryInv'
<1>1. /\ P!At("import", "pull") /\ (P!GoOn("adopt") \/ job' = Nothing)
      /\ UNCHANGED <<cloud, P!local, opened>>
      /\ UNCHANGED <<shelf, marker, bindings, imports>>
  BY DEF P!ImportPull, P!Done, P!local
<1>2. LibraryTypes /\ ImportFits
  BY DEF LibraryInv, JobInv
<1>3. /\ job # Nothing /\ job \in Jobs /\ job.kind = "import" /\ job.step = "pull"
      /\ opened = Nothing
  BY <1>1, <1>2, JobOf, JobAlone
<1>4. cloud' \in Rows /\ PurgedStays /\ PurgedIsGone'
  BY <1>1, CloudStays
<1>5. CASE P!GoOn("adopt")
  <2>1. /\ job' \in Jobs /\ job'.kind = "import" /\ job'.step = "adopt"
        /\ job'.entry = job.entry /\ job'.project = job.project /\ job'.title = job.title
    BY <1>3, <1>5, JobGoesOn DEF Steps
  <2>2. P!Hidden(job.entry)' <=> P!Hidden(job.entry)
    BY <1>1, <2>1 DEF P!Hidden
  <2>3. ImportFits'
    BY <1>1, <1>2, <1>3, <2>1, <2>2 DEF ImportFits
  <2>4. JobInv'
    BY <2>1, <2>3 DEF JobInv, TrashFits, AnswerFits, RestoreFits, PurgeFits
  <2> QED BY <1>1, <1>3, <1>4, <2>1, <2>4, OnlyTheJob DEF LibraryInv
<1>6. CASE job' = Nothing
  BY <1>1, <1>3, <1>4, <1>6, OnlyTheJob, NoJob DEF LibraryInv
<1> QED BY <1>1, <1>5, <1>6

LEMMA ImportAdoptStep ==
  ASSUME NothingIsNoWork, LibraryInv, P!ImportAdopt
  PROVE  LibraryInv' /\ \A v \in written : identity'[v] = identity[v]
<1>1. /\ P!At("import", "adopt") /\ P!GoOn("complete")
      /\ identity' = [identity EXCEPT ![job.entry] = job.project]
      /\ UNCHANGED <<cloud, shelf, marker, written, bins, index, bindings, imports, purged,
                     opened>>
  BY DEF P!ImportAdopt
<1>2. LibraryTypes /\ DiskInv /\ RecordInv /\ ImportInv /\ ImportFits
  BY DEF LibraryInv, JobInv
<1>3. /\ job # Nothing /\ job \in Jobs /\ job.kind = "import" /\ job.step = "adopt"
      /\ opened = Nothing
  BY <1>1, <1>2, JobOf, JobAlone
<1>4. /\ job' \in Jobs /\ job'.kind = "import" /\ job'.step = "complete"
      /\ job'.entry = job.entry /\ job'.project = job.project /\ job'.title = job.title
  BY <1>1, <1>3, JobGoesOn DEF Steps
<1> DEFINE w == job.entry
           u == job.project
<1>5. /\ w \in Work /\ u \in Project /\ u # Nothing /\ P!Hidden(w)
      /\ job.title \in Title /\ shelf[job.title] = w
  BY <1>2, <1>3 DEF ImportFits, Jobs
<1>6. identity' = [identity EXCEPT ![w] = u]
  BY <1>1
<1>7. identity[w] # Nothing
  BY <1>2, <1>5 DEF NothingIsNoWork, DiskInv, Made
<1>8. w \notin written
  BY <1>2, <1>5 DEF ImportInv, Untouched
<1> HIDE DEF w, u
<1>9. /\ identity' \in [Work -> Project \cup {Nothing}] /\ identity'[w] # Nothing
      /\ \A v \in Work \ {w} : identity'[v] = identity[v]
  BY <1>2, <1>5, <1>6 DEF LibraryTypes, P!LibraryTypeOK
<1>10. LibraryTypes'
  BY <1>1, <1>2, <1>4, <1>9 DEF LibraryTypes, P!LibraryTypeOK
<1>11. Apart' /\ Made'
  BY <1>1, <1>2, <1>7, <1>9 DEF LibraryTypes, P!LibraryTypeOK, DiskInv, Apart, Made
<1>12. Placed'
  BY <1>1, <1>2, <1>7, <1>9 DEF DiskInv, Placed
<1>13. RecordInv'
  BY <1>1, <1>2, BindingsStay, RecordsStay DEF RecordInv, PurgedIsGone, Gone
<1>14. Begun' /\ Imported'
  BY <1>1, <1>2 DEF ImportInv, Begun, Imported, P!Hidden
<1>15. \A v \in written : v \in Work /\ identity'[v] = identity[v]
  BY <1>2, <1>8, <1>9 DEF LibraryTypes, P!LibraryTypeOK
<1>16. Untouched'
  BY <1>1, <1>2, <1>15 DEF ImportInv, Untouched, P!Hidden
<1>17. ImportFits'
  BY <1>1, <1>2, <1>3, <1>4 DEF P!Hidden, ImportFits
<1>18. JobInv'
  BY <1>4, <1>17 DEF JobInv, TrashFits, AnswerFits, RestoreFits, PurgeFits
<1> QED BY <1>1, <1>3, <1>10, <1>11, <1>12, <1>13, <1>14, <1>15, <1>16, <1>18, NoneOpen
     DEF LibraryInv, DiskInv, ImportInv

LEMMA ImportCompleteStep ==
  ASSUME NothingIsNoWork, LibraryInv, P!ImportComplete
  PROVE  LibraryInv'
<1>1. /\ P!At("import", "complete") /\ P!GoOn("mark")
      /\ imports' = [imports EXCEPT ![job.project] = "complete"]
      /\ UNCHANGED <<cloud, shelf, identity, marker, written, bins, index, bindings, purged,
                     opened>>
  BY DEF P!ImportComplete
<1>2. LibraryTypes /\ DiskInv /\ RecordInv /\ ImportInv /\ ImportFits
  BY DEF LibraryInv, JobInv
<1>3. /\ job # Nothing /\ job \in Jobs /\ job.kind = "import" /\ job.step = "complete"
      /\ opened = Nothing
  BY <1>1, <1>2, JobOf, JobAlone
<1>4. /\ job' \in Jobs /\ job'.kind = "import" /\ job'.step = "mark"
      /\ job'.entry = job.entry /\ job'.project = job.project /\ job'.title = job.title
  BY <1>1, <1>3, JobGoesOn DEF Steps
<1>5. job.project \in Project
  BY <1>2, <1>3 DEF ImportFits, Jobs
<1>6. /\ imports' \in [Project -> {"none", "begun", "complete"}]
      /\ imports'[job.project] = "complete"
      /\ \A v \in Project : imports'[v] = "begun" => imports[v] = "begun"
  BY <1>1, <1>2, <1>5 DEF LibraryTypes, P!LibraryTypeOK
<1>7. LibraryTypes'
  BY <1>1, <1>2, <1>4, <1>6 DEF LibraryTypes, P!LibraryTypeOK
<1>8. RecordInv'
  BY <1>1, <1>2, BindingsStay, RecordsStay DEF RecordInv, PurgedIsGone, Gone
<1>9. ImportInv'
  BY <1>1, <1>2, <1>6 DEF ImportInv, Begun, Imported, Untouched, P!Hidden
<1>10. ImportFits'
  BY <1>1, <1>2, <1>3, <1>4, <1>6 DEF P!Hidden, ImportFits
<1>11. JobInv'
  BY <1>4, <1>10 DEF JobInv, TrashFits, AnswerFits, RestoreFits, PurgeFits
<1> QED BY <1>1, <1>2, <1>3, <1>7, <1>8, <1>9, <1>11, DiskStays, NoneOpen DEF LibraryInv

LEMMA ImportMarkStep ==
  ASSUME NothingIsNoWork, LibraryInv, P!ImportMark
  PROVE  LibraryInv'
<1> DEFINE w == job.entry
           u == job.project
           m == [marker[w] EXCEPT !.complete = TRUE]
<1>1. /\ P!At("import", "mark") /\ job' = Nothing
      /\ \/ marker' = [marker EXCEPT ![w] = m] /\ UNCHANGED imports
         \/ imports' = [imports EXCEPT ![u] = "begun"] /\ UNCHANGED marker
      /\ UNCHANGED <<cloud, shelf, identity, written, bins, index, bindings, purged, opened>>
  BY DEF P!ImportMark, P!Done
<1>2. LibraryTypes /\ DiskInv /\ RecordInv /\ ImportInv /\ ImportFits
  BY DEF LibraryInv, JobInv
<1>3. /\ job # Nothing /\ job \in Jobs /\ job.kind = "import" /\ job.step = "mark"
      /\ opened = Nothing
  BY <1>1, <1>2, JobOf, JobAlone
<1>4. /\ w \in Work /\ u \in Project /\ job.title \in Title /\ shelf[job.title] = w
      /\ P!Hidden(w) /\ marker[w].project = u /\ imports[u] = "complete"
      /\ bindings[u] # Nothing /\ bindings[u].title = job.title
  BY <1>2, <1>3 DEF ImportFits, Jobs
<1>5. marker \in [Work -> {Nothing} \cup Marker] /\ marker[w] \in Marker /\ w # Nothing
  BY <1>2, <1>4 DEF LibraryTypes, P!LibraryTypeOK, Marker, P!Hidden, NothingIsNoWork
<1>6. m \in Marker /\ m.project = u /\ m.complete = TRUE
  BY <1>4, <1>5 DEF Marker
<1> HIDE DEF m, w, u
<1>7. RecordInv'
  BY <1>1, <1>2, BindingsStay, RecordsStay DEF RecordInv, PurgedIsGone, Gone
<1>8. LibraryTypes' /\ ImportInv'
  <2>1. CASE marker' = [marker EXCEPT ![w] = m] /\ UNCHANGED imports
    <3>1. /\ marker' \in [Work -> {Nothing} \cup Marker] /\ marker'[w] = m
          /\ \A v \in Work \ {w} : marker'[v] = marker[v]
      BY <1>4, <1>5, <1>6, <2>1
    <3>2. LibraryTypes'
      BY <1>1, <1>2, <2>1, <3>1 DEF LibraryTypes, P!LibraryTypeOK, Marker
    <3>3. \A v \in Project : imports[v] = "begun" =>
            /\ bindings[v] # Nothing /\ shelf[bindings[v].title] \in Work
            /\ shelf[bindings[v].title] # w /\ P!Hidden(shelf[bindings[v].title])
      <4> SUFFICES ASSUME NEW v \in Project, imports[v] = "begun"
                   PROVE  /\ bindings[v] # Nothing /\ shelf[bindings[v].title] \in Work
                          /\ shelf[bindings[v].title] # w
                          /\ P!Hidden(shelf[bindings[v].title])
        OBVIOUS
      <4>1. /\ bindings[v] # Nothing /\ bindings[v].title \in Title
            /\ shelf[bindings[v].title] # Nothing /\ P!Hidden(shelf[bindings[v].title])
        BY <1>2 DEF ImportInv, Begun, LibraryTypes, P!LibraryTypeOK
      <4>2. v # u
        BY <1>4
      <4>3. bindings[v].title # job.title
        BY <1>2, <1>4, <4>1, <4>2 DEF RecordInv, OneTitle
      <4>4. shelf[bindings[v].title] # w
        BY <1>2, <1>4, <4>1, <4>3 DEF DiskInv, Apart
      <4> QED BY <1>2, <4>1, <4>4 DEF LibraryTypes, P!LibraryTypeOK
    <3>4. Begun'
      BY <1>1, <2>1, <3>1, <3>3 DEF Begun, P!Hidden, NothingIsNoWork
    <3>5. Imported'
      BY <1>1, <1>2, <1>4, <1>6, <3>1 DEF ImportInv, Imported
    <3>6. Untouched'
      BY <1>1, <1>2, <1>4, <3>1 DEF ImportInv, Untouched, LibraryTypes, P!LibraryTypeOK,
         P!Hidden
    <3> QED BY <3>2, <3>4, <3>5, <3>6 DEF ImportInv
  <2>2. CASE imports' = [imports EXCEPT ![u] = "begun"] /\ UNCHANGED marker
    <3>1. /\ imports' \in [Project -> {"none", "begun", "complete"}]
          /\ \A v \in Project \ {u} : imports'[v] = imports[v]
      BY <1>2, <1>4, <2>2 DEF LibraryTypes, P!LibraryTypeOK
    <3>2. LibraryTypes'
      BY <1>1, <1>2, <2>2, <3>1 DEF LibraryTypes, P!LibraryTypeOK
    <3>3. Begun'
      BY <1>1, <1>2, <1>4, <1>5, <2>2, <3>1 DEF ImportInv, Begun, P!Hidden
    <3> QED BY <1>1, <1>2, <2>2, <3>2, <3>3 DEF ImportInv, Imported, Untouched, P!Hidden
  <2> QED BY <1>1, <2>1, <2>2
<1> QED BY <1>1, <1>2, <1>3, <1>7, <1>8, DiskStays, NoneOpen, NoJob DEF LibraryInv

-----------------------------------------------------------------------------
(* Failures, and other devices *)

\* A job that ends where it is.
LEMMA JobEnds ==
  ASSUME NothingIsNoWork, LibraryInv, job' = Nothing, opened' = Nothing,
         UNCHANGED <<cloud, P!local>>
  PROVE  LibraryInv'
<1>1. UNCHANGED <<cloud, bindings>> /\ UNCHANGED P!local
  BY DEF P!local
<1> QED BY <1>1, CloudStays, OnlyTheJob, NoJob DEF LibraryInv

LEMMA DiskFailsStep ==
  ASSUME NothingIsNoWork, LibraryInv, P!DiskFails
  PROVE  LibraryInv'
<1>1. /\ P!At("trash", "move") \/ P!At("restore", "move") \/ P!At("purge", "files")
      /\ job' = Nothing /\ UNCHANGED <<cloud, P!local, opened>>
  BY DEF P!DiskFails, P!Done
<1>2. opened = Nothing
  BY <1>1, JobAlone DEF P!At
<1> QED BY <1>1, <1>2, JobEnds

LEMMA StopStep ==
  ASSUME NothingIsNoWork, LibraryInv, P!Stop
  PROVE  LibraryInv'
<1>1. job' = Nothing /\ opened' = Nothing /\ UNCHANGED <<cloud, P!local>>
  BY DEF P!Stop, P!Done
<1> QED BY <1>1, JobEnds

LEMMA ElsewhereStep ==
  ASSUME NothingIsNoWork, LibraryInv, NEW u \in Project, P!Elsewhere(u)
  PROVE  /\ LibraryInv'
         /\ \A v \in Project : P!KnownPurged(v) => P!KnownPurged(v)'
<1>1. UNCHANGED <<shelf, identity, marker, written, bins, index, bindings, imports, purged,
                  opened, job>>
  BY DEF P!Elsewhere, P!local
<1>2. LibraryTypes /\ DiskInv /\ RecordInv /\ ImportInv /\ JobInv /\ OpenAlone
  BY DEF LibraryInv
<1>3. cloud \in Rows
  BY <1>2 DEF LibraryTypes, P!LibraryTypeOK, Rows
<1>4. PICK s \in {"active", "trashed", "purged"} : cloud' = [cloud EXCEPT ![u] = s]
  BY DEF P!Elsewhere
<1>5. (bindings[u] = Nothing /\ cloud[u] = "absent") \/ cloud[u] \in {"active", "trashed"}
  BY DrawnIs DEF P!Elsewhere
<1>6. /\ cloud' \in Rows /\ PurgedStays
      /\ \A v \in Project : bindings[v] # Nothing /\ Gone(v) => Gone(v)'
  BY <1>3, <1>4, <1>5 DEF Rows, PurgedStays, Gone
<1>7. PurgedIsGone'
  BY <1>1, <1>2, <1>6 DEF RecordInv, PurgedIsGone
<1>8. LibraryTypes'
  BY <1>1, <1>2, <1>6 DEF LibraryTypes, P!LibraryTypeOK, Rows
<1>9. RecordInv' /\ ImportInv' /\ DiskInv'
  BY <1>1, <1>2, <1>6, <1>7, BindingsStay, RecordsStay, ImportsStay, DiskStays
<1>10. OpenAlone'
  BY <1>1, <1>2 DEF OpenAlone, P!Hidden
<1>11. TrashFits'
  BY <1>1, <1>2, <1>6 DEF P!BoundTo, P!Hidden, JobInv, TrashFits
<1>12. AnswerFits' /\ RestoreFits'
  BY <1>1, <1>2 DEF JobInv, AnswerFits, RestoreFits, P!InBin
<1>13. PurgeFits'
  BY <1>1, <1>2, <1>6 DEF LibraryTypes, Jobs, JobInv, PurgeFits, PurgedStays
<1>14. ImportFits'
  BY <1>1, <1>2 DEF JobInv, ImportFits, P!Hidden
<1>15. \A v \in Project : P!KnownPurged(v) => P!KnownPurged(v)'
  BY <1>1, <1>6 DEF P!KnownPurged, PurgedStays
<1> QED BY <1>8, <1>9, <1>10, <1>11, <1>12, <1>13, <1>14, <1>15 DEF LibraryInv, JobInv

-----------------------------------------------------------------------------
(* The works of one device, together *)

LEMMA LibraryStarts == ASSUME NothingIsNoWork PROVE P!LibraryInit => LibraryInv
<1> SUFFICES ASSUME P!LibraryInit PROVE LibraryInv
  OBVIOUS
<1>1. /\ cloud = [u \in Project |-> "absent"] /\ shelf = [t \in Title |-> Nothing]
      /\ identity = [w \in Work |-> Nothing] /\ marker = [w \in Work |-> Nothing]
      /\ written = {} /\ bins = [e \in P!Entry |-> Nothing]
      /\ index = [e \in P!Entry |-> Nothing] /\ bindings = [u \in Project |-> Nothing]
      /\ imports = [u \in Project |-> "none"] /\ opened = Nothing /\ job = Nothing
      /\ purged = {}
  BY DEF P!LibraryInit
<1>2. LibraryTypes
  BY <1>1 DEF LibraryTypes, P!LibraryTypeOK
<1>3. DiskInv
  BY <1>1 DEF DiskInv, Apart, Made, Placed
<1>4. RecordInv
  BY <1>1 DEF RecordInv, Listing, OneTitle, PurgedIsGone, P!BindingsOutliveFiles, P!InBin
<1>5. OpenAlone /\ ImportInv
  BY <1>1 DEF OpenAlone, ImportInv, Begun, Imported, Untouched
<1>6. JobInv
  BY <1>1 DEF JobInv, TrashFits, AnswerFits, RestoreFits, PurgeFits, ImportFits
<1> QED BY <1>2, <1>3, <1>4, <1>5, <1>6 DEF LibraryInv

LEMMA LibraryStep ==
  ASSUME NothingIsNoWork, LibraryInv, P!LibraryNext
  PROVE  LibraryInv'
<1>1. ASSUME NEW t \in Title, NEW w \in Work, NEW u \in Project, P!Create(t, w, u)
      PROVE  LibraryInv'
  BY <1>1, CreateStep
<1>2. ASSUME NEW t \in Title, NEW w \in Work, NEW u \in Project, NEW fresh \in Project,
             P!Import(u, t, w, fresh)
      PROVE  LibraryInv'
  BY <1>2, ImportStep
<1>3. ASSUME NEW t \in Title, P!Open(t) \/ P!TrashWork(t)
      PROVE  LibraryInv'
  BY <1>3, OpenStep, TrashWorkStep
<1>4. ASSUME NEW t \in Title, NEW new \in Title, P!Rename(t, new)
      PROVE  LibraryInv'
  BY <1>4, RenameStep
<1>5. CASE P!Close \/ P!Write \/ P!Sync
  BY <1>5, CloseStep, WriteStep, SyncStep
<1>6. CASE P!TrashAsk \/ P!TrashGone \/ P!TrashLost \/ P!TrashRecord \/ P!TrashMove
           \/ P!TrashFinish
  BY <1>6, TrashAskStep, TrashGoneStep, TrashLostStep, TrashRecordStep, TrashMoveStep,
     TrashFinishStep
<1>7. ASSUME NEW u \in Project, P!TrashServer(u) \/ P!Elsewhere(u)
      PROVE  LibraryInv'
  BY <1>7, TrashServerStep, ElsewhereStep
<1>8. CASE P!TrashServerAsk \/ P!TrashServerRecord
  BY <1>8, TrashServerAskStep, TrashServerRecordStep
<1>9. ASSUME NEW e \in P!Entry, P!Restore(e) \/ P!Purge(e)
      PROVE  LibraryInv'
  BY <1>9, RestoreStep, PurgeStep
<1>10. CASE P!RestoreAsk \/ P!RestoreRecord \/ P!RestoreMove
  BY <1>10, RestoreAskStep, RestoreRecordStep, RestoreMoveStep
<1>11. CASE P!PurgeAsk \/ P!PurgeRecord \/ P!PurgeFiles \/ P!PurgeRecords
  BY <1>11, PurgeAskStep, PurgeRecordStep, PurgeFilesStep, PurgeRecordsStep
<1>12. CASE P!ImportBind \/ P!ImportPull \/ P!ImportAdopt \/ P!ImportComplete
            \/ P!ImportMark
  BY <1>12, ImportBindStep, ImportPullStep, ImportAdoptStep, ImportCompleteStep,
     ImportMarkStep
<1>13. CASE P!DiskFails \/ P!Stop
  BY <1>13, DiskFailsStep, StopStep
<1> QED BY <1>1, <1>2, <1>3, <1>4, <1>5, <1>6, <1>7, <1>8, <1>9, <1>10, <1>11, <1>12,
           <1>13 DEF P!LibraryNext

LEMMA LibraryStutter ==
  ASSUME LibraryInv, UNCHANGED kept
  PROVE  LibraryInv'
<1>1. UNCHANGED <<cloud, shelf, identity, marker, written, bins, index, bindings, imports,
                  opened, job, purged>>
  BY DEF kept
<1>2. LibraryTypes' /\ DiskInv' /\ RecordInv' /\ ImportInv'
  BY <1>1, DiskStays, BindingsStay, RecordsStay, ImportsStay
     DEF LibraryInv, LibraryTypes, P!LibraryTypeOK, RecordInv, PurgedIsGone, Gone, PurgedStays
<1>3. OpenAlone'
  BY <1>1 DEF LibraryInv, OpenAlone, P!Hidden
<1>4. JobInv'
  BY <1>1 DEF LibraryInv, JobInv, TrashFits, AnswerFits, RestoreFits, PurgeFits, ImportFits,
     P!InBin, P!Hidden, P!BoundTo, Gone
<1> QED BY <1>2, <1>3, <1>4 DEF LibraryInv

\* The steps of IdentityIsKept, without their subscript.
IdentityStays == \A w \in written : identity'[w] = identity[w]

PurgesRemembered ==
  \A u \in Project : P!KnownPurged(u) /\ bindings'[u] # Nothing => P!KnownPurged(u)'

LEMMA IdentityStep ==
  ASSUME NothingIsNoWork, LibraryInv, P!LibraryNext
  PROVE  IdentityStays
<1>1. ASSUME NEW t \in Title, NEW w \in Work, NEW u \in Project, P!Create(t, w, u)
      PROVE  IdentityStays
  <2>1. identity[w] = Nothing /\ identity' = [identity EXCEPT ![w] = u]
    BY <1>1, NewIs DEF P!Create
  <2>2. /\ w \notin written /\ written \subseteq Work
        /\ identity \in [Work -> Project \cup {Nothing}]
    BY <2>1 DEF LibraryInv, ImportInv, Untouched, LibraryTypes, P!LibraryTypeOK
  <2> QED BY <2>1, <2>2 DEF IdentityStays
<1>2. ASSUME NEW t \in Title, NEW w \in Work, NEW u \in Project, NEW fresh \in Project,
             P!Import(u, t, w, fresh)
      PROVE  IdentityStays
  BY <1>2, ImportStep DEF IdentityStays
<1>3. CASE P!ImportAdopt
  BY <1>3, ImportAdoptStep DEF IdentityStays
<1>4. CASE UNCHANGED identity
  BY <1>4 DEF IdentityStays
<1>5. ASSUME NEW t \in Title, P!Open(t) \/ P!TrashWork(t) \/ \E new \in Title : P!Rename(t, new)
      PROVE  UNCHANGED identity
  BY <1>5 DEF P!Open, P!TrashWork, P!Rename
<1>6. CASE P!Close \/ P!Write \/ P!Sync \/ P!DiskFails \/ P!Stop
  BY <1>4, <1>6 DEF P!Close, P!Write, P!Sync, P!DiskFails, P!Stop, P!local
<1>7. CASE P!TrashAsk \/ P!TrashGone \/ P!TrashLost \/ P!TrashRecord \/ P!TrashMove
           \/ P!TrashFinish \/ P!TrashServerAsk \/ P!TrashServerRecord
  BY <1>4, <1>7 DEF P!TrashAsk, P!TrashGone, P!TrashLost, P!TrashRecord, P!TrashMove,
     P!TrashFinish, P!TrashServerAsk, P!TrashServerRecord, P!local
<1>8. ASSUME NEW u \in Project, P!TrashServer(u) \/ P!Elsewhere(u)
      PROVE  UNCHANGED identity
  BY <1>8 DEF P!TrashServer, P!Elsewhere, P!local
<1>9. ASSUME NEW e \in P!Entry, P!Restore(e) \/ P!Purge(e)
      PROVE  UNCHANGED identity
  BY <1>9 DEF P!Restore, P!Purge, P!local
<1>10. CASE P!RestoreAsk \/ P!RestoreRecord \/ P!RestoreMove
            \/ P!PurgeAsk \/ P!PurgeRecord \/ P!PurgeFiles \/ P!PurgeRecords
  BY <1>4, <1>10 DEF P!RestoreAsk, P!RestoreRecord, P!RestoreMove, P!PurgeAsk,
     P!PurgeRecord, P!PurgeFiles, P!PurgeRecords, P!local
<1>11. CASE P!ImportBind \/ P!ImportPull \/ P!ImportComplete \/ P!ImportMark
  BY <1>4, <1>11 DEF P!ImportBind, P!ImportPull, P!ImportComplete, P!ImportMark, P!local
<1> QED BY <1>1, <1>2, <1>3, <1>4, <1>5, <1>6, <1>7, <1>8, <1>9, <1>10, <1>11
        DEF P!LibraryNext

LEMMA PurgesStep ==
  ASSUME NothingIsNoWork, LibraryInv, P!LibraryNext
  PROVE  PurgesRemembered
<1>1. ASSUME \A v \in Project : P!KnownPurged(v) => P!KnownPurged(v)'
      PROVE  PurgesRemembered
  BY <1>1 DEF PurgesRemembered
<1>2. CASE UNCHANGED <<cloud, bindings>>
  BY <1>2 DEF PurgesRemembered, P!KnownPurged
<1>3. ASSUME UNCHANGED bindings, NEW r \in {"trash", "restore", "purge"},
             P!Answered(r) \/ UNCHANGED cloud, job.project \in Project
      PROVE  PurgesRemembered
  BY <1>3, AnswerIs DEF PurgesRemembered, P!KnownPurged, PurgedStays
<1>4. ASSUME NEW t \in Title, P!Open(t)
      PROVE  PurgesRemembered
  <2>1. t \in P!Listed /\ P!CanOpen(t) /\ bindings' = P!Bound(t) /\ UNCHANGED cloud
    BY <1>4 DEF P!Open
  <2>2. \A v \in Project : bindings[v] # Nothing => bindings'[v] = bindings[v]
    BY <2>1, BoundIs DEF LibraryInv, LibraryTypes, P!LibraryTypeOK
  <2> QED BY <2>1, <2>2 DEF PurgesRemembered, P!KnownPurged
<1>5. CASE P!Write
  <2>1. PICK u \in P!BoundTo(opened) : bindings' = [bindings EXCEPT ![u].waiting = TRUE]
    BY <1>5 DEF P!Write
  <2>2. bindings \in [Project -> {Nothing} \cup Binding] /\ UNCHANGED cloud
    BY <1>5 DEF P!Write, LibraryInv, LibraryTypes, P!LibraryTypeOK, Binding
  <2>3. u \in Project /\ bindings[u] \in Binding
    BY <2>2 DEF P!BoundTo
  <2> DEFINE b == [bindings[u] EXCEPT !.waiting = TRUE]
  <2>4. b \in Binding /\ b.state = bindings[u].state
    BY <2>3 DEF Binding
  <2>5. bindings' = [bindings EXCEPT ![u] = b]
    BY <2>1
  <2> HIDE DEF b
  <2> QED BY <2>2, <2>3, <2>4, <2>5 DEF PurgesRemembered, P!KnownPurged
<1>6. CASE P!Sync
  BY <1>1, <1>6, SyncStep
<1>7. CASE P!TrashAsk \/ P!TrashLost
  <2>1. job.project \in Project
    <3>1. P!At("trash", "ask")
      BY <1>7 DEF P!TrashAsk, P!TrashLost
    <3> QED BY <3>1 DEF P!At, LibraryInv, JobInv, TrashFits, P!BoundTo
  <2>2. UNCHANGED bindings /\ (P!Answered("trash") \/ UNCHANGED cloud)
    BY <1>7 DEF P!TrashAsk, P!TrashLost, P!Lost, P!local
  <2> QED BY <1>3, <2>1, <2>2
<1>8. CASE P!TrashServerAsk
  <2>1. job.project \in Project
    <3>1. P!At("server", "ask")
      BY <1>8 DEF P!TrashServerAsk
    <3> QED BY <3>1 DEF P!At, LibraryInv, LibraryTypes, Jobs, JobInv, AnswerFits
  <2>2. UNCHANGED bindings /\ (P!Answered("trash") \/ UNCHANGED cloud)
    BY <1>8 DEF P!TrashServerAsk, P!Lost, P!local
  <2> QED BY <1>3, <2>1, <2>2
<1>9. CASE P!RestoreAsk
  <2>1. job.project \in Project
    <3>1. P!At("restore", "ask")
      BY <1>9 DEF P!RestoreAsk
    <3> QED BY <3>1 DEF P!At, LibraryInv, LibraryTypes, Jobs, JobInv, AnswerFits
  <2>2. UNCHANGED bindings /\ (P!Answered("restore") \/ UNCHANGED cloud)
    BY <1>9 DEF P!RestoreAsk, P!Lost, P!local
  <2> QED BY <1>3, <2>1, <2>2
<1>10. CASE P!PurgeAsk
  <2>1. job.project \in Project
    <3>1. P!At("purge", "ask")
      BY <1>10 DEF P!PurgeAsk
    <3> QED BY <3>1 DEF P!At, LibraryInv, LibraryTypes, Jobs, JobInv, PurgeFits
  <2>2. UNCHANGED bindings /\ (P!Answered("purge") \/ UNCHANGED cloud)
    BY <1>10 DEF P!PurgeAsk, P!Lost, P!local
  <2> QED BY <1>3, <2>1, <2>2
<1>11. CASE P!TrashRecord \/ P!TrashFinish \/ P!TrashServerRecord \/ P!RestoreRecord
            \/ P!PurgeRecord
  BY <1>1, <1>11, TrashRecordStep, TrashFinishStep, TrashServerRecordStep,
     RestoreRecordStep, PurgeRecordStep
<1>12. CASE P!PurgeRecords
  BY <1>12, PurgeRecordsStep DEF PurgesRemembered
<1>13. CASE P!ImportBind
  BY <1>1, <1>13, ImportBindStep
<1>14. ASSUME NEW u \in Project, P!Elsewhere(u)
       PROVE  PurgesRemembered
  BY <1>1, <1>14, ElsewhereStep
<1>15. ASSUME NEW t \in Title,
              \/ \E w \in Work, u \in Project : P!Create(t, w, u)
              \/ \E w \in Work, u, fresh \in Project : P!Import(u, t, w, fresh)
              \/ P!TrashWork(t)
              \/ \E new \in Title : P!Rename(t, new)
       PROVE  UNCHANGED <<cloud, bindings>>
  BY <1>15 DEF P!Create, P!Import, P!TrashWork, P!Rename
<1>16. CASE P!Close \/ P!TrashGone \/ P!TrashMove \/ P!RestoreMove \/ P!PurgeFiles
            \/ P!ImportPull \/ P!ImportAdopt \/ P!ImportComplete \/ P!ImportMark
            \/ P!DiskFails \/ P!Stop
  BY <1>2, <1>16 DEF P!Close, P!TrashGone, P!TrashMove, P!RestoreMove, P!PurgeFiles,
     P!ImportPull, P!ImportAdopt, P!ImportComplete, P!ImportMark, P!DiskFails, P!Stop, P!local
<1>17. ASSUME NEW u \in Project, P!TrashServer(u)
       PROVE  UNCHANGED <<cloud, bindings>>
  BY <1>17 DEF P!TrashServer, P!local
<1>18. ASSUME NEW e \in P!Entry, P!Restore(e) \/ P!Purge(e)
       PROVE  UNCHANGED <<cloud, bindings>>
  BY <1>18 DEF P!Restore, P!Purge, P!local
<1> QED BY <1>2, <1>4, <1>5, <1>6, <1>7, <1>8, <1>9, <1>10, <1>11, <1>12, <1>13, <1>14,
           <1>15, <1>16, <1>17, <1>18 DEF P!LibraryNext

LEMMA LibraryInvMeans ==
  ASSUME NothingIsNoWork, LibraryInv
  PROVE  P!LibraryTypeOK /\ P!WorksStayInReach /\ P!BindingsOutliveFiles
<1>1. LibraryTypes /\ DiskInv /\ RecordInv
  BY DEF LibraryInv
<1>2. \A w \in Work : w # Nothing
  BY DEF NothingIsNoWork
<1>3. ASSUME NEW w \in Work, identity[w] # Nothing, w \in purged
      PROVE  P!Places(w) = {}
  BY <1>1, <1>2, <1>3 DEF DiskInv, Made, P!Places
<1>4. ASSUME NEW w \in Work, identity[w] # Nothing, w \notin purged
      PROVE  \E p \in P!Places(w) : P!Places(w) = {p}
  <2>1. ASSUME NEW t \in Title, shelf[t] = w
        PROVE  P!Places(w) = {t}
    BY <1>1, <1>2, <2>1 DEF DiskInv, Apart, P!Places
  <2>2. ASSUME NEW e \in P!Entry, bins[e] = w
        PROVE  P!Places(w) = {e}
    BY <1>1, <1>2, <2>2 DEF DiskInv, Apart, P!Places
  <2> QED BY <1>1, <1>4, <2>1, <2>2 DEF DiskInv, Placed
<1>5. P!WorksStayInReach
  BY <1>1, <1>3, <1>4 DEF P!WorksStayInReach, RecordInv, Listing
<1> QED BY <1>1, <1>5 DEF LibraryTypes, RecordInv

\* Whatever is lost, fails or stops between two steps of a job, and whatever other
\* devices do with the projects: a work on disk is on the shelf or in an entry the
\* trash lists, in one place only, and only the trash deletes it; and the binding of
\* a work in the trash waits at its title.
THEOREM WorksAreInReach ==
  ASSUME NothingIsNoWork PROVE ClientSpec => []WorksStayInReach
<1>1. ClientInit => LibraryInv
  BY LibraryStarts DEF ClientInit
<1>2. LibraryInv /\ [ClientNext]_<<part, vars, kept, edited>> => LibraryInv'
  BY LibraryStep, LibraryStutter DEF ClientNext
<1>3. LibraryInv => WorksStayInReach
  BY LibraryInvMeans DEF WorksStayInReach
<1> QED BY <1>1, <1>2, <1>3, PTL DEF ClientSpec

\* A work the writer has worked in keeps its uuid: an import adopts the server's
\* only into a work it has kept hidden.  And what the device knows to be purged it
\* takes for alive no more, however late an answer arrives.
THEOREM IdentityStaysKept ==
  ASSUME NothingIsNoWork PROVE ClientSpec => IdentityIsKept
<1>1. ClientInit => LibraryInv
  BY LibraryStarts DEF ClientInit
<1>2. LibraryInv /\ [ClientNext]_<<part, vars, kept, edited>> => LibraryInv'
  BY LibraryStep, LibraryStutter DEF ClientNext
<1>3. LibraryInv /\ [ClientNext]_<<part, vars, kept, edited>> =>
        [IdentityStays]_(P!libraryVars) /\ [PurgesRemembered]_(P!libraryVars)
  BY IdentityStep, PurgesStep DEF ClientNext, kept, P!libraryVars, P!local, P!bounds
<1>4. ClientSpec => [][IdentityStays]_(P!libraryVars) /\ [][PurgesRemembered]_(P!libraryVars)
  BY <1>1, <1>2, <1>3, PTL DEF ClientSpec
<1>5. [][IdentityStays]_(P!libraryVars) => P!WrittenKeepIdentity
  BY PTL DEF IdentityStays, P!WrittenKeepIdentity
<1>6. [][PurgesRemembered]_(P!libraryVars) => P!PurgedIsRemembered
  BY PTL DEF PurgesRemembered, P!PurgedIsRemembered
<1> QED BY <1>4, <1>5, <1>6 DEF IdentityIsKept
=============================================================================
