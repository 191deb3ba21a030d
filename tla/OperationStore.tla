---------------------------- MODULE OperationStore ----------------------------
(***************************************************************************)
(* The durable operation queue of one Windows device, sync_v2_store.py: what *)
(* each SQLite transaction does to a store s.                              *)
(*                                                                         *)
(*   s.ops[i]   the i-th row of sync_operations (i is its queue_id), with  *)
(*              the state derived from its last event                      *)
(*   s.rows[d]  the row of document d in sync_documents                    *)
(*                                                                         *)
(* A Text is everything one save sends: path, content and deleted flag.    *)
(***************************************************************************)
EXTENDS Naturals, Sequences

CONSTANTS Document, Text, NoBase, NoRow

\* NoBase is the NULL base_revision of an edit that waits for an earlier one.
State == {"pending", "inflight", "retry_wait", "blocked", "conflict",
          "completed", "cancelled"}

TerminalStates == {"completed", "cancelled"}

OpRow ==
  [doc : Document, base : Nat \cup {NoBase}, from : Text, text : Text,
   state : State]

\* clash holds the two texts a conflict left the writer to choose from.
Row ==
  [revision : Nat, base : Text, sync : {"synced", "pending", "conflict"},
   clash : SUBSET Text]

Store == [ops : Seq(OpRow), rows : [Document -> Row \cup {NoRow}]]

ASSUME StoreAssumption == NoBase \notin Nat /\ NoRow \notin Row

EmptyStore == [ops |-> <<>>, rows |-> [d \in Document |-> NoRow]]

-----------------------------------------------------------------------------
(* Reading the store *)

Active(o) == o.state \notin TerminalStates

\* Saved and still on its way; a stopped operation is active but not waiting.
Waiting(o) == o.state \in {"pending", "inflight", "retry_wait"}

Ready(o) == o.state \in {"pending", "retry_wait"}

OpsOf(s, d) == {i \in DOMAIN s.ops : s.ops[i].doc = d}

ActiveOf(s, d) == {i \in OpsOf(s, d) : Active(s.ops[i])}

HasActive(s, d) == ActiveOf(s, d) # {}

\* Mutant: does not count the operation in flight.
ReadyOf(s, d) == {i \in OpsOf(s, d) : Ready(s.ops[i])}

WaitingOf(s, d) == {i \in OpsOf(s, d) : Waiting(s.ops[i])}

\* Edits that wait for an earlier operation to tell them their base.
DependentsOf(s, d) ==
  {i \in OpsOf(s, d) : s.ops[i].base = NoBase /\ Ready(s.ops[i])}

First(I) == CHOOSE i \in I : \A j \in I : i <= j

Last(I) == CHOOSE i \in I : \A j \in I : j <= i

\* Operations next_ready_operation may hand out.
Dispatchable(s) ==
  {i \in DOMAIN s.ops : s.ops[i].base # NoBase /\ Ready(s.ops[i])}

-----------------------------------------------------------------------------
(* Steps the transactions are made of *)

\* One event appended to each operation of I.
SetState(s, I, state) ==
  [s EXCEPT !.ops = [i \in DOMAIN s.ops |->
     IF i \in I THEN [s.ops[i] EXCEPT !.state = state] ELSE s.ops[i]]]

Insert(s, d, base, from, text) ==
  [s EXCEPT !.ops = Append(s.ops,
     [doc |-> d, base |-> base, from |-> from, text |-> text,
      state |-> "pending"])]

SetRow(s, d, row) == [s EXCEPT !.rows = [s.rows EXCEPT ![d] = row]]

SetSync(s, d, sync) == SetRow(s, d, [s.rows[d] EXCEPT !.sync = sync])

\* The text the document's next change starts from.
SetBase(s, d, revision, base, sync) ==
  SetRow(s, d, [s.rows[d] EXCEPT
    !.revision = revision, !.base = base, !.sync = sync])

CleanRow(revision, base) ==
  [revision |-> revision, base |-> base, sync |-> "synced", clash |-> {}]

\* The oldest of the edits I is re-issued on a known base, under a new id.
Reissue(s, d, I, base, from) ==
  LET i == First(I)
  IN  SetState(Insert(s, d, base, from, s.ops[i].text), {i}, "cancelled")

Promote(s, d, base, from) ==
  IF DependentsOf(s, d) = {} THEN s
  ELSE Reissue(s, d, DependentsOf(s, d), base, from)

-----------------------------------------------------------------------------
(* The transactions *)

\* A document never seen before starts at revision 0 from its own content.
EnsureDocument(s, d, text) ==
  IF s.rows[d] = NoRow THEN SetRow(s, d, CleanRow(0, text)) ELSE s

\* One more operation; a conflict that was being shown is no longer.
InsertSave(s, d, base, from, text) ==
  LET u == Insert(s, d, base, from, text)
  IN  SetRow(u, d, [u.rows[d] EXCEPT !.sync = "pending", !.clash = {}])

\* A save cancels what stopped, and joins the last edit still on its way when
\* it says the same.
Enqueue(s, d, text) ==
  LET known   == EnsureDocument(s, d, text)
      stopped == {i \in OpsOf(s, d) : s.ops[i].state \in {"conflict", "blocked"}}
      u       == SetState(known, stopped, "cancelled")
      waiting == WaitingOf(s, d)
  IN  IF waiting = {}
      THEN InsertSave(u, d, u.rows[d].revision, u.rows[d].base, text)
      ELSE IF s.ops[Last(waiting)].text = text
      THEN u
      ELSE InsertSave(u, d, NoBase, s.ops[Last(waiting)].text, text)

MarkAttempt(s, i) == SetState(s, {i}, "inflight")

MarkRetry(s, i) ==
  IF s.ops[i].state \in TerminalStates \cup {"retry_wait"} THEN s
  ELSE SetSync(SetState(s, {i}, "retry_wait"), s.ops[i].doc, "pending")

MarkBlocked(s, i) == SetState(s, {i}, "blocked")

\* A refused tree-order snapshot gives way to the next one already saved.
MarkBlockedAndPromoteDependent(s, i) ==
  LET d == s.ops[i].doc
      b == MarkBlocked(s, i)
  IN  IF DependentsOf(b, d) = {} THEN b
      ELSE SetSync(SetState(Promote(b, d, b.rows[d].revision, b.rows[d].base),
                            {i}, "cancelled"),
                   d, "pending")

\* Mutant: takes the newest save for the one that was answered.
NewestText(s, i) == s.ops[Last(OpsOf(s, s.ops[i].doc))].text

\* What the server recorded is what this operation sent.
AcceptedText(s, i) == s.ops[i].text

\* The answer's revision becomes the document's, and the oldest edit that
\* waited for it goes next.
MarkSuccess(s, i, revision) ==
  LET d     == s.ops[i].doc
      done  == SetState(s, {i}, "completed")
      text  == AcceptedText(s, i)
      state == IF HasActive(done, d) THEN "pending" ELSE "synced"
  IN  IF s.ops[i].state = "completed" THEN s
      ELSE Promote(SetBase(done, d, revision, text, state), d, revision, text)

\* The merged text replaces every operation of the document.
RebaseCleanMerge(s, i, revision, remote, merged) ==
  LET d == s.ops[i].doc
  IN  SetBase(SetState(Insert(s, d, revision, remote, merged),
                       ActiveOf(s, d), "cancelled"),
              d, revision, remote, "pending")

\* The operation stops, every edit behind it stops with it, and the server's
\* text becomes the document's base.
MarkConflict(s, i, revision, remote, local) ==
  LET d      == s.ops[i].doc
      behind == WaitingOf(s, d) \ {i}
  IN  SetRow(SetState(SetState(s, behind, "blocked"), {i}, "conflict"), d,
             [revision |-> revision, base |-> remote, sync |-> "conflict",
              clash |-> {local, remote}])

\* An edit whose predecessor will never answer is re-issued on the last
\* accepted revision; at most one per document in one pass.
Stranded(s, d) ==
  /\ DependentsOf(s, d) # {}
  /\ \A i \in WaitingOf(s, d) : s.ops[i].base = NoBase

RecoverStranded(s, d) ==
  IF Stranded(s, d) THEN Promote(s, d, s.rows[d].revision, s.rows[d].base)
  ELSE s

\* Mutant: does not look for queued work.
AcceptsNewer(s, d, revision) ==
  s.rows[d] # NoRow => s.rows[d].revision < revision

\* A pulled snapshot enters the store only when nothing of the document is
\* queued and the snapshot is newer.
AcceptsRemote(s, d, revision) ==
  /\ ~ HasActive(s, d)
  /\ s.rows[d] # NoRow => s.rows[d].revision < revision

ApplyRemoteSnapshot(s, d, revision, remote) ==
  SetRow(s, d, CleanRow(revision, remote))

\* Opening the store: the process that dispatched them is gone.
RecoverInterruptedDispatches(s) ==
  SetState(s, {i \in DOMAIN s.ops : s.ops[i].state = "inflight"},
           "retry_wait")
=============================================================================
