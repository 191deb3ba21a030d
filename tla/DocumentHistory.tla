--------------------------- MODULE DocumentHistory ---------------------------
(***************************************************************************)
(* What the server promises its clients, with no leases, clocks, roles or  *)
(* transactions: a document is a list of snapshots that only grows, every  *)
(* operation contributes at most one snapshot to one document, a live path *)
(* names one document, and closing a project is final.                     *)
(***************************************************************************)
EXTENDS Naturals, Sequences

CONSTANTS Project, Document, Path, Content, Operation

Snapshot ==
  [project : Project, op : Operation, path : Path, content : Content,
   deleted : BOOLEAN]

VARIABLES
  history,     \* the snapshots of each document, oldest first
  closed       \* projects that are gone for good

Newest(d) == history[d][Len(history[d])]

Known(d) == history[d] # <<>>

Applied(op) ==
  \E d \in Document : \E i \in 1 .. Len(history[d]) : history[d][i].op = op

NamesAnother(d, s) ==
  \E e \in Document \ {d} :
    /\ Known(e)
    /\ Newest(e).project = s.project
    /\ Newest(e).path = s.path
    /\ ~ Newest(e).deleted

\* One more snapshot of d.  The first one makes the document, so it is live.
Extend(d, s) ==
  /\ s.project \notin closed
  /\ ~ Applied(s.op)
  /\ IF Known(d) THEN s.project = Newest(d).project ELSE ~ s.deleted
  /\ s.deleted \/ ~ NamesAnother(d, s)
  /\ history' = [history EXCEPT ![d] = history[d] \o <<s>>]
  /\ UNCHANGED closed

\* A project takes its documents with it and can take no more.
Close(p) ==
  /\ closed' = closed \cup {p}
  /\ history' = [d \in Document |->
                   IF Known(d) /\ Newest(d).project = p THEN <<>>
                   ELSE history[d]]

HistoryInit ==
  /\ history = [d \in Document |-> <<>>]
  /\ closed = {}

HistoryNext ==
  \/ \E d \in Document, s \in Snapshot : Extend(d, s)
  \/ \E p \in Project : Close(p)

HistorySpec == HistoryInit /\ [][HistoryNext]_<<history, closed>>
=============================================================================
