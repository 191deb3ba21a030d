---------------------------- MODULE IntegratedEditor ----------------------------
(* The integrated editor of a staging project (integrated_editor_store, _sync   *)
(* and _ui): a workspace of documents and folders in one SQLite row, a queue of *)
(* jobs that become immutable requests one at a time, the reviewed run whose    *)
(* budget pays for every request, and the cycle that recovers, receives and     *)
(* sends. Every change of the workspace is one transaction; the program may     *)
(* die between two of them, and between one and the files that show it.         *)
(*                                                                              *)
(* Left out: names and the documents nobody may edit, the integrity errors only *)
(* a broken server provokes, and the scope a reviewer gives a run: every id is  *)
(* in it. Folders lie at the top. Requests that follow each other are one: the  *)
(* login and the handshake, the documents and the tables read before them, the  *)
(* two reads of a receipt. The server is the contract's: a request applies to   *)
(* the revisions it names or is refused, and leaves a receipt.                  *)
EXTENDS Integers, Sequences, FiniteSets, SequencesExt, TLC

CONSTANTS
  Folder, Document,
  Top,            \* the root of the project
  Text,           \* what can be typed, besides nothing at all
  Nothing,
  MaxRequests,    \* max_requests of the approval
  MaxEmpty,       \* max_empty_cycles of its automatic policy
  MaxActs,        \* bound: what the writer does
  MaxSurprises    \* bound: commits of the other device, lost calls, deaths of the
                  \* program and the deadline, together

VARIABLES
  ws,             \* the row of the table state
  files,          \* manuscripts/<uuid>.txt
  cycle,          \* IntegratedNetwork.cycle, or "down" without a program
  scheduler,      \* none before the connection; AutoSync.enabled
  server,
  arrivals,       \* history: the jobs whose requests were put on the wire
  past            \* history: foreign commits, receptions during a recovery; bounds

editorVars == <<ws, files, cycle, scheduler, server, arrivals, past>>

Node == Folder \cup Document
Parent == Folder \cup {Top}
Texts == Text \cup {""}

-----------------------------------------------------------------------------
(* The workspace *)

Fresh(n, parent) ==
  [parent |-> parent, deleted |-> FALSE, rev |-> 0, srev |-> 1,
   text |-> IF n \in Document THEN "" ELSE Nothing]

\* A node or an order without its revisions.
Semantic(row) ==
  IF row = Nothing THEN Nothing
  ELSE [k \in DOMAIN row \ {"rev", "srev"} |-> row[k]]

Known(w) == {n \in Node : w.rows[n] # Nothing}
Live(w) == {n \in Known(w) : ~ w.rows[n].local.deleted}
ChildrenOf(w, p) == {n \in Live(w) : w.rows[n].local.parent = p}
Dirty(w, d) == w.rows[d].draft # w.rows[d].local.text
Open(w) == {i \in DOMAIN w.jobs : w.jobs[i].status # "completed"}
NextJob(w) == IF Open(w) = {} THEN 0 ELSE CHOOSE i \in Open(w) : \A j \in Open(w) : i <= j
Contents(w) ==
  [d \in Document |-> IF d \in Known(w) THEN w.rows[d].local.text ELSE Nothing]

Queue(w, kind, key, before, after) ==
  [w EXCEPT !.jobs = Append(@, [kind |-> kind, key |-> key, before |-> before,
              after |-> after, status |-> "pending", response |-> Nothing])]

\* validate_nodes on what the writer would be left with.
ValidTree(w) ==
  \A n \in Live(w) :
    LET p == w.rows[n].local.parent IN
      p = Top \/ (p \in Known(w) /\ ~ w.rows[p].local.deleted)

\* _refresh_orders for one folder: what is gone goes, what is new comes last.
NoOrder == [rev |-> 0, children |-> <<>>]
RefreshOrder(w, p) ==
  LET known == IF w.orders[p] = Nothing
                 THEN [base |-> Nothing, local |-> NoOrder] ELSE w.orders[p]
      kept == SelectSeq(known.local.children, LAMBDA n : n \in ChildrenOf(w, p))
      new == [known.local EXCEPT !.children =
                kept \o SetToSeq(ChildrenOf(w, p) \ ToSet(kept))]
      put == [w EXCEPT !.orders[p] = [known EXCEPT !.local = new]]
  IN IF new = known.local THEN put ELSE Queue(put, "order", p, known.local, new)

RefreshOrders(w, parents) ==
  FoldLeft(RefreshOrder, w,
           FoldLeft(LAMBDA s, p : IF p \in ToSet(s) THEN s ELSE Append(s, p),
                    <<>>, parents))

-----------------------------------------------------------------------------
(* The writer: integrated_editor_ui keeps its buttons and the editor shut while *)
(* a cycle runs                                                                 *)

Idle == cycle.at = "idle"

Spend(what) ==
  /\ IF what = "acts" THEN past.acts < MaxActs
     ELSE past.peer + past.faults < MaxSurprises
  /\ past' = [past EXCEPT ![what] = @ + 1]

\* materialize: the files follow the workspace, each by a replace and a receipt.
\* It refuses a file that is neither.
Foreign(w) ==
  {d \in Document : files[d] \notin {Contents(w)[d], w.projected[d]}}

Projection(w) ==
  /\ Foreign(w) = {}
  /\ files' = Contents(w)
  /\ ws' = [w EXCEPT !.projected = Contents(w)]

\* A transaction that materialize follows, or that the program dies after.
Down == [at |-> "down"]
DiesProjecting(w) ==
  \E D \in SUBSET Document : \E R \in SUBSET D :
    /\ files' = [d \in Document |-> IF d \in D THEN Contents(w)[d] ELSE files[d]]
    /\ ws' = [w EXCEPT !.projected =
                [d \in Document |-> IF d \in R THEN Contents(w)[d] ELSE @[d]]]

Written(w) ==
  \/ /\ Projection(w)
     /\ Spend("acts")
     /\ UNCHANGED <<cycle, scheduler>>
  \/ /\ DiesProjecting(w)
     /\ Spend("faults")
     /\ cycle' = Down
     /\ scheduler' = "none"

Changed(w) ==
  /\ ws' = w
  /\ Spend("acts")
  /\ UNCHANGED <<files, cycle, scheduler>>

Editable(n) == Idle /\ n \in Known(ws) /\ ws.rows[n].own

\* text_changed: every keystroke is recorded.
Type(d, text) ==
  /\ Editable(d) /\ d \in Live(ws)
  /\ ws.rows[d].draft # text
  /\ ws' = [ws EXCEPT !.rows[d].draft = text]
  /\ UNCHANGED <<files, cycle, scheduler, server, arrivals, past>>

Save(d) ==
  /\ Editable(d) /\ d \in Live(ws)
  /\ Dirty(ws, d)
  /\ LET w == [ws EXCEPT !.rows[d].local.text = ws.rows[d].draft] IN
       Written(Queue(w, "body", d, ws.rows[d].local, w.rows[d].local))
  /\ UNCHANGED <<server, arrivals>>

\* The uuid of a new node is nobody's.
Create(n, p) ==
  /\ Idle
  /\ n \notin Known(ws) /\ server.rows[n] = Nothing
  /\ IF n \in Folder THEN p = Top ELSE p = Top \/ p \in Live(ws)
  /\ LET row == Fresh(n, p)
         w == [ws EXCEPT !.rows[n] =
                 [base |-> Nothing, local |-> row, draft |-> row.text, own |-> TRUE]]
     IN /\ ValidTree(w)
        /\ Written(RefreshOrders(Queue(w, "create", n, Nothing, row), <<p>>))
  /\ UNCHANGED <<server, arrivals>>

Relocate(d, p) ==
  /\ Editable(d) /\ d \in Live(ws)
  /\ p = Top \/ p \in Known(ws)
  /\ LET old == ws.rows[d].local
         w == [ws EXCEPT !.rows[d].local.parent = p]
     IN /\ p # old.parent
        /\ ValidTree(w)
        /\ Changed(RefreshOrders(Queue(w, "relocate", d, old, w.rows[d].local),
                                 <<old.parent, p>>))
  /\ UNCHANGED <<server, arrivals>>

\* lifecycle, for each node of the group in its turn.
Turn(w, n, deleted) ==
  LET old == w.rows[n].local
      new == [old EXCEPT !.deleted = deleted]
  IN Queue([w EXCEPT !.rows[n].local = new],
           IF deleted THEN "delete" ELSE "restore", n, old, new)

\* The group of a deletion is restored with it, and no older deletion is.
Lifecycle(n, deleted) ==
  /\ Editable(n)
  /\ ws.rows[n].local.deleted # deleted
  /\ LET group == IF deleted THEN <<n>> \o SetToSeq(ChildrenOf(ws, n))
                  ELSE SelectSeq(IF ws.groups[n] = <<>> THEN <<n>> ELSE ws.groups[n],
                                 LAMBDA m : ws.rows[m].local.deleted)
         ordered == IF deleted THEN Reverse(group) ELSE group
         w == FoldLeft(LAMBDA v, m : Turn(v, m, deleted), ws, ordered)
         kept == IF deleted THEN [w EXCEPT !.groups[n] = group] ELSE w
     IN /\ \A m \in ToSet(group) : ws.rows[m].own /\ ~ Dirty(ws, m)
        /\ ValidTree(w)
        /\ Changed(RefreshOrders(kept, [i \in DOMAIN ordered |->
                                          ws.rows[ordered[i]].local.parent]))
  /\ UNCHANGED <<server, arrivals>>

Reorder(p, children) ==
  /\ Idle
  /\ ToSet(children) = ChildrenOf(ws, p) /\ IsInjective(children)
  /\ LET w == RefreshOrder(ws, p)
         old == w.orders[p].local
         new == [old EXCEPT !.children = children]
     IN Changed(IF new = old THEN w
                ELSE Queue([w EXCEPT !.orders[p].local = new], "order", p, old, new))
  /\ UNCHANGED <<server, arrivals>>

-----------------------------------------------------------------------------
(* The cycle up to its first request *)

\* prepare_next: the job starts from what the server was last known to have.
BaseOf(w, job) ==
  LET row == IF job.kind = "order" THEN w.orders[job.key] ELSE w.rows[job.key] IN
    row.base

FirstOrder(w, job) ==
  job.kind = "order" /\ BaseOf(w, job) = Nothing /\ job.before = NoOrder

Preparable(w, job) ==
  IF job.before = Nothing \/ FirstOrder(w, job)
    THEN BaseOf(w, job) = Nothing
    ELSE Semantic(BaseOf(w, job)) = Semantic(job.before)

MayRun == ~ ws.run.stopped /\ ws.run.used < MaxRequests
StopReason(w) == w.run.empty >= MaxEmpty

\* The automatic cycle waits for drafts, the writer's own does not.
Waits == \E d \in Document \cap Live(ws) : Dirty(ws, d)

MayStart(auto) ==
  /\ Idle /\ scheduler # "none"
  /\ auto => ws.auto /\ scheduler = "on" /\ ~ Waits

\* What refuses the cycle before it has asked for anything.
Refused(auto, receive) ==
  \/ ~ MayRun
  \/ auto /\ StopReason(ws)
  \/ Foreign(ws) # {}
  \/ ~ receive /\ ws.conflicts # {}
  \/ ~ receive /\ Open(ws) # {} /\
       (ws.jobs[NextJob(ws)].status = "blocked"
        \/ (ws.jobs[NextJob(ws)].status = "pending" /\ ~ Preparable(ws, ws.jobs[NextJob(ws)])))

Unread == [nodes |-> [n \in Node |-> Nothing], orders |-> [p \in Parent |-> Nothing]]

Begin(auto, receive) ==
  /\ MayStart(auto)
  /\ ~ Refused(auto, receive)
  /\ LET i == IF receive THEN 0 ELSE NextJob(ws)
         prepared == IF i # 0 /\ ws.jobs[i].status = "pending"
                       THEN [ws EXCEPT !.jobs[i].status = "prepared"] ELSE ws
     IN /\ ws' = [prepared EXCEPT !.projected = Contents(ws),
                    !.run.empty = IF auto /\ i = 0 THEN @ + 1 ELSE @,
                    !.auto = @ /\ ~ (auto /\ i = 0 /\ ws.run.empty + 1 = MaxEmpty)]
        /\ files' = Contents(ws)
        /\ cycle' = [at |-> "auth", auto |-> auto, job |-> i, seen |-> Unread]
        /\ past' = [past EXCEPT !.blind = @ \/ (receive /\ \E j \in DOMAIN ws.jobs :
                                                  ws.jobs[j].status = "uncertain")]
  /\ UNCHANGED <<scheduler, server, arrivals>>

\* tick: an error of the editor ends the automatic cycles.
Halt(auto) == scheduler' = IF auto THEN "off" ELSE scheduler

RefuseCycle ==
  /\ MayStart(TRUE)
  /\ Refused(TRUE, FALSE)
  /\ ws' = [ws EXCEPT !.run.stopped = @ \/ ~ MayRun]
  /\ scheduler' = "off"
  /\ UNCHANGED <<files, cycle, server, arrivals, past>>

-----------------------------------------------------------------------------
(* Requests *)

Ended == [at |-> "idle"]

\* reserve_request: paid for before it leaves.
Paid(w) == [w EXCEPT !.run.used = @ + 1]

Asks(at) == cycle.at = at /\ MayRun

Authenticate ==
  /\ Asks("auth")
  /\ ws' = Paid(ws)
  /\ cycle' =
       IF cycle.job = 0 \/ ws.jobs[cycle.job].status # "uncertain"
         THEN [cycle EXCEPT !.at = "documents"]
         ELSE IF ws.jobs[cycle.job].response = Nothing
                THEN [cycle EXCEPT !.at = "receipt"]
                ELSE [at |-> "record", auto |-> cycle.auto, job |-> cycle.job,
                      answer |-> ws.jobs[cycle.job].response]
  /\ UNCHANGED <<files, scheduler, server, arrivals, past>>

\* receipt: only an applied request has one.
FetchReceipt ==
  /\ Asks("receipt")
  /\ ws' = Paid(ws)
  /\ IF cycle.job \in server.applied
       THEN /\ cycle' = [at |-> "record", auto |-> cycle.auto, job |-> cycle.job,
                         answer |-> "applied"]
            /\ UNCHANGED scheduler
       ELSE cycle' = Ended /\ Halt(cycle.auto)
  /\ UNCHANGED <<files, server, arrivals, past>>

\* snapshot: a table after the other.
ReadNodes(at, next, kinds) ==
  /\ Asks(at)
  /\ ws' = Paid(ws)
  /\ cycle' = [cycle EXCEPT !.at = next,
                 !.seen.nodes = [n \in Node |->
                    IF n \in kinds THEN server.rows[n] ELSE @[n]]]
  /\ UNCHANGED <<files, scheduler, server, arrivals, past>>

ReadOrders ==
  /\ Asks("orders")
  /\ ws' = Paid(ws)
  /\ cycle' = [cycle EXCEPT !.at = "accept", !.seen.orders = server.orders]
  /\ UNCHANGED <<files, scheduler, server, arrivals, past>>

\* decode_snapshot: what two readings disagree about is asked for again.
There(nodes) == {n \in Node : nodes[n] # Nothing}
LiveIn(nodes, p) == {n \in There(nodes) : ~ nodes[n].deleted /\ nodes[n].parent = p}

Decodable(seen, transitional) ==
  /\ \A n \in There(seen.nodes) :
       LET p == seen.nodes[n].parent IN
         p # Top => p \in There(seen.nodes)
                    /\ (seen.nodes[n].deleted \/ ~ seen.nodes[p].deleted)
  /\ \A p \in Parent : seen.orders[p] # Nothing =>
       /\ p = Top \/ p \in There(seen.nodes)
       /\ ToSet(seen.orders[p].children) \subseteq There(seen.nodes)
       /\ transitional \/ ToSet(seen.orders[p].children) = LiveIn(seen.nodes, p)
  /\ transitional \/ \A n \in There(seen.nodes) :
       seen.nodes[n].deleted \/ seen.orders[seen.nodes[n].parent] # Nothing

\* Mutant: asks for the difference of the row alone.
AwaitsNothing(n) == FALSE

\* The job of an order bears the id of the order, which is no node's.
Awaits(n) == \E i \in Open(ws) : ws.jobs[i].kind # "order" /\ ws.jobs[i].key = n

\* accept_snapshot: the rows that changed there and here.
NodeConflicts(seen) ==
  {n \in Known(ws) :
     LET row == ws.rows[n] IN
       IF row.base = Nothing THEN seen.nodes[n] # Nothing
       ELSE /\ seen.nodes[n] # row.base
            /\ \/ ~ row.own
               \/ Semantic(row.local) # Semantic(row.base)
               \/ Dirty(ws, n)
               \/ Awaits(n)}

OrderConflicts(seen) ==
  {p \in Parent : ws.orders[p] # Nothing /\
     LET row == ws.orders[p] IN
       IF row.base = Nothing THEN seen.orders[p] # Nothing
       ELSE /\ seen.orders[p] # row.base
            /\ row.local.children # row.base.children \/ Open(ws) # {}}

\* A row of an id in the scope may be edited; one that was there stays as it was.
Received(seen) ==
  [ws EXCEPT
     !.rows = [n \in Node |->
        IF seen.nodes[n] = Nothing THEN @[n]
        ELSE IF n \notin Known(ws) \/ @[n].base # seen.nodes[n]
          THEN [base |-> seen.nodes[n], local |-> seen.nodes[n],
                draft |-> seen.nodes[n].text,
                own |-> n \notin Known(ws) \/ @[n].own]
          ELSE @[n]],
     !.orders = [p \in Parent |->
        IF seen.orders[p] = Nothing \/ (@[p] # Nothing /\ @[p].base = seen.orders[p])
          THEN @[p]
          ELSE [base |-> seen.orders[p], local |-> seen.orders[p]]]]

AskAgain ==
  /\ cycle.at = "accept"
  /\ ~ Decodable(cycle.seen, Open(ws) # {})
  /\ cycle' = Ended
  /\ UNCHANGED <<ws, files, scheduler, server, arrivals, past>>

ShowConflict ==
  /\ cycle.at = "accept"
  /\ Decodable(cycle.seen, Open(ws) # {})
  /\ NodeConflicts(cycle.seen) # {} \/ OrderConflicts(cycle.seen) # {}
  /\ ws' = [ws EXCEPT !.conflicts = @ \cup {"snapshot"}]
  /\ cycle' = Ended
  /\ Halt(cycle.auto)
  /\ UNCHANGED <<files, server, arrivals, past>>

Accept ==
  /\ cycle.at = "accept"
  /\ Decodable(cycle.seen, Open(ws) # {})
  /\ NodeConflicts(cycle.seen) = {} /\ OrderConflicts(cycle.seen) = {}
  /\ \/ /\ Projection(Received(cycle.seen))
        /\ cycle' = IF cycle.job = 0 THEN Ended
                    ELSE [at |-> "post", auto |-> cycle.auto, job |-> cycle.job]
        /\ UNCHANGED <<scheduler, past>>
     \/ /\ DiesProjecting(Received(cycle.seen))
        /\ Spend("faults")
        /\ cycle' = Down
        /\ scheduler' = "none"
  /\ UNCHANGED <<server, arrivals>>

\* Mutant: the request is uncertain only once its answer is late.
ReserveUnmarked(w, i) == Paid(w)

\* The request is uncertain from before it leaves until its answer is recorded.
Reserve(w, i) == [Paid(w) EXCEPT !.jobs[i].status = "uncertain"]

Post ==
  /\ Asks("post")
  /\ ws.jobs[cycle.job].status = "prepared"
  /\ ws' = Reserve(ws, cycle.job)
  /\ arrivals' = Append(arrivals, cycle.job)
  /\ cycle' = [cycle EXCEPT !.at = "wire"]
  /\ UNCHANGED <<files, scheduler, server, past>>

-----------------------------------------------------------------------------
(* The server *)

\* The revisions prepare_next puts into the request of a job: a document_commit
\* names both of the document, the move of one that of its place.
Named(job, row) ==
  IF row = Nothing THEN Nothing
  ELSE IF job.kind = "order" \/ job.key \in Folder THEN row.rev
  ELSE IF job.kind = "relocate" THEN row.srev
  ELSE <<row.rev, row.srev>>

Target(job) ==
  IF job.kind = "order" THEN server.orders[job.key] ELSE server.rows[job.key]

Applies(job) ==
  /\ Named(job, Target(job)) = Named(job, BaseOf(ws, job))
  /\ IF job.kind = "order"
       THEN ToSet(job.after.children) = LiveIn(server.rows, job.key)
     ELSE IF job.after.deleted THEN LiveIn(server.rows, job.key) = {}
     ELSE LET p == job.after.parent IN
            p = Top \/ (server.rows[p] # Nothing /\ ~ server.rows[p].deleted)

\* An order is written whole, a document by document_commit, the place of a
\* document and what becomes of a folder by atomic_structure_commit.
Served(job) ==
  LET old == Target(job)
  IN IF job.kind = "order"
       THEN [job.after EXCEPT !.rev = 1 + (IF old = Nothing THEN 0 ELSE old.rev)]
     ELSE IF old = Nothing THEN [job.after EXCEPT !.rev = 1, !.srev = 1]
     ELSE IF job.kind = "relocate"
       THEN [old EXCEPT !.parent = job.after.parent, !.srev = @ + 1]
       ELSE [job.after EXCEPT !.rev = old.rev + 1, !.srev = old.srev]

Serve ==
  /\ cycle.at = "wire"
  /\ LET job == ws.jobs[cycle.job] IN
       IF Applies(job)
         THEN /\ server' =
                   [(IF job.kind = "order"
                       THEN [server EXCEPT !.orders[job.key] = Served(job)]
                       ELSE [server EXCEPT !.rows[job.key] = Served(job)])
                     EXCEPT !.applied = @ \cup {cycle.job}]
              /\ cycle' = [cycle EXCEPT !.at = "answered"] @@ [answer |-> "applied"]
         ELSE /\ cycle' = [cycle EXCEPT !.at = "answered"] @@ [answer |-> "rejected"]
              /\ UNCHANGED server
  /\ UNCHANGED <<ws, files, scheduler, arrivals, past>>

\* Another device creates, writes, moves and deletes, and orders what it moved.
PeerCommits(s) ==
  /\ cycle.at # "down"
  /\ server' = s
  /\ Spend("peer")
  /\ UNCHANGED <<ws, files, cycle, scheduler, arrivals>>

PeerCreates(d, p) ==
  /\ d \notin There(server.rows) \cup Known(ws)
  /\ p = Top \/ (p \in There(server.rows) /\ ~ server.rows[p].deleted)
  /\ PeerCommits([server EXCEPT !.rows[d] = [Fresh(d, p) EXCEPT !.rev = 1]])

PeerWrites(d, text) ==
  /\ d \in There(server.rows) /\ ~ server.rows[d].deleted
  /\ server.rows[d].text # text
  /\ PeerCommits([server EXCEPT !.rows[d].text = text, !.rows[d].rev = @ + 1])

PeerDeletes(n) ==
  /\ n \in There(server.rows) /\ ~ server.rows[n].deleted
  /\ LiveIn(server.rows, n) = {}
  /\ PeerCommits([server EXCEPT !.rows[n].deleted = TRUE, !.rows[n].rev = @ + 1])

PeerMoves(d, p) ==
  /\ d \in There(server.rows) /\ ~ server.rows[d].deleted
  /\ server.rows[d].parent # p
  /\ p = Top \/ (p \in There(server.rows) /\ ~ server.rows[p].deleted)
  /\ PeerCommits([server EXCEPT !.rows[d].parent = p, !.rows[d].srev = @ + 1])

PeerOrders(p) ==
  /\ p = Top \/ p \in There(server.rows)
  /\ LET old == IF server.orders[p] = Nothing THEN NoOrder ELSE server.orders[p] IN
       /\ ToSet(old.children) # LiveIn(server.rows, p)
       /\ PeerCommits([server EXCEPT !.orders[p] =
            [rev |-> old.rev + 1, children |-> SetToSeq(LiveIn(server.rows, p))]])

-----------------------------------------------------------------------------
(* The answer *)

RecordResponse ==
  /\ cycle.at \in {"answered", "record"}
  /\ ws' = [ws EXCEPT !.jobs[cycle.job].response = cycle.answer]
  /\ cycle' = [cycle EXCEPT !.at = "complete"]
  /\ UNCHANGED <<files, scheduler, server, arrivals, past>>

\* Mutant: takes the answer's revision for the document's own.
NewBaseUnstructured(job) ==
  LET base == BaseOf(ws, job) IN
    IF job.kind = "order"
      THEN [job.after EXCEPT !.rev = 1 + (IF base = Nothing THEN 0 ELSE base.rev)]
    ELSE IF base = Nothing THEN [job.after EXCEPT !.rev = 1, !.srev = 1]
      ELSE [job.after EXCEPT !.rev = base.rev + 1, !.srev = base.srev]

\* complete: what the job left, with the revisions of the answer, one more than
\* those of the request.
NewBase(job) ==
  LET base == BaseOf(ws, job) IN
    IF job.kind = "order"
      THEN [job.after EXCEPT !.rev = 1 + (IF base = Nothing THEN 0 ELSE base.rev)]
    ELSE IF base = Nothing THEN [job.after EXCEPT !.rev = 1, !.srev = 1]
    ELSE IF job.kind = "relocate"
      THEN [job.after EXCEPT !.rev = base.rev, !.srev = base.srev + 1]
      ELSE [job.after EXCEPT !.rev = base.rev + 1, !.srev = base.srev]

Complete ==
  /\ cycle.at = "complete"
  /\ LET i == cycle.job
         job == ws.jobs[i]
         new == NewBase(job)
         done == [ws EXCEPT !.jobs[i].status = "completed"]
     IN IF cycle.answer = "rejected"
          THEN /\ ws' = [ws EXCEPT !.jobs[i].status = "blocked",
                                   !.conflicts = @ \cup {"rejected"}]
               /\ Halt(cycle.auto)
          ELSE /\ ws' = IF job.kind = "order"
                   THEN [done EXCEPT !.orders[job.key].base = new,
                                     !.orders[job.key].local.rev = new.rev]
                   ELSE [done EXCEPT !.rows[job.key].base = new,
                                     !.rows[job.key].local.rev = new.rev,
                                     !.rows[job.key].local.srev = new.srev]
               /\ UNCHANGED scheduler
  /\ cycle' = Ended
  /\ UNCHANGED <<files, server, arrivals, past>>

-----------------------------------------------------------------------------
(* What goes wrong *)

Requesting == {"auth", "receipt", "documents", "folders", "orders", "post"}

\* The budget or the time of the run is used up before the next request.
OverBudget ==
  /\ cycle.at \in Requesting /\ ~ MayRun
  /\ ws' = [ws EXCEPT !.run.stopped = TRUE]
  /\ cycle' = Ended
  /\ Halt(cycle.auto)
  /\ UNCHANGED <<files, server, arrivals, past>>

\* A read is lost, or the window, the login or the scope is another: paid all
\* the same. An answer of this kind to a commit leaves it uncertain.
CallFails ==
  /\ \/ cycle.at \in Requesting \ {"post"} /\ MayRun /\ ws' = Paid(ws)
     \/ cycle.at \in {"wire", "answered"} /\ UNCHANGED ws
  /\ Spend("faults")
  /\ cycle' = Ended
  /\ \/ UNCHANGED scheduler
     \/ Halt(cycle.auto)
  /\ UNCHANGED <<files, server, arrivals>>

Die ==
  /\ cycle.at # "down"
  /\ Spend("faults")
  /\ cycle' = Down
  /\ scheduler' = "none"
  /\ UNCHANGED <<ws, files, server, arrivals>>

Deadline ==
  /\ ~ ws.run.stopped
  /\ Spend("faults")
  /\ ws' = [ws EXCEPT !.run.stopped = TRUE]
  /\ UNCHANGED <<files, cycle, scheduler, server, arrivals>>

-----------------------------------------------------------------------------
(* Start and connection *)

\* run_integrated_editor_app, and resume_approved_execution when the automatic
\* cycles were on.
Start ==
  /\ cycle.at = "down"
  /\ Projection(ws)
  /\ cycle' = Ended
  /\ scheduler' = IF ws.auto /\ ~ StopReason(ws) /\ MayRun THEN "on" ELSE "none"
  /\ UNCHANGED <<server, arrivals, past>>

Connect ==
  /\ Idle /\ scheduler # (IF ws.auto THEN "on" ELSE "off")
  /\ scheduler' = IF ws.auto THEN "on" ELSE "off"
  /\ UNCHANGED <<ws, files, cycle, server, arrivals, past>>

\* auto_changed.
Toggle ==
  /\ Idle
  /\ ~ ws.auto => ~ StopReason(ws)
  /\ ws' = [ws EXCEPT !.auto = ~ @]
  /\ scheduler' = IF scheduler = "none" THEN "none" ELSE IF ws.auto THEN "off" ELSE "on"
  /\ Spend("acts")
  /\ UNCHANGED <<files, cycle, server, arrivals>>

-----------------------------------------------------------------------------
(* The specification *)

\* The project holds a folder, which may hold a document. A row of the seed is
\* nobody's to edit, one received since may be.
Held(row, own) == [base |-> row, local |-> row, draft |-> row.text, own |-> own]

EditorInit ==
  \E D \in {{}, Document}, seed \in SUBSET Node :
    LET rows == [n \in Node |->
          IF n \in Folder THEN [Fresh(n, Top) EXCEPT !.rev = 1]
          ELSE IF n \in D THEN [Fresh(n, CHOOSE f \in Folder : TRUE) EXCEPT !.rev = 1]
          ELSE Nothing]
        orders == [p \in Parent |-> [rev |-> 1, children |-> SetToSeq(LiveIn(rows, p))]]
        contents == [d \in Document |-> IF d \in D THEN "" ELSE Nothing]
    IN /\ server = [rows |-> rows, orders |-> orders, applied |-> {}]
       /\ ws = [rows |-> [n \in Node |->
                   IF rows[n] = Nothing THEN Nothing ELSE Held(rows[n], n \notin seed)],
                orders |-> [p \in Parent |-> [base |-> orders[p], local |-> orders[p]]],
                jobs |-> <<>>, conflicts |-> {}, groups |-> [n \in Node |-> <<>>],
                projected |-> contents, auto |-> FALSE,
                run |-> [used |-> 0, stopped |-> FALSE, empty |-> 0]]
       /\ files = contents
       /\ cycle = Ended /\ scheduler = "none"
       /\ arrivals = <<>>
       /\ past = [acts |-> 0, peer |-> 0, faults |-> 0, blind |-> FALSE]

WriterNext ==
  \/ \E d \in Document : Save(d) \/ \E text \in Texts : Type(d, text)
  \/ \E n \in Node, p \in Parent : Create(n, p)
  \/ \E d \in Document, p \in Parent : Relocate(d, p)
  \/ \E n \in Node, deleted \in BOOLEAN : Lifecycle(n, deleted)
  \/ \E p \in Parent : \E s \in SetToSeqs(ChildrenOf(ws, p)) : Reorder(p, s)
  \/ Connect \/ Toggle

CycleNext ==
  \/ \E auto, receive \in BOOLEAN : ~ (auto /\ receive) /\ Begin(auto, receive)
  \/ RefuseCycle
  \/ Authenticate \/ FetchReceipt
  \/ ReadNodes("documents", "folders", Document)
  \/ ReadNodes("folders", "orders", Folder)
  \/ ReadOrders
  \/ AskAgain \/ ShowConflict \/ Accept
  \/ Post \/ Serve \/ RecordResponse \/ Complete
  \/ OverBudget

PeerNext ==
  \/ \E d \in Document :
       \/ \E text \in Texts : PeerWrites(d, text)
       \/ \E p \in Parent : PeerMoves(d, p) \/ PeerCreates(d, p)
  \/ \E n \in Node : PeerDeletes(n)
  \/ \E p \in Parent : PeerOrders(p)

EditorNext ==
  WriterNext \/ CycleNext \/ PeerNext \/ CallFails \/ Die \/ Deadline \/ Start

EditorSpec == EditorInit /\ [][EditorNext]_editorVars

-----------------------------------------------------------------------------
(* Properties *)

\* The workspace, the cycle and the server have the values the code writes.
EditorTypeOK ==
  /\ \A i \in DOMAIN ws.jobs :
       /\ ws.jobs[i].status \in {"pending", "prepared", "uncertain", "completed", "blocked"}
       /\ ws.jobs[i].response \in {Nothing, "applied", "rejected"}
  /\ ws.conflicts \subseteq {"rejected", "snapshot"}
  /\ ws.run.used \in 0 .. MaxRequests /\ ws.run.empty \in 0 .. MaxEmpty
  /\ files \in [Document -> Texts \cup {Nothing}]
  /\ scheduler \in {"none", "off", "on"}
  /\ server.applied \subseteq DOMAIN ws.jobs

\* A request is put on the wire once, whatever becomes of its answer and
\* through every restart ("Never write-RPC replay"), and in the order of the jobs.
RequestsLeaveOnce ==
  \A i, j \in DOMAIN arrivals : i < j => arrivals[i] < arrivals[j]

\* What is held for completed was applied, and nothing was applied that is not
\* completed or waiting for its answer; and a row held for the server's is one
\* of its versions.
AnswersAreToldRight ==
  /\ \A i \in DOMAIN ws.jobs :
       /\ ws.jobs[i].status = "completed" => i \in server.applied
       /\ i \in server.applied => ws.jobs[i].status \in {"uncertain", "completed"}
  /\ \A n \in Known(ws) :
       LET base == ws.rows[n].base
           row == server.rows[n]
       IN base # Nothing => /\ row # Nothing
                            /\ base.rev <= row.rev /\ base.srev <= row.srev
                            /\ base.rev = row.rev /\ base.srev = row.srev => base = row

\* Nothing the editor does itself stops it: its own files are never taken for
\* somebody else's, and the next job always starts from the base it was made on,
\* whatever was received meanwhile.
NothingStopsItself ==
  /\ Foreign(ws) = {}
  /\ ws.conflicts = {} /\ Open(ws) # {} /\ ws.jobs[NextJob(ws)].status = "pending" =>
       Preparable(ws, ws.jobs[NextJob(ws)])

\* A conflict, which nothing in the program takes away again, comes from another
\* device's commit, or from receiving while a commit of one's own is uncertain.
ConflictsAreForeign == ws.conflicts # {} => past.peer > 0 \/ past.blind
=============================================================================
