------------------------------- MODULE ContractGate -------------------------------
(* The local gate of one project's contract path, and everyone who moves it:  *)
(* the guarded trial (general_test_gate.py and its card), the tool            *)
(* scripts/contract_path_preflight.py, which is another process on the same   *)
(* database, and the recovery of a rejected legacy queue (sync_manager.py).   *)
(* A gate, a recorded server state, a durable send hold and a queue of saves  *)
(* are what they share. A save is written in the shape the gate has at that   *)
(* moment; what is sent is decided later.                                     *)
EXTENDS Naturals, Sequences, FiniteSets

CONSTANTS
  Nothing,
  MaxWorks,        \* saves in a behaviour
  MaxTurns,        \* changes of the server's support and mode
  MaxEvents        \* those, starts of the application and runs of the tool

VARIABLES
  project,   \* the row of sync_projects: gate, observed mode, proven compatibility
  hold,      \* the send hold beside the database: "none", "held" or "released"
  works,     \* every operation row: form, state, outcomes of its attempts, origin
  server,    \* mode, support for this client, and the works it has taken
  app,       \* the running application
  ticket,    \* the trial's ticket, in memory
  card,      \* the trial's card: its worker's job and what it shows
  recovering,\* the recovery of a rejected queue, which blocks the window
  tool,      \* the running preflight tool
  past       \* counters, and what was shaped between a look and a switch

gateVars == <<project, hold, works, server, app, ticket, card, recovering, tool, past>>

Down == [up |-> FALSE, client |-> FALSE, fresh |-> FALSE, asking |-> FALSE,
         authority |-> FALSE, baseline |-> FALSE, pulling |-> FALSE, worker |-> Nothing]

NoJob == [job |-> Nothing, step |-> Nothing, waiting |-> FALSE, releasing |-> FALSE,
          report |-> Nothing]

AtRest == [job |-> Nothing, step |-> Nothing]

GateInit ==
  /\ project = [gate |-> FALSE, mode |-> "LEGACY", proven |-> FALSE]
  /\ hold = "none" /\ works = <<>>
  /\ server \in [mode : {"LEGACY", "ID_BASED"}, supports : {TRUE}, has : {{}}]
  /\ app = Down /\ ticket = Nothing /\ card = NoJob /\ recovering = Nothing /\ tool = AtRest
  /\ past = [turns |-> 0, events |-> 0, late |-> {}]

Waiting == {i \in DOMAIN works : works[i].state = "waiting"}

\* A successor stands where the operation it replaces stood.
Place(i) == IF works[i].origin = 0 THEN i ELSE works[i].origin

\* The operation of the document that is not chained to an earlier one.
Heads == {i \in Waiting : \A j \in Waiting : Place(i) <= Place(j)}

\* One live document: the shape of its next operation.
FormOfNext(chained) ==
  IF ~ project.gate THEN "legacy" ELSE IF chained THEN "deferred" ELSE "contract"

LeaseIsFree == ~ app.client /\ tool.job # "activate"

(* ----------------------------- the application ----------------------------- *)

Free == app.up /\ recovering = Nothing

Start ==
  /\ ~ app.up /\ past.events < MaxEvents
  /\ app' = [Down EXCEPT !.up = TRUE]
  /\ past' = [past EXCEPT !.events = @ + 1]
  /\ UNCHANGED <<project, hold, works, server, ticket, card, recovering, tool>>

\* A client is built only by the process that holds the stored session.
Connect ==
  /\ Free /\ ~ app.client /\ LeaseIsFree
  /\ app' = [app EXCEPT !.client = TRUE]
  /\ UNCHANGED <<project, hold, works, server, ticket, card, recovering, tool, past>>

Unknown(w, i) == [w EXCEPT ![i].tries = @ \cup {"unknown"}, ![i].last = "unknown"]

\* What was in flight is of unknown outcome; what is in memory is gone.
Stop ==
  /\ app.up
  /\ works' = IF app.worker = Nothing THEN works ELSE Unknown(works, app.worker.work)
  /\ app' = Down /\ ticket' = Nothing /\ card' = NoJob /\ recovering' = Nothing
  /\ UNCHANGED <<project, hold, server, tool, past>>

\* Somebody has looked at the queue and not yet moved the gate or the hold.
Looking == tool.step \in {"asked", "opening", "shutting"} \/ card.step \in {"opening", "writing"}

Save ==
  /\ Free /\ Len(works) < MaxWorks
  /\ project.gate => project.proven
  /\ works' = Append(works, [form |-> FormOfNext(Waiting # {}), state |-> "waiting",
                             tries |-> {}, last |-> Nothing, origin |-> 0])
  /\ past' = [past EXCEPT !.late = @ \cup IF Looking THEN {Len(works) + 1} ELSE {}]
  /\ UNCHANGED <<project, hold, server, app, ticket, card, recovering, tool>>

\* Every path that chooses a structure source makes earlier contexts stale.
Unsettled(a) ==
  [a EXCEPT !.authority = FALSE,
            !.worker = IF @ = Nothing THEN @ ELSE [@ EXCEPT !.current = FALSE]]

PullStarts ==
  /\ Free /\ app.client /\ ~ app.pulling
  /\ app' = [Unsettled(app) EXCEPT !.pulling = TRUE]
  /\ UNCHANGED <<project, hold, works, server, ticket, card, recovering, tool, past>>

\* A pull that succeeds applied a whole projection of the server's structure.
PullEnds ==
  /\ Free /\ app.pulling
  /\ \E came \in BOOLEAN :
       /\ app' = [app EXCEPT !.pulling = FALSE, !.authority = came, !.baseline = came]
       /\ ticket' = IF came /\ ticket # Nothing /\ ticket.pull = "waits"
                    THEN [ticket EXCEPT !.pull = "came"] ELSE ticket
  /\ UNCHANGED <<project, hold, works, server, card, recovering, tool, past>>

(* ------------------------------ the handshake ------------------------------ *)

\* activate_contract_project: the row follows the server one transition at a time.
MayFollow(old, new) ==
  old = new \/ <<old, new>> \in {<<"LEGACY", "MIGRATING">>, <<"MIGRATING", "ID_BASED">>}

Observed == [project EXCEPT !.mode = server.mode, !.proven = TRUE]

Ask ==
  /\ Free /\ app.client /\ ~ app.asking
  /\ app' = [app EXCEPT !.asking = TRUE, !.fresh = FALSE]
  /\ UNCHANGED <<project, hold, works, server, ticket, card, recovering, tool, past>>

\* The handshake of the application's own rounds; a job's has an acceptor.
Answered ==
  /\ app.up /\ app.asking /\ card.step # "asking" /\ recovering = Nothing
  /\ \/ /\ server.supports /\ MayFollow(project.mode, server.mode)
        /\ project' = Observed
        /\ app' = [app EXCEPT !.asking = FALSE, !.fresh = TRUE]
     \/ app' = [app EXCEPT !.asking = FALSE] /\ UNCHANGED project
  /\ UNCHANGED <<hold, works, server, ticket, card, recovering, tool, past>>

(* -------------------------------- the queue -------------------------------- *)

UsesContract == project.gate /\ app.fresh /\ project.proven

MayDispatch(i) ==
  /\ Free /\ app.client /\ hold # "held" /\ app.worker = Nothing /\ app.authority
  /\ i \in Heads /\ works[i].form \in {"legacy", "contract"}
  /\ works[i].form = "contract" => UsesContract

Dispatch(i) ==
  /\ MayDispatch(i)
  /\ app' = [app EXCEPT !.worker = [work |-> i, step |-> "starting", current |-> TRUE]]
  /\ UNCHANGED <<project, hold, works, server, ticket, card, recovering, tool, past>>

\* The worker asks again before it sends. A legacy operation takes its context
\* now; a contract request was given its context when it was launched.
StillAllowed ==
  /\ hold # "held"
  /\ works[app.worker.work].form = "contract" =>
       /\ app.worker.current /\ app.authority /\ UsesContract

Check ==
  /\ app.up /\ app.worker # Nothing /\ app.worker.step = "starting"
  /\ IF StillAllowed
     THEN app' = [app EXCEPT !.worker.step = "checked"] /\ UNCHANGED works
     ELSE app' = [app EXCEPT !.worker = Nothing] /\ works' = Unknown(works, app.worker.work)
  /\ UNCHANGED <<project, hold, server, ticket, card, recovering, tool, past>>

\* The server refuses protocol 2 once the project is no longer in legacy mode.
Accepts(i) ==
  IF works[i].form = "legacy" THEN server.mode = "LEGACY" ELSE server.supports

Send ==
  /\ app.up /\ app.worker # Nothing /\ app.worker.step = "checked"
  /\ LET i == app.worker.work
         reply == IF Accepts(i) THEN "taken"
                  ELSE IF works[i].form = "legacy" THEN "refused" ELSE "unknown"
     IN /\ server' = IF Accepts(i) THEN [server EXCEPT !.has = @ \cup {i}] ELSE server
        /\ app' = [app EXCEPT !.worker.step = reply]
  /\ UNCHANGED <<project, hold, works, ticket, card, recovering, tool, past>>

\* Mutant: what was queued behind keeps the shape it was queued in.
SettledAsQueued(i) == [works EXCEPT ![i].state = "done"]

\* The next operation of the document is issued in the shape of this moment.
Following(i) == {j \in Waiting \ {i} : \A k \in Waiting \ {i} : Place(j) <= Place(k)}

Settled(i) ==
  [j \in DOMAIN works |->
     CASE j = i -> [works[i] EXCEPT !.state = "done"]
       [] j \in Following(i) -> [works[j] EXCEPT !.form = FormOfNext(FALSE), !.tries = {},
                                             !.last = Nothing]
       [] OTHER -> works[j]]

Reply ==
  /\ Free /\ app.worker # Nothing /\ app.worker.step \in {"taken", "refused", "unknown"}
  /\ LET i == app.worker.work
     IN \/ /\ app.worker.step = "taken"
           /\ works' = Settled(i)
           /\ past' = [past EXCEPT !.late = @ \cup IF Looking THEN Following(i) ELSE {}]
        \/ /\ app.worker.step = "refused" /\ UNCHANGED past
           /\ works' = [works EXCEPT ![i].tries = @ \cup {"refused"}, ![i].last = "refused"]
        \/ works' = Unknown(works, i) /\ UNCHANGED past
  /\ app' = [app EXCEPT !.worker = Nothing]
  /\ UNCHANGED <<project, hold, server, ticket, card, recovering, tool>>

(* ----------------------------- the guarded trial ---------------------------- *)

CardBusy == card.job # Nothing \/ card.waiting

\* _idle: no worker, nothing waiting, no pull under way.
Quiet == app.worker = Nothing /\ Waiting = {} /\ ~ app.pulling

Valid == app.client /\ ticket # Nothing /\ hold = "held"

Pinned == app.fresh /\ project.mode = "ID_BASED" /\ project.proven

\* The structure is the fixed empty one; nothing was ever saved into it.
Fixture == works = <<>>

Ready ==
  /\ Valid /\ Quiet /\ Pinned
  /\ app.authority /\ app.baseline /\ ticket.pull = "came" /\ Fixture

Failed == NoJob

NewTicket == [checkpoint |-> project.mode, pull |-> "none", wanted |-> "no", ready |-> FALSE,
              released |-> FALSE]

\* Mutant: a request that is on its way does not stop the preparation.
MayBeginAnyTime == app.client /\ ~ app.asking

MayBegin == app.client /\ Quiet /\ ~ app.asking

\* begin: the hold is created and never overwritten, then the ticket is issued.
Prepare ==
  /\ Free /\ ~ CardBusy /\ card.report # "released"
  /\ IF MayBegin /\ (project.gate => hold = "held") /\ hold # "released"
     THEN /\ hold' = "held" /\ ticket' = NewTicket
          /\ card' = [NoJob EXCEPT !.job = "handshake", !.step = "start"]
     ELSE card' = Failed /\ UNCHANGED <<hold, ticket>>
  /\ UNCHANGED <<project, works, server, app, recovering, tool, past>>

\* The first locked look of each job.
MayGoOn ==
  CASE card.job = "handshake" -> Valid /\ Quiet
    [] card.job = "activate" -> ticket.ready /\ Ready
    [] card.job = "prepare_release" -> Ready /\ project.gate
    [] card.job = "release" -> Ready /\ project.gate /\ ticket.wanted = "pulled"

\* An ordinary handshake in flight lends its slot: perform returns nothing.
JobAsks ==
  /\ Free /\ card.step = "start"
  /\ IF MayGoOn /\ (app.asking => card.job # "activate")
     THEN /\ app' = IF app.asking THEN app
                    ELSE [app EXCEPT !.asking = TRUE, !.fresh = FALSE]
          /\ card' = [card EXCEPT !.step = IF app.asking THEN "asked" ELSE "asking"]
          /\ ticket' = IF card.job = "prepare_release"
                       THEN [ticket EXCEPT !.wanted = "asked"] ELSE ticket
     ELSE card' = Failed /\ UNCHANGED <<app, ticket>>
  /\ UNCHANGED <<project, hold, works, server, recovering, tool, past>>

\* _accept_checkpoint: a legacy row is taken to ID_BASED only behind the hold,
\* with the gate shut and nothing waiting.
MayAccept ==
  /\ Valid /\ Quiet /\ server.mode = "ID_BASED" /\ project.mode = ticket.checkpoint
  /\ project.mode # "ID_BASED" => project.mode = "LEGACY" /\ ~ project.gate

\* The answer of a job's handshake.
JobAnswered ==
  /\ Free /\ card.step = "asking"
  /\ \/ /\ server.supports
        /\ IF card.job = "handshake" THEN MayAccept ELSE MayFollow(project.mode, server.mode)
        /\ project' = Observed
        /\ LET settled == IF card.job = "handshake" /\ project.mode = "LEGACY"
                          THEN [Unsettled(app) EXCEPT !.baseline = FALSE] ELSE app
           IN app' = [settled EXCEPT !.asking = FALSE, !.fresh = TRUE]
        /\ ticket' = IF card.job = "handshake" THEN [ticket EXCEPT !.checkpoint = "ID_BASED"]
                     ELSE ticket
        /\ card' = [card EXCEPT !.step = "asked"]
     \/ /\ app' = [app EXCEPT !.asking = FALSE] /\ card' = Failed
        /\ UNCHANGED <<project, ticket>>
  /\ UNCHANGED <<hold, works, server, recovering, tool, past>>

\* The second locked look of each job.
JobLooks ==
  /\ Free /\ card.step = "asked"
  /\ LET fine == CASE card.job = "handshake" -> Valid /\ Pinned
                   [] card.job \in {"activate", "prepare_release"} -> Ready
                   [] card.job = "release" -> Ready /\ project.gate
     IN IF fine
        THEN /\ card' = [card EXCEPT !.step = CASE card.job = "activate" -> "opening"
                                                [] card.job = "release" -> "writing"
                                                [] OTHER -> "done"]
             /\ app' = IF card.job = "release"
                       THEN [Unsettled(app) EXCEPT !.authority = app.authority] ELSE app
        ELSE card' = Failed /\ UNCHANGED app
  /\ UNCHANGED <<project, hold, works, server, ticket, recovering, tool, past>>

\* The gate, or the hold's file, is written after the look.
JobWrites ==
  /\ Free /\ card.step \in {"opening", "writing"}
  /\ IF card.step = "opening"
     THEN project' = [project EXCEPT !.gate = TRUE] /\ UNCHANGED <<hold, ticket>>
     ELSE hold' = "released" /\ ticket' = [ticket EXCEPT !.released = TRUE]
          /\ UNCHANGED project
  /\ card' = [card EXCEPT !.step = "done"]
  /\ UNCHANGED <<works, server, app, recovering, tool, past>>

Shown == IF project.gate THEN "open" ELSE "shut"

\* _finished: a baseline is pulled after a handshake, and a report shown else.
Finished ==
  /\ Free /\ card.step = "done"
  /\ IF card.job \in {"handshake", "prepare_release"}
     THEN IF Valid /\ Quiet /\ Pinned
          THEN /\ ticket' = [ticket EXCEPT !.pull = "waits",
                               !.wanted = IF @ = "asked" THEN "pulled" ELSE @]
               /\ app' = [Unsettled(app) EXCEPT !.pulling = TRUE]
               /\ card' = [card EXCEPT !.job = Nothing, !.step = Nothing, !.waiting = TRUE]
          ELSE card' = Failed /\ UNCHANGED <<ticket, app>>
     ELSE /\ card' = IF ticket.released
                     THEN IF hold # "held" /\ app.client /\ Pinned
                          THEN [NoJob EXCEPT !.report = "released"] ELSE Failed
                     ELSE IF Ready THEN [NoJob EXCEPT !.report = Shown] ELSE Failed
          /\ ticket' = IF ~ ticket.released /\ Ready THEN [ticket EXCEPT !.ready = TRUE]
                       ELSE ticket
          /\ UNCHANGED app
  /\ UNCHANGED <<project, hold, works, server, recovering, tool, past>>

\* The card waits for the pull, then reports what it finds or goes on to release.
Poll ==
  /\ Free /\ card.waiting
  /\ ~ Valid \/ ~ app.pulling
  /\ IF Ready
     THEN /\ ticket' = [ticket EXCEPT !.ready = TRUE]
          /\ card' = IF card.releasing
                     THEN [NoJob EXCEPT !.job = "release", !.step = "start"]
                     ELSE [NoJob EXCEPT !.report = Shown]
     ELSE card' = Failed /\ UNCHANGED ticket
  /\ UNCHANGED <<project, hold, works, server, app, recovering, tool, past>>

Activate ==
  /\ Free /\ ~ CardBusy /\ card.report = "shut"
  /\ card' = [card EXCEPT !.job = "activate", !.step = "start"]
  /\ UNCHANGED <<project, hold, works, server, app, ticket, recovering, tool, past>>

Release ==
  /\ Free /\ ~ CardBusy /\ card.report = "open"
  /\ card' = [card EXCEPT !.job = "prepare_release", !.step = "start", !.releasing = TRUE]
  /\ UNCHANGED <<project, hold, works, server, app, ticket, recovering, tool, past>>

\* reprepare: held first, then shut, then begun again; a crash may come between.
Reprepare ==
  /\ Free /\ ~ CardBusy /\ app.client /\ Quiet
  /\ hold' = "held"
  /\ \/ /\ project' = [project EXCEPT !.gate = FALSE]
        /\ app' = [Unsettled(app) EXCEPT !.fresh = FALSE, !.baseline = FALSE]
        /\ IF app.asking THEN card' = Failed /\ UNCHANGED ticket
           ELSE /\ ticket' = NewTicket
                /\ card' = [NoJob EXCEPT !.job = "handshake", !.step = "start"]
     \/ /\ app' = Down /\ ticket' = Nothing /\ card' = NoJob
        /\ UNCHANGED project
  /\ UNCHANGED <<works, server, recovering, tool, past>>

(* ---------------------- the rejected legacy queue's bridge ------------------ *)

\* A sole chain of the document, whose first operation the server last refused.
Candidate ==
  IF /\ Waiting # {} /\ \A i \in Waiting : works[i].form # "contract"
     /\ \A i \in Heads : works[i].form = "legacy" /\ works[i].last = "refused"
  THEN Waiting ELSE {}

RecoveryLooks ==
  /\ Free /\ app.client /\ app.worker = Nothing /\ ~ app.asking /\ hold # "held"
  /\ Candidate # {}
  /\ recovering' = [step |-> "asking", chain |-> Candidate, mode |-> Nothing]
  /\ app' = [app EXCEPT !.asking = TRUE, !.fresh = FALSE]
  /\ UNCHANGED <<project, hold, works, server, ticket, card, tool, past>>

Resumed == app' = [app EXCEPT !.asking = FALSE] /\ recovering' = Nothing

\* Two handshakes that only observe, with the server's absence between them.
RecoveryAsks ==
  /\ recovering # Nothing /\ recovering.step \in {"asking", "absent"}
  /\ \/ /\ server.supports /\ server.mode \in {"LEGACY", "ID_BASED"}
        /\ recovering.step = "asking" \/ server.mode = recovering.mode
        /\ recovering.step = "absent" \/ server.has \cap recovering.chain = {}
        /\ Candidate = recovering.chain
        /\ recovering' = [recovering EXCEPT
             !.step = IF @ = "asking" THEN "absent" ELSE "proven", !.mode = server.mode]
        /\ app' = [app EXCEPT !.asking = (recovering.step = "asking"),
                              !.fresh = (recovering.step = "absent")]
     \/ Resumed
  /\ UNCHANGED <<project, hold, works, server, ticket, card, tool, past>>

\* prepare_rejected_legacy_create: no attempt of the first has another outcome.
Bridgeable(first) ==
  /\ Candidate = recovering.chain
  /\ works[first].tries = {"refused"}
  /\ \A i \in DOMAIN works : works[i].state # "done"
  /\ \A i \in recovering.chain \ {first} : works[i].form = "legacy" /\ works[i].tries = {}

\* One transaction: the checkpoint, the gate and the successor.
RecoveryCommits ==
  /\ recovering # Nothing /\ recovering.step = "proven"
  /\ \/ \E first \in Heads :
          /\ Bridgeable(first)
          /\ IF recovering.mode = "ID_BASED"
             THEN ~ project.gate /\ project.mode \in {"LEGACY", "ID_BASED"}
             ELSE project.mode = "LEGACY"
          /\ project' = [gate |-> TRUE, mode |-> recovering.mode, proven |-> TRUE]
          /\ works' = Append([works EXCEPT ![first].state = "superseded"],
                             [form |-> "contract", state |-> "waiting", tries |-> {},
                              last |-> Nothing, origin |-> Place(first)])
          /\ app' = IF project.mode = recovering.mode THEN app
                    ELSE [Unsettled(app) EXCEPT !.baseline = FALSE]
     \/ UNCHANGED <<project, works, app>>
  /\ recovering' = Nothing
  /\ UNCHANGED <<hold, server, ticket, card, tool, past>>

(* ---------------------------- the preflight tool ---------------------------- *)

\* Every operation row counts as owed to an activation, a finished one too; a
\* deactivation asks only for batches without an answer.
NothingOwed(job) ==
  IF job = "activate" THEN ~ project.gate /\ works = <<>>
  ELSE project.gate /\ \A i \in Waiting : works[i].form # "contract"

\* Another process; activation and its handshake need the credential lock.
ToolStarts(job) ==
  /\ tool = AtRest /\ past.events < MaxEvents
  /\ job = "activate" => LeaseIsFree
  /\ NothingOwed(job)
  /\ tool' = [job |-> job, step |-> IF job = "activate" THEN "asked" ELSE "shutting"]
  /\ past' = [past EXCEPT !.events = @ + 1]
  /\ UNCHANGED <<project, hold, works, server, app, ticket, card, recovering>>

ToolStops ==
  /\ tool # AtRest
  /\ tool' = AtRest
  /\ UNCHANGED <<project, hold, works, server, app, ticket, card, recovering, past>>

\* The handshake is recorded whatever the checks say, dry run or not.
ToolAsks ==
  /\ tool.step = "asked"
  /\ server.supports /\ MayFollow(project.mode, server.mode)
  /\ project' = Observed
  /\ tool' = IF server.mode = "LEGACY" THEN [tool EXCEPT !.step = "opening"] ELSE AtRest
  /\ UNCHANGED <<hold, works, server, app, ticket, card, recovering, past>>

\* The row alone is written; the queue is not looked at again.
ToolSwitches ==
  /\ tool.step \in {"opening", "shutting"}
  /\ project' = [project EXCEPT !.gate = (tool.step = "opening")]
  /\ tool' = AtRest
  /\ UNCHANGED <<hold, works, server, app, ticket, card, recovering, past>>

(* -------------------------------- the server -------------------------------- *)

ServerTurns ==
  /\ past.turns < MaxTurns /\ past.events < MaxEvents
  /\ \/ server' = [server EXCEPT !.supports = ~ @]
     \/ /\ server.mode # "ID_BASED"
        /\ server' = [server EXCEPT
             !.mode = IF @ = "LEGACY" THEN "MIGRATING" ELSE "ID_BASED"]
  /\ past' = [past EXCEPT !.turns = @ + 1, !.events = @ + 1]
  /\ UNCHANGED <<project, hold, works, app, ticket, card, recovering, tool>>

GateNext ==
  \/ Start \/ Connect \/ Stop \/ Save \/ PullStarts \/ PullEnds \/ Ask \/ Answered
  \/ \E i \in DOMAIN works : Dispatch(i)
  \/ Check \/ Send \/ Reply
  \/ Prepare \/ Activate \/ Release \/ Reprepare
  \/ JobAsks \/ JobAnswered \/ JobLooks \/ JobWrites \/ Finished \/ Poll
  \/ RecoveryLooks \/ RecoveryAsks \/ RecoveryCommits
  \/ \E job \in {"activate", "deactivate"} : ToolStarts(job)
  \/ ToolStops \/ ToolAsks \/ ToolSwitches
  \/ ServerTurns

GateSpec == GateInit /\ [][GateNext]_gateVars

-----------------------------------------------------------------------------

\* No request leaves this device while the trial's hold stands, whoever started
\* the worker and whenever it last asked; and the hold is lifted only over a
\* structure that holds nothing but what was saved during that very write.
HoldIsKept ==
  [][/\ app.worker # Nothing /\ app.worker.step = "checked" /\ app'.up
          /\ app'.worker # Nothing /\ app'.worker.step # "checked" => hold # "held"
     /\ hold = "held" /\ hold' # "held" => DOMAIN works \subseteq past.late]_gateVars

\* A waiting save that is next for its document has the shape of the gate: no
\* contract batch is left behind a shut gate, where nothing would send it, and
\* no legacy one behind an open gate, unless it was given its shape between the
\* look at the queue and the switch of somebody who does not share the lock.
WorkFitsItsGate ==
  \A i \in Heads \ past.late :
    CASE works[i].form = "contract" -> project.gate
      [] works[i].form = "legacy" -> ~ project.gate
      [] OTHER -> FALSE

\* A rejected save and the successor that replaces it are never both taken by
\* the server.
OriginalsHaveNoTwin ==
  \A i \in server.has : works[i].origin \notin server.has

\* The observed mode only moves forward, and jumps over the migration only with
\* nothing waiting that the server could still take twice.
ModeMovesForward ==
  [][LET rank(m) == CASE m = "LEGACY" -> 0 [] m = "MIGRATING" -> 1 [] m = "ID_BASED" -> 2
     IN /\ rank(project.mode) <= rank(project'.mode)
        /\ rank(project'.mode) > rank(project.mode) + 1 =>
             ~ project.gate /\ (Waiting = {} \/ Len(works') > Len(works))]_gateVars
=============================================================================
