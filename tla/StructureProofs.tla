--------------------------- MODULE StructureProofs ---------------------------
(***************************************************************************)
(* The folder tree of one device (MCStructure): what the sides of it keep  *)
(* for any folders, saves, rounds and bounds.                              *)
(***************************************************************************)
EXTENDS MCStructure, FiniteSetTheorems, SequenceTheorems, WellFoundedInduction, TLAPS

-----------------------------------------------------------------------------
(* The gate of the contract path (ContractGate) *)

Modes == {"LEGACY", "MIGRATING", "ID_BASED"}
Outcomes == {"unknown", "refused"}

Work == [form : {"legacy", "contract", "deferred"}, state : {"waiting", "done", "superseded"},
         tries : SUBSET Outcomes, last : {Nothing} \cup Outcomes, origin : Nat]

Sending == [work : Nat, step : {"starting", "checked", "taken", "refused", "unknown"},
            current : BOOLEAN]

Recovery == [step : {"asking", "absent", "proven"}, chain : SUBSET Nat,
             mode : {Nothing} \cup Modes]

Jobs == {"handshake", "activate", "prepare_release", "release"}
CardSteps == {"start", "asking", "asked", "opening", "writing", "done"}
ToolSteps == {"asked", "opening", "shutting"}

\* The value for none is a model value: no step of a job or of the tool, no
\* request on its way and no recovery.
NothingIsNoStep ==
  Nothing \notin Jobs \cup CardSteps \cup ToolSteps \cup Outcomes \cup Sending \cup Recovery

Rows == [gate : BOOLEAN, mode : Modes, proven : BOOLEAN]
Holds == {"none", "held", "released"}
Hosts == [mode : Modes, supports : BOOLEAN, has : SUBSET Nat]
Workers == {Nothing} \cup Sending
Apps == [up : BOOLEAN, client : BOOLEAN, fresh : BOOLEAN, asking : BOOLEAN,
         authority : BOOLEAN, baseline : BOOLEAN, pulling : BOOLEAN, worker : Workers]
Cards == [job : {Nothing} \cup Jobs, step : {Nothing} \cup CardSteps, waiting : BOOLEAN,
          releasing : BOOLEAN, report : {Nothing, "open", "shut", "released"}]
Bridges == {Nothing} \cup Recovery
Tools == [job : {Nothing, "activate", "deactivate"}, step : {Nothing} \cup ToolSteps]
Tallies == [turns : Nat, events : Nat, late : SUBSET Nat]

GateTypes ==
  /\ row \in Rows /\ hold \in Holds /\ works \in Seq(Work) /\ host \in Hosts
  /\ host.has \subseteq DOMAIN works
  /\ app \in Apps /\ card \in Cards /\ bridge \in Bridges /\ tool \in Tools
  /\ tally \in Tallies

\* A successor stands in for a save that is superseded and that the server does
\* not have; no two waiting saves stand in one place.
Places ==
  /\ \A i \in DOMAIN works :
       /\ works[i].origin < i
       /\ works[i].origin # 0 => /\ works[works[i].origin].state = "superseded"
                                 /\ works[i].origin \notin host.has
  /\ \A i, j \in G!Waiting : G!Place(i) = G!Place(j) => i = j

\* Only a server that has left the legacy mode refuses, so that a recovery
\* never finds it in legacy mode.
Refusals ==
  host.mode = "LEGACY" =>
    /\ \A i \in DOMAIN works : works[i].last # "refused"
    /\ app.worker # Nothing => app.worker.step # "refused"
    /\ bridge = Nothing

\* What is on its way is the next of its document; between the last check and
\* the sending the hold is not set.
SenderFits ==
  app.worker # Nothing =>
    /\ app.worker.work \in G!Heads
    /\ app.worker.step = "checked" => hold # "held"

\* A recovery runs alone and without the hold, and the server has nothing of the
\* chain it has proven absent.
BridgeFits ==
  bridge # Nothing =>
    /\ app.worker = Nothing /\ hold # "held"
    /\ bridge.chain # {}
    /\ bridge.step # "asking" => bridge.mode = "ID_BASED" /\ host.has \cap bridge.chain = {}

\* Between a look of the card and its write there are only saves that came after
\* the look.
CardFits ==
  card.step \in {"opening", "writing"} =>
    /\ card.job # Nothing /\ hold = "held"
    /\ DOMAIN works \subseteq tally.late
    /\ card.step = "writing" /\ tool.step = "shutting" => row.gate

\* The same of the tool, which does not know the hold: a recovery may open the
\* gate while it activates, never while it deactivates.
ToolFits ==
  /\ tool.step \in {"asked", "opening"} =>
       \A i \in G!Heads \ tally.late : works[i].form = "contract"
  /\ tool.step = "shutting" =>
       /\ G!Heads \subseteq tally.late
       /\ row.gate \/ hold = "held"

GateInv ==
  /\ GateTypes /\ Places /\ Refusals /\ SenderFits /\ BridgeFits /\ CardFits /\ ToolFits
  /\ G!WorkFitsItsGate

-----------------------------------------------------------------------------
(* Types *)

LEMMA DownTyped == G!Down \in Apps /\ G!Down.worker = Nothing
  BY DEF G!Down, Apps, Workers

LEMMA UnsettledTyped ==
  ASSUME NEW a \in Apps
  PROVE  /\ G!Unsettled(a) \in Apps
         /\ G!Unsettled(a).up = a.up
         /\ a.worker = Nothing => G!Unsettled(a).worker = Nothing
         /\ a.worker # Nothing /\ Nothing \notin Sending =>
              /\ G!Unsettled(a).worker # Nothing
              /\ G!Unsettled(a).worker.work = a.worker.work
              /\ G!Unsettled(a).worker.step = a.worker.step
<1> DEFINE w == IF a.worker = Nothing THEN a.worker ELSE [a.worker EXCEPT !.current = FALSE]
<1>1. w \in Workers
  BY DEF Apps, Workers, Sending
<1>2. G!Unsettled(a) = [a EXCEPT !.authority = FALSE, !.worker = w]
  BY DEF G!Unsettled
<1>3. a.worker # Nothing => a.worker \in Sending /\ w \in Sending /\ w.work = a.worker.work
                             /\ w.step = a.worker.step
  BY DEF Apps, Workers, Sending
<1> HIDE DEF w
<1>4. G!Unsettled(a) \in Apps /\ G!Unsettled(a).up = a.up /\ G!Unsettled(a).worker = w
  BY <1>1, <1>2 DEF Apps
<1>5. a.worker = Nothing => w = Nothing
  BY DEF w
<1> QED BY <1>3, <1>4, <1>5

LEMMA NoJobTyped ==
  /\ G!NoJob \in Cards /\ G!Failed = G!NoJob
  /\ G!NoJob = [job |-> Nothing, step |-> Nothing, waiting |-> FALSE, releasing |-> FALSE,
                report |-> Nothing]
  BY DEF G!NoJob, G!Failed, Cards

\* What a step does to the queue: it appends a work, or rewrites some in place.
LEMMA QueueAppended ==
  ASSUME works \in Seq(Work), NEW w \in Work
  PROVE  /\ Append(works, w) \in Seq(Work) /\ Len(Append(works, w)) = Len(works) + 1
         /\ DOMAIN Append(works, w) = DOMAIN works \cup {Len(works) + 1}
         /\ \A i \in DOMAIN works : Append(works, w)[i] = works[i]
         /\ Append(works, w)[Len(works) + 1] = w
         /\ Len(works) \in Nat /\ DOMAIN works = 1 .. Len(works)
<1>1. Len(works) \in Nat /\ DOMAIN works = 1 .. Len(works)
  OBVIOUS
<1>2. Append(works, w) \in Seq(Work) /\ Len(Append(works, w)) = Len(works) + 1
  OBVIOUS
<1>3. DOMAIN Append(works, w) = 1 .. Len(works) + 1
  BY <1>1, <1>2
<1>4. \A i \in 1 .. Len(works) + 1 :
        Append(works, w)[i] = IF i <= Len(works) THEN works[i] ELSE w
  BY AppendProperties
<1> QED BY <1>1, <1>2, <1>3, <1>4

LEMMA QueueRewritten ==
  ASSUME works \in Seq(Work), NEW f, DOMAIN f = DOMAIN works,
         f = [i \in DOMAIN works |-> f[i]], \A i \in DOMAIN works : f[i] \in Work
  PROVE  f \in Seq(Work) /\ Len(f) = Len(works)
<1>1. Len(works) \in Nat /\ DOMAIN works = 1 .. Len(works)
  OBVIOUS
<1>2. f \in [1 .. Len(works) -> Work]
  BY <1>1
<1> QED BY <1>1, <1>2, SeqDef

\* An attempt that is over leaves form, state and origin of every work alone.
SameWorks(new) ==
  /\ new \in Seq(Work) /\ DOMAIN new = DOMAIN works
  /\ \A i \in DOMAIN works :
       /\ new[i].form = works[i].form /\ new[i].state = works[i].state
       /\ new[i].origin = works[i].origin

Ended(i, outcome) == [works EXCEPT ![i].tries = @ \cup {outcome}, ![i].last = outcome]

LEMMA AttemptEnds ==
  ASSUME works \in Seq(Work), NEW i \in DOMAIN works, NEW outcome \in Outcomes
  PROVE  /\ SameWorks(Ended(i, outcome))
         /\ \A j \in DOMAIN works :
              Ended(i, outcome)[j].last = "refused" => works[j].last = "refused" \/ outcome = "refused"
<1> DEFINE ended == [works[i] EXCEPT !.tries = @ \cup {outcome}, !.last = outcome]
           new == Ended(i, outcome)
<1>1. /\ \A j \in DOMAIN works : works[j] \in Work
      /\ Len(works) \in Nat /\ DOMAIN works = 1 .. Len(works)
  BY ElementOfSeq
<1>2. /\ ended \in Work /\ ended.form = works[i].form /\ ended.state = works[i].state
      /\ ended.origin = works[i].origin /\ ended.last = outcome
  BY <1>1 DEF Work
<1>3. new = [works EXCEPT ![i] = ended]
  BY DEF Ended
<1> HIDE DEF ended, new
<1>4. /\ DOMAIN new = DOMAIN works /\ new = [j \in DOMAIN works |-> new[j]]
      /\ \A j \in DOMAIN works : new[j] = IF j = i THEN ended ELSE works[j]
  BY <1>3, <1>1
<1>5. new \in Seq(Work)
  BY <1>1, <1>2, <1>4, QueueRewritten
<1>6. /\ SameWorks(new)
      /\ \A j \in DOMAIN works :
           new[j].last = "refused" => works[j].last = "refused" \/ outcome = "refused"
  BY <1>1, <1>2, <1>4, <1>5 DEF SameWorks
<1> QED BY <1>6 DEF new

LEMMA NextForm ==
  ASSUME row \in Rows, NEW chained \in BOOLEAN
  PROVE  /\ G!FormOfNext(chained) \in {"legacy", "contract", "deferred"}
         /\ G!FormOfNext(FALSE) = IF row.gate THEN "contract" ELSE "legacy"
  BY DEF G!FormOfNext, Rows

\* The reply to what is applied: the work is done, and the next of the document is
\* issued anew, in the form of this moment.
LEMMA SettledFacts ==
  ASSUME NothingIsNoStep, works \in Seq(Work), row \in Rows, NEW i \in DOMAIN works
  PROVE  /\ G!Settled(i) \in Seq(Work) /\ DOMAIN G!Settled(i) = DOMAIN works
         /\ G!Settled(i)[i].state = "done"
         /\ \A j \in DOMAIN works :
              /\ G!Settled(i)[j].origin = works[j].origin
              /\ j # i => G!Settled(i)[j].state = works[j].state
              /\ G!Settled(i)[j].last = "refused" => works[j].last = "refused"
              /\ j \notin {i} \cup G!Following(i) => G!Settled(i)[j].form = works[j].form
              /\ j # i /\ j \in G!Following(i) =>
                   G!Settled(i)[j].form = IF row.gate THEN "contract" ELSE "legacy"
<1> DEFINE F == G!Following(i)
           done == [works[i] EXCEPT !.state = "done"]
           anew(j) == [works[j] EXCEPT !.form = G!FormOfNext(FALSE), !.tries = {}, !.last = Nothing]
<1>1. /\ \A j \in DOMAIN works : works[j] \in Work
      /\ Len(works) \in Nat /\ DOMAIN works = 1 .. Len(works)
  BY ElementOfSeq
<1>2. /\ done \in Work /\ done.state = "done" /\ done.origin = works[i].origin
      /\ done.last = works[i].last
  BY <1>1 DEF Work
<1>3. \A j \in DOMAIN works :
        /\ anew(j) \in Work /\ anew(j).origin = works[j].origin
        /\ anew(j).state = works[j].state /\ anew(j).last = Nothing
        /\ anew(j).form = IF row.gate THEN "contract" ELSE "legacy"
  BY <1>1, NextForm DEF Work
<1>4. G!Settled(i) = [j \in DOMAIN works |-> CASE j = i -> done
                                              [] j \in F -> anew(j) [] OTHER -> works[j]]
  BY Zenon DEF G!Settled
<1>0. i \notin F
  BY DEF G!Following
<1> HIDE DEF F, done, anew
<1>5. /\ DOMAIN G!Settled(i) = DOMAIN works
      /\ G!Settled(i) = [j \in DOMAIN works |-> G!Settled(i)[j]]
      /\ \A j \in DOMAIN works :
           G!Settled(i)[j] = IF j = i THEN done ELSE IF j \in F THEN anew(j) ELSE works[j]
  <2> DEFINE at(j) == CASE j = i -> done [] j \in F -> anew(j) [] OTHER -> works[j]
  <2>1. \A j \in DOMAIN works :
          at(j) = IF j = i THEN done ELSE IF j \in F THEN anew(j) ELSE works[j]
    BY <1>0
  <2>2. G!Settled(i) = [j \in DOMAIN works |-> at(j)]
    BY <1>4
  <2> HIDE DEF at
  <2> QED BY <2>1, <2>2
<1>6. G!Settled(i) \in Seq(Work)
  BY <1>1, <1>2, <1>3, <1>5, QueueRewritten
<1>7. F = G!Following(i)
  BY DEF F
<1>8. Nothing # "refused"
  BY DEF NothingIsNoStep, Outcomes
<1>9. ASSUME NEW j \in DOMAIN works
      PROVE  /\ G!Settled(i)[j].origin = works[j].origin
             /\ j # i => G!Settled(i)[j].state = works[j].state
             /\ G!Settled(i)[j].last = "refused" => works[j].last = "refused"
             /\ j \notin {i} \cup F => G!Settled(i)[j].form = works[j].form
             /\ j # i /\ j \in F =>
                  G!Settled(i)[j].form = IF row.gate THEN "contract" ELSE "legacy"
  BY <1>2, <1>3, <1>5, <1>8
<1> QED BY <1>2, <1>5, <1>6, <1>7, <1>9


LEMMA JobBegun ==
  ASSUME NEW job \in Jobs, NEW begun, begun = [G!NoJob EXCEPT !.job = job, !.step = "start"]
  PROVE  begun \in Cards /\ begun.job = job /\ begun.step = "start"
  BY NoJobTyped DEF Cards, Jobs, CardSteps

LEMMA JobReported ==
  ASSUME NEW report \in {"open", "shut", "released"},
         NEW reported, reported = [G!NoJob EXCEPT !.report = report]
  PROVE  reported \in Cards /\ reported.job = Nothing /\ reported.step = Nothing
  BY NoJobTyped DEF Cards

LEMMA StartTyped == ASSUME GateTypes, G!Start PROVE GateTypes'
<1>1. app' \in Apps
  BY DownTyped DEF G!Start, GateTypes, Apps, Workers, Sending, G!Resumed
<1>2. tally' \in Tallies
  BY DEF G!Start, GateTypes, Tallies
<1> QED BY <1>1, <1>2 DEF G!Start, GateTypes

LEMMA ConnectTyped == ASSUME GateTypes, G!Connect PROVE GateTypes'
<1>1. app' \in Apps
  BY DEF G!Connect, GateTypes, Apps, Workers, Sending, G!Resumed
<1> QED BY <1>1 DEF G!Connect, GateTypes

LEMMA PullStartsTyped == ASSUME GateTypes, G!PullStarts PROVE GateTypes'
<1>1. app' \in Apps
  BY UnsettledTyped DEF G!PullStarts, GateTypes, Apps, Workers, Sending, G!Resumed
<1> QED BY <1>1 DEF G!PullStarts, GateTypes

LEMMA PullEndsTyped == ASSUME GateTypes, G!PullEnds PROVE GateTypes'
<1>1. app' \in Apps
  BY DEF G!PullEnds, GateTypes, Apps, Workers, Sending, G!Resumed
<1> QED BY <1>1 DEF G!PullEnds, GateTypes

LEMMA AskTyped == ASSUME GateTypes, G!Ask PROVE GateTypes'
<1>1. app' \in Apps
  BY DEF G!Ask, GateTypes, Apps, Workers, Sending, G!Resumed
<1> QED BY <1>1 DEF G!Ask, GateTypes

LEMMA AnsweredTyped == ASSUME GateTypes, G!Answered PROVE GateTypes'
<1>1. row' \in Rows
  BY DEF G!Answered, GateTypes, Rows, Modes, Hosts, G!Observed
<1>2. app' \in Apps
  BY DEF G!Answered, GateTypes, Apps, Workers, Sending, G!Resumed
<1> QED BY <1>1, <1>2 DEF G!Answered, GateTypes

LEMMA PrepareTyped == ASSUME GateTypes, G!Prepare PROVE GateTypes'
<1>1. hold' \in Holds
  BY DEF G!Prepare, GateTypes, Holds
<1>2. card' \in Cards
  BY NoJobTyped, JobBegun DEF G!Prepare, GateTypes, Jobs
<1> QED BY <1>1, <1>2 DEF G!Prepare, GateTypes

LEMMA JobAsksTyped == ASSUME GateTypes, G!JobAsks PROVE GateTypes'
<1>1. app' \in Apps
  BY DEF Apps, G!JobAsks, GateTypes
<1>2. card' \in Cards
  BY NoJobTyped DEF G!JobAsks, GateTypes, Cards, Jobs, CardSteps, G!Shown
<1> QED BY <1>1, <1>2 DEF G!JobAsks, GateTypes

LEMMA JobAnsweredTyped == ASSUME GateTypes, G!JobAnswered PROVE GateTypes'
<1>1. row' \in Rows
  BY DEF G!JobAnswered, GateTypes, Rows, Modes, Hosts, G!Observed
<1>2. app' \in Apps
  <2> DEFINE settled == IF card.job = "handshake" /\ row.mode = "LEGACY"
                        THEN [G!Unsettled(app) EXCEPT !.baseline = FALSE] ELSE app
  <2>1. settled \in Apps
    BY UnsettledTyped DEF GateTypes, Apps
  <2>2. \/ app' = [settled EXCEPT !.asking = FALSE, !.fresh = TRUE]
        \/ app' = [app EXCEPT !.asking = FALSE]
    BY DEF G!JobAnswered
  <2> HIDE DEF settled
  <2> QED BY <2>1, <2>2 DEF GateTypes, Apps
<1>3. card' \in Cards
  BY NoJobTyped DEF G!JobAnswered, GateTypes, Cards, CardSteps
<1> QED BY <1>1, <1>2, <1>3 DEF G!JobAnswered, GateTypes

LEMMA JobLooksTyped == ASSUME GateTypes, G!JobLooks PROVE GateTypes'
<1>1. card' \in Cards
  <2> DEFINE next == CASE card.job = "activate" -> "opening" [] card.job = "release" -> "writing"
                       [] OTHER -> "done"
  <2>1. next \in CardSteps
    BY DEF CardSteps
  <2>2. card' = [card EXCEPT !.step = next] \/ card' = G!Failed
    BY DEF G!JobLooks
  <2> HIDE DEF next
  <2> QED BY <2>1, <2>2, NoJobTyped DEF GateTypes, Cards
<1>2. app' \in Apps
  BY UnsettledTyped DEF G!JobLooks, GateTypes, Apps, Workers, Sending, G!Resumed
<1> QED BY <1>1, <1>2 DEF G!JobLooks, GateTypes

LEMMA JobWritesTyped == ASSUME GateTypes, G!JobWrites PROVE GateTypes'
<1>1. row' \in Rows
  BY DEF G!JobWrites, GateTypes, Rows, Modes, Hosts, G!Observed
<1>2. hold' \in Holds
  BY DEF G!JobWrites, GateTypes, Holds
<1>3. card' \in Cards
  BY NoJobTyped DEF G!JobWrites, GateTypes, Cards, Jobs, CardSteps, G!Shown
<1> QED BY <1>1, <1>2, <1>3 DEF G!JobWrites, GateTypes

LEMMA FinishedTyped == ASSUME GateTypes, G!Finished PROVE GateTypes'
<1>1. card' \in Cards
  <2>1. \A c \in Cards :
          [c EXCEPT !.job = Nothing, !.step = Nothing, !.waiting = TRUE] \in Cards
    BY DEF Cards
  <2>2. \/ card' = [card EXCEPT !.job = Nothing, !.step = Nothing, !.waiting = TRUE]
        \/ card' = G!Failed
        \/ \E report \in {"open", "shut", "released"} : card' = [G!NoJob EXCEPT !.report = report]
    BY DEF G!Finished, G!Shown
  <2> QED BY <2>1, <2>2, NoJobTyped, JobReported DEF GateTypes
<1>2. app' \in Apps
  BY UnsettledTyped DEF G!Finished, GateTypes, Apps, Workers, Sending, G!Resumed
<1> QED BY <1>1, <1>2 DEF G!Finished, GateTypes

LEMMA PollTyped == ASSUME GateTypes, G!Poll PROVE GateTypes'
<1>1. card' \in Cards
  BY NoJobTyped, JobBegun, JobReported DEF G!Poll, G!Shown, Jobs
<1> QED BY <1>1 DEF G!Poll, GateTypes

LEMMA ActivateTyped == ASSUME GateTypes, G!Activate PROVE GateTypes'
<1>1. card' \in Cards
  BY NoJobTyped DEF G!Activate, GateTypes, Cards, Jobs, CardSteps, G!Shown
<1> QED BY <1>1 DEF G!Activate, GateTypes

LEMMA ReleaseTyped == ASSUME GateTypes, G!Release PROVE GateTypes'
<1>1. card' \in Cards
  BY NoJobTyped DEF G!Release, GateTypes, Cards, Jobs, CardSteps, G!Shown
<1> QED BY <1>1 DEF G!Release, GateTypes

LEMMA ReprepareTyped == ASSUME GateTypes, G!Reprepare PROVE GateTypes'
<1>1. hold' \in Holds
  BY DEF G!Reprepare, GateTypes, Holds
<1>2. row' \in Rows
  BY DEF G!Reprepare, GateTypes, Rows, Modes, Hosts, G!Observed
<1>3. app' \in Apps
  <2>1. G!Unsettled(app) \in Apps
    BY UnsettledTyped DEF GateTypes
  <2>2. \A a \in Apps : [a EXCEPT !.fresh = FALSE, !.baseline = FALSE] \in Apps
    BY DEF Apps
  <2>3. app' = G!Down \/ app' = [G!Unsettled(app) EXCEPT !.fresh = FALSE, !.baseline = FALSE]
    BY DEF G!Reprepare
  <2> HIDE DEF Apps
  <2> QED BY <2>1, <2>2, <2>3, DownTyped
<1>4. card' \in Cards
  BY NoJobTyped DEF G!Reprepare, GateTypes, Cards, Jobs, CardSteps, G!Shown
<1> QED BY <1>1, <1>2, <1>3, <1>4 DEF G!Reprepare, GateTypes

LEMMA RecoveryLooksTyped == ASSUME GateTypes, G!RecoveryLooks PROVE GateTypes'
<1>1. bridge' \in Bridges
  BY DEF G!RecoveryLooks, GateTypes, Bridges, Recovery, Modes, G!Resumed, G!Candidate, G!Waiting
<1>2. app' \in Apps
  BY DEF G!RecoveryLooks, GateTypes, Apps, Workers, Sending, G!Resumed
<1> QED BY <1>1, <1>2 DEF G!RecoveryLooks, GateTypes

LEMMA RecoveryAsksTyped == ASSUME GateTypes, G!RecoveryAsks PROVE GateTypes'
<1>1. bridge' \in Bridges
  BY DEF G!RecoveryAsks, GateTypes, Bridges, Recovery, Modes, G!Resumed, G!Candidate, G!Waiting
<1>2. app' \in Apps
  BY DEF G!RecoveryAsks, GateTypes, Apps, Workers, Sending, G!Resumed
<1> QED BY <1>1, <1>2 DEF G!RecoveryAsks, GateTypes

LEMMA ToolStopsTyped == ASSUME GateTypes, G!ToolStops PROVE GateTypes'
<1>1. tool' \in Tools
  BY DEF G!ToolStops, GateTypes, Tools, ToolSteps, G!AtRest
<1> QED BY <1>1 DEF G!ToolStops, GateTypes

LEMMA ToolAsksTyped == ASSUME GateTypes, G!ToolAsks PROVE GateTypes'
<1>1. row' \in Rows
  BY DEF G!ToolAsks, GateTypes, Rows, Modes, Hosts, G!Observed
<1>2. tool' \in Tools
  BY DEF G!ToolAsks, GateTypes, Tools, ToolSteps, G!AtRest
<1> QED BY <1>1, <1>2 DEF G!ToolAsks, GateTypes

LEMMA ToolSwitchesTyped == ASSUME GateTypes, G!ToolSwitches PROVE GateTypes'
<1>1. row' \in Rows
  BY DEF G!ToolSwitches, GateTypes, Rows, Modes, Hosts, G!Observed
<1>2. tool' \in Tools
  BY DEF G!ToolSwitches, GateTypes, Tools, ToolSteps, G!AtRest
<1> QED BY <1>1, <1>2 DEF G!ToolSwitches, GateTypes

LEMMA ServerTurnsTyped == ASSUME GateTypes, G!ServerTurns PROVE GateTypes'
<1>1. host' \in Hosts
  BY DEF G!ServerTurns, GateTypes, Hosts, Modes
<1>2. tally' \in Tallies
  <2>1. tally' = [tally EXCEPT !.turns = @ + 1, !.events = @ + 1]
    BY DEF G!ServerTurns
  <2>2. tally \in Tallies /\ tally.turns + 1 \in Nat /\ tally.events + 1 \in Nat
    BY DEF GateTypes, Tallies
  <2> DEFINE t == tally.turns + 1
             e == tally.events + 1
  <2>3. tally' = [tally EXCEPT !.turns = t, !.events = e]
    BY <2>1
  <2> HIDE DEF t, e
  <2>4. t \in Nat /\ e \in Nat
    BY <2>2 DEF t, e
  <2> QED BY <2>2, <2>3, <2>4 DEF Tallies
<1> QED BY <1>1, <1>2 DEF G!ServerTurns, GateTypes, Hosts

-----------------------------------------------------------------------------
(* Steps that leave the queue, the gate and the hold alone *)

WorkerStands ==
  \/ app'.worker = Nothing
  \/ /\ app.worker # Nothing /\ app'.worker # Nothing
     /\ app'.worker.work = app.worker.work
     /\ app'.worker.step = "checked" => app.worker.step = "checked" \/ hold # "held"
     /\ app'.worker.step = "refused" => app.worker.step = "refused" \/ host.mode # "LEGACY"

\* The attempts of the works may have ended.
WorksStand ==
  /\ SameWorks(works')
  /\ \A i \in DOMAIN works :
       works'[i].last = "refused" => works[i].last = "refused" \/ host.mode # "LEGACY"

LEMMA HeadsStay ==
  ASSUME SameWorks(works')
  PROVE  /\ G!Waiting' = G!Waiting /\ G!Heads' = G!Heads
         /\ \A i \in DOMAIN works : G!Place(i)' = G!Place(i)
<1>1. \A i \in DOMAIN works : G!Place(i)' = G!Place(i)
  BY DEF SameWorks, G!Place
<1>2. G!Waiting' = G!Waiting
  BY DEF SameWorks, G!Waiting
<1>3. G!Waiting \subseteq DOMAIN works
  BY DEF G!Waiting
<1>4. G!Heads' = {i \in G!Waiting' : \A j \in G!Waiting' : G!Place(i)' <= G!Place(j)'}
  BY DEF G!Heads
<1> QED BY <1>1, <1>2, <1>3, <1>4 DEF G!Heads

LEMMA PlacesStay ==
  ASSUME works \in Seq(Work), Places, SameWorks(works'), host'.has = host.has
  PROVE  Places'
<1>1. ASSUME NEW i \in DOMAIN works
      PROVE  /\ works'[i].origin < i
             /\ works'[i].origin # 0 => /\ works'[works'[i].origin].state = "superseded"
                                        /\ works'[i].origin \notin host'.has
  <2>1. works'[i].origin = works[i].origin /\ works[i].origin \in Nat /\ i \in 1 .. Len(works)
    <3>1. works[i] \in Work
      OBVIOUS
    <3> QED BY <3>1 DEF SameWorks, Work
  <2>2. works[i].origin < i /\ DOMAIN works = 1 .. Len(works) /\ Len(works) \in Nat
    BY DEF Places
  <2>3. works[i].origin # 0 => works[i].origin \in DOMAIN works
    BY <2>1, <2>2
  <2> QED BY <2>1, <2>2, <2>3 DEF Places, SameWorks
<1>2. \A i, j \in G!Waiting' : G!Place(i)' = G!Place(j)' => i = j
  BY HeadsStay DEF Places, G!Waiting
<1> QED BY <1>1, <1>2 DEF Places, SameWorks

LEMMA FitsStay ==
  ASSUME G!WorkFitsItsGate, SameWorks(works'), tally.late \subseteq tally'.late,
         row'.gate = row.gate
  PROVE  G!WorkFitsItsGate'
  BY HeadsStay DEF G!WorkFitsItsGate, SameWorks, G!Heads, G!Waiting

LEMMA SameIsSame == ASSUME GateTypes, works' = works PROVE SameWorks(works')
  BY DEF SameWorks, GateTypes

LEMMA QuietKeeps ==
  ASSUME GateInv, GateTypes', works' = works \/ WorksStand, host' = host,
         tally'.late = tally.late,
         WorkerStands, row'.gate = row.gate, hold' = hold, tool' = tool,
         bridge' \in {bridge, Nothing},
         card' = card \/ card'.step \notin {"opening", "writing"}
  PROVE  GateInv'
<1>1. SameWorks(works') /\ G!Heads' = G!Heads
  BY SameIsSame, HeadsStay DEF GateInv, WorksStand
<1>2. Places' /\ G!WorkFitsItsGate'
  BY <1>1, PlacesStay, FitsStay DEF GateInv, GateTypes
<1>3. Refusals'
  BY <1>1 DEF GateInv, Refusals, WorkerStands, WorksStand, SameWorks
<1>4. SenderFits'
  BY <1>1 DEF GateInv, SenderFits, WorkerStands
<1>5. BridgeFits'
  BY DEF GateInv, BridgeFits, WorkerStands
<1>6. CardFits'
  BY <1>1 DEF GateInv, CardFits, SameWorks
<1>7. ToolFits'
  BY <1>1 DEF GateInv, ToolFits, SameWorks, G!Heads, G!Waiting
<1> QED BY <1>2, <1>3, <1>4, <1>5, <1>6, <1>7 DEF GateInv

\* Each of these steps is quiet: it moves the application, its ticket or its card.
LEMMA OrdinaryStep ==
  ASSUME NothingIsNoStep, GateInv,
         \/ G!Start \/ G!Connect \/ G!PullStarts \/ G!PullEnds \/ G!Ask \/ G!Answered
         \/ G!Activate \/ G!Release \/ G!JobAsks \/ G!JobAnswered \/ G!Finished \/ G!Poll
  PROVE  GateInv'
<1>0. GateTypes /\ app \in Apps /\ card \in Cards
  BY DEF GateInv, GateTypes
<1>1. CASE G!Start
  BY <1>0, <1>1, DownTyped, QuietKeeps, StartTyped DEF G!Start, WorkerStands
<1>2. CASE G!Connect
  BY <1>0, <1>2, QuietKeeps, ConnectTyped DEF G!Connect, WorkerStands, Apps
<1>3. CASE G!PullStarts
  BY <1>0, <1>3, UnsettledTyped, QuietKeeps, PullStartsTyped DEF G!PullStarts, WorkerStands,
     Apps, NothingIsNoStep
<1>4. CASE G!PullEnds
  BY <1>0, <1>4, QuietKeeps, PullEndsTyped DEF G!PullEnds, WorkerStands, Apps
<1>5. CASE G!Ask
  BY <1>0, <1>5, QuietKeeps, AskTyped DEF G!Ask, WorkerStands, Apps
<1>6. CASE G!Answered
  BY <1>0, <1>6, QuietKeeps, AnsweredTyped DEF G!Answered, WorkerStands, Apps, G!Observed,
     GateTypes, Rows
<1>7. CASE G!Activate
  BY <1>0, <1>7, QuietKeeps, ActivateTyped DEF G!Activate, WorkerStands, GateTypes, Cards
<1>8. CASE G!Release
  BY <1>0, <1>8, QuietKeeps, ReleaseTyped DEF G!Release, WorkerStands, GateTypes, Cards
<1>9. CASE G!JobAsks
  <2>1. WorkerStands
    BY <1>0, <1>9 DEF Apps, G!JobAsks, WorkerStands
  <2>2. card'.step \notin {"opening", "writing"}
    BY <1>9, NoJobTyped, JobBegun, JobReported DEF G!JobAsks, GateInv, GateTypes, Cards, Jobs, CardSteps,
      NothingIsNoStep, G!Shown
  <2>3. row'.gate = row.gate
    BY <1>9 DEF G!JobAsks, G!Observed, GateInv, GateTypes, Rows
  <2> QED BY <1>0, <1>9, <2>1, <2>2, <2>3, QuietKeeps, JobAsksTyped DEF G!JobAsks
<1>10. CASE G!JobAnswered
  <2>1. WorkerStands
    BY <1>0, <1>10, UnsettledTyped DEF G!JobAnswered, WorkerStands, Apps, NothingIsNoStep
  <2>2. card'.step \notin {"opening", "writing"}
    BY <1>10, NoJobTyped, JobBegun, JobReported DEF G!JobAnswered, GateInv, GateTypes, Cards, Jobs, CardSteps,
      NothingIsNoStep, G!Shown
  <2>3. row'.gate = row.gate
    BY <1>10 DEF G!JobAnswered, G!Observed, GateInv, GateTypes, Rows
  <2> QED BY <1>0, <1>10, <2>1, <2>2, <2>3, QuietKeeps, JobAnsweredTyped DEF G!JobAnswered
<1>11. CASE G!Finished
  <2>1. WorkerStands
    BY <1>0, <1>11, UnsettledTyped DEF G!Finished, WorkerStands, Apps, NothingIsNoStep
  <2>2. card'.step \notin {"opening", "writing"}
    <3>1. G!Failed = G!NoJob /\ G!NoJob.step = Nothing
      BY NoJobTyped DEF G!Failed
    <3>2. \A report \in {"open", "shut", "released"} :
            [G!NoJob EXCEPT !.report = report].step = Nothing
      BY JobReported
    <3>3. [card EXCEPT !.job = Nothing, !.step = Nothing, !.waiting = TRUE].step = Nothing
      BY DEF GateInv, GateTypes, Cards
    <3>4. G!Shown \in {"open", "shut", "released"}
      BY DEF G!Shown
    <3>5. card'.step = Nothing
      BY <1>11, <3>1, <3>2, <3>3, <3>4 DEF G!Finished
    <3> QED BY <3>5 DEF NothingIsNoStep, CardSteps
  <2>3. row'.gate = row.gate
    BY <1>11 DEF G!Finished, G!Observed, GateInv, GateTypes, Rows
  <2> QED BY <1>0, <1>11, <2>1, <2>2, <2>3, QuietKeeps, FinishedTyped DEF G!Finished
<1>12. CASE G!Poll
  <2>1. WorkerStands
    BY <1>0, <1>12 DEF G!Poll, WorkerStands
  <2>2. card'.step \notin {"opening", "writing"}
    BY <1>12, NoJobTyped, JobBegun, JobReported DEF G!Poll, GateInv, GateTypes, Cards, Jobs, CardSteps,
      NothingIsNoStep, G!Shown
  <2>3. row'.gate = row.gate
    BY <1>12 DEF G!Poll, G!Observed, GateInv, GateTypes, Rows
  <2> QED BY <1>0, <1>12, <2>1, <2>2, <2>3, QuietKeeps, PollTyped DEF G!Poll
<1> QED BY <1>1, <1>2, <1>3, <1>4, <1>5, <1>6, <1>7, <1>8, <1>9, <1>10, <1>11, <1>12

-----------------------------------------------------------------------------
(* Attempts *)

LEMMA SenderWorks ==
  ASSUME GateInv, app.worker # Nothing
  PROVE  /\ app.worker \in Sending /\ app.worker.work \in DOMAIN works
         /\ app.worker.work \in G!Heads /\ works[app.worker.work].state = "waiting"
  BY DEF GateInv, GateTypes, Apps, Workers, SenderFits, G!Heads, G!Waiting

LEMMA UnknownStands ==
  ASSUME GateInv, app.worker # Nothing, works' = G!Unknown(works, app.worker.work)
  PROVE  WorksStand
<1>1. app.worker.work \in DOMAIN works /\ works \in Seq(Work) /\ "unknown" \in Outcomes
  BY SenderWorks DEF GateInv, GateTypes, Outcomes
<1>2. works' = Ended(app.worker.work, "unknown")
  BY DEF G!Unknown, Ended
<1> QED BY <1>1, <1>2, AttemptEnds DEF WorksStand

LEMMA StopKeeps == ASSUME NothingIsNoStep, GateInv, G!Stop PROVE GateInv'
<1>1. works' = works \/ WorksStand
  BY UnknownStands DEF G!Stop
<1>2. GateTypes'
  BY <1>1, DownTyped, NoJobTyped DEF G!Stop, GateInv, GateTypes, WorksStand, SameWorks, Bridges
<1>3. WorkerStands
  BY DownTyped DEF G!Stop, WorkerStands
<1>4. card'.step \notin {"opening", "writing"}
  BY NoJobTyped DEF G!Stop, NothingIsNoStep, CardSteps
<1> QED BY <1>1, <1>2, <1>3, <1>4, QuietKeeps DEF G!Stop

LEMMA DispatchKeeps ==
  ASSUME NothingIsNoStep, GateInv, NEW i \in DOMAIN works, G!Dispatch(i) PROVE GateInv'
<1> DEFINE w == [work |-> i, step |-> "starting", current |-> TRUE]
<1>1. w \in Sending /\ w.work = i /\ w.step = "starting" /\ w # Nothing
  <2>1. i \in Nat
    BY DEF GateInv, GateTypes
  <2>2. w \in Sending
    BY <2>1 DEF Sending
  <2> QED BY <2>2 DEF NothingIsNoStep
<1>2. app' = [app EXCEPT !.worker = w] /\ i \in G!Heads /\ bridge = Nothing
  BY DEF G!Dispatch, G!MayDispatch, G!Free
<1> HIDE DEF w
<1>3. app' \in Apps /\ app'.worker = w
  BY <1>1, <1>2 DEF GateInv, GateTypes, Apps, Workers
<1>4. GateTypes'
  BY <1>3 DEF G!Dispatch, GateInv, GateTypes
<1>5. SameWorks(works') /\ G!Heads' = G!Heads
  BY SameIsSame, HeadsStay DEF GateInv, G!Dispatch
<1>6. Places' /\ G!WorkFitsItsGate'
  BY <1>5, PlacesStay, FitsStay DEF GateInv, GateTypes, G!Dispatch
<1>7. Refusals' /\ SenderFits' /\ BridgeFits'
  BY <1>1, <1>2, <1>3, <1>5 DEF GateInv, Refusals, SenderFits, BridgeFits, G!Dispatch
<1>8. CardFits' /\ ToolFits'
  BY <1>5 DEF GateInv, CardFits, ToolFits, G!Dispatch
<1> QED BY <1>4, <1>6, <1>7, <1>8 DEF GateInv

LEMMA CheckKeeps == ASSUME NothingIsNoStep, GateInv, G!Check PROVE GateInv'
<1>1. works' = works \/ WorksStand
  BY UnknownStands DEF G!Check
<1>2. app' \in Apps
  BY DEF G!Check, GateInv, GateTypes, Apps, Workers, Sending
<1>3. GateTypes'
  BY <1>1, <1>2 DEF G!Check, GateInv, GateTypes, WorksStand, SameWorks
<1>4. WorkerStands
  BY SenderWorks DEF G!Check, G!StillAllowed, GateInv, GateTypes, Apps, WorkerStands, Sending, NothingIsNoStep
<1> QED BY <1>1, <1>3, <1>4, QuietKeeps DEF G!Check

\* A work on its way is waiting, so it is no original that was replaced.
LEMMA NoOriginal ==
  ASSUME GateInv, NEW i \in G!Waiting, NEW j \in DOMAIN works
  PROVE  works[j].origin # i
<1>1. works[i].state = "waiting" /\ i \in DOMAIN works
  BY DEF G!Waiting
<1>2. i # 0
  BY <1>1 DEF GateInv, GateTypes
<1> QED BY <1>1, <1>2 DEF GateInv, Places

LEMMA SendKeeps == ASSUME NothingIsNoStep, GateInv, G!Send PROVE GateInv'
<1> DEFINE i == app.worker.work
           reply == IF G!Accepts(i) THEN "taken"
                    ELSE IF works[i].form = "legacy" THEN "refused" ELSE "unknown"
<1>1. /\ app.worker # Nothing /\ works' = works /\ row' = row /\ hold' = hold
      /\ card' = card /\ bridge' = bridge /\ tool' = tool /\ tally' = tally
      /\ host' = (IF G!Accepts(i) THEN [host EXCEPT !.has = @ \cup {i}] ELSE host)
      /\ app' = [app EXCEPT !.worker.step = reply]
  BY Zenon DEF G!Send
<1>2. /\ app.worker \in Sending /\ i \in DOMAIN works /\ i \in G!Heads /\ i \in G!Waiting
      /\ i \in Nat
  BY <1>1, SenderWorks DEF G!Heads, Sending
<1>3. /\ reply \in {"taken", "refused", "unknown"}
      /\ reply = "refused" => host.mode # "LEGACY"
  BY DEF G!Accepts
<1>4. /\ host' \in Hosts /\ host'.mode = host.mode
      /\ host'.has = (IF G!Accepts(i) THEN host.has \cup {i} ELSE host.has)
  BY <1>1, <1>2 DEF GateInv, GateTypes, Hosts
<1> HIDE DEF i, reply
<1>5. /\ app' \in Apps /\ app'.worker \in Sending
      /\ app'.worker.work = app.worker.work /\ app'.worker.step = reply
  BY <1>1, <1>2, <1>3 DEF GateInv, GateTypes, Apps, Workers, Sending
<1>6. GateTypes'
  BY <1>1, <1>2, <1>4, <1>5 DEF GateInv, GateTypes
<1>7. SameWorks(works') /\ G!Waiting' = G!Waiting /\ G!Heads' = G!Heads
  BY <1>1, SameIsSame, HeadsStay DEF GateInv
<1>8. Places'
  BY <1>1, <1>2, <1>4, <1>7, NoOriginal DEF GateInv, Places, G!Place
<1>9. G!WorkFitsItsGate'
  BY <1>1, <1>7, FitsStay DEF GateInv
<1>10. bridge = Nothing
  BY <1>1 DEF GateInv, BridgeFits
<1>11. Refusals' /\ SenderFits' /\ BridgeFits'
  BY <1>1, <1>2, <1>3, <1>4, <1>5, <1>7, <1>10
     DEF GateInv, Refusals, SenderFits, BridgeFits, i
<1>12. CardFits' /\ ToolFits'
  BY <1>1, <1>7 DEF GateInv, CardFits, ToolFits
<1> QED BY <1>6, <1>8, <1>9, <1>11, <1>12 DEF GateInv

LEMMA SettledKeeps ==
  ASSUME NothingIsNoStep, GateInv, G!Reply, works' = G!Settled(app.worker.work),
         tally' = [tally EXCEPT !.late = @ \cup IF G!Looking THEN G!Following(app.worker.work)
                                                ELSE {}]
  PROVE  GateInv'
<1> DEFINE i == app.worker.work
           F == G!Following(i)
<1>1. /\ app.worker # Nothing /\ row' = row /\ hold' = hold /\ host' = host /\ bridge = Nothing
      /\ card' = card /\ bridge' = bridge /\ tool' = tool
      /\ app' = [app EXCEPT !.worker = Nothing]
  BY DEF G!Reply, G!Free
<1>2. /\ app.worker \in Sending /\ i \in DOMAIN works /\ i \in G!Heads /\ i \in G!Waiting
      /\ works \in Seq(Work) /\ row \in Rows
  BY <1>1, SenderWorks DEF G!Heads, GateInv, GateTypes
<1> DEFINE new == works'
<1>3. /\ new \in Seq(Work) /\ DOMAIN new = DOMAIN works
      /\ new[i].state = "done"
      /\ \A j \in DOMAIN works :
           /\ new[j].origin = works[j].origin
           /\ j # i => new[j].state = works[j].state
           /\ new[j].last = "refused" => works[j].last = "refused"
           /\ j # i /\ j \in F => new[j].form = IF row.gate THEN "contract" ELSE "legacy"
  BY <1>2, SettledFacts, Zenon
<1> HIDE DEF i, F, new
<1>4. new = works'
  BY DEF new
<1>5. G!Waiting' = G!Waiting \ {i}
  BY <1>2, <1>3, <1>4 DEF G!Waiting
<1>6. \A j \in DOMAIN works : G!Place(j)' = G!Place(j)
  BY <1>3, <1>4 DEF G!Place
<1>7. F = {j \in G!Waiting \ {i} : \A k \in G!Waiting \ {i} : G!Place(j) <= G!Place(k)}
  BY DEF F, G!Following
<1>8. G!Heads' = F /\ F \subseteq DOMAIN works \ {i}
  BY <1>5, <1>6, <1>7 DEF G!Heads, G!Waiting
<1>9. /\ app' \in Apps /\ app'.worker = Nothing
      /\ tally' \in Tallies /\ tally'.late = tally.late \cup (IF G!Looking THEN F ELSE {})
  <2>1. F \subseteq Nat
    BY <1>2, <1>8
  <2> QED BY <1>1, <2>1 DEF GateInv, GateTypes, Apps, Workers, Tallies, F, i
<1>10. GateTypes'
  BY <1>1, <1>3, <1>4, <1>9 DEF GateInv, GateTypes
<1>11. Places'
  <2>1. \A j \in DOMAIN works : works[j].origin # i
    BY <1>2, NoOriginal
  <2>2. \A j \in DOMAIN works : works[j].origin \in Nat
    <3>1. \A j \in DOMAIN works : works[j] \in Work
      BY <1>2
    <3> QED BY <3>1 DEF Work
  <2>3. ASSUME NEW j \in DOMAIN works, works[j].origin # 0
        PROVE  works[j].origin \in DOMAIN works
    BY <1>2, <2>2, <2>3 DEF GateInv, Places
  <2>4. \A j, k \in G!Waiting' : G!Place(j)' = G!Place(k)' => j = k
    BY <1>5, <1>6 DEF GateInv, Places, G!Waiting
  <2> QED BY <1>1, <1>3, <1>4, <2>1, <2>3, <2>4 DEF GateInv, Places
<1>12. G!WorkFitsItsGate'
  BY <1>1, <1>3, <1>4, <1>8 DEF G!WorkFitsItsGate
<1>13. Refusals' /\ SenderFits' /\ BridgeFits'
  BY <1>1, <1>3, <1>4, <1>9 DEF GateInv, Refusals, SenderFits, BridgeFits
<1>14. CardFits'
  BY <1>1, <1>3, <1>4, <1>9 DEF GateInv, CardFits
<1>15. ToolFits'
  BY <1>1, <1>8, <1>9 DEF GateInv, ToolFits, G!Looking
<1> QED BY <1>10, <1>11, <1>12, <1>13, <1>14, <1>15 DEF GateInv

LEMMA ReplyKeeps == ASSUME NothingIsNoStep, GateInv, G!Reply PROVE GateInv'
<1> DEFINE i == app.worker.work
<1>1. CASE /\ works' = G!Settled(i)
           /\ tally' = [tally EXCEPT !.late = @ \cup IF G!Looking THEN G!Following(i) ELSE {}]
  BY <1>1, SettledKeeps, Zenon
<1>2. CASE (WorksStand /\ tally' = tally)
  <2>1. app' \in Apps /\ app'.worker = Nothing
    BY DEF G!Reply, GateInv, GateTypes, Apps, Workers
  <2>2. GateTypes'
    BY <1>2, <2>1 DEF G!Reply, GateInv, GateTypes, WorksStand, SameWorks
  <2> QED BY <1>2, <2>1, <2>2, QuietKeeps DEF G!Reply, WorkerStands
<1>3. CASE app.worker.step = "refused" /\ works' = Ended(i, "refused") /\ tally' = tally
  BY <1>2, <1>3, SenderWorks, AttemptEnds DEF G!Reply, GateInv, GateTypes, Outcomes,
     Refusals, WorksStand
<1>4. CASE works' = G!Unknown(works, i) /\ tally' = tally
  BY <1>2, <1>4, UnknownStands DEF G!Reply
<1> QED BY <1>1, <1>3, <1>4, Zenon DEF G!Reply, Ended

-----------------------------------------------------------------------------
(* Saves *)

LEMMA PlaceFacts ==
  ASSUME GateInv, NEW i \in DOMAIN works
  PROVE  /\ i \in 1 .. Len(works) /\ Len(works) \in Nat
         /\ works[i] \in Work /\ works[i].origin \in Nat
         /\ works[i].origin # 0 => works[i].origin \in DOMAIN works
         /\ G!Place(i) \in 1 .. i
<1>1. i \in 1 .. Len(works) /\ Len(works) \in Nat /\ works[i] \in Work
  BY DEF GateInv, GateTypes
<1>2. works[i].origin \in Nat /\ works[i].origin < i
  BY <1>1 DEF Work, GateInv, Places
<1>3. DOMAIN works = 1 .. Len(works)
  BY DEF GateInv, GateTypes
<1> QED BY <1>1, <1>2, <1>3 DEF G!Place

LEMMA SaveKeeps == ASSUME NothingIsNoStep, GateInv, G!Save PROVE GateInv'
<1> DEFINE chained == G!Waiting # {}
           w == [form |-> G!FormOfNext(chained), state |-> "waiting", tries |-> {},
                 last |-> Nothing, origin |-> 0]
           new == works'
<1>0. PICK n \in Nat : n = Len(works) + 1
  BY DEF GateInv, GateTypes
<1>1. /\ works' = Append(works, w) /\ row' = row /\ hold' = hold /\ host' = host /\ app' = app
      /\ card' = card /\ bridge' = bridge /\ tool' = tool /\ bridge = Nothing
      /\ tally' = [tally EXCEPT !.late = @ \cup IF G!Looking THEN {n} ELSE {}]
  BY <1>0 DEF G!Save, G!Free
<1>2. /\ w \in Work /\ w.state = "waiting" /\ w.last = Nothing /\ w.origin = 0
      /\ w.form = G!FormOfNext(chained) /\ works \in Seq(Work)
  BY DEF G!FormOfNext, GateInv, GateTypes, Work
<1> HIDE DEF w, new
<1>3. /\ new \in Seq(Work) /\ DOMAIN new = DOMAIN works \cup {n} /\ new[n] = w
      /\ \A i \in DOMAIN works : new[i] = works[i]
      /\ n \in Nat /\ n \notin DOMAIN works /\ \A i \in DOMAIN works : i < n
  BY <1>0, <1>1, <1>2, QueueAppended DEF new
<1>4. new = works'
  BY DEF new
<1>5. G!Waiting' = G!Waiting \cup {n}
  BY <1>2, <1>3, <1>4 DEF G!Waiting
<1>6. /\ \A i \in DOMAIN works : G!Place(i)' = G!Place(i)
      /\ \A i \in DOMAIN works : G!Place(i) \in Nat /\ G!Place(i) < n
      /\ G!Place(n)' = n
  <2>1. ASSUME NEW i \in DOMAIN works PROVE G!Place(i) \in Nat /\ G!Place(i) < n
    BY <1>2, <1>3, PlaceFacts
  <2>2. ASSUME NEW i \in DOMAIN works PROVE G!Place(i)' = G!Place(i)
    BY <1>3, <1>4 DEF G!Place
  <2>3. G!Place(n)' = n
    BY <1>2, <1>3, <1>4 DEF G!Place
  <2> QED BY <2>1, <2>2, <2>3
<1>7. G!Waiting \subseteq DOMAIN works
  BY DEF G!Waiting
<1>8. /\ G!Waiting # {} => G!Heads' = G!Heads
      /\ G!Waiting = {} => G!Heads' = {n}
  <2>1. G!Heads' = {i \in G!Waiting' : \A j \in G!Waiting' : G!Place(i)' <= G!Place(j)'}
    BY DEF G!Heads
  <2>2. CASE G!Waiting = {}
    BY <1>3, <1>5, <1>6, <2>1, <2>2
  <2>3. CASE G!Waiting # {}
    BY <1>3, <1>5, <1>6, <1>7, <2>1, <2>3 DEF G!Heads
  <2> QED BY <2>2, <2>3
<1>9. tally' \in Tallies /\ tally'.late = tally.late \cup (IF G!Looking THEN {n} ELSE {})
  BY <1>1, <1>3 DEF GateInv, GateTypes, Tallies
<1>10. GateTypes'
  BY <1>1, <1>3, <1>4, <1>9 DEF GateInv, GateTypes
<1>11. Places'
  <2>1. \A i, j \in G!Waiting' : G!Place(i)' = G!Place(j)' => i = j
    BY <1>3, <1>5, <1>6, <1>7 DEF GateInv, Places
  <2>2. \A i \in DOMAIN works : works[i].origin # 0 => works[i].origin \in DOMAIN works
    BY PlaceFacts
  <2> QED BY <1>1, <1>2, <1>3, <1>4, <2>1, <2>2 DEF GateInv, Places
<1>12. G!WorkFitsItsGate'
  <2>1. CASE G!Waiting = {}
    BY <1>1, <1>2, <1>3, <1>4, <1>8, <2>1 DEF G!FormOfNext, G!WorkFitsItsGate
  <2>2. CASE G!Waiting # {}
    BY <1>1, <1>3, <1>4, <1>7, <1>8, <1>9, <2>2 DEF GateInv, G!WorkFitsItsGate, G!Heads
  <2> QED BY <2>1, <2>2
<1>13. Refusals'
  BY <1>1, <1>2, <1>3, <1>4 DEF GateInv, Refusals, NothingIsNoStep, Outcomes
<1>14. SenderFits' /\ BridgeFits'
  BY <1>1, <1>8 DEF GateInv, SenderFits, BridgeFits, G!Heads
<1>15. CardFits'
  BY <1>1, <1>3, <1>4, <1>9 DEF GateInv, CardFits, G!Looking
<1>16. ToolFits'
  BY <1>1, <1>3, <1>4, <1>7, <1>8, <1>9 DEF G!Looking, ToolSteps, G!Heads, GateInv, ToolFits
<1> QED BY <1>10, <1>11, <1>12, <1>13, <1>14, <1>15, <1>16 DEF GateInv

-----------------------------------------------------------------------------
(* The hold and the gate *)

\* What leaves the queue, the server and the application's request alone.
LEMMA QueueStays ==
  ASSUME GateInv, works' = works, host' = host, tally'.late = tally.late, WorkerStands
  PROVE  /\ SameWorks(works') /\ G!Waiting' = G!Waiting /\ G!Heads' = G!Heads
         /\ Places'
         /\ bridge' \in {bridge, Nothing} => Refusals'
<1>1. SameWorks(works') /\ G!Waiting' = G!Waiting /\ G!Heads' = G!Heads
  BY SameIsSame, HeadsStay DEF GateInv
<1>2. Places'
  BY <1>1, PlacesStay DEF GateInv, GateTypes
<1>3. bridge' \in {bridge, Nothing} => Refusals'
  BY DEF GateInv, Refusals, WorkerStands
<1> QED BY <1>1, <1>2, <1>3

\* Nobody waits: the hold may be set and the gate may move.
LEMMA MovedInPeace ==
  ASSUME NothingIsNoStep, GateInv, GateTypes', works' = works, host' = host, tally' = tally,
         G!Quiet, app'.worker = Nothing, bridge = Nothing, bridge' = Nothing, tool' = tool,
         hold' = "held", card'.step \notin {"opening", "writing"}
  PROVE  GateInv'
<1>1. app.worker = Nothing /\ G!Waiting = {} /\ G!Heads = {}
  BY DEF G!Quiet, G!Heads
<1>2. /\ SameWorks(works') /\ G!Heads' = G!Heads /\ Places' /\ Refusals'
  BY QueueStays DEF WorkerStands
<1>3. G!WorkFitsItsGate'
  BY <1>1, <1>2 DEF G!WorkFitsItsGate
<1>4. SenderFits' /\ BridgeFits' /\ CardFits'
  BY DEF SenderFits, BridgeFits, CardFits
<1>5. ToolFits'
  BY <1>1, <1>2 DEF ToolFits
<1> QED BY <1>2, <1>3, <1>4, <1>5 DEF GateInv

LEMMA PrepareKeeps == ASSUME NothingIsNoStep, GateInv, G!Prepare PROVE GateInv'
<1>1. GateTypes' /\ bridge = Nothing /\ bridge' = Nothing /\ card \in Cards
  BY PrepareTyped DEF G!Prepare, G!Free, GateInv, GateTypes
<1>2. card'.step \notin {"opening", "writing"}
  BY NoJobTyped, JobBegun DEF G!Prepare, NothingIsNoStep, Jobs, CardSteps
<1>3. CASE G!MayBegin /\ hold' = "held"
  BY <1>1, <1>2, <1>3, MovedInPeace DEF G!Prepare, G!MayBegin, G!Quiet
<1>4. CASE hold' = hold
  BY <1>1, <1>2, <1>4, QuietKeeps DEF G!Prepare, WorkerStands
<1> QED BY <1>3, <1>4 DEF G!Prepare

LEMMA ReprepareKeeps == ASSUME NothingIsNoStep, GateInv, G!Reprepare PROVE GateInv'
<1>1. GateTypes' /\ bridge = Nothing /\ bridge' = Nothing /\ app \in Apps
  BY ReprepareTyped DEF G!Reprepare, G!Free, GateInv, GateTypes
<1>2. card'.step \notin {"opening", "writing"}
  BY NoJobTyped, JobBegun DEF G!Reprepare, NothingIsNoStep, Jobs, CardSteps
<1>3. app'.worker = Nothing
  BY <1>1, UnsettledTyped, DownTyped DEF G!Reprepare, G!Quiet, Apps
<1> QED BY <1>1, <1>2, <1>3, MovedInPeace DEF G!Reprepare

LEMMA JobLooksKeeps == ASSUME NothingIsNoStep, GateInv, G!JobLooks PROVE GateInv'
<1>1. /\ GateTypes' /\ bridge = Nothing /\ bridge' = bridge /\ app \in Apps /\ card \in Cards
      /\ works' = works /\ host' = host /\ tally' = tally /\ row' = row /\ hold' = hold
      /\ tool' = tool
  BY JobLooksTyped DEF G!JobLooks, G!Free, GateInv, GateTypes
<1>2. WorkerStands
  <2>1. app' \in {app, [G!Unsettled(app) EXCEPT !.authority = app.authority]}
    BY DEF G!JobLooks
  <2>2. app' = app => WorkerStands
    BY DEF WorkerStands
  <2> QED BY <1>1, <2>1, <2>2, UnsettledTyped DEF Apps, WorkerStands, NothingIsNoStep
<1>3. CASE card'.step \notin {"opening", "writing"}
  BY <1>1, <1>2, <1>3, QuietKeeps
<1>4. CASE card'.step \in {"opening", "writing"}
  <2>1. card' # G!Failed
    BY <1>4, NoJobTyped DEF NothingIsNoStep, CardSteps
  <2>2. /\ card.job \in {"activate", "release"} /\ G!Ready
        /\ card.job = "release" => row.gate
        /\ card' = [card EXCEPT !.step = IF card.job = "activate" THEN "opening" ELSE "writing"]
    <3>1. CASE card.job = "activate"
      BY <2>1, <3>1 DEF G!JobLooks
    <3>2. CASE card.job = "release"
      BY <2>1, <3>2 DEF G!JobLooks
    <3>3. CASE card.job \notin {"activate", "release"}
      BY <1>1, <1>4, <2>1, <3>3 DEF G!JobLooks, Cards
    <3> QED BY <3>1, <3>2, <3>3
  <2>3. works = <<>> /\ hold = "held"
    BY <2>2 DEF G!Ready, G!Fixture, G!Valid
  <2>4. DOMAIN works = {}
    BY <2>3
  <2>5. /\ SameWorks(works') /\ G!Heads' = G!Heads /\ Places' /\ Refusals'
    BY <1>1, <1>2, QueueStays
  <2>6. G!WorkFitsItsGate'
    BY <1>1, <2>5, FitsStay DEF GateInv
  <2>7. SenderFits' /\ BridgeFits'
    BY <1>1, <1>2, <2>3, <2>5 DEF GateInv, SenderFits, BridgeFits, WorkerStands
  <2>8. CardFits'
    BY <1>1, <2>2, <2>3, <2>4 DEF CardFits, Cards, NothingIsNoStep, Jobs
  <2>9. ToolFits'
    BY <1>1, <2>5 DEF GateInv, ToolFits
  <2> QED BY <1>1, <2>5, <2>6, <2>7, <2>8, <2>9 DEF GateInv
<1> QED BY <1>3, <1>4

LEMMA JobWritesKeeps == ASSUME NothingIsNoStep, GateInv, G!JobWrites PROVE GateInv'
<1>1. /\ GateTypes' /\ bridge = Nothing /\ bridge' = bridge /\ app' = app /\ card \in Cards
      /\ works' = works /\ host' = host /\ tally' = tally /\ tool' = tool /\ row \in Rows
      /\ card' = [card EXCEPT !.step = "done"] /\ card.step \in {"opening", "writing"}
  BY JobWritesTyped DEF G!JobWrites, G!Free, GateInv, GateTypes
<1>2. card'.step = "done"
  BY <1>1 DEF Cards
<1>3. G!Heads' = G!Heads /\ SameWorks(works') /\ Places' /\ Refusals'
  BY <1>1, QueueStays DEF WorkerStands
<1>4. G!Heads \subseteq tally.late
  BY <1>1 DEF GateInv, CardFits, G!Heads, G!Waiting
<1>5. G!WorkFitsItsGate'
  BY <1>1, <1>3, <1>4 DEF G!WorkFitsItsGate
<1>6. \/ hold' = hold /\ row'.gate = TRUE
      \/ hold' = "released" /\ row' = row /\ card.step = "writing"
  BY <1>1 DEF G!JobWrites, Rows
<1>7. SenderFits' /\ BridgeFits'
  BY <1>1, <1>3, <1>6 DEF GateInv, SenderFits, BridgeFits
<1>8. CardFits'
  BY <1>2 DEF CardFits
<1>9. ToolFits'
  BY <1>1, <1>3, <1>4, <1>6 DEF GateInv, ToolFits, CardFits
<1> QED BY <1>1, <1>3, <1>5, <1>7, <1>8, <1>9 DEF GateInv

-----------------------------------------------------------------------------
(* The recovery of a rejected queue *)

LEMMA LeastPlace ==
  ASSUME NEW numbers \in SUBSET Nat, numbers # {}
  PROVE  \E i \in numbers : \A j \in numbers : i <= j
<1> DEFINE less == OpToRel(<, Nat)
<1>1. IsWellFoundedOn(less, Nat)
  BY NatLessThanWellFounded
<1>2. \A i, j \in Nat : j < i => <<j, i>> \in less
  BY DEF OpToRel
<1> HIDE DEF less
<1>3. PICK i \in numbers : \A j \in numbers : ~ (<<j, i>> \in less)
  BY <1>1, WFMin, Zenon
<1>4. \A j \in numbers : ~ (j < i)
  BY <1>2, <1>3, Zenon
<1> QED BY <1>4

\* Whenever something waits, exactly one work is the next of the document.
LEMMA OneHead ==
  ASSUME GateInv
  PROVE  /\ G!Waiting # {} => G!Heads # {}
         /\ \A i, j \in G!Heads : i = j
<1>1. \A i \in G!Waiting : i \in DOMAIN works /\ G!Place(i) \in Nat
  <2> TAKE i \in G!Waiting
  <2>1. i \in DOMAIN works
    BY DEF G!Waiting
  <2>2. i \in Nat /\ G!Place(i) \in 1 .. i
    BY <2>1, PlaceFacts
  <2> QED BY <2>1, <2>2
<1>2. ASSUME G!Waiting # {} PROVE G!Heads # {}
  <2>1. PICK p \in {G!Place(i) : i \in G!Waiting} : \A q \in {G!Place(i) : i \in G!Waiting} : p <= q
    BY <1>1, <1>2, LeastPlace
  <2>2. PICK i \in G!Waiting : p = G!Place(i)
    BY <2>1
  <2>3. i \in G!Heads
    BY <2>1, <2>2 DEF G!Heads
  <2> QED BY <2>3
<1>3. ASSUME NEW i \in G!Heads, NEW j \in G!Heads PROVE i = j
  BY <1>1 DEF G!Heads, GateInv, Places
<1> QED BY <1>2, <1>3

LEMMA RecoveryLooksKeeps == ASSUME NothingIsNoStep, GateInv, G!RecoveryLooks PROVE GateInv'
<1> DEFINE looked == [step |-> "asking", chain |-> G!Candidate, mode |-> Nothing]
<1>1. /\ GateTypes' /\ bridge = Nothing /\ app \in Apps /\ card' = card
      /\ works' = works /\ host' = host /\ tally' = tally /\ tool' = tool /\ row' = row
      /\ hold' = hold /\ hold # "held" /\ app.worker = Nothing /\ G!Candidate # {}
      /\ bridge' = looked
      /\ app' = [app EXCEPT !.asking = TRUE, !.fresh = FALSE]
  BY RecoveryLooksTyped DEF G!RecoveryLooks, G!Free, GateInv, GateTypes
<1>2. app'.worker = Nothing
  BY <1>1 DEF Apps
<1>3. G!Heads' = G!Heads /\ SameWorks(works') /\ Places'
  BY <1>1, <1>2, QueueStays DEF WorkerStands
<1>4. host.mode # "LEGACY"
  BY <1>1, OneHead DEF G!Candidate, GateInv, Refusals, G!Heads, G!Waiting
<1>5. G!WorkFitsItsGate'
  BY <1>1, <1>3, FitsStay DEF GateInv
<1>6. Refusals' /\ SenderFits'
  BY <1>1, <1>2, <1>4 DEF Refusals, SenderFits
<1>7. BridgeFits'
  BY <1>1, <1>2 DEF BridgeFits
<1>8. CardFits' /\ ToolFits'
  BY <1>1, <1>3 DEF GateInv, CardFits, ToolFits
<1> QED BY <1>1, <1>3, <1>5, <1>6, <1>7, <1>8 DEF GateInv

LEMMA RecoveryAsksKeeps == ASSUME NothingIsNoStep, GateInv, G!RecoveryAsks PROVE GateInv'
<1>1. /\ GateTypes' /\ bridge # Nothing /\ app \in Apps /\ card' = card
      /\ works' = works /\ host' = host /\ tally' = tally /\ tool' = tool /\ row' = row
      /\ hold' = hold
  BY RecoveryAsksTyped DEF G!RecoveryAsks, GateInv, GateTypes
<1>2. app.worker = Nothing /\ app'.worker = Nothing /\ host.mode # "LEGACY"
  BY <1>1 DEF GateInv, BridgeFits, Refusals, G!RecoveryAsks, G!Resumed, Apps
<1>3. CASE bridge' = Nothing
  BY <1>1, <1>2, <1>3, QuietKeeps DEF WorkerStands
<1>4. CASE bridge' # Nothing
  <2>1. /\ host.mode = "ID_BASED" /\ bridge.step \in {"asking", "absent"}
        /\ bridge.step = "absent" \/ host.has \cap bridge.chain = {}
        /\ bridge' = [bridge EXCEPT !.step = IF @ = "asking" THEN "absent" ELSE "proven",
                                    !.mode = host.mode]
    BY <1>2, <1>4 DEF G!RecoveryAsks, G!Resumed
  <2>2. bridge \in Recovery
    BY <1>1 DEF GateInv, GateTypes, Bridges
  <2>3. bridge'.chain = bridge.chain /\ bridge'.mode = "ID_BASED"
    BY <2>1, <2>2 DEF Recovery
  <2>4. BridgeFits'
    BY <1>1, <1>2, <2>1, <2>3 DEF GateInv, BridgeFits
  <2>5. G!Heads' = G!Heads /\ SameWorks(works') /\ Places'
    BY <1>1, <1>2, QueueStays DEF WorkerStands
  <2>6. G!WorkFitsItsGate'
    BY <1>1, <2>5, FitsStay DEF GateInv
  <2>7. Refusals' /\ SenderFits'
    BY <1>1, <1>2 DEF Refusals, SenderFits
  <2>8. CardFits' /\ ToolFits'
    BY <1>1, <2>5 DEF GateInv, CardFits, ToolFits
  <2> QED BY <1>1, <2>4, <2>5, <2>6, <2>7, <2>8 DEF GateInv
<1> QED BY <1>3, <1>4

\* One transaction replaces the first of the chain by its successor, which stands in
\* its place, and opens the gate.
LEMMA CommitKeeps ==
  ASSUME NothingIsNoStep, GateInv, G!RecoveryCommits,
         NEW first \in G!Heads, G!Bridgeable(first),
         IF bridge.mode = "ID_BASED" THEN ~ row.gate /\ row.mode \in {"LEGACY", "ID_BASED"}
                                     ELSE row.mode = "LEGACY",
         row' = [gate |-> TRUE, mode |-> bridge.mode, proven |-> TRUE],
         works' = Append([works EXCEPT ![first].state = "superseded"],
                         [form |-> "contract", state |-> "waiting", tries |-> {},
                          last |-> Nothing, origin |-> G!Place(first)]),
         app' = IF row.mode = bridge.mode THEN app
                ELSE [G!Unsettled(app) EXCEPT !.baseline = FALSE]
  PROVE  GateInv'
<1> DEFINE old == [works EXCEPT ![first].state = "superseded"]
           w == [form |-> "contract", state |-> "waiting", tries |-> {}, last |-> Nothing,
                 origin |-> G!Place(first)]
           new == works'
<1>0. PICK n \in Nat : n = Len(works) + 1
  BY DEF GateInv, GateTypes
<1>1. /\ bridge \in Recovery /\ bridge.step = "proven" /\ bridge' = Nothing /\ hold' = hold
      /\ host' = host /\ card' = card /\ tool' = tool /\ tally' = tally /\ bridge # Nothing
      /\ app \in Apps
  BY DEF G!RecoveryCommits, GateInv, GateTypes, Bridges
<1>2. /\ app.worker = Nothing /\ hold # "held" /\ bridge.mode = "ID_BASED" /\ ~ row.gate
      /\ host.mode # "LEGACY" /\ bridge.chain # {} /\ host.has \cap bridge.chain = {}
  BY <1>1 DEF GateInv, BridgeFits, Refusals
<1>3. first \in G!Waiting /\ first \in DOMAIN works /\ G!Waiting = bridge.chain
  BY <1>2 DEF G!Heads, G!Waiting, G!Bridgeable, G!Candidate
<1>4. /\ works[first] \in Work /\ G!Place(first) \in 1 .. first /\ first \in Nat
      /\ first \notin host.has
  BY <1>2, <1>3, PlaceFacts
<1>5. /\ old \in Seq(Work) /\ Len(old) = Len(works) /\ DOMAIN old = DOMAIN works
      /\ old[first].state = "superseded" /\ old[first].origin = works[first].origin
      /\ old[first].last = works[first].last
      /\ \A i \in DOMAIN works : i # first => old[i] = works[i]
  <2> DEFINE gone == [works[first] EXCEPT !.state = "superseded"]
  <2>1. /\ gone \in Work /\ gone.state = "superseded" /\ gone.origin = works[first].origin
        /\ gone.last = works[first].last
    BY <1>4 DEF Work
  <2>2. old = [works EXCEPT ![first] = gone]
    OBVIOUS
  <2> HIDE DEF gone, old
  <2>3. \A i \in DOMAIN works : works[i] \in Work
    BY DEF GateInv, GateTypes
  <2>4. /\ DOMAIN old = DOMAIN works /\ old = [i \in DOMAIN works |-> old[i]]
        /\ \A i \in DOMAIN works : old[i] = IF i = first THEN gone ELSE works[i]
    BY <2>2, <1>3 DEF GateInv, GateTypes
  <2>5. old \in Seq(Work) /\ Len(old) = Len(works)
    BY <2>1, <2>3, <2>4, QueueRewritten DEF GateInv, GateTypes
  <2> QED BY <1>3, <2>1, <2>4, <2>5
<1>6. w \in Work /\ w.state = "waiting" /\ w.origin = G!Place(first) /\ w.form = "contract"
  BY <1>4 DEF Work
<1>7. new = Append(old, w)
  OBVIOUS
<1> HIDE DEF old, w, new
<1>8. /\ new \in Seq(Work) /\ DOMAIN new = DOMAIN works \cup {n} /\ new[n] = w
      /\ \A i \in DOMAIN works : new[i] = old[i]
      /\ n \notin DOMAIN works /\ \A i \in DOMAIN works : i < n
  BY <1>0, <1>5, <1>6, <1>7, AppendProperties, LenProperties DEF GateInv, GateTypes
<1>9. new = works'
  BY DEF new
<1>10. G!Waiting' = (G!Waiting \ {first}) \cup {n}
  BY <1>3, <1>5, <1>6, <1>8, <1>9 DEF G!Waiting
<1>11. /\ \A i \in DOMAIN works : G!Place(i)' = G!Place(i)
       /\ G!Place(n)' = G!Place(first)
  BY <1>4, <1>5, <1>6, <1>8, <1>9 DEF G!Place
<1>12. G!Waiting \subseteq DOMAIN works
  BY DEF G!Waiting
<1>13. \A j \in G!Waiting \ {first} : G!Place(first) <= G!Place(j) /\ G!Place(first) # G!Place(j)
  BY <1>3 DEF G!Heads, GateInv, Places
<1>14. G!Heads' = {n}
  <2>1. G!Heads' = {i \in G!Waiting' : \A j \in G!Waiting' : G!Place(i)' <= G!Place(j)'}
    BY DEF G!Heads
  <2>2. \A j \in G!Waiting \ {first} :
          G!Place(j)' = G!Place(j) /\ G!Place(j) \in Nat /\ G!Place(first) < G!Place(j)
    <3> TAKE j \in G!Waiting \ {first}
    <3>1. j \in Nat /\ G!Place(j) \in 1 .. j
      BY <1>12, PlaceFacts
    <3> QED BY <1>4, <1>11, <1>12, <1>13, <3>1
  <2>3. n \in G!Heads'
    BY <1>4, <1>10, <1>11, <2>1, <2>2
  <2>4. \A j \in G!Waiting \ {first} : j \notin G!Heads'
    BY <1>4, <1>10, <1>11, <2>1, <2>2
  <2>5. G!Heads' \subseteq G!Waiting'
    BY <2>1
  <2> QED BY <1>10, <2>3, <2>4, <2>5
<1>15. app' \in Apps /\ app'.worker = Nothing
  BY <1>1, <1>2, UnsettledTyped DEF Apps
<1>16. GateTypes'
  BY <1>1, <1>2, <1>8, <1>9, <1>15 DEF Rows, Modes, GateInv, GateTypes, Bridges
<1>17. Places'
  <2>1. \A i, j \in G!Waiting' : G!Place(i)' = G!Place(j)' => i = j
    BY <1>10, <1>11, <1>12, <1>13 DEF GateInv, Places
  <2>2. /\ new[G!Place(first)].state = "superseded" /\ G!Place(first) \notin host.has
        /\ G!Place(first) < n
    <3>1. CASE works[first].origin = 0
      BY <1>3, <1>4, <1>5, <1>8, <3>1 DEF G!Place
    <3>2. CASE works[first].origin # 0
      <4>1. /\ G!Place(first) = works[first].origin /\ works[first].origin \in DOMAIN works
            /\ works[works[first].origin].state = "superseded"
            /\ works[first].origin \notin host.has
        BY <1>3, <3>2, PlaceFacts DEF G!Place, GateInv, Places
      <4> QED BY <1>5, <1>8, <4>1
    <3> QED BY <3>1, <3>2
  <2>3. ASSUME NEW i \in DOMAIN works
        PROVE  /\ new[i].origin < i
               /\ new[i].origin # 0 => /\ new[new[i].origin].state = "superseded"
                                       /\ new[i].origin \notin host.has
    <3>1. new[i].origin = works[i].origin /\ works[i].origin < i
      BY <1>5, <1>8 DEF GateInv, Places
    <3>2. works[i].origin # 0 =>
            /\ works[i].origin \in DOMAIN works
            /\ works[works[i].origin].state = "superseded" /\ works[i].origin \notin host.has
      BY PlaceFacts DEF GateInv, Places
    <3> QED BY <1>5, <1>8, <3>1, <3>2
  <2>4. \A i \in DOMAIN new :
          /\ new[i].origin < i
          /\ new[i].origin # 0 => /\ new[new[i].origin].state = "superseded"
                                  /\ new[i].origin \notin host.has
    BY <1>6, <1>8, <2>2, <2>3
  <2> QED BY <1>1, <1>9, <2>1, <2>4 DEF Places
<1>18. G!WorkFitsItsGate'
  BY <1>6, <1>8, <1>9, <1>14 DEF G!WorkFitsItsGate
<1>19. Refusals' /\ SenderFits' /\ BridgeFits'
  BY <1>1, <1>2, <1>15 DEF Refusals, SenderFits, BridgeFits
<1>20. CardFits'
  BY <1>1, <1>2 DEF GateInv, CardFits
<1>21. ToolFits'
  BY <1>1, <1>2, <1>6, <1>8, <1>9, <1>14 DEF GateInv, ToolFits
<1> QED BY <1>16, <1>17, <1>18, <1>19, <1>20, <1>21 DEF GateInv

LEMMA RecoveryCommitsKeeps ==
  ASSUME NothingIsNoStep, GateInv, G!RecoveryCommits PROVE GateInv'
<1>1. CASE row' = row /\ works' = works /\ app' = app
  BY <1>1, QuietKeeps DEF G!RecoveryCommits, GateInv, GateTypes, Bridges, BridgeFits,
     WorkerStands
<1> QED BY <1>1, CommitKeeps, Zenon DEF G!RecoveryCommits

-----------------------------------------------------------------------------
(* The tool and the server *)

LEMMA ToolKeeps ==
  ASSUME NothingIsNoStep, GateInv,
         \/ G!ToolStops \/ G!ToolAsks \/ G!ToolSwitches \/ G!ServerTurns
         \/ \E job \in {"activate", "deactivate"} : G!ToolStarts(job)
  PROVE  GateInv'
<1>1. CASE \E job \in {"activate", "deactivate"} : G!ToolStarts(job)
  <2>1. PICK job \in {"activate", "deactivate"} : G!ToolStarts(job)
    BY <1>1
  <2>2. /\ works' = works /\ host' = host /\ app' = app /\ card' = card /\ bridge' = bridge
        /\ row' = row /\ hold' = hold /\ G!NothingOwed(job)
        /\ tally' = [tally EXCEPT !.events = @ + 1]
        /\ tool' = [job |-> job, step |-> IF job = "activate" THEN "asked" ELSE "shutting"]
    BY <2>1 DEF G!ToolStarts
  <2>3. tally' \in Tallies /\ tally'.late = tally.late /\ tool' \in Tools
    BY <2>2 DEF GateInv, GateTypes, Tallies, Tools, ToolSteps
  <2>4. GateTypes'
    BY <2>2, <2>3 DEF GateInv, GateTypes
  <2>5. G!Heads' = G!Heads /\ SameWorks(works') /\ Places' /\ Refusals'
    BY <2>2, <2>3, QueueStays DEF WorkerStands
  <2>6. G!WorkFitsItsGate'
    BY <2>2, <2>3, <2>5, FitsStay DEF GateInv
  <2>7. SenderFits' /\ BridgeFits'
    BY <2>2, <2>5 DEF GateInv, SenderFits, BridgeFits
  <2>8. CardFits' /\ ToolFits'
    <3>1. CASE job = "activate"
      BY <2>2, <2>3, <2>5, <3>1 DEF G!NothingOwed, G!Heads, G!Waiting, GateInv, CardFits,
         ToolFits
    <3>2. CASE job = "deactivate"
      <4>1. /\ tool'.step = "shutting" /\ row.gate = TRUE
            /\ \A i \in G!Waiting : works[i].form # "contract"
        BY <2>2, <3>2 DEF G!NothingOwed, GateInv, GateTypes, Rows
      <4>2. G!Heads \subseteq tally.late
        BY <4>1 DEF GateInv, G!WorkFitsItsGate, G!Heads
      <4> QED BY <2>2, <2>3, <2>5, <4>1, <4>2 DEF GateInv, CardFits, ToolFits
    <3> QED BY <3>1, <3>2
  <2> QED BY <2>4, <2>5, <2>6, <2>7, <2>8 DEF GateInv
<1>2. CASE G!ToolStops \/ G!ToolAsks
  <2>1. GateTypes'
    BY <1>2, ToolStopsTyped, ToolAsksTyped DEF GateInv
  <2>2. /\ works' = works /\ host' = host /\ app' = app /\ card' = card /\ bridge' = bridge
        /\ row'.gate = row.gate /\ hold' = hold /\ tally' = tally
    BY <1>2 DEF G!ToolStops, G!ToolAsks, G!Observed, GateInv, GateTypes, Rows
  <2>3. \/ tool'.step \notin ToolSteps
        \/ tool'.step = "opening" /\ tool.step = "asked"
    <3>1. G!AtRest.step \notin ToolSteps
      BY DEF G!AtRest, NothingIsNoStep
    <3> QED BY <1>2, <3>1 DEF G!ToolStops, G!ToolAsks, GateInv, GateTypes, Tools
  <2>4. G!Heads' = G!Heads /\ SameWorks(works') /\ Places' /\ Refusals'
    BY <2>2, QueueStays DEF WorkerStands
  <2>5. G!WorkFitsItsGate'
    BY <2>2, <2>4, FitsStay DEF GateInv
  <2>6. SenderFits' /\ BridgeFits'
    BY <2>2, <2>4 DEF GateInv, SenderFits, BridgeFits
  <2>7. CardFits' /\ ToolFits'
    BY <2>2, <2>3, <2>4 DEF GateInv, CardFits, ToolFits, ToolSteps
  <2> QED BY <2>1, <2>4, <2>5, <2>6, <2>7 DEF GateInv
<1>3. CASE G!ToolSwitches
  <2>1. GateTypes'
    BY <1>3, ToolSwitchesTyped DEF GateInv
  <2>2. /\ works' = works /\ host' = host /\ app' = app /\ card' = card /\ bridge' = bridge
        /\ hold' = hold /\ tally' = tally /\ tool' = G!AtRest
        /\ row'.gate = (tool.step = "opening") /\ tool.step \in {"opening", "shutting"}
    BY <1>3 DEF G!ToolSwitches, GateInv, GateTypes, Rows
  <2>3. tool'.step \notin ToolSteps
    BY <2>2 DEF G!AtRest, NothingIsNoStep
  <2>4. G!Heads' = G!Heads /\ SameWorks(works') /\ Places' /\ Refusals'
    BY <2>2, QueueStays DEF WorkerStands
  <2>5. G!WorkFitsItsGate'
    BY <2>2, <2>4 DEF GateInv, ToolFits, G!WorkFitsItsGate
  <2>6. SenderFits' /\ BridgeFits'
    BY <2>2, <2>4 DEF GateInv, SenderFits, BridgeFits
  <2>7. CardFits' /\ ToolFits'
    BY <2>2, <2>3 DEF GateInv, CardFits, ToolFits, ToolSteps
  <2> QED BY <2>1, <2>4, <2>5, <2>6, <2>7 DEF GateInv
<1>4. CASE G!ServerTurns
  <2>1. GateTypes'
    BY <1>4, ServerTurnsTyped DEF GateInv
  <2>2. /\ works' = works /\ app' = app /\ card' = card /\ bridge' = bridge
        /\ row' = row /\ hold' = hold /\ tool' = tool /\ tally'.late = tally.late
        /\ host'.has = host.has
        /\ host'.mode = "LEGACY" => host.mode = "LEGACY"
    BY <1>4 DEF G!ServerTurns, GateInv, GateTypes, Hosts, Tallies
  <2>3. G!Heads' = G!Heads /\ SameWorks(works') /\ Places'
    BY <2>2, SameIsSame, HeadsStay, PlacesStay DEF GateInv, GateTypes
  <2>4. G!WorkFitsItsGate'
    BY <2>2, <2>3, FitsStay DEF GateInv
  <2>5. Refusals' /\ SenderFits' /\ BridgeFits'
    BY <2>2, <2>3 DEF GateInv, Refusals, SenderFits, BridgeFits
  <2>6. CardFits' /\ ToolFits'
    BY <2>2, <2>3 DEF GateInv, CardFits, ToolFits
  <2> QED BY <2>1, <2>3, <2>4, <2>5, <2>6 DEF GateInv
<1> QED BY <1>1, <1>2, <1>3, <1>4

-----------------------------------------------------------------------------
(* What follows *)

LEMMA GateStarts == ASSUME NothingIsNoStep, G!GateInit PROVE GateInv
<1>1. /\ row = [gate |-> FALSE, mode |-> "LEGACY", proven |-> FALSE] /\ hold = "none"
      /\ works = <<>> /\ app = G!Down /\ card = G!NoJob /\ bridge = Nothing
      /\ tool = G!AtRest /\ tally = [turns |-> 0, events |-> 0, late |-> {}]
      /\ host \in [mode : {"LEGACY", "ID_BASED"}, supports : {TRUE}, has : {{}}]
  BY DEF G!GateInit
<1>2. works \in Seq(Work) /\ DOMAIN works = {} /\ G!Waiting = {} /\ G!Heads = {}
  BY <1>1 DEF G!Waiting, G!Heads
<1>3. host \in Hosts /\ host.has = {}
  BY <1>1 DEF Hosts, Modes
<1>4. GateTypes
  BY <1>1, <1>2, <1>3, DownTyped, NoJobTyped
     DEF GateTypes, Rows, Modes, Holds, Bridges, Tools, ToolSteps, G!AtRest, Tallies
<1>5. card.step = Nothing /\ tool.step = Nothing /\ app.worker = Nothing
  BY <1>1, DownTyped, NoJobTyped DEF G!AtRest
<1>6. Places /\ Refusals /\ SenderFits /\ BridgeFits /\ G!WorkFitsItsGate
  BY <1>1, <1>2, <1>5 DEF Places, Refusals, SenderFits, BridgeFits, G!WorkFitsItsGate
<1>7. CardFits /\ ToolFits
  BY <1>5 DEF CardFits, ToolFits, NothingIsNoStep, CardSteps, ToolSteps
<1> QED BY <1>4, <1>6, <1>7 DEF GateInv

LEMMA GateStep == ASSUME NothingIsNoStep, GateInv, G!GateNext PROVE GateInv'
<1>1. CASE \/ G!Start \/ G!Connect \/ G!PullStarts \/ G!PullEnds \/ G!Ask \/ G!Answered
           \/ G!Activate \/ G!Release \/ G!JobAsks \/ G!JobAnswered \/ G!Finished \/ G!Poll
  BY <1>1, OrdinaryStep
<1>2. CASE G!Stop \/ G!Save \/ G!Check \/ G!Send \/ G!Reply
  BY <1>2, StopKeeps, SaveKeeps, CheckKeeps, SendKeeps, ReplyKeeps
<1>3. CASE \E i \in DOMAIN works : G!Dispatch(i)
  BY <1>3, DispatchKeeps
<1>4. CASE G!Prepare \/ G!Reprepare \/ G!JobLooks \/ G!JobWrites
  BY <1>4, PrepareKeeps, ReprepareKeeps, JobLooksKeeps, JobWritesKeeps
<1>5. CASE G!RecoveryLooks \/ G!RecoveryAsks \/ G!RecoveryCommits
  BY <1>5, RecoveryLooksKeeps, RecoveryAsksKeeps, RecoveryCommitsKeeps
<1>6. CASE \/ G!ToolStops \/ G!ToolAsks \/ G!ToolSwitches \/ G!ServerTurns
           \/ \E job \in {"activate", "deactivate"} : G!ToolStarts(job)
  BY <1>6, ToolKeeps
<1> QED BY <1>1, <1>2, <1>3, <1>4, <1>5, <1>6 DEF G!GateNext

LEMMA GateStutter == ASSUME GateInv, UNCHANGED gated PROVE GateInv'
<1>1. /\ row' = row /\ hold' = hold /\ works' = works /\ host' = host /\ app' = app
      /\ card' = card /\ bridge' = bridge /\ tool' = tool /\ tally' = tally
  BY DEF gated
<1>2. GateTypes'
  BY <1>1 DEF GateInv, GateTypes
<1> QED BY <1>1, <1>2, QuietKeeps DEF WorkerStands

LEMMA GateHolds == ASSUME GateInv PROVE G!WorkFitsItsGate /\ G!OriginalsHaveNoTwin
<1>1. ASSUME NEW i \in host.has PROVE works[i].origin \notin host.has
  BY <1>1 DEF GateInv, GateTypes, Places
<1> QED BY <1>1 DEF GateInv, G!OriginalsHaveNoTwin

\* Only the last write of a release takes the hold away.
LEMMA HoldMoves ==
  ASSUME G!GateNext PROVE hold' \in {hold, "held"} \/ G!JobWrites
<1>1. CASE \/ G!Start \/ G!Connect \/ G!Stop \/ G!Save \/ G!PullStarts \/ G!PullEnds \/ G!Ask \/ G!Check
           \/ G!Send \/ G!Reply \/ G!Activate \/ G!Release \/ G!JobAsks \/ G!JobLooks
           \/ G!Finished \/ G!Poll \/ G!RecoveryLooks \/ G!RecoveryAsks \/ G!ToolStops \/ G!ServerTurns
  BY <1>1 DEF G!Start, G!Connect, G!Stop, G!Save, G!PullStarts, G!PullEnds, G!Ask, G!Check, G!Send,
    G!Reply, G!Activate, G!Release, G!JobAsks, G!JobLooks, G!Finished, G!Poll, G!RecoveryLooks, G!RecoveryAsks, G!ToolStops, G!ServerTurns
<1>2. CASE \/ G!Answered \/ G!JobAnswered \/ G!RecoveryCommits \/ G!ToolAsks \/ G!ToolSwitches
           \/ G!Prepare \/ G!Reprepare
  BY <1>2 DEF G!Answered, G!JobAnswered, G!RecoveryCommits, G!ToolAsks, G!ToolSwitches,
    G!Prepare, G!Reprepare
<1>3. CASE \/ \E i \in DOMAIN works : G!Dispatch(i)
           \/ \E job \in {"activate", "deactivate"} : G!ToolStarts(job)
  BY <1>3 DEF G!Dispatch, G!ToolStarts
<1> QED BY <1>1, <1>2, <1>3 DEF G!GateNext

HoldStays ==
  /\ app.worker # Nothing /\ app.worker.step = "checked" /\ app'.up
       /\ app'.worker # Nothing /\ app'.worker.step # "checked" => hold # "held"
  /\ hold = "held" /\ hold' # "held" => DOMAIN works \subseteq tally.late

LEMMA HoldStep == ASSUME GateInv, G!GateNext PROVE HoldStays
<1>1. app.worker # Nothing /\ app.worker.step = "checked" => hold # "held"
  BY DEF GateInv, SenderFits
<1>2. ASSUME hold = "held", hold' # "held" PROVE DOMAIN works \subseteq tally.late
  BY <1>2, HoldMoves DEF G!JobWrites, GateInv, CardFits
<1> QED BY <1>1, <1>2 DEF HoldStays

Rank(m) == CASE m = "LEGACY" -> 0 [] m = "MIGRATING" -> 1 [] m = "ID_BASED" -> 2

ModeForward ==
  /\ Rank(row.mode) <= Rank(row'.mode)
  /\ Rank(row'.mode) > Rank(row.mode) + 1 =>
       ~ row.gate /\ (G!Waiting = {} \/ Len(works') > Len(works))

LEMMA ModeStep == ASSUME GateInv, G!GateNext PROVE ModeForward
<1>0. row \in Rows /\ host \in Hosts /\ row.mode \in Modes /\ host.mode \in Modes
  BY DEF GateInv, GateTypes, Rows, Hosts
<1>1. Rank("LEGACY") = 0 /\ Rank("MIGRATING") = 1 /\ Rank("ID_BASED") = 2
  BY DEF Rank
<1>2. \A m, n \in Modes : G!MayFollow(m, n) => Rank(m) <= Rank(n) /\ Rank(n) <= Rank(m) + 1
  BY DEF Rank, Modes, G!MayFollow
<1>3. CASE row'.mode = row.mode
  BY <1>0, <1>1, <1>3 DEF ModeForward, Modes
<1>4. CASE row'.mode = host.mode /\ G!MayFollow(row.mode, host.mode)
  BY <1>0, <1>1, <1>2, <1>4 DEF ModeForward, Modes
<1>5. CASE \/ G!Start \/ G!Connect \/ G!Stop \/ G!Save \/ G!PullStarts \/ G!PullEnds \/ G!Ask \/ G!Check
           \/ G!Send \/ G!Reply \/ G!Activate \/ G!Release \/ G!JobAsks \/ G!JobLooks
           \/ G!Finished \/ G!Poll \/ G!RecoveryLooks \/ G!RecoveryAsks \/ G!ToolStops \/ G!ServerTurns
           \/ G!Prepare \/ \E i \in DOMAIN works : G!Dispatch(i)
           \/ \E job \in {"activate", "deactivate"} : G!ToolStarts(job)
  <2>1. row' = row
    BY <1>5 DEF G!Start, G!Connect, G!Stop, G!Save, G!PullStarts, G!PullEnds, G!Ask, G!Check,
      G!Send, G!Reply, G!Activate, G!Release, G!JobAsks, G!JobLooks, G!Finished, G!Poll,
      G!RecoveryLooks, G!RecoveryAsks, G!ToolStops, G!ServerTurns, G!Prepare, G!Dispatch, G!ToolStarts
  <2> QED BY <1>3, <2>1
<1>6. CASE G!JobWrites \/ G!Reprepare \/ G!ToolSwitches
  BY <1>0, <1>3, <1>6 DEF G!JobWrites, G!Reprepare, G!ToolSwitches, Rows
<1>7. CASE G!Answered \/ G!ToolAsks
  BY <1>0, <1>3, <1>4, <1>7 DEF G!Answered, G!ToolAsks, G!Observed, Rows
<1>8. CASE G!JobAnswered
  <2>1. \/ row' = row
        \/ row' = G!Observed /\ G!MayFollow(row.mode, host.mode)
        \/ row' = G!Observed /\ G!MayAccept
    BY <1>8 DEF G!JobAnswered
  <2>2. G!Observed.mode = host.mode
    BY <1>0 DEF G!Observed, Rows
  <2>3. CASE row' = G!Observed /\ G!MayAccept
    BY <1>0, <1>1, <2>2, <2>3 DEF G!MayAccept, G!Quiet, ModeForward, Modes
  <2> QED BY <1>3, <1>4, <2>1, <2>2, <2>3
<1>9. CASE G!RecoveryCommits
  <2>1. CASE row' = row
    BY <1>3, <2>1
  <2>2. CASE \E first \in G!Heads :
               /\ IF bridge.mode = "ID_BASED" THEN ~ row.gate /\ row.mode \in {"LEGACY", "ID_BASED"}
                                              ELSE row.mode = "LEGACY"
               /\ row' = [gate |-> TRUE, mode |-> bridge.mode, proven |-> TRUE]
               /\ works' = Append([works EXCEPT ![first].state = "superseded"],
                                  [form |-> "contract", state |-> "waiting", tries |-> {},
                                   last |-> Nothing, origin |-> G!Place(first)])
    <3>1. bridge.mode = "ID_BASED"
      BY <1>9 DEF GateInv, BridgeFits, G!RecoveryCommits
    <3>2. ~ row.gate /\ row'.mode = "ID_BASED"
      BY <2>2, <3>1
    <3>3. Len(works') > Len(works)
      <4>1. PICK first \in G!Heads :
              works' = Append([works EXCEPT ![first].state = "superseded"],
                              [form |-> "contract", state |-> "waiting", tries |-> {},
                               last |-> Nothing, origin |-> G!Place(first)])
        BY <2>2
      <4> DEFINE old == [works EXCEPT ![first].state = "superseded"]
                 w == [form |-> "contract", state |-> "waiting", tries |-> {},
                       last |-> Nothing, origin |-> G!Place(first)]
      <4>2. works \in Seq(Work) /\ Len(works) \in Nat
        BY DEF GateInv, GateTypes
      <4>3. old = [i \in 1 .. Len(works) |->
                     IF i = first THEN [works[i] EXCEPT !.state = "superseded"] ELSE works[i]]
        BY <4>2
      <4>4. Len(works') = Len(works) + 1
        BY <4>1, <4>2, <4>3, AppendProperties, LenProperties
      <4> QED BY <4>2, <4>4
    <3> QED BY <1>0, <1>1, <3>2, <3>3 DEF ModeForward, Modes
  <2> QED BY <1>9, <2>1, <2>2, Zenon DEF G!RecoveryCommits
<1> QED BY <1>5, <1>6, <1>7, <1>8, <1>9 DEF G!GateNext

\* The gate of the contract path (ContractGate): a waiting save that is next for its
\* document has the shape of the gate, unless it came between a look at the queue and
\* the switch of somebody else; and the server never takes both a rejected save and the
\* successor that replaces it.
THEOREM QueueFitsItsGate ==
  ASSUME NothingIsNoStep PROVE StructureSpec => []GateFitsTheQueue
<1>1. StructureInit => GateInv
  BY GateStarts DEF StructureInit
<1>2. GateInv /\ [StructureNext]_<<part, lifecycle, batched, filed, gated>> => GateInv'
  BY GateStep, GateStutter DEF StructureNext
<1>3. GateInv => GateFitsTheQueue
  BY GateHolds DEF GateFitsTheQueue
<1> QED BY <1>1, <1>2, <1>3, PTL DEF StructureSpec

\* The hold and the observed mode (ContractGate): no request leaves the device while the
\* hold of the guarded trial stands, the hold is lifted only over the fixture and what was
\* saved during that write, and the mode the device has seen of the server never moves
\* back, and past the migration only with the gate shut.
THEOREM HoldAndModeStayKept ==
  ASSUME NothingIsNoStep PROVE StructureSpec => HoldAndModeAreKept
<1>1. StructureInit => GateInv
  BY GateStarts DEF StructureInit
<1>2. GateInv /\ [StructureNext]_<<part, lifecycle, batched, filed, gated>> => GateInv'
  BY GateStep, GateStutter DEF StructureNext
<1>3. GateInv /\ [StructureNext]_<<part, lifecycle, batched, filed, gated>> =>
        [HoldStays]_(G!gateVars) /\ [ModeForward]_(G!gateVars)
  BY HoldStep, ModeStep DEF StructureNext, gated, G!gateVars
<1>4. StructureSpec => [][HoldStays]_(G!gateVars) /\ [][ModeForward]_(G!gateVars)
  BY <1>1, <1>2, <1>3, PTL DEF StructureSpec
<1>5. [][HoldStays]_(G!gateVars) => G!HoldIsKept
  BY PTL DEF HoldStays, G!HoldIsKept
<1>6. [][ModeForward]_(G!gateVars) => G!ModeMovesForward
  BY PTL DEF ModeForward, Rank, G!ModeMovesForward
<1> QED BY <1>4, <1>5, <1>6 DEF HoldAndModeAreKept

-----------------------------------------------------------------------------
(* The structure batches (StructureBatches) *)

OpStates == B!ActiveStates \cup {"completed", "cancelled"}

FolderOp ==
  [entity : Shelf, kind : {"rename"}, base : Nat, value : Title, state : OpStates]
    \cup [entity : Shelf, kind : {"move"}, base : Nat, value : Dir, state : OpStates]
    \cup [entity : Shelf, kind : {"create", "restore"}, base : Nat,
          value : [name : Title, dir : Dir], state : OpStates]
    \cup [entity : Shelf, kind : {"delete"}, base : Nat, value : {Nothing}, state : OpStates]

OrderOp ==
  [entity : {Order}, kind : {"reorder"}, base : Nat, value : {Nothing}, state : OpStates]

\* At most two intents of one folder, then the order.
Batch ==
  {ops \in Seq(FolderOp \cup OrderOp) :
     /\ Len(ops) \in 1 .. 3
     /\ \A i \in 1 .. Len(ops) : ops[i] \in IF i = Len(ops) THEN OrderOp ELSE FolderOp}

ShelfRow == [revision : Nat, name : Title, dir : Dir, parent : Dir, deleted : BOOLEAN]
RemoteRow == [revision : Nat, name : Title, dir : Dir, deleted : BOOLEAN]

BatchTypes ==
  /\ shelves \in [B!Entity -> ShelfRow]
  /\ remote \in [B!Entity -> RemoteRow]
  /\ batches \in Seq(Batch)
  /\ results \in Seq({Nothing, "applied", "refused"}) /\ Len(results) = Len(batches)
  /\ sender \in {Nothing} \cup [batch : 1 .. Len(batches),
                                answer : {Nothing, B!Lost} \cup [failed : 0 .. 3]]
  /\ accepted \in SUBSET (1 .. Len(batches))
  /\ others \in Nat

\* Every batch reorders, so every batch but the newest has lost its order.
NewestOnly ==
  \A b \in 1 .. Len(batches) :
    b < Len(batches) => batches[b][Len(batches[b])].state \notin B!ActiveStates

\* The batch on its way has no result, and the answer is the server's.
SentFits ==
  sender # Nothing =>
    /\ results[sender.batch] = Nothing
    /\ sender.answer \notin {Nothing, B!Lost} =>
         (sender.answer.failed = 0 <=> sender.batch \in accepted)

Full(ops) == \A i \in 1 .. Len(ops) : ops[i].state \in B!ActiveStates

Mine(ops, e) == {i \in 1 .. Len(ops) : ops[i].entity = e}

\* The revision the entity has once the operations are applied.
Reached(ops, e, before) ==
  IF Mine(ops, e) = {} THEN before
  ELSE ops[CHOOSE i \in Mine(ops, e) : \A j \in Mine(ops, e) : j <= i].base + 1

\* While one batch alone is applied and not yet recorded, the server is ahead by it.
OneAhead ==
  \A b \in accepted :
    /\ Full(batches[b]) /\ others = 0
    /\ \A c \in accepted \ {b} : results[c] = "applied"
    => \A e \in B!Entity : remote[e].revision = Reached(batches[b], e, shelves[e].revision)

BatchInv ==
  /\ BatchTypes /\ NewestOnly /\ SentFits /\ OneAhead
  /\ B!BatchesAreWhole /\ B!RevisionsAreProven

\* No folder has the name of the order, and the value for none is neither a
\* result nor a place in the queue.
OrderStandsApart ==
  /\ Order \notin Shelf
  /\ Nothing \notin {"applied", "refused"} \cup (Nat \X Nat)

\* Operations that differ from the ones of the queue in their states only.
Restated(bs) ==
  /\ bs = [b \in 1 .. Len(batches) |-> [i \in 1 .. Len(batches[b]) |->
             [batches[b][i] EXCEPT !.state = bs[b][i].state]]]
  /\ \A b \in 1 .. Len(batches) : \A i \in 1 .. Len(batches[b]) : bs[b][i].state \in OpStates

LEMMA BatchTyped ==
  ASSUME NEW ops \in Batch
  PROVE  /\ Len(ops) \in 1 .. 3 /\ DOMAIN ops = 1 .. Len(ops)
         /\ ops = [i \in 1 .. Len(ops) |-> ops[i]]
         /\ \A i \in 1 .. Len(ops) :
              /\ ops[i] \in FolderOp \cup OrderOp
              /\ ops[i].state \in OpStates /\ ops[i].base \in Nat
              /\ ops[i] \in IF i = Len(ops) THEN OrderOp ELSE FolderOp
<1>1. /\ ops \in Seq(FolderOp \cup OrderOp)
      /\ Len(ops) \in 1 .. 3
      /\ \A i \in 1 .. Len(ops) : ops[i] \in IF i = Len(ops) THEN OrderOp ELSE FolderOp
  BY DEF Batch
<1>2. DOMAIN ops = 1 .. Len(ops) /\ ops = [i \in 1 .. Len(ops) |-> ops[i]]
  BY <1>1
<1>3. \A o \in FolderOp \cup OrderOp : o.state \in OpStates /\ o.base \in Nat
  BY DEF FolderOp, OrderOp
<1> QED BY <1>1, <1>2, <1>3

LEMMA OpRestated ==
  ASSUME NEW o, NEW s \in OpStates
  PROVE  /\ o \in FolderOp => [o EXCEPT !.state = s] \in FolderOp
         /\ o \in OrderOp => [o EXCEPT !.state = s] \in OrderOp
         /\ o \in FolderOp \cup OrderOp =>
              /\ [o EXCEPT !.state = s].state = s
              /\ [o EXCEPT !.state = s].entity = o.entity
              /\ [o EXCEPT !.state = s].base = o.base
  BY DEF FolderOp, OrderOp

LEMMA BatchRestated ==
  ASSUME NEW ops \in Batch, NEW new,
         new = [i \in 1 .. Len(ops) |-> [ops[i] EXCEPT !.state = new[i].state]],
         \A i \in 1 .. Len(ops) : new[i].state \in OpStates
  PROVE  /\ new \in Batch /\ Len(new) = Len(ops)
         /\ \A i \in 1 .. Len(ops) : new[i].entity = ops[i].entity /\ new[i].base = ops[i].base
<1>1. /\ Len(ops) \in 1 .. 3
      /\ \A i \in 1 .. Len(ops) :
           /\ ops[i] \in FolderOp \cup OrderOp
           /\ ops[i] \in IF i = Len(ops) THEN OrderOp ELSE FolderOp
  BY BatchTyped
<1>2. \A i \in 1 .. Len(ops) :
        /\ new[i] = [ops[i] EXCEPT !.state = new[i].state]
        /\ new[i] \in FolderOp \cup OrderOp
        /\ new[i] \in IF i = Len(ops) THEN OrderOp ELSE FolderOp
        /\ new[i].entity = ops[i].entity /\ new[i].base = ops[i].base
  <2> TAKE i \in 1 .. Len(ops)
  <2>1. new[i] = [ops[i] EXCEPT !.state = new[i].state]
    OBVIOUS
  <2> DEFINE s == new[i].state
  <2>2. s \in OpStates
    OBVIOUS
  <2> HIDE DEF s
  <2>3. /\ [ops[i] EXCEPT !.state = s] \in FolderOp \cup OrderOp
        /\ [ops[i] EXCEPT !.state = s] \in IF i = Len(ops) THEN OrderOp ELSE FolderOp
        /\ [ops[i] EXCEPT !.state = s].entity = ops[i].entity
        /\ [ops[i] EXCEPT !.state = s].base = ops[i].base
    BY <1>1, <2>2, OpRestated
  <2> QED BY <2>1, <2>3 DEF s
<1>3. new \in Seq(FolderOp \cup OrderOp) /\ Len(new) = Len(ops)
  BY <1>1, <1>2
<1> QED BY <1>1, <1>2, <1>3 DEF Batch

LEMMA QueueRestated ==
  ASSUME BatchTypes, NEW bs, Restated(bs)
  PROVE  /\ bs \in Seq(Batch) /\ Len(bs) = Len(batches)
         /\ \A b \in 1 .. Len(batches) :
              /\ bs[b] \in Batch /\ Len(bs[b]) = Len(batches[b])
              /\ \A i \in 1 .. Len(batches[b]) : /\ bs[b][i].entity = batches[b][i].entity
                                                 /\ bs[b][i].base = batches[b][i].base
<1>1. batches \in Seq(Batch) /\ Len(batches) \in Nat
  BY DEF BatchTypes
<1>2. ASSUME NEW b \in 1 .. Len(batches)
      PROVE  /\ bs[b] \in Batch /\ Len(bs[b]) = Len(batches[b])
             /\ \A i \in 1 .. Len(batches[b]) : /\ bs[b][i].entity = batches[b][i].entity
                                                /\ bs[b][i].base = batches[b][i].base
  <2> DEFINE ops == batches[b]
             new == bs[b]
  <2>1. ops \in Batch
    BY <1>1
  <2>2. new = [i \in 1 .. Len(ops) |-> [ops[i] EXCEPT !.state = new[i].state]]
    BY DEF Restated
  <2>3. \A i \in 1 .. Len(ops) : new[i].state \in OpStates
    BY DEF Restated
  <2> HIDE DEF ops, new
  <2>4. /\ new \in Batch /\ Len(new) = Len(ops)
        /\ \A i \in 1 .. Len(ops) : new[i].entity = ops[i].entity /\ new[i].base = ops[i].base
    BY <2>1, <2>2, <2>3, BatchRestated
  <2> QED BY <2>4, Zenon DEF ops, new
<1>3. bs = [b \in 1 .. Len(batches) |-> bs[b]]
  BY DEF Restated
<1> QED BY <1>1, <1>2, <1>3

LEMMA LastOfFew ==
  ASSUME NEW few \in SUBSET (1 .. 3), few # {}
  PROVE  \E i \in few : \A j \in few : j <= i
<1>1. CASE 3 \in few
  BY <1>1
<1>2. CASE 3 \notin few /\ 2 \in few
  BY <1>2
<1>3. CASE 3 \notin few /\ 2 \notin few
  <2>1. \A i \in few : i = 1
    BY <1>3
  <2>2. PICK i \in few : TRUE
    OBVIOUS
  <2>3. \A j \in few : j <= i
    BY <2>1
  <2> QED BY <2>3
<1> QED BY <1>1, <1>2, <1>3

LEMMA ReachedRestated ==
  ASSUME NEW ops \in Batch, NEW new \in Batch, Len(new) = Len(ops),
         \A i \in 1 .. Len(ops) : new[i].entity = ops[i].entity /\ new[i].base = ops[i].base,
         NEW e, NEW before
  PROVE  Reached(new, e, before) = Reached(ops, e, before)
<1>1. Mine(new, e) = Mine(ops, e) /\ Mine(ops, e) \subseteq 1 .. 3
  <2>1. Len(ops) \in 1 .. 3
    BY BatchTyped
  <2>2. \A i : i \in Mine(new, e) <=> i \in Mine(ops, e)
    BY DEF Mine
  <2>3. Mine(ops, e) \subseteq 1 .. Len(ops)
    BY DEF Mine
  <2>4. Mine(new, e) = Mine(ops, e)
    BY <2>2, Zenon
  <2>5. Mine(ops, e) \subseteq 1 .. 3
    BY <2>1, <2>3
  <2> QED BY <2>4, <2>5
<1>2. CASE Mine(ops, e) = {}
  BY <1>1, <1>2 DEF Reached
<1>3. CASE Mine(ops, e) # {}
  <2>1. \E i \in Mine(ops, e) : \A j \in Mine(ops, e) : j <= i
    BY <1>1, <1>3, LastOfFew
  <2> DEFINE k == CHOOSE i \in Mine(ops, e) : \A j \in Mine(ops, e) : j <= i
  <2>2. k \in Mine(ops, e)
    BY <2>1
  <2> HIDE DEF k
  <2>3. new[k].base = ops[k].base
    BY <2>2 DEF Mine
  <2> QED BY <1>1, <1>3, <2>3 DEF Reached, k
<1> QED BY <1>2, <1>3

LEMMA BatchesStart == ASSUME B!StructureInit PROVE BatchInv
<1>1. shelves \in [B!Entity -> ShelfRow] /\ remote \in [B!Entity -> RemoteRow]
      /\ \A e \in B!Entity : shelves[e].revision = remote[e].revision
  BY DEF B!StructureInit, B!Entity, ShelfRow, RemoteRow
<1>2. batches = <<>> /\ results = <<>> /\ sender = Nothing /\ accepted = {} /\ others = 0
  BY DEF B!StructureInit
<1>3. BatchTypes
  BY <1>1, <1>2 DEF BatchTypes
<1> QED BY <1>1, <1>2, <1>3 DEF BatchInv, NewestOnly, SentFits, OneAhead, B!BatchesAreWhole,
  B!RevisionsAreProven

LEMMA BatchesStutter ==
  ASSUME BatchInv, UNCHANGED batched PROVE BatchInv'
<1>1. /\ shelves' = shelves /\ batches' = batches /\ results' = results /\ sender' = sender
      /\ remote' = remote /\ accepted' = accepted /\ others' = others
  BY DEF batched
<1> QED BY <1>1 DEF BatchInv, BatchTypes, NewestOnly, SentFits, OneAhead, B!BatchesAreWhole,
  B!RevisionsAreProven, B!Settled

LEMMA WholeBatch ==
  ASSUME BatchInv, NEW b \in 1 .. Len(batches)
  PROVE  /\ results[b] = "applied" =>
              b \in accepted /\ \A i \in 1 .. Len(batches[b]) : batches[b][i].state = "completed"
         /\ results[b] # "applied" =>
              \A i \in 1 .. Len(batches[b]) : batches[b][i].state # "completed"
<1>1. DOMAIN batches = 1 .. Len(batches) /\ batches[b] \in Batch
  BY DEF BatchInv, BatchTypes
<1>2. DOMAIN batches[b] = 1 .. Len(batches[b])
  BY <1>1, BatchTyped
<1>3. /\ results[b] = "applied" =>
           b \in accepted /\ \A i \in DOMAIN batches[b] : batches[b][i].state = "completed"
      /\ results[b] # "applied" =>
           \A i \in DOMAIN batches[b] : batches[b][i].state # "completed"
  BY <1>1 DEF BatchInv, B!BatchesAreWhole
<1> QED BY <1>2, <1>3

\* A step that changes states only, and completes nothing.
LEMMA RestatedKeeps ==
  ASSUME BatchInv, Restated(batches'),
         \A b \in 1 .. Len(batches) : results'[b] = "applied" <=> results[b] = "applied",
         \A b \in 1 .. Len(batches) : \A i \in 1 .. Len(batches[b]) :
           /\ batches'[b][i].state \in B!ActiveStates => batches[b][i].state \in B!ActiveStates
           /\ batches'[b][i].state = "completed" <=> batches[b][i].state = "completed",
         remote' = remote, shelves' = shelves, accepted' = accepted,
         others' \in Nat, others' = 0 => others = 0
  PROVE  /\ batches' \in Seq(Batch) /\ Len(batches') = Len(batches)
         /\ NewestOnly' /\ OneAhead' /\ B!BatchesAreWhole' /\ B!RevisionsAreProven'
<1>1. /\ batches \in Seq(Batch) /\ Len(batches) \in Nat
      /\ accepted \subseteq 1 .. Len(batches)
  BY DEF BatchInv, BatchTypes
<1>2. /\ batches' \in Seq(Batch) /\ Len(batches') = Len(batches)
      /\ \A b \in 1 .. Len(batches) :
           /\ batches'[b] \in Batch /\ Len(batches'[b]) = Len(batches[b])
           /\ \A i \in 1 .. Len(batches[b]) :
                /\ batches'[b][i].entity = batches[b][i].entity
                /\ batches'[b][i].base = batches[b][i].base
  BY QueueRestated DEF BatchInv
<1>3. \A b \in 1 .. Len(batches) : batches[b] \in Batch /\ Len(batches[b]) \in 1 .. 3
  BY <1>1, BatchTyped
<1>4. NewestOnly'
  <2> SUFFICES ASSUME NEW b \in 1 .. Len(batches), b < Len(batches)
               PROVE  batches'[b][Len(batches[b])].state \notin B!ActiveStates
    BY <1>2 DEF NewestOnly
  <2>1. batches[b][Len(batches[b])].state \notin B!ActiveStates
    BY DEF BatchInv, NewestOnly
  <2>2. Len(batches[b]) \in 1 .. Len(batches[b])
    <3>1. \A m \in 1 .. 3 : m \in 1 .. m
      OBVIOUS
    <3> QED BY <1>3, <3>1, Zenon
  <2> QED BY <2>1, <2>2
<1>5. OneAhead'
  <2> SUFFICES ASSUME NEW b \in accepted, Full(batches'[b]), others' = 0,
                      \A c \in accepted \ {b} : results'[c] = "applied",
                      NEW e \in B!Entity
               PROVE  remote[e].revision = Reached(batches'[b], e, shelves[e].revision)
    BY DEF OneAhead
  <2>1. b \in 1 .. Len(batches)
    BY <1>1
  <2>2. Full(batches[b])
    BY <1>2, <2>1 DEF Full
  <2>3. \A c \in accepted \ {b} : results[c] = "applied"
    BY <1>1
  <2>4. remote[e].revision = Reached(batches[b], e, shelves[e].revision)
    BY <2>2, <2>3 DEF BatchInv, OneAhead
  <2>5. Reached(batches'[b], e, shelves[e].revision) = Reached(batches[b], e, shelves[e].revision)
    <3> DEFINE ops == batches[b]
               new == batches'[b]
    <3>1. /\ ops \in Batch /\ new \in Batch /\ Len(new) = Len(ops)
          /\ \A i \in 1 .. Len(ops) : new[i].entity = ops[i].entity /\ new[i].base = ops[i].base
      BY <1>2, <1>3, <2>1
    <3> HIDE DEF ops, new
    <3>2. \A before : Reached(new, e, before) = Reached(ops, e, before)
      BY <3>1, ReachedRestated
    <3> QED BY <3>2, Zenon DEF ops, new
  <2> QED BY <2>4, <2>5
<1>6. B!BatchesAreWhole'
  <2>1. DOMAIN batches' = 1 .. Len(batches) /\ DOMAIN batches = 1 .. Len(batches)
    BY <1>1, <1>2
  <2>2. \A b \in 1 .. Len(batches) : /\ DOMAIN batches'[b] = 1 .. Len(batches[b])
                                     /\ DOMAIN batches[b] = 1 .. Len(batches[b])
    BY <1>2, <1>3, BatchTyped
  <2>3. ASSUME NEW b \in 1 .. Len(batches)
        PROVE  /\ results'[b] = "applied" =>
                    b \in accepted' /\ \A i \in 1 .. Len(batches[b]) : batches'[b][i].state = "completed"
               /\ results'[b] # "applied" =>
                    \A i \in 1 .. Len(batches[b]) : batches'[b][i].state # "completed"
    BY WholeBatch
  <2>4. ASSUME NEW b \in DOMAIN batches'
        PROVE  /\ results'[b] = "applied" =>
                    b \in accepted' /\ \A i \in DOMAIN batches'[b] : batches'[b][i].state = "completed"
               /\ results'[b] # "applied" =>
                    \A i \in DOMAIN batches'[b] : batches'[b][i].state # "completed"
    BY <2>1, <2>2, <2>3
  <2> QED BY <2>4, Zenon DEF B!BatchesAreWhole
<1>7. B!RevisionsAreProven'
  BY <1>1 DEF BatchInv, B!RevisionsAreProven
<1> QED BY <1>2, <1>4, <1>5, <1>6, <1>7

LEMMA SetStatesRestate ==
  ASSUME BatchTypes, NEW s \in OpStates, NEW bs,
         bs = [b \in DOMAIN batches |-> [i \in DOMAIN batches[b] |-> bs[b][i]]],
         \A b \in DOMAIN batches : \A i \in DOMAIN batches[b] :
           bs[b][i] \in {batches[b][i], [batches[b][i] EXCEPT !.state = s]}
  PROVE  /\ Restated(bs)
         /\ \A b \in 1 .. Len(batches) : \A i \in 1 .. Len(batches[b]) :
              bs[b][i].state \in {batches[b][i].state, s}
<1>1. /\ DOMAIN batches = 1 .. Len(batches)
      /\ \A b \in 1 .. Len(batches) : batches[b] \in Batch
  BY DEF BatchTypes
<1>2. \A b \in 1 .. Len(batches) :
        /\ DOMAIN batches[b] = 1 .. Len(batches[b])
        /\ \A i \in 1 .. Len(batches[b]) : /\ batches[b][i] \in FolderOp \cup OrderOp
                                           /\ batches[b][i].state \in OpStates
  BY <1>1, BatchTyped
<1>3. \A o \in FolderOp \cup OrderOp : /\ [o EXCEPT !.state = o.state] = o
                                       /\ [o EXCEPT !.state = s].state = s
  BY DEF FolderOp, OrderOp
<1>4. ASSUME NEW b \in 1 .. Len(batches), NEW i \in 1 .. Len(batches[b])
      PROVE  /\ bs[b][i].state \in {batches[b][i].state, s}
             /\ bs[b][i].state \in OpStates
             /\ bs[b][i] = [batches[b][i] EXCEPT !.state = bs[b][i].state]
  <2>1. /\ batches[b][i] \in FolderOp \cup OrderOp
        /\ batches[b][i].state \in OpStates
        /\ bs[b][i] = batches[b][i] \/ bs[b][i] = [batches[b][i] EXCEPT !.state = s]
    BY <1>1, <1>2
  <2>2. CASE bs[b][i] = batches[b][i]
    BY <1>3, <2>1, <2>2
  <2>3. CASE bs[b][i] = [batches[b][i] EXCEPT !.state = s]
    <3>1. bs[b][i].state = s
      BY <1>3, <2>1, <2>3
    <3> QED BY <2>3, <3>1
  <2> QED BY <2>1, <2>2, <2>3
<1>5. bs = [b \in 1 .. Len(batches) |-> [i \in 1 .. Len(batches[b]) |-> bs[b][i]]]
  BY <1>1, <1>2
<1>6. bs = [b \in 1 .. Len(batches) |-> [i \in 1 .. Len(batches[b]) |->
              [batches[b][i] EXCEPT !.state = bs[b][i].state]]]
  <2>1. \A b \in 1 .. Len(batches) : [i \in 1 .. Len(batches[b]) |-> bs[b][i]] =
          [i \in 1 .. Len(batches[b]) |-> [batches[b][i] EXCEPT !.state = bs[b][i].state]]
    <3> TAKE b \in 1 .. Len(batches)
    <3> DEFINE n == Len(batches[b])
    <3>1. \A i \in 1 .. n : bs[b][i] = [batches[b][i] EXCEPT !.state = bs[b][i].state]
      BY <1>4
    <3> HIDE DEF n
    <3>2. [i \in 1 .. n |-> bs[b][i]] =
            [i \in 1 .. n |-> [batches[b][i] EXCEPT !.state = bs[b][i].state]]
      BY <3>1
    <3> QED BY <3>2 DEF n
  <2> QED BY <1>5, <2>1
<1> QED BY <1>4, <1>6 DEF Restated

LEMMA LaunchKeepsBatches == ASSUME BatchInv, B!Launch PROVE BatchInv'
<1> DEFINE next == CHOOSE b \in B!Ready : \A c \in B!Ready : b <= c
<1>0. /\ batches \in Seq(Batch) /\ Len(batches) \in Nat /\ DOMAIN batches = 1 .. Len(batches)
      /\ Len(results) = Len(batches) /\ results \in Seq({Nothing, "applied", "refused"})
      /\ BatchTypes
  BY DEF BatchInv, BatchTypes
<1>1. B!Ready # {} /\ B!Ready \subseteq 1 .. Len(batches)
  BY <1>0 DEF B!Launch, B!Ready
<1>2. next \in B!Ready
  <2>1. \E b \in B!Ready : \A c \in B!Ready : b <= c
    BY <1>0, <1>1, LeastPlace
  <2> QED BY <2>1
<1> HIDE DEF next
<1>3. /\ next \in 1 .. Len(batches) /\ results[next] = Nothing
      /\ \A i \in 1 .. Len(batches[next]) : batches[next][i].state \in B!ReadyStates
  BY <1>0, <1>1, <1>2, BatchTyped DEF B!Ready, B!Settled
<1>4. /\ batches' = [b \in DOMAIN batches |-> [i \in DOMAIN batches[b] |->
             IF b = next THEN [batches[b][i] EXCEPT !.state = "inflight"] ELSE batches[b][i]]]
      /\ sender' = [batch |-> next, answer |-> Nothing]
      /\ UNCHANGED <<shelves, results, remote, accepted, others>>
  BY DEF B!Launch, B!SetStates, next
<1>5. /\ batches' = [b \in DOMAIN batches |-> [i \in DOMAIN batches[b] |-> batches'[b][i]]]
      /\ \A b \in DOMAIN batches : \A i \in DOMAIN batches[b] :
           batches'[b][i] = IF b = next THEN [batches[b][i] EXCEPT !.state = "inflight"]
                            ELSE batches[b][i]
  BY <1>4
<1>6. /\ Restated(batches')
      /\ \A b \in 1 .. Len(batches) : \A i \in 1 .. Len(batches[b]) :
           batches'[b][i].state \in {batches[b][i].state, "inflight"}
  <2>1. "inflight" \in OpStates
    BY DEF OpStates, B!ActiveStates
  <2>2. \A b \in DOMAIN batches : \A i \in DOMAIN batches[b] :
          batches'[b][i] \in {batches[b][i], [batches[b][i] EXCEPT !.state = "inflight"]}
    BY <1>5
  <2> QED BY <1>0, <1>5, <2>1, <2>2, SetStatesRestate
<1>7. \A b \in 1 .. Len(batches) : \A i \in 1 .. Len(batches[b]) :
        b # next => batches'[b][i] = batches[b][i]
  <2>1. \A b \in 1 .. Len(batches) : DOMAIN batches[b] = 1 .. Len(batches[b])
    BY <1>0, BatchTyped
  <2> QED BY <1>0, <1>5, <2>1
<1>8. \A b \in 1 .. Len(batches) : \A i \in 1 .. Len(batches[b]) :
        /\ batches'[b][i].state \in B!ActiveStates => batches[b][i].state \in B!ActiveStates
        /\ batches'[b][i].state = "completed" <=> batches[b][i].state = "completed"
  BY <1>3, <1>6, <1>7 DEF B!ActiveStates, B!ReadyStates
<1>9. others \in Nat
  BY DEF BatchInv, BatchTypes
<1>10. /\ batches' \in Seq(Batch) /\ Len(batches') = Len(batches)
       /\ NewestOnly' /\ OneAhead' /\ B!BatchesAreWhole' /\ B!RevisionsAreProven'
  BY <1>4, <1>6, <1>8, <1>9, RestatedKeeps
<1>11. BatchTypes'
  BY <1>3, <1>4, <1>10 DEF BatchInv, BatchTypes
<1>12. SentFits'
  BY <1>3, <1>4 DEF SentFits
<1> QED BY <1>10, <1>11, <1>12 DEF BatchInv

\* What was on its way goes back to the queue, for another attempt.
LEMMA Requeued ==
  ASSUME BatchInv,
         batches' = [b \in DOMAIN batches |-> [i \in DOMAIN batches[b] |-> batches'[b][i]]],
         \A b \in DOMAIN batches : \A i \in DOMAIN batches[b] :
           \/ batches'[b][i] = batches[b][i]
           \/ /\ batches[b][i].state = "inflight"
              /\ batches'[b][i] = [batches[b][i] EXCEPT !.state = "retry_wait"],
         UNCHANGED <<shelves, results, remote, accepted>>, sender' = Nothing,
         others' \in Nat, others' = 0 => others = 0
  PROVE  BatchInv'
<1>0. /\ batches \in Seq(Batch) /\ DOMAIN batches = 1 .. Len(batches)
      /\ BatchTypes
  BY DEF BatchInv, BatchTypes
<1>1. \A b \in 1 .. Len(batches) : DOMAIN batches[b] = 1 .. Len(batches[b])
  BY <1>0, BatchTyped
<1>2. /\ Restated(batches')
      /\ \A b \in 1 .. Len(batches) : \A i \in 1 .. Len(batches[b]) :
           batches'[b][i].state \in {batches[b][i].state, "retry_wait"}
  <2>1. "retry_wait" \in OpStates
    BY DEF OpStates, B!ActiveStates
  <2>2. \A b \in DOMAIN batches : \A i \in DOMAIN batches[b] :
          batches'[b][i] \in {batches[b][i], [batches[b][i] EXCEPT !.state = "retry_wait"]}
    OBVIOUS
  <2> QED BY <1>0, <2>1, <2>2, SetStatesRestate
<1>3. \A b \in 1 .. Len(batches) : \A i \in 1 .. Len(batches[b]) :
        batches'[b][i].state = batches[b][i].state \/ batches[b][i].state = "inflight"
  BY <1>0, <1>1
<1>4. \A b \in 1 .. Len(batches) : \A i \in 1 .. Len(batches[b]) :
        /\ batches'[b][i].state \in B!ActiveStates => batches[b][i].state \in B!ActiveStates
        /\ batches'[b][i].state = "completed" <=> batches[b][i].state = "completed"
  BY <1>2, <1>3 DEF B!ActiveStates
<1>5. /\ batches' \in Seq(Batch) /\ Len(batches') = Len(batches)
      /\ NewestOnly' /\ OneAhead' /\ B!BatchesAreWhole' /\ B!RevisionsAreProven'
  BY <1>2, <1>4, RestatedKeeps
<1>6. BatchTypes'
  BY <1>0, <1>5 DEF BatchTypes
<1>7. SentFits'
  BY DEF SentFits
<1> QED BY <1>5, <1>6, <1>7 DEF BatchInv

LEMMA MarkRetryKeepsBatches == ASSUME BatchInv, B!MarkRetry PROVE BatchInv'
<1>1. batches' = [b \in DOMAIN batches |-> [i \in DOMAIN batches[b] |->
          IF b = sender.batch /\ batches[b][i].state = "inflight"
          THEN [batches[b][i] EXCEPT !.state = "retry_wait"] ELSE batches[b][i]]]
  BY DEF B!MarkRetry, B!SetStates
<1>2. batches' = [b \in DOMAIN batches |-> [i \in DOMAIN batches[b] |-> batches'[b][i]]]
  BY <1>1
<1>3. \A b \in DOMAIN batches : \A i \in DOMAIN batches[b] :
        \/ batches'[b][i] = batches[b][i]
        \/ /\ batches[b][i].state = "inflight"
           /\ batches'[b][i] = [batches[b][i] EXCEPT !.state = "retry_wait"]
  BY <1>1
<1>4. /\ UNCHANGED <<shelves, results, remote, accepted>> /\ sender' = Nothing
      /\ others' = others /\ others \in Nat
  BY DEF B!MarkRetry, BatchInv, BatchTypes
<1> QED BY <1>2, <1>3, <1>4, Requeued

LEMMA RestartKeepsBatches == ASSUME BatchInv, B!Restart PROVE BatchInv'
<1>1. batches' = [b \in DOMAIN batches |-> [i \in DOMAIN batches[b] |->
          IF batches[b][i].state = "inflight"
          THEN [batches[b][i] EXCEPT !.state = "retry_wait"] ELSE batches[b][i]]]
  BY DEF B!Restart, B!SetStates
<1>2. batches' = [b \in DOMAIN batches |-> [i \in DOMAIN batches[b] |-> batches'[b][i]]]
  BY <1>1
<1>3. \A b \in DOMAIN batches : \A i \in DOMAIN batches[b] :
        \/ batches'[b][i] = batches[b][i]
        \/ /\ batches[b][i].state = "inflight"
           /\ batches'[b][i] = [batches[b][i] EXCEPT !.state = "retry_wait"]
  BY <1>1
<1>4. /\ UNCHANGED <<shelves, results, remote, accepted>> /\ sender' = Nothing
      /\ others' \in Nat /\ others' # 0
  <2>1. others \in Nat
    BY DEF BatchInv, BatchTypes
  <2>2. UNCHANGED <<shelves, results, remote, accepted>> /\ sender' = Nothing
    BY DEF B!Restart
  <2>3. others' = others + 1
    BY DEF B!Restart, B!Happens
  <2> QED BY <2>1, <2>2, <2>3
<1> QED BY <1>2, <1>3, <1>4, Requeued

\* Only the answer changes.
LEMMA Answered ==
  ASSUME BatchInv, sender # Nothing, NEW answer \in {Nothing, B!Lost} \cup [failed : 0 .. 3],
         sender' = [sender EXCEPT !.answer = answer],
         answer \notin {Nothing, B!Lost} =>
           (answer.failed = 0 <=> sender.batch \in accepted),
         UNCHANGED <<shelves, batches, results, remote, accepted, others>>
  PROVE  BatchInv'
<1>1. /\ sender'.batch = sender.batch /\ sender'.answer = answer
      /\ sender' \in [batch : 1 .. Len(batches), answer : {Nothing, B!Lost} \cup [failed : 0 .. 3]]
  BY DEF BatchInv, BatchTypes
<1>2. BatchTypes'
  BY <1>1 DEF BatchInv, BatchTypes
<1>3. SentFits'
  BY <1>1 DEF BatchInv, SentFits
<1> QED BY <1>2, <1>3 DEF BatchInv, NewestOnly, OneAhead, B!BatchesAreWhole, B!RevisionsAreProven

LEMMA UnansweredKeepsBatches == ASSUME BatchInv, B!Unanswered PROVE BatchInv'
<1>1. /\ sender # Nothing /\ sender' = [sender EXCEPT !.answer = B!Lost]
      /\ UNCHANGED <<shelves, batches, results, remote, accepted, others>>
  BY DEF B!Unanswered, B!Answer, B!queue
<1> QED BY <1>1, Answered

LEMMA RefusesKeepsBatches ==
  ASSUME BatchInv, NEW failed \in 1 .. 3, B!ServerRefuses(failed) PROVE BatchInv'
<1> DEFINE answer == [failed |-> failed]
<1>1. /\ sender # Nothing /\ sender' = [sender EXCEPT !.answer = answer]
      /\ sender.batch \notin accepted
      /\ UNCHANGED <<shelves, batches, results, remote, accepted, others>>
  BY DEF B!ServerRefuses, B!Answer, B!queue
<1>2. answer \in [failed : 0 .. 3] /\ answer.failed # 0
  OBVIOUS
<1> HIDE DEF answer
<1> QED BY <1>1, <1>2, Answered

\* The server's row after one intent, and after the first ones.
Turned(srvRows, op) == [srvRows EXCEPT ![op.entity] = B!RowAfter(srvRows, op)]

LEMMA TurnedOnce ==
  ASSUME NEW srvRows \in [B!Entity -> RemoteRow], NEW op \in FolderOp \cup OrderOp
  PROVE  /\ op.entity \in B!Entity
         /\ Turned(srvRows, op) \in [B!Entity -> RemoteRow]
         /\ \A e \in B!Entity : Turned(srvRows, op)[e].revision =
              IF e = op.entity THEN srvRows[e].revision + 1 ELSE srvRows[e].revision
<1>1. op.entity \in B!Entity
  BY DEF FolderOp, OrderOp, B!Entity
<1> DEFINE at == srvRows[op.entity]
           next == [at EXCEPT !.revision = @ + 1]
<1>2. at \in RemoteRow
  BY <1>1
<1>3. next \in RemoteRow /\ next.revision = at.revision + 1
  BY <1>2 DEF RemoteRow
<1>4. B!RowAfter(srvRows, op) =
        CASE op.kind = "rename"  -> [next EXCEPT !.name = op.value]
          [] op.kind = "move"    -> [next EXCEPT !.dir = op.value]
          [] op.kind = "delete"  -> [next EXCEPT !.deleted = TRUE]
          [] op.kind = "reorder" -> next
          [] OTHER -> [next EXCEPT !.name = op.value.name, !.dir = op.value.dir,
                                   !.deleted = FALSE]
  BY DEF B!RowAfter
<1> HIDE DEF next, at
<1>5. /\ B!RowAfter(srvRows, op) \in RemoteRow
      /\ B!RowAfter(srvRows, op).revision = at.revision + 1
  <2>1. CASE op.kind = "rename" /\ op.value \in Title
    BY <1>3, <1>4, <2>1 DEF RemoteRow
  <2>2. CASE op.kind = "move" /\ op.value \in Dir
    BY <1>3, <1>4, <2>2 DEF RemoteRow
  <2>3. CASE op.kind = "delete"
    BY <1>3, <1>4, <2>3 DEF RemoteRow
  <2>4. CASE op.kind = "reorder"
    BY <1>3, <1>4, <2>4 DEF RemoteRow
  <2>5. CASE op.kind \in {"create", "restore"} /\ op.value \in [name : Title, dir : Dir]
    BY <1>3, <1>4, <2>5 DEF RemoteRow
  <2> QED BY <2>1, <2>2, <2>3, <2>4, <2>5 DEF FolderOp, OrderOp
<1> QED BY <1>1, <1>5 DEF Turned, at

LEMMA AfterTurns ==
  ASSUME NEW ops \in Batch, NEW srvRows
  PROVE  /\ B!After(srvRows, ops, 0) = srvRows
         /\ B!After(srvRows, ops, 1) = Turned(srvRows, ops[1])
         /\ B!After(srvRows, ops, 2) = Turned(Turned(srvRows, ops[1]), ops[2])
         /\ B!After(srvRows, ops, 3) = Turned(Turned(Turned(srvRows, ops[1]), ops[2]), ops[3])
  BY DEF B!After, Turned

\* A batch that clashes nowhere takes every entity to the revision after its
\* last intent of it.
LEMMA AppliedInTurn ==
  ASSUME BatchInv, sender # Nothing, B!Clash(B!Request) = 0
  PROVE  /\ B!After(remote, B!Request, Len(B!Request)) \in [B!Entity -> RemoteRow]
         /\ \A e \in B!Entity :
              B!After(remote, B!Request, Len(B!Request))[e].revision =
                Reached(B!Request, e, remote[e].revision)
<1> DEFINE ops == B!Request
           n == Len(ops)
           after1 == Turned(remote, ops[1])
           after2 == Turned(after1, ops[2])
           after3 == Turned(after2, ops[3])
<1>1. ops \in Batch
  BY DEF BatchInv, BatchTypes, B!Request
<1>2. /\ n \in 1 .. 3 /\ DOMAIN ops = 1 .. n
      /\ \A i \in 1 .. n : ops[i] \in FolderOp \cup OrderOp /\ ops[i].base \in Nat
  BY <1>1, BatchTyped
<1>3. remote \in [B!Entity -> RemoteRow]
  BY DEF BatchInv, BatchTypes
<1>4. /\ B!After(remote, ops, 0) = remote
      /\ B!After(remote, ops, 1) = after1
      /\ B!After(remote, ops, 2) = after2
      /\ B!After(remote, ops, 3) = after3
  BY <1>1, AfterTurns
<1>5. \A i \in 1 .. n : B!After(remote, ops, i - 1)[ops[i].entity].revision = ops[i].base
  <2> DEFINE clashes == {i \in DOMAIN ops :
               B!After(remote, ops, i - 1)[ops[i].entity].revision # ops[i].base}
  <2>1. B!Clash(ops) = IF clashes = {} THEN 0
                       ELSE CHOOSE i \in clashes : \A j \in clashes : i <= j
    BY DEF B!Clash
  <2>2. clashes \subseteq 1 .. n
    BY <1>2
  <2> HIDE DEF clashes
  <2>3. clashes # {} => \E i \in clashes : \A j \in clashes : i <= j
    BY <1>2, <2>2, LeastPlace
  <2>4. clashes = {}
    <3> SUFFICES ASSUME clashes # {} PROVE FALSE
      OBVIOUS
    <3> DEFINE first == CHOOSE i \in clashes : \A j \in clashes : i <= j
    <3>1. first \in clashes
      BY <2>3
    <3>2. first = 0
      BY <2>1
    <3> HIDE DEF first
    <3> QED BY <1>2, <2>2, <3>1, <3>2
  <2> QED BY <1>2, <2>4 DEF clashes
<1>6. \A e \in B!Entity : remote[e].revision \in Nat
  BY <1>3 DEF RemoteRow
<1> HIDE DEF ops
<1>7. /\ after1 \in [B!Entity -> RemoteRow]
      /\ ops[1].entity \in B!Entity
      /\ \A e \in B!Entity : after1[e].revision =
           IF e = ops[1].entity THEN remote[e].revision + 1 ELSE remote[e].revision
  BY <1>2, <1>3, TurnedOnce
<1> HIDE DEF after1
<1>8. n >= 2 => /\ after2 \in [B!Entity -> RemoteRow]
                /\ ops[2].entity \in B!Entity
                /\ \A e \in B!Entity : after2[e].revision =
                     IF e = ops[2].entity THEN after1[e].revision + 1 ELSE after1[e].revision
  BY <1>2, <1>7, TurnedOnce
<1> HIDE DEF after2
<1>9. n = 3 => /\ after3 \in [B!Entity -> RemoteRow]
               /\ ops[3].entity \in B!Entity
               /\ \A e \in B!Entity : after3[e].revision =
                    IF e = ops[3].entity THEN after2[e].revision + 1 ELSE after2[e].revision
  BY <1>2, <1>8, TurnedOnce
<1> HIDE DEF after3
<1>10. /\ ops[1].base = remote[ops[1].entity].revision
       /\ n >= 2 => ops[2].base = after1[ops[2].entity].revision
       /\ n = 3 => ops[3].base = after2[ops[3].entity].revision
  BY <1>2, <1>4, <1>5
<1> DEFINE last == IF n = 1 THEN after1 ELSE IF n = 2 THEN after2 ELSE after3
<1>11. B!After(remote, ops, n) = last /\ last \in [B!Entity -> RemoteRow]
  BY <1>2, <1>4, <1>7, <1>8, <1>9
<1>12. ASSUME NEW e \in B!Entity
       PROVE  last[e].revision = Reached(ops, e, remote[e].revision)
  <2> DEFINE k == CHOOSE i \in Mine(ops, e) : \A j \in Mine(ops, e) : j <= i
  <2>1. \A i : i \in Mine(ops, e) <=> i \in 1 .. n /\ ops[i].entity = e
    BY DEF Mine
  <2>2. CASE Mine(ops, e) = {}
    BY <1>2, <1>7, <1>8, <1>9, <2>1, <2>2 DEF Reached
  <2>3. CASE Mine(ops, e) # {}
    <3>1. \E i \in Mine(ops, e) : \A j \in Mine(ops, e) : j <= i
      <4>1. \A i \in Mine(ops, e) : i \in 1 .. 3
        BY <1>2, <2>1
      <4> QED BY <2>3, <4>1, LastOfFew
    <3>2. k \in Mine(ops, e) /\ \A j \in Mine(ops, e) : j <= k
      BY <3>1
    <3> HIDE DEF k
    <3>3. k \in 1 .. n /\ ops[k].entity = e /\ \A j \in 1 .. n : ops[j].entity = e => j <= k
      BY <2>1, <3>2
    <3>4. last[e].revision = ops[k].base + 1
      <4>1. after1[e].revision = IF e = ops[1].entity THEN remote[e].revision + 1
                                 ELSE remote[e].revision
        BY <1>7
      <4>2. n >= 2 => after2[e].revision = IF e = ops[2].entity THEN after1[e].revision + 1
                                           ELSE after1[e].revision
        BY <1>8
      <4>3. n = 3 => after3[e].revision = IF e = ops[3].entity THEN after2[e].revision + 1
                                          ELSE after2[e].revision
        BY <1>9
      <4>4. CASE n = 1
        BY <1>10, <3>3, <4>1, <4>4
      <4>5. CASE n = 2
        BY <1>10, <3>3, <4>1, <4>2, <4>5
      <4>6. CASE n = 3
        BY <1>10, <3>3, <4>1, <4>2, <4>3, <4>6
      <4> QED BY <1>2, <4>4, <4>5, <4>6
    <3> QED BY <2>3, <3>4 DEF Reached, k
  <2> QED BY <2>2, <2>3
<1> QED BY <1>11, <1>12 DEF ops

LEMMA AppliesKeepsBatches ==
  ASSUME OrderStandsApart, BatchInv, B!ServerApplies PROVE BatchInv'
<1> DEFINE ok == [failed |-> 0]
           b == sender.batch
<1>1. PICK answer \in {ok, B!Lost} : sender' = [sender EXCEPT !.answer = answer]
  BY DEF B!ServerApplies, B!Answer
<1>2. answer \in {B!Lost} \cup [failed : 0 .. 3] /\ (answer # B!Lost => answer.failed = 0)
  BY <1>1
<1>3. /\ sender # Nothing /\ b \in 1 .. Len(batches) /\ accepted \subseteq 1 .. Len(batches)
      /\ results[b] = Nothing
  BY DEF B!ServerApplies, BatchInv, BatchTypes, SentFits
<1>4. UNCHANGED <<shelves, batches, results, others>>
  BY DEF B!ServerApplies, B!queue
<1>5. CASE b \in accepted
  BY <1>1, <1>2, <1>3, <1>4, <1>5, Answered DEF B!ServerApplies
<1>6. CASE b \notin accepted
  <2>1. /\ remote' = B!After(remote, B!Request, Len(B!Request))
        /\ accepted' = accepted \cup {b} /\ B!Clash(B!Request) = 0
    BY <1>6 DEF B!ServerApplies
  <2>2. /\ remote' \in [B!Entity -> RemoteRow]
        /\ \A e \in B!Entity : remote'[e].revision = Reached(B!Request, e, remote[e].revision)
    BY <1>3, <2>1, AppliedInTurn
  <2>3. BatchTypes'
    BY <1>1, <1>2, <1>3, <1>4, <2>1, <2>2 DEF BatchInv, BatchTypes
  <2>4. SentFits'
    BY <1>1, <1>2, <1>3, <1>4, <2>1 DEF BatchInv, BatchTypes, SentFits
  <2>5. results[b] # "applied"
    BY <1>3 DEF OrderStandsApart
  <2>6. OneAhead'
    BY <1>4, <1>6, <2>1, <2>2, <2>5 DEF OneAhead, BatchInv, B!RevisionsAreProven, B!Request
  <2>7. B!BatchesAreWhole'
    BY <1>4, <2>1 DEF BatchInv, B!BatchesAreWhole
  <2>8. B!RevisionsAreProven'
    BY <1>4, <2>1, <2>5 DEF B!RevisionsAreProven
  <2>9. NewestOnly'
    BY <1>4 DEF BatchInv, NewestOnly
  <2> QED BY <2>3, <2>4, <2>6, <2>7, <2>8, <2>9 DEF BatchInv
<1> QED BY <1>5, <1>6

\* A batch whose operations all still count is the newest.
LEMMA FullIsNewest ==
  ASSUME BatchInv, NEW b \in 1 .. Len(batches), Full(batches[b])
  PROVE  b = Len(batches)
<1>1. batches[b] \in Batch /\ Len(batches) \in Nat
  BY DEF BatchInv, BatchTypes
<1>2. batches[b][Len(batches[b])].state \in B!ActiveStates
  BY <1>1, BatchTyped DEF Full
<1> QED BY <1>1, <1>2 DEF BatchInv, NewestOnly

\* What an answer that can be recorded answers.
LEMMA Answers ==
  ASSUME BatchInv, B!CanRecord
  PROVE  /\ sender.batch \in 1 .. Len(batches) /\ batches[sender.batch] \in Batch
         /\ results[sender.batch] = Nothing
         /\ Full(batches[sender.batch])
         /\ sender.answer.failed \in 0 .. 3
         /\ sender.answer.failed = 0 <=> sender.batch \in accepted
<1>1. /\ sender # Nothing /\ sender.batch \in 1 .. Len(batches)
      /\ sender.answer \notin {Nothing, B!Lost} /\ sender.answer \in [failed : 0 .. 3]
  BY DEF B!CanRecord, BatchInv, BatchTypes
<1>2. batches[sender.batch] \in Batch
  BY <1>1 DEF BatchInv, BatchTypes
<1>3. Full(batches[sender.batch])
  BY <1>2, BatchTyped DEF B!CanRecord, B!Recordable, B!Request, Full
<1>4. results[sender.batch] = Nothing /\ (sender.answer.failed = 0 <=> sender.batch \in accepted)
  BY <1>1 DEF BatchInv, SentFits
<1> QED BY <1>1, <1>2, <1>3, <1>4

LEMMA ProjectReaches ==
  ASSUME BatchInv, B!CanRecord
  PROVE  /\ B!Project \in [B!Entity -> ShelfRow]
         /\ \A e \in B!Entity :
              B!Project[e].revision = Reached(B!Request, e, shelves[e].revision)
<1> DEFINE ops == B!Request
<1>1. ops \in Batch
  BY Answers DEF B!Request
<1>2. Len(ops) \in 1 .. 3 /\ DOMAIN ops = 1 .. Len(ops)
      /\ \A i \in 1 .. Len(ops) : ops[i].base \in Nat
  BY <1>1, BatchTyped
<1>3. \A e \in B!Entity : shelves[e] \in ShelfRow
  BY DEF BatchInv, BatchTypes
<1>4. \A r \in ShelfRow, m \in Nat : /\ [r EXCEPT !.revision = m] \in ShelfRow
                                     /\ [r EXCEPT !.revision = m].revision = m
  BY DEF ShelfRow
<1>5. ASSUME NEW e \in B!Entity
      PROVE  /\ B!Project[e] \in ShelfRow
             /\ B!Project[e].revision = Reached(ops, e, shelves[e].revision)
  <2> DEFINE k == CHOOSE i \in Mine(ops, e) : \A j \in Mine(ops, e) : j <= i
  <2>1. B!Project[e] = IF Mine(ops, e) # {} THEN [shelves[e] EXCEPT !.revision = B!ResultRevision(e)]
                       ELSE shelves[e]
    BY <1>2 DEF B!Project, Mine
  <2>2. B!ResultRevision(e) = ops[k].base + 1
    BY <1>2 DEF Mine, B!ResultRevision
  <2>3. CASE Mine(ops, e) = {}
    BY <1>3, <2>1, <2>3 DEF Reached
  <2>4. CASE Mine(ops, e) # {}
    <3>1. Mine(ops, e) \subseteq 1 .. 3
      BY <1>2 DEF Mine
    <3>2. \E i \in Mine(ops, e) : \A j \in Mine(ops, e) : j <= i
      BY <2>4, <3>1, LastOfFew
    <3>3. k \in Mine(ops, e)
      BY <3>2
    <3>4. Reached(ops, e, shelves[e].revision) = ops[k].base + 1
      BY <2>4 DEF Reached
    <3> HIDE DEF k
    <3>5. ops[k].base + 1 \in Nat
      BY <1>2, <3>3 DEF Mine
    <3> HIDE DEF ops
    <3> QED BY <1>3, <1>4, <2>1, <2>2, <2>4, <3>4, <3>5
  <2> QED BY <2>3, <2>4
<1>6. B!Project = [e \in B!Entity |-> B!Project[e]]
  BY DEF B!Project
<1> QED BY <1>5, <1>6

\* The result of one batch.
LEMMA ResultRecorded ==
  ASSUME BatchTypes, NEW b \in 1 .. Len(batches), NEW result \in {"applied", "refused"},
         results' = [results EXCEPT ![b] = result]
  PROVE  /\ results' \in Seq({Nothing, "applied", "refused"}) /\ Len(results') = Len(batches)
         /\ \A c \in 1 .. Len(batches) : results'[c] = IF c = b THEN result ELSE results[c]
<1> DEFINE Result == {Nothing, "applied", "refused"}
<1>1. results \in Seq(Result) /\ b \in 1 .. Len(results) /\ result \in Result
      /\ Len(results) = Len(batches)
  BY DEF BatchTypes
<1> HIDE DEF Result
<1>2. results' \in Seq(Result) /\ Len(results') = Len(results)
  BY <1>1, ExceptSeq
<1>3. \A c \in 1 .. Len(results) : results'[c] = IF c = b THEN result ELSE results[c]
  BY <1>1
<1> QED BY <1>1, <1>2, <1>3 DEF Result

LEMMA RecordAppliedKeepsBatches ==
  ASSUME OrderStandsApart, BatchInv, B!RecordApplied PROVE BatchInv'
<1> DEFINE b == sender.batch
<1>1. /\ b \in 1 .. Len(batches) /\ Full(batches[b]) /\ b \in accepted
      /\ results[b] = Nothing
  BY Answers DEF B!RecordApplied
<1>2. /\ shelves' \in [B!Entity -> ShelfRow]
      /\ \A e \in B!Entity :
           shelves'[e].revision = Reached(batches[b], e, shelves[e].revision)
  BY ProjectReaches DEF B!RecordApplied, B!Request
<1>3. /\ results' = [results EXCEPT ![b] = "applied"] /\ sender' = Nothing
      /\ UNCHANGED <<remote, accepted, others>>
  BY DEF B!RecordApplied
<1>4. /\ batches \in Seq(Batch) /\ DOMAIN batches = 1 .. Len(batches) /\ Len(batches) \in Nat
      /\ BatchTypes /\ accepted \subseteq 1 .. Len(batches)
      /\ results \in Seq({Nothing, "applied", "refused"}) /\ Len(results) = Len(batches)
  BY DEF BatchInv, BatchTypes
<1>5. \A c \in 1 .. Len(batches) : /\ batches[c] \in Batch
                                   /\ DOMAIN batches[c] = 1 .. Len(batches[c])
                                   /\ Len(batches[c]) \in 1 .. 3
  BY <1>4, BatchTyped
<1>6. batches' = [c \in DOMAIN batches |-> [i \in DOMAIN batches[c] |->
          IF c = b /\ batches[c][i].state \in B!ActiveStates
          THEN [batches[c][i] EXCEPT !.state = "completed"] ELSE batches[c][i]]]
  BY DEF B!RecordApplied, B!SetStates
<1>7. /\ batches' = [c \in DOMAIN batches |-> [i \in DOMAIN batches[c] |-> batches'[c][i]]]
      /\ \A c \in DOMAIN batches : \A i \in DOMAIN batches[c] :
           batches'[c][i] = IF c = b /\ batches[c][i].state \in B!ActiveStates
                            THEN [batches[c][i] EXCEPT !.state = "completed"] ELSE batches[c][i]
  BY <1>6
<1>8. /\ Restated(batches')
      /\ \A c \in 1 .. Len(batches) : \A i \in 1 .. Len(batches[c]) :
           batches'[c][i].state \in {batches[c][i].state, "completed"}
  <2>1. "completed" \in OpStates
    BY DEF OpStates
  <2>2. \A c \in DOMAIN batches : \A i \in DOMAIN batches[c] :
          batches'[c][i] \in {batches[c][i], [batches[c][i] EXCEPT !.state = "completed"]}
    BY <1>7
  <2> QED BY <1>4, <1>7, <2>1, <2>2, SetStatesRestate
<1>9. /\ \A c \in 1 .. Len(batches) : \A i \in 1 .. Len(batches[c]) :
           c # b => batches'[c][i] = batches[c][i]
      /\ \A i \in 1 .. Len(batches[b]) : batches'[b][i].state = "completed"
  <2>1. ASSUME NEW i \in 1 .. Len(batches[b]) PROVE batches'[b][i].state = "completed"
    <3>1. batches[b][i].state \in B!ActiveStates /\ batches[b][i] \in FolderOp \cup OrderOp
      BY <1>1, <1>5, BatchTyped DEF Full
    <3>2. batches'[b][i] = [batches[b][i] EXCEPT !.state = "completed"]
      BY <1>1, <1>4, <1>5, <1>7, <3>1
    <3> QED BY <3>1, <3>2, OpRestated DEF OpStates
  <2> QED BY <1>4, <1>5, <1>7, <2>1
<1>10. /\ batches' \in Seq(Batch) /\ Len(batches') = Len(batches)
       /\ \A c \in 1 .. Len(batches) : Len(batches'[c]) = Len(batches[c]) /\ batches'[c] \in Batch
  BY <1>4, <1>8, QueueRestated
<1>11. BatchTypes'
  BY <1>1, <1>2, <1>3, <1>4, <1>10, ResultRecorded DEF BatchTypes
<1>12. NewestOnly'
  <2> SUFFICES ASSUME NEW c \in 1 .. Len(batches), c < Len(batches)
               PROVE  batches'[c][Len(batches[c])].state \notin B!ActiveStates
    BY <1>10 DEF NewestOnly
  <2>1. batches[c][Len(batches[c])].state \notin B!ActiveStates
    BY DEF BatchInv, NewestOnly
  <2>2. Len(batches[c]) \in 1 .. 3
    BY <1>5
  <2>3. Len(batches[c]) \in 1 .. Len(batches[c])
    <3>1. \A m \in 1 .. 3 : m \in 1 .. m
      OBVIOUS
    <3> QED BY <2>2, <3>1, Zenon
  <2>4. batches'[c][Len(batches[c])].state \in {batches[c][Len(batches[c])].state, "completed"}
    BY <1>8, <2>3
  <2> QED BY <2>1, <2>4 DEF B!ActiveStates
<1>13. SentFits'
  BY <1>3 DEF SentFits
<1>14. OneAhead'
  <2> SUFFICES ASSUME NEW c \in accepted, Full(batches'[c]) PROVE FALSE
    BY <1>3 DEF OneAhead
  <2>1. c \in 1 .. Len(batches)
    BY <1>4
  <2>2. c # b
    <3>1. Len(batches'[b]) = Len(batches[b]) /\ Len(batches[b]) \in 1 .. 3
      BY <1>1, <1>5, <1>10
    <3>2. batches'[b][1].state = "completed"
      BY <1>9, <3>1
    <3>3. ~ Full(batches'[b])
      BY <3>1, <3>2 DEF Full, B!ActiveStates
    <3> QED BY <3>3
  <2>3. Full(batches[c])
    BY <1>9, <1>10, <2>1, <2>2 DEF Full
  <2> QED BY <1>1, <2>1, <2>2, <2>3, FullIsNewest
<1>15. B!RevisionsAreProven'
  <2> SUFFICES ASSUME \A c \in accepted : results'[c] = "applied", others = 0,
                      NEW e \in B!Entity
               PROVE  shelves'[e].revision = remote[e].revision
    BY <1>3 DEF B!RevisionsAreProven
  <2>1. \A c \in accepted \ {b} : results[c] = "applied"
    BY <1>3, <1>4
  <2> QED BY <1>1, <1>2, <2>1 DEF BatchInv, OneAhead
<1>16. B!BatchesAreWhole'
  <2>1. \A c \in 1 .. Len(batches) : DOMAIN batches'[c] = 1 .. Len(batches[c])
    BY <1>10, BatchTyped
  <2>2. ASSUME NEW c \in 1 .. Len(batches)
        PROVE  /\ results'[c] = "applied" =>
                    c \in accepted /\ \A i \in 1 .. Len(batches[c]) : batches'[c][i].state = "completed"
               /\ results'[c] # "applied" =>
                    \A i \in 1 .. Len(batches[c]) : batches'[c][i].state # "completed"
    <3>1. CASE c = b
      BY <1>1, <1>3, <1>4, <1>9, <3>1, ResultRecorded
    <3>2. CASE c # b
      <4>1. /\ results[c] = "applied" =>
                 c \in accepted /\ \A i \in 1 .. Len(batches[c]) : batches[c][i].state = "completed"
            /\ results[c] # "applied" =>
                 \A i \in 1 .. Len(batches[c]) : batches[c][i].state # "completed"
        BY WholeBatch
      <4>2. results'[c] = results[c]
        BY <1>1, <1>3, <1>4, <3>2, ResultRecorded
      <4>3. \A i \in 1 .. Len(batches[c]) : batches'[c][i] = batches[c][i]
        BY <1>9, <3>2
      <4> QED BY <4>1, <4>2, <4>3
    <3> QED BY <3>1, <3>2
  <2> QED BY <1>3, <1>10, <2>1, <2>2 DEF B!BatchesAreWhole
<1> QED BY <1>11, <1>12, <1>13, <1>14, <1>15, <1>16 DEF BatchInv

LEMMA RecordRefusedKeepsBatches ==
  ASSUME OrderStandsApart, BatchInv, B!RecordRefused PROVE BatchInv'
<1> DEFINE b == sender.batch
           failed == sender.answer.failed
           stale == B!Clash(B!Request) = failed
           State(i) == IF i = failed /\ stale THEN "conflict" ELSE "blocked"
<1>1. /\ b \in 1 .. Len(batches) /\ Full(batches[b]) /\ results[b] = Nothing
  BY Answers DEF B!RecordRefused
<1>2. /\ batches' = [batches EXCEPT ![b] =
             [i \in DOMAIN batches[b] |-> [batches[b][i] EXCEPT !.state = State(i)]]]
      /\ results' = [results EXCEPT ![b] = "refused"] /\ sender' = Nothing
      /\ UNCHANGED <<shelves, remote, accepted, others>>
  BY DEF B!RecordRefused, B!Request
<1>3. \A i : State(i) \in {"conflict", "blocked"}
  OBVIOUS
<1> HIDE DEF State
<1>4. /\ BatchTypes /\ DOMAIN batches = 1 .. Len(batches) /\ Len(batches) \in Nat
      /\ others \in Nat
      /\ \A c \in 1 .. Len(batches) : batches[c] \in Batch
  BY DEF BatchInv, BatchTypes
<1>5. \A c \in 1 .. Len(batches) :
        /\ DOMAIN batches[c] = 1 .. Len(batches[c])
        /\ batches[c] = [i \in 1 .. Len(batches[c]) |-> batches[c][i]]
        /\ \A i \in 1 .. Len(batches[c]) : /\ batches[c][i] \in FolderOp \cup OrderOp
                                           /\ batches[c][i].state \in OpStates
  BY <1>4, BatchTyped
<1>6. \A o \in FolderOp \cup OrderOp :
        /\ [o EXCEPT !.state = o.state] = o
        /\ \A s : [o EXCEPT !.state = s].state = s
  BY DEF FolderOp, OrderOp
<1>7. /\ batches' = [c \in 1 .. Len(batches) |-> batches'[c]]
      /\ batches'[b] = [i \in 1 .. Len(batches[b]) |-> [batches[b][i] EXCEPT !.state = State(i)]]
      /\ \A c \in 1 .. Len(batches) : c # b => batches'[c] = batches[c]
  BY <1>1, <1>2, <1>4, <1>5
<1>8. \A i \in 1 .. Len(batches[b]) : batches'[b][i].state = State(i)
  BY <1>1, <1>5, <1>6, <1>7
<1>9. ASSUME NEW c \in 1 .. Len(batches)
      PROVE  batches'[c] = [i \in 1 .. Len(batches[c]) |->
               [batches[c][i] EXCEPT !.state = batches'[c][i].state]]
  <2>1. CASE c = b
    BY <1>7, <1>8, <2>1
  <2>2. CASE c # b
    <3>1. batches'[c] = batches[c]
      BY <1>7, <2>2
    <3>2. \A i \in 1 .. Len(batches[c]) :
            [batches[c][i] EXCEPT !.state = batches'[c][i].state] = batches[c][i]
      BY <1>5, <1>6, <3>1
    <3> QED BY <1>5, <3>1, <3>2
  <2> QED BY <2>1, <2>2
<1>10. Restated(batches')
  <2>1. batches' = [c \in 1 .. Len(batches) |-> [i \in 1 .. Len(batches[c]) |->
               [batches[c][i] EXCEPT !.state = batches'[c][i].state]]]
    BY <1>7, <1>9
  <2>2. \A c \in 1 .. Len(batches) : \A i \in 1 .. Len(batches[c]) :
          batches'[c][i].state \in OpStates
    BY <1>3, <1>5, <1>7, <1>8 DEF OpStates, B!ActiveStates
  <2> QED BY <2>1, <2>2 DEF Restated
<1>11. /\ results' \in Seq({Nothing, "applied", "refused"}) /\ Len(results') = Len(batches)
       /\ \A c \in 1 .. Len(batches) : results'[c] = IF c = b THEN "refused" ELSE results[c]
  BY <1>1, <1>2, <1>4, ResultRecorded
<1>12. \A c \in 1 .. Len(batches) : results'[c] = "applied" <=> results[c] = "applied"
  BY <1>1, <1>11 DEF OrderStandsApart
<1>13. \A c \in 1 .. Len(batches) : \A i \in 1 .. Len(batches[c]) :
         /\ batches'[c][i].state \in B!ActiveStates => batches[c][i].state \in B!ActiveStates
         /\ batches'[c][i].state = "completed" <=> batches[c][i].state = "completed"
  <2> TAKE c \in 1 .. Len(batches)
  <2>1. CASE c = b
    BY <1>1, <1>3, <1>8, <2>1 DEF Full, B!ActiveStates
  <2>2. CASE c # b
    BY <1>7, <2>2
  <2> QED BY <2>1, <2>2
<1>14. /\ batches' \in Seq(Batch) /\ Len(batches') = Len(batches)
       /\ NewestOnly' /\ OneAhead' /\ B!BatchesAreWhole' /\ B!RevisionsAreProven'
  BY <1>2, <1>4, <1>10, <1>12, <1>13, RestatedKeeps
<1>15. BatchTypes'
  BY <1>2, <1>4, <1>11, <1>14 DEF BatchTypes
<1>16. SentFits'
  BY <1>2 DEF SentFits
<1> QED BY <1>14, <1>15, <1>16 DEF BatchInv

LEMMA PullRowsKeepsBatches == ASSUME BatchInv, B!PullRows PROVE BatchInv'
<1>1. UNCHANGED <<batches, results, sender, remote, accepted, others>>
  BY DEF B!PullRows, B!queue
<1>2. shelves' = [e \in B!Entity |->
        IF remote[e].revision <= shelves[e].revision THEN shelves[e]
        ELSE [revision |-> remote[e].revision, name |-> remote[e].name,
              dir |-> remote[e].dir, parent |-> remote[e].dir, deleted |-> remote[e].deleted]]
  BY DEF B!PullRows
<1>3. \A e \in B!Entity : shelves[e] \in ShelfRow /\ remote[e] \in RemoteRow
  BY DEF BatchInv, BatchTypes
<1>4. shelves' \in [B!Entity -> ShelfRow]
  BY <1>2, <1>3 DEF ShelfRow, RemoteRow
<1>5. BatchTypes'
  BY <1>1, <1>4 DEF BatchInv, BatchTypes
<1>6. \A b \in 1 .. Len(batches) : ~ Full(batches[b])
  <2> SUFFICES ASSUME NEW b \in 1 .. Len(batches), Full(batches[b]) PROVE FALSE
    OBVIOUS
  <2>1. batches[b] \in Batch
    BY DEF BatchInv, BatchTypes
  <2>2. Len(batches[b]) \in 1 .. 3
        /\ \A i \in 1 .. Len(batches[b]) : batches[b][i] \in FolderOp \cup OrderOp
    BY <2>1, BatchTyped
  <2>3. 1 \in 1 .. Len(batches[b])
    <3>1. \A m \in 1 .. 3 : 1 \in 1 .. m
      OBVIOUS
    <3> QED BY <2>2, <3>1, Zenon
  <2>4. batches[b][1].entity \in B!Entity
    BY <2>2, <2>3 DEF FolderOp, OrderOp, B!Entity
  <2>5. batches[b][1].state \in B!ActiveStates
    BY <2>3 DEF Full
  <2>6. <<b, 1>> \in B!ActiveOf(batches[b][1].entity)
    BY <2>2, <2>3, <2>5 DEF B!ActiveOf
  <2> QED BY <2>4, <2>6 DEF B!PullRows, B!NoneActive
<1>7. OneAhead'
  BY <1>1, <1>6 DEF BatchInv, BatchTypes, OneAhead
<1>8. B!RevisionsAreProven'
  BY <1>1, <1>2, <1>3 DEF B!RevisionsAreProven, BatchInv, RemoteRow
<1> QED BY <1>1, <1>5, <1>7, <1>8 DEF BatchInv, NewestOnly, SentFits, B!BatchesAreWhole

LEMMA OtherRenamesKeepsBatches ==
  ASSUME BatchInv, NEW f \in Shelf, NEW name \in Title, B!OtherRenames(f, name)
  PROVE  BatchInv'
<1>1. UNCHANGED <<shelves, batches, results, sender, accepted>>
  BY DEF B!OtherRenames, B!queue
<1>2. others' \in Nat /\ others' # 0
  BY DEF B!OtherRenames, B!Happens, BatchInv, BatchTypes
<1>3. remote' = [remote EXCEPT ![f] = [remote[f] EXCEPT !.name = name, !.revision = @ + 1]]
  BY DEF B!OtherRenames
<1>4. remote \in [B!Entity -> RemoteRow] /\ f \in B!Entity
  BY DEF BatchInv, BatchTypes, B!Entity
<1>5. [remote[f] EXCEPT !.name = name, !.revision = @ + 1] \in RemoteRow
  <2> DEFINE renamed == [remote[f] EXCEPT !.name = name]
  <2>1. remote[f] \in RemoteRow
    BY <1>4
  <2>2. renamed \in RemoteRow /\ renamed.revision = remote[f].revision
    BY <2>1 DEF RemoteRow
  <2>3. \A r \in RemoteRow : r.revision \in Nat /\ [r EXCEPT !.revision = @ + 1] \in RemoteRow
    BY DEF RemoteRow
  <2>4. [remote[f] EXCEPT !.name = name, !.revision = @ + 1] = [renamed EXCEPT !.revision = @ + 1]
    BY <2>2
  <2> HIDE DEF renamed
  <2> QED BY <2>2, <2>3, <2>4
<1>6. remote' \in [B!Entity -> RemoteRow]
  BY <1>3, <1>4, <1>5
<1>7. BatchTypes'
  BY <1>1, <1>2, <1>6 DEF BatchInv, BatchTypes
<1> QED BY <1>1, <1>2, <1>7 DEF BatchInv, NewestOnly, SentFits, OneAhead, B!BatchesAreWhole,
  B!RevisionsAreProven

\* What a change of the binder asks of one folder.
Intents ==
  {ops \in Seq(FolderOp) :
     Len(ops) <= 2 /\ \A i \in 1 .. Len(ops) : ops[i].state = "pending"}

LEMMA PathIntentsFit ==
  ASSUME BatchTypes, NEW f \in Shelf, NEW name \in Title, NEW dir \in Dir
  PROVE  B!PathIntents(f, name, dir) \in Intents
<1> DEFINE r == shelves[f]
           create == B!Intent(f, "create", 0, [name |-> name, dir |-> dir])
           renameOp == B!Intent(f, "rename", r.revision, name)
           rename == IF r.name = name THEN <<>> ELSE <<renameOp>>
           moveOp == B!Intent(f, "move", r.revision + Len(rename), dir)
           move == IF r.dir = dir /\ r.parent = dir THEN <<>> ELSE <<moveOp>>
<1>1. r.revision \in Nat
  BY DEF BatchTypes, ShelfRow, B!Entity
<1>2. create \in FolderOp /\ create.state = "pending"
  BY DEF B!Intent, FolderOp, OpStates, B!ActiveStates
<1>3. renameOp \in FolderOp /\ renameOp.state = "pending"
  BY <1>1 DEF B!Intent, FolderOp, OpStates, B!ActiveStates
<1>4. rename \in Seq(FolderOp) /\ Len(rename) \in 0 .. 1
      /\ \A i \in 1 .. Len(rename) : rename[i].state = "pending"
  <2> HIDE DEF renameOp, r
  <2> QED BY <1>3
<1>5. moveOp \in FolderOp /\ moveOp.state = "pending"
  <2>1. r.revision + Len(rename) \in Nat
    BY <1>1, <1>4
  <2> HIDE DEF rename, r
  <2> QED BY <2>1 DEF B!Intent, FolderOp, OpStates, B!ActiveStates
<1>6. move \in Seq(FolderOp) /\ Len(move) \in 0 .. 1
      /\ \A i \in 1 .. Len(move) : move[i].state = "pending"
  <2> HIDE DEF moveOp, r
  <2> QED BY <1>5
<1>7. B!PathIntents(f, name, dir) = IF r.revision = 0 THEN <<create>> ELSE rename \o move
  BY DEF B!PathIntents
<1> HIDE DEF create, rename, move, r
<1>8. <<create>> \in Intents
  BY <1>2 DEF Intents
<1>9. rename \o move \in Intents
  <2>1. /\ rename \o move \in Seq(FolderOp)
        /\ Len(rename \o move) = Len(rename) + Len(move)
        /\ \A i \in 1 .. Len(rename) + Len(move) : (rename \o move)[i] =
             IF i <= Len(rename) THEN rename[i] ELSE move[i - Len(rename)]
    BY <1>4, <1>6, ConcatProperties
  <2> DEFINE both == rename \o move
  <2> HIDE DEF both
  <2>2. Len(both) <= 2 /\ \A i \in 1 .. Len(both) : both[i].state = "pending"
    BY <1>4, <1>6, <2>1 DEF both
  <2> QED BY <2>1, <2>2 DEF Intents, both
<1> QED BY <1>7, <1>8, <1>9

\* The intents and the new order make a batch.
LEMMA ReorderedBatch ==
  ASSUME BatchTypes, NEW ops \in Intents
  PROVE  /\ ops \o <<B!Reorder>> \in Batch
         /\ \A i \in 1 .. Len(ops \o <<B!Reorder>>) :
              (ops \o <<B!Reorder>>)[i].state = "pending"
<1> DEFINE last == B!Reorder
           all == ops \o <<last>>
           Op == FolderOp \cup OrderOp
<1>1. last \in OrderOp /\ last.state = "pending"
  <2>1. shelves[Order].revision \in Nat
    BY DEF BatchTypes, ShelfRow, B!Entity
  <2> QED BY <2>1 DEF B!Reorder, B!Intent, OrderOp, OpStates, B!ActiveStates
<1>2. /\ ops \in Seq(FolderOp) /\ Len(ops) \in 0 .. 2
      /\ \A i \in 1 .. Len(ops) : ops[i] \in FolderOp /\ ops[i].state = "pending"
  <2>1. /\ ops \in Seq(FolderOp) /\ Len(ops) <= 2
        /\ \A i \in 1 .. Len(ops) : ops[i].state = "pending"
    BY DEF Intents
  <2>2. Len(ops) \in Nat /\ \A i \in 1 .. Len(ops) : ops[i] \in FolderOp
    BY <2>1
  <2>3. Len(ops) \in 0 .. 2
    <3> DEFINE m == Len(ops)
    <3>1. m \in Nat /\ m <= 2
      BY <2>1, <2>2
    <3> HIDE DEF m
    <3>2. m \in 0 .. 2
      BY <3>1
    <3> QED BY <3>2 DEF m
  <2> QED BY <2>1, <2>2, <2>3
<1> HIDE DEF last
<1>3. ops \in Seq(Op)
  BY <1>2
<1>4. <<last>> \in Seq(Op) /\ Len(<<last>>) = 1 /\ <<last>>[1] = last
  BY <1>1
<1>5. /\ all \in Seq(Op) /\ Len(all) = Len(ops) + 1
      /\ \A i \in 1 .. Len(ops) + 1 : all[i] = IF i <= Len(ops) THEN ops[i] ELSE last
  <2> HIDE DEF Op
  <2>1. /\ all \in Seq(Op) /\ Len(all) = Len(ops) + Len(<<last>>)
        /\ \A i \in 1 .. Len(ops) + Len(<<last>>) : all[i] =
             IF i <= Len(ops) THEN ops[i] ELSE <<last>>[i - Len(ops)]
    BY <1>3, <1>4, ConcatProperties
  <2>2. all \in Seq(Op) /\ Len(all) = Len(ops) + 1
    BY <1>4, <2>1
  <2>3. \A i \in 1 .. Len(ops) + 1 : ~ (i <= Len(ops)) => i - Len(ops) = 1
    BY <1>2
  <2>4. \A i \in 1 .. Len(ops) + 1 : all[i] = IF i <= Len(ops) THEN ops[i] ELSE last
    BY <1>2, <1>4, <2>1, <2>3
  <2> QED BY <2>2, <2>4
<1> HIDE DEF all
<1>6. Len(all) \in 1 .. 3
  BY <1>2, <1>5
<1>7. \A i \in 1 .. Len(all) : /\ all[i] \in IF i = Len(all) THEN OrderOp ELSE FolderOp
                              /\ all[i].state = "pending"
  BY <1>1, <1>2, <1>5
<1>8. all \in Batch
  BY <1>5, <1>6, <1>7 DEF Batch
<1> QED BY <1>7, <1>8 DEF all, last

LEMMA ChosenActive ==
  ASSUME NEW e, NEW x \in B!Chosen(B!LatestOf(e)), x # Nothing
  PROVE  x \in B!ActiveOf(e)
BY DEF B!Chosen, B!LatestOf

\* The order of the newest batch is the one active order there can be, so a
\* new batch takes its place.
LEMMA OrderGivesWay ==
  ASSUME OrderStandsApart, BatchInv, NEW n, NEW k, n = Len(batches), n > 0,
         k = Len(batches[n]), batches[n][k].state \in B!ActiveStates,
         NEW x \in B!Chosen(B!LatestOf(Order))
  PROVE  x = <<n, k>> /\ x # Nothing
<1>1. batches \in Seq(Batch) /\ n \in Nat /\ n \in 1 .. Len(batches)
  BY DEF BatchInv, BatchTypes
<1>2. \A b \in 1 .. n : batches[b] \in Batch
  BY <1>1
<1>3. \A b \in 1 .. n :
        /\ Len(batches[b]) \in 1 .. 3
        /\ \A i \in 1 .. Len(batches[b]) :
             batches[b][i] \in IF i = Len(batches[b]) THEN OrderOp ELSE FolderOp
  BY <1>2, BatchTyped
<1>4. k \in 1 .. 3 /\ batches[n][k] \in OrderOp
  BY <1>1, <1>3
<1>5. <<n, k>> \in B!ActiveOf(Order)
  <2> DEFINE pair == <<n, k>>
  <2>1. pair \in (1 .. Len(batches)) \X (1 .. 3) /\ pair[1] = n /\ pair[2] = k
    BY <1>1, <1>4
  <2>2. batches[n][k].entity = Order
    BY <1>4 DEF OrderOp
  <2>3. k <= Len(batches[n])
    BY <1>4
  <2> HIDE DEF pair
  <2>4. pair \in B!ActiveOf(Order)
    BY <2>1, <2>2, <2>3 DEF B!ActiveOf
  <2> QED BY <2>4 DEF pair
<1>6. ASSUME NEW y \in B!ActiveOf(Order) PROVE y = <<n, k>>
  <2>1. /\ y \in (1 .. n) \X (1 .. 3) /\ y[2] <= Len(batches[y[1]])
        /\ batches[y[1]][y[2]].entity = Order
        /\ batches[y[1]][y[2]].state \in B!ActiveStates
    BY DEF B!ActiveOf
  <2>2. y[1] \in 1 .. n /\ y[2] \in 1 .. 3 /\ y = <<y[1], y[2]>>
    BY <2>1
  <2>3. y[2] \in 1 .. Len(batches[y[1]])
    BY <1>3, <2>1, <2>2
  <2>4. y[2] = Len(batches[y[1]])
    BY <1>3, <2>1, <2>2, <2>3 DEF FolderOp, OrderStandsApart
  <2>5. ~ (y[1] < n)
    BY <2>1, <2>2, <2>4 DEF BatchInv, NewestOnly
  <2>6. y[1] = n
    BY <1>1, <2>2, <2>5
  <2> QED BY <2>2, <2>4, <2>6
<1>7. B!LatestOf(Order) # {}
  <2>1. <<n, k>> \in B!LatestOf(Order)
    BY <1>1, <1>5, <1>6 DEF B!LatestOf
  <2> QED BY <2>1
<1>8. x \in B!ActiveOf(Order)
  BY <1>7 DEF B!Chosen, B!LatestOf
<1>9. x = <<n, k>>
  BY <1>6, <1>8
<1>10. <<n, k>> \in Nat \X Nat
  BY <1>1, <1>4
<1> QED BY <1>9, <1>10 DEF OrderStandsApart

\* A change of the binder: a new batch, its predecessors cancelled, one row moved.
LEMMA StoreKeepsBatches ==
  ASSUME OrderStandsApart, BatchInv, NEW f \in Shelf, NEW ops \in Intents,
         NEW newRow \in ShelfRow, newRow.revision = shelves[f].revision,
         B!Store(f, ops, newRow)
  PROVE  BatchInv'
<1> DEFINE n == Len(batches)
           all == ops \o <<B!Reorder>>
<1>1. PICK old \in B!Chosen(B!LatestOf(f)), order \in B!Chosen(B!LatestOf(Order)) :
        B!AppendBatch(all, ((IF ops = <<>> THEN {} ELSE {old}) \cup {order}) \ {Nothing})
  BY DEF B!Store, B!QueueChange
<1> DEFINE replaced == ((IF ops = <<>> THEN {} ELSE {old}) \cup {order}) \ {Nothing}
           bs == B!Supersede(batches, replaced)
<1>2. /\ batches' = Append(bs, all) /\ results' = Append(results, Nothing)
      /\ shelves' = [shelves EXCEPT ![f] = newRow]
      /\ UNCHANGED <<sender, remote, accepted, others>>
  BY <1>1 DEF B!Store, B!AppendBatch
<1>3. all \in Batch /\ \A i \in 1 .. Len(all) : all[i].state = "pending"
  BY ReorderedBatch DEF BatchInv
<1> HIDE DEF all
<1>4. /\ BatchTypes /\ n \in Nat /\ DOMAIN batches = 1 .. n
      /\ results \in Seq({Nothing, "applied", "refused"}) /\ Len(results) = n
      /\ accepted \in SUBSET (1 .. n)
      /\ \A b \in 1 .. n : batches[b] \in Batch
  BY DEF BatchInv, BatchTypes
<1>5. \A b \in 1 .. n : DOMAIN batches[b] = 1 .. Len(batches[b]) /\ Len(batches[b]) \in 1 .. 3
  BY <1>4, BatchTyped
<1>6. \A x \in replaced : batches[x[1]][x[2]].state \in B!ActiveStates
  <2> TAKE x \in replaced
  <2>1. x \in B!ActiveOf(f) \/ x \in B!ActiveOf(Order)
    BY ChosenActive
  <2> QED BY <2>1 DEF B!ActiveOf
<1>7. /\ bs = [b \in DOMAIN batches |-> [i \in DOMAIN batches[b] |-> bs[b][i]]]
      /\ \A b \in DOMAIN batches : \A i \in DOMAIN batches[b] :
           bs[b][i] = IF <<b, i>> \in replaced THEN [batches[b][i] EXCEPT !.state = "cancelled"]
                      ELSE batches[b][i]
  <2> HIDE DEF replaced
  <2> QED BY DEF B!Supersede, B!SetStates
<1>8. order # Nothing => order \in replaced
  OBVIOUS
<1> HIDE DEF bs, replaced
<1>9. /\ Restated(bs)
      /\ \A b \in 1 .. n : \A i \in 1 .. Len(batches[b]) :
           bs[b][i].state \in {batches[b][i].state, "cancelled"}
  <2>1. "cancelled" \in OpStates
    BY DEF OpStates
  <2>2. \A b \in DOMAIN batches : \A i \in DOMAIN batches[b] :
          bs[b][i] \in {batches[b][i], [batches[b][i] EXCEPT !.state = "cancelled"]}
    BY <1>7
  <2> QED BY <1>4, <1>7, <2>1, <2>2, SetStatesRestate
<1>10. /\ bs \in Seq(Batch) /\ Len(bs) = n
       /\ \A b \in 1 .. n : bs[b] \in Batch /\ Len(bs[b]) = Len(batches[b])
  BY <1>4, <1>9, QueueRestated
<1>11. \A b \in 1 .. n : \A i \in 1 .. Len(batches[b]) :
         bs[b][i].state = "completed" <=> batches[b][i].state = "completed"
  <2> TAKE b \in 1 .. n
  <2> TAKE i \in 1 .. Len(batches[b])
  <2>1. CASE <<b, i>> \in replaced
    BY <1>6, <1>9, <2>1 DEF B!ActiveStates
  <2>2. CASE <<b, i>> \notin replaced
    BY <1>4, <1>5, <1>7, <2>2
  <2> QED BY <2>1, <2>2
<1>12. /\ batches' \in Seq(Batch) /\ Len(batches') = n + 1
       /\ \A b \in 1 .. n : batches'[b] = bs[b]
       /\ batches'[n + 1] = all
  <2>1. /\ Append(bs, all) \in Seq(Batch)
        /\ Len(Append(bs, all)) = Len(bs) + 1
        /\ \A b \in 1 .. Len(bs) : Append(bs, all)[b] = bs[b]
        /\ Append(bs, all)[Len(bs) + 1] = all
    BY <1>3, <1>10, AppendProperties
  <2>2. batches' = Append(bs, all) /\ Len(bs) = n
    BY <1>2, <1>10
  <2> QED BY <2>1, <2>2, Zenon
<1>13. /\ results' \in Seq({Nothing, "applied", "refused"}) /\ Len(results') = n + 1
       /\ \A b \in 1 .. n : results'[b] = results[b]
       /\ results'[n + 1] = Nothing
  <2> DEFINE Result == {Nothing, "applied", "refused"}
  <2>1. results \in Seq(Result) /\ Nothing \in Result
    BY <1>4
  <2> HIDE DEF Result
  <2>2. /\ results' \in Seq(Result) /\ Len(results') = n + 1
        /\ \A b \in 1 .. n : results'[b] = results[b]
        /\ results'[n + 1] = Nothing
    BY <1>2, <1>4, <2>1, AppendProperties
  <2> QED BY <2>2 DEF Result
<1>14. \A b \in 1 .. n : batches'[b][Len(batches'[b])].state \notin B!ActiveStates
  <2> TAKE b \in 1 .. n
  <2> DEFINE k == Len(batches[b])
  <2>1. batches'[b] = bs[b] /\ Len(batches'[b]) = k /\ k \in 1 .. 3
    BY <1>5, <1>10, <1>12
  <2>2. k \in 1 .. Len(batches[b])
    <3>1. \A m \in 1 .. 3 : m \in 1 .. m
      OBVIOUS
    <3> QED BY <2>1, <3>1, Zenon
  <2>3. bs[b][k].state \in {batches[b][k].state, "cancelled"}
    BY <1>9, <2>2
  <2>4. CASE batches[b][k].state \notin B!ActiveStates
    BY <2>1, <2>3, <2>4 DEF B!ActiveStates
  <2>5. CASE batches[b][k].state \in B!ActiveStates
    <3>1. b = n /\ n > 0
      <4>1. ~ (b < n)
        BY <2>5 DEF BatchInv, NewestOnly
      <4> HIDE DEF n
      <4> QED BY <1>4, <4>1
    <3>2. order = <<b, k>> /\ order # Nothing
      BY <2>5, <3>1, OrderGivesWay
    <3>3. <<b, k>> \in replaced
      BY <1>8, <3>2
    <3>4. bs[b][k] = [batches[b][k] EXCEPT !.state = "cancelled"]
      BY <1>4, <1>5, <1>7, <2>2, <3>3
    <3>5. batches[b][k] \in FolderOp \cup OrderOp
      BY <1>4, <2>2, BatchTyped
    <3>6. bs[b][k].state = "cancelled"
      BY <3>4, <3>5, OpRestated DEF OpStates
    <3> QED BY <2>1, <3>6 DEF B!ActiveStates
  <2> QED BY <2>4, <2>5
<1>15. /\ shelves' \in [B!Entity -> ShelfRow]
       /\ \A e \in B!Entity : shelves'[e].revision = shelves[e].revision
  BY <1>2 DEF BatchInv, BatchTypes
<1>16. sender # Nothing => sender.batch \in 1 .. n
  BY DEF BatchInv, BatchTypes
<1>17. BatchTypes'
  <2>1. sender' \in {Nothing} \cup [batch : 1 .. n + 1,
                                   answer : {Nothing, B!Lost} \cup [failed : 0 .. 3]]
    BY <1>2, <1>4 DEF BatchInv, BatchTypes
  <2>2. accepted' \in SUBSET (1 .. n + 1)
    BY <1>2, <1>4
  <2>3. remote' \in [B!Entity -> RemoteRow] /\ others' \in Nat
    BY <1>2 DEF BatchInv, BatchTypes
  <2> QED BY <1>12, <1>13, <1>15, <2>1, <2>2, <2>3 DEF BatchTypes
<1>18. NewestOnly'
  BY <1>4, <1>12, <1>14 DEF NewestOnly
<1>19. SentFits'
  BY <1>2, <1>13, <1>16 DEF BatchInv, SentFits
<1>20. OneAhead'
  <2> SUFFICES ASSUME NEW b \in accepted, Full(batches'[b]) PROVE FALSE
    BY <1>2 DEF OneAhead
  <2>1. b \in 1 .. n
    BY <1>4
  <2>2. Len(batches'[b]) \in 1 .. 3
    BY <1>5, <1>10, <1>12, <2>1
  <2>3. Len(batches'[b]) \in 1 .. Len(batches'[b])
    <3>1. \A m \in 1 .. 3 : m \in 1 .. m
      OBVIOUS
    <3> QED BY <2>2, <3>1, Zenon
  <2>4. batches'[b][Len(batches'[b])].state \in B!ActiveStates
    BY <2>3 DEF Full
  <2> QED BY <1>14, <2>1, <2>4
<1>21. B!BatchesAreWhole'
  <2>1. DOMAIN batches' = 1 .. n + 1
    BY <1>12
  <2>2. \A b \in 1 .. n : DOMAIN batches'[b] = 1 .. Len(batches[b])
    <3> TAKE b \in 1 .. n
    <3>1. batches'[b] \in Batch /\ Len(batches'[b]) = Len(batches[b])
      BY <1>10, <1>12
    <3> QED BY <3>1, BatchTyped
  <2>3. ASSUME NEW b \in 1 .. n
        PROVE  /\ results'[b] = "applied" =>
                    b \in accepted /\ \A i \in 1 .. Len(batches[b]) : batches'[b][i].state = "completed"
               /\ results'[b] # "applied" =>
                    \A i \in 1 .. Len(batches[b]) : batches'[b][i].state # "completed"
    <3>1. /\ results[b] = "applied" =>
               b \in accepted /\ \A i \in 1 .. Len(batches[b]) : batches[b][i].state = "completed"
          /\ results[b] # "applied" =>
               \A i \in 1 .. Len(batches[b]) : batches[b][i].state # "completed"
      BY WholeBatch
    <3>2. results'[b] = results[b] /\ batches'[b] = bs[b]
      BY <1>12, <1>13
    <3> QED BY <1>11, <3>1, <3>2
  <2>4. /\ results'[n + 1] # "applied"
        /\ \A i \in DOMAIN batches'[n + 1] : batches'[n + 1][i].state # "completed"
    BY <1>3, <1>12, <1>13, BatchTyped DEF OrderStandsApart
  <2>5. ASSUME NEW b \in 1 .. n + 1
        PROVE  /\ results'[b] = "applied" =>
                    b \in accepted /\ \A i \in DOMAIN batches'[b] : batches'[b][i].state = "completed"
               /\ results'[b] # "applied" =>
                    \A i \in DOMAIN batches'[b] : batches'[b][i].state # "completed"
    <3>1. CASE b = n + 1
      BY <2>4, <3>1
    <3>2. CASE b # n + 1
      BY <1>4, <2>2, <2>3, <3>2
    <3> QED BY <3>1, <3>2
  <2> QED BY <1>2, <2>1, <2>5 DEF B!BatchesAreWhole
<1>22. B!RevisionsAreProven'
  BY <1>2, <1>4, <1>13, <1>15 DEF B!RevisionsAreProven, BatchInv
<1> QED BY <1>17, <1>18, <1>19, <1>20, <1>21, <1>22 DEF BatchInv

LEMMA LifecycleFits ==
  ASSUME BatchTypes, NEW f \in Shelf, NEW kind, NEW value,
         \/ kind = "delete" /\ value = Nothing
         \/ kind = "restore" /\ value \in [name : Title, dir : Dir]
  PROVE  B!Lifecycle(f, kind, value) \in Intents
<1> DEFINE op == B!Intent(f, kind, shelves[f].revision, value)
<1>1. shelves[f].revision \in Nat
  BY DEF BatchTypes, ShelfRow, B!Entity
<1>2. op \in FolderOp /\ op.state = "pending"
  BY <1>1 DEF B!Intent, FolderOp, OpStates, B!ActiveStates
<1> HIDE DEF op
<1>3. <<op>> \in Seq(FolderOp) /\ Len(<<op>>) = 1 /\ <<op>>[1] = op
  BY <1>2
<1>4. <<op>> \in Intents
  BY <1>2, <1>3 DEF Intents
<1> QED BY <1>4 DEF B!Lifecycle, op

LEMMA BinderKeepsBatches ==
  ASSUME OrderStandsApart, BatchInv, NEW f \in Shelf, NEW dir \in Dir,
         \/ B!RestoreFolder(f, dir) \/ B!DeleteFolder(f)
         \/ \E name \in Title : B!ChangePath(f, name, dir)
  PROVE  BatchInv'
<1>1. shelves[f] \in ShelfRow /\ BatchTypes
  BY DEF BatchInv, BatchTypes, B!Entity
<1>2. CASE B!RestoreFolder(f, dir)
  <2>1. [name |-> shelves[f].name, dir |-> dir] \in [name : Title, dir : Dir]
    BY <1>1 DEF ShelfRow
  <2>2. B!Restored(f, dir) \in ShelfRow /\ B!Restored(f, dir).revision = shelves[f].revision
    BY <1>1 DEF B!Restored, ShelfRow
  <2>3. B!Lifecycle(f, "restore", [name |-> shelves[f].name, dir |-> dir]) \in Intents
    BY <1>1, <2>1, LifecycleFits
  <2> QED BY <1>2, <2>2, <2>3, StoreKeepsBatches DEF B!RestoreFolder
<1>3. CASE B!DeleteFolder(f)
  <2> DEFINE gone == [shelves[f] EXCEPT !.deleted = TRUE]
  <2>1. gone \in ShelfRow /\ gone.revision = shelves[f].revision
    BY <1>1 DEF ShelfRow
  <2>2. B!Lifecycle(f, "delete", Nothing) \in Intents
    BY <1>1, LifecycleFits
  <2>3. B!Store(f, B!Lifecycle(f, "delete", Nothing), gone)
    BY <1>3 DEF B!DeleteFolder
  <2> HIDE DEF gone
  <2> QED BY <2>1, <2>2, <2>3, StoreKeepsBatches
<1>4. CASE \E name \in Title : B!ChangePath(f, name, dir)
  BY <1>1, <1>4, PathIntentsFit, StoreKeepsBatches DEF B!Moved, ShelfRow, B!ChangePath
<1> QED BY <1>2, <1>3, <1>4

LEMMA BatchStep == ASSUME OrderStandsApart, BatchInv, B!StructureNext PROVE BatchInv'
<1>1. ASSUME NEW f \in Shelf, NEW name \in Title, NEW dir \in Dir, B!ChangePath(f, name, dir)
      PROVE  BatchInv'
  BY <1>1, BinderKeepsBatches
<1>2. ASSUME NEW f \in Shelf, NEW dir \in Dir, B!RestoreFolder(f, dir) PROVE BatchInv'
  BY <1>2, BinderKeepsBatches
<1>3. ASSUME NEW f \in Shelf, B!DeleteFolder(f) PROVE BatchInv'
  BY <1>3, BinderKeepsBatches DEF BatchInv, BatchTypes, B!Entity, ShelfRow
<1>4. ASSUME NEW failed \in 1 .. 3, B!ServerRefuses(failed) PROVE BatchInv'
  BY <1>4, RefusesKeepsBatches
<1>5. ASSUME NEW f \in Shelf, NEW name \in Title, B!OtherRenames(f, name) PROVE BatchInv'
  BY <1>5, OtherRenamesKeepsBatches
<1> QED BY <1>1, <1>2, <1>3, <1>4, <1>5, LaunchKeepsBatches, AppliesKeepsBatches,
  UnansweredKeepsBatches, RecordAppliedKeepsBatches, RecordRefusedKeepsBatches,
  MarkRetryKeepsBatches, RestartKeepsBatches, PullRowsKeepsBatches DEF B!StructureNext

LEMMA BatchesHold ==
  ASSUME BatchInv PROVE B!StructureTypeOK /\ B!BatchesAreWhole /\ B!QueueIsSound
<1>1. /\ BatchTypes /\ DOMAIN batches = 1 .. Len(batches) /\ Len(batches) \in Nat
      /\ \A b \in 1 .. Len(batches) : batches[b] \in Batch
  BY DEF BatchInv, BatchTypes
<1>2. \A b \in 1 .. Len(batches) :
        /\ DOMAIN batches[b] = 1 .. Len(batches[b])
        /\ \A i \in 1 .. Len(batches[b]) : batches[b][i].state \in OpStates
  BY <1>1, BatchTyped
<1>3. B!StructureTypeOK
  <2>1. DOMAIN shelves = B!Entity /\ Len(results) = Len(batches)
        /\ accepted \subseteq 1 .. Len(batches)
    BY <1>1 DEF BatchTypes
  <2>2. \A e \in B!Entity : shelves[e].revision \in Nat /\ remote[e].revision \in Nat
    BY <1>1 DEF BatchTypes, ShelfRow, RemoteRow
  <2>3. sender # Nothing => sender.batch \in 1 .. Len(batches)
    BY <1>1 DEF BatchTypes
  <2>4. \A b \in 1 .. Len(batches), i \in 1 .. 3 :
          i <= Len(batches[b]) =>
            batches[b][i].state \in B!ActiveStates \cup {"completed", "cancelled"}
    <3> TAKE b \in 1 .. Len(batches), i \in 1 .. 3
    <3>1. Len(batches[b]) \in 1 .. 3
      BY <1>1, BatchTyped
    <3> QED BY <1>2, <3>1 DEF OpStates
  <2> QED BY <1>1, <2>1, <2>2, <2>3, <2>4 DEF B!StructureTypeOK
<1>4. B!OneRequestPerEntity
  <2> SUFFICES ASSUME NEW e \in B!Entity, NEW x \in B!ActiveOf(e), NEW y \in B!ActiveOf(e),
                      x[1] < y[1], x[1] \in B!Ready
               PROVE  FALSE
    BY DEF B!OneRequestPerEntity
  <2>1. y[1] \in 1 .. Len(batches)
    BY DEF B!ActiveOf
  <2>2. /\ x[1] \in 1 .. Len(batches)
        /\ \A i \in 1 .. Len(batches[x[1]]) : batches[x[1]][i].state \in B!ActiveStates
    BY <1>1, <1>2 DEF B!Ready, B!ReadyStates, B!ActiveStates
  <2>3. x[1] = Len(batches)
    BY <2>2, FullIsNewest DEF Full
  <2> QED BY <1>1, <2>1, <2>3
<1> QED BY <1>3, <1>4 DEF BatchInv, B!QueueIsSound

\* For any number of folders, batches, restarts and changes of other devices, a
\* structure batch (create_structure_batch, record_structure_batch_response) is
\* recorded whole or not at all, no entity has two requests on their way, and
\* the revisions the device goes on from are the server's.
THEOREM BatchesStaySound ==
  ASSUME OrderStandsApart PROVE StructureSpec => []BatchesAreSound
<1>1. StructureInit => BatchInv
  BY BatchesStart DEF StructureInit
<1>2. BatchInv /\ [StructureNext]_<<part, lifecycle, batched, filed, gated>> => BatchInv'
  BY BatchStep, BatchesStutter DEF StructureNext
<1>3. BatchInv => BatchesAreSound
  BY BatchesHold DEF BatchesAreSound
<1> QED BY <1>1, <1>2, <1>3, PTL DEF StructureSpec

-----------------------------------------------------------------------------
(* The files and the identities that name them (ProjectIdentity) *)

\* The names of folders, of documents and of the trash are told apart, as are the
\* ids of the two fixed nodes.
NamesStandApart ==
  /\ FolderName \cap DocName = {} /\ Trash \notin FolderName \cup DocName
  /\ Main \notin Uuid /\ Bin \notin Uuid /\ Main # Bin /\ MaxFaults \in Nat

LEMMA AppendFacts ==
  ASSUME NEW S, NEW s \in Seq(S), NEW n \in S
  PROVE  /\ Append(s, n) \in Seq(S) /\ Len(Append(s, n)) = Len(s) + 1
         /\ \A i \in 1 .. Len(s) : Append(s, n)[i] = s[i]
         /\ Append(s, n)[Len(s) + 1] = n
BY AppendProperties

\* Short tuples are made by appending.
LEMMA TuplesAppend ==
  /\ \A n : Append(<<>>, n) = <<n>>
  /\ \A m, n : Append(<<m>>, n) = <<m, n>>
  /\ \A l, m, n : Append(<<l, m>>, n) = <<l, m, n>>
<1>1. ASSUME NEW n PROVE Append(<<>>, n) = <<n>>
  OBVIOUS
<1>2. ASSUME NEW m, NEW n PROVE Append(<<m>>, n) = <<m, n>>
  <2> DEFINE S == {m, n}
             s == <<m>>
             t == <<m, n>>
  <2>1. s \in Seq(S) /\ Len(s) = 1 /\ s[1] = m
    OBVIOUS
  <2>2. t \in Seq(S) /\ Len(t) = 2 /\ t[1] = m /\ t[2] = n
    OBVIOUS
  <2> HIDE DEF s, t
  <2> DEFINE a == Append(s, n)
  <2>3. a \in Seq(S) /\ Len(a) = 2 /\ a[1] = m /\ a[2] = n
    <3>1. n \in S
      OBVIOUS
    <3> HIDE DEF S
    <3>2. /\ Append(s, n) \in Seq(S) /\ Len(Append(s, n)) = Len(s) + 1
          /\ \A i \in 1 .. Len(s) : Append(s, n)[i] = s[i]
          /\ Append(s, n)[Len(s) + 1] = n
      BY <2>1, <3>1, AppendFacts, Zenon
    <3> QED BY <2>1, <3>2
  <2> HIDE DEF a
  <2>4. a = t
    BY <2>2, <2>3, SeqEqual
  <2> QED BY <2>4 DEF a, s, t
<1>3. ASSUME NEW l, NEW m, NEW n PROVE Append(<<l, m>>, n) = <<l, m, n>>
  <2> DEFINE S == {l, m, n}
             s == <<l, m>>
             t == <<l, m, n>>
  <2>1. s \in Seq(S) /\ Len(s) = 2 /\ s[1] = l /\ s[2] = m
    OBVIOUS
  <2>2. t \in Seq(S) /\ Len(t) = 3 /\ t[1] = l /\ t[2] = m /\ t[3] = n
    OBVIOUS
  <2> HIDE DEF s, t
  <2> DEFINE a == Append(s, n)
  <2>3. a \in Seq(S) /\ Len(a) = 3 /\ a[1] = l /\ a[2] = m /\ a[3] = n
    <3>1. n \in S
      OBVIOUS
    <3> HIDE DEF S
    <3>2. /\ Append(s, n) \in Seq(S) /\ Len(Append(s, n)) = Len(s) + 1
          /\ \A i \in 1 .. Len(s) : Append(s, n)[i] = s[i]
          /\ Append(s, n)[Len(s) + 1] = n
      BY <2>1, <3>1, AppendFacts, Zenon
    <3> QED BY <2>1, <3>2
  <2> HIDE DEF a
  <2>4. a = t
    BY <2>2, <2>3, SeqEqual
  <2> QED BY <2>4 DEF a, s, t
<1> QED BY <1>1, <1>2, <1>3

LEMMA FrontOfAppend ==
  ASSUME NEW S, NEW s \in Seq(S), NEW n \in S
  PROVE  I!Front(Append(s, n)) = s /\ I!Last(Append(s, n)) = n
<1> DEFINE a == Append(s, n)
<1>1. a \in Seq(S) /\ Len(a) = Len(s) + 1 /\ a[Len(s) + 1] = n
      /\ \A i \in 1 .. Len(s) : a[i] = s[i] /\ a[i] \in S
  OBVIOUS
<1> HIDE DEF a
<1>2. /\ SubSeq(a, 1, Len(s)) \in Seq(S) /\ Len(SubSeq(a, 1, Len(s))) = Len(s)
      /\ \A i \in 1 .. Len(s) : SubSeq(a, 1, Len(s))[i] = a[i]
  BY <1>1, SubSeqProperties
<1>3. SubSeq(a, 1, Len(s)) = s
  BY <1>1, <1>2, SeqEqual
<1>4. I!Front(a) = s /\ I!Last(a) = n
  BY <1>1, <1>3 DEF I!Front, I!Last
<1> QED BY <1>4 DEF a

LEMMA FrontOfTuples ==
  /\ \A n : I!Front(<<n>>) = <<>> /\ I!Last(<<n>>) = n
  /\ \A m, n : I!Front(<<m, n>>) = <<m>> /\ I!Last(<<m, n>>) = n
  /\ \A l, m, n : I!Front(<<l, m, n>>) = <<l, m>> /\ I!Last(<<l, m, n>>) = n
<1>1. ASSUME NEW n PROVE I!Front(<<n>>) = <<>> /\ I!Last(<<n>>) = n
  <2> DEFINE S == {n}
  <2>1. <<>> \in Seq(S) /\ n \in S
    OBVIOUS
  <2> HIDE DEF S
  <2>2. I!Front(Append(<<>>, n)) = <<>> /\ I!Last(Append(<<>>, n)) = n
    BY <2>1, FrontOfAppend, Zenon
  <2> QED BY <2>2, TuplesAppend
<1>2. ASSUME NEW m, NEW n PROVE I!Front(<<m, n>>) = <<m>> /\ I!Last(<<m, n>>) = n
  <2> DEFINE S == {m, n}
  <2>1. <<m>> \in Seq(S) /\ n \in S
    OBVIOUS
  <2> HIDE DEF S
  <2>2. I!Front(Append(<<m>>, n)) = <<m>> /\ I!Last(Append(<<m>>, n)) = n
    BY <2>1, FrontOfAppend, Zenon
  <2> QED BY <2>2, TuplesAppend
<1>3. ASSUME NEW l, NEW m, NEW n
      PROVE  I!Front(<<l, m, n>>) = <<l, m>> /\ I!Last(<<l, m, n>>) = n
  <2> DEFINE S == {l, m, n}
  <2>1. <<l, m>> \in Seq(S) /\ n \in S
    OBVIOUS
  <2> HIDE DEF S
  <2>2. I!Front(Append(<<l, m>>, n)) = <<l, m>> /\ I!Last(Append(<<l, m>>, n)) = n
    BY <2>1, FrontOfAppend, Zenon
  <2> QED BY <2>2, TuplesAppend
<1> QED BY <1>1, <1>2, <1>3

\* The four kinds of paths.
LEMMA PathShapes ==
  ASSUME NEW p
  PROVE  /\ p \in I!LivePath <=> \/ \E n \in I!Name : p = <<n>>
                                 \/ \E f \in FolderName, d \in DocName : p = <<f, d>>
         /\ p \in I!TrashPath <=> \/ \E n \in I!Name : p = <<Trash, n>>
                                  \/ \E f \in FolderName, d \in DocName : p = <<Trash, f, d>>
         /\ p \in I!Path <=> p \in I!LivePath \/ p \in I!TrashPath
<1>1. ASSUME NEW n PROVE <<Trash>> \o <<n>> = <<Trash, n>>
  <2> DEFINE S == {Trash, n}
             t == <<Trash, n>>
             s == <<Trash>>
             r == <<n>>
  <2>1. t \in Seq(S) /\ Len(t) = 2 /\ t[1] = Trash /\ t[2] = n
    OBVIOUS
  <2>2. s \in Seq(S) /\ Len(s) = 1 /\ s[1] = Trash
    OBVIOUS
  <2>3. r \in Seq(S) /\ Len(r) = 1 /\ r[1] = n
    OBVIOUS
  <2> HIDE DEF s, t, r
  <2> DEFINE c == s \o r
  <2> HIDE DEF S
  <2>6. /\ s \o r \in Seq(S) /\ Len(s \o r) = Len(s) + Len(r)
        /\ \A i \in 1 .. Len(s) + Len(r) :
             (s \o r)[i] = IF i <= Len(s) THEN s[i] ELSE r[i - Len(s)]
    BY <2>2, <2>3, ConcatProperties
  <2>4. c \in Seq(S) /\ Len(c) = 2 /\ c[1] = Trash /\ c[2] = n
    BY <2>2, <2>3, <2>6
  <2> HIDE DEF c
  <2>5. c = t
    BY <2>1, <2>4, SeqEqual
  <2> QED BY <2>5 DEF c, s, t, r
<1>2. ASSUME NEW f, NEW d PROVE <<Trash>> \o <<f, d>> = <<Trash, f, d>>
  <2> DEFINE S == {Trash, f, d}
             t == <<Trash, f, d>>
             s == <<Trash>>
             r == <<f, d>>
  <2>1. t \in Seq(S) /\ Len(t) = 3 /\ t[1] = Trash /\ t[2] = f /\ t[3] = d
    OBVIOUS
  <2>2. s \in Seq(S) /\ Len(s) = 1 /\ s[1] = Trash
    OBVIOUS
  <2>3. r \in Seq(S) /\ Len(r) = 2 /\ r[1] = f /\ r[2] = d
    OBVIOUS
  <2> HIDE DEF s, t, r
  <2> DEFINE c == s \o r
  <2> HIDE DEF S
  <2>6. /\ s \o r \in Seq(S) /\ Len(s \o r) = Len(s) + Len(r)
        /\ \A i \in 1 .. Len(s) + Len(r) :
             (s \o r)[i] = IF i <= Len(s) THEN s[i] ELSE r[i - Len(s)]
    BY <2>2, <2>3, ConcatProperties
  <2>4. c \in Seq(S) /\ Len(c) = 3 /\ c[1] = Trash /\ c[2] = f /\ c[3] = d
    BY <2>2, <2>3, <2>6
  <2> HIDE DEF c
  <2>5. c = t
    BY <2>1, <2>4, SeqEqual
  <2> QED BY <2>5 DEF c, s, t, r
<1>3. \A q : q \in I!LivePath <=>
               \/ \E n \in I!Name : q = <<n>>
               \/ \E f \in FolderName, d \in DocName : q = <<f, d>>
  BY DEF I!LivePath
<1>4. p \in I!TrashPath <=> \E q \in I!LivePath : p = <<Trash>> \o q
  BY DEF I!TrashPath
<1>5. p \in I!TrashPath <=>
        \/ \E n \in I!Name : p = <<Trash>> \o <<n>>
        \/ \E f \in FolderName, d \in DocName : p = <<Trash>> \o <<f, d>>
  <2>1. ASSUME NEW q \in I!LivePath, p = <<Trash>> \o q
        PROVE  \/ \E n \in I!Name : p = <<Trash>> \o <<n>>
               \/ \E f \in FolderName, d \in DocName : p = <<Trash>> \o <<f, d>>
    BY <1>3, <2>1, Zenon
  <2>2. ASSUME NEW n \in I!Name, p = <<Trash>> \o <<n>>
        PROVE  \E q \in I!LivePath : p = <<Trash>> \o q
    BY <1>3, <2>2, Zenon
  <2>3. ASSUME NEW f \in FolderName, NEW d \in DocName, p = <<Trash>> \o <<f, d>>
        PROVE  \E q \in I!LivePath : p = <<Trash>> \o q
    BY <1>3, <2>3, Zenon
  <2> QED BY <1>4, <2>1, <2>2, <2>3, Zenon
<1>6. p \in I!TrashPath <=>
        \/ \E n \in I!Name : p = <<Trash, n>>
        \/ \E f \in FolderName, d \in DocName : p = <<Trash, f, d>>
  BY <1>1, <1>2, <1>5
<1> QED BY <1>3, <1>6 DEF I!Path

Letters == I!Name \cup {Trash}

LEMMA PathsAreSequences ==
  ASSUME NEW p \in I!Path
  PROVE  p \in Seq(Letters) /\ (Len(p) = 1 \/ Len(p) = 2 \/ Len(p) = 3)
<1>1. CASE \E n \in I!Name : p = <<n>>
  BY <1>1 DEF Letters
<1>2. CASE \E f \in FolderName, d \in DocName : p = <<f, d>>
  BY <1>2 DEF Letters, I!Name
<1>3. CASE \E n \in I!Name : p = <<Trash, n>>
  BY <1>3 DEF Letters
<1>4. CASE \E f \in FolderName, d \in DocName : p = <<Trash, f, d>>
  BY <1>4 DEF Letters, I!Name
<1> QED BY <1>1, <1>2, <1>3, <1>4, PathShapes

LEMMA RootsAreNoPaths ==
  ASSUME NamesStandApart
  PROVE  <<>> \notin I!Path /\ <<Trash>> \notin I!Path /\ <<>> # <<Trash>>
<1>1. <<>> \notin I!Path
  <2>1. ASSUME NEW p \in I!Path PROVE Len(p) # 0
    <3>1. (Len(p) = 1 \/ Len(p) = 2 \/ Len(p) = 3)
      BY PathsAreSequences
    <3> QED BY <3>1
  <2>2. Len(<<>>) = 0
    OBVIOUS
  <2> QED BY <2>1, <2>2
<1>2. ASSUME <<Trash>> \in I!Path PROVE FALSE
  BY <1>2, PathShapes DEF NamesStandApart, I!Name
<1> QED BY <1>1, <1>2

\* What is above a path, and what a path ends with.
LEMMA PathFacts ==
  ASSUME NamesStandApart, NEW p \in I!Path
  PROVE  /\ I!Front(p) \in I!Path \/ I!Front(p) = <<>> \/ I!Front(p) = <<Trash>>
         /\ I!Last(p) \in I!Name
         /\ p = Append(I!Front(p), I!Last(p))
         /\ I!Front(p) \in I!Path =>
              /\ I!Last(p) \in DocName /\ I!Last(I!Front(p)) \in FolderName
              /\ I!Front(I!Front(p)) \notin I!Path
         /\ p \in I!TrashPath <=> I!Front(p) = <<Trash>> \/ I!Front(p) \in I!TrashPath
         /\ I!Front(p) = <<>> => p \in I!LivePath
<1>1. CASE \E n \in I!Name : p = <<n>>
  BY <1>1, FrontOfTuples, TuplesAppend, RootsAreNoPaths, PathShapes DEF I!Path
<1>2. CASE \E f \in FolderName, d \in DocName : p = <<f, d>>
  BY <1>2, FrontOfTuples, TuplesAppend, PathShapes, RootsAreNoPaths DEF I!Name,
     NamesStandApart
<1>3. CASE \E n \in I!Name : p = <<Trash, n>>
  BY <1>3, FrontOfTuples, TuplesAppend, PathShapes, RootsAreNoPaths
<1>4. CASE \E f \in FolderName, d \in DocName : p = <<Trash, f, d>>
  BY <1>4, FrontOfTuples, TuplesAppend, PathShapes, RootsAreNoPaths DEF I!Name
<1> QED BY <1>1, <1>2, <1>3, <1>4, PathShapes

\* A folder holds documents, at one level, live or in the trash.
LEMMA ChildPaths ==
  ASSUME NamesStandApart, NEW p \in I!Path, I!Last(p) \in FolderName, NEW d \in DocName
  PROVE  /\ Append(p, d) \in I!Path
         /\ I!Front(Append(p, d)) = p /\ I!Last(Append(p, d)) = d
         /\ p \in I!TrashPath => Append(p, d) \in I!TrashPath
         /\ p \in I!LivePath => Append(p, d) \in I!LivePath
<1>1. CASE \E n \in I!Name : p = <<n>>
  <2>1. PICK n \in I!Name : p = <<n>>
    BY <1>1
  <2>2. n \in FolderName
    BY <2>1, FrontOfTuples
  <2>3. Append(p, d) = <<n, d>> /\ I!Front(<<n, d>>) = p /\ I!Last(<<n, d>>) = d
    BY <2>1, FrontOfTuples, TuplesAppend
  <2>4. p \notin I!TrashPath
    BY <2>1, PathShapes
  <2> QED BY <2>2, <2>3, <2>4, PathShapes
<1>2. CASE \E f \in FolderName, e \in DocName : p = <<f, e>>
  BY <1>2, FrontOfTuples DEF NamesStandApart
<1>3. CASE \E n \in I!Name : p = <<Trash, n>>
  <2>1. PICK n \in I!Name : p = <<Trash, n>>
    BY <1>3
  <2>2. n \in FolderName
    BY <2>1, FrontOfTuples
  <2>3. Append(p, d) = <<Trash, n, d>> /\ I!Front(<<Trash, n, d>>) = p
        /\ I!Last(<<Trash, n, d>>) = d
    BY <2>1, FrontOfTuples, TuplesAppend
  <2>4. p \notin I!LivePath
    BY <2>1, PathShapes DEF NamesStandApart, I!Name
  <2> QED BY <2>2, <2>3, <2>4, PathShapes
<1>4. CASE \E f \in FolderName, e \in DocName : p = <<Trash, f, e>>
  BY <1>4, FrontOfTuples DEF NamesStandApart
<1> QED BY <1>1, <1>2, <1>3, <1>4, PathShapes

LEMMA PrefixOfSequences ==
  ASSUME NEW S, NEW p \in Seq(S), NEW q \in Seq(S)
  PROVE  I!IsPrefix(p, q) <=> Len(p) <= Len(q) /\ \A i \in 1 .. Len(p) : p[i] = q[i]
<1>1. SubSeq(p, 1, Len(p)) = p
  BY SubSeqFull
<1>2. CASE Len(p) <= Len(q)
  <2> DEFINE s == SubSeq(q, 1, Len(p))
  <2>1. \A i \in 1 .. Len(p) : q[i] \in S
    BY <1>2
  <2>2. s \in Seq(S) /\ Len(s) = Len(p) /\ \A i \in 1 .. Len(p) : s[i] = q[i]
    BY <1>2, <2>1, SubSeqProperties
  <2> HIDE DEF s
  <2>3. p = s <=> \A i \in 1 .. Len(p) : p[i] = s[i]
    BY <2>2, SeqEqual
  <2> QED BY <1>1, <1>2, <2>2, <2>3 DEF I!IsPrefix, s
<1> QED BY <1>2 DEF I!IsPrefix

LEMMA FrontOfSequence ==
  ASSUME NEW S, NEW q \in Seq(S), q # <<>>
  PROVE  /\ I!Front(q) \in Seq(S) /\ Len(I!Front(q)) = Len(q) - 1
         /\ \A i \in 1 .. Len(q) - 1 : I!Front(q)[i] = q[i]
<1> DEFINE m == Len(q) - 1
<1>1. m \in Nat /\ \A i \in 1 .. m : q[i] \in S
  BY EmptySeq
<1> HIDE DEF m
<1>2. /\ SubSeq(q, 1, m) \in Seq(S) /\ Len(SubSeq(q, 1, m)) = m
      /\ \A i \in 1 .. m : SubSeq(q, 1, m)[i] = q[i]
  BY <1>1, SubSeqProperties
<1> QED BY <1>2 DEF I!Front, m

\* What lies at or below a path: itself, and what it is right above.
LEMMA PrefixFacts ==
  ASSUME NamesStandApart, NEW p \in I!Path, NEW q \in I!Path
  PROVE  I!IsPrefix(p, q) <=> p = q \/ I!Front(q) = p
<1>1. p \in Seq(Letters) /\ q \in Seq(Letters) /\ (Len(p) = 1 \/ Len(p) = 2 \/ Len(p) = 3) /\ (Len(q) = 1 \/ Len(q) = 2 \/ Len(q) = 3)
  BY PathsAreSequences
<1>2. I!IsPrefix(p, q) <=> Len(p) <= Len(q) /\ \A i \in 1 .. Len(p) : p[i] = q[i]
  BY <1>1, PrefixOfSequences
<1>3. I!Front(q) \in Seq(Letters) /\ Len(I!Front(q)) = Len(q) - 1
      /\ \A i \in 1 .. Len(q) - 1 : I!Front(q)[i] = q[i]
  BY <1>1, RootsAreNoPaths, FrontOfSequence
<1>4. Len(p) = Len(q) /\ I!IsPrefix(p, q) => p = q
  BY <1>1, <1>2, SeqEqual
<1>5. Len(p) = Len(q) - 1 /\ I!IsPrefix(p, q) => p = I!Front(q)
  BY <1>1, <1>2, <1>3, SeqEqual
<1>6. p = q => I!IsPrefix(p, q)
  BY <1>1, <1>2
<1>7. I!Front(q) = p => I!IsPrefix(p, q)
  BY <1>1, <1>2, <1>3
<1>8. ASSUME Len(p) < Len(q) - 1, I!IsPrefix(p, q) PROVE FALSE
  <2> DEFINE k == Len(p)
             m == Len(q)
  <2>5. (k = 1 \/ k = 2 \/ k = 3) /\ (m = 1 \/ m = 2 \/ m = 3) /\ k < m - 1
    BY <1>1, <1>8
  <2> HIDE DEF k, m
  <2>6. k = 1 /\ m = 3
    BY <2>5
  <2>4. Len(p) = 1 /\ Len(q) = 3
    BY <2>6 DEF k, m
  <2>1. Len(p) = 1 /\ Len(q) = 3 /\ p[1] = q[1]
    BY <1>2, <1>8, <2>4
  <2>2. PICK n \in I!Name : p = <<n>>
    BY <2>1, PathShapes
  <2>3. q[1] = Trash
    BY <2>1, PathShapes
  <2> QED BY <2>1, <2>2, <2>3 DEF NamesStandApart, I!Name
<1>9. Len(p) \in Nat /\ Len(q) \in Nat
  BY <1>1
<1> QED BY <1>2, <1>4, <1>5, <1>6, <1>7, <1>8, <1>9

\* A folder or document takes what is below it along.
LEMMA RebasedFacts ==
  ASSUME NamesStandApart, NEW p \in I!Path, NEW old \in I!Path, NEW new \in I!Path
  PROVE  /\ p = old => I!Rebased(p, old, new) = new
         /\ I!Front(p) = old => I!Rebased(p, old, new) = Append(new, I!Last(p))
<1>1. /\ p \in Seq(Letters) /\ old \in Seq(Letters) /\ new \in Seq(Letters)
      /\ Len(p) \in Nat \ {0} /\ Len(old) \in Nat
  <2>1. p \in Seq(Letters) /\ old \in Seq(Letters) /\ new \in Seq(Letters)
    BY PathsAreSequences
  <2>2. (Len(p) = 1 \/ Len(p) = 2 \/ Len(p) = 3) /\ (Len(old) = 1 \/ Len(old) = 2 \/ Len(old) = 3)
    BY PathsAreSequences
  <2>3. Len(p) \in Nat \ {0} /\ Len(old) \in Nat
    BY <2>2
  <2> QED BY <2>1, <2>3
<1>2. ASSUME p = old PROVE I!Rebased(p, old, new) = new
  BY <1>1, <1>2, SubSeqEmpty, ConcatEmptySeq DEF I!Rebased
<1>3. ASSUME I!Front(p) = old PROVE I!Rebased(p, old, new) = Append(new, I!Last(p))
  <2>1. \A i \in 1 .. Len(p) - 1 : p[i] \in Letters
    BY <1>1
  <2>2. Len(old) = Len(p) - 1
    BY <1>1, <1>3, <2>1, SubSeqProperties DEF I!Front
  <2> DEFINE s == SubSeq(p, Len(old) + 1, Len(p))
             t == <<I!Last(p)>>
  <2>3. \A i \in Len(old) + 1 .. Len(p) : p[i] \in Letters
    BY <1>1
  <2>4. s \in Seq(Letters) /\ Len(s) = 1 /\ s[1] = p[Len(p)]
    BY <1>1, <2>2, <2>3, SubSeqProperties
  <2>5. I!Last(p) \in Letters /\ I!Last(p) = p[Len(p)]
    BY <1>1 DEF I!Last
  <2>6. t \in Seq(Letters) /\ Len(t) = 1 /\ t[1] = I!Last(p)
    BY <2>5
  <2> HIDE DEF s, t
  <2>7. s = t
    BY <2>4, <2>5, <2>6, SeqEqual
  <2>8. Append(new, I!Last(p)) = new \o t
    BY <1>1, <2>5, AppendIsConcat DEF t
  <2> QED BY <2>7, <2>8 DEF I!Rebased, s
<1> QED BY <1>2, <1>3

\* Moving keeps kinds, and moving back finds the path again.
LEMMA Rebasing ==
  ASSUME NamesStandApart, NEW p \in I!Path, NEW old \in I!Path, NEW new \in I!Path,
         I!SameKind(I!Last(old), I!Last(new)), p = old \/ I!Front(p) = old
  PROVE  /\ I!Rebased(p, old, new) \in I!Path
         /\ I!Rebased(I!Rebased(p, old, new), new, old) = p
         /\ p = old => I!Rebased(p, old, new) = new
         /\ p # old => /\ I!Front(I!Rebased(p, old, new)) = new
                       /\ I!Last(I!Rebased(p, old, new)) = I!Last(p)
                       /\ I!Rebased(p, old, new) # new
         /\ I!SameKind(I!Last(p), I!Last(I!Rebased(p, old, new)))
         /\ new \in I!TrashPath => I!Rebased(p, old, new) \in I!TrashPath
<1>1. CASE p = old
  BY <1>1, RebasedFacts
<1>2. CASE p # old
  <2>1. I!Front(p) = old /\ I!Last(p) \in DocName /\ I!Last(old) \in FolderName
    BY <1>2, PathFacts
  <2>2. I!Last(new) \in FolderName
    BY <2>1 DEF I!SameKind
  <2> DEFINE r == Append(new, I!Last(p))
  <2>3. /\ r \in I!Path /\ I!Front(r) = new /\ I!Last(r) = I!Last(p)
        /\ new \in I!TrashPath => r \in I!TrashPath
    BY <2>1, <2>2, ChildPaths
  <2>4. I!Rebased(p, old, new) = r
    BY <2>1, RebasedFacts
  <2> HIDE DEF r
  <2>5. I!Rebased(r, new, old) = Append(old, I!Last(p))
    BY <2>3, RebasedFacts
  <2>6. Append(old, I!Last(p)) = p
    BY <2>1, PathFacts
  <2>7. r # new
    BY <2>1, <2>2, <2>3 DEF NamesStandApart
  <2>8. I!SameKind(I!Last(p), I!Last(r))
    BY <2>3 DEF I!SameKind
  <2> QED BY <1>2, <2>3, <2>4, <2>5, <2>6, <2>7, <2>8
<1> QED BY <1>1, <1>2

-----------------------------------------------------------------------------
(* The state *)

TreeEntry == [path : I!Path, parent : Uuid \cup {Main, Bin}, order : Nat]
TreeJournal == [kind : I!JournalKind, nodes : SUBSET I!Node]
TreeStages == {"copied", "files", "identity", "unlink", "content", "record", "tombstone"}
TreeCommand ==
  [journal : TreeJournal, stage : TreeStages,
   target : I!Path \cup {<<>>} \cup SUBSET I!Path]

\* The value for no command is no command.
IdleIsNoCommand == Idle \notin TreeCommand

NodesOf(nodes) ==
  {[uuid |-> u, path |-> nodes[u].path, parent |-> nodes[u].parent, order |-> nodes[u].order] :
     u \in DOMAIN nodes}

\* Every node the identity file, a journal or the running command tells of.
TreeNodes ==
  NodesOf(identity) \cup (UNION {j.nodes : j \in journals})
    \cup (IF step = Idle THEN {} ELSE step.journal.nodes)

\* A uuid stands for a folder or for a document, wherever it is told of.
NodesFit(nodes, ids) ==
  /\ \A n \in nodes : n \in I!Node /\ n.uuid \in ids
  /\ \A m, n \in nodes : m.uuid = n.uuid => I!SameKind(I!Last(m.path), I!Last(n.path))
  /\ \E b \in Nat : \A n \in nodes : n.order <= b

\* A file lies in a folder that is there.
DiskIsATree == \A p \in DOMAIN disk : I!Front(p) \in I!Path => I!Front(p) \in DOMAIN disk

TreeTyped ==
  /\ DOMAIN disk \subseteq I!Path /\ \A p \in DOMAIN disk : disk[p] \in issued \cup {Main}
  /\ DOMAIN identity \subseteq issued /\ issued \subseteq Uuid
  /\ \A u \in DOMAIN identity : identity[u] \in TreeEntry
  /\ journals \subseteq TreeJournal /\ step \in {Idle} \cup TreeCommand
  /\ reserved \subseteq I!TrashPath /\ causes \subseteq I!Cause
  /\ project \in {"closed", "opening", "open", "blocked"} /\ faults \in 0 .. MaxFaults

\* A move tells of one node.
MovesOne(j) == j.kind = "relocate" => \E n \in j.nodes : j.nodes = {n}

\* The identity file has the node at its path.
Named(n) == n.uuid \in DOMAIN identity /\ identity[n.uuid].path = n.path

StepTyped ==
  /\ project = "open"
  /\ step.stage \in {"files", "identity", "unlink"} => step.journal \in journals
  /\ step.stage \in {"copied", "content"} => step.journal.kind = "adopt"
  /\ step.stage \in {"record", "tombstone"} => step.journal.kind = "relocate"
  /\ step.journal.kind = "relocate" => \A n \in step.journal.nodes :
       /\ step.target \in I!Path
       /\ I!SameKind(I!Last(step.target), I!Last(n.path))
       /\ step.stage = "files" => I!Movable(step.target, n.path)
       /\ step.stage = "tombstone" => n.path \in I!TrashPath
       /\ step.stage \in {"unlink", "record"} => Named(n)
  /\ step.journal.kind = "remove" => step.target \in SUBSET I!Path
  /\ MovesOne(step.journal)

TreeShaped ==
  /\ TreeTyped /\ NodesFit(TreeNodes, issued) /\ DiskIsATree
  /\ \A j \in journals : MovesOne(j)
  /\ step # Idle => StepTyped

LEMMA EntriesAreNodes ==
  ASSUME NEW nodes, \A u \in DOMAIN nodes : u \in Uuid /\ nodes[u] \in TreeEntry
  PROVE  /\ NodesOf(nodes) \subseteq I!Node
         /\ \A n : n \in NodesOf(nodes) <=>
              \E u \in DOMAIN nodes : /\ n \in I!Node /\ n.uuid = u /\ n.path = nodes[u].path
                                      /\ n.parent = nodes[u].parent
                                      /\ n.order = nodes[u].order
BY DEF NodesOf, TreeEntry, I!Node

LEMMA NodesOfTheTree ==
  ASSUME NEW n
  PROVE  n \in TreeNodes <=> \/ n \in NodesOf(identity)
                             \/ \E j \in journals : n \in j.nodes
                             \/ step # Idle /\ n \in step.journal.nodes
BY DEF TreeNodes

\* Nodes fit when each is known under its uuid already or has a fresh one.
LEMMA NodesStillFit ==
  ASSUME NEW old, NEW ids, NodesFit(old, ids), NEW now, NEW more, ids \subseteq more, NEW c \in Nat,
         \A n \in now :
           /\ n \in I!Node /\ n.uuid \in more
           /\ n.order <= c \/ \E m \in old : m.order = n.order
           /\ \/ \E m \in old : /\ m.uuid = n.uuid
                                /\ I!SameKind(I!Last(m.path), I!Last(n.path))
              \/ n.uuid \notin ids /\ \A k \in now : k.uuid = n.uuid => k = n
  PROVE  NodesFit(now, more)
<1>1. ASSUME NEW k \in now, NEW n \in now, k.uuid = n.uuid
      PROVE  I!SameKind(I!Last(k.path), I!Last(n.path))
  <2>1. CASE k = n
    BY <2>1 DEF I!SameKind
  <2>2. CASE k # n
    BY <1>1, <2>2 DEF NodesFit, I!SameKind
  <2> QED BY <2>1, <2>2
<1>2. PICK b \in Nat : \A n \in old : n.order <= b
  BY DEF NodesFit
<1>3. \E e \in Nat : \A n \in now : n.order <= e
  BY <1>2 DEF I!Node
<1> QED BY <1>1, <1>3 DEF NodesFit

\* The next place among siblings is a new one.
LEMMA NextOrderFacts ==
  ASSUME NEW nodes, NEW b \in Nat, NEW parent,
         \A u \in DOMAIN nodes : nodes[u].order \in Nat /\ nodes[u].order <= b
  PROVE  /\ I!NextOrder(nodes, parent) \in 0 .. b + 1
         /\ \A u \in DOMAIN nodes :
              nodes[u].parent = parent => nodes[u].order < I!NextOrder(nodes, parent)
<1> DEFINE orders == {nodes[u].order : u \in {v \in DOMAIN nodes : nodes[v].parent = parent}}
<1>1. I!NextOrder(nodes, parent) = IF orders = {} THEN 0 ELSE I!Max(orders) + 1
  BY DEF I!NextOrder
<1>2. \A o \in orders : o \in Nat /\ o <= b
  OBVIOUS
<1>3. \A u \in DOMAIN nodes : nodes[u].parent = parent => nodes[u].order \in orders
  OBVIOUS
<1> HIDE DEF orders
<1>4. CASE orders = {}
  BY <1>1, <1>3, <1>4
<1>5. CASE orders # {}
  <2> DEFINE gaps == {g \in Nat : \E o \in orders : g = b - o}
  <2>1. gaps \in SUBSET Nat /\ gaps # {}
    BY <1>2, <1>5
  <2>2. PICK g \in gaps : \A h \in gaps : g <= h
    BY <2>1, LeastPlace
  <2>3. PICK x \in orders : g = b - x
    BY <2>2
  <2>4. \A y \in orders : x >= y
    <3> TAKE y \in orders
    <3>1. b - y \in gaps
      BY <1>2
    <3>2. b - x <= b - y
      BY <2>2, <2>3, <3>1
    <3> QED BY <1>2, <3>2
  <2>5. I!Max(orders) \in orders /\ \A y \in orders : I!Max(orders) >= y
    BY <2>4, Zenon DEF I!Max
  <2> QED BY <1>1, <1>2, <1>3, <1>5, <2>5
<1> QED BY <1>4, <1>5

-----------------------------------------------------------------------------
(* What the operators of the tree do *)

Going(p, old, new) == IF I!IsPrefix(old, p) THEN I!Rebased(p, old, new) ELSE p

LEMMA GoingFacts ==
  ASSUME NamesStandApart, NEW p \in I!Path, NEW old \in I!Path, NEW new \in I!Path,
         I!SameKind(I!Last(old), I!Last(new))
  PROVE  /\ Going(p, old, new) \in I!Path
         /\ p = old => Going(p, old, new) = new
         /\ p # old /\ I!Front(p) = old =>
              /\ I!Front(Going(p, old, new)) = new /\ Going(p, old, new) # new
              /\ I!Last(Going(p, old, new)) = I!Last(p)
         /\ p # old /\ I!Front(p) # old => Going(p, old, new) = p
         /\ I!IsPrefix(old, p) => I!Rebased(Going(p, old, new), new, old) = p
         /\ I!IsPrefix(old, p) => I!IsPrefix(new, Going(p, old, new))
<1>1. I!IsPrefix(old, p) <=> p = old \/ I!Front(p) = old
  BY PrefixFacts
<1>2. CASE I!IsPrefix(old, p)
  <2> DEFINE r == I!Rebased(p, old, new)
  <2>1. Going(p, old, new) = r
    BY <1>2 DEF Going
  <2>2. /\ r \in I!Path /\ I!Rebased(r, new, old) = p
        /\ p = old => r = new
        /\ p # old => I!Front(r) = new /\ I!Last(r) = I!Last(p) /\ r # new
    BY <1>1, <1>2, Rebasing
  <2> HIDE DEF r
  <2>3. I!IsPrefix(new, r)
    BY <2>2, PrefixFacts
  <2> QED BY <1>1, <1>2, <2>1, <2>2, <2>3
<1>3. CASE ~ I!IsPrefix(old, p)
  BY <1>1, <1>3 DEF Going
<1> QED BY <1>2, <1>3

\* What a move leaves on disk.
LEMMA MovedFacts ==
  ASSUME NamesStandApart, DOMAIN disk \subseteq I!Path, DiskIsATree,
         NEW old \in I!Path, NEW new \in I!Path, I!SameKind(I!Last(old), I!Last(new)),
         new \notin DOMAIN disk, I!Front(new) \in I!Path => I!Front(new) \in DOMAIN disk,
         NEW moved, moved = I!MovedDisk(old, new)
  PROVE  /\ \A p \in DOMAIN disk : /\ Going(p, old, new) \in DOMAIN moved
                                   /\ moved[Going(p, old, new)] = disk[p]
         /\ \A r \in DOMAIN moved :
              r \in I!Path /\ \E p \in DOMAIN disk : r = Going(p, old, new) /\ moved[r] = disk[p]
         /\ \A r \in DOMAIN moved : I!Front(r) \in I!Path => I!Front(r) \in DOMAIN moved
<1> DEFINE Back(p) == IF I!IsPrefix(new, p) THEN I!Rebased(p, new, old) ELSE p
           to == {Going(p, old, new) : p \in DOMAIN disk}
<1>1. moved = [p \in to |-> disk[Back(p)]]
  BY DEF I!MovedDisk, Going
<1>2. ASSUME NEW p \in DOMAIN disk PROVE Back(Going(p, old, new)) = p
  <2>1. CASE I!IsPrefix(old, p)
    BY <2>1, GoingFacts
  <2>2. CASE ~ I!IsPrefix(old, p)
    BY <2>2, PrefixFacts DEF Going, DiskIsATree
  <2> QED BY <2>1, <2>2
<1>3. DOMAIN moved = to /\ \A r \in to : moved[r] = disk[Back(r)]
  BY <1>1
<1> HIDE DEF Back
<1>4. \A p \in DOMAIN disk : /\ Going(p, old, new) \in DOMAIN moved
                             /\ moved[Going(p, old, new)] = disk[p]
  BY <1>2, <1>3
<1>5. \A r \in DOMAIN moved :
        r \in I!Path /\ \E p \in DOMAIN disk : r = Going(p, old, new) /\ moved[r] = disk[p]
  BY <1>3, <1>4, GoingFacts
<1> HIDE DEF to
<1>6. ASSUME NEW r \in DOMAIN moved, I!Front(r) \in I!Path PROVE I!Front(r) \in DOMAIN moved
  <2>1. PICK p \in DOMAIN disk : r = Going(p, old, new)
    BY <1>5
  <2>2. ASSUME NEW q \in DOMAIN disk, q # old, I!Front(q) # old PROVE q \in DOMAIN moved
    BY <1>4, <2>2, GoingFacts
  <2>3. CASE p = old
    <3>1. r = new
      BY <2>1, <2>3, GoingFacts
    <3>2. I!Front(new) \in DOMAIN disk
      BY <1>6, <3>1
    <3>3. I!Front(new) # old
      BY <1>6, <3>1, PathFacts DEF NamesStandApart, I!SameKind
    <3>4. I!Front(I!Front(new)) # old
      BY <1>6, <3>1, PathFacts
    <3> QED BY <2>2, <3>1, <3>2, <3>3, <3>4
  <2>4. CASE p # old /\ I!Front(p) = old
    BY <1>4, <2>1, <2>4, GoingFacts DEF DiskIsATree
  <2>5. CASE p # old /\ I!Front(p) # old
    BY <1>6, <2>1, <2>2, <2>5, GoingFacts, PathFacts DEF DiskIsATree
  <2> QED BY <2>3, <2>4, <2>5
<1> QED BY <1>4, <1>5, <1>6

LEMMA OverFacts ==
  ASSUME NEW fn, NEW rest
  PROVE  /\ \A x : x \in DOMAIN I!Over(fn, rest) <=> x \in DOMAIN fn \/ x \in DOMAIN rest
         /\ \A x \in DOMAIN fn : I!Over(fn, rest)[x] = fn[x]
         /\ \A x \in DOMAIN rest : x \notin DOMAIN fn => I!Over(fn, rest)[x] = rest[x]
BY DEF I!Over

LEMMA WithoutFacts ==
  ASSUME NEW fn, NEW gone
  PROVE  /\ \A x : x \in DOMAIN I!Without(fn, gone) <=> x \in DOMAIN fn /\ x \notin gone
         /\ \A x \in DOMAIN I!Without(fn, gone) : I!Without(fn, gone)[x] = fn[x]
BY DEF I!Without, I!Restrict

LEMMA AppendedFacts ==
  ASSUME NEW nodes, NEW now, now = I!Appended(nodes)
  PROVE  /\ \A u : u \in DOMAIN now <=> u \in DOMAIN identity \/ \E n \in nodes : n.uuid = u
         /\ \A u \in DOMAIN now :
              \/ \E n \in nodes : n.uuid = u /\ now[u] = I!Recorded(n)
              \/ /\ u \in DOMAIN identity /\ \A n \in nodes : n.uuid # u
                 /\ now[u] = identity[u]
<1> DEFINE ids == {n.uuid : n \in nodes}
           new == [u \in ids |-> I!Recorded(CHOOSE n \in nodes : n.uuid = u)]
<1>1. now = I!Over(new, identity)
  BY DEF I!Appended
<1>2. DOMAIN new = ids
  OBVIOUS
<1>3. \A u \in ids : \E n \in nodes : n.uuid = u /\ new[u] = I!Recorded(n)
  OBVIOUS
<1>4. \A u : u \in ids <=> \E n \in nodes : n.uuid = u
  OBVIOUS
<1> HIDE DEF new, ids
<1>5. /\ \A x : x \in DOMAIN now <=> x \in ids \/ x \in DOMAIN identity
      /\ \A x \in ids : now[x] = new[x]
      /\ \A x \in DOMAIN identity : x \notin ids => now[x] = identity[x]
  BY <1>1, <1>2, OverFacts
<1> QED BY <1>3, <1>4, <1>5

LEMMA RelocatedFacts ==
  ASSUME NamesStandApart, \A u \in DOMAIN identity : identity[u] \in TreeEntry,
         NEW n \in I!Node, n.uuid \in DOMAIN identity,
         I!SameKind(I!Last(identity[n.uuid].path), I!Last(n.path)),
         NEW now, now = I!Relocated(n)
  PROVE  /\ DOMAIN now = DOMAIN identity
         /\ now[n.uuid] = I!Recorded(n)
         /\ \A u \in DOMAIN identity : u # n.uuid =>
              /\ now[u] \in TreeEntry
              /\ now[u].parent = identity[u].parent /\ now[u].order = identity[u].order
              /\ I!SameKind(I!Last(identity[u].path), I!Last(now[u].path))
              /\ identity[u].path # identity[n.uuid].path =>
                   now[u].path = Going(identity[u].path, identity[n.uuid].path, n.path)
<1> DEFINE old == identity[n.uuid].path
<1>1. old \in I!Path /\ n.path \in I!Path
  BY DEF TreeEntry, I!Node
<1>2. now = [u \in DOMAIN identity |->
               IF u = n.uuid THEN I!Recorded(n)
               ELSE IF I!IsPrefix(old, identity[u].path) /\ identity[u].path # old
                    THEN [identity[u] EXCEPT !.path = I!Rebased(@, old, n.path)]
                    ELSE identity[u]]
  BY DEF I!Relocated
<1> HIDE DEF old
<1>3. DOMAIN now = DOMAIN identity /\ now[n.uuid] = I!Recorded(n)
  BY <1>2
<1>4. ASSUME NEW u \in DOMAIN identity, u # n.uuid
      PROVE  /\ now[u] \in TreeEntry
             /\ now[u].parent = identity[u].parent /\ now[u].order = identity[u].order
             /\ I!SameKind(I!Last(identity[u].path), I!Last(now[u].path))
             /\ identity[u].path # old => now[u].path = Going(identity[u].path, old, n.path)
  <2>1. identity[u] \in TreeEntry /\ identity[u].path \in I!Path
    BY DEF TreeEntry
  <2>2. CASE I!IsPrefix(old, identity[u].path) /\ identity[u].path # old
    <3>1. now[u] = [identity[u] EXCEPT !.path = I!Rebased(identity[u].path, old, n.path)]
      BY <1>2, <1>4, <2>2
    <3>2. /\ I!Rebased(identity[u].path, old, n.path) \in I!Path
          /\ I!SameKind(I!Last(identity[u].path), I!Last(I!Rebased(identity[u].path, old, n.path)))
      BY <1>1, <2>1, <2>2, PrefixFacts, Rebasing DEF old
    <3>3. now[u] \in TreeEntry /\ now[u].parent = identity[u].parent
          /\ now[u].order = identity[u].order
          /\ now[u].path = I!Rebased(identity[u].path, old, n.path)
      BY <2>1, <3>1, <3>2 DEF TreeEntry
    <3> QED BY <2>2, <3>2, <3>3 DEF Going
  <2>3. CASE ~ (I!IsPrefix(old, identity[u].path) /\ identity[u].path # old)
    BY <1>2, <1>4, <2>1, <2>3 DEF Going, I!SameKind
  <2> QED BY <2>2, <2>3
<1> QED BY <1>3, <1>4 DEF old

LEMMA RemovedFacts ==
  ASSUME NEW nodes, NEW now, now = I!RemoveNodes(nodes)
  PROVE  /\ \A u : u \in DOMAIN now <=>
              /\ u \in DOMAIN identity
              /\ \A n \in nodes : n.uuid # u /\ n.uuid # identity[u].parent
         /\ \A u \in DOMAIN now : now[u] = identity[u]
<1> DEFINE S == {n.uuid : n \in nodes}
<1>1. now = I!Without(identity, I!Descendants(S))
  BY DEF I!RemoveNodes
<1>2. /\ \A u : u \in DOMAIN now <=> u \in DOMAIN identity /\ u \notin I!Descendants(S)
      /\ \A u \in DOMAIN now : now[u] = identity[u]
  BY <1>1, WithoutFacts
<1>3. \A u \in DOMAIN identity : u \in I!Descendants(S) <=> u \in S \/ identity[u].parent \in S
  BY DEF I!Descendants
<1>4. \A u : u \in S <=> \E n \in nodes : n.uuid = u
  OBVIOUS
<1> HIDE DEF S
<1> QED BY <1>2, <1>3, <1>4

LEMMA BelowFacts ==
  ASSUME NamesStandApart, DOMAIN disk \subseteq I!Path, NEW p \in I!Path
  PROVE  /\ \A q : q \in I!Below(p) <=> q \in DOMAIN disk /\ (q = p \/ I!Front(q) = p)
         /\ p \in DOMAIN disk => (I!Leaf(p) <=> \A q \in DOMAIN disk : I!Front(q) # p)
<1>1. \A q : q \in I!Below(p) <=> q \in DOMAIN disk /\ (q = p \/ I!Front(q) = p)
  BY PrefixFacts DEF I!Below
<1>2. I!Front(p) # p
  <2>1. ASSUME I!Front(p) = p PROVE FALSE
    BY <2>1, PathFacts
  <2> QED BY <2>1
<1>3. I!Leaf(p) <=> \A q : q \in I!Below(p) <=> q = p
  BY DEF I!Leaf
<1> QED BY <1>1, <1>2, <1>3

LEMMA MadeFacts ==
  ASSUME NEW nodes, NEW now, now = I!Made(nodes)
  PROVE  /\ \A p : p \in DOMAIN now <=> \/ p \in DOMAIN disk
                                        \/ \E n \in nodes : n.path = p
                                        \/ p \in I!Path /\ \E n \in nodes : I!Front(n.path) = p
         /\ \A p \in DOMAIN disk : now[p] = disk[p]
         /\ \A p \in DOMAIN now : p \notin DOMAIN disk =>
              \/ \E n \in nodes : n.path = p /\ now[p] = n.uuid
              \/ (\A n \in nodes : n.path # p) /\ now[p] = Main
<1> DEFINE fs == {n.path : n \in nodes}
           ws == {I!Front(n.path) : n \in nodes} \cap I!Path
           files == [p \in fs |-> (CHOOSE n \in nodes : n.path = p).uuid]
           ways == [p \in ws |-> Main]
           both == I!Over(files, ways)
<1>1. now = I!Over(disk, both)
  BY DEF I!Made
<1>2. /\ DOMAIN files = fs /\ DOMAIN ways = ws
      /\ \A p \in fs : \E n \in nodes : n.path = p /\ files[p] = n.uuid
      /\ \A p \in ws : ways[p] = Main
  OBVIOUS
<1>3. /\ \A p : p \in fs <=> \E n \in nodes : n.path = p
      /\ \A p : p \in ws <=> p \in I!Path /\ \E n \in nodes : I!Front(n.path) = p
  OBVIOUS
<1> HIDE DEF files, ways
<1>4. /\ \A p : p \in DOMAIN both <=> p \in DOMAIN files \/ p \in DOMAIN ways
      /\ \A p \in DOMAIN files : both[p] = files[p]
      /\ \A p \in DOMAIN ways : p \notin DOMAIN files => both[p] = ways[p]
  BY OverFacts
<1> HIDE DEF both, fs, ws
<1>5. /\ \A p : p \in DOMAIN now <=> p \in DOMAIN disk \/ p \in DOMAIN both
      /\ \A p \in DOMAIN disk : now[p] = disk[p]
      /\ \A p \in DOMAIN both : p \notin DOMAIN disk => now[p] = both[p]
  BY <1>1, OverFacts
<1> QED BY <1>2, <1>3, <1>4, <1>5

LEMMA EmptiedFacts ==
  ASSUME NEW nodes, NEW now, now = I!Emptied(nodes)
  PROVE  /\ \A p : p \in DOMAIN now <=>
              p \in DOMAIN disk /\ ~ (I!Leaf(p) /\ \E n \in nodes : n.path = p)
         /\ \A p \in DOMAIN now : now[p] = disk[p]
<1> DEFINE gone == {p \in {n.path : n \in nodes} : I!Leaf(p)}
<1>1. now = I!Without(disk, gone)
  BY DEF I!Emptied
<1>2. \A p : p \in gone <=> I!Leaf(p) /\ \E n \in nodes : n.path = p
  OBVIOUS
<1> HIDE DEF gone
<1>3. /\ \A p : p \in DOMAIN now <=> p \in DOMAIN disk /\ p \notin gone
      /\ \A p \in DOMAIN now : now[p] = disk[p]
  BY <1>1, WithoutFacts
<1> QED BY <1>2, <1>3

\* The entries of the identity file stand among the nodes of the tree.
LEMMA EntryNode ==
  ASSUME TreeTyped, NEW u \in DOMAIN identity
  PROVE  \E m \in TreeNodes : /\ m \in I!Node /\ m.uuid = u /\ m.path = identity[u].path
                              /\ m.parent = identity[u].parent /\ m.order = identity[u].order
<1>1. \A v \in DOMAIN identity : v \in Uuid /\ identity[v] \in TreeEntry
  BY DEF TreeTyped
<1> DEFINE m == [uuid |-> u, path |-> identity[u].path, parent |-> identity[u].parent,
                 order |-> identity[u].order]
<1>2. m \in NodesOf(identity)
  BY DEF NodesOf
<1>3. m \in TreeNodes
  BY <1>2, NodesOfTheTree
<1>4. m \in I!Node
  BY <1>1, <1>2, EntriesAreNodes
<1>5. m.uuid = u /\ m.path = identity[u].path /\ m.parent = identity[u].parent
      /\ m.order = identity[u].order
  OBVIOUS
<1> HIDE DEF m
<1> QED BY <1>3, <1>4, <1>5

\* Nodes that are known under their uuid or have a fresh one.
Tellable(nodes, ids, c) ==
  \A n \in nodes :
    /\ n \in I!Node /\ n.uuid \in ids /\ n.order <= c
    /\ \/ \E m \in TreeNodes : m.uuid = n.uuid /\ I!SameKind(I!Last(m.path), I!Last(n.path))
       \/ n.uuid \notin issued /\ \A k \in nodes : k.uuid = n.uuid => k = n

\* Entries that were told of before.
Told(nodes) ==
  \A u \in DOMAIN nodes :
    /\ nodes[u] \in TreeEntry /\ u \in issued
    /\ \E m \in TreeNodes : /\ m.uuid = u /\ m.order = nodes[u].order
                            /\ I!SameKind(I!Last(m.path), I!Last(nodes[u].path))

\* What a transaction writes into the identity file, it told of before.
LEMMA NewEntries ==
  ASSUME NamesStandApart, TreeShaped, NEW j \in TreeJournal, j.nodes \subseteq TreeNodes,
         j.kind = "relocate" => /\ \A n \in j.nodes : n.uuid \in DOMAIN identity
                                /\ j.nodes # {},
         NEW now, now = I!NewIdentity(j)
  PROVE  Told(now)
<1> SUFFICES ASSUME NEW u \in DOMAIN now
             PROVE  /\ now[u] \in TreeEntry /\ u \in issued
                    /\ \E m \in TreeNodes :
                         /\ m.uuid = u /\ m.order = now[u].order
                         /\ I!SameKind(I!Last(m.path), I!Last(now[u].path))
  BY DEF Told
<1> DEFINE Good(e) == /\ e \in TreeEntry /\ u \in issued
                      /\ \E m \in TreeNodes : /\ m.uuid = u /\ m.order = e.order
                                              /\ I!SameKind(I!Last(m.path), I!Last(e.path))
<1>1. ASSUME NEW n \in TreeNodes, n.uuid = u PROVE Good(I!Recorded(n))
  BY <1>1 DEF TreeShaped, NodesFit, I!Recorded, I!Node, TreeEntry, I!SameKind
<1>2. ASSUME u \in DOMAIN identity, NEW e \in TreeEntry, e.order = identity[u].order,
             I!SameKind(I!Last(identity[u].path), I!Last(e.path))
      PROVE  Good(e)
  BY <1>2, EntryNode DEF TreeShaped, TreeTyped
<1>3. u \in DOMAIN identity => identity[u] \in TreeEntry
  BY DEF TreeShaped, TreeTyped
<1>4. u \in DOMAIN identity => Good(identity[u])
  BY <1>2, <1>3 DEF I!SameKind
<1> HIDE DEF Good
<1>5. CASE j.kind \in {"create", "adopt"}
  BY <1>1, <1>4, <1>5, AppendedFacts DEF I!NewIdentity, Good
<1>6. CASE j.kind = "relocate"
  <2>1. PICK n \in j.nodes : now = I!Relocated(n)
    BY <1>6 DEF I!NewIdentity
  <2>2. n.uuid \in DOMAIN identity /\ n \in TreeNodes /\ n \in I!Node
    BY <1>6 DEF TreeShaped, NodesFit
  <2>3. PICK m \in TreeNodes : m.uuid = n.uuid /\ m.path = identity[n.uuid].path
    BY <2>2, EntryNode DEF TreeShaped
  <2>4. I!SameKind(I!Last(identity[n.uuid].path), I!Last(n.path))
    BY <2>2, <2>3 DEF TreeShaped, NodesFit
  <2>5. \A v \in DOMAIN identity : identity[v] \in TreeEntry
    BY DEF TreeShaped, TreeTyped
  <2>6. /\ DOMAIN now = DOMAIN identity /\ now[n.uuid] = I!Recorded(n)
        /\ \A v \in DOMAIN identity : v # n.uuid =>
             /\ now[v] \in TreeEntry /\ now[v].order = identity[v].order
             /\ I!SameKind(I!Last(identity[v].path), I!Last(now[v].path))
    BY <2>1, <2>2, <2>4, <2>5, RelocatedFacts
  <2>7. Good(now[u])
    BY <1>1, <1>2, <2>2, <2>6
  <2> QED BY <2>7 DEF Good
<1>7. CASE j.kind \notin {"create", "adopt", "relocate"}
  BY <1>4, <1>7, RemovedFacts DEF I!NewIdentity, Good
<1> QED BY <1>5, <1>6, <1>7

\* The nodes fit after a step that tells of known or fresh nodes only.
LEMMA NodesFitOn ==
  ASSUME TreeShaped, issued \subseteq issued', issued' \subseteq Uuid,
         Told(identity'),
         NEW new, NEW c \in Nat,
         Tellable(new, issued', c),
         \A j \in journals' : \A n \in j.nodes : n \in TreeNodes \/ n \in new,
         step' # Idle => \A n \in step'.journal.nodes : n \in TreeNodes \/ n \in new
  PROVE  NodesFit(TreeNodes', issued')
<1>1. NodesFit(TreeNodes, issued)
  BY DEF TreeShaped
<1>2. ASSUME NEW n \in TreeNodes'
      PROVE  \/ n \in TreeNodes \/ n \in new
             \/ \E u \in DOMAIN identity' :
                  n \in I!Node /\ n.uuid = u /\ n.path = identity'[u].path
                  /\ n.order = identity'[u].order
  <2>1. \/ n \in NodesOf(identity') \/ (\E j \in journals' : n \in j.nodes)
        \/ step' # Idle /\ n \in step'.journal.nodes
    BY DEF TreeNodes
  <2>2. n \in NodesOf(identity') =>
          \E u \in DOMAIN identity' : n \in I!Node /\ n.uuid = u /\ n.path = identity'[u].path
                                      /\ n.order = identity'[u].order
    BY EntriesAreNodes DEF TreeShaped, TreeTyped, Told
  <2> QED BY <2>1, <2>2
<1>3. ASSUME NEW n \in TreeNodes'
      PROVE  /\ n \in I!Node /\ n.uuid \in issued'
             /\ n.order <= c \/ \E m \in TreeNodes : m.order = n.order
             /\ \/ \E m \in TreeNodes : /\ m.uuid = n.uuid
                                        /\ I!SameKind(I!Last(m.path), I!Last(n.path))
                \/ n.uuid \notin issued /\ n \in new
  <2>1. CASE n \in TreeNodes
    BY <1>1, <2>1 DEF NodesFit
  <2>2. CASE n \in new
    BY <2>2 DEF Tellable
  <2>3. CASE \E u \in DOMAIN identity' : n \in I!Node /\ n.uuid = u /\ n.path = identity'[u].path
                                         /\ n.order = identity'[u].order
    BY <2>3 DEF Told
  <2> QED BY <1>2, <2>1, <2>2, <2>3
<1>4. ASSUME NEW n \in TreeNodes', n.uuid \notin issued, n \in new, NEW k \in TreeNodes',
             k.uuid = n.uuid
      PROVE  k = n
  BY <1>1, <1>3, <1>4 DEF NodesFit, Tellable
<1> QED BY <1>1, <1>3, <1>4, NodesStillFit

-----------------------------------------------------------------------------
(* Every command and every step keeps the shape of the tree *)

LEMMA IdentityIsTold ==
  ASSUME TreeShaped
  PROVE  Told(identity)
<1>1. ASSUME NEW u \in DOMAIN identity
      PROVE  /\ identity[u] \in TreeEntry /\ u \in issued
             /\ \E m \in TreeNodes : /\ m.uuid = u /\ m.order = identity[u].order
                                     /\ I!SameKind(I!Last(m.path), I!Last(identity[u].path))
  BY EntryNode DEF TreeShaped, I!SameKind, TreeTyped
<1> QED BY <1>1 DEF Told

LEMMA NodesStay ==
  ASSUME TreeShaped, issued \subseteq issued', issued' \subseteq Uuid, Told(identity'),
         \A j \in journals' : j.nodes \subseteq TreeNodes,
         step' # Idle => step'.journal.nodes \subseteq TreeNodes
  PROVE  NodesFit(TreeNodes', issued')
<1> DEFINE none == {}
<1>1. Tellable(none, issued', 0)
  BY DEF Tellable
<1> HIDE DEF none
<1>2. \A j \in journals' : \A n \in j.nodes : n \in TreeNodes \/ n \in none
  OBVIOUS
<1>3. step' # Idle => \A n \in step'.journal.nodes : n \in TreeNodes \/ n \in none
  OBVIOUS
<1>4. 0 \in Nat
  OBVIOUS
<1> QED BY <1>1, <1>2, <1>3, <1>4, NodesFitOn

LEMMA DiskStays ==
  ASSUME DiskIsATree, disk' = disk
  PROVE  DiskIsATree'
BY DEF DiskIsATree

\* What every start of a transaction comes to.
LEMMA Beginning ==
  ASSUME TreeShaped, IdleIsNoCommand, issued \subseteq issued', issued' \subseteq Uuid,
         identity' = identity,
         NEW kind \in I!JournalKind, NEW nodes, NEW first \in TreeStages,
         NEW target \in I!Path \cup {<<>>} \cup SUBSET I!Path,
         I!Begin(kind, nodes, first, target),
         kind = "relocate" => \E n \in nodes : nodes = {n},
         NEW c \in Nat,
         Tellable(nodes, issued', c)
  PROVE  /\ journals' \subseteq TreeJournal /\ step' \in TreeCommand /\ step' # Idle
         /\ step'.journal.kind = kind /\ step'.journal.nodes = nodes
         /\ step'.stage = first /\ step'.target = target
         /\ step'.journal \in journals' /\ causes' \subseteq I!Cause
         /\ MovesOne(step'.journal) /\ \A j \in journals' : MovesOne(j)
         /\ NodesFit(TreeNodes', issued')
         /\ journals' = journals \cup {step'.journal}
         /\ causes' = causes \cup I!OverJournal
<1> DEFINE j == [kind |-> kind, nodes |-> nodes]
<1>1. /\ journals' = journals \cup {j}
      /\ step' = [journal |-> j, stage |-> first, target |-> target]
      /\ causes' = causes \cup I!OverJournal
  BY DEF I!Begin
<1>9. nodes \in SUBSET I!Node
  BY DEF Tellable
<1>2. j \in TreeJournal /\ j.kind = kind /\ j.nodes = nodes
  BY <1>9 DEF TreeJournal
<1> HIDE DEF j
<1>3. step' \in TreeCommand /\ step'.journal = j /\ step'.stage = first /\ step'.target = target
  BY <1>1, <1>2 DEF TreeCommand
<1>4. step' # Idle
  BY <1>3 DEF IdleIsNoCommand
<1>5. causes' \subseteq I!Cause
  BY <1>1 DEF I!OverJournal, I!Cause, TreeShaped, TreeTyped
<1>6. MovesOne(j) /\ \A k \in journals' : MovesOne(k)
  BY <1>1, <1>2 DEF MovesOne, TreeShaped
<1>7. journals' \subseteq TreeJournal
  BY <1>1, <1>2 DEF TreeShaped, TreeTyped
<1>8. NodesFit(TreeNodes', issued')
  BY <1>1, <1>2, <1>3, IdentityIsTold, NodesOfTheTree, NodesFitOn
<1> QED BY <1>1, <1>2, <1>3, <1>4, <1>5, <1>6, <1>7, <1>8

\* The node that holds what is right below a path.
LEMMA HolderFacts ==
  ASSUME TreeTyped, NEW p, I!Known(p)
  PROVE  /\ I!NodeForPath(p) \in Uuid \cup {Main, Bin}
         /\ p = <<>> => I!NodeForPath(p) = Main
         /\ p = <<Trash>> /\ p # <<>> => I!NodeForPath(p) = Bin
         /\ p \notin {<<>>, <<Trash>>} =>
              I!NodeForPath(p) \in DOMAIN identity /\ identity[I!NodeForPath(p)].path = p
<1>1. CASE p = <<>>
  BY <1>1 DEF I!NodeForPath
<1>2. CASE p # <<>> /\ p = <<Trash>>
  BY <1>2 DEF I!NodeForPath
<1>3. CASE p \notin {<<>>, <<Trash>>}
  BY <1>3 DEF I!NodeForPath, I!Known, I!NodesAt, TreeTyped
<1> QED BY <1>1, <1>2, <1>3

LEMMA NodeAtPath ==
  ASSUME NamesStandApart, TreeTyped, NEW p \in I!Path, I!NodesAt(p) # {}
  PROVE  /\ I!NodeForPath(p) \in DOMAIN identity
         /\ identity[I!NodeForPath(p)].path = p
<1>1. p \notin {<<>>, <<Trash>>}
  BY RootsAreNoPaths
<1>2. I!Known(p)
  BY DEF I!Known
<1> QED BY <1>1, <1>2, HolderFacts

LEMMA OrdersHaveABound ==
  ASSUME TreeShaped
  PROVE  \E b \in Nat : \A u \in DOMAIN identity :
           identity[u].order \in Nat /\ identity[u].order <= b
<1>1. PICK b \in Nat : \A n \in TreeNodes : n.order <= b
  BY DEF TreeShaped, NodesFit
<1>2. ASSUME NEW u \in DOMAIN identity
      PROVE  identity[u].order \in Nat /\ identity[u].order <= b
  BY <1>1, EntryNode DEF TreeShaped, TreeTyped, TreeEntry
<1> QED BY <1>2

\* A new node at the next place of a known parent.
LEMMA NewNodeFacts ==
  ASSUME TreeShaped, NEW u \in Uuid, NEW parent, NEW n, I!Known(parent),
         Append(parent, n) \in I!Path, NEW order \in Nat,
         NEW node, node = I!NewNode(u, parent, n, order)
  PROVE  /\ node \in I!Node /\ node.uuid = u /\ node.path = Append(parent, n)
         /\ node.parent = I!NodeForPath(parent) /\ node.order = order
<1>1. I!NodeForPath(parent) \in Uuid \cup {Main, Bin}
  BY HolderFacts DEF TreeShaped
<1> QED BY <1>1 DEF I!NewNode, I!Node

LEMMA CreateItemKeepsShape ==
  ASSUME NamesStandApart, IdleIsNoCommand, TreeShaped, NEW parent, NEW n, I!CreateItem(parent, n)
  PROVE  TreeShaped'
<1>1. /\ project = "open" /\ step = Idle /\ Append(parent, n) \in I!Path /\ I!Known(parent)
      /\ UNCHANGED <<disk, identity, reserved, project, faults>>
  BY DEF I!CreateItem, I!CanStart, I!Path
<1> DEFINE order == I!NextOrder(identity, I!NodeForPath(parent))
<1>2. PICK u \in Uuid \ issued :
        /\ issued' = issued \cup {u}
        /\ I!Begin("create", {I!NewNode(u, parent, n, order)}, "files", <<>>)
  BY DEF I!CreateItem
<1>3. PICK b \in Nat : \A v \in DOMAIN identity : identity[v].order \in Nat /\ identity[v].order <= b
  BY OrdersHaveABound
<1>4. order \in 0 .. b + 1
  BY <1>3, NextOrderFacts
<1> HIDE DEF order
<1> DEFINE node == I!NewNode(u, parent, n, order)
<1>5. node \in I!Node /\ node.uuid = u /\ node.order = order
  BY <1>1, <1>4, NewNodeFacts
<1>6. I!Begin("create", {node}, "files", <<>>)
  BY <1>2
<1> HIDE DEF node
<1> DEFINE nodes == {node}
           kind == "create"
           first == "files"
           target == <<>>
<1>7. /\ Tellable(nodes, issued', b + 1)
      /\ kind # "relocate" /\ kind \in I!JournalKind /\ first \in TreeStages
      /\ target \in I!Path \cup {<<>>} \cup SUBSET I!Path
      /\ I!Begin(kind, nodes, first, target)
  BY <1>2, <1>4, <1>5, <1>6 DEF I!JournalKind, TreeStages, Tellable
<1>8. issued \subseteq issued' /\ issued' \subseteq Uuid /\ identity' = identity /\ b + 1 \in Nat
  BY <1>1, <1>2, <1>3 DEF TreeShaped, TreeTyped
<1>9. kind = "create" /\ first = "files"
  OBVIOUS
<1> HIDE DEF nodes, kind, first, target
<1>10. /\ journals' \subseteq TreeJournal /\ step' \in TreeCommand /\ step' # Idle
       /\ step'.journal.kind = kind /\ step'.stage = first
       /\ step'.journal \in journals' /\ causes' \subseteq I!Cause
       /\ MovesOne(step'.journal) /\ \A j \in journals' : MovesOne(j)
       /\ NodesFit(TreeNodes', issued')
  BY <1>7, <1>8, Beginning
<1>11. DiskIsATree'
  BY <1>1, DiskStays DEF TreeShaped
<1>12. StepTyped'
  BY <1>1, <1>9, <1>10 DEF StepTyped
<1>13. TreeTyped'
  BY <1>1, <1>8, <1>10 DEF TreeTyped, TreeShaped
<1> QED BY <1>10, <1>11, <1>12, <1>13 DEF TreeShaped

LEMMA CreateVolumeKeepsShape ==
  ASSUME NamesStandApart, IdleIsNoCommand, TreeShaped, NEW f \in FolderName, NEW d \in DocName,
         I!CreateVolume(f, d)
  PROVE  TreeShaped'
<1>1. /\ project = "open" /\ step = Idle
      /\ UNCHANGED <<disk, identity, reserved, project, faults>>
  BY DEF I!CreateVolume, I!CanStart
<1> DEFINE order == I!NextOrder(identity, Main)
<1>2. PICK u \in Uuid \ issued, v \in Uuid \ issued :
        /\ u # v /\ issued' = issued \cup {u, v}
        /\ I!Begin("create", {I!NewNode(u, <<>>, f, order),
                              [uuid |-> v, path |-> <<f, d>>, parent |-> u, order |-> 0]},
                   "files", <<>>)
  BY DEF I!CreateVolume
<1>3. PICK b \in Nat : \A w \in DOMAIN identity : identity[w].order \in Nat /\ identity[w].order <= b
  BY OrdersHaveABound
<1>4. order \in 0 .. b + 1
  BY <1>3, NextOrderFacts
<1> HIDE DEF order
<1> DEFINE node == I!NewNode(u, <<>>, f, order)
           child == [uuid |-> v, path |-> <<f, d>>, parent |-> u, order |-> 0]
<1>5. node \in I!Node /\ node.uuid = u /\ node.order = order
  <2> DEFINE root == <<>>
  <2>1. Append(root, f) \in I!Path
    BY TuplesAppend, PathShapes DEF I!Name
  <2>2. I!Known(root)
    BY DEF I!Known
  <2>3. order \in Nat /\ u \in Uuid
    BY <1>3, <1>4
  <2>4. node = I!NewNode(u, root, f, order)
    OBVIOUS
  <2> HIDE DEF node, root
  <2> QED BY <2>1, <2>2, <2>3, <2>4, NewNodeFacts
<1>6. child \in I!Node /\ child.uuid = v /\ child.order = 0
  BY PathShapes DEF I!Node
<1>7. I!Begin("create", {node, child}, "files", <<>>)
  BY <1>2
<1> HIDE DEF node, child
<1> DEFINE nodes == {node, child}
           kind == "create"
           first == "files"
           target == <<>>
<1>8. Tellable(nodes, issued', b + 1)
  BY <1>2, <1>3, <1>4, <1>5, <1>6 DEF Tellable
<1>9. /\ kind # "relocate" /\ kind \in I!JournalKind /\ first \in TreeStages
      /\ target \in I!Path \cup {<<>>} \cup SUBSET I!Path
      /\ I!Begin(kind, nodes, first, target)
  BY <1>7 DEF I!JournalKind, TreeStages
<1>10. issued \subseteq issued' /\ issued' \subseteq Uuid /\ identity' = identity /\ b + 1 \in Nat
  BY <1>1, <1>2, <1>3 DEF TreeShaped, TreeTyped
<1>11. kind = "create" /\ first = "files"
  OBVIOUS
<1> HIDE DEF nodes, kind, first, target
<1>12. /\ journals' \subseteq TreeJournal /\ step' \in TreeCommand /\ step' # Idle
       /\ step'.journal.kind = kind /\ step'.stage = first
       /\ step'.journal \in journals' /\ causes' \subseteq I!Cause
       /\ MovesOne(step'.journal) /\ \A j \in journals' : MovesOne(j)
       /\ NodesFit(TreeNodes', issued')
  BY <1>8, <1>9, <1>10, Beginning
<1>13. DiskIsATree'
  BY <1>1, DiskStays DEF TreeShaped
<1>14. StepTyped'
  BY <1>1, <1>11, <1>12 DEF StepTyped
<1>15. TreeTyped'
  BY <1>1, <1>10, <1>12 DEF TreeTyped, TreeShaped
<1> QED BY <1>12, <1>13, <1>14, <1>15 DEF TreeShaped

\* The node of a move: the uuid of what lies there, at its new path.
LEMMA RelocationFacts ==
  ASSUME NamesStandApart, TreeShaped, NEW old \in I!Path, NEW new \in I!Path,
         I!SameKind(I!Last(old), I!Last(new)), I!NodesAt(old) # {}, I!CanRelocate(new),
         NEW n, n = I!Relocation(old, new)
  PROVE  /\ n \in I!Node /\ n.path = new
         /\ n.uuid \in DOMAIN identity /\ identity[n.uuid].path = old
         /\ n.parent = I!NodeForPath(I!Front(new))
         /\ n.parent = identity[n.uuid].parent => n.order = identity[n.uuid].order
         /\ n.parent # identity[n.uuid].parent => n.order = I!NextOrder(identity, n.parent)
         /\ \E c \in Nat : Tellable({n}, issued, c)
<1> DEFINE u == I!NodeForPath(old)
           parent == I!NodeForPath(I!Front(new))
           order == IF parent = identity[u].parent THEN identity[u].order
                    ELSE I!NextOrder(identity, parent)
<1>1. n = [uuid |-> u, path |-> new, parent |-> parent, order |-> order]
  BY DEF I!Relocation
<1>2. u \in DOMAIN identity /\ identity[u].path = old
  BY NodeAtPath DEF TreeShaped
<1>3. parent \in Uuid \cup {Main, Bin}
  BY HolderFacts DEF I!CanRelocate, TreeShaped
<1>4. PICK b \in Nat : \A w \in DOMAIN identity : identity[w].order \in Nat /\ identity[w].order <= b
  BY OrdersHaveABound
<1> HIDE DEF u, parent
<1>5. order \in 0 .. b + 1
  BY <1>2, <1>4, NextOrderFacts
<1>6. /\ parent = identity[u].parent => order = identity[u].order
      /\ parent # identity[u].parent => order = I!NextOrder(identity, parent)
  OBVIOUS
<1> HIDE DEF order
<1>7. /\ n.uuid = u /\ n.path = new /\ n.parent = parent /\ n.order = order
      /\ u \in Uuid /\ n \in I!Node
  BY <1>1, <1>2, <1>3, <1>5 DEF I!Node, TreeShaped, TreeTyped
<1>8. Tellable({n}, issued, b + 1)
  BY <1>2, <1>4, <1>5, <1>7, EntryNode DEF TreeShaped, TreeTyped, Tellable
<1>9. b + 1 \in Nat
  BY <1>4
<1> QED BY <1>2, <1>6, <1>7, <1>8, <1>9 DEF parent

\* A move begins, as a command or as the way back of one.
LEMMA MoveBegins ==
  ASSUME NamesStandApart, IdleIsNoCommand, TreeShaped, NEW old \in I!Path, NEW new \in I!Path,
         I!Movable(old, new), I!NodesAt(old) # {}, I!CanRelocate(new),
         I!Begin("relocate", {I!Relocation(old, new)}, "files", old),
         UNCHANGED <<disk, identity, issued, reserved, project>>, project = "open",
         faults' \in 0 .. MaxFaults
  PROVE  TreeShaped'
<1> DEFINE n == I!Relocation(old, new)
<1>1. I!SameKind(I!Last(old), I!Last(new))
  BY DEF I!Movable
<1>2. n \in I!Node /\ n.path = new /\ \E c \in Nat : Tellable({n}, issued, c)
  BY <1>1, RelocationFacts
<1>3. I!Begin("relocate", {n}, "files", old)
  OBVIOUS
<1> HIDE DEF n
<1>4. PICK c \in Nat : Tellable({n}, issued, c)
  BY <1>2
<1> DEFINE nodes == {n}
           kind == "relocate"
           first == "files"
<1>5. /\ Tellable(nodes, issued', c) /\ kind \in I!JournalKind /\ first \in TreeStages
      /\ \E m \in nodes : nodes = {m}
      /\ old \in I!Path \cup {<<>>} \cup SUBSET I!Path
      /\ I!Begin(kind, nodes, first, old)
  BY <1>3, <1>4 DEF I!JournalKind, TreeStages
<1>6. kind = "relocate" /\ first = "files" /\ \A m \in nodes : m = n
  OBVIOUS
<1>7. issued \subseteq issued' /\ issued' \subseteq Uuid /\ identity' = identity
  BY DEF TreeShaped, TreeTyped
<1> HIDE DEF nodes, kind, first
<1>8. /\ journals' \subseteq TreeJournal /\ step' \in TreeCommand /\ step' # Idle
      /\ step'.journal.kind = kind /\ step'.journal.nodes = nodes
      /\ step'.stage = first /\ step'.target = old
      /\ step'.journal \in journals' /\ causes' \subseteq I!Cause
      /\ MovesOne(step'.journal) /\ \A j \in journals' : MovesOne(j)
      /\ NodesFit(TreeNodes', issued')
  BY <1>5, <1>7, Beginning
<1>10. StepTyped'
  BY <1>1, <1>2, <1>6, <1>8 DEF I!Movable, I!OnDisk, I!Below, StepTyped
<1>11. DiskIsATree'
  BY DiskStays DEF TreeShaped
<1>12. TreeTyped'
  BY <1>7, <1>8 DEF TreeTyped, TreeShaped
<1> QED BY <1>8, <1>10, <1>11, <1>12 DEF TreeShaped

LEMMA RelocatePathKeepsShape ==
  ASSUME NamesStandApart, IdleIsNoCommand, TreeShaped, NEW old \in I!Path, NEW new \in I!Path,
         I!RelocatePath(old, new)
  PROVE  TreeShaped'
<1>1. /\ project = "open" /\ step = Idle /\ I!Movable(old, new)
      /\ UNCHANGED <<identity, issued, project, faults>>
  BY DEF I!RelocatePath, I!CanStart
<1>2. CASE I!NodesAt(old) = {}
  <2>1. /\ disk' = I!MovedDisk(old, new) /\ reserved' \subseteq reserved
        /\ causes' = causes \cup I!OverJournal /\ UNCHANGED <<journals, step>>
    BY <1>2 DEF I!RelocatePath
  <2>2. /\ I!SameKind(I!Last(old), I!Last(new)) /\ new \notin DOMAIN disk
        /\ I!Front(new) \in I!Path => I!Front(new) \in DOMAIN disk
    BY <1>1, RootsAreNoPaths DEF I!Movable, I!OnDisk
  <2>3. /\ \A r \in DOMAIN disk' :
             r \in I!Path /\ \E p \in DOMAIN disk : r = Going(p, old, new) /\ disk'[r] = disk[p]
        /\ \A r \in DOMAIN disk' : I!Front(r) \in I!Path => I!Front(r) \in DOMAIN disk'
    BY <2>1, <2>2, MovedFacts DEF TreeShaped, TreeTyped
  <2>4. DiskIsATree'
    BY <2>3 DEF DiskIsATree
  <2>5. NodesFit(TreeNodes', issued')
    BY <1>1, <2>1 DEF TreeNodes, TreeShaped
  <2>6. TreeTyped'
    BY <1>1, <2>1, <2>3 DEF TreeShaped, TreeTyped, I!OverJournal, I!Cause
  <2>7. step' = Idle /\ journals' = journals
    BY <1>1, <2>1
  <2> QED BY <2>4, <2>5, <2>6, <2>7 DEF TreeShaped
<1>3. CASE I!NodesAt(old) # {}
  BY <1>1, <1>3, MoveBegins DEF I!RelocatePath, TreeShaped, TreeTyped
<1> QED BY <1>2, <1>3

LEMMA PurgeKeepsShape ==
  ASSUME NamesStandApart, IdleIsNoCommand, TreeShaped, NEW S, I!Purge(S)
  PROVE  TreeShaped'
<1> DEFINE nodes == {I!NodeOf(u) : u \in UNION {I!NodesAt(p) : p \in S}}
<1>1. /\ project = "open" /\ step = Idle /\ S # {} /\ S \subseteq DOMAIN disk
      /\ UNCHANGED <<identity, issued, reserved, project, faults>>
  BY DEF I!Purge, I!CanStart
<1>2. S \in SUBSET I!Path
  BY <1>1 DEF TreeShaped, TreeTyped
<1>3. nodes \subseteq TreeNodes
  BY DEF I!NodeOf, TreeNodes, NodesOf, I!NodesAt
<1>4. IF nodes = {}
      THEN /\ disk' = I!Without(disk, UNION {I!Below(p) : p \in S})
           /\ causes' = causes \cup I!OverJournal
           /\ UNCHANGED <<journals, step>>
      ELSE I!Begin("remove", nodes, "files", S) /\ UNCHANGED disk
  BY DEF I!Purge
<1> HIDE DEF nodes
<1>5. CASE nodes = {}
  <2> DEFINE gone == UNION {I!Below(p) : p \in S}
  <2>1. /\ disk' = I!Without(disk, gone) /\ causes' = causes \cup I!OverJournal
        /\ UNCHANGED <<journals, step>>
    BY <1>4, <1>5
  <2>2. \A q : q \in gone <=> q \in DOMAIN disk /\ \E p \in S : q = p \/ I!Front(q) = p
    BY <1>2, BelowFacts DEF TreeShaped, TreeTyped
  <2> HIDE DEF gone
  <2>3. /\ \A q : q \in DOMAIN disk' <=> q \in DOMAIN disk /\ q \notin gone
        /\ \A q \in DOMAIN disk' : disk'[q] = disk[q]
    BY <2>1, WithoutFacts
  <2>4. DiskIsATree'
    <3> SUFFICES ASSUME NEW q \in DOMAIN disk', I!Front(q) \in I!Path
                 PROVE  I!Front(q) \in DOMAIN disk'
      BY DEF DiskIsATree
    <3>1. I!Front(q) \in DOMAIN disk
      BY <2>3 DEF DiskIsATree, TreeShaped
    <3>2. ASSUME I!Front(q) \in gone PROVE FALSE
      BY <1>2, <2>2, <2>3, <3>2, PathFacts DEF TreeShaped, TreeTyped
    <3> QED BY <2>3, <3>1, <3>2
  <2>5. NodesFit(TreeNodes', issued')
    BY <1>1, <2>1 DEF TreeNodes, TreeShaped
  <2>6. TreeTyped'
    BY <1>1, <2>1, <2>3 DEF TreeShaped, TreeTyped, I!OverJournal, I!Cause
  <2>7. step' = Idle /\ journals' = journals
    BY <1>1, <2>1
  <2> QED BY <2>4, <2>5, <2>6, <2>7 DEF TreeShaped
<1>6. CASE nodes # {}
  <2>1. I!Begin("remove", nodes, "files", S) /\ UNCHANGED disk
    BY <1>4, <1>6
  <2> DEFINE kind == "remove"
             first == "files"
  <2>2. PICK b \in Nat : \A n \in TreeNodes : n.order <= b
    BY DEF TreeShaped, NodesFit
  <2>3. Tellable(nodes, issued', b)
    BY <1>1, <1>3, <2>2 DEF Tellable, TreeShaped, NodesFit, I!SameKind
  <2>4. /\ kind # "relocate" /\ kind \in I!JournalKind /\ first \in TreeStages
        /\ S \in I!Path \cup {<<>>} \cup SUBSET I!Path
        /\ I!Begin(kind, nodes, first, S)
    BY <1>2, <2>1 DEF I!JournalKind, TreeStages
  <2>5. issued \subseteq issued' /\ issued' \subseteq Uuid /\ identity' = identity
    BY <1>1 DEF TreeShaped, TreeTyped
  <2>6. kind = "remove" /\ first = "files"
    OBVIOUS
  <2> HIDE DEF kind, first
  <2>7. /\ journals' \subseteq TreeJournal /\ step' \in TreeCommand /\ step' # Idle
        /\ step'.journal.kind = kind /\ step'.stage = first /\ step'.target = S
        /\ step'.journal \in journals' /\ causes' \subseteq I!Cause
        /\ MovesOne(step'.journal) /\ \A j \in journals' : MovesOne(j)
        /\ NodesFit(TreeNodes', issued')
    BY <2>2, <2>3, <2>4, <2>5, Beginning
  <2>8. StepTyped'
    BY <1>1, <1>2, <2>6, <2>7 DEF StepTyped
  <2>9. DiskIsATree'
    BY <2>1, DiskStays DEF TreeShaped
  <2>10. TreeTyped'
    BY <1>1, <2>1, <2>5, <2>7 DEF TreeTyped, TreeShaped
  <2> QED BY <2>7, <2>8, <2>9, <2>10 DEF TreeShaped
<1> QED BY <1>5, <1>6

LEMMA AdoptRemoteKeepsShape ==
  ASSUME NamesStandApart, IdleIsNoCommand, TreeShaped, NEW p \in I!Path, I!AdoptRemote(p)
  PROVE  TreeShaped'
<1> DEFINE parent == I!Front(p)
           name == I!Last(p)
           order == I!NextOrder(identity, I!NodeForPath(parent))
<1>1. /\ project = "open" /\ step = Idle /\ I!Known(parent)
      /\ UNCHANGED <<disk, identity, reserved, project, faults>>
  BY DEF I!AdoptRemote, I!CanStart
<1>2. PICK u \in Uuid \ issued :
        /\ issued' = issued \cup {u}
        /\ I!Begin("adopt", {I!NewNode(u, parent, name, order)}, "files", <<>>)
  BY DEF I!AdoptRemote
<1>3. PICK b \in Nat : \A v \in DOMAIN identity : identity[v].order \in Nat /\ identity[v].order <= b
  BY OrdersHaveABound
<1>4. order \in 0 .. b + 1
  BY <1>3, NextOrderFacts
<1> HIDE DEF order
<1>5. Append(parent, name) \in I!Path
  BY PathFacts
<1> HIDE DEF parent, name
<1> DEFINE node == I!NewNode(u, parent, name, order)
<1>6. node \in I!Node /\ node.uuid = u /\ node.order = order
  BY <1>1, <1>4, <1>5, NewNodeFacts
<1>7. I!Begin("adopt", {node}, "files", <<>>)
  BY <1>2
<1> HIDE DEF node
<1> DEFINE nodes == {node}
           kind == "adopt"
           first == "files"
           target == <<>>
<1>8. /\ Tellable(nodes, issued', b + 1)
      /\ kind # "relocate" /\ kind \in I!JournalKind /\ first \in TreeStages
      /\ target \in I!Path \cup {<<>>} \cup SUBSET I!Path
      /\ I!Begin(kind, nodes, first, target)
  BY <1>2, <1>4, <1>6, <1>7 DEF I!JournalKind, TreeStages, Tellable
<1>9. issued \subseteq issued' /\ issued' \subseteq Uuid /\ identity' = identity /\ b + 1 \in Nat
  BY <1>1, <1>2, <1>3 DEF TreeShaped, TreeTyped
<1>10. kind = "adopt" /\ first = "files"
  OBVIOUS
<1> HIDE DEF nodes, kind, first, target
<1>11. /\ journals' \subseteq TreeJournal /\ step' \in TreeCommand /\ step' # Idle
       /\ step'.journal.kind = kind /\ step'.stage = first
       /\ step'.journal \in journals' /\ causes' \subseteq I!Cause
       /\ MovesOne(step'.journal) /\ \A j \in journals' : MovesOne(j)
       /\ NodesFit(TreeNodes', issued')
  BY <1>8, <1>9, Beginning
<1>12. DiskIsATree'
  BY <1>1, DiskStays DEF TreeShaped
<1>13. StepTyped'
  BY <1>1, <1>10, <1>11 DEF StepTyped
<1>14. TreeTyped'
  BY <1>1, <1>9, <1>11 DEF TreeTyped, TreeShaped
<1> QED BY <1>11, <1>12, <1>13, <1>14 DEF TreeShaped

LEMMA CopyTombstoneKeepsShape ==
  ASSUME NamesStandApart, IdleIsNoCommand, TreeShaped, NEW d \in DocName, I!CopyTombstone(d)
  PROVE  TreeShaped'
<1> DEFINE parent == <<Trash>>
           order == I!NextOrder(identity, Bin)
           path == <<Trash, d>>
<1>1. /\ project = "open" /\ step = Idle /\ causes' = causes \cup I!OverJournal
      /\ UNCHANGED <<identity, journals, reserved, project, faults>>
  BY DEF I!CopyTombstone, I!CanStart
<1>2. PICK u \in Uuid \ issued :
        /\ issued' = issued \cup {u}
        /\ disk' = I!Over([p \in {path} |-> u], disk)
        /\ step' = [journal |-> [kind |-> "adopt",
                                 nodes |-> {I!NewNode(u, parent, d, order)}],
                    stage |-> "copied", target |-> <<>>]
  BY DEF I!CopyTombstone
<1>3. PICK b \in Nat : \A v \in DOMAIN identity : identity[v].order \in Nat /\ identity[v].order <= b
  BY OrdersHaveABound
<1>4. order \in 0 .. b + 1
  BY <1>3, NextOrderFacts
<1> HIDE DEF order
<1>5. path \in I!Path /\ Append(parent, d) = path /\ I!Front(path) = parent
      /\ parent \notin I!Path /\ I!Known(parent)
  BY PathShapes, TuplesAppend, FrontOfTuples, RootsAreNoPaths DEF I!Known, I!Name
<1> HIDE DEF parent, path
<1> DEFINE node == I!NewNode(u, parent, d, order)
<1>6. node \in I!Node /\ node.uuid = u /\ node.order = order
  <2>1. order \in Nat /\ u \in Uuid /\ node = I!NewNode(u, parent, d, order)
    BY <1>3, <1>4
  <2>2. Append(parent, d) \in I!Path
    BY <1>5
  <2>3. I!Known(parent)
    BY <1>5
  <2> HIDE DEF node
  <2> QED BY <2>1, <2>2, <2>3, NewNodeFacts
<1> HIDE DEF node
<1> DEFINE j == [kind |-> "adopt", nodes |-> {node}]
<1>7. j \in TreeJournal /\ j.kind = "adopt" /\ j.nodes = {node}
  BY <1>6 DEF TreeJournal, I!JournalKind
<1>8. step' = [journal |-> j, stage |-> "copied", target |-> <<>>]
  BY <1>2 DEF node
<1> HIDE DEF j
<1>9. step' \in TreeCommand /\ step'.journal = j /\ step'.stage = "copied" /\ step' # Idle
  BY <1>7, <1>8 DEF TreeCommand, TreeStages, IdleIsNoCommand
<1>10. issued \subseteq issued' /\ issued' \subseteq Uuid /\ identity' = identity /\ b + 1 \in Nat
  BY <1>1, <1>2, <1>3 DEF TreeShaped, TreeTyped
<1> DEFINE nodes == {node}
<1>11. Tellable(nodes, issued', b + 1)
  BY <1>2, <1>4, <1>6 DEF Tellable
<1>12. step' # Idle => \A n \in step'.journal.nodes : n \in TreeNodes \/ n \in nodes
  BY <1>7, <1>9
<1> HIDE DEF nodes
<1>13. \A k \in journals' : \A n \in k.nodes : n \in TreeNodes \/ n \in nodes
  BY <1>1, NodesOfTheTree
<1>14. Told(identity')
  BY <1>10, IdentityIsTold
<1>15. NodesFit(TreeNodes', issued')
  BY <1>10, <1>11, <1>12, <1>13, <1>14, NodesFitOn
<1> DEFINE copy == [p \in {path} |-> u]
<1>16. DOMAIN copy = {path} /\ copy[path] = u
  OBVIOUS
<1>17. disk' = I!Over(copy, disk)
  BY <1>2
<1> HIDE DEF copy
<1>18. /\ \A p : p \in DOMAIN disk' <=> p = path \/ p \in DOMAIN disk
       /\ disk'[path] = u
       /\ \A p \in DOMAIN disk : p # path => disk'[p] = disk[p]
  BY <1>16, <1>17, OverFacts
<1>19. DiskIsATree'
  BY <1>5, <1>18 DEF DiskIsATree, TreeShaped
<1>20. TreeTyped'
  BY <1>1, <1>2, <1>5, <1>9, <1>10, <1>18 DEF TreeShaped, TreeTyped, I!OverJournal, I!Cause
<1>21. StepTyped'
  BY <1>1, <1>7, <1>9 DEF StepTyped, MovesOne
<1>22. \A k \in journals' : MovesOne(k)
  BY <1>1 DEF TreeShaped
<1> QED BY <1>15, <1>19, <1>20, <1>21, <1>22 DEF TreeShaped

FilesFit(files) ==
  \A p \in DOMAIN files :
    /\ p \in I!Path /\ files[p] \in issued \cup {Main}
    /\ I!Front(p) \in I!Path => I!Front(p) \in DOMAIN files

JournalFits(j) == j \in TreeJournal /\ j.nodes \subseteq TreeNodes /\ MovesOne(j)

LEMMA TreeFits ==
  ASSUME TreeShaped
  PROVE  /\ FilesFit(disk) /\ Told(identity)
         /\ \A j \in journals : JournalFits(j)
         /\ step # Idle => step \in TreeCommand /\ JournalFits(step.journal)
<1>1. FilesFit(disk)
  BY DEF TreeShaped, TreeTyped, DiskIsATree, FilesFit
<1>2. \A j \in journals : JournalFits(j)
  BY NodesOfTheTree DEF TreeShaped, TreeTyped, JournalFits
<1>3. ASSUME step # Idle PROVE step \in TreeCommand /\ JournalFits(step.journal)
  BY <1>3, NodesOfTheTree DEF TreeShaped, TreeTyped, TreeCommand, StepTyped, JournalFits
<1> QED BY <1>1, <1>2, <1>3, IdentityIsTold

\* A step keeps the shape when each part of the state fits afterwards.
LEMMA ShapeKept ==
  ASSUME TreeShaped, issued' = issued, FilesFit(disk'), Told(identity'),
         \A j \in journals' : JournalFits(j),
         step' = Idle \/ (step' \in TreeCommand /\ JournalFits(step'.journal) /\ StepTyped'),
         reserved' \subseteq I!TrashPath, causes' \subseteq I!Cause,
         project' \in {"closed", "opening", "open", "blocked"}, faults' \in 0 .. MaxFaults
  PROVE  TreeShaped'
<1>1. issued \subseteq issued' /\ issued' \subseteq Uuid
  BY DEF TreeShaped, TreeTyped
<1>2. NodesFit(TreeNodes', issued')
  BY <1>1, NodesStay DEF JournalFits
<1>3. DiskIsATree'
  BY DEF FilesFit, DiskIsATree
<1>4. DOMAIN disk' \subseteq I!Path /\ \A p \in DOMAIN disk' : disk'[p] \in issued' \cup {Main}
  BY DEF FilesFit
<1>5. DOMAIN identity' \subseteq issued' /\ \A u \in DOMAIN identity' : identity'[u] \in TreeEntry
  BY DEF Told
<1>6. TreeTyped'
  BY <1>1, <1>4, <1>5 DEF TreeTyped, JournalFits
<1> QED BY <1>2, <1>3, <1>6 DEF TreeShaped, JournalFits

LEMMA GoesTo ==
  ASSUME TreeShaped, IdleIsNoCommand, step # Idle, NEW stage \in TreeStages,
         step' = [step EXCEPT !.stage = stage]
  PROVE  /\ step' \in TreeCommand /\ step' # Idle /\ step'.journal = step.journal
         /\ step'.stage = stage /\ step'.target = step.target
<1>1. step \in TreeCommand
  BY DEF TreeShaped, TreeTyped
<1>2. /\ step' \in TreeCommand /\ step'.journal = step.journal
      /\ step'.stage = stage /\ step'.target = step.target
  BY <1>1 DEF TreeCommand
<1> QED BY <1>2 DEF IdleIsNoCommand

LEMMA MadeFits ==
  ASSUME NamesStandApart, TreeShaped, NEW nodes, nodes \subseteq TreeNodes,
         NEW now, now = I!Made(nodes)
  PROVE  FilesFit(now)
<1>1. \A n \in nodes : n.path \in I!Path /\ n.uuid \in issued
  BY DEF TreeShaped, NodesFit, I!Node
<1>2. FilesFit(disk)
  BY TreeFits
<1>3. ASSUME NEW p \in DOMAIN now
      PROVE  /\ p \in I!Path /\ now[p] \in issued \cup {Main}
             /\ I!Front(p) \in I!Path => I!Front(p) \in DOMAIN now
  <2>1. CASE p \in DOMAIN disk
    BY <1>2, <2>1, MadeFacts DEF FilesFit
  <2>2. CASE p \notin DOMAIN disk
    <3>1. (\E n \in nodes : n.path = p) \/ (p \in I!Path /\ \E n \in nodes : I!Front(n.path) = p)
      BY <2>2, MadeFacts
    <3>2. p \in I!Path
      BY <1>1, <3>1
    <3>3. now[p] \in issued \cup {Main}
      BY <1>1, <2>2, MadeFacts
    <3>4. ASSUME I!Front(p) \in I!Path PROVE I!Front(p) \in DOMAIN now
      <4>1. ASSUME NEW n \in nodes PROVE I!Front(n.path) # p
        BY <1>1, <3>2, <3>4, PathFacts
      <4>2. \E n \in nodes : n.path = p
        BY <3>1, <4>1
      <4> QED BY <3>4, <4>2, MadeFacts
    <3> QED BY <3>2, <3>3, <3>4
  <2> QED BY <2>1, <2>2
<1> QED BY <1>3 DEF FilesFit

\* Files may go as long as what they hold has gone.
LEMMA PrunedFits ==
  ASSUME NamesStandApart, TreeShaped, NEW now,
         \A p \in DOMAIN now : p \in DOMAIN disk /\ now[p] = disk[p],
         \A p \in DOMAIN disk : p \notin DOMAIN now => I!Leaf(p)
  PROVE  FilesFit(now)
<1>1. FilesFit(disk)
  BY TreeFits
<1>2. ASSUME NEW p \in DOMAIN now, I!Front(p) \in I!Path PROVE I!Front(p) \in DOMAIN now
  BY <1>1, <1>2, BelowFacts DEF FilesFit, TreeShaped, TreeTyped
<1> QED BY <1>1, <1>2 DEF FilesFit

LEMMA EmptiedFits ==
  ASSUME NamesStandApart, TreeShaped, NEW nodes, NEW now, now = I!Emptied(nodes)
  PROVE  FilesFit(now)
<1>1. /\ \A p \in DOMAIN now : p \in DOMAIN disk /\ now[p] = disk[p]
      /\ \A p \in DOMAIN disk : p \notin DOMAIN now => I!Leaf(p)
  BY EmptiedFacts
<1> QED BY <1>1, PrunedFits

LEMMA MovedFits ==
  ASSUME NamesStandApart, TreeShaped, NEW old \in I!Path, NEW new \in I!Path,
         I!SameKind(I!Last(old), I!Last(new)), new \notin DOMAIN disk,
         I!Front(new) \in I!Path => I!Front(new) \in DOMAIN disk,
         NEW moved, moved = I!MovedDisk(old, new)
  PROVE  FilesFit(moved)
<1>1. /\ \A r \in DOMAIN moved :
           r \in I!Path /\ \E p \in DOMAIN disk : r = Going(p, old, new) /\ moved[r] = disk[p]
      /\ \A r \in DOMAIN moved : I!Front(r) \in I!Path => I!Front(r) \in DOMAIN moved
  BY MovedFacts DEF TreeShaped, TreeTyped
<1>2. \A p \in DOMAIN disk : disk[p] \in issued \cup {Main}
  BY DEF TreeShaped, TreeTyped
<1> QED BY <1>1, <1>2 DEF FilesFit

LEMMA SettleCopyKeepsShape ==
  ASSUME NamesStandApart, IdleIsNoCommand, TreeShaped, I!SettleCopy
  PROVE  TreeShaped'
<1> DEFINE files == "files"
<1>1. /\ step # Idle /\ step.stage = "copied" /\ journals' = journals \cup {step.journal}
      /\ step' = [step EXCEPT !.stage = files] /\ files \in TreeStages
      /\ UNCHANGED <<disk, identity, issued, reserved, project, faults, causes>>
  BY DEF I!SettleCopy, TreeStages
<1>2. files = "files"
  OBVIOUS
<1> HIDE DEF files
<1>3. /\ step' \in TreeCommand /\ step'.journal = step.journal /\ step'.stage = files
  BY <1>1, GoesTo
<1>4. /\ FilesFit(disk) /\ Told(identity) /\ JournalFits(step.journal)
      /\ \A j \in journals : JournalFits(j)
  BY <1>1, TreeFits
<1>5. step.journal.kind = "adopt" /\ project = "open" /\ MovesOne(step.journal)
  BY <1>1 DEF TreeShaped, StepTyped
<1>6. StepTyped'
  BY <1>1, <1>2, <1>3, <1>5 DEF StepTyped
<1>7. FilesFit(disk') /\ Told(identity') /\ \A j \in journals' : JournalFits(j)
  BY <1>1, <1>4
<1>8. /\ reserved' \subseteq I!TrashPath /\ causes' \subseteq I!Cause
      /\ project' \in {"closed", "opening", "open", "blocked"} /\ faults' \in 0 .. MaxFaults
  BY <1>1 DEF TreeShaped, TreeTyped
<1>9. issued' = issued
  BY <1>1
<1> QED BY <1>3, <1>4, <1>6, <1>7, <1>8, <1>9, ShapeKept

\* A stage follows another with the files and the identity as they fit.
LEMMA StageKeepsShape ==
  ASSUME NamesStandApart, IdleIsNoCommand, TreeShaped, step # Idle,
         NEW stage \in {"identity", "files", "unlink"}, step.stage \in {"identity", "files"},
         stage = "files" => step.journal.kind = "release",
         stage = "unlink" /\ step.journal.kind = "relocate" =>
           \A n \in step.journal.nodes : Named(n)',
         step' = [step EXCEPT !.stage = stage],
         FilesFit(disk'), Told(identity'),
         UNCHANGED <<issued, journals, reserved, project, faults, causes>>
  PROVE  TreeShaped'
<1>1. stage \in TreeStages
  BY DEF TreeStages
<1>2. step' \in TreeCommand /\ step'.journal = step.journal /\ step'.stage = stage
      /\ step'.target = step.target
  BY <1>1, GoesTo
<1>3. /\ JournalFits(step.journal) /\ \A j \in journals : JournalFits(j)
  BY TreeFits
<1>4. StepTyped
  BY DEF TreeShaped
<1>5. StepTyped'
  BY <1>2, <1>4 DEF StepTyped, Named
<1>6. /\ reserved' \subseteq I!TrashPath /\ causes' \subseteq I!Cause
      /\ project' \in {"closed", "opening", "open", "blocked"} /\ faults' \in 0 .. MaxFaults
  BY DEF TreeShaped, TreeTyped
<1>7. issued' = issued /\ \A j \in journals' : JournalFits(j)
  BY <1>3
<1> QED BY <1>2, <1>3, <1>5, <1>6, <1>7, ShapeKept

\* The files change and the command stays where it is.
LEMMA FilesKeepShape ==
  ASSUME NamesStandApart, IdleIsNoCommand, TreeShaped, step # Idle,
         step.journal.kind # "relocate", FilesFit(disk'),
         UNCHANGED <<identity, issued, journals, step, reserved, project, faults, causes>>
  PROVE  TreeShaped'
<1>1. /\ Told(identity) /\ step \in TreeCommand /\ JournalFits(step.journal)
      /\ \A j \in journals : JournalFits(j)
  BY TreeFits
<1>2. StepTyped
  BY DEF TreeShaped
<1>3. StepTyped'
  BY <1>2 DEF StepTyped
<1>4. /\ reserved' \subseteq I!TrashPath /\ causes' \subseteq I!Cause
      /\ project' \in {"closed", "opening", "open", "blocked"} /\ faults' \in 0 .. MaxFaults
  BY DEF TreeShaped, TreeTyped
<1>5. /\ issued' = issued /\ \A j \in journals' : JournalFits(j)
      /\ Told(identity') /\ step' \in TreeCommand /\ JournalFits(step'.journal)
  BY <1>1
<1> QED BY <1>3, <1>4, <1>5, ShapeKept

LEMMA MaterializeKeepsShape ==
  ASSUME NamesStandApart, IdleIsNoCommand, TreeShaped, I!Materialize
  PROVE  TreeShaped'
<1>1. /\ step # Idle /\ step.journal.kind \in {"create", "adopt"} /\ step.stage = "files"
      /\ UNCHANGED <<identity, issued, journals, reserved, project, faults, causes>>
  BY DEF I!Materialize, I!At
<1>2. FilesFit(disk) /\ Told(identity) /\ JournalFits(step.journal)
  BY <1>1, TreeFits
<1>3. \/ I!Goto("identity") /\ UNCHANGED disk
      \/ UNCHANGED step /\ \E n \in step.journal.nodes : disk' = I!Made({n})
  BY DEF I!Materialize
<1>4. CASE I!Goto("identity") /\ UNCHANGED disk
  BY <1>1, <1>2, <1>4, StageKeepsShape DEF I!Goto
<1>5. CASE UNCHANGED step /\ \E n \in step.journal.nodes : disk' = I!Made({n})
  BY <1>1, <1>2, <1>5, MadeFits, FilesKeepShape DEF JournalFits
<1> QED BY <1>3, <1>4, <1>5

LEMMA MoveFilesKeepsShape ==
  ASSUME NamesStandApart, IdleIsNoCommand, TreeShaped, I!MoveFiles
  PROVE  TreeShaped'
<1>1. /\ step # Idle /\ step.journal.kind = "relocate" /\ step.stage = "files"
      /\ UNCHANGED <<identity, issued, journals, reserved, project, faults, causes>>
      /\ step' = [step EXCEPT !.stage = "identity"]
  BY DEF I!MoveFiles, I!At, I!Goto
<1>2. PICK n \in step.journal.nodes : disk' = I!MovedDisk(step.target, n.path)
  BY DEF I!MoveFiles
<1>3. Told(identity) /\ JournalFits(step.journal)
  BY <1>1, TreeFits
<1>4. n.path \in I!Path
  BY <1>3 DEF JournalFits, TreeShaped, NodesFit, I!Node
<1>5. /\ step.target \in I!Path /\ I!SameKind(I!Last(step.target), I!Last(n.path))
      /\ I!Movable(step.target, n.path)
  BY <1>1 DEF TreeShaped, StepTyped
<1>6. /\ n.path \notin DOMAIN disk
      /\ I!Front(n.path) \in I!Path => I!Front(n.path) \in DOMAIN disk
  BY <1>5, RootsAreNoPaths DEF I!Movable, I!OnDisk
<1>7. FilesFit(disk')
  BY <1>2, <1>4, <1>5, <1>6, MovedFits
<1>8. Told(identity')
  BY <1>1, <1>3
<1> QED BY <1>1, <1>7, <1>8, StageKeepsShape

LEMMA DeleteFileKeepsShape ==
  ASSUME NamesStandApart, IdleIsNoCommand, TreeShaped, I!DeleteFile
  PROVE  TreeShaped'
<1>1. /\ step # Idle /\ step.journal.kind = "remove" /\ step.stage = "files"
      /\ UNCHANGED <<identity, issued, journals, reserved, project, faults, causes>>
  BY DEF I!DeleteFile, I!At
<1>2. FilesFit(disk) /\ Told(identity)
  BY TreeFits
<1>3. \/ I!Goto("identity") /\ UNCHANGED disk
      \/ UNCHANGED step /\ \E p : I!Leaf(p) /\ disk' = I!Without(disk, {p})
  BY DEF I!DeleteFile
<1>4. CASE I!Goto("identity") /\ UNCHANGED disk
  BY <1>1, <1>2, <1>4, StageKeepsShape DEF I!Goto
<1>5. CASE UNCHANGED step /\ \E p : I!Leaf(p) /\ disk' = I!Without(disk, {p})
  BY <1>1, <1>5, WithoutFacts, PrunedFits, FilesKeepShape
<1> QED BY <1>3, <1>4, <1>5

LEMMA WriteIdentityKeepsShape ==
  ASSUME NamesStandApart, IdleIsNoCommand, TreeShaped, I!WriteIdentity
  PROVE  TreeShaped'
<1> DEFINE stage == IF step.journal.kind = "release" THEN "files" ELSE "unlink"
<1>1. /\ step # Idle /\ step.stage = "identity" /\ I!Acceptable(step.journal)
      /\ identity' = I!NewIdentity(step.journal)
      /\ step' = [step EXCEPT !.stage = stage]
      /\ UNCHANGED <<disk, issued, journals, reserved, project, faults, causes>>
  BY DEF I!WriteIdentity, I!Goto
<1>2. /\ stage \in {"identity", "files", "unlink"}
      /\ stage = "files" => step.journal.kind = "release"
  OBVIOUS
<1> HIDE DEF stage
<1>3. FilesFit(disk) /\ JournalFits(step.journal)
  BY <1>1, TreeFits
<1>4. step.journal.kind = "relocate" =>
        /\ \A n \in step.journal.nodes : n.uuid \in DOMAIN identity
        /\ step.journal.nodes # {}
  BY <1>1, <1>3 DEF I!Acceptable, JournalFits, MovesOne
<1>5. Told(identity')
  BY <1>1, <1>3, <1>4, NewEntries DEF JournalFits
<1>6. FilesFit(disk')
  BY <1>1, <1>3
<1>7. ASSUME NEW n \in step.journal.nodes, step.journal.kind = "relocate"
      PROVE  Named(n)'
  <2>1. step.journal.nodes = {n} /\ n \in I!Node /\ n \in TreeNodes
    BY <1>1, <1>3, <1>7 DEF JournalFits, MovesOne, TreeShaped, NodesFit
  <2>2. identity' = I!Relocated(n)
    BY <1>1, <1>7, <2>1 DEF I!NewIdentity
  <2>3. n.uuid \in DOMAIN identity
    BY <1>4, <1>7
  <2>4. DOMAIN identity' = DOMAIN identity /\ identity'[n.uuid] = I!Recorded(n)
    BY <2>2, <2>3 DEF I!Relocated
  <2> QED BY <2>3, <2>4 DEF Named, I!Recorded
<1> QED BY <1>1, <1>2, <1>5, <1>6, <1>7, StageKeepsShape

LEMMA ReleaseFilesKeepsShape ==
  ASSUME NamesStandApart, IdleIsNoCommand, TreeShaped, I!ReleaseFiles
  PROVE  TreeShaped'
<1> DEFINE stage == "unlink"
<1>1. /\ step # Idle /\ step.stage = "files" /\ disk' = I!Emptied(step.journal.nodes)
      /\ step.journal.kind = "release"
      /\ step' = [step EXCEPT !.stage = stage]
      /\ UNCHANGED <<identity, issued, journals, reserved, project, faults, causes>>
  BY DEF I!ReleaseFiles, I!At, I!Goto
<1>2. stage \in {"identity", "files", "unlink"} /\ stage # "files"
  OBVIOUS
<1> HIDE DEF stage
<1>3. FilesFit(disk') /\ Told(identity')
  BY <1>1, EmptiedFits, TreeFits
<1> QED BY <1>1, <1>2, <1>3, StageKeepsShape

\* The command ends, or the process does.
LEMMA EndKeepsShape ==
  ASSUME NamesStandApart, TreeShaped, step' = Idle, issued' = issued,
         FilesFit(disk'), Told(identity'), \A j \in journals' : JournalFits(j),
         reserved' \subseteq I!TrashPath, causes' \subseteq I!Cause,
         project' \in {"closed", "opening", "open", "blocked"}, faults' \in 0 .. MaxFaults
  PROVE  TreeShaped'
<1>1. step' = Idle \/ (step' \in TreeCommand /\ JournalFits(step'.journal) /\ StepTyped')
  OBVIOUS
<1> QED BY <1>1, ShapeKept

LEMMA TreePlain ==
  ASSUME TreeShaped
  PROVE  /\ reserved \subseteq I!TrashPath /\ causes \subseteq I!Cause
         /\ project \in {"closed", "opening", "open", "blocked"} /\ faults \in 0 .. MaxFaults
BY DEF TreeShaped, TreeTyped

LEMMA UnlinkKeepsShape ==
  ASSUME NamesStandApart, IdleIsNoCommand, TreeShaped, I!Unlink
  PROVE  TreeShaped'
<1>1. /\ step # Idle /\ step.stage = "unlink" /\ journals' = journals \ {step.journal}
      /\ UNCHANGED <<disk, identity, issued, project, faults, causes>>
  BY DEF I!Unlink
<1>2. /\ FilesFit(disk) /\ Told(identity) /\ JournalFits(step.journal)
      /\ \A j \in journals : JournalFits(j)
  BY <1>1, TreeFits
<1>3. /\ reserved' \subseteq reserved
      /\ \/ step' = Idle
         \/ step.journal.kind = "adopt" /\ I!Goto("content")
         \/ step.journal.kind = "relocate" /\ I!Goto("record")
         \/ /\ step.journal.kind = "relocate" /\ I!Goto("tombstone")
            /\ \E n \in step.journal.nodes : n.path \in I!TrashPath
  BY DEF I!Unlink
<1>4. reserved' \subseteq I!TrashPath
  BY <1>3, TreePlain
<1>5. FilesFit(disk') /\ Told(identity') /\ \A j \in journals' : JournalFits(j)
  BY <1>1, <1>2
<1>6. /\ causes' \subseteq I!Cause /\ issued' = issued
      /\ project' \in {"closed", "opening", "open", "blocked"} /\ faults' \in 0 .. MaxFaults
  BY <1>1, TreePlain
<1>7. ASSUME NEW stage \in {"content", "record", "tombstone"},
             step' = [step EXCEPT !.stage = stage],
             stage = "content" => step.journal.kind = "adopt",
             stage # "content" => step.journal.kind = "relocate",
             stage = "tombstone" => \E n \in step.journal.nodes : n.path \in I!TrashPath
      PROVE  TreeShaped'
  <2>1. stage \in TreeStages
    BY <1>7 DEF TreeStages
  <2>2. step' \in TreeCommand /\ step'.journal = step.journal /\ step'.stage = stage
        /\ step'.target = step.target
    BY <1>1, <1>7, <2>1, GoesTo
  <2>3. StepTyped
    BY <1>1 DEF TreeShaped
  <2>4. stage = "tombstone" => \A n \in step.journal.nodes : n.path \in I!TrashPath
    BY <1>7, <2>3 DEF StepTyped, MovesOne
  <2>5. StepTyped'
    BY <1>1, <1>7, <2>2, <2>3, <2>4 DEF StepTyped, Named
  <2> QED BY <1>2, <1>4, <1>5, <1>6, <2>2, <2>5, ShapeKept
<1>8. CASE step' = Idle
  BY <1>4, <1>5, <1>6, <1>8, EndKeepsShape
<1>9. ASSUME NEW stage \in {"content", "record", "tombstone"}, I!Goto(stage)
      PROVE  step' = [step EXCEPT !.stage = stage]
  BY <1>9 DEF I!Goto
<1> QED BY <1>3, <1>7, <1>8, <1>9

LEMMA RecordTombstoneKeepsShape ==
  ASSUME NamesStandApart, IdleIsNoCommand, TreeShaped, I!RecordTombstone
  PROVE  TreeShaped'
<1> DEFINE at == (CHOOSE n \in step.journal.nodes : TRUE).path
<1>1. /\ step # Idle /\ step.stage = "tombstone" /\ step' = Idle
      /\ UNCHANGED <<identity, issued, journals, project, faults>>
  BY DEF I!RecordTombstone
<1>2. /\ FilesFit(disk) /\ Told(identity) /\ JournalFits(step.journal)
      /\ \A j \in journals : JournalFits(j)
  BY <1>1, TreeFits
<1>3. at \in I!TrashPath
  BY <1>1 DEF TreeShaped, StepTyped, MovesOne
<1>4. \/ disk' = disk /\ causes' = causes
         /\ reserved' = reserved \cup I!Documents(I!Below(at))
      \/ \E n \in I!Name :
           /\ I!SameKind(n, I!Last(at)) /\ ~ I!OnDisk(<<Trash, n>>)
           /\ disk' = I!MovedDisk(at, <<Trash, n>>)
           /\ reserved' = reserved
                \cup {I!Rebased(p, at, <<Trash, n>>) : p \in I!Documents(I!Below(at))}
           /\ causes' = causes \cup {"renamed in trash"}
  BY DEF I!RecordTombstone
<1> HIDE DEF at
<1>5. at \in I!Path
  BY <1>3 DEF I!Path
<1>6. ASSUME NEW p \in I!Documents(I!Below(at))
      PROVE  p \in I!Path /\ p \in I!TrashPath /\ (p = at \/ I!Front(p) = at)
  BY <1>3, <1>5, BelowFacts, PathFacts DEF I!Documents, TreeShaped, TreeTyped
<1>7. Told(identity') /\ issued' = issued /\ \A j \in journals' : JournalFits(j)
  BY <1>1, <1>2
<1>8. project' \in {"closed", "opening", "open", "blocked"} /\ faults' \in 0 .. MaxFaults
  BY <1>1, TreePlain
<1>9. CASE /\ disk' = disk /\ causes' = causes
           /\ reserved' = reserved \cup I!Documents(I!Below(at))
  <2>1. FilesFit(disk') /\ reserved' \subseteq I!TrashPath /\ causes' \subseteq I!Cause
    BY <1>2, <1>6, <1>9, TreePlain
  <2> QED BY <1>1, <1>7, <1>8, <2>1, EndKeepsShape
<1>10. ASSUME NEW n \in I!Name, I!SameKind(n, I!Last(at)), ~ I!OnDisk(<<Trash, n>>),
              disk' = I!MovedDisk(at, <<Trash, n>>),
              reserved' = reserved
                \cup {I!Rebased(p, at, <<Trash, n>>) : p \in I!Documents(I!Below(at))},
              causes' = causes \cup {"renamed in trash"}
       PROVE  TreeShaped'
  <2> DEFINE new == <<Trash, n>>
  <2>1. /\ new \in I!TrashPath /\ new \in I!Path /\ I!Last(new) = n
        /\ I!Front(new) \notin I!Path /\ new \notin DOMAIN disk
    BY <1>10, PathShapes, FrontOfTuples, RootsAreNoPaths DEF I!OnDisk
  <2>2. /\ disk' = I!MovedDisk(at, new)
        /\ reserved' = reserved \cup {I!Rebased(p, at, new) : p \in I!Documents(I!Below(at))}
    BY <1>10
  <2> HIDE DEF new
  <2>3. I!SameKind(I!Last(at), I!Last(new))
    BY <1>10, <2>1 DEF I!SameKind
  <2>4. FilesFit(disk')
    BY <1>5, <2>1, <2>2, <2>3, MovedFits
  <2>5. \A p \in I!Documents(I!Below(at)) : I!Rebased(p, at, new) \in I!TrashPath
    BY <1>5, <1>6, <2>1, <2>3, Rebasing
  <2>6. reserved' \subseteq I!TrashPath
    BY <2>2, <2>5, TreePlain
  <2>7. causes' \subseteq I!Cause
    BY <1>10, TreePlain DEF I!Cause
  <2> QED BY <1>1, <1>7, <1>8, <2>4, <2>6, <2>7, EndKeepsShape
<1> QED BY <1>4, <1>9, <1>10

LEMMA FaultsCount ==
  ASSUME NamesStandApart, TreeShaped, NEW kind, I!Fails(kind) \/ UNCHANGED faults
  PROVE  faults' \in 0 .. MaxFaults
BY TreePlain DEF I!Fails, NamesStandApart

LEMMA CrashKeepsShape ==
  ASSUME NamesStandApart, TreeShaped, I!CrashProject
  PROVE  TreeShaped'
<1>1. /\ project' = "closed" /\ step' = Idle /\ I!Fails("crash")
      /\ causes' = causes \cup I!Interrupted(FALSE)
      /\ UNCHANGED <<disk, identity, issued, journals, reserved>>
  BY DEF I!CrashProject
<1>2. I!Interrupted(FALSE) \subseteq I!Cause
  BY DEF I!Interrupted, I!Cause
<1>3. faults' \in 0 .. MaxFaults
  BY <1>1, FaultsCount
<1>4. /\ FilesFit(disk') /\ Told(identity') /\ issued' = issued
      /\ \A j \in journals' : JournalFits(j)
  BY <1>1, TreeFits
<1>5. /\ reserved' \subseteq I!TrashPath /\ causes' \subseteq I!Cause
      /\ project' \in {"closed", "opening", "open", "blocked"}
  BY <1>1, <1>2, TreePlain
<1> QED BY <1>1, <1>3, <1>4, <1>5, EndKeepsShape

\* A file is in use or the disk is full.
LEMMA RefuseFilesKeepsShape ==
  ASSUME NamesStandApart, IdleIsNoCommand, TreeShaped, I!RefuseFiles
  PROVE  TreeShaped'
<1>1. /\ step # Idle /\ step.stage \in {"files", "content"} /\ I!Fails("refused files")
      /\ UNCHANGED <<identity, issued, reserved, project>>
  BY DEF I!RefuseFiles
<1>2. /\ FilesFit(disk) /\ Told(identity) /\ step \in TreeCommand /\ JournalFits(step.journal)
      /\ \A j \in journals : JournalFits(j)
  BY <1>1, TreeFits
<1>3. faults' \in 0 .. MaxFaults
  BY <1>1, FaultsCount
<1>4. causes' \subseteq I!Cause
  <2> DEFINE yes == TRUE
             more == IF I!At({"adopt"}, "files")
                        /\ \E n \in step.journal.nodes : n.path \in I!TrashPath
                     THEN {"unnamed copy"} ELSE {}
  <2>1. causes' = causes \cup I!Interrupted(yes) \cup more
    BY DEF I!RefuseFiles
  <2>2. more \subseteq I!Cause
    BY DEF I!Cause
  <2> HIDE DEF yes, more
  <2>3. I!Interrupted(yes) \subseteq I!Cause
    BY DEF I!Interrupted, I!Cause
  <2> QED BY <2>1, <2>2, <2>3, TreePlain
<1>5. /\ Told(identity') /\ issued' = issued /\ reserved' \subseteq I!TrashPath
      /\ project' \in {"closed", "opening", "open", "blocked"}
  BY <1>1, <1>2, TreePlain
<1>6. CASE step.stage = "content"
  <2> DEFINE j == [kind |-> "release", nodes |-> step.journal.nodes]
             stage == "identity"
  <2>1. /\ journals' = journals \cup {j}
        /\ step' = [step EXCEPT !.journal = j, !.stage = stage]
        /\ UNCHANGED disk
    BY <1>6 DEF I!RefuseFiles
  <2>2. step.journal \in TreeJournal
    BY <1>2 DEF JournalFits
  <2>3. j \in TreeJournal /\ j.kind = "release" /\ j.nodes = step.journal.nodes
    BY <2>2 DEF TreeJournal, I!JournalKind
  <2>4. JournalFits(j)
    BY <1>2, <2>3 DEF JournalFits, MovesOne
  <2>5. stage \in TreeStages /\ stage = "identity"
    BY DEF TreeStages
  <2> HIDE DEF j, stage
  <2>6. step' \in TreeCommand /\ step'.journal = j /\ step'.stage = stage
    BY <1>2, <2>1, <2>3, <2>5 DEF TreeCommand
  <2>7. StepTyped'
    <3>1. project' = "open"
      BY <1>1 DEF TreeShaped, StepTyped
    <3> QED BY <2>1, <2>3, <2>5, <2>6, <3>1 DEF StepTyped, MovesOne
  <2>8. FilesFit(disk') /\ \A k \in journals' : JournalFits(k)
    BY <1>2, <2>1, <2>4
  <2> QED BY <1>3, <1>4, <1>5, <2>4, <2>6, <2>7, <2>8, ShapeKept
<1>7. CASE step.stage = "files"
  BY <1>2, <1>3, <1>4, <1>5, <1>7, EmptiedFits, EndKeepsShape DEF I!RefuseFiles
<1> QED BY <1>1, <1>6, <1>7

LEMMA RollbackMoveKeepsShape ==
  ASSUME NamesStandApart, IdleIsNoCommand, TreeShaped, I!RollbackMove
  PROVE  TreeShaped'
<1> DEFINE now == (CHOOSE n \in step.journal.nodes : TRUE).path
<1>1. /\ step # Idle /\ step.stage = "record" /\ I!Fails("refused record")
      /\ UNCHANGED <<disk, identity, issued, reserved, project>>
  BY DEF I!RollbackMove
<1>2. /\ FilesFit(disk) /\ Told(identity) /\ step \in TreeCommand /\ JournalFits(step.journal)
      /\ \A j \in journals : JournalFits(j)
  BY <1>1, TreeFits
<1>3. faults' \in 0 .. MaxFaults
  BY <1>1, FaultsCount
<1>4. now \in I!Path /\ step.target \in I!Path /\ project = "open"
  BY <1>1, <1>2 DEF TreeShaped, StepTyped, NodesFit, JournalFits, MovesOne, I!Node
<1>8. I!NodesAt(now) # {}
  BY <1>1, <1>2 DEF TreeShaped, StepTyped, MovesOne, Named, I!NodesAt
<1>5. \/ /\ I!Movable(now, step.target) /\ I!CanRelocate(step.target)
         /\ I!Begin("relocate", {I!Relocation(now, step.target)}, "files", now)
      \/ step' = Idle /\ UNCHANGED <<journals, causes>>
  BY DEF I!RollbackMove
<1> HIDE DEF now
<1>6. CASE step' = Idle /\ UNCHANGED <<journals, causes>>
  BY <1>1, <1>2, <1>3, <1>6, TreePlain, EndKeepsShape
<1>7. CASE /\ I!Movable(now, step.target) /\ I!CanRelocate(step.target)
           /\ I!Begin("relocate", {I!Relocation(now, step.target)}, "files", now)
  BY <1>1, <1>3, <1>4, <1>7, <1>8, MoveBegins
<1> QED BY <1>5, <1>6, <1>7

LEMMA RefuseIdentityKeepsShape ==
  ASSUME NamesStandApart, IdleIsNoCommand, TreeShaped, I!RefuseIdentity
  PROVE  TreeShaped'
<1>1. /\ step # Idle /\ step' = Idle
      /\ I!Fails("refused identity") \/ UNCHANGED faults
      /\ UNCHANGED <<identity, issued, reserved, project>>
  BY DEF I!RefuseIdentity
<1>2. /\ FilesFit(disk) /\ Told(identity) /\ \A j \in journals : JournalFits(j)
  BY TreeFits
<1>3. /\ journals' \subseteq journals
      /\ disk' = disk \/ \E nodes : disk' = I!Emptied(nodes)
      /\ causes' \subseteq causes \cup {"unnamed copy"}
  BY DEF I!RefuseIdentity
<1>4. FilesFit(disk') /\ Told(identity') /\ issued' = issued /\ \A j \in journals' : JournalFits(j)
  BY <1>1, <1>2, <1>3, EmptiedFits
<1>5. faults' \in 0 .. MaxFaults
  BY <1>1, FaultsCount
<1>6. /\ reserved' \subseteq I!TrashPath /\ causes' \subseteq I!Cause
      /\ project' \in {"closed", "opening", "open", "blocked"}
  BY <1>1, <1>3, TreePlain DEF I!Cause
<1> QED BY <1>1, <1>4, <1>5, <1>6, EndKeepsShape

\* Opening, closing and the audit touch no file and no node.
LEMMA StatusKeepsShape ==
  ASSUME NamesStandApart, TreeShaped, step = Idle,
         project' \in {"closed", "opening", "open", "blocked"},
         UNCHANGED <<disk, identity, issued, journals, step, reserved, faults, causes>>
  PROVE  TreeShaped'
<1>1. /\ FilesFit(disk') /\ Told(identity') /\ \A j \in journals' : JournalFits(j)
      /\ issued' = issued /\ step' = Idle
  BY TreeFits
<1>2. /\ reserved' \subseteq I!TrashPath /\ causes' \subseteq I!Cause /\ faults' \in 0 .. MaxFaults
  BY TreePlain
<1> QED BY <1>1, <1>2, EndKeepsShape

LEMMA RecoverJournalKeepsShape ==
  ASSUME NamesStandApart, TreeShaped, NEW j \in journals, I!RecoverJournal(j)
  PROVE  TreeShaped'
<1> DEFINE landed == [j EXCEPT !.nodes = I!Landed(j)]
<1>1. /\ project = "opening" /\ disk' = I!Remade(j)
      /\ UNCHANGED <<issued, step, reserved, faults, causes>>
      /\ \/ project' = "blocked" /\ UNCHANGED <<identity, journals>>
         \/ /\ landed.nodes # {} => I!Acceptable(landed)
            /\ identity' = IF landed.nodes = {} THEN identity ELSE I!NewIdentity(landed)
            /\ journals' = journals \ {j} /\ UNCHANGED project
  BY DEF I!RecoverJournal
<1>2. /\ FilesFit(disk) /\ Told(identity) /\ JournalFits(j) /\ \A k \in journals : JournalFits(k)
  BY TreeFits
<1>3. step = Idle
  BY <1>1 DEF TreeShaped, StepTyped
<1>4. I!Landed(j) \subseteq j.nodes
  BY DEF I!Landed
<1>5. landed \in TreeJournal /\ landed.nodes = I!Landed(j) /\ landed.kind = j.kind
  BY <1>2, <1>4 DEF TreeJournal, JournalFits
<1> HIDE DEF landed
<1>6. FilesFit(disk')
  BY <1>1, <1>2, MadeFits, EmptiedFits DEF I!Remade, JournalFits
<1>7. Told(identity')
  <2>1. CASE identity' = identity
    BY <1>2, <2>1
  <2>2. CASE identity' = I!NewIdentity(landed) /\ landed.nodes # {} /\ I!Acceptable(landed)
    BY <1>2, <1>4, <1>5, <2>2, NewEntries DEF JournalFits, I!Acceptable
  <2> QED BY <1>1, <2>1, <2>2
<1>8. \A k \in journals' : JournalFits(k)
  BY <1>1, <1>2
<1>9. /\ reserved' \subseteq I!TrashPath /\ causes' \subseteq I!Cause /\ faults' \in 0 .. MaxFaults
      /\ project' \in {"closed", "opening", "open", "blocked"} /\ issued' = issued
      /\ step' = Idle
  BY <1>1, <1>3, TreePlain
<1> QED BY <1>6, <1>7, <1>8, <1>9, EndKeepsShape

\* Whatever happens, paths, nodes and journals keep their shape.
LEMMA TreeKeepsShape ==
  ASSUME NamesStandApart, IdleIsNoCommand, TreeShaped, I!TreeNext
  PROVE  TreeShaped'
<1>1. ASSUME NEW S, I!Purge(S) PROVE TreeShaped'
  BY <1>1, PurgeKeepsShape
<1>2. CASE \/ \E parent \in {<<>>} \cup {<<f>> : f \in FolderName}, n \in I!Name :
                I!CreateItem(parent, n)
           \/ \E f \in FolderName, d \in DocName : I!CreateVolume(f, d)
           \/ \E old, new \in I!Path : I!RelocatePath(old, new)
           \/ \E p \in I!TrashEntries : I!PurgeItem(p)
           \/ I!EmptyTrash
           \/ \E p \in I!LivePath : I!AdoptRemote(p)
           \/ \E d \in DocName : I!CopyTombstone(d)
  BY <1>1, <1>2, CreateItemKeepsShape, CreateVolumeKeepsShape, RelocatePathKeepsShape,
     AdoptRemoteKeepsShape, CopyTombstoneKeepsShape DEF I!PurgeItem, I!EmptyTrash, I!Path
<1>3. CASE I!RecordMove \/ I!WriteContent
  BY <1>3, TreeFits, TreePlain, EndKeepsShape DEF I!RecordMove, I!WriteContent
<1>4. CASE I!CloseProject \/ I!OpenProject \/ I!AuditProject
  BY <1>4, StatusKeepsShape DEF I!CloseProject, I!OpenProject, I!AuditProject, I!CanStart,
     TreeShaped, StepTyped
<1>5. CASE \/ I!SettleCopy \/ I!Materialize \/ I!MoveFiles \/ I!DeleteFile \/ I!WriteIdentity
           \/ I!ReleaseFiles \/ I!Unlink \/ I!RecordTombstone
  BY <1>5, SettleCopyKeepsShape, MaterializeKeepsShape, MoveFilesKeepsShape,
     DeleteFileKeepsShape, WriteIdentityKeepsShape, ReleaseFilesKeepsShape,
     UnlinkKeepsShape, RecordTombstoneKeepsShape
<1>6. CASE \/ I!CrashProject \/ I!RefuseFiles \/ I!RollbackMove \/ I!RefuseIdentity
           \/ \E j \in journals : I!RecoverJournal(j)
  BY <1>6, CrashKeepsShape, RefuseFilesKeepsShape, RollbackMoveKeepsShape,
     RefuseIdentityKeepsShape, RecoverJournalKeepsShape
<1> QED BY <1>2, <1>3, <1>4, <1>5, <1>6 DEF I!TreeNext

\* Every node sits below the node of the folder that holds its path.
Sits(nodes, path, parent) ==
  \/ I!Front(path) = <<>> /\ parent = Main
  \/ I!Front(path) = <<Trash>> /\ parent = Bin
  \/ I!Front(path) \in I!Path /\ parent \in DOMAIN nodes /\ nodes[parent].path = I!Front(path)

NodesSound(nodes) ==
  /\ \A u, v \in DOMAIN nodes : nodes[u].path = nodes[v].path => u = v
  /\ \A u \in DOMAIN nodes : Sits(nodes, nodes[u].path, nodes[u].parent)
  /\ \A u, v \in DOMAIN nodes :
       nodes[u].parent = nodes[v].parent /\ nodes[u].order = nodes[v].order => u = v

\* Every file has the node of the uuid it was born with, and every node its file.
FilesNamed(files, nodes) ==
  \A p \in DOMAIN files : files[p] \in DOMAIN nodes /\ nodes[files[p]].path = p
Agree(files, nodes) ==
  /\ \A u \in DOMAIN nodes : nodes[u].path \in DOMAIN files /\ files[nodes[u].path] = u
  /\ FilesNamed(files, nodes)
Sound(files, nodes) == NodesSound(nodes) /\ Agree(files, nodes)

Same(fn, gn) ==
  (\A x : x \in DOMAIN fn <=> x \in DOMAIN gn) /\ \A x \in DOMAIN fn : fn[x] = gn[x]

LEMMA SoundSame ==
  ASSUME NEW files, NEW nodes, NEW laid, NEW entries, Sound(files, nodes),
         Same(files, laid), Same(nodes, entries)
  PROVE  Sound(laid, entries)
<1>1. /\ \A x : x \in DOMAIN files <=> x \in DOMAIN laid
      /\ \A x \in DOMAIN files : files[x] = laid[x]
      /\ \A x : x \in DOMAIN nodes <=> x \in DOMAIN entries
      /\ \A x \in DOMAIN nodes : nodes[x] = entries[x]
  BY DEF Same
<1>2. Agree(laid, entries)
  BY <1>1 DEF Sound, Agree, FilesNamed
<1>3. NodesSound(entries)
  <2>1. NodesSound(nodes)
    BY DEF Sound
  <2>2. ASSUME NEW u \in DOMAIN entries, NEW v \in DOMAIN entries,
               \/ entries[u].path = entries[v].path
               \/ entries[u].parent = entries[v].parent /\ entries[u].order = entries[v].order
        PROVE  u = v
    BY <1>1, <2>1, <2>2 DEF NodesSound
  <2>3. ASSUME NEW u \in DOMAIN entries
        PROVE  Sits(entries, entries[u].path, entries[u].parent)
    BY <1>1, <2>1 DEF NodesSound, Sits
  <2> QED BY <2>2, <2>3 DEF NodesSound
<1> QED BY <1>2, <1>3 DEF Sound

LEMMA SameIsSymmetric ==
  ASSUME NEW fn, NEW gn, Same(fn, gn)
  PROVE  Same(gn, fn)
BY DEF Same

LEMMA SameIsReflexive == \A fn : Same(fn, fn)
BY DEF Same

LEMMA SameIsTransitive ==
  ASSUME NEW fn, NEW gn, NEW hn, Same(fn, gn), Same(gn, hn)
  PROVE  Same(fn, hn)
BY DEF Same

\* Sound nodes are the ones the identity file accepts.
LEMMA SoundIsValid ==
  ASSUME NEW nodes, NodesSound(nodes)
  PROVE  I!ValidNodes(nodes)
<1>1. ASSUME NEW u \in DOMAIN nodes PROVE nodes[u].parent \in DOMAIN nodes \cup {Main, Bin}
  BY DEF NodesSound, Sits
<1>2. ASSUME NEW u \in DOMAIN nodes, NEW v \in DOMAIN nodes, u # v,
             <<nodes[u].parent, nodes[u].order>> = <<nodes[v].parent, nodes[v].order>>
      PROVE  FALSE
  BY <1>2 DEF NodesSound
<1> QED BY <1>1, <1>2 DEF I!ValidNodes

\* One more file with its node.
LEMMA OneMore ==
  ASSUME NEW files, NEW nodes, Sound(files, nodes), NEW n,
         n.uuid \notin DOMAIN nodes, n.path \notin DOMAIN files,
         Sits(nodes, n.path, n.parent),
         \A u \in DOMAIN nodes : nodes[u].parent = n.parent => nodes[u].order # n.order,
         NEW more, NEW entries,
         \A p : p \in DOMAIN more <=> p \in DOMAIN files \/ p = n.path,
         \A p \in DOMAIN files : more[p] = files[p], more[n.path] = n.uuid,
         \A u : u \in DOMAIN entries <=> u \in DOMAIN nodes \/ u = n.uuid,
         \A u \in DOMAIN nodes : entries[u] = nodes[u], entries[n.uuid] = I!Recorded(n)
  PROVE  Sound(more, entries)
<1>1. /\ entries[n.uuid].path = n.path /\ entries[n.uuid].parent = n.parent
      /\ entries[n.uuid].order = n.order
  BY DEF I!Recorded
<1>2. /\ \A u \in DOMAIN nodes : nodes[u].path \in DOMAIN files /\ files[nodes[u].path] = u
      /\ \A p \in DOMAIN files : files[p] \in DOMAIN nodes /\ nodes[files[p]].path = p
      /\ NodesSound(nodes)
  BY DEF Sound, Agree, FilesNamed
<1>3. ASSUME NEW u \in DOMAIN entries
      PROVE  entries[u].path \in DOMAIN more /\ more[entries[u].path] = u
  BY <1>1, <1>2
<1>4. ASSUME NEW p \in DOMAIN more
      PROVE  more[p] \in DOMAIN entries /\ entries[more[p]].path = p
  BY <1>1, <1>2
<1>5. ASSUME NEW u \in DOMAIN entries, NEW v \in DOMAIN entries,
             \/ entries[u].path = entries[v].path
             \/ entries[u].parent = entries[v].parent /\ entries[u].order = entries[v].order
      PROVE  u = v
  BY <1>1, <1>2, <1>3, <1>5 DEF NodesSound
<1>6. ASSUME NEW u \in DOMAIN entries
      PROVE  Sits(entries, entries[u].path, entries[u].parent)
  BY <1>1, <1>2 DEF NodesSound, Sits
<1> QED BY <1>3, <1>4, <1>5, <1>6 DEF Sound, Agree, FilesNamed, NodesSound

\* A file no node below names holds nothing.
LEMMA HoldsNothing ==
  ASSUME NamesStandApart, TreeShaped, NEW p \in I!Path,
         Sound(I!Without(disk, {p}), identity)
  PROVE  \A q \in DOMAIN disk : I!Front(q) # p
<1> SUFFICES ASSUME NEW q \in DOMAIN disk, I!Front(q) = p PROVE FALSE
  OBVIOUS
<1> DEFINE rest == I!Without(disk, {p})
<1>1. /\ \A x : x \in DOMAIN rest <=> x \in DOMAIN disk /\ x # p
  BY WithoutFacts
<1> HIDE DEF rest
<1>2. q \in I!Path /\ q # p
  BY PathFacts DEF TreeShaped, TreeTyped
<1>3. q \in DOMAIN rest
  BY <1>1, <1>2
<1>4. Agree(rest, identity) /\ NodesSound(identity)
  BY DEF Sound, rest
<1>5. rest[q] \in DOMAIN identity /\ identity[rest[q]].path = q
  BY <1>3, <1>4 DEF Agree, FilesNamed
<1>6. Sits(identity, q, identity[rest[q]].parent)
  BY <1>4, <1>5 DEF NodesSound
<1>7. \E v \in DOMAIN identity : identity[v].path = p
  BY <1>6, RootsAreNoPaths DEF Sits
<1> QED BY <1>1, <1>4, <1>7 DEF Agree

(***************************************************************************)
(* What the transactions leave, of any files and nodes.                    *)
(***************************************************************************)
MadeOn(files, nodes) ==
  [p \in DOMAIN files \cup {n.path : n \in nodes} |->
     IF p \in DOMAIN files THEN files[p] ELSE (CHOOSE n \in nodes : n.path = p).uuid]
NamedBy(entries, nodes) ==
  I!Over([u \in {n.uuid : n \in nodes} |-> I!Recorded(CHOOSE n \in nodes : n.uuid = u)],
         entries)
MovedEntries(entries, n) ==
  LET old == entries[n.uuid].path IN
  [u \in DOMAIN entries |->
     IF u = n.uuid THEN I!Recorded(n)
     ELSE IF I!IsPrefix(old, entries[u].path) /\ entries[u].path # old
          THEN [entries[u] EXCEPT !.path = I!Rebased(@, old, n.path)]
          ELSE entries[u]]
RemovedEntries(entries, nodes) ==
  I!Without(entries, {n.uuid : n \in nodes}
                       \cup {u \in DOMAIN entries : entries[u].parent \in {n.uuid : n \in nodes}})

LEMMA IdentityChanges ==
  /\ \A nodes : I!Appended(nodes) = NamedBy(identity, nodes)
  /\ \A n : I!Relocated(n) = MovedEntries(identity, n)
  /\ \A nodes : I!RemoveNodes(nodes) = RemovedEntries(identity, nodes)
BY DEF I!Appended, NamedBy, I!Relocated, MovedEntries, I!RemoveNodes, I!Descendants, RemovedEntries

\* The node of a move: known before, at a place of its own below a known parent.
Relocates(entries, n, old) ==
  /\ n.uuid \in DOMAIN entries /\ entries[n.uuid].path = old
  /\ Sits(entries, n.path, n.parent)
  /\ \A v \in DOMAIN entries :
       v # n.uuid /\ entries[v].parent = n.parent => entries[v].order # n.order

\* The files of a move and its nodes go the same way.
LEMMA MoveIsSound ==
  ASSUME NamesStandApart, TreeShaped, Sound(disk, identity),
         NEW n \in I!Node, NEW old \in I!Path, Relocates(identity, n, old),
         I!SameKind(I!Last(old), I!Last(n.path)), n.path \notin DOMAIN disk,
         I!Front(n.path) \in I!Path => I!Front(n.path) \in DOMAIN disk,
         NEW moved, moved = I!MovedDisk(old, n.path), NEW now, now = MovedEntries(identity, n)
  PROVE  Sound(moved, now) /\ n.path \in DOMAIN moved
<1> DEFINE new == n.path
           go(p) == Going(p, old, n.path)
<1>1. new \in I!Path /\ I!SameKind(I!Last(old), I!Last(new)) /\ new = n.path
  BY DEF I!Node
<1>2. DOMAIN disk \subseteq I!Path /\ DiskIsATree /\ \A u \in DOMAIN identity : identity[u] \in TreeEntry
  BY DEF TreeShaped, TreeTyped
<1>3. /\ n.uuid \in DOMAIN identity /\ identity[n.uuid].path = old
      /\ NodesSound(identity) /\ Agree(disk, identity)
  BY DEF Relocates, Sound
<1>4. /\ DOMAIN now = DOMAIN identity
      /\ now[n.uuid] = I!Recorded(n)
      /\ \A u \in DOMAIN identity : u # n.uuid =>
           /\ now[u].parent = identity[u].parent /\ now[u].order = identity[u].order
           /\ identity[u].path # old => now[u].path = go(identity[u].path)
  BY <1>1, <1>2, <1>3, IdentityChanges, RelocatedFacts
<1>5. \A p \in I!Path : /\ go(p) \in I!Path
                        /\ p = old => go(p) = new
                        /\ p # old /\ I!Front(p) = old => I!Front(go(p)) = new
                        /\ p # old /\ I!Front(p) # old => go(p) = p
  BY <1>1, GoingFacts
<1>6. /\ \A p \in DOMAIN disk : go(p) \in DOMAIN moved /\ moved[go(p)] = disk[p]
      /\ \A r \in DOMAIN moved :
           r \in I!Path /\ \E p \in DOMAIN disk : r = go(p) /\ moved[r] = disk[p]
  BY <1>1, <1>2, MovedFacts
<1> HIDE DEF go
<1>7. \A u \in DOMAIN identity : identity[u].path \in I!Path
  BY <1>2 DEF TreeEntry
<1>8. \A u, v \in DOMAIN identity : identity[u].path = identity[v].path => u = v
  BY <1>3 DEF NodesSound
<1>9. \A u \in DOMAIN identity : now[u].path = go(identity[u].path)
  BY <1>3, <1>4, <1>5, <1>8 DEF I!Recorded
<1>10. now[n.uuid].parent = n.parent /\ now[n.uuid].order = n.order
  BY <1>4 DEF I!Recorded
<1>11. Agree(moved, now)
  <2>1. ASSUME NEW u \in DOMAIN now PROVE now[u].path \in DOMAIN moved /\ moved[now[u].path] = u
    BY <1>3, <1>4, <1>6, <1>9 DEF Agree
  <2>2. ASSUME NEW r \in DOMAIN moved PROVE moved[r] \in DOMAIN now /\ now[moved[r]].path = r
    BY <1>3, <1>4, <1>6, <1>9 DEF Agree, FilesNamed
  <2> QED BY <2>1, <2>2 DEF Agree, FilesNamed
<1>12. ASSUME NEW u \in DOMAIN now, NEW v \in DOMAIN now,
              \/ now[u].path = now[v].path
              \/ now[u].parent = now[v].parent /\ now[u].order = now[v].order
       PROVE  u = v
  <2>1. CASE now[u].path = now[v].path
    BY <1>11, <2>1 DEF Agree
  <2>2. CASE now[u].parent = now[v].parent /\ now[u].order = now[v].order
    BY <1>3, <1>4, <1>10, <2>2 DEF NodesSound, Relocates
  <2> QED BY <1>12, <2>1, <2>2
<1>13. \A p \in I!Path : I!Front(p) \in I!Path => I!Front(I!Front(p)) \notin I!Path
  BY PathFacts
<1>14. ASSUME NEW u \in DOMAIN now
       PROVE  Sits(now, now[u].path, now[u].parent)
  <2>1. CASE u = n.uuid
    <3>1. Sits(identity, new, n.parent) /\ now[u].path = new /\ now[u].parent = n.parent
      BY <1>4, <1>10, <2>1 DEF Relocates, I!Recorded
    <3>2. ASSUME I!Front(new) \in I!Path, n.parent \in DOMAIN identity,
                 identity[n.parent].path = I!Front(new)
          PROVE  now[n.parent].path = I!Front(new)
      BY <1>1, <1>5, <1>9, <1>13, <3>2, PathFacts DEF I!SameKind, NamesStandApart
    <3> QED BY <1>4, <3>1, <3>2 DEF Sits
  <2>2. CASE u # n.uuid
    <3> DEFINE p == identity[u].path
    <3>1. /\ Sits(identity, p, identity[u].parent) /\ now[u].parent = identity[u].parent
          /\ p \in I!Path /\ p # old /\ now[u].path = go(p)
      BY <1>3, <1>4, <1>7, <1>8, <1>9, <2>2 DEF NodesSound
    <3> HIDE DEF p
    <3>2. CASE I!Front(p) = old
      <4>1. identity[u].parent \in DOMAIN identity /\ identity[identity[u].parent].path = old
        BY <3>1, <3>2, RootsAreNoPaths DEF Sits
      <4>2. identity[u].parent = n.uuid
        BY <1>3, <1>8, <4>1
      <4>3. I!Front(go(p)) = new /\ now[n.uuid].path = new
        BY <1>5, <1>9, <1>3, <3>1, <3>2
      <4> QED BY <1>1, <1>3, <1>4, <3>1, <4>2, <4>3 DEF Sits
    <3>3. CASE I!Front(p) # old
      <4>1. go(p) = p
        BY <1>5, <3>1, <3>3
      <4>2. ASSUME I!Front(p) \in I!Path, identity[u].parent \in DOMAIN identity,
                   identity[identity[u].parent].path = I!Front(p)
            PROVE  now[identity[u].parent].path = I!Front(p)
        BY <1>5, <1>9, <1>13, <3>1, <3>3, <4>2
      <4> QED BY <1>4, <3>1, <4>1, <4>2 DEF Sits
    <3> QED BY <3>2, <3>3
  <2> QED BY <2>1, <2>2
<1>15. new \in DOMAIN moved
  BY <1>3, <1>5, <1>6 DEF Agree
<1> QED BY <1>11, <1>12, <1>14, <1>15 DEF Sound, NodesSound

\* A removal that has taken every file of its nodes, or none below those that stand.
LEMMA RemovalIsSound ==
  ASSUME NamesStandApart, TreeShaped, NodesSound(identity), FilesNamed(disk, identity),
         NEW nodes,
         \A n \in nodes : /\ n.uuid \in DOMAIN identity /\ identity[n.uuid].path = n.path
                          /\ n.path \notin DOMAIN disk,
         \A u \in DOMAIN identity :
           \/ identity[u].path \in DOMAIN disk
           \/ \E n \in nodes : n.uuid = u \/ n.uuid = identity[u].parent,
         NEW now, now = RemovedEntries(identity, nodes)
  PROVE  Sound(disk, now)
<1>1. /\ \A u : u \in DOMAIN now <=>
           /\ u \in DOMAIN identity
           /\ \A n \in nodes : n.uuid # u /\ n.uuid # identity[u].parent
      /\ \A u \in DOMAIN now : now[u] = identity[u]
  BY RemovedFacts, IdentityChanges
<1>2. /\ \A p \in DOMAIN disk : disk[p] \in DOMAIN identity /\ identity[disk[p]].path = p
      /\ \A u, v \in DOMAIN identity : identity[u].path = identity[v].path => u = v
  BY DEF FilesNamed, NodesSound
<1>3. \A u \in DOMAIN identity : identity[u].path \in I!Path /\ u \in Uuid
  BY DEF TreeShaped, TreeTyped, TreeEntry
<1>4. \A u \in DOMAIN identity : \A n \in nodes : n.uuid = identity[u].parent =>
        I!Front(identity[u].path) = n.path /\ n.path \in I!Path
  BY <1>3 DEF NodesSound, Sits, NamesStandApart
<1>5. ASSUME NEW u \in DOMAIN now
      PROVE  now[u].path \in DOMAIN disk /\ disk[now[u].path] = u
  BY <1>1, <1>2
<1>6. ASSUME NEW p \in DOMAIN disk
      PROVE  disk[p] \in DOMAIN now /\ now[disk[p]].path = p
  <2>1. disk[p] \in DOMAIN identity /\ identity[disk[p]].path = p
    BY <1>2
  <2>2. ASSUME NEW n \in nodes, n.uuid = identity[disk[p]].parent PROVE FALSE
    BY <1>4, <2>1, <2>2 DEF TreeShaped, DiskIsATree
  <2>3. ASSUME NEW n \in nodes, n.uuid = disk[p] PROVE FALSE
    BY <2>1, <2>3
  <2>4. disk[p] \in DOMAIN now
    BY <1>1, <2>1, <2>2, <2>3
  <2> QED BY <1>1, <2>1, <2>4
<1>7. ASSUME NEW u \in DOMAIN now, NEW v \in DOMAIN now,
             \/ now[u].path = now[v].path
             \/ now[u].parent = now[v].parent /\ now[u].order = now[v].order
      PROVE  u = v
  BY <1>1, <1>7 DEF NodesSound
<1>8. ASSUME NEW u \in DOMAIN now PROVE Sits(now, now[u].path, now[u].parent)
  <2>1. now[u] = identity[u] /\ u \in DOMAIN identity
        /\ Sits(identity, identity[u].path, identity[u].parent)
    BY <1>1 DEF NodesSound
  <2>2. ASSUME I!Front(identity[u].path) \in I!Path, identity[u].parent \in DOMAIN identity,
               identity[identity[u].parent].path = I!Front(identity[u].path)
        PROVE  identity[u].parent \in DOMAIN now
    <3>1. ASSUME NEW n \in nodes, n.uuid = identity[identity[u].parent].parent PROVE FALSE
      BY <1>3, <1>4, <2>1, <2>2, <3>1, PathFacts
    <3>2. \A n \in nodes : n.uuid # identity[u].parent
      BY <1>1
    <3> QED BY <1>1, <2>2, <3>1, <3>2
  <2> QED BY <1>1, <2>1, <2>2 DEF Sits
<1> QED BY <1>5, <1>6, <1>7, <1>8 DEF Sound, Agree, FilesNamed, NodesSound

(***************************************************************************)
(* What holds between the steps of each transaction, and what recovery of  *)
(* its journal comes to.                                                   *)
(***************************************************************************)
Distinct(nodes) ==
  nodes # {} /\ \A m, n \in nodes : m.path = n.path \/ m.uuid = n.uuid => m = n
AllNamed(entries, nodes) ==
  \A n \in nodes : n.uuid \in DOMAIN entries /\ entries[n.uuid] = I!Recorded(n)
Childless(entries, nodes) ==
  \A n \in nodes : \A u \in DOMAIN entries : entries[u].parent # n.uuid
PathsOf(nodes) == {n.path : n \in nodes}

\* Files that are being made: sound without them, and sound with all of them.
Unmade(files, entries, nodes) ==
  /\ Sound(I!Without(files, PathsOf(nodes)), entries)
  /\ Sound(MadeOn(files, nodes), NamedBy(entries, nodes))
  /\ \A n \in nodes : n.uuid \notin DOMAIN entries
  /\ Childless(entries, nodes)
  /\ \A n \in nodes : n.path \in DOMAIN files => files[n.path] = n.uuid

MakingSound(files, entries, j, stage) ==
  /\ Distinct(j.nodes)
  /\ j.kind = "adopt" => \E n \in j.nodes : j.nodes = {n}
  /\ stage \in {"copied", "files", "identity"} => Unmade(files, entries, j.nodes)
  /\ stage = "identity" => \A n \in j.nodes : n.path \in DOMAIN files
  /\ stage \in {"unlink", "content"} =>
       /\ Sound(files, entries) /\ AllNamed(entries, j.nodes)
       /\ j.kind = "adopt" => Childless(entries, j.nodes)

ReleasingSound(files, entries, j, stage) ==
  /\ \E n \in j.nodes : j.nodes = {n}
  /\ stage = "identity" =>
       Sound(files, entries) /\ AllNamed(entries, j.nodes) /\ Childless(entries, j.nodes)
  /\ stage = "files" =>
       /\ Sound(I!Without(files, PathsOf(j.nodes)), entries)
       /\ \A n \in j.nodes : n.uuid \notin DOMAIN entries
  /\ stage = "unlink" => Sound(files, entries) /\ \A n \in j.nodes : n.path \notin DOMAIN files

MovingSound(files, entries, j, stage, target) ==
  \E n \in j.nodes :
    /\ j.nodes = {n}
    /\ stage = "files" => Sound(files, entries) /\ Relocates(entries, n, target)
    /\ stage = "identity" =>
         /\ n.path \in DOMAIN files /\ n.uuid \in DOMAIN entries
         /\ Sound(files, MovedEntries(entries, n))
    /\ stage = "unlink" => AllNamed(entries, j.nodes)
    /\ stage \in {"unlink", "record", "tombstone"} => Sound(files, entries)

\* What a deletion has left so far, S being what it takes.
Deleting(files, entries, nodes, S) ==
  /\ NodesSound(entries) /\ FilesNamed(files, entries)
  /\ \A n \in nodes : /\ n.uuid \in DOMAIN entries /\ entries[n.uuid].path = n.path
                      /\ n.path \in S
  /\ \A u \in DOMAIN entries : entries[u].path \in S => \E n \in nodes : n.uuid = u
  /\ \A u \in DOMAIN entries :
       entries[u].path \in DOMAIN files \/ entries[u].path \in S \/ I!Front(entries[u].path) \in S

RemovingSound(files, entries, j, stage, target) ==
  /\ j.nodes # {}
  /\ stage = "files" => Deleting(files, entries, j.nodes, target)
  /\ stage = "identity" => Sound(files, RemovedEntries(entries, j.nodes))
  /\ stage = "unlink" => Sound(files, entries) /\ \A n \in j.nodes : n.uuid \notin DOMAIN entries
  /\ stage \in {"identity", "unlink"} => \A n \in j.nodes : n.path \notin DOMAIN files

CommandSound(files, entries, j, stage, target) ==
  /\ j.kind \in {"create", "adopt"} => MakingSound(files, entries, j, stage)
  /\ j.kind = "release" => ReleasingSound(files, entries, j, stage)
  /\ j.kind = "relocate" => MovingSound(files, entries, j, stage, target)
  /\ j.kind = "remove" => RemovingSound(files, entries, j, stage, target)

Journalled == {"files", "identity", "unlink"}

\* Recovery of a journal reaches files and nodes that fit.
RecoversOn(files, entries, j) ==
  /\ j.kind \in {"create", "adopt"} =>
       /\ Distinct(j.nodes)
       /\ \A n \in j.nodes : n.uuid \in DOMAIN entries => entries[n.uuid] = I!Recorded(n)
       /\ Sound(MadeOn(files, j.nodes), NamedBy(entries, j.nodes))
  /\ j.kind = "release" =>
       /\ \E n \in j.nodes : j.nodes = {n}
       /\ Sound(I!Without(files, PathsOf({n \in j.nodes : n.uuid \notin DOMAIN entries})), entries)
  /\ j.kind = "relocate" =>
       \E n \in j.nodes :
         /\ j.nodes = {n}
         /\ n.path \in DOMAIN files =>
              n.uuid \in DOMAIN entries /\ Sound(files, MovedEntries(entries, n))
         /\ n.path \notin DOMAIN files => Sound(files, entries)
  /\ j.kind = "remove" =>
       LET gone == {n \in j.nodes : n.path \notin DOMAIN files} IN
       /\ gone # {} => Sound(files, RemovedEntries(entries, gone))
       /\ gone = {} => Sound(files, entries)

\* Every difference of the files from the identity is explained.
Explains ==
  /\ project # "blocked"
  /\ step = Idle /\ journals = {} => Sound(disk, identity)
  /\ step = Idle => \A j \in journals : journals = {j} /\ RecoversOn(disk, identity, j)
  /\ step # Idle =>
       /\ CommandSound(disk, identity, step.journal, step.stage, step.target)
       /\ step.stage \in Journalled => journals = {step.journal}
       /\ step.stage \notin Journalled => journals = {}

TreeExplained == causes = {} => Explains

LEMMA NamedByFacts ==
  ASSUME NEW nodes, Distinct(nodes), NEW now, now = NamedBy(identity, nodes),
         \A n \in nodes : n.uuid \in DOMAIN identity => identity[n.uuid] = I!Recorded(n)
  PROVE  /\ \A u : u \in DOMAIN now <=> u \in DOMAIN identity \/ \E n \in nodes : n.uuid = u
         /\ \A n \in nodes : now[n.uuid] = I!Recorded(n)
         /\ \A u \in DOMAIN identity : now[u] = identity[u]
<1>1. now = I!Appended(nodes)
  BY IdentityChanges
<1>2. /\ \A u : u \in DOMAIN now <=> u \in DOMAIN identity \/ \E n \in nodes : n.uuid = u
      /\ \A u \in DOMAIN now :
           \/ \E n \in nodes : n.uuid = u /\ now[u] = I!Recorded(n)
           \/ /\ u \in DOMAIN identity /\ \A n \in nodes : n.uuid # u
              /\ now[u] = identity[u]
  BY <1>1, AppendedFacts
<1>3. ASSUME NEW n \in nodes PROVE now[n.uuid] = I!Recorded(n)
  BY <1>2 DEF Distinct
<1>4. ASSUME NEW u \in DOMAIN identity PROVE now[u] = identity[u]
  BY <1>2
<1> QED BY <1>2, <1>3, <1>4

LEMMA MadeOnFacts ==
  ASSUME NEW files, NEW nodes, Distinct(nodes), NEW now, now = MadeOn(files, nodes)
  PROVE  /\ \A p : p \in DOMAIN now <=> p \in DOMAIN files \/ \E n \in nodes : n.path = p
         /\ \A p \in DOMAIN files : now[p] = files[p]
         /\ \A n \in nodes : n.path \notin DOMAIN files => now[n.path] = n.uuid
<1>1. /\ \A p : p \in DOMAIN now <=> p \in DOMAIN files \/ \E n \in nodes : n.path = p
      /\ \A p \in DOMAIN files : now[p] = files[p]
  BY DEF MadeOn
<1>2. ASSUME NEW n \in nodes, n.path \notin DOMAIN files PROVE now[n.path] = n.uuid
  <2> DEFINE m == CHOOSE m \in nodes : m.path = n.path
  <2>1. m \in nodes /\ m.path = n.path
    OBVIOUS
  <2>2. m = n
    BY <2>1 DEF Distinct
  <2>3. now[n.path] = m.uuid
    BY <1>2 DEF MadeOn
  <2> QED BY <2>2, <2>3
<1> QED BY <1>1, <1>2

\* The folders made on the way are there, where the result is sound.
LEMMA MadeIsMadeOn ==
  ASSUME NamesStandApart, TreeShaped, NEW nodes, Distinct(nodes), nodes \subseteq TreeNodes,
         \A n \in nodes : n.uuid \in DOMAIN identity => identity[n.uuid] = I!Recorded(n),
         Sound(MadeOn(disk, nodes), NamedBy(identity, nodes))
  PROVE  /\ Same(I!Made(nodes), MadeOn(disk, nodes))
         /\ \A n \in nodes : I!Front(n.path) \in I!Path =>
              \/ I!Front(n.path) \in DOMAIN disk \/ \E m \in nodes : m.path = I!Front(n.path)
<1> DEFINE made == I!Made(nodes)
           on == MadeOn(disk, nodes)
           now == NamedBy(identity, nodes)
<1>1. /\ \A p : p \in DOMAIN made <=> \/ p \in DOMAIN disk
                                      \/ \E n \in nodes : n.path = p
                                      \/ p \in I!Path /\ \E n \in nodes : I!Front(n.path) = p
      /\ \A p \in DOMAIN disk : made[p] = disk[p]
      /\ \A p \in DOMAIN made : p \notin DOMAIN disk =>
           \/ \E n \in nodes : n.path = p /\ made[p] = n.uuid
           \/ (\A n \in nodes : n.path # p) /\ made[p] = Main
  BY MadeFacts
<1>2. /\ \A p : p \in DOMAIN on <=> p \in DOMAIN disk \/ \E n \in nodes : n.path = p
      /\ \A p \in DOMAIN disk : on[p] = disk[p]
      /\ \A n \in nodes : n.path \notin DOMAIN disk => on[n.path] = n.uuid
  BY MadeOnFacts
<1>3. /\ \A u : u \in DOMAIN now <=> u \in DOMAIN identity \/ \E n \in nodes : n.uuid = u
      /\ \A n \in nodes : now[n.uuid] = I!Recorded(n)
  BY NamedByFacts
<1> HIDE DEF made, on, now
<1>4. Sound(on, now)
  BY DEF on, now
<1>5. ASSUME NEW n \in nodes, I!Front(n.path) \in I!Path
      PROVE  I!Front(n.path) \in DOMAIN on
  <2>4. n.uuid \in DOMAIN now
    BY <1>3
  <2>5. now[n.uuid] = I!Recorded(n)
    BY <1>3
  <2>1. n.uuid \in DOMAIN now /\ now[n.uuid].path = n.path
    BY <2>4, <2>5 DEF I!Recorded
  <2>2. Sits(now, n.path, now[n.uuid].parent)
    BY <1>4, <2>1 DEF Sound, NodesSound
  <2>3. \E v \in DOMAIN now : now[v].path = I!Front(n.path)
    BY <1>5, <2>2, RootsAreNoPaths DEF Sits
  <2> QED BY <1>4, <2>3 DEF Sound, Agree
<1>6. \A p : p \in DOMAIN made <=> p \in DOMAIN on
  BY <1>1, <1>2, <1>5
<1>7. ASSUME NEW p \in DOMAIN made PROVE made[p] = on[p]
  <2>1. CASE p \in DOMAIN disk
    BY <1>1, <1>2, <2>1
  <2>2. CASE p \notin DOMAIN disk
    BY <1>1, <1>2, <1>6, <2>2
  <2> QED BY <2>1, <2>2
<1>8. Same(made, on)
  BY <1>6, <1>7 DEF Same
<1> QED BY <1>2, <1>5, <1>8 DEF made, on

LEMMA WithoutSame ==
  ASSUME NEW files, NEW gone, \A p \in gone : p \notin DOMAIN files
  PROVE  Same(files, I!Without(files, gone))
<1> DEFINE rest == I!Without(files, gone)
<1>1. /\ \A x : x \in DOMAIN rest <=> x \in DOMAIN files /\ x \notin gone
      /\ \A x \in DOMAIN rest : rest[x] = files[x]
  BY WithoutFacts
<1> HIDE DEF rest
<1>2. Same(files, rest)
  BY <1>1 DEF Same
<1> QED BY <1>2 DEF rest

\* A creation or an adoption that has not ended.
LEMMA MakingRecovers ==
  ASSUME NEW j, j.kind \in {"create", "adopt"}, NEW stage \in Journalled,
         MakingSound(disk, identity, j, stage)
  PROVE  RecoversOn(disk, identity, j)
<1>1. Distinct(j.nodes)
  BY DEF MakingSound
<1>2. /\ \A n \in j.nodes : n.uuid \in DOMAIN identity => identity[n.uuid] = I!Recorded(n)
      /\ Sound(MadeOn(disk, j.nodes), NamedBy(identity, j.nodes))
  <2>1. CASE stage \in {"files", "identity"}
    BY <2>1 DEF MakingSound, Unmade
  <2>2. CASE stage = "unlink"
    <3> DEFINE on == MadeOn(disk, j.nodes)
               now == NamedBy(identity, j.nodes)
    <3>1. Sound(disk, identity) /\ AllNamed(identity, j.nodes)
      BY <2>2 DEF MakingSound
    <3>2. \A n \in j.nodes : n.uuid \in DOMAIN identity /\ identity[n.uuid] = I!Recorded(n)
      BY <3>1 DEF AllNamed
    <3>3. \A n \in j.nodes : n.path \in DOMAIN disk
      <4> SUFFICES ASSUME NEW n \in j.nodes PROVE n.path \in DOMAIN disk
        OBVIOUS
      <4>1. identity[n.uuid].path = n.path
        <5>1. identity[n.uuid] = I!Recorded(n)
          BY <3>2
        <5> QED BY <5>1 DEF I!Recorded
      <4> QED BY <3>1, <3>2, <4>1 DEF Sound, Agree
    <3>4. /\ \A p : p \in DOMAIN on <=> p \in DOMAIN disk \/ \E n \in j.nodes : n.path = p
          /\ \A p \in DOMAIN disk : on[p] = disk[p]
      BY <1>1, MadeOnFacts
    <3>5. /\ \A u : u \in DOMAIN now <=> u \in DOMAIN identity \/ \E n \in j.nodes : n.uuid = u
          /\ \A u \in DOMAIN identity : now[u] = identity[u]
      BY <1>1, <3>2, NamedByFacts
    <3> HIDE DEF on, now
    <3>6. Same(disk, on)
      BY <3>3, <3>4 DEF Same
    <3>7. Same(identity, now)
      BY <3>2, <3>5 DEF Same
    <3>8. Sound(on, now)
      BY <3>1, <3>6, <3>7, SoundSame
    <3> QED BY <3>2, <3>8 DEF on, now
  <2> QED BY <2>1, <2>2 DEF Journalled
<1> QED BY <1>1, <1>2 DEF RecoversOn

\* Giving an adopted id back.
LEMMA ReleasingRecovers ==
  ASSUME NEW j, j.kind = "release", NEW stage \in Journalled,
         ReleasingSound(disk, identity, j, stage)
  PROVE  RecoversOn(disk, identity, j)
<1> DEFINE nameless == {n \in j.nodes : n.uuid \notin DOMAIN identity}
<1>1. \E n \in j.nodes : j.nodes = {n}
  BY DEF ReleasingSound
<1>2. CASE stage = "files"
  BY <1>1, <1>2 DEF ReleasingSound, RecoversOn
<1>3. CASE stage # "files"
  <2>1. Sound(disk, identity)
    BY <1>3 DEF ReleasingSound, Journalled
  <2>2. \A p \in PathsOf(nameless) : p \notin DOMAIN disk
    BY <1>3 DEF ReleasingSound, Journalled, AllNamed, PathsOf
  <2> HIDE DEF nameless
  <2>3. Same(disk, I!Without(disk, PathsOf(nameless)))
    BY <2>2, WithoutSame
  <2>4. Same(identity, identity)
    BY SameIsReflexive
  <2>5. Sound(I!Without(disk, PathsOf(nameless)), identity)
    BY <2>1, <2>3, <2>4, SoundSame
  <2> QED BY <1>1, <2>5 DEF RecoversOn, nameless
<1> QED BY <1>2, <1>3

\* Moving a node to where it is changes nothing.
LEMMA MovedInPlace ==
  ASSUME NamesStandApart, TreeShaped, NEW n \in I!Node, n.uuid \in DOMAIN identity,
         identity[n.uuid] = I!Recorded(n), NodesSound(identity)
  PROVE  Same(identity, MovedEntries(identity, n))
<1> DEFINE now == MovedEntries(identity, n)
<1>1. identity[n.uuid].path = n.path /\ n.path \in I!Path
  BY DEF I!Recorded, I!Node
<1>2. \A u \in DOMAIN identity : identity[u] \in TreeEntry
  BY DEF TreeShaped, TreeTyped
<1>3. I!SameKind(I!Last(n.path), I!Last(n.path))
  BY DEF I!SameKind
<1>4. /\ DOMAIN now = DOMAIN identity
      /\ now[n.uuid] = I!Recorded(n)
      /\ \A u \in DOMAIN identity : u # n.uuid =>
           /\ now[u] \in TreeEntry
           /\ now[u].parent = identity[u].parent /\ now[u].order = identity[u].order
           /\ identity[u].path # identity[n.uuid].path =>
                now[u].path = Going(identity[u].path, identity[n.uuid].path, n.path)
  BY <1>1, <1>2, <1>3, IdentityChanges, RelocatedFacts
<1> HIDE DEF now
<1>5. ASSUME NEW u \in DOMAIN identity, u # n.uuid PROVE now[u] = identity[u]
  <2> DEFINE p == identity[u].path
  <2>1. p \in I!Path /\ p # n.path /\ identity[u] \in TreeEntry
    BY <1>1, <1>2, <1>5 DEF TreeEntry, NodesSound
  <2>2. now[u].path = Going(p, n.path, n.path)
    BY <1>1, <1>4, <1>5, <2>1
  <2> HIDE DEF p
  <2>3. Going(p, n.path, n.path) = p
    <3> DEFINE q == Going(p, n.path, n.path)
    <3>1. /\ q \in I!Path
          /\ I!Front(p) = n.path => I!Front(q) = n.path /\ I!Last(q) = I!Last(p)
          /\ I!Front(p) # n.path => q = p
      BY <1>1, <1>3, <2>1, GoingFacts
    <3> HIDE DEF q
    <3>2. \A r \in I!Path : r = Append(I!Front(r), I!Last(r))
      BY PathFacts, Zenon
    <3>4. ASSUME I!Front(p) = n.path PROVE q = p
      BY <2>1, <3>1, <3>2, <3>4
    <3>3. q = p
      BY <3>1, <3>4, Zenon
    <3> QED BY <3>3 DEF q
  <2>4. now[u].path = identity[u].path
    BY <2>2, <2>3 DEF p
  <2> QED BY <1>4, <1>5, <2>1, <2>4 DEF TreeEntry
<1>6. Same(identity, now)
  BY <1>4, <1>5 DEF Same
<1> QED BY <1>6 DEF now

LEMMA MovingRecovers ==
  ASSUME NamesStandApart, TreeShaped, NEW j, j.kind = "relocate", j.nodes \subseteq I!Node,
         NEW stage \in Journalled, NEW target,
         MovingSound(disk, identity, j, stage, target),
         stage = "files" => \A n \in j.nodes : n.path \notin DOMAIN disk
  PROVE  RecoversOn(disk, identity, j)
<1>1. PICK n \in j.nodes :
        /\ j.nodes = {n}
        /\ stage = "files" => Sound(disk, identity)
        /\ stage = "identity" =>
             /\ n.path \in DOMAIN disk /\ n.uuid \in DOMAIN identity
             /\ Sound(disk, MovedEntries(identity, n))
        /\ stage = "unlink" => AllNamed(identity, j.nodes) /\ Sound(disk, identity)
  BY DEF MovingSound
<1>2. CASE stage = "files"
  BY <1>1, <1>2 DEF RecoversOn
<1>3. CASE stage = "identity"
  BY <1>1, <1>3 DEF RecoversOn
<1>4. CASE stage = "unlink"
  <2>1. /\ Sound(disk, identity) /\ n.uuid \in DOMAIN identity /\ n \in I!Node
        /\ identity[n.uuid] = I!Recorded(n)
    BY <1>1, <1>4 DEF AllNamed
  <2>2. identity[n.uuid].path = n.path
    BY <2>1 DEF I!Recorded
  <2>3. n.path \in DOMAIN disk
    BY <2>1, <2>2 DEF Sound, Agree
  <2>4. Same(identity, MovedEntries(identity, n)) /\ Same(disk, disk)
    BY <2>1, MovedInPlace, SameIsReflexive DEF Sound
  <2>5. Sound(disk, MovedEntries(identity, n))
    BY <2>1, <2>4, SoundSame
  <2> QED BY <1>1, <2>1, <2>3, <2>5 DEF RecoversOn
<1> QED BY <1>2, <1>3, <1>4 DEF Journalled

\* No file has gone from below a node whose own file is still there.
Whole(files, entries, nodes) ==
  \A n \in nodes : n.path \in DOMAIN files =>
    \A u \in DOMAIN entries :
      u = n.uuid \/ entries[u].parent = n.uuid => entries[u].path \in DOMAIN files

LEMMA RemovingRecovers ==
  ASSUME NamesStandApart, TreeShaped, NEW j, j.kind = "remove", j.nodes \subseteq I!Node,
         NEW stage \in Journalled, NEW target \in SUBSET I!Path,
         RemovingSound(disk, identity, j, stage, target),
         stage = "files" => Whole(disk, identity, j.nodes)
  PROVE  RecoversOn(disk, identity, j)
<1> DEFINE gone == {n \in j.nodes : n.path \notin DOMAIN disk}
<1>1. CASE stage = "files"
  <2>1. Deleting(disk, identity, j.nodes, target)
    BY <1>1 DEF RemovingSound
  <2>2. \A n \in gone : /\ n.uuid \in DOMAIN identity /\ identity[n.uuid].path = n.path
                        /\ n.path \notin DOMAIN disk
    BY <2>1 DEF Deleting
  <2>3. ASSUME NEW u \in DOMAIN identity, identity[u].path \notin DOMAIN disk
        PROVE  \E n \in gone : n.uuid = u \/ n.uuid = identity[u].parent
    <3>1. CASE identity[u].path \in target
      BY <2>1, <2>3, <3>1 DEF Deleting
    <3>2. CASE I!Front(identity[u].path) \in target
      BY <1>1, <2>1, <2>3, <3>2, RootsAreNoPaths DEF Deleting, NodesSound, Sits, Whole
    <3> QED BY <2>1, <2>3, <3>1, <3>2 DEF Deleting
  <2>4. NodesSound(identity) /\ FilesNamed(disk, identity)
    BY <2>1 DEF Deleting
  <2> HIDE DEF gone
  <2>5. Sound(disk, RemovedEntries(identity, gone))
    BY <2>2, <2>3, <2>4, RemovalIsSound
  <2>6. ASSUME gone = {} PROVE Sound(disk, identity)
    BY <2>3, <2>4, <2>6 DEF Sound, Agree, FilesNamed, NodesSound
  <2> QED BY <2>5, <2>6 DEF RecoversOn, gone
<1>2. CASE stage = "identity"
  BY <1>2 DEF RemovingSound, RecoversOn
<1>3. CASE stage = "unlink"
  <2>1. /\ gone = j.nodes /\ Sound(disk, identity)
        /\ \A n \in j.nodes : n.uuid \notin DOMAIN identity
    BY <1>3 DEF RemovingSound
  <2> DEFINE now == RemovedEntries(identity, j.nodes)
  <2>2. /\ \A u : u \in DOMAIN now <=>
             /\ u \in DOMAIN identity
             /\ \A n \in j.nodes : n.uuid # u /\ n.uuid # identity[u].parent
        /\ \A u \in DOMAIN now : now[u] = identity[u]
    BY RemovedFacts, IdentityChanges
  <2> HIDE DEF now
  <2>3. ASSUME NEW u \in DOMAIN identity, NEW n \in j.nodes, n.uuid = identity[u].parent
        PROVE  FALSE
    BY <2>1, <2>3 DEF Sound, NodesSound, I!Node, Sits, NamesStandApart
  <2>4. Same(identity, now)
    BY <2>1, <2>2, <2>3 DEF Same
  <2>5. Same(disk, disk)
    BY SameIsReflexive
  <2>6. Sound(disk, now)
    BY <2>1, <2>4, <2>5, SoundSame
  <2> QED BY <2>1, <2>6 DEF RecoversOn, now
<1> QED BY <1>1, <1>2, <1>3 DEF Journalled

\* Whatever is interrupted, its journal brings files and identity together.
LEMMA CommandRecovers ==
  ASSUME NamesStandApart, TreeShaped, step # Idle, step.stage \in Journalled,
         CommandSound(disk, identity, step.journal, step.stage, step.target),
         step.journal.kind = "remove" /\ step.stage = "files" =>
           Whole(disk, identity, step.journal.nodes)
  PROVE  RecoversOn(disk, identity, step.journal)
<1> DEFINE j == step.journal
           stage == step.stage
           target == step.target
<1>1. /\ JournalFits(step.journal) /\ StepTyped
  BY TreeFits DEF TreeShaped
<1>2. j.nodes \subseteq I!Node
  BY <1>1 DEF JournalFits, TreeShaped, NodesFit
<1>3. j.kind = "relocate" /\ stage = "files" => \A n \in j.nodes : n.path \notin DOMAIN disk
  BY <1>1 DEF StepTyped, I!Movable, I!OnDisk
<1>4. j.kind = "remove" => target \in SUBSET I!Path
  BY <1>1 DEF StepTyped
<1>5. j.kind \in {"create", "adopt", "relocate", "remove", "release"}
  BY <1>1 DEF JournalFits, TreeJournal, I!JournalKind
<1> HIDE DEF j, stage, target
<1>6. /\ CommandSound(disk, identity, j, stage, target) /\ stage \in Journalled
      /\ j.kind = "remove" /\ stage = "files" => Whole(disk, identity, j.nodes)
  BY DEF j, stage, target
<1>7. ASSUME j.kind \in {"create", "adopt"} PROVE RecoversOn(disk, identity, j)
  BY <1>6, <1>7, MakingRecovers DEF CommandSound
<1>8. ASSUME j.kind = "release" PROVE RecoversOn(disk, identity, j)
  BY <1>6, <1>8, ReleasingRecovers DEF CommandSound
<1>9. ASSUME j.kind = "relocate" PROVE RecoversOn(disk, identity, j)
  BY <1>2, <1>3, <1>6, <1>9, MovingRecovers DEF CommandSound
<1>10. ASSUME j.kind = "remove" PROVE RecoversOn(disk, identity, j)
  BY <1>2, <1>4, <1>6, <1>10, RemovingRecovers DEF CommandSound
<1> QED BY <1>5, <1>7, <1>8, <1>9, <1>10 DEF j

(***************************************************************************)
(* The commands begin.                                                     *)
(***************************************************************************)

\* A command that starts without a cause starts at rest.
LEMMA AtRest ==
  ASSUME Explains, step = Idle, causes = {}, I!OverJournal \subseteq causes' , causes' = {}
  PROVE  journals = {} /\ Sound(disk, identity)
<1>1. journals = {}
  BY DEF I!OverJournal
<1> QED BY <1>1 DEF Explains

LEMMA BeginsExplained ==
  ASSUME IdleIsNoCommand, TreeShaped', journals = {}, NEW kind, NEW nodes,
         NEW target \in I!Path \cup {<<>>} \cup SUBSET I!Path,
         I!Begin(kind, nodes, "files", target), project' # "blocked",
         disk' = disk, identity' = identity,
         \A j : j.kind = kind /\ j.nodes = nodes =>
           CommandSound(disk, identity, j, "files", target)
  PROVE  Explains'
<1> DEFINE j == [kind |-> kind, nodes |-> nodes]
           first == "files"
<1>1. /\ journals' = {j} /\ step' = [journal |-> j, stage |-> first, target |-> target]
  BY DEF I!Begin
<1>2. CommandSound(disk, identity, j, first, target)
  <2>1. j.kind = kind /\ j.nodes = nodes
    OBVIOUS
  <2> HIDE DEF j
  <2> QED BY <2>1
<1>3. first \in TreeStages /\ first \in Journalled
  BY DEF TreeStages, Journalled
<1> HIDE DEF j, first
<1>4. j \in TreeJournal
  BY <1>1 DEF TreeShaped, TreeTyped
<1>5. step' \in TreeCommand
  BY <1>1, <1>3, <1>4 DEF TreeCommand
<1>6. step' # Idle /\ step'.journal = j /\ step'.stage = first /\ step'.target = target
  BY <1>1, <1>5 DEF IdleIsNoCommand
<1>7. CommandSound(disk', identity', step'.journal, step'.stage, step'.target)
  BY <1>2, <1>6
<1> QED BY <1>1, <1>3, <1>6, <1>7 DEF Explains

\* Nodes nobody knows, of files that are not there.
LEMMA UnmadeNow ==
  ASSUME NamesStandApart, TreeShaped, Sound(disk, identity), NEW nodes, Distinct(nodes),
         \A n \in nodes : n \in I!Node /\ n.uuid \notin issued /\ n.path \notin DOMAIN disk,
         Sound(MadeOn(disk, nodes), NamedBy(identity, nodes))
  PROVE  Unmade(disk, identity, nodes)
<1>1. Sound(I!Without(disk, PathsOf(nodes)), identity)
  BY WithoutSame, SameIsReflexive, SoundSame DEF PathsOf
<1>2. DOMAIN identity \subseteq issued
  BY DEF TreeShaped, TreeTyped
<1>3. ASSUME NEW n \in nodes, NEW u \in DOMAIN identity PROVE identity[u].parent # n.uuid
  BY <1>2 DEF Sound, NodesSound, Sits, I!Node, NamesStandApart
<1> QED BY <1>1, <1>2, <1>3 DEF Unmade, Childless

\* One new node and its file.
LEMMA OneMade ==
  ASSUME NamesStandApart, TreeShaped, Sound(disk, identity), NEW n \in I!Node,
         n.uuid \notin issued, n.path \notin DOMAIN disk, Sits(identity, n.path, n.parent),
         \A u \in DOMAIN identity : identity[u].parent = n.parent => identity[u].order # n.order
  PROVE  /\ Distinct({n}) /\ Unmade(disk, identity, {n})
<1> DEFINE nodes == {n}
           on == MadeOn(disk, nodes)
           now == NamedBy(identity, nodes)
<1>1. Distinct(nodes) /\ \A m : m \in nodes <=> m = n
  BY DEF Distinct
<1> HIDE DEF nodes
<1>2. /\ \A p : p \in DOMAIN on <=> p \in DOMAIN disk \/ p = n.path
      /\ \A p \in DOMAIN disk : on[p] = disk[p]
      /\ on[n.path] = n.uuid
  BY <1>1, MadeOnFacts
<1>3. DOMAIN identity \subseteq issued
  BY DEF TreeShaped, TreeTyped
<1>4. /\ \A u : u \in DOMAIN now <=> u \in DOMAIN identity \/ u = n.uuid
      /\ \A u \in DOMAIN identity : now[u] = identity[u]
      /\ now[n.uuid] = I!Recorded(n)
  BY <1>1, <1>3, NamedByFacts
<1> HIDE DEF on, now
<1>5. Sound(on, now)
  BY <1>2, <1>3, <1>4, OneMore
<1>6. Unmade(disk, identity, nodes)
  BY <1>1, <1>5, UnmadeNow DEF on, now
<1> QED BY <1>1, <1>6 DEF nodes

\* What is below a known path sits there.
LEMMA HolderSits ==
  ASSUME NamesStandApart, TreeShaped, NEW p \in I!Path, I!Known(I!Front(p))
  PROVE  Sits(identity, p, I!NodeForPath(I!Front(p)))
<1> DEFINE up == I!Front(p)
           node == I!NodeForPath(up)
<1>1. up \in I!Path \/ up = <<>> \/ up = <<Trash>>
  BY PathFacts
<1>2. I!Known(up) /\ TreeTyped
  BY DEF TreeShaped
<1> HIDE DEF up
<1>3. /\ up = <<>> => node = Main
      /\ up = <<Trash>> /\ up # <<>> => node = Bin
      /\ up \notin {<<>>, <<Trash>>} => node \in DOMAIN identity /\ identity[node].path = up
  BY <1>2, HolderFacts
<1> HIDE DEF node
<1>4. up \in I!Path => up \notin {<<>>, <<Trash>>}
  BY RootsAreNoPaths
<1>5. <<Trash>> # <<>>
  BY RootsAreNoPaths
<1> QED BY <1>1, <1>3, <1>4, <1>5 DEF Sits, up, node

LEMMA FreeOrder ==
  ASSUME TreeShaped, NEW parent
  PROVE  /\ I!NextOrder(identity, parent) \in Nat
         /\ \A u \in DOMAIN identity :
              identity[u].parent = parent => identity[u].order # I!NextOrder(identity, parent)
<1>1. PICK b \in Nat : \A v \in DOMAIN identity : identity[v].order \in Nat /\ identity[v].order <= b
  BY OrdersHaveABound
<1>2. /\ I!NextOrder(identity, parent) \in 0 .. b + 1
      /\ \A u \in DOMAIN identity :
           identity[u].parent = parent => identity[u].order < I!NextOrder(identity, parent)
  BY <1>1, NextOrderFacts
<1>3. \A k \in 0 .. b + 1 : k \in Nat
  BY <1>1
<1>4. \A i, k \in Nat : i < k => i # k
  OBVIOUS
<1> QED BY <1>1, <1>2, <1>3, <1>4

\* A new node at the next place below a known path.
LEMMA NewNodeIsUnmade ==
  ASSUME NamesStandApart, TreeShaped, Sound(disk, identity), NEW u \in Uuid \ issued,
         NEW parent, NEW name, Append(parent, name) \in I!Path \ DOMAIN disk,
         I!Front(Append(parent, name)) = parent, I!Known(parent),
         NEW n, n = I!NewNode(u, parent, name, I!NextOrder(identity, I!NodeForPath(parent)))
  PROVE  n \in I!Node /\ Distinct({n}) /\ Unmade(disk, identity, {n})
<1> DEFINE order == I!NextOrder(identity, I!NodeForPath(parent))
           path == Append(parent, name)
<1>1. /\ order \in Nat
      /\ \A v \in DOMAIN identity : identity[v].parent = I!NodeForPath(parent) => identity[v].order # order
  BY FreeOrder
<1>2. n = I!NewNode(u, parent, name, order)
  OBVIOUS
<1> HIDE DEF order
<1>3. /\ n \in I!Node /\ n.uuid = u /\ n.path = path
      /\ n.parent = I!NodeForPath(parent) /\ n.order = order
  BY <1>1, <1>2, NewNodeFacts
<1>4. path \in I!Path /\ path \notin DOMAIN disk /\ I!Front(path) = parent
  OBVIOUS
<1> HIDE DEF path
<1>5. Sits(identity, path, I!NodeForPath(parent))
  BY <1>4, HolderSits
<1>6. n.uuid \notin issued /\ n.path \notin DOMAIN disk /\ Sits(identity, n.path, n.parent)
  BY <1>3, <1>4, <1>5
<1> QED BY <1>1, <1>3, <1>6, OneMade

LEMMA MakingBegins ==
  ASSUME NEW nodes, Distinct(nodes), Unmade(disk, identity, nodes), NEW kind,
         kind = "create" \/ (kind = "adopt" /\ \E n \in nodes : nodes = {n}),
         NEW target
  PROVE  \A j : j.kind = kind /\ j.nodes = nodes =>
           CommandSound(disk, identity, j, "files", target)
<1> SUFFICES ASSUME NEW j, j.kind = kind, j.nodes = nodes
             PROVE  CommandSound(disk, identity, j, "files", target)
  OBVIOUS
<1>1. MakingSound(disk, identity, j, "files")
  BY DEF MakingSound
<1>2. j.kind # "release" /\ j.kind # "relocate" /\ j.kind # "remove"
  OBVIOUS
<1> QED BY <1>1, <1>2 DEF CommandSound

LEMMA CreateItemExplained ==
  ASSUME NamesStandApart, IdleIsNoCommand, TreeShaped, TreeShaped', Explains,
         causes = {}, causes' = {},
         NEW parent \in {<<>>} \cup {<<f>> : f \in FolderName}, NEW name \in I!Name,
         I!CreateItem(parent, name)
  PROVE  Explains'
<1>1. /\ project = "open" /\ step = Idle /\ Append(parent, name) \in I!Path \ DOMAIN disk
      /\ I!Known(parent) /\ disk' = disk /\ identity' = identity /\ project' = project
  BY DEF I!CreateItem, I!CanStart, I!Path
<1> DEFINE order == I!NextOrder(identity, I!NodeForPath(parent))
<1>2. PICK u \in Uuid \ issued :
        I!Begin("create", {I!NewNode(u, parent, name, order)}, "files", <<>>)
  BY DEF I!CreateItem
<1> DEFINE n == I!NewNode(u, parent, name, order)
<1>3. I!Front(Append(parent, name)) = parent
  <2>1. CASE parent = <<>>
    BY <2>1, FrontOfTuples, TuplesAppend
  <2>2. ASSUME NEW f \in FolderName, parent = <<f>> PROVE I!Front(Append(parent, name)) = parent
    <3>1. Append(<<f>>, name) = <<f, name>>
      BY TuplesAppend
    <3>2. I!Front(<<f, name>>) = <<f>>
      BY FrontOfTuples
    <3> QED BY <2>2, <3>1, <3>2, Zenon
  <2> QED BY <2>1, <2>2
<1>4. journals = {} /\ Sound(disk, identity)
  BY <1>1, <1>2, AtRest DEF I!Begin
<1>5. Distinct({n}) /\ Unmade(disk, identity, {n})
  BY <1>1, <1>3, <1>4, NewNodeIsUnmade
<1> DEFINE nodes == {n}
           kind == "create"
           target == <<>>
<1>6. /\ I!Begin(kind, nodes, "files", target) /\ Distinct(nodes) /\ Unmade(disk, identity, nodes)
      /\ kind = "create" /\ target \in I!Path \cup {<<>>} \cup SUBSET I!Path
  BY <1>2, <1>5
<1> HIDE DEF nodes, kind, target, n, order
<1>7. \A j : j.kind = kind /\ j.nodes = nodes => CommandSound(disk, identity, j, "files", target)
  BY <1>6, MakingBegins
<1> QED BY <1>1, <1>4, <1>6, <1>7, BeginsExplained

LEMMA CreateVolumeExplained ==
  ASSUME NamesStandApart, IdleIsNoCommand, TreeShaped, TreeShaped', Explains,
         causes = {}, causes' = {}, NEW f \in FolderName, NEW d \in DocName,
         I!CreateVolume(f, d)
  PROVE  Explains'
<1>1. /\ project = "open" /\ step = Idle /\ <<f>> \notin DOMAIN disk /\ I!NodesAt(<<f>>) = {}
      /\ disk' = disk /\ identity' = identity /\ project' = project
  BY DEF I!CreateVolume, I!CanStart, I!OnDisk
<1> DEFINE order == I!NextOrder(identity, I!NodeForPath(<<>>))
<1>2. PICK u \in Uuid \ issued, v \in Uuid \ issued :
        /\ u # v
        /\ I!Begin("create", {I!NewNode(u, <<>>, f, order),
                              [uuid |-> v, path |-> <<f, d>>, parent |-> u, order |-> 0]},
                   "files", <<>>)
  BY DEF I!CreateVolume, I!NodeForPath
<1> DEFINE root == <<>>
           n == I!NewNode(u, root, f, order)
           m == [uuid |-> v, path |-> <<f, d>>, parent |-> u, order |-> 0]
           nodes == {n, m}
           kind == "create"
           target == <<>>
<1>3. journals = {} /\ Sound(disk, identity)
  BY <1>1, <1>2, AtRest DEF I!Begin
<1>4. /\ Append(root, f) = <<f>> /\ I!Front(<<f>>) = root /\ I!Known(root) /\ <<f>> \in I!Path
      /\ I!Front(<<f, d>>) = <<f>> /\ <<f, d>> \in I!Path
  BY FrontOfTuples, TuplesAppend, PathShapes DEF I!Name, I!Known
<1>5. <<f, d>> \notin DOMAIN disk
  BY <1>1, <1>4 DEF TreeShaped, DiskIsATree
<1>6. n \in I!Node /\ Distinct({n}) /\ Unmade(disk, identity, {n}) /\ n.uuid = u /\ n.path = <<f>>
  <2>1. n = I!NewNode(u, root, f, I!NextOrder(identity, I!NodeForPath(root)))
    OBVIOUS
  <2>2. n.uuid = u /\ n.path = Append(root, f)
    BY DEF I!NewNode
  <2> HIDE DEF n, root
  <2> QED BY <1>1, <1>3, <1>4, <2>1, <2>2, NewNodeIsUnmade
<1>7. /\ m \in I!Node /\ m.uuid = v /\ m.path = <<f, d>> /\ m.parent = u /\ m.order = 0
  BY <1>4 DEF I!Node
<1>8. I!Begin(kind, nodes, "files", target)
  BY <1>2
<1>9. /\ kind = "create" /\ target \in I!Path \cup {<<>>} \cup SUBSET I!Path
      /\ \A k : k \in nodes <=> k = n \/ k = m
  OBVIOUS
<1> HIDE DEF n, m, order, root, nodes, kind, target
<1>10. <<f>> # <<f, d>>
  BY <1>4, PathFacts
<1>11. Distinct(nodes)
  BY <1>2, <1>6, <1>7, <1>9, <1>10 DEF Distinct
<1> DEFINE alone == {n}
<1>25. Distinct(alone) /\ \A k : k \in alone <=> k = n
  BY <1>6
<1>26. Unmade(disk, identity, alone)
  BY <1>6
<1> HIDE DEF alone
<1> DEFINE one == MadeOn(disk, alone)
           first == NamedBy(identity, alone)
           on == MadeOn(disk, nodes)
           now == NamedBy(identity, nodes)
<1>12. DOMAIN identity \subseteq issued
  BY DEF TreeShaped, TreeTyped
<1>13. /\ \A p : p \in DOMAIN one <=> p \in DOMAIN disk \/ p = n.path
       /\ \A p \in DOMAIN disk : one[p] = disk[p]
       /\ one[n.path] = n.uuid
  BY <1>1, <1>6, <1>25, MadeOnFacts
<1>14. /\ \A w : w \in DOMAIN first <=> w \in DOMAIN identity \/ w = n.uuid
       /\ \A w \in DOMAIN identity : first[w] = identity[w]
       /\ first[n.uuid] = I!Recorded(n)
  BY <1>2, <1>6, <1>12, <1>25, NamedByFacts
<1>15. /\ \A p : p \in DOMAIN on <=> p \in DOMAIN disk \/ p = n.path \/ p = m.path
       /\ \A p \in DOMAIN disk : on[p] = disk[p]
       /\ on[n.path] = n.uuid /\ on[m.path] = m.uuid
  BY <1>1, <1>5, <1>6, <1>7, <1>9, <1>11, MadeOnFacts
<1>16. /\ \A w : w \in DOMAIN now <=> w \in DOMAIN identity \/ w = n.uuid \/ w = m.uuid
       /\ \A w \in DOMAIN identity : now[w] = identity[w]
       /\ now[n.uuid] = I!Recorded(n) /\ now[m.uuid] = I!Recorded(m)
  BY <1>2, <1>6, <1>7, <1>9, <1>11, <1>12, NamedByFacts
<1>17. Sound(one, first)
  BY <1>26 DEF Unmade
<1> HIDE DEF one, first, on, now
<1>18. first[u].path = <<f>>
  BY <1>6, <1>14 DEF I!Recorded
<1>19. Sits(first, m.path, m.parent)
  BY <1>4, <1>6, <1>7, <1>14, <1>18 DEF Sits
<1>20. \A w \in DOMAIN first : first[w].parent # m.parent
  <2>5. SUFFICES ASSUME NEW w \in DOMAIN first, first[w].parent = u PROVE FALSE
    BY <1>7
  <2>1. Sits(first, first[w].path, u)
    BY <1>17, <2>5 DEF Sound, NodesSound
  <2>2. I!Front(first[w].path) = <<f>>
    BY <1>2, <1>18, <2>1 DEF Sits, NamesStandApart
  <2>3. CASE w = u
    BY <1>4, <1>18, <2>2, <2>3, RootsAreNoPaths DEF root
  <2>4. CASE w # u
    BY <1>6, <1>14, <1>25, <1>26, <2>4, <2>5 DEF Unmade, Childless
  <2> QED BY <2>3, <2>4
<1>21. m.uuid \notin DOMAIN first /\ m.path \notin DOMAIN one
  BY <1>2, <1>5, <1>6, <1>7, <1>10, <1>12, <1>13, <1>14
<1>22. Sound(on, now)
  <2>1. /\ \A p : p \in DOMAIN on <=> p \in DOMAIN one \/ p = m.path
        /\ \A p \in DOMAIN one : on[p] = one[p]
    BY <1>13, <1>15
  <2>2. /\ \A w : w \in DOMAIN now <=> w \in DOMAIN first \/ w = m.uuid
        /\ \A w \in DOMAIN first : now[w] = first[w]
    BY <1>14, <1>16
  <2> QED BY <1>15, <1>16, <1>17, <1>19, <1>20, <1>21, <2>1, <2>2, OneMore
<1>23. Unmade(disk, identity, nodes)
  <2>1. \A k \in nodes : k \in I!Node /\ k.uuid \notin issued /\ k.path \notin DOMAIN disk
    BY <1>1, <1>2, <1>5, <1>6, <1>7, <1>9
  <2> QED BY <1>3, <1>11, <1>22, <2>1, UnmadeNow DEF on, now
<1>24. \A j : j.kind = kind /\ j.nodes = nodes => CommandSound(disk, identity, j, "files", target)
  BY <1>9, <1>11, <1>23, MakingBegins
<1> QED BY <1>1, <1>3, <1>8, <1>9, <1>24, BeginsExplained

LEMMA AdoptRemoteExplained ==
  ASSUME NamesStandApart, IdleIsNoCommand, TreeShaped, TreeShaped', Explains,
         causes = {}, causes' = {}, NEW p \in I!Path, I!AdoptRemote(p)
  PROVE  Explains'
<1> DEFINE parent == I!Front(p)
           name == I!Last(p)
           order == I!NextOrder(identity, I!NodeForPath(parent))
<1>1. /\ project = "open" /\ step = Idle /\ p \notin DOMAIN disk
      /\ I!Known(parent) /\ disk' = disk /\ identity' = identity /\ project' = project
  BY DEF I!AdoptRemote, I!CanStart, I!OnDisk
<1>2. PICK u \in Uuid \ issued :
        I!Begin("adopt", {I!NewNode(u, parent, name, order)}, "files", <<>>)
  BY DEF I!AdoptRemote
<1> DEFINE n == I!NewNode(u, parent, name, order)
<1>3. Append(parent, name) = p
  BY PathFacts
<1>4. journals = {} /\ Sound(disk, identity)
  BY <1>1, <1>2, AtRest DEF I!Begin
<1>5. /\ Append(parent, name) \in I!Path \ DOMAIN disk
      /\ I!Front(Append(parent, name)) = parent
  BY <1>1, <1>3
<1> HIDE DEF parent, name
<1>6. Distinct({n}) /\ Unmade(disk, identity, {n})
  BY <1>1, <1>4, <1>5, NewNodeIsUnmade
<1> DEFINE nodes == {n}
           kind == "adopt"
           target == <<>>
<1>7. /\ I!Begin(kind, nodes, "files", target) /\ Distinct(nodes) /\ Unmade(disk, identity, nodes)
      /\ kind = "adopt" /\ target \in I!Path \cup {<<>>} \cup SUBSET I!Path
      /\ \E k \in nodes : nodes = {k}
  BY <1>2, <1>6
<1> HIDE DEF nodes, kind, target, n, order
<1>8. \A j : j.kind = kind /\ j.nodes = nodes => CommandSound(disk, identity, j, "files", target)
  BY <1>7, MakingBegins
<1> QED BY <1>1, <1>4, <1>7, <1>8, BeginsExplained

\* The copy lies there before its journal.
LEMMA CopyTombstoneExplained ==
  ASSUME NamesStandApart, IdleIsNoCommand, TreeShaped, TreeShaped', Explains,
         causes = {}, causes' = {}, NEW d \in DocName, I!CopyTombstone(d)
  PROVE  Explains'
<1> DEFINE parent == <<Trash>>
           path == <<Trash, d>>
           order == I!NextOrder(identity, Bin)
<1>1. /\ project = "open" /\ step = Idle /\ path \notin DOMAIN disk
      /\ identity' = identity /\ project' = project /\ journals' = journals
      /\ I!OverJournal \subseteq causes'
  BY DEF I!CopyTombstone, I!CanStart, I!OnDisk
<1>2. PICK u \in Uuid \ issued :
        /\ disk' = I!Over([q \in {path} |-> u], disk)
        /\ step' = [journal |-> [kind |-> "adopt", nodes |-> {I!NewNode(u, parent, d, order)}],
                    stage |-> "copied", target |-> <<>>]
  BY DEF I!CopyTombstone
<1> DEFINE n == I!NewNode(u, parent, d, order)
<1>3. /\ Append(parent, d) = path /\ path \in I!Path /\ I!Front(path) = parent /\ I!Known(parent)
      /\ I!NodeForPath(parent) = Bin
  BY RootsAreNoPaths, FrontOfTuples, TuplesAppend, PathShapes DEF I!Name, I!Known,
     I!NodeForPath
<1>4. journals = {} /\ Sound(disk, identity)
  BY <1>1, AtRest
<1>5. n \in I!Node /\ Distinct({n}) /\ Unmade(disk, identity, {n}) /\ n.uuid = u /\ n.path = path
  <2>1. n.uuid = u /\ n.path = Append(parent, d)
    BY DEF I!NewNode
  <2>2. n = I!NewNode(u, parent, d, I!NextOrder(identity, I!NodeForPath(parent)))
    BY <1>3
  <2> HIDE DEF n, parent, path, order
  <2>3. Append(parent, d) \in I!Path \ DOMAIN disk /\ I!Front(Append(parent, d)) = parent
    BY <1>1, <1>3, Zenon
  <2> QED BY <1>3, <1>4, <2>1, <2>2, <2>3, NewNodeIsUnmade
<1>6. /\ \A x : x \in DOMAIN disk' <=> x = path \/ x \in DOMAIN disk
      /\ disk'[path] = u
      /\ \A x \in DOMAIN disk : disk'[x] = disk[x]
  <2> DEFINE copy == [q \in {path} |-> u]
             target == <<>>
  <2>1. DOMAIN copy = {path} /\ copy[path] = u /\ disk' = I!Over(copy, disk)
    BY <1>2
  <2> HIDE DEF copy, path
  <2>2. /\ \A x : x \in DOMAIN I!Over(copy, disk) <=> x \in DOMAIN copy \/ x \in DOMAIN disk
        /\ \A x \in DOMAIN copy : I!Over(copy, disk)[x] = copy[x]
        /\ \A x \in DOMAIN disk : x \notin DOMAIN copy => I!Over(copy, disk)[x] = disk[x]
    BY OverFacts
  <2> QED BY <1>1, <2>1, <2>2
<1> DEFINE nodes == {n}
           j == [kind |-> "adopt", nodes |-> nodes]
           stage == "copied"
           target == <<>>
<1>7. step' = [journal |-> j, stage |-> stage, target |-> target]
  BY <1>2
<1>8. /\ j.kind = "adopt" /\ j.nodes = nodes /\ j \in TreeJournal /\ stage = "copied"
      /\ target \in I!Path \cup {<<>>} \cup SUBSET I!Path /\ stage \in TreeStages
      /\ stage \notin Journalled
      /\ \A k : k \in nodes <=> k = n
      /\ Distinct(nodes) /\ Unmade(disk, identity, nodes)
  BY <1>5 DEF TreeJournal, I!JournalKind, TreeStages, Journalled
<1> HIDE DEF j, nodes, stage, target, n, path, parent, order
<1>9. step' \in TreeCommand
  BY <1>7, <1>8 DEF TreeCommand
<1>10. step' # Idle /\ step'.journal = j /\ step'.stage = stage /\ step'.target = target
  BY <1>7, <1>9 DEF IdleIsNoCommand
<1>11. Unmade(disk', identity, nodes)
  <2> DEFINE rest == I!Without(disk, PathsOf(nodes))
             later == I!Without(disk', PathsOf(nodes))
             on == MadeOn(disk, nodes)
             copied == MadeOn(disk', nodes)
  <2>1. \A x : x \in PathsOf(nodes) <=> x = path
    BY <1>5, <1>8 DEF PathsOf
  <2>2. /\ \A x : x \in DOMAIN rest <=> x \in DOMAIN disk /\ x \notin PathsOf(nodes)
        /\ \A x \in DOMAIN rest : rest[x] = disk[x]
    BY WithoutFacts
  <2>3. /\ \A x : x \in DOMAIN later <=> x \in DOMAIN disk' /\ x \notin PathsOf(nodes)
        /\ \A x \in DOMAIN later : later[x] = disk'[x]
    BY WithoutFacts
  <2>4. /\ \A x : x \in DOMAIN on <=> x \in DOMAIN disk \/ x = path
        /\ \A x \in DOMAIN disk : on[x] = disk[x]
        /\ on[path] = u
    BY <1>1, <1>5, <1>8, MadeOnFacts
  <2>5. /\ \A x : x \in DOMAIN copied <=> x \in DOMAIN disk' \/ x = path
        /\ \A x \in DOMAIN disk' : copied[x] = disk'[x]
    BY <1>5, <1>8, MadeOnFacts
  <2> HIDE DEF rest, later, on, copied
  <2>6. Same(rest, later)
    BY <1>1, <1>6, <2>1, <2>2, <2>3 DEF Same
  <2>7. Same(on, copied)
    BY <1>1, <1>6, <2>4, <2>5 DEF Same
  <2>8. Sound(rest, identity) /\ Sound(on, NamedBy(identity, nodes))
    BY <1>8 DEF Unmade, rest, on
  <2>9. Sound(later, identity)
    BY <2>6, <2>8, SoundSame, SameIsReflexive
  <2>10. Sound(copied, NamedBy(identity, nodes))
    BY <2>7, <2>8, SoundSame, SameIsReflexive
  <2>11. \A k \in nodes : k.uuid \notin DOMAIN identity /\ disk'[k.path] = k.uuid
    BY <1>5, <1>6, <1>8 DEF Unmade
  <2>12. Childless(identity, nodes)
    BY <1>8 DEF Unmade
  <2> QED BY <2>9, <2>10, <2>11, <2>12 DEF Unmade, later, copied
<1>12. CommandSound(disk', identity', j, stage, target)
  BY <1>1, <1>8, <1>11 DEF MakingSound, CommandSound
<1>13. CommandSound(disk', identity', step'.journal, step'.stage, step'.target)
  BY <1>10, <1>12
<1>14. step'.stage \notin Journalled /\ journals' = {} /\ project' # "blocked"
  BY <1>1, <1>4, <1>8, <1>10
<1> QED BY <1>10, <1>13, <1>14 DEF Explains

\* A node and its file move, as a command or back.
LEMMA MoveBeginsExplained ==
  ASSUME NamesStandApart, IdleIsNoCommand, TreeShaped, TreeShaped', Sound(disk, identity),
         journals = {}, NEW old \in I!Path, NEW new \in I!Path, I!Movable(old, new),
         I!NodesAt(old) # {}, I!CanRelocate(new),
         I!Begin("relocate", {I!Relocation(old, new)}, "files", old),
         disk' = disk, identity' = identity, project' # "blocked"
  PROVE  Explains'
<1> DEFINE n == I!Relocation(old, new)
           nodes == {n}
           kind == "relocate"
<1>1. /\ n.path = new /\ n.uuid \in DOMAIN identity /\ identity[n.uuid].path = old
      /\ n.parent = I!NodeForPath(I!Front(new))
      /\ n.parent = identity[n.uuid].parent => n.order = identity[n.uuid].order
      /\ n.parent # identity[n.uuid].parent => n.order = I!NextOrder(identity, n.parent)
  <2>1. I!SameKind(I!Last(old), I!Last(new))
    BY DEF I!Movable
  <2>2. n = I!Relocation(old, new)
    OBVIOUS
  <2> HIDE DEF n
  <2> QED BY <2>1, <2>2, RelocationFacts
<1>2. I!Begin(kind, nodes, "files", old) /\ kind = "relocate" /\ nodes = {n}
      /\ old \in I!Path \cup {<<>>} \cup SUBSET I!Path
  OBVIOUS
<1> HIDE DEF n, kind, nodes
<1>3. Sits(identity, n.path, n.parent)
  BY <1>1, HolderSits DEF I!CanRelocate
<1>4. ASSUME NEW v \in DOMAIN identity, v # n.uuid, identity[v].parent = n.parent
      PROVE  identity[v].order # n.order
  BY <1>1, <1>4, FreeOrder DEF Sound, NodesSound
<1>5. Relocates(identity, n, old)
  BY <1>1, <1>3, <1>4 DEF Relocates
<1>6. ASSUME NEW j, j.kind = kind, j.nodes = nodes
      PROVE  CommandSound(disk, identity, j, "files", old)
  BY <1>2, <1>5, <1>6 DEF MovingSound, CommandSound
<1> QED BY <1>2, <1>6, BeginsExplained

LEMMA RelocatePathExplained ==
  ASSUME NamesStandApart, IdleIsNoCommand, TreeShaped, TreeShaped', Explains,
         causes = {}, causes' = {}, NEW old \in I!Path, NEW new \in I!Path,
         I!RelocatePath(old, new)
  PROVE  Explains'
<1>1. /\ project = "open" /\ step = Idle /\ I!Movable(old, new)
      /\ identity' = identity /\ project' = project
  BY DEF I!RelocatePath, I!CanStart
<1>2. I!OverJournal \subseteq causes'
  BY DEF I!RelocatePath, I!Begin
<1>3. journals = {} /\ Sound(disk, identity)
  BY <1>1, <1>2, AtRest
<1>4. I!NodesAt(old) # {}
  BY <1>1, <1>3 DEF I!Movable, I!OnDisk, Sound, Agree, FilesNamed, I!NodesAt
<1>5. /\ I!CanRelocate(new) /\ disk' = disk
      /\ I!Begin("relocate", {I!Relocation(old, new)}, "files", old)
  BY <1>4 DEF I!RelocatePath
<1>6. project' # "blocked"
  BY <1>1
<1> QED BY <1>1, <1>3, <1>4, <1>5, <1>6, MoveBeginsExplained

LEMMA PurgeExplained ==
  ASSUME NamesStandApart, IdleIsNoCommand, TreeShaped, TreeShaped', Explains,
         causes = {}, causes' = {}, NEW S, I!Purge(S)
  PROVE  Explains'
<1> DEFINE nodes == {I!NodeOf(u) : u \in UNION {I!NodesAt(p) : p \in S}}
           kind == "remove"
<1>1. /\ project = "open" /\ step = Idle /\ S # {} /\ S \subseteq DOMAIN disk
      /\ identity' = identity /\ project' = project
  BY DEF I!Purge, I!CanStart
<1>2. I!OverJournal \subseteq causes'
  BY DEF I!Purge, I!Begin
<1>3. journals = {} /\ Sound(disk, identity)
  BY <1>1, <1>2, AtRest
<1>4. \A n : n \in nodes <=>
        \E u \in DOMAIN identity : identity[u].path \in S /\ n = I!NodeOf(u)
  BY DEF I!NodesAt
<1>5. \A u : I!NodeOf(u).uuid = u /\ I!NodeOf(u).path = identity[u].path
  BY DEF I!NodeOf
<1>6. nodes # {}
  BY <1>1, <1>3, <1>4 DEF Sound, Agree, FilesNamed
<1>7. I!Begin(kind, nodes, "files", S) /\ disk' = disk /\ kind = "remove"
  BY <1>6 DEF I!Purge
<1>8. S \in I!Path \cup {<<>>} \cup SUBSET I!Path
  BY <1>1 DEF TreeShaped, TreeTyped
<1> HIDE DEF nodes, kind
<1>9. Deleting(disk, identity, nodes, S)
  BY <1>3, <1>4, <1>5 DEF Sound, Agree, Deleting
<1>10. ASSUME NEW j, j.kind = kind, j.nodes = nodes
       PROVE  CommandSound(disk, identity, j, "files", S)
  BY <1>6, <1>7, <1>9, <1>10 DEF RemovingSound, CommandSound
<1> QED BY <1>1, <1>3, <1>7, <1>8, <1>10, BeginsExplained

(***************************************************************************)
(* The steps of a transaction.                                             *)
(***************************************************************************)
LEMMA GoesExplained ==
  ASSUME IdleIsNoCommand, TreeShaped, step # Idle, NEW stage \in TreeStages,
         step' = [step EXCEPT !.stage = stage], project' = project,
         stage \in Journalled => journals' = {step.journal},
         stage \notin Journalled => journals' = {},
         CommandSound(disk', identity', step.journal, stage, step.target)
  PROVE  Explains'
<1>1. /\ step' # Idle /\ step'.journal = step.journal
      /\ step'.stage = stage /\ step'.target = step.target
  BY GoesTo
<1>2. project' # "blocked"
  BY DEF TreeShaped, StepTyped
<1>3. CommandSound(disk', identity', step'.journal, step'.stage, step'.target)
  BY <1>1
<1> QED BY <1>1, <1>2, <1>3 DEF Explains

LEMMA EndExplained ==
  ASSUME step' = Idle, project' # "blocked", journals' = {}, Sound(disk', identity')
  PROVE  Explains'
BY DEF Explains

LEMMA StandsExplained ==
  ASSUME Explains, step # Idle
  PROVE  /\ CommandSound(disk, identity, step.journal, step.stage, step.target)
         /\ step.stage \in Journalled => journals = {step.journal}
         /\ step.stage \notin Journalled => journals = {}
BY DEF Explains

LEMMA SettleCopyExplained ==
  ASSUME IdleIsNoCommand, TreeShaped, Explains, I!SettleCopy
  PROVE  Explains'
<1> DEFINE stage == "files"
<1>1. /\ step # Idle /\ step.stage = "copied" /\ journals' = journals \cup {step.journal}
      /\ step' = [step EXCEPT !.stage = stage]
      /\ UNCHANGED <<disk, identity, project>>
  BY DEF I!SettleCopy
<1>2. stage = "files" /\ stage \in TreeStages /\ stage \in Journalled
  BY DEF TreeStages, Journalled
<1>3. journals' = {step.journal}
  BY <1>1, StandsExplained DEF Journalled
<1>4. step.journal.kind = "adopt"
  BY <1>1 DEF TreeShaped, StepTyped
<1> HIDE DEF stage
<1>5. MakingSound(disk, identity, step.journal, stage)
  BY <1>1, <1>2, <1>4, StandsExplained DEF CommandSound, MakingSound
<1>6. CommandSound(disk', identity', step.journal, stage, step.target)
  BY <1>1, <1>4, <1>5 DEF CommandSound
<1> QED BY <1>1, <1>2, <1>3, <1>6, GoesExplained

\* A file that is made brings no folder with it: what holds it is there.
LEMMA OneIsMade ==
  ASSUME NamesStandApart, TreeShaped, NEW nodes, Distinct(nodes), nodes \subseteq TreeNodes,
         Unmade(disk, identity, nodes), NEW n \in nodes, n.path \notin DOMAIN disk,
         \A m \in nodes : m.path \notin DOMAIN disk => Len(n.path) <= Len(m.path),
         NEW made, made = I!Made({n})
  PROVE  Unmade(made, identity, nodes)
<1> DEFINE alone == {n}
<1>1. /\ \A p : p \in DOMAIN made <=> \/ p \in DOMAIN disk
                                      \/ \E m \in alone : m.path = p
                                      \/ p \in I!Path /\ \E m \in alone : I!Front(m.path) = p
      /\ \A p \in DOMAIN disk : made[p] = disk[p]
      /\ \A p \in DOMAIN made : p \notin DOMAIN disk =>
           \/ \E m \in alone : m.path = p /\ made[p] = m.uuid
           \/ (\A m \in alone : m.path # p) /\ made[p] = Main
  BY MadeFacts
<1>2. \A m : m \in alone <=> m = n
  OBVIOUS
<1> HIDE DEF alone
<1>3. n.path \in I!Path
  BY DEF TreeShaped, NodesFit, I!Node
<1>4. I!Front(n.path) \in I!Path => I!Front(n.path) \in DOMAIN disk
  <2> SUFFICES ASSUME I!Front(n.path) \in I!Path, I!Front(n.path) \notin DOMAIN disk PROVE FALSE
    OBVIOUS
  <2>1. \E m \in nodes : m.path = I!Front(n.path)
    BY MadeIsMadeOn DEF Unmade
  <2>2. PICK m \in nodes : m.path = I!Front(n.path)
    BY <2>1
  <2>3. Len(n.path) <= Len(I!Front(n.path))
    BY <2>2
  <2>4. n.path \in Seq(Letters) /\ n.path # <<>> /\ Len(n.path) \in Nat
    BY <1>3, PathsAreSequences, RootsAreNoPaths
  <2>5. Len(I!Front(n.path)) = Len(n.path) - 1
    BY <2>4, FrontOfSequence
  <2> QED BY <2>3, <2>4, <2>5
<1>5. /\ \A p : p \in DOMAIN made <=> p \in DOMAIN disk \/ p = n.path
      /\ \A p \in DOMAIN disk : made[p] = disk[p]
      /\ made[n.path] = n.uuid
  <2>1. ASSUME NEW p PROVE p \in DOMAIN made <=> p \in DOMAIN disk \/ p = n.path
    <3>1. p \in DOMAIN made <=> \/ p \in DOMAIN disk
                                \/ \E m \in alone : m.path = p
                                \/ p \in I!Path /\ \E m \in alone : I!Front(m.path) = p
      BY <1>1, Zenon
    <3>2. (\E m \in alone : m.path = p) <=> n.path = p
      BY <1>2, Zenon
    <3>3. (\E m \in alone : I!Front(m.path) = p) <=> I!Front(n.path) = p
      BY <1>2, Zenon
    <3> QED BY <1>4, <3>1, <3>2, <3>3
  <2>2. n \in alone
    BY <1>2
  <2>3. n.path \in DOMAIN made
    BY <2>1
  <2>5. \/ \E m \in alone : m.path = n.path /\ made[n.path] = m.uuid
        \/ (\A m \in alone : m.path # n.path) /\ made[n.path] = Main
    BY <1>1, <2>3, Zenon
  <2>4. made[n.path] = n.uuid
    BY <1>2, <2>2, <2>5, Zenon
  <2> QED BY <1>1, <2>1, <2>4
<1> DEFINE rest == I!Without(disk, PathsOf(nodes))
           later == I!Without(made, PathsOf(nodes))
           on == MadeOn(disk, nodes)
           after == MadeOn(made, nodes)
<1>6. n.path \in PathsOf(nodes)
  BY DEF PathsOf
<1>7. /\ \A x : x \in DOMAIN rest <=> x \in DOMAIN disk /\ x \notin PathsOf(nodes)
      /\ \A x \in DOMAIN rest : rest[x] = disk[x]
  BY WithoutFacts
<1>8. /\ \A x : x \in DOMAIN later <=> x \in DOMAIN made /\ x \notin PathsOf(nodes)
      /\ \A x \in DOMAIN later : later[x] = made[x]
  BY WithoutFacts
<1>9. /\ \A p : p \in DOMAIN on <=> p \in DOMAIN disk \/ \E m \in nodes : m.path = p
      /\ \A p \in DOMAIN disk : on[p] = disk[p]
      /\ \A m \in nodes : m.path \notin DOMAIN disk => on[m.path] = m.uuid
  BY MadeOnFacts
<1>10. /\ \A p : p \in DOMAIN after <=> p \in DOMAIN made \/ \E m \in nodes : m.path = p
       /\ \A p \in DOMAIN made : after[p] = made[p]
       /\ \A m \in nodes : m.path \notin DOMAIN made => after[m.path] = m.uuid
  BY MadeOnFacts
<1> HIDE DEF rest, later, on, after
<1>11. Same(rest, later)
  BY <1>5, <1>6, <1>7, <1>8 DEF Same
<1>12. Same(on, after)
  <2>1. \A p : p \in DOMAIN on <=> p \in DOMAIN after
    BY <1>5, <1>9, <1>10
  <2>2. ASSUME NEW p \in DOMAIN on PROVE on[p] = after[p]
    <3>1. p \in DOMAIN made => after[p] = made[p]
      BY <1>10, Zenon
    <3>2. p \in DOMAIN made <=> p \in DOMAIN disk \/ p = n.path
      BY <1>5, Zenon
    <3>3. CASE p \in DOMAIN disk
      BY <1>5, <1>9, <3>1, <3>2, <3>3
    <3>4. CASE p = n.path
      BY <1>5, <1>9, <3>1, <3>2, <3>4
    <3>5. CASE p \notin DOMAIN disk /\ p # n.path
      <4>1. PICK m \in nodes : m.path = p
        BY <1>9, <3>5, Zenon
      <4>2. m.path \notin DOMAIN disk /\ m.path \notin DOMAIN made
        BY <3>2, <3>5, <4>1
      <4>3. on[m.path] = m.uuid
        BY <1>9, <4>2, Zenon
      <4>4. after[m.path] = m.uuid
        BY <1>10, <4>2, Zenon
      <4> QED BY <4>1, <4>3, <4>4
    <3> QED BY <3>3, <3>4, <3>5
  <2> QED BY <2>1, <2>2 DEF Same
<1>13. Sound(later, identity)
  BY <1>11, SoundSame, SameIsReflexive DEF Unmade, rest
<1>14. Sound(after, NamedBy(identity, nodes))
  BY <1>12, SoundSame, SameIsReflexive DEF Unmade, on
<1>15. \A m \in nodes : m.path \in DOMAIN made => made[m.path] = m.uuid
  BY <1>5 DEF Unmade, Distinct
<1> QED BY <1>13, <1>14, <1>15 DEF Unmade, later, after

LEMMA MaterializeExplained ==
  ASSUME NamesStandApart, IdleIsNoCommand, TreeShaped, Explains, I!Materialize
  PROVE  Explains'
<1> DEFINE j == step.journal
<1>1. /\ step # Idle /\ j.kind \in {"create", "adopt"} /\ step.stage = "files"
      /\ UNCHANGED <<identity, journals, project>>
  BY DEF I!Materialize, I!At
<1>2. /\ CommandSound(disk, identity, j, step.stage, step.target) /\ journals = {j}
  BY <1>1, StandsExplained DEF Journalled
<1>3. MakingSound(disk, identity, j, "files")
  BY <1>1, <1>2 DEF CommandSound
<1>4. Distinct(j.nodes) /\ Unmade(disk, identity, j.nodes)
  BY <1>3 DEF MakingSound
<1>5. CASE \A n \in j.nodes : n.path \in DOMAIN disk
  <2> DEFINE stage == "identity"
  <2>1. step' = [step EXCEPT !.stage = stage] /\ disk' = disk
    BY <1>5 DEF I!Materialize, I!Goto, I!OnDisk
  <2>2. stage = "identity" /\ stage \in TreeStages /\ stage \in Journalled
    BY DEF TreeStages, Journalled
  <2> HIDE DEF stage
  <2>3. MakingSound(disk, identity, j, stage)
    BY <1>3, <1>5, <2>2 DEF MakingSound
  <2>4. CommandSound(disk, identity, j, stage, step.target)
    BY <1>1, <2>3 DEF CommandSound
  <2>5. CommandSound(disk', identity', j, stage, step.target)
    BY <1>1, <2>1, <2>4
  <2> QED BY <1>1, <1>2, <2>1, <2>2, <2>5, GoesExplained
<1>6. CASE \E n \in j.nodes : n.path \notin DOMAIN disk
  <2>1. step' = step /\ \E n \in j.nodes :
          /\ n.path \notin DOMAIN disk
          /\ \A m \in j.nodes : m.path \notin DOMAIN disk => Len(n.path) <= Len(m.path)
          /\ disk' = I!Made({n})
    BY <1>6 DEF I!Materialize, I!OnDisk
  <2>2. j.nodes \subseteq TreeNodes
    BY <1>1, TreeFits DEF JournalFits
  <2>3. Unmade(disk', identity, j.nodes)
    BY <1>4, <2>1, <2>2, OneIsMade
  <2>4. MakingSound(disk', identity, j, "files")
    BY <1>3, <2>3 DEF MakingSound
  <2>5. CommandSound(disk', identity, j, "files", step.target)
    BY <1>1, <2>4 DEF CommandSound
  <2>6. project' # "blocked"
    BY <1>1 DEF TreeShaped, StepTyped
  <2>7. /\ step'.journal = j /\ step'.stage = "files" /\ step'.target = step.target
        /\ step' # Idle /\ journals' = {j} /\ identity' = identity
    BY <1>1, <1>2, <2>1
  <2>8. CommandSound(disk', identity', step'.journal, step'.stage, step'.target)
    BY <2>5, <2>7
  <2> QED BY <2>6, <2>7, <2>8 DEF Explains, Journalled
<1> QED BY <1>5, <1>6

LEMMA MoveFilesExplained ==
  ASSUME NamesStandApart, IdleIsNoCommand, TreeShaped, Explains, I!MoveFiles
  PROVE  Explains'
<1> DEFINE j == step.journal
           stage == "identity"
<1>1. /\ step # Idle /\ j.kind = "relocate" /\ step.stage = "files"
      /\ UNCHANGED <<identity, journals, project>>
      /\ step' = [step EXCEPT !.stage = stage]
  BY DEF I!MoveFiles, I!At, I!Goto
<1>2. /\ CommandSound(disk, identity, j, step.stage, step.target) /\ journals = {j}
  BY <1>1, StandsExplained DEF Journalled
<1>3. PICK n \in j.nodes :
        j.nodes = {n} /\ Sound(disk, identity) /\ Relocates(identity, n, step.target)
  BY <1>1, <1>2 DEF CommandSound, MovingSound
<1>4. disk' = I!MovedDisk(step.target, n.path)
  BY <1>3 DEF I!MoveFiles
<1>5. n \in I!Node
  BY <1>1, TreeFits DEF JournalFits, TreeShaped, NodesFit
<1>6. /\ step.target \in I!Path /\ I!SameKind(I!Last(step.target), I!Last(n.path))
      /\ I!Movable(step.target, n.path)
  BY <1>1 DEF TreeShaped, StepTyped
<1>7. /\ n.path \notin DOMAIN disk
      /\ I!Front(n.path) \in I!Path => I!Front(n.path) \in DOMAIN disk
  BY <1>6, RootsAreNoPaths DEF I!Movable, I!OnDisk
<1>8. Sound(disk', MovedEntries(identity, n)) /\ n.path \in DOMAIN disk'
  BY <1>3, <1>4, <1>5, <1>6, <1>7, MoveIsSound
<1>9. stage = "identity" /\ stage \in TreeStages /\ stage \in Journalled
  BY DEF TreeStages, Journalled
<1> HIDE DEF stage
<1>10. n.uuid \in DOMAIN identity
  BY <1>3 DEF Relocates
<1>11. MovingSound(disk', identity, j, stage, step.target)
  BY <1>3, <1>8, <1>9, <1>10 DEF MovingSound
<1>12. CommandSound(disk', identity', j, stage, step.target)
  BY <1>1, <1>11 DEF CommandSound
<1> QED BY <1>1, <1>2, <1>9, <1>12, GoesExplained

\* What is not on disk any more, a node of the deletion tells of.
LEMMA DeletionTells ==
  ASSUME NamesStandApart, NEW files, NEW nodes, NEW S \in SUBSET I!Path,
         Deleting(files, identity, nodes, S), NEW u \in DOMAIN identity,
         identity[u].path \notin DOMAIN files
  PROVE  \E n \in nodes : n.uuid = u \/ n.uuid = identity[u].parent
<1>1. CASE identity[u].path \in S
  BY <1>1 DEF Deleting
<1>2. CASE I!Front(identity[u].path) \in S
  BY <1>2, RootsAreNoPaths DEF Deleting, NodesSound, Sits
<1> QED BY <1>1, <1>2 DEF Deleting

LEMMA DeleteFileExplained ==
  ASSUME NamesStandApart, IdleIsNoCommand, TreeShaped, Explains, I!DeleteFile
  PROVE  Explains'
<1> DEFINE j == step.journal
           S == step.target
<1>1. /\ step # Idle /\ j.kind = "remove" /\ step.stage = "files"
      /\ UNCHANGED <<identity, journals, project>>
  BY DEF I!DeleteFile, I!At
<1>2. /\ CommandSound(disk, identity, j, step.stage, S) /\ journals = {j}
  BY <1>1, StandsExplained DEF Journalled
<1>3. Deleting(disk, identity, j.nodes, S) /\ j.nodes # {}
  BY <1>1, <1>2 DEF CommandSound, RemovingSound
<1>4. S \in SUBSET I!Path
  BY <1>1 DEF TreeShaped, StepTyped
<1>5. \A q : q \in I!Doomed(S) <=> q \in DOMAIN disk /\ (q \in S \/ I!Front(q) \in S)
  BY <1>4, BelowFacts DEF TreeShaped, TreeTyped, I!Doomed
<1>6. CASE I!Doomed(S) = {}
  <2> DEFINE stage == "identity"
  <2>1. step' = [step EXCEPT !.stage = stage] /\ disk' = disk
    BY <1>6 DEF I!DeleteFile, I!Goto
  <2>2. stage = "identity" /\ stage \in TreeStages /\ stage \in Journalled
    BY DEF TreeStages, Journalled
  <2> HIDE DEF stage
  <2>3. \A n \in j.nodes : /\ n.uuid \in DOMAIN identity /\ identity[n.uuid].path = n.path
                           /\ n.path \notin DOMAIN disk
    BY <1>3, <1>5, <1>6 DEF Deleting
  <2>4. \A u \in DOMAIN identity :
          \/ identity[u].path \in DOMAIN disk
          \/ \E n \in j.nodes : n.uuid = u \/ n.uuid = identity[u].parent
    BY <1>3, <1>4, DeletionTells
  <2>5. NodesSound(identity) /\ FilesNamed(disk, identity)
    BY <1>3 DEF Deleting
  <2>6. Sound(disk, RemovedEntries(identity, j.nodes))
    BY <2>3, <2>4, <2>5, RemovalIsSound
  <2>7. RemovingSound(disk, identity, j, stage, S)
    BY <1>3, <2>2, <2>3, <2>6 DEF RemovingSound
  <2>8. CommandSound(disk, identity, j, stage, S)
    BY <1>1, <2>7 DEF CommandSound
  <2>9. CommandSound(disk', identity', j, stage, S)
    BY <1>1, <2>1, <2>8
  <2> QED BY <1>1, <1>2, <2>1, <2>2, <2>9, GoesExplained
<1>7. CASE I!Doomed(S) # {}
  <2>1. PICK p \in I!Doomed(S) : disk' = I!Without(disk, {p})
    BY <1>7 DEF I!DeleteFile
  <2>2. step' = step
    BY <1>7 DEF I!DeleteFile
  <2>3. /\ \A q : q \in DOMAIN disk' <=> q \in DOMAIN disk /\ q \notin {p}
        /\ \A q \in DOMAIN disk' : disk'[q] = disk[q]
    BY <2>1, WithoutFacts
  <2>4. FilesNamed(disk', identity)
    BY <1>3, <2>3 DEF Deleting, FilesNamed
  <2>5. \A u \in DOMAIN identity : \/ identity[u].path \in DOMAIN disk'
                                   \/ identity[u].path \in S
                                   \/ I!Front(identity[u].path) \in S
    BY <1>3, <1>5, <2>1, <2>3 DEF Deleting
  <2>6. Deleting(disk', identity, j.nodes, S)
    BY <1>3, <2>4, <2>5 DEF Deleting
  <2>7. RemovingSound(disk', identity, j, "files", S)
    BY <1>3, <2>6 DEF RemovingSound
  <2>8. CommandSound(disk', identity, j, "files", S)
    BY <1>1, <2>7 DEF CommandSound
  <2>9. project' # "blocked"
    BY <1>1 DEF TreeShaped, StepTyped
  <2>10. /\ step'.journal = j /\ step'.stage = "files" /\ step'.target = S
         /\ step' # Idle /\ journals' = {j} /\ identity' = identity
    BY <1>1, <1>2, <2>2
  <2>11. CommandSound(disk', identity', step'.journal, step'.stage, step'.target)
    BY <2>8, <2>10
  <2> QED BY <2>9, <2>10, <2>11 DEF Explains, Journalled
<1> QED BY <1>6, <1>7

\* What is released leaves its file nameless and the rest as it was.
LEMMA ReleaseIsSound ==
  ASSUME NamesStandApart, TreeShaped, Sound(disk, identity), NEW nodes,
         AllNamed(identity, nodes), Childless(identity, nodes),
         NEW now, now = RemovedEntries(identity, nodes)
  PROVE  /\ Sound(I!Without(disk, PathsOf(nodes)), now)
         /\ \A n \in nodes : n.uuid \notin DOMAIN now
<1> DEFINE rest == I!Without(disk, PathsOf(nodes))
<1>1. /\ \A x : x \in DOMAIN rest <=> x \in DOMAIN disk /\ x \notin PathsOf(nodes)
      /\ \A x \in DOMAIN rest : rest[x] = disk[x]
  BY WithoutFacts
<1>2. /\ \A u : u \in DOMAIN now <=>
           /\ u \in DOMAIN identity
           /\ \A n \in nodes : n.uuid # u /\ n.uuid # identity[u].parent
      /\ \A u \in DOMAIN now : now[u] = identity[u]
  BY RemovedFacts, IdentityChanges
<1> HIDE DEF rest
<1>3. /\ \A u : u \in DOMAIN now <=> u \in DOMAIN identity /\ \A n \in nodes : n.uuid # u
  BY <1>2 DEF Childless
<1>4. \A n \in nodes : n.uuid \in DOMAIN identity /\ identity[n.uuid].path = n.path
  <2> SUFFICES ASSUME NEW n \in nodes
               PROVE  n.uuid \in DOMAIN identity /\ identity[n.uuid].path = n.path
    OBVIOUS
  <2>1. n.uuid \in DOMAIN identity /\ identity[n.uuid] = I!Recorded(n)
    BY DEF AllNamed
  <2> QED BY <2>1 DEF I!Recorded
<1>5. /\ \A u \in DOMAIN identity : identity[u].path \in DOMAIN disk /\ disk[identity[u].path] = u
      /\ \A p \in DOMAIN disk : disk[p] \in DOMAIN identity /\ identity[disk[p]].path = p
      /\ NodesSound(identity)
  BY DEF Sound, Agree, FilesNamed
<1>6. \A p : p \in PathsOf(nodes) <=> \E n \in nodes : n.path = p
  BY DEF PathsOf
<1>7. ASSUME NEW u \in DOMAIN now PROVE now[u].path \in DOMAIN rest /\ rest[now[u].path] = u
  BY <1>1, <1>2, <1>3, <1>4, <1>5, <1>6
<1>8. ASSUME NEW p \in DOMAIN rest PROVE rest[p] \in DOMAIN now /\ now[rest[p]].path = p
  BY <1>1, <1>2, <1>3, <1>4, <1>5, <1>6
<1>9. ASSUME NEW u \in DOMAIN now, NEW v \in DOMAIN now,
             \/ now[u].path = now[v].path
             \/ now[u].parent = now[v].parent /\ now[u].order = now[v].order
      PROVE  u = v
  BY <1>2, <1>5, <1>9 DEF NodesSound
<1>10. ASSUME NEW u \in DOMAIN now PROVE Sits(now, now[u].path, now[u].parent)
  BY <1>2, <1>3, <1>5 DEF NodesSound, Childless, Sits
<1>11. Sound(rest, now)
  BY <1>7, <1>8, <1>9, <1>10 DEF Sound, Agree, FilesNamed, NodesSound
<1> QED BY <1>3, <1>11 DEF rest

LEMMA WriteIdentityExplained ==
  ASSUME NamesStandApart, IdleIsNoCommand, TreeShaped, Explains, I!WriteIdentity
  PROVE  Explains'
<1> DEFINE j == step.journal
           stage == IF j.kind = "release" THEN "files" ELSE "unlink"
<1>1. /\ step # Idle /\ step.stage = "identity" /\ identity' = I!NewIdentity(j)
      /\ step' = [step EXCEPT !.stage = stage]
      /\ UNCHANGED <<disk, journals, project>>
  BY DEF I!WriteIdentity, I!Goto
<1>2. /\ stage \in TreeStages /\ stage \in Journalled
      /\ j.kind = "release" => stage = "files"
      /\ j.kind # "release" => stage = "unlink"
  BY DEF TreeStages, Journalled
<1> HIDE DEF stage
<1>3. /\ CommandSound(disk, identity, j, step.stage, step.target) /\ journals = {j}
  BY <1>1, StandsExplained DEF Journalled
<1>4. j.kind \in {"create", "adopt", "relocate", "remove", "release"} /\ j.nodes \subseteq I!Node
  BY <1>1, TreeFits DEF JournalFits, TreeJournal, I!JournalKind
<1>5. ASSUME j.kind \in {"create", "adopt"}
      PROVE  MakingSound(disk, identity', j, stage)
  <2>1. MakingSound(disk, identity, j, "identity")
    BY <1>1, <1>3, <1>5 DEF CommandSound
  <2>2. /\ Distinct(j.nodes) /\ Unmade(disk, identity, j.nodes)
        /\ \A n \in j.nodes : n.path \in DOMAIN disk
    BY <2>1 DEF MakingSound
  <2>3. identity' = NamedBy(identity, j.nodes)
    BY <1>1, <1>5, IdentityChanges DEF I!NewIdentity
  <2>4. /\ \A n \in j.nodes : n.uuid \in DOMAIN identity' /\ identity'[n.uuid] = I!Recorded(n)
        /\ \A u : u \in DOMAIN identity' <=> u \in DOMAIN identity \/ \E n \in j.nodes : n.uuid = u
        /\ \A u \in DOMAIN identity : identity'[u] = identity[u]
    BY <2>2, <2>3, NamedByFacts DEF Unmade
  <2>5. Sound(disk, identity')
    <3> DEFINE on == MadeOn(disk, j.nodes)
    <3>1. /\ \A p : p \in DOMAIN on <=> p \in DOMAIN disk \/ \E n \in j.nodes : n.path = p
          /\ \A p \in DOMAIN disk : on[p] = disk[p]
      BY <2>2, MadeOnFacts
    <3>2. Sound(on, identity')
      BY <2>2, <2>3 DEF Unmade
    <3> HIDE DEF on
    <3>3. Same(on, disk)
      BY <2>2, <3>1 DEF Same
    <3> QED BY <3>2, <3>3, SoundSame, SameIsReflexive
  <2>6. AllNamed(identity', j.nodes)
    BY <2>4 DEF AllNamed
  <2>7. ASSUME j.kind = "adopt" PROVE Childless(identity', j.nodes)
    <3>1. PICK n \in j.nodes : j.nodes = {n}
      BY <2>1, <2>7 DEF MakingSound
    <3>2. n.uuid \in Uuid /\ n.path \in I!Path
      BY <1>4 DEF I!Node
    <3>3. n.parent # n.uuid
      <4> SUFFICES ASSUME n.parent = n.uuid PROVE FALSE
        OBVIOUS
      <4>1. n.uuid \in DOMAIN identity' /\ identity'[n.uuid] = I!Recorded(n)
        BY <2>4
      <4>2. identity'[n.uuid].path = n.path /\ identity'[n.uuid].parent = n.uuid
        BY <4>1 DEF I!Recorded
      <4>3. Sits(identity', n.path, n.uuid)
        BY <2>5, <4>1, <4>2 DEF Sound, NodesSound
      <4>4. I!Front(n.path) = n.path
        BY <3>2, <4>2, <4>3 DEF Sits, NamesStandApart
      <4> QED BY <3>2, <4>4, PathFacts
    <3>4. ASSUME NEW u \in DOMAIN identity' PROVE identity'[u].parent # n.uuid
      <4>1. CASE u \in DOMAIN identity
        BY <2>2, <2>4, <4>1 DEF Unmade, Childless
      <4>2. CASE u = n.uuid
        <5>1. identity'[u] = I!Recorded(n)
          BY <2>4, <4>2
        <5> QED BY <3>3, <5>1 DEF I!Recorded
      <4> QED BY <2>4, <3>1, <4>1, <4>2
    <3> QED BY <3>1, <3>4 DEF Childless
  <2>8. stage = "unlink"
    BY <1>2, <1>5
  <2> QED BY <2>1, <2>5, <2>6, <2>7, <2>8 DEF MakingSound
<1>6. ASSUME j.kind = "release"
      PROVE  ReleasingSound(disk, identity', j, stage)
  BY <1>1, <1>2, <1>3, <1>6, IdentityChanges, ReleaseIsSound DEF CommandSound,
     ReleasingSound, I!NewIdentity
<1>7. ASSUME j.kind = "relocate"
      PROVE  MovingSound(disk, identity', j, stage, step.target)
  <2>1. PICK n \in j.nodes :
          j.nodes = {n} /\ n.uuid \in DOMAIN identity /\ Sound(disk, MovedEntries(identity, n))
    BY <1>1, <1>3, <1>7 DEF CommandSound, MovingSound
  <2>2. identity' = I!Relocated(n)
    BY <1>1, <1>7, <2>1 DEF I!NewIdentity
  <2>3. identity' = MovedEntries(identity, n)
    BY <2>2, IdentityChanges
  <2>4. n.uuid \in DOMAIN identity' /\ identity'[n.uuid] = I!Recorded(n)
    BY <2>1, <2>2 DEF I!Relocated
  <2>5. AllNamed(identity', j.nodes)
    BY <2>1, <2>4 DEF AllNamed
  <2>6. stage = "unlink"
    BY <1>2, <1>7
  <2> QED BY <2>1, <2>3, <2>5, <2>6 DEF MovingSound
<1>8. ASSUME j.kind = "remove"
      PROVE  RemovingSound(disk, identity', j, stage, step.target)
  BY <1>1, <1>2, <1>3, <1>8, IdentityChanges, RemovedFacts DEF CommandSound, RemovingSound,
     I!NewIdentity
<1>9. CommandSound(disk, identity', j, stage, step.target)
  BY <1>5, <1>6, <1>7, <1>8 DEF CommandSound
<1>10. CommandSound(disk', identity', j, stage, step.target)
  BY <1>1, <1>9
<1> QED BY <1>1, <1>2, <1>3, <1>10, GoesExplained

\* Dropping the leaves of a node that nothing lies below drops its file.
LEMMA EmptiedSame ==
  ASSUME NamesStandApart, TreeShaped, NEW nodes, \A m, n \in nodes : m = n,
         \A n \in nodes : n.path \in I!Path,
         Sound(I!Without(disk, PathsOf(nodes)), identity), NEW now, now = I!Emptied(nodes)
  PROVE  Sound(now, identity) /\ \A n \in nodes : n.path \notin DOMAIN now
<1> DEFINE rest == I!Without(disk, PathsOf(nodes))
<1>1. /\ \A x : x \in DOMAIN rest <=> x \in DOMAIN disk /\ x \notin PathsOf(nodes)
      /\ \A x \in DOMAIN rest : rest[x] = disk[x]
  BY WithoutFacts
<1>2. Sound(rest, identity)
  OBVIOUS
<1> HIDE DEF rest
<1>3. \A p : p \in PathsOf(nodes) <=> \E n \in nodes : n.path = p
  BY DEF PathsOf
<1>4. /\ \A p : p \in DOMAIN now <=>
           p \in DOMAIN disk /\ ~ (I!Leaf(p) /\ \E n \in nodes : n.path = p)
      /\ \A p \in DOMAIN now : now[p] = disk[p]
  BY EmptiedFacts
<1>5. ASSUME NEW n \in nodes, n.path \in DOMAIN disk PROVE I!Leaf(n.path)
  BY <1>3, <1>5, HoldsNothing, BelowFacts DEF TreeShaped, TreeTyped
<1>6. \A p : p \in DOMAIN now <=> p \in DOMAIN rest
  BY <1>1, <1>3, <1>4, <1>5
<1>7. Same(rest, now)
  BY <1>1, <1>4, <1>6 DEF Same
<1>8. Same(identity, identity)
  BY SameIsReflexive
<1> QED BY <1>1, <1>2, <1>3, <1>6, <1>7, <1>8, SoundSame

LEMMA ReleaseFilesExplained ==
  ASSUME NamesStandApart, IdleIsNoCommand, TreeShaped, Explains, I!ReleaseFiles
  PROVE  Explains'
<1> DEFINE j == step.journal
           stage == "unlink"
<1>1. /\ step # Idle /\ j.kind = "release" /\ step.stage = "files"
      /\ UNCHANGED <<identity, journals, project>> /\ disk' = I!Emptied(j.nodes)
      /\ step' = [step EXCEPT !.stage = stage]
  BY DEF I!ReleaseFiles, I!At, I!Goto
<1>2. /\ CommandSound(disk, identity, j, step.stage, step.target) /\ journals = {j}
  BY <1>1, StandsExplained DEF Journalled
<1>3. /\ \E n \in j.nodes : j.nodes = {n}
      /\ Sound(I!Without(disk, PathsOf(j.nodes)), identity)
  BY <1>1, <1>2 DEF CommandSound, ReleasingSound
<1>4. \A n \in j.nodes : n.path \in I!Path
  BY <1>1, TreeFits DEF JournalFits, TreeShaped, NodesFit, I!Node
<1>5. stage = "unlink" /\ stage \in TreeStages /\ stage \in Journalled
  BY DEF TreeStages, Journalled
<1> HIDE DEF j, stage
<1>6. Sound(disk', identity) /\ \A n \in j.nodes : n.path \notin DOMAIN disk'
  BY <1>1, <1>3, <1>4, EmptiedSame
<1>7. ReleasingSound(disk', identity, j, stage)
  BY <1>3, <1>5, <1>6 DEF ReleasingSound
<1>8. CommandSound(disk', identity', j, stage, step.target)
  BY <1>1, <1>7 DEF CommandSound
<1> QED BY <1>1, <1>2, <1>5, <1>8, GoesExplained DEF j

\* Once the identity file stands, and after it, files and nodes fit.
LEMMA WrittenIsSound ==
  ASSUME TreeShaped, Explains, step # Idle,
         step.stage \in {"unlink", "content", "record", "tombstone"}
  PROVE  Sound(disk, identity)
<1>1. CommandSound(disk, identity, step.journal, step.stage, step.target)
  BY StandsExplained
<1>2. step.journal.kind \in {"create", "adopt", "relocate", "remove", "release"}
  BY TreeFits DEF JournalFits, TreeJournal, I!JournalKind
<1>3. /\ step.stage = "content" => step.journal.kind = "adopt"
      /\ step.stage \in {"record", "tombstone"} => step.journal.kind = "relocate"
  BY DEF TreeShaped, StepTyped
<1>4. CASE step.journal.kind \in {"create", "adopt"}
  BY <1>1, <1>3, <1>4 DEF CommandSound, MakingSound
<1>5. CASE step.journal.kind = "release"
  BY <1>1, <1>3, <1>5 DEF CommandSound, ReleasingSound
<1>6. CASE step.journal.kind = "relocate"
  BY <1>1, <1>3, <1>6 DEF CommandSound, MovingSound
<1>7. CASE step.journal.kind = "remove"
  BY <1>1, <1>3, <1>7 DEF CommandSound, RemovingSound
<1> QED BY <1>2, <1>4, <1>5, <1>6, <1>7

LEMMA UnlinkExplained ==
  ASSUME NamesStandApart, IdleIsNoCommand, TreeShaped, Explains, I!Unlink
  PROVE  Explains'
<1> DEFINE j == step.journal
<1>1. /\ step # Idle /\ step.stage = "unlink" /\ journals' = journals \ {j}
      /\ UNCHANGED <<disk, identity, project>>
  BY DEF I!Unlink
<1>2. CommandSound(disk, identity, j, step.stage, step.target) /\ journals' = {}
  BY <1>1, StandsExplained DEF Journalled
<1>3. Sound(disk, identity) /\ project' # "blocked"
  BY <1>1, WrittenIsSound DEF TreeShaped, StepTyped
<1>4. \/ step' = Idle
      \/ j.kind = "adopt" /\ I!Goto("content")
      \/ j.kind = "relocate" /\ I!Goto("record")
      \/ j.kind = "relocate" /\ I!Goto("tombstone")
  BY DEF I!Unlink
<1>5. ASSUME NEW stage \in {"content", "record", "tombstone"}, I!Goto(stage),
             stage = "content" => j.kind = "adopt", stage # "content" => j.kind = "relocate"
      PROVE  Explains'
  <2>1. stage \in TreeStages /\ stage \notin Journalled
    BY <1>5 DEF TreeStages, Journalled
  <2>2. step' = [step EXCEPT !.stage = stage]
    BY <1>5 DEF I!Goto
  <2>3. CASE stage = "content"
    BY <1>1, <1>2, <1>5, <2>1, <2>2, <2>3, GoesExplained DEF CommandSound, MakingSound
  <2>4. CASE stage # "content"
    <3>1. MovingSound(disk, identity, j, "unlink", step.target) /\ j.kind = "relocate"
      BY <1>1, <1>2, <1>5, <2>4 DEF CommandSound
    <3>2. MovingSound(disk, identity, j, stage, step.target)
      BY <1>3, <2>1, <2>4, <3>1 DEF MovingSound, Journalled
    <3>3. CommandSound(disk', identity', j, stage, step.target)
      BY <1>1, <3>1, <3>2 DEF CommandSound
    <3> QED BY <1>1, <1>2, <2>1, <2>2, <3>3, GoesExplained
  <2> QED BY <2>3, <2>4
<1>6. CASE step' = Idle
  BY <1>1, <1>2, <1>3, <1>6, EndExplained
<1> QED BY <1>4, <1>5, <1>6

\* The caller records what was done in the store, or lands the bytes.
LEMMA LastStepExplained ==
  ASSUME NamesStandApart, TreeShaped, Explains, causes' = {},
         I!RecordMove \/ I!WriteContent \/ I!RecordTombstone
  PROVE  Explains'
<1>1. /\ step # Idle /\ step.stage \in {"record", "content", "tombstone"} /\ step' = Idle
      /\ UNCHANGED <<identity, journals, project>>
  BY DEF I!RecordMove, I!WriteContent, I!RecordTombstone
<1>2. disk' = disk
  BY DEF I!RecordMove, I!WriteContent, I!RecordTombstone
<1>3. journals' = {}
  BY <1>1, StandsExplained DEF Journalled
<1>4. Sound(disk, identity) /\ project' # "blocked"
  BY <1>1, WrittenIsSound DEF TreeShaped, StepTyped
<1> QED BY <1>1, <1>2, <1>3, <1>4, EndExplained

(***************************************************************************)
(* Faults.                                                                 *)
(***************************************************************************)

\* A command that ends with its journal standing leaves it to recovery.
LEMMA StopsExplained ==
  ASSUME NEW j, step' = Idle, journals' = {j}, project' # "blocked",
         RecoversOn(disk', identity', j)
  PROVE  Explains'
BY DEF Explains

\* A purge that has not been cut short has taken a node with all of its children.
LEMMA NotCutShort ==
  ASSUME step # Idle, step.journal.kind = "remove", step.stage = "files",
         NEW refused \in BOOLEAN, ~ I!CutShort(refused),
         \A n \in step.journal.nodes : n.uuid \in DOMAIN identity
  PROVE  \A n \in step.journal.nodes : refused \/ n.path \in DOMAIN disk =>
           \A u \in DOMAIN identity :
             u = n.uuid \/ identity[u].parent = n.uuid => identity[u].path \in DOMAIN disk
<1> SUFFICES ASSUME NEW n \in step.journal.nodes, refused \/ n.path \in DOMAIN disk,
                    NEW u \in DOMAIN identity, u = n.uuid \/ identity[u].parent = n.uuid
             PROVE  identity[u].path \in DOMAIN disk
  OBVIOUS
<1>1. ~ I!Missing({n.uuid})
  BY DEF I!CutShort, I!At, I!OnDisk
<1>2. u \in I!Descendants({n.uuid})
  BY DEF I!Descendants
<1> QED BY <1>1, <1>2 DEF I!Missing, I!OnDisk

LEMMA CrashExplained ==
  ASSUME NamesStandApart, TreeShaped, Explains, causes' = {}, I!CrashProject
  PROVE  Explains'
<1> DEFINE no == FALSE
<1>1. /\ project' = "closed" /\ step' = Idle /\ causes' = causes \cup I!Interrupted(no)
      /\ UNCHANGED <<disk, identity, journals>>
  BY DEF I!CrashProject
<1>2. no \in BOOLEAN /\ ~ no
  OBVIOUS
<1> HIDE DEF no
<1>3. I!Interrupted(no) = {}
  BY <1>1
<1>4. CASE step = Idle
  BY <1>1, <1>4 DEF Explains
<1>5. CASE step # Idle /\ step.stage \in Journalled
  <2>1. CommandSound(disk, identity, step.journal, step.stage, step.target)
        /\ journals = {step.journal}
    BY <1>5, StandsExplained
  <2>2. ASSUME step.journal.kind = "remove", step.stage = "files"
        PROVE  Whole(disk, identity, step.journal.nodes)
    BY <1>2, <1>3, <1>5, <2>1, <2>2, NotCutShort DEF CommandSound, RemovingSound,
       I!Interrupted, Deleting, Whole
  <2>3. RecoversOn(disk, identity, step.journal)
    BY <1>5, <2>1, <2>2, CommandRecovers
  <2> QED BY <1>1, <2>1, <2>3, StopsExplained
<1>6. CASE step # Idle /\ step.stage \notin Journalled
  BY <1>1, <1>3, <1>6, TreeFits, WrittenIsSound, StandsExplained, EndExplained DEF
     I!Interrupted, TreeCommand, TreeStages, Journalled
<1> QED BY <1>4, <1>5, <1>6

\* An adoption outside the trash that is taken back leaves no file.
LEMMA TakenBack ==
  ASSUME NamesStandApart, TreeShaped, Explains, step # Idle, step.journal.kind = "adopt",
         step.stage \in {"files", "identity"}, disk' = I!Emptied(step.journal.nodes),
         step' = Idle, journals' = journals \ {step.journal}, UNCHANGED <<identity, project>>
  PROVE  Explains'
<1> DEFINE nodes == step.journal.nodes
<1>1. MakingSound(disk, identity, step.journal, step.stage) /\ journals = {step.journal}
  BY StandsExplained DEF CommandSound, Journalled
<1>2. Sound(I!Without(disk, PathsOf(nodes)), identity) /\ \E n \in nodes : nodes = {n}
  BY <1>1 DEF MakingSound, Unmade
<1>3. \A n \in nodes : n.path \in I!Path
  BY TreeFits DEF JournalFits, TreeShaped, NodesFit, I!Node
<1>4. disk' = I!Emptied(nodes)
  OBVIOUS
<1> HIDE DEF nodes
<1>5. Sound(disk', identity)
  BY <1>2, <1>3, <1>4, EmptiedSame
<1>6. project' # "blocked"
  BY DEF TreeShaped, StepTyped
<1> QED BY <1>1, <1>5, <1>6, EndExplained

LEMMA RefuseFilesExplained ==
  ASSUME NamesStandApart, IdleIsNoCommand, TreeShaped, TreeShaped', Explains, causes' = {},
         I!RefuseFiles
  PROVE  Explains'
<1> DEFINE j == step.journal
           yes == TRUE
           inTrash == I!At({"adopt"}, "files") /\ \E n \in j.nodes : n.path \in I!TrashPath
           more == IF inTrash THEN {"unnamed copy"} ELSE {}
<1>1. /\ step # Idle /\ step.stage \in {"files", "content"}
      /\ UNCHANGED <<identity, project>>
      /\ causes' = causes \cup I!Interrupted(yes) \cup more
  BY DEF I!RefuseFiles
<1>2. yes \in BOOLEAN /\ yes
  OBVIOUS
<1>3. I!Interrupted(yes) = {} /\ ~ inTrash
  <2>1. more = {}
    BY <1>1
  <2> HIDE DEF yes
  <2>2. I!Interrupted(yes) = {}
    BY <1>1
  <2> QED BY <2>1, <2>2
<1> HIDE DEF yes, more
<1>4. project' = "open"
  BY <1>1 DEF TreeShaped, StepTyped
<1>5. CASE step.stage = "content"
  <2> DEFINE k == [kind |-> "release", nodes |-> j.nodes]
             stage == "identity"
  <2>1. /\ journals' = journals \cup {k} /\ disk' = disk
        /\ step' = [step EXCEPT !.journal = k, !.stage = stage]
    BY <1>5 DEF I!RefuseFiles
  <2>2. k.kind = "release" /\ k.nodes = j.nodes /\ stage = "identity" /\ stage \in Journalled
    BY DEF Journalled
  <2>3. k \in TreeJournal /\ stage \in TreeStages
    BY <1>1, TreeFits DEF JournalFits, TreeJournal, I!JournalKind, TreeStages
  <2> HIDE DEF k, stage
  <2>4. step' \in TreeCommand /\ step'.journal = k /\ step'.stage = stage
        /\ step'.target = step.target
    BY <1>1, <2>1, <2>3, TreeFits DEF TreeCommand
  <2>5. step' # Idle
    BY <2>4 DEF IdleIsNoCommand
  <2>6. j.kind = "adopt" /\ MakingSound(disk, identity, j, step.stage) /\ journals = {}
    BY <1>1, <1>5, StandsExplained DEF TreeShaped, StepTyped, CommandSound, Journalled
  <2>7. ReleasingSound(disk, identity, k, stage)
    BY <1>5, <2>2, <2>6 DEF MakingSound, ReleasingSound
  <2>8. CommandSound(disk', identity', k, stage, step.target)
    BY <1>1, <2>1, <2>2, <2>7 DEF CommandSound
  <2>9. CommandSound(disk', identity', step'.journal, step'.stage, step'.target)
    BY <2>4, <2>8
  <2> QED BY <1>4, <2>1, <2>2, <2>4, <2>5, <2>6, <2>9 DEF Explains
<1>6. CASE step.stage = "files"
  <2>1. /\ step' = Idle
        /\ journals' = IF j.kind \in {"relocate", "remove", "adopt"}
                       THEN journals \ {j} ELSE journals
        /\ disk' = IF j.kind = "adopt" /\ j.nodes \cap {n \in j.nodes : n.path \in I!TrashPath} = {}
                   THEN I!Emptied(j.nodes) ELSE disk
    BY <1>6 DEF I!RefuseFiles
  <2>2. CommandSound(disk, identity, j, step.stage, step.target) /\ journals = {j}
    BY <1>1, <1>6, StandsExplained DEF Journalled
  <2>3. j.kind \in {"create", "adopt", "relocate", "remove", "release"}
    BY <1>1, TreeFits DEF JournalFits, TreeJournal, I!JournalKind
  <2>4. CASE j.kind \in {"create", "release"}
    <3>1. disk' = disk /\ journals' = {j}
      BY <2>1, <2>2, <2>4
    <3>2. RecoversOn(disk, identity, j)
      BY <1>1, <1>6, <2>2, <2>4, CommandRecovers DEF Journalled
    <3>3. RecoversOn(disk', identity', j)
      BY <1>1, <3>1, <3>2
    <3> QED BY <1>4, <2>1, <3>1, <3>3, StopsExplained
  <2>5. CASE j.kind = "adopt"
    BY <1>1, <1>3, <1>6, <2>1, <2>5, TakenBack DEF I!At
  <2>6. CASE j.kind = "relocate"
    BY <1>1, <1>4, <1>6, <2>1, <2>2, <2>6, EndExplained DEF CommandSound, MovingSound
  <2>7. CASE j.kind = "remove"
    <3>1. disk' = disk /\ journals' = {}
      BY <2>1, <2>2, <2>7
    <3>2. Deleting(disk, identity, j.nodes, step.target)
      BY <1>6, <2>2, <2>7 DEF CommandSound, RemovingSound
    <3>3. ~ I!CutShort(yes)
      BY <1>3 DEF I!Interrupted
    <3>4. \A n \in j.nodes : n.uuid \in DOMAIN identity
      BY <3>2 DEF Deleting
    <3>5. \A n \in j.nodes : \A u \in DOMAIN identity :
            u = n.uuid \/ identity[u].parent = n.uuid => identity[u].path \in DOMAIN disk
      BY <1>1, <1>2, <1>6, <2>7, <3>3, <3>4, NotCutShort
    <3>6. step.target \in SUBSET I!Path
      BY <1>1, <2>7 DEF TreeShaped, StepTyped
    <3>7. \A u \in DOMAIN identity : identity[u].path \in DOMAIN disk
      BY <3>2, <3>5, <3>6, DeletionTells
    <3>8. NodesSound(identity) /\ FilesNamed(disk, identity)
      BY <3>2 DEF Deleting
    <3>9. Sound(disk, identity)
      BY <3>7, <3>8 DEF Sound, Agree, FilesNamed, NodesSound
    <3> QED BY <1>1, <1>4, <2>1, <3>1, <3>9, EndExplained
  <2> QED BY <2>3, <2>4, <2>5, <2>6, <2>7
<1> QED BY <1>1, <1>5, <1>6

LEMMA RollbackMoveExplained ==
  ASSUME NamesStandApart, IdleIsNoCommand, TreeShaped, TreeShaped', Explains, I!RollbackMove
  PROVE  Explains'
<1> DEFINE now == (CHOOSE n \in step.journal.nodes : TRUE).path
<1>1. /\ step # Idle /\ step.stage = "record" /\ UNCHANGED <<disk, identity, project>>
  BY DEF I!RollbackMove
<1>2. \/ /\ I!Movable(now, step.target) /\ I!CanRelocate(step.target)
         /\ I!Begin("relocate", {I!Relocation(now, step.target)}, "files", now)
      \/ step' = Idle /\ UNCHANGED <<journals, causes>>
  BY DEF I!RollbackMove
<1>3. Sound(disk, identity) /\ journals = {}
  BY <1>1, WrittenIsSound, StandsExplained DEF Journalled
<1>4. step.journal.kind = "relocate" /\ MovesOne(step.journal) /\ project = "open"
      /\ \A n \in step.journal.nodes : Named(n) /\ n \in I!Node /\ step.target \in I!Path
  BY <1>1, TreeFits DEF TreeShaped, StepTyped, NodesFit, JournalFits
<1>5. now \in I!Path /\ step.target \in I!Path /\ I!NodesAt(now) # {}
  BY <1>4 DEF MovesOne, Named, I!NodesAt, I!Node
<1>6. project' # "blocked"
  BY <1>1, <1>4
<1> HIDE DEF now
<1>7. CASE step' = Idle /\ UNCHANGED <<journals, causes>>
  BY <1>1, <1>3, <1>6, <1>7, EndExplained
<1>8. CASE /\ I!Movable(now, step.target) /\ I!CanRelocate(step.target)
           /\ I!Begin("relocate", {I!Relocation(now, step.target)}, "files", now)
  BY <1>1, <1>3, <1>5, <1>6, <1>8, MoveBeginsExplained
<1> QED BY <1>2, <1>7, <1>8

LEMMA RefuseIdentityExplained ==
  ASSUME NamesStandApart, TreeShaped, Explains, causes' = {}, I!RefuseIdentity
  PROVE  Explains'
<1> DEFINE j == step.journal
<1>1. /\ step # Idle /\ step.stage = "identity" /\ step' = Idle
      /\ UNCHANGED <<identity, project>>
  BY DEF I!RefuseIdentity
<1>2. CommandSound(disk, identity, j, step.stage, step.target) /\ journals = {j}
  BY <1>1, StandsExplained DEF Journalled
<1>3. CASE j.kind = "adopt"
  <2> DEFINE made == {n \in j.nodes : n.path \in I!LivePath}
  <2>1. /\ journals' = journals \ {j} /\ disk' = I!Emptied(made)
        /\ \A n \in j.nodes : n.path \notin I!TrashPath
    BY <1>3 DEF I!RefuseIdentity
  <2>2. \A n \in j.nodes : n.path \in I!Path
    BY <1>1, TreeFits DEF JournalFits, TreeShaped, NodesFit, I!Node
  <2>3. made = j.nodes
    BY <2>1, <2>2 DEF I!Path
  <2> QED BY <1>1, <1>3, <2>1, <2>3, TakenBack
<1>4. CASE j.kind # "adopt"
  BY <1>1, <1>2, <1>4, CommandRecovers, StopsExplained DEF I!RefuseIdentity, Journalled,
     TreeShaped, StepTyped
<1> QED BY <1>3, <1>4

(***************************************************************************)
(* Opening.                                                                *)
(***************************************************************************)
LEMMA RecoverJournalExplained ==
  ASSUME NamesStandApart, TreeShaped, Explains, NEW j \in journals, I!RecoverJournal(j)
  PROVE  Explains'
<1> DEFINE landed == [j EXCEPT !.nodes = I!Landed(j)]
<1>1. /\ project = "opening" /\ disk' = I!Remade(j) /\ step' = step
      /\ landed.nodes # {} => I!Acceptable(landed)
           \/ (project' = "blocked" /\ identity' = identity /\ journals' = journals)
      /\ landed.nodes = {} \/ I!Acceptable(landed) =>
           /\ identity' = IF landed.nodes = {} THEN identity ELSE I!NewIdentity(landed)
           /\ journals' = journals \ {j} /\ project' = project
  BY DEF I!RecoverJournal
<1>2. step = Idle
  BY <1>1 DEF TreeShaped, StepTyped
<1>3. journals = {j} /\ RecoversOn(disk, identity, j)
  BY <1>2 DEF Explains
<1>4. /\ JournalFits(j) /\ j.kind \in {"create", "adopt", "relocate", "remove", "release"}
      /\ \A n \in j.nodes : n.path \in I!Path
  BY TreeFits DEF JournalFits, TreeJournal, I!JournalKind, TreeShaped, NodesFit, I!Node
<1>5. landed.nodes = I!Landed(j) /\ landed.kind = j.kind
  BY <1>4 DEF JournalFits, TreeJournal
<1> HIDE DEF landed
<1>6. ASSUME landed.nodes = {} \/ I!Acceptable(landed),
             landed.nodes = {} => Sound(disk', identity),
             landed.nodes # {} => Sound(disk', I!NewIdentity(landed))
      PROVE  Explains'
  BY <1>1, <1>2, <1>3, <1>6, EndExplained
<1>7. CASE j.kind \in {"create", "adopt"}
  <2>1. landed.nodes = j.nodes /\ disk' = I!Made(j.nodes)
    BY <1>1, <1>5, <1>7 DEF I!Landed, I!Remade
  <2>2. /\ Distinct(j.nodes)
        /\ \A n \in j.nodes : n.uuid \in DOMAIN identity => identity[n.uuid] = I!Recorded(n)
        /\ Sound(MadeOn(disk, j.nodes), NamedBy(identity, j.nodes))
    BY <1>3, <1>7 DEF RecoversOn
  <2>3. I!NewIdentity(landed) = NamedBy(identity, j.nodes)
    BY <1>5, <1>7, <2>1, IdentityChanges DEF I!NewIdentity
  <2>4. Same(MadeOn(disk, j.nodes), I!Made(j.nodes))
    BY <1>4, <2>2, MadeIsMadeOn, SameIsSymmetric DEF JournalFits
  <2> DEFINE now == NamedBy(identity, j.nodes)
             on == MadeOn(disk, j.nodes)
  <2>5. Same(now, now) /\ Sound(on, now) /\ Same(on, disk')
    BY <2>1, <2>2, <2>4, SameIsReflexive
  <2>6. I!NewIdentity(landed) = now
    BY <2>3
  <2> HIDE DEF now, on
  <2>7. Sound(disk', now)
    BY <2>5, SoundSame
  <2>8. I!ValidNodes(now)
    BY <2>7, SoundIsValid DEF Sound
  <2>9. I!Acceptable(landed)
    BY <1>5, <1>7, <2>1, <2>2, <2>6, <2>8 DEF I!Acceptable, I!CanAppend
  <2>10. landed.nodes # {}
    BY <2>1, <2>2 DEF Distinct
  <2> QED BY <1>6, <2>6, <2>7, <2>9, <2>10
<1>8. CASE j.kind = "release"
  <2> DEFINE nameless == {n \in j.nodes : n.uuid \notin DOMAIN identity}
  <2>1. landed.nodes = {} /\ disk' = I!Emptied(nameless)
    BY <1>1, <1>5, <1>8 DEF I!Landed, I!Remade
  <2>2. /\ \E n \in j.nodes : j.nodes = {n}
        /\ Sound(I!Without(disk, PathsOf(nameless)), identity)
    BY <1>3, <1>8 DEF RecoversOn
  <2>3. /\ \A m, n \in nameless : m = n
        /\ \A n \in nameless : n.path \in I!Path
    BY <1>4, <2>2
  <2> HIDE DEF nameless
  <2>4. Sound(disk', identity)
    BY <2>1, <2>2, <2>3, EmptiedSame
  <2> QED BY <1>6, <2>1, <2>4
<1>9. CASE j.kind = "relocate"
  <2>1. disk' = disk /\ landed.nodes = {n \in j.nodes : n.path \in DOMAIN disk}
    BY <1>1, <1>5, <1>9 DEF I!Landed, I!Remade, I!OnDisk
  <2>2. PICK n \in j.nodes :
          /\ j.nodes = {n}
          /\ n.path \in DOMAIN disk =>
               n.uuid \in DOMAIN identity /\ Sound(disk, MovedEntries(identity, n))
          /\ n.path \notin DOMAIN disk => Sound(disk, identity)
    BY <1>3, <1>9 DEF RecoversOn
  <2>3. CASE n.path \in DOMAIN disk
    <3>1. landed.nodes = {n}
      BY <2>1, <2>2, <2>3
    <3>2. (CHOOSE k \in landed.nodes : TRUE) = n
      BY <3>1
    <3>3. I!NewIdentity(landed) = MovedEntries(identity, n)
      BY <1>5, <1>9, <3>2, IdentityChanges DEF I!NewIdentity
    <3>4. Sound(disk, MovedEntries(identity, n)) /\ n.uuid \in DOMAIN identity
      BY <2>2, <2>3
    <3>5. I!ValidNodes(MovedEntries(identity, n))
      BY <3>4, SoundIsValid DEF Sound
    <3>6. I!Acceptable(landed)
      BY <1>5, <1>9, <3>1, <3>3, <3>4, <3>5 DEF I!Acceptable
    <3> QED BY <1>6, <2>1, <3>1, <3>3, <3>4, <3>6
  <2>4. CASE n.path \notin DOMAIN disk
    BY <1>6, <2>1, <2>2, <2>4
  <2> QED BY <2>3, <2>4
<1>10. CASE j.kind = "remove"
  <2> DEFINE gone == {n \in j.nodes : n.path \notin DOMAIN disk}
             now == RemovedEntries(identity, gone)
  <2>1. disk' = disk /\ landed.nodes = gone
    BY <1>1, <1>5, <1>10 DEF I!Landed, I!Remade, I!OnDisk
  <2>2. /\ gone # {} => Sound(disk, now)
        /\ gone = {} => Sound(disk, identity)
    BY <1>3, <1>10 DEF RecoversOn
  <2>3. I!NewIdentity(landed) = now
    BY <1>5, <1>10, <2>1, IdentityChanges DEF I!NewIdentity
  <2> HIDE DEF gone, now
  <2>4. ASSUME gone # {} PROVE I!Acceptable(landed)
    BY <1>5, <1>10, <2>2, <2>3, <2>4, SoundIsValid DEF Sound, I!Acceptable
  <2> QED BY <1>6, <2>1, <2>2, <2>3, <2>4
<1> QED BY <1>4, <1>7, <1>8, <1>9, <1>10

\* A sound project is not refused, and one at rest is sound.
LEMMA SoundFits ==
  ASSUME Sound(disk, identity)
  PROVE  ~ I!Mismatch
<1>1. /\ \A u \in DOMAIN identity : identity[u].path \in DOMAIN disk
      /\ \A p \in DOMAIN disk : disk[p] \in DOMAIN identity /\ identity[disk[p]].path = p
  BY DEF Sound, Agree, FilesNamed
<1> QED BY <1>1 DEF I!Mismatch, I!OnDisk, I!NodesAt

LEMMA StatusExplained ==
  ASSUME TreeShaped, Explains, I!CloseProject \/ I!OpenProject \/ I!AuditProject
  PROVE  Explains'
<1>1. /\ step = Idle /\ UNCHANGED <<disk, identity, journals, step>>
  BY DEF I!CloseProject, I!OpenProject, I!AuditProject, I!CanStart, TreeShaped, StepTyped
<1>2. project' # "blocked"
  <2>1. CASE I!CloseProject \/ I!OpenProject
    BY <2>1 DEF I!CloseProject, I!OpenProject
  <2>2. CASE I!AuditProject
    BY <1>1, <2>2, SoundFits DEF I!AuditProject, Explains
  <2> QED BY <2>1, <2>2
<1> QED BY <1>1, <1>2 DEF Explains

\* The causes are only ever added to.
LEMMA CausesStay ==
  ASSUME I!TreeNext
  PROVE  causes \subseteq causes'
<1>1. ASSUME NEW kind, NEW nodes, NEW first, NEW target, I!Begin(kind, nodes, first, target)
      PROVE  causes \subseteq causes'
  BY <1>1 DEF I!Begin
<1>2. ASSUME NEW S, I!Purge(S) PROVE causes \subseteq causes'
  BY <1>1, <1>2 DEF I!Purge
<1>3. CASE \E parent \in {<<>>} \cup {<<f>> : f \in FolderName}, n \in I!Name :
             I!CreateItem(parent, n)
  BY <1>1, <1>3 DEF I!CreateItem
<1>4. CASE \E f \in FolderName, d \in DocName : I!CreateVolume(f, d)
  BY <1>1, <1>4 DEF I!CreateVolume
<1>5. CASE \E old, new \in I!Path : I!RelocatePath(old, new)
  BY <1>1, <1>5 DEF I!RelocatePath
<1>6. CASE (\E p \in I!TrashEntries : I!PurgeItem(p)) \/ I!EmptyTrash
  BY <1>2, <1>6 DEF I!PurgeItem, I!EmptyTrash
<1>7. CASE \E p \in I!LivePath : I!AdoptRemote(p)
  BY <1>1, <1>7 DEF I!AdoptRemote
<1>8. CASE \E d \in DocName : I!CopyTombstone(d)
  BY <1>8 DEF I!CopyTombstone
<1>9. CASE \/ I!SettleCopy \/ I!Materialize \/ I!MoveFiles \/ I!DeleteFile \/ I!WriteIdentity
           \/ I!ReleaseFiles \/ I!Unlink \/ I!RecordMove \/ I!WriteContent
           \/ I!CloseProject \/ I!OpenProject \/ I!AuditProject
           \/ \E j \in journals : I!RecoverJournal(j)
  BY <1>9 DEF I!SettleCopy, I!Materialize, I!MoveFiles, I!DeleteFile, I!WriteIdentity,
     I!ReleaseFiles, I!Unlink, I!RecordMove, I!WriteContent, I!CloseProject, I!OpenProject,
     I!AuditProject, I!RecoverJournal
<1>10. CASE I!RecordTombstone
  BY <1>10 DEF I!RecordTombstone
<1>11. CASE I!CrashProject
  BY <1>11 DEF I!CrashProject
<1>12. CASE I!RefuseFiles
  BY <1>12 DEF I!RefuseFiles
<1>13. CASE I!RollbackMove
  BY <1>1, <1>13 DEF I!RollbackMove
<1>14. CASE I!RefuseIdentity
  BY <1>14 DEF I!RefuseIdentity
<1> QED BY <1>3, <1>4, <1>5, <1>6, <1>7, <1>8, <1>9, <1>10, <1>11, <1>12, <1>13, <1>14
        DEF I!TreeNext

\* Whatever happens, files and nodes fit, or a journal or a cause says why not.
LEMMA TreeKeepsExplained ==
  ASSUME NamesStandApart, IdleIsNoCommand, TreeShaped, TreeShaped', TreeExplained, I!TreeNext
  PROVE  TreeExplained'
<1> SUFFICES ASSUME causes' = {} PROVE Explains'
  BY DEF TreeExplained
<1>1. causes = {} /\ causes' = {}
  BY CausesStay
<1>2. Explains
  BY <1>1 DEF TreeExplained
<1>3. ASSUME NEW S, I!Purge(S) PROVE Explains'
  BY <1>1, <1>2, <1>3, PurgeExplained
<1>4. CASE \/ \E parent \in {<<>>} \cup {<<f>> : f \in FolderName}, n \in I!Name :
                I!CreateItem(parent, n)
           \/ \E f \in FolderName, d \in DocName : I!CreateVolume(f, d)
           \/ \E old, new \in I!Path : I!RelocatePath(old, new)
           \/ \E p \in I!TrashEntries : I!PurgeItem(p)
           \/ I!EmptyTrash
           \/ \E p \in I!LivePath : I!AdoptRemote(p)
           \/ \E d \in DocName : I!CopyTombstone(d)
  <2>1. ASSUME NEW parent \in {<<>>} \cup {<<f>> : f \in FolderName}, NEW name \in I!Name,
               I!CreateItem(parent, name)
        PROVE  Explains'
    BY <1>1, <1>2, <2>1, CreateItemExplained
  <2>2. ASSUME NEW f \in FolderName, NEW d \in DocName, I!CreateVolume(f, d) PROVE Explains'
    BY <1>1, <1>2, <2>2, CreateVolumeExplained
  <2>3. ASSUME NEW old \in I!Path, NEW new \in I!Path, I!RelocatePath(old, new)
        PROVE  Explains'
    BY <1>1, <1>2, <2>3, RelocatePathExplained
  <2>4. ASSUME NEW p, I!PurgeItem(p) PROVE Explains'
    BY <1>3, <2>4 DEF I!PurgeItem
  <2>5. ASSUME I!EmptyTrash PROVE Explains'
    BY <1>3, <2>5 DEF I!EmptyTrash
  <2>6. ASSUME NEW p \in I!LivePath, I!AdoptRemote(p) PROVE Explains'
    BY <1>1, <1>2, <2>6, AdoptRemoteExplained DEF I!Path
  <2>7. ASSUME NEW d \in DocName, I!CopyTombstone(d) PROVE Explains'
    BY <1>1, <1>2, <2>7, CopyTombstoneExplained
  <2> QED BY <1>4, <2>1, <2>2, <2>3, <2>4, <2>5, <2>6, <2>7
<1>5. CASE I!SettleCopy \/ I!Materialize \/ I!MoveFiles \/ I!DeleteFile \/ I!WriteIdentity
  BY <1>2, <1>5, SettleCopyExplained, MaterializeExplained, MoveFilesExplained,
     DeleteFileExplained, WriteIdentityExplained
<1>6. CASE I!ReleaseFiles \/ I!Unlink
  BY <1>2, <1>6, ReleaseFilesExplained, UnlinkExplained
<1>7. CASE I!RecordMove \/ I!WriteContent \/ I!RecordTombstone
  BY <1>1, <1>2, <1>7, LastStepExplained
<1>8. CASE I!CrashProject \/ I!RefuseFiles \/ I!RollbackMove \/ I!RefuseIdentity
  BY <1>1, <1>2, <1>8, CrashExplained, RefuseFilesExplained, RollbackMoveExplained,
     RefuseIdentityExplained
<1>9. CASE \E j \in journals : I!RecoverJournal(j)
  BY <1>2, <1>9, RecoverJournalExplained
<1>10. CASE I!CloseProject \/ I!OpenProject \/ I!AuditProject
  BY <1>2, <1>10, StatusExplained
<1> QED BY <1>4, <1>5, <1>6, <1>7, <1>8, <1>9, <1>10 DEF I!TreeNext

(***************************************************************************)
(* The theorem.                                                            *)
(***************************************************************************)
TreeInv == TreeShaped /\ TreeExplained

LEMMA TreeStarts ==
  ASSUME NamesStandApart, I!TreeInit
  PROVE  TreeInv
<1> DEFINE none == <<>>
<1>1. /\ disk = none /\ identity = none /\ issued = {} /\ journals = {} /\ step = Idle
      /\ reserved = {} /\ project = "open" /\ faults = 0 /\ causes = {}
  BY DEF I!TreeInit
<1>2. DOMAIN none = {}
  OBVIOUS
<1> HIDE DEF none
<1>3. TreeTyped
  BY <1>1, <1>2 DEF TreeTyped, NamesStandApart
<1>4. TreeNodes = {}
  BY <1>1, <1>2 DEF TreeNodes, NodesOf
<1>5. NodesFit(TreeNodes, issued)
  BY <1>4 DEF NodesFit
<1>6. TreeShaped
  BY <1>1, <1>2, <1>3, <1>5 DEF TreeShaped, DiskIsATree
<1>7. Sound(disk, identity)
  BY <1>1, <1>2 DEF Sound, NodesSound, Agree, FilesNamed
<1>8. Explains
  BY <1>1, <1>7 DEF Explains
<1> QED BY <1>6, <1>8 DEF TreeInv, TreeExplained

LEMMA TreeStutters ==
  ASSUME TreeInv, UNCHANGED filed
  PROVE  TreeInv'
<1>1. UNCHANGED <<disk, identity, issued, journals, step, reserved, project, faults, causes>>
  BY DEF filed
<1>2. TreeTyped' /\ TreeNodes' = TreeNodes /\ DiskIsATree'
  BY <1>1 DEF TreeInv, TreeShaped, TreeTyped, TreeNodes, DiskIsATree
<1>3. step # Idle => StepTyped'
  BY <1>1 DEF TreeInv, TreeShaped, StepTyped, Named, I!Movable, I!Below, I!OnDisk
<1>4. TreeShaped'
  BY <1>1, <1>2, <1>3 DEF TreeInv, TreeShaped
<1>5. TreeExplained'
  BY <1>1 DEF TreeInv, TreeExplained, Explains
<1> QED BY <1>4, <1>5 DEF TreeInv

LEMMA TreeHasItsTypes ==
  ASSUME TreeShaped
  PROVE  I!TreeTypeOK
<1>1. \A u \in DOMAIN identity : I!NodeOf(u) \in I!Node
  BY DEF TreeShaped, TreeTyped, TreeEntry, I!NodeOf, I!Node
<1>2. \A j \in journals : j.kind \in I!JournalKind /\ j.nodes \subseteq I!Node
  BY DEF TreeShaped, TreeTyped, TreeJournal
<1>3. I!Range(disk) \subseteq issued \cup {Main}
  BY DEF TreeShaped, TreeTyped, I!Range
<1> QED BY <1>1, <1>2, <1>3 DEF TreeShaped, TreeTyped, I!TreeTypeOK

LEMMA SoundNamesFiles ==
  ASSUME NamesStandApart, Sound(disk, identity), NEW u \in DOMAIN identity
  PROVE  /\ disk[identity[u].path] = u
         /\ identity[u].parent = I!NodeForPath(I!Front(identity[u].path))
         /\ I!NodesAt(identity[u].path) = {u}
<1> DEFINE holder == I!Front(identity[u].path)
<1>1. disk[identity[u].path] = u
  BY DEF Sound, Agree
<1>2. \A v, w \in DOMAIN identity : identity[v].path = identity[w].path => v = w
  BY DEF Sound, NodesSound
<1>3. Sits(identity, identity[u].path, identity[u].parent)
  BY DEF Sound, NodesSound
<1>4. \A v \in DOMAIN identity : I!NodesAt(identity[v].path) = {v}
  BY <1>2 DEF I!NodesAt
<1>5. identity[u].parent = I!NodeForPath(holder)
  <2>1. CASE holder = <<>> /\ identity[u].parent = Main
    BY <2>1 DEF I!NodeForPath
  <2>2. CASE holder = <<Trash>> /\ identity[u].parent = Bin
    BY <2>2 DEF I!NodeForPath
  <2>3. CASE /\ holder \in I!Path /\ identity[u].parent \in DOMAIN identity
             /\ identity[identity[u].parent].path = holder
    <3>1. holder # <<>> /\ holder # <<Trash>>
      BY <2>3, RootsAreNoPaths
    <3>2. I!NodesAt(holder) = {identity[u].parent}
      BY <1>4, <2>3
    <3>3. I!NodeForPath(holder) = CHOOSE v \in I!NodesAt(holder) : TRUE
      BY <3>1 DEF I!NodeForPath
    <3> HIDE DEF holder
    <3> QED BY <3>2, <3>3
  <2> QED BY <1>3, <2>1, <2>2, <2>3 DEF Sits
<1> QED BY <1>1, <1>4, <1>5

LEMMA TreeHolds ==
  ASSUME NamesStandApart, TreeInv
  PROVE  I!TreeTypeOK /\ I!IdentityNamesFiles
<1>1. I!TreeTypeOK
  BY TreeHasItsTypes DEF TreeInv
<1>2. causes = {} => Explains
  BY DEF TreeInv, TreeExplained
<1>3. step = Idle /\ causes = {} /\ journals = {} => Sound(disk, identity)
  BY <1>2 DEF Explains
<1>4. I!MismatchIsJournalled
  BY <1>3, SoundFits DEF I!MismatchIsJournalled
<1>5. I!RefusalHasACause
  BY <1>2 DEF Explains, I!RefusalHasACause
<1>6. I!NodesNameTheirFiles
  BY <1>3, SoundNamesFiles DEF I!NodesNameTheirFiles
<1> QED BY <1>1, <1>4, <1>5, <1>6 DEF I!IdentityNamesFiles, I!MismatchIsExplained

\* Unless one of the named causes has happened, every uuid goes on naming its
\* file below the folder that holds it, through every command, refusal, crash
\* and recovery, and a difference always has the journal that ends it
\* (project_creation_v1.py: journalled_create, journalled_relocate,
\* journalled_remove, recover_project).
THEOREM IdentitiesStayNamed ==
  ASSUME NamesStandApart, IdleIsNoCommand PROVE StructureSpec => []IdentityNamesFiles
<1>1. StructureInit => TreeInv
  BY TreeStarts DEF StructureInit
<1>2. TreeInv /\ [StructureNext]_<<part, lifecycle, batched, filed, gated>> => TreeInv'
  <2> SUFFICES ASSUME TreeInv, [StructureNext]_<<part, lifecycle, batched, filed, gated>>
               PROVE  TreeInv'
    OBVIOUS
  <2>1. I!TreeNext \/ UNCHANGED filed
    BY DEF StructureNext
  <2>2. ASSUME I!TreeNext PROVE TreeInv'
    BY <2>2, TreeKeepsShape, TreeKeepsExplained DEF TreeInv
  <2> QED BY <2>1, <2>2, TreeStutters
<1>3. TreeInv => IdentityNamesFiles
  BY TreeHolds DEF IdentityNamesFiles
<1> QED BY <1>1, <1>2, <1>3, PTL DEF StructureSpec
=============================================================================
