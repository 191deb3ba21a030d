------------------------------ MODULE DeviceProofs ------------------------------
(* Proofs of what the parts of one device promise (MCDevice).                     *)
EXTENDS MCDevice, FiniteSetTheorems, SequenceTheorems, WellFoundedInduction, TLAPS

-----------------------------------------------------------------------------
(* The batches a tool leaves for the application (StructureTrial) *)

BatchStates == {"pending", "inflight", "retry_wait", "completed", "refused", "torn", "cancelled"}

Batches == [kind : {"create", "probe", "order"}, base : Nat, state : BatchStates,
            order : BOOLEAN, answered : BOOLEAN]

TrialTypes ==
  /\ site \in [dir : BOOLEAN, folder : {Nothing, 0, 1}, order : Nat]
  /\ batches \in Seq(Batches)
  /\ remote \in [folder : BOOLEAN, order : Nat, applied : SUBSET DOMAIN batches]

\* Whoever is about to send has a batch.
ProgramTypes ==
  /\ program \in [who : {"nobody", "write", "probe", "app"},
                  step : {Nothing, "looked", "made", "queued", "rehearsing", "rehearsed", "sending"},
                  batch : {Nothing} \cup DOMAIN batches, authority : BOOLEAN]
  /\ program.step \in {"queued", "rehearsing", "rehearsed", "sending"} => program.batch # Nothing

\* The folder's row and directory belong to the one batch that makes it.
OneCreation ==
  /\ \A b, c \in DOMAIN batches : T!Creates(b) /\ T!Creates(c) => b = c
  /\ site.folder # Nothing <=> \E b \in DOMAIN batches : T!Creates(b)
  /\ site.folder # Nothing => site.dir
  /\ site.folder = 1 => remote.folder

\* While the tool makes the folder, nothing of it is there.
NothingMade ==
  /\ program.step \in {"looked", "made"} => site.folder = Nothing /\ program.who = "write"
  /\ program.step = "made" => site.dir

\* What the server has taken it has passed; a probe names a revision passed before.
Passed ==
  /\ site.order <= remote.order
  /\ \A b \in DOMAIN batches :
       /\ batches[b].base <= remote.order
       /\ batches[b].kind = "probe" => batches[b].base < remote.order
  /\ \A b \in remote.applied :
       /\ batches[b].kind # "probe"
       /\ batches[b].base < remote.order
       /\ T!Creates(b) => remote.folder

TrialInv == TrialTypes /\ ProgramTypes /\ OneCreation /\ NothingMade /\ Passed

TrialOK == part = "trial" => TrialInv

\* Every non-empty set of numbers has a first one.
LEMMA LeastExists ==
  ASSUME NEW I \in SUBSET Nat, I # {}
  PROVE  \E i \in I : \A j \in I : i <= j
<1> DEFINE less == OpToRel(<, Nat)
<1>1. IsWellFoundedOn(less, Nat)
  BY NatLessThanWellFounded
<1>2. \A i, j \in Nat : j < i => <<j, i>> \in less
  BY DEF OpToRel
<1> HIDE DEF less
<1>3. PICK i \in I : \A j \in I : ~ (<<j, i>> \in less)
  BY <1>1, WFMin, Zenon
<1>4. \A j \in I : ~ (j < i)
  BY <1>2, <1>3, Zenon
<1> QED BY <1>4

\* The batches keep their kinds and revisions, whatever becomes of their states.
Alike(new) ==
  /\ new \in Seq(Batches) /\ DOMAIN new = DOMAIN batches
  /\ \A b \in DOMAIN batches : new[b].kind = batches[b].kind /\ new[b].base = batches[b].base

LEMMA RowsOfBatches ==
  ASSUME TrialTypes
  PROVE  /\ Len(batches) \in Nat /\ DOMAIN batches = 1 .. Len(batches)
         /\ \A b \in DOMAIN batches : batches[b] \in Batches
BY DEF TrialTypes

LEMMA SameStates == ASSUME TrialTypes PROVE Alike(batches)
BY DEF TrialTypes, Alike

LEMMA RecoveredAlike == ASSUME TrialTypes PROVE Alike(T!Recovered)
<1>1. \A b \in DOMAIN batches :
        /\ T!Recovered[b] \in Batches
        /\ T!Recovered[b].kind = batches[b].kind /\ T!Recovered[b].base = batches[b].base
  BY RowsOfBatches DEF T!Recovered, Batches, BatchStates
<1>2. DOMAIN T!Recovered = 1 .. Len(batches)
  BY RowsOfBatches DEF T!Recovered
<1>3. T!Recovered = [b \in 1 .. Len(batches) |-> T!Recovered[b]]
  BY RowsOfBatches DEF T!Recovered
<1>4. T!Recovered \in [1 .. Len(batches) -> Batches]
  BY <1>1, <1>3, RowsOfBatches
<1>5. T!Recovered \in Seq(Batches)
  BY <1>4, RowsOfBatches, SeqDef
<1> QED
  BY <1>1, <1>2, <1>5, RowsOfBatches DEF Alike

LEMMA MarkAlike ==
  ASSUME TrialTypes, NEW b, NEW state \in BatchStates
  PROVE  Alike(T!Mark(b, state))
<1>1. CASE b \in DOMAIN batches
  <2>1. [batches[b] EXCEPT !.state = state] \in Batches
    BY <1>1, RowsOfBatches DEF Batches
  <2>2. T!Mark(b, state) \in Seq(Batches)
    BY <1>1, <2>1, ExceptSeq DEF TrialTypes, T!Mark
  <2> QED
    BY <1>1, <2>2, RowsOfBatches DEF Alike, T!Mark, Batches
<1>2. CASE b \notin DOMAIN batches
  <2>1. T!Mark(b, state) = [c \in 1 .. Len(batches) |-> batches[c]]
    BY <1>2, RowsOfBatches DEF T!Mark
  <2>2. T!Mark(b, state) \in Seq(Batches)
    BY <2>1, RowsOfBatches, SeqDef
  <2> QED
    BY <2>1, <2>2, RowsOfBatches DEF Alike
<1> QED
  BY <1>1, <1>2

\* One batch joins the others, which keep their kinds and revisions.
Joined(new, n, kind, base) ==
  /\ new \in Seq(Batches) /\ DOMAIN new = DOMAIN batches \cup {n}
  /\ \A b \in DOMAIN batches : new[b].kind = batches[b].kind /\ new[b].base = batches[b].base
  /\ new[n].kind = kind /\ new[n].base = base

LEMMA QueuedFits ==
  ASSUME TrialTypes, NEW kind \in {"create", "probe", "order"}, NEW base \in Nat
  PROVE  Joined(T!Queued(kind, base), Len(batches) + 1, kind, base)
<1> DEFINE replaced == IF kind = "probe" THEN {} ELSE T!Newest(T!ActiveOrders)
           old == [b \in DOMAIN batches |-> IF b \in replaced THEN T!Torn(b) ELSE batches[b]]
           row == [kind |-> kind, base |-> base, state |-> "pending", order |-> TRUE,
                   answered |-> FALSE]
<1>1. T!Queued(kind, base) = Append(old, row)
  BY DEF T!Queued
<1>2. row \in Batches
  BY DEF Batches, BatchStates
<1>3. \A b \in DOMAIN batches :
        /\ T!Torn(b) \in Batches
        /\ T!Torn(b).kind = batches[b].kind /\ T!Torn(b).base = batches[b].base
  BY RowsOfBatches DEF T!Torn, Batches, BatchStates
<1> HIDE DEF replaced
<1>4. /\ old \in [1 .. Len(batches) -> Batches] /\ DOMAIN old = 1 .. Len(batches)
      /\ \A b \in DOMAIN batches : old[b].kind = batches[b].kind /\ old[b].base = batches[b].base
  BY <1>3, RowsOfBatches
<1> HIDE DEF old
<1>5. old \in Seq(Batches) /\ Len(old) = Len(batches)
  BY <1>4, RowsOfBatches, SeqDef
<1> HIDE DEF row
<1>6. /\ Append(old, row) \in Seq(Batches) /\ Len(Append(old, row)) = Len(batches) + 1
      /\ DOMAIN Append(old, row) = 1 .. Len(batches) + 1
      /\ \A b \in 1 .. Len(batches) : Append(old, row)[b] = old[b]
      /\ Append(old, row)[Len(batches) + 1] = row
  BY <1>2, <1>5, RowsOfBatches, AppendProperties
<1>7. row.kind = kind /\ row.base = base
  BY DEF row
<1> QED
  BY <1>1, <1>4, <1>6, <1>7, RowsOfBatches DEF Joined
\* States of batches change: nothing else has to be shown again but the program.
LEMMA RestatedKeeps ==
  ASSUME TrialInv, Alike(batches'), UNCHANGED <<site, remote>>, ProgramTypes', NothingMade'
  PROVE  TrialInv'
<1>1. TrialTypes'
  BY DEF TrialInv, TrialTypes, Alike
<1>2. OneCreation'
  BY DEF TrialInv, OneCreation, T!Creates, Alike
<1>3. Passed'
  BY DEF TrialInv, TrialTypes, Passed, T!Creates, Alike
<1> QED
  BY <1>1, <1>2, <1>3 DEF TrialInv

LEMMA WriteStartsKeeps == ASSUME TrialInv, T!WriteStarts PROVE TrialInv'
<1>1. Alike(batches') /\ UNCHANGED <<site, remote>>
  BY RecoveredAlike DEF T!WriteStarts, TrialInv
<1>2. PICK b \in {Nothing} \cup DOMAIN batches, step \in {"looked", "queued"} :
        /\ program' = [who |-> "write", step |-> step, batch |-> b, authority |-> FALSE]
        /\ IF step = "looked" THEN site.folder = Nothing ELSE b # Nothing
  <2>1. CASE \E b \in T!Resumable :
          program' = [T!None EXCEPT !.who = "write", !.step = "queued", !.batch = b]
    <3>1. PICK b \in T!Resumable :
            program' = [T!None EXCEPT !.who = "write", !.step = "queued", !.batch = b]
      BY <2>1
    <3>2. b \in DOMAIN batches /\ b # Nothing
      BY RowsOfBatches, DeviceAssumption DEF T!Resumable, T!Unanswered, TrialInv
    <3>3. program' = [who |-> "write", step |-> "queued", batch |-> b, authority |-> FALSE]
      BY <3>1 DEF T!None
    <3> QED
      BY <3>2, <3>3
  <2>2. CASE /\ T!MayMake
             /\ program' = [T!None EXCEPT !.who = "write", !.step = "looked"]
    BY <2>2 DEF T!None, T!MayMake
  <2> QED
    BY <2>1, <2>2 DEF T!WriteStarts
<1>3. ProgramTypes'
  BY <1>1, <1>2 DEF ProgramTypes, Alike
<1>4. NothingMade'
  BY <1>1, <1>2 DEF NothingMade
<1> QED
  BY <1>1, <1>3, <1>4, RestatedKeeps

LEMMA MakeDirectoryKeeps == ASSUME TrialInv, T!MakeDirectory PROVE TrialInv'
<1>1. /\ site' = [site EXCEPT !.dir = TRUE] /\ program' = [program EXCEPT !.step = "made"]
      /\ UNCHANGED <<batches, remote>> /\ program.step = "looked" /\ program.who = "write"
  BY DEF T!MakeDirectory
<1>2. site' = [dir |-> TRUE, folder |-> site.folder, order |-> site.order]
  BY <1>1 DEF TrialInv, TrialTypes
<1>3. TrialTypes' /\ OneCreation' /\ Passed'
  BY <1>1, <1>2 DEF TrialInv, TrialTypes, OneCreation, Passed, T!Creates
<1>4. ProgramTypes'
  BY <1>1 DEF TrialInv, ProgramTypes
<1>5. NothingMade'
  BY <1>1, <1>2 DEF TrialInv, NothingMade, ProgramTypes
<1> QED
  BY <1>3, <1>4, <1>5 DEF TrialInv

LEMMA QueueFolderKeeps == ASSUME TrialInv, T!QueueFolder PROVE TrialInv'
<1> DEFINE n == Len(batches) + 1
<1>1. /\ site' = [site EXCEPT !.folder = 0] /\ batches' = T!Queued("create", site.order)
      /\ program' = [program EXCEPT !.step = "queued", !.batch = n]
      /\ UNCHANGED remote /\ program.step = "made" /\ program.who = "write"
  BY DEF T!QueueFolder
<1>2. site.order \in Nat /\ site.folder = Nothing /\ site.dir /\ n \in Nat /\ n \notin DOMAIN batches
  BY <1>1, RowsOfBatches DEF TrialInv, TrialTypes, NothingMade
<1>3. Joined(batches', n, "create", site.order)
  BY <1>1, <1>2, QueuedFits DEF TrialInv
<1>4. site' = [dir |-> site.dir, folder |-> 0, order |-> site.order]
  BY <1>1 DEF TrialInv, TrialTypes, Joined
<1> HIDE DEF n
<1>5. TrialTypes'
  BY <1>1, <1>3, <1>4 DEF TrialInv, TrialTypes, Joined
<1>6. ProgramTypes'
  BY <1>1, <1>2, <1>3, DeviceAssumption DEF TrialInv, ProgramTypes, Joined
<1>7. OneCreation'
  BY <1>1, <1>2, <1>3, <1>4, DeviceAssumption DEF TrialInv, OneCreation, T!Creates, Joined
<1>8. NothingMade'
  BY <1>1 DEF TrialInv, ProgramTypes, NothingMade
<1>9. Passed'
  <2>1. site'.order = site.order /\ remote' = remote /\ remote.applied \subseteq DOMAIN batches
    BY <1>1, <1>4 DEF TrialInv, TrialTypes
  <2> QED
    BY <1>2, <1>3, <2>1 DEF TrialInv, Passed, T!Creates, Joined
<1> QED
  BY <1>5, <1>6, <1>7, <1>8, <1>9 DEF TrialInv

\* A batch that makes nothing joins the others.
LEMMA JoinedKeeps ==
  ASSUME TrialInv, NEW kind \in {"probe", "order"}, NEW base \in Nat,
         batches' = T!Queued(kind, base), UNCHANGED <<site, remote>>,
         base <= remote.order, kind = "probe" => base < remote.order,
         program'.step \notin {"looked", "made"},
         ProgramTypes' \/ UNCHANGED program
  PROVE  TrialInv'
<1> DEFINE n == Len(batches) + 1
<1>2. n \in Nat /\ n \notin DOMAIN batches
  BY RowsOfBatches DEF TrialInv
<1>3. Joined(batches', n, kind, base)
  BY QueuedFits DEF TrialInv
<1> HIDE DEF n
<1>5. TrialTypes'
  BY <1>3 DEF TrialInv, TrialTypes, Joined
<1>6. ProgramTypes'
  BY <1>3 DEF TrialInv, ProgramTypes, Joined
<1>7. OneCreation'
  BY <1>2, <1>3 DEF TrialInv, OneCreation, T!Creates, Joined
<1>8. NothingMade'
  BY DEF NothingMade
<1>9. Passed'
  <2>1. remote.applied \subseteq DOMAIN batches
    BY DEF TrialInv, TrialTypes
  <2> QED
    BY <1>2, <1>3, <2>1 DEF TrialInv, Passed, T!Creates, Joined
<1> QED
  BY <1>5, <1>6, <1>7, <1>8, <1>9 DEF TrialInv

LEMMA QueueProbeKeeps == ASSUME TrialInv, T!QueueProbe PROVE TrialInv'
<1>1. /\ batches' = T!Queued("probe", T!StaleBase) /\ UNCHANGED <<site, remote>> /\ site.order >= 2
      /\ program' = [T!None EXCEPT !.who = "probe", !.step = "rehearsed", !.batch = Len(batches) + 1]
  BY DEF T!QueueProbe
<1>2. /\ T!StaleBase \in Nat /\ T!StaleBase < remote.order /\ T!StaleBase <= remote.order
  BY <1>1 DEF TrialInv, TrialTypes, Passed, T!StaleBase
<1>3. Len(batches) + 1 \in DOMAIN batches'
  BY <1>1, <1>2, QueuedFits DEF TrialInv, Joined
<1>4. ProgramTypes' /\ program'.step \notin {"looked", "made"}
  <2>1. Len(batches) + 1 # Nothing
    BY RowsOfBatches, DeviceAssumption DEF TrialInv
  <2>2. program' = [who |-> "probe", step |-> "rehearsed", batch |-> Len(batches) + 1,
                    authority |-> FALSE]
    BY <1>1 DEF T!None
  <2> QED
    BY <1>3, <2>1, <2>2 DEF ProgramTypes
<1> HIDE DEF T!StaleBase
<1> QED
  BY <1>1, <1>2, <1>4, JoinedKeeps

LEMMA ReorderKeeps == ASSUME TrialInv, T!Reorder PROVE TrialInv'
<1>1. /\ batches' = T!Queued("order", site.order) /\ UNCHANGED <<site, remote, program>>
      /\ program.who = "app"
  BY DEF T!Reorder
<1>2. site.order \in Nat /\ site.order <= remote.order
  BY DEF TrialInv, TrialTypes, Passed
<1>3. program'.step \notin {"looked", "made"}
  BY <1>1 DEF TrialInv, NothingMade
<1> QED
  BY <1>1, <1>2, <1>3, JoinedKeeps
\* The batch at hand changes its state; the program goes on, or ends.
LEMMA MarkedKeeps ==
  ASSUME TrialInv, NEW b, NEW state \in BatchStates, batches' = T!Mark(b, state),
         UNCHANGED <<site, remote>>,
         \/ program' = T!None
         \/ \E step \in {"rehearsing", "rehearsed", "sending"}, c \in DOMAIN batches :
              program' = [who |-> program.who, step |-> step, batch |-> c,
                          authority |-> program.authority]
  PROVE  TrialInv'
<1>1. Alike(batches')
  BY MarkAlike DEF TrialInv
<1>2. /\ DOMAIN batches' = DOMAIN batches /\ Nothing \notin DOMAIN batches
      /\ Nothing \notin {"looked", "made", "queued", "rehearsing", "rehearsed", "sending"}
  BY <1>1, RowsOfBatches, DeviceAssumption DEF TrialInv, Alike
<1>3. ProgramTypes' /\ program'.step \notin {"looked", "made"}
  <2>1. CASE program' = T!None
    BY <1>2, <2>1 DEF ProgramTypes, T!None
  <2>2. CASE \E step \in {"rehearsing", "rehearsed", "sending"}, c \in DOMAIN batches :
              program' = [who |-> program.who, step |-> step, batch |-> c,
                          authority |-> program.authority]
    BY <1>2, <2>2 DEF TrialInv, ProgramTypes
  <2> QED
    BY <2>1, <2>2
<1> QED
  BY <1>1, <1>3, RestatedKeeps DEF NothingMade

LEMMA SendingKeeps ==
  ASSUME TrialInv, T!Rehearse \/ T!Refused \/ T!Dispatch \/ T!Paused \/ T!Launch
  PROVE  TrialInv'
<1> DEFINE Goes(b, state, step) ==
             /\ batches' = T!Mark(b, state) /\ UNCHANGED <<site, remote>>
             /\ program' = [who |-> program.who, step |-> step, batch |-> b,
                            authority |-> program.authority]
<1>1. "inflight" \in BatchStates /\ "retry_wait" \in BatchStates
  BY DEF BatchStates
<1>2. program = [who |-> program.who, step |-> program.step, batch |-> program.batch,
                 authority |-> program.authority]
  BY DEF TrialInv, ProgramTypes
<1>3. ASSUME NEW b \in DOMAIN batches, NEW state \in {"inflight", "retry_wait"},
             NEW step \in {"rehearsing", "rehearsed", "sending"}, Goes(b, state, step)
      PROVE  TrialInv'
  BY <1>1, <1>3, MarkedKeeps
<1>4. CASE T!Rehearse \/ T!Refused \/ T!Dispatch
  BY <1>2, <1>3, <1>4 DEF TrialInv, ProgramTypes, T!Rehearse, T!Refused, T!Dispatch
<1>5. CASE T!Paused
  BY <1>1, <1>5, MarkedKeeps DEF T!Paused
<1>6. CASE T!Launch
  <2>1. \E b \in T!Sendable : \A c \in T!Sendable : b <= c
    <3>1. T!Sendable \in SUBSET Nat /\ T!Sendable # {}
      BY <1>6, RowsOfBatches, SMTT(30) DEF T!Launch, T!Sendable, T!Unanswered, TrialInv
    <3> HIDE DEF T!Sendable
    <3> QED
      BY <3>1, LeastExists
  <2>2. PICK b \in T!Sendable :
          /\ batches' = T!Mark(b, "inflight") /\ UNCHANGED <<site, remote>>
          /\ program' = [program EXCEPT !.batch = b, !.step = "sending"]
    BY <1>6, <2>1 DEF T!Launch
  <2>3. b \in DOMAIN batches
    BY DEF T!Sendable, T!Unanswered
  <2>4. Goes(b, "inflight", "sending")
    BY <1>2, <2>2
  <2> QED
    BY <1>3, <2>3, <2>4
<1> QED
  BY <1>4, <1>5, <1>6

LEMMA StartKeeps == ASSUME TrialInv, T!Start PROVE TrialInv'
<1>1. Alike(batches') /\ UNCHANGED <<site, remote>>
  BY RecoveredAlike DEF T!Start, TrialInv
<1>2. ProgramTypes' /\ NothingMade'
  BY DeviceAssumption DEF T!Start, T!None, ProgramTypes, NothingMade
<1> QED
  BY <1>1, <1>2, RestatedKeeps

LEMMA StopKeeps == ASSUME TrialInv, T!Stop PROVE TrialInv'
<1>1. Alike(batches') /\ UNCHANGED <<site, remote>>
  BY SameStates DEF T!Stop, TrialInv
<1>2. ProgramTypes' /\ NothingMade'
  BY DeviceAssumption DEF T!Stop, T!None, ProgramTypes, NothingMade
<1> QED
  BY <1>1, <1>2, RestatedKeeps

LEMMA PullKeeps == ASSUME TrialInv, T!Pull PROVE TrialInv'
<1>1. /\ UNCHANGED <<batches, remote>> /\ site'.order <= remote.order
      /\ site' \in [dir : BOOLEAN, folder : {Nothing, 0, 1}, order : Nat]
      /\ site'.folder = site.folder /\ site'.dir = site.dir
      /\ program' = [program EXCEPT !.authority = TRUE] /\ program.who = "app"
  BY DEF T!Pull, TrialInv, TrialTypes, Passed
<1>2. TrialTypes' /\ OneCreation' /\ Passed'
  BY <1>1 DEF TrialInv, TrialTypes, OneCreation, Passed, T!Creates
<1>3. ProgramTypes' /\ NothingMade'
  BY <1>1 DEF TrialInv, ProgramTypes, NothingMade
<1> QED
  BY <1>2, <1>3 DEF TrialInv

LEMMA OtherReordersKeeps == ASSUME TrialInv, T!OtherReorders PROVE TrialInv'
<1>1. /\ UNCHANGED <<site, batches, program>> /\ remote.order \in Nat
      /\ remote' = [folder |-> remote.folder, order |-> remote.order + 1, applied |-> remote.applied]
  BY DEF T!OtherReorders, TrialInv, TrialTypes
<1>2. TrialTypes' /\ ProgramTypes' /\ OneCreation' /\ NothingMade'
  BY <1>1 DEF TrialInv, TrialTypes, ProgramTypes, OneCreation, NothingMade, T!Creates
<1>3. Passed'
  BY <1>1, RowsOfBatches DEF TrialInv, TrialTypes, Batches, Passed, T!Creates
<1> QED
  BY <1>2, <1>3 DEF TrialInv

\* What the server takes it takes once, and never a probe.
LEMMA TakenFits ==
  ASSUME TrialInv, NEW b \in DOMAIN batches
  PROVE  /\ T!Taken(b) \in [folder : BOOLEAN, order : Nat, applied : SUBSET DOMAIN batches]
         /\ remote.order <= T!Taken(b).order /\ (remote.folder => T!Taken(b).folder)
         /\ \A c \in T!Taken(b).applied :
              /\ batches[c].kind # "probe"
              /\ batches[c].base < T!Taken(b).order
              /\ T!Creates(c) => T!Taken(b).folder
         /\ T!Verdict(b) = "success" => b \in T!Taken(b).applied
<1>1. /\ batches[b].base \in Nat /\ \A c \in DOMAIN batches : batches[c].base \in Nat
      /\ remote.applied \subseteq DOMAIN batches /\ remote.order \in Nat
      /\ remote.folder \in BOOLEAN /\ T!Creates(b) \in BOOLEAN
  BY RowsOfBatches DEF TrialInv, TrialTypes, Batches, T!Creates
<1>2. CASE T!Replayed(b) \/ ~ T!Fits(b)
  BY <1>1, <1>2 DEF TrialInv, TrialTypes, Passed, T!Taken, T!Verdict, T!Replayed
<1>3. CASE ~ T!Replayed(b) /\ T!Fits(b)
  BY <1>1, <1>3 DEF T!Taken, TrialInv, Passed, T!Fits
<1> QED
  BY <1>2, <1>3

LEMMA ServeKeeps == ASSUME TrialInv, T!Serve PROVE TrialInv'
<1> DEFINE b == program.batch
<1>1. /\ b \in DOMAIN batches /\ remote' = T!Taken(b)
      /\ program' = [program EXCEPT !.batch = Nothing, !.step = Nothing]
      /\ T!Answered(b) \/ (batches' = T!Mark(b, "retry_wait") /\ UNCHANGED site)
  BY DEF T!Serve, TrialInv, ProgramTypes
<1>2. /\ batches[b].base \in Nat /\ batches[b] \in Batches /\ b \in Nat
      /\ "retry_wait" \in BatchStates /\ "completed" \in BatchStates /\ "refused" \in BatchStates
  BY <1>1, RowsOfBatches DEF TrialInv, Batches, BatchStates
<1>3. Alike(batches')
  <2>1. CASE batches' = T!Mark(b, "retry_wait")
    BY <1>2, <2>1, MarkAlike DEF TrialInv
  <2>2. CASE \E state \in {"completed", "refused"} :
          batches' = [batches EXCEPT ![b].state = state, ![b].answered = TRUE]
    <3>1. PICK state \in {"completed", "refused"} :
            batches' = [batches EXCEPT ![b] = [batches[b] EXCEPT !.state = state, !.answered = TRUE]]
      BY <1>1, <2>2, RowsOfBatches DEF TrialInv
    <3>2. /\ [batches[b] EXCEPT !.state = state, !.answered = TRUE] \in Batches
          /\ [batches[b] EXCEPT !.state = state, !.answered = TRUE].kind = batches[b].kind
          /\ [batches[b] EXCEPT !.state = state, !.answered = TRUE].base = batches[b].base
      BY <1>2 DEF Batches
    <3>3. batches' \in Seq(Batches) /\ DOMAIN batches' = DOMAIN batches
      BY <1>1, <3>1, <3>2, ExceptSeq DEF TrialInv, TrialTypes
    <3> QED
      BY <1>1, <3>1, <3>2, <3>3 DEF Alike
  <2> QED
    BY <1>1, <2>1, <2>2 DEF T!Answered
<1>4. \/ UNCHANGED site
      \/ /\ b \in T!Taken(b).applied
         /\ site' = [site EXCEPT !.order = batches[b].base + 1, !.folder = IF T!Creates(b) THEN 1 ELSE @]
  BY <1>1, TakenFits DEF T!Answered
<1>5. /\ site' \in [dir : BOOLEAN, folder : {Nothing, 0, 1}, order : Nat]
      /\ site'.order <= remote'.order /\ site'.dir = site.dir
      /\ site'.folder = site.folder \/ (site'.folder = 1 /\ T!Creates(b) /\ remote'.folder)
  <2>1. /\ T!Taken(b).order \in Nat /\ remote.order <= T!Taken(b).order /\ remote.order \in Nat
        /\ site.order <= remote.order /\ site.order \in Nat
    BY <1>1, TakenFits DEF TrialInv, TrialTypes, Passed
  <2>2. CASE UNCHANGED site
    BY <1>1, <2>1, <2>2 DEF TrialInv, TrialTypes
  <2>3. CASE /\ b \in T!Taken(b).applied
             /\ site' = [site EXCEPT !.order = batches[b].base + 1, !.folder = IF T!Creates(b) THEN 1 ELSE @]
    <3>1. /\ batches[b].base < T!Taken(b).order /\ (T!Creates(b) => T!Taken(b).folder)
      BY <1>1, <2>3, TakenFits
    <3>2. site' = [dir |-> site.dir, folder |-> IF T!Creates(b) THEN 1 ELSE site.folder,
                   order |-> batches[b].base + 1]
      BY <2>3 DEF TrialInv, TrialTypes
    <3>3. site.folder \in {Nothing, 0, 1} /\ site.dir \in BOOLEAN
      BY DEF TrialInv, TrialTypes
    <3> HIDE DEF b
    <3> QED
      BY <1>1, <1>2, <2>1, <3>1, <3>2, <3>3
  <2> QED
    BY <1>4, <2>2, <2>3
<1>6. TrialTypes'
  BY <1>1, <1>3, <1>5, TakenFits DEF TrialInv, TrialTypes, Alike
<1>7. OneCreation'
  <2>1. remote.folder => remote'.folder
    BY <1>1, TakenFits
  <2> QED
    BY <1>1, <1>3, <1>5, <2>1, DeviceAssumption, SMTT(30) DEF TrialInv, OneCreation, T!Creates, Alike
<1>8. Passed'
  <2>1. \A c \in remote'.applied :
          /\ batches[c].kind # "probe" /\ batches[c].base < remote'.order
          /\ T!Creates(c) => remote'.folder
    BY <1>1, TakenFits
  <2>2. /\ remote'.applied \subseteq DOMAIN batches /\ remote.order <= remote'.order
        /\ remote.order \in Nat /\ remote'.order \in Nat
        /\ \A c \in DOMAIN batches : batches[c].base \in Nat
    BY <1>1, TakenFits, RowsOfBatches DEF TrialInv, TrialTypes, Batches
  <2> QED
    BY <1>3, <1>5, <2>1, <2>2 DEF TrialInv, Passed, T!Creates, Alike
<1>9. ProgramTypes' /\ NothingMade'
  BY <1>1, <1>3, DeviceAssumption DEF TrialInv, ProgramTypes, NothingMade, Alike
<1> QED
  BY <1>6, <1>7, <1>8, <1>9 DEF TrialInv

LEMMA TrialStep == ASSUME TrialInv, T!TrialNext PROVE TrialInv'
BY WriteStartsKeeps, MakeDirectoryKeeps, QueueFolderKeeps, QueueProbeKeeps, ReorderKeeps,
   SendingKeeps, StartKeeps, StopKeeps, PullKeeps, OtherReordersKeeps, ServeKeeps
   DEF T!TrialNext

LEMMA TrialStutter == ASSUME TrialInv, UNCHANGED tried PROVE TrialInv'
BY DEF tried, TrialInv, TrialTypes, ProgramTypes, OneCreation, NothingMade, Passed, T!Creates

LEMMA TrialStarts == ASSUME T!TrialInit PROVE TrialInv
<1>1. batches = <<>> /\ batches \in Seq(Batches) /\ DOMAIN batches = {}
  BY DEF T!TrialInit
<1> QED
  BY <1>1, DeviceAssumption DEF T!TrialInit, T!None, TrialInv, TrialTypes, ProgramTypes, OneCreation,
     NothingMade, Passed, T!Creates

LEMMA TrialHolds == ASSUME TrialInv PROVE T!FolderIsMadeOnce /\ T!ProbeMovesNothing
BY DEF T!FolderIsMadeOnce, T!ProbeMovesNothing, TrialInv, OneCreation, Passed
\* The tool's folder is made once, however often the tool and the application are
\* killed, and its probe moves nothing: run_structure_write and
\* run_stale_reorder_probe beside the application's own dispatches.
THEOREM TrialStaysHarmless == DeviceSpec => []TrialIsHarmless
<1>1. DeviceInit => TrialOK
  BY TrialStarts DEF DeviceInit, TrialOK
<1>2. TrialOK /\ [DeviceNext]_<<part, vars, typed, tried, opened, backed>> => TrialOK'
  BY TrialStep, TrialStutter DEF TrialOK, DeviceNext
<1>3. TrialOK => TrialIsHarmless
  BY TrialHolds DEF TrialOK, TrialIsHarmless
<1> QED
  BY <1>1, <1>2, <1>3, PTL DEF DeviceSpec
-----------------------------------------------------------------------------
(* The backups of one work (ProjectArchive) *)

\* Names and contents of the work or of a copy of it.
IsCopy(f) ==
  /\ f = [name \in DOMAIN f |-> f[name]]
  /\ \A name \in DOMAIN f : IF name = Listing THEN f[name] \in SUBSET File
                            ELSE name \in File /\ f[name] \in Nat

\* Contents only grow: each file was what it is in one before the other.
Earlier(f, g) ==
  /\ DOMAIN f \subseteq DOMAIN g
  /\ \A name \in DOMAIN f : IF name = Listing THEN f[name] \subseteq g[name]
                            ELSE f[name] <= g[name]

WorkTypes ==
  /\ work \in [disk : SUBSET File, listed : SUBSET File, text : [File -> Nat]]
  /\ work.listed \subseteq work.disk
  /\ moments = [saves |-> moments.saves, tries |-> moments.tries,
                damages |-> moments.damages, states |-> moments.states]
  /\ A!Now \in moments.states
  /\ \A state \in moments.states : IsCopy(state) /\ Listing \in DOMAIN state

Seen(name, content) == \E state \in moments.states : name \in DOMAIN state /\ state[name] = content

\* The moment every file had been looked at: what was seen is not newer than
\* that state, what is there is not older; and where the second look has found
\* what the first had seen, the state had it too.
LookedOver ==
  \E state \in moments.states :
    /\ Earlier(capture.seen, state) /\ Earlier(state, A!Now)
    /\ capture.step = "again" =>
         \A name \in DOMAIN state \ capture.left :
           name \in DOMAIN capture.seen /\ state[name] = capture.seen[name]

CaptureShape ==
  /\ capture = [kind |-> capture.kind, step |-> capture.step, left |-> capture.left,
                seen |-> capture.seen, copied |-> capture.copied]
  /\ capture.kind \in A!Kinds /\ capture.step \in {"look", "audit", "copy", "again", "index"}
  /\ capture.left \subseteq DOMAIN A!Now
  /\ IsCopy(capture.seen) /\ IsCopy(capture.copied)

CaptureFits ==
  IF capture.kind = "independent"
  THEN /\ capture.step = "copy"
       /\ \A name \in DOMAIN capture.copied : Seen(name, capture.copied[name])
  ELSE /\ Earlier(capture.seen, A!Now)
       /\ capture.step # "look" => LookedOver
       /\ capture.step \in {"look", "audit"} => DOMAIN capture.copied = {}
       /\ capture.step = "copy" =>
            /\ DOMAIN capture.copied \cup capture.left = DOMAIN capture.seen
            /\ \A name \in DOMAIN capture.copied : capture.copied[name] = capture.seen[name]
       /\ capture.step \in {"again", "index"} => capture.copied = capture.seen
       /\ capture.step = "index" => capture.seen \in moments.states

\* A damaged file is known as such, and the portable package has the files that
\* the identity lists.
PackageFits ==
  /\ package = [kind |-> package.kind, manifest |-> package.manifest,
                data |-> package.data, portable |-> package.portable]
  /\ package.kind \in A!Kinds
  /\ package.manifest = [name \in DOMAIN package.manifest |-> package.manifest[name]]
  /\ package.data = [name \in DOMAIN package.manifest |-> package.data[name]]
  /\ \A name \in DOMAIN package.manifest :
       package.data[name] \in {package.manifest[name], Damaged}
  /\ IF package.kind = "archive"
     THEN /\ Listing \in DOMAIN package.manifest
          /\ DOMAIN package.portable = DOMAIN package.manifest \ {Listing}
     ELSE DOMAIN package.portable = {}

\* What has been restored is what was backed up, or what the package holds now.
Rebuilt ==
  \A name \in DOMAIN restore.built :
    \/ restore.built[name] = package.manifest[name]
    \/ restore.built[name] = package.data[name] /\ package.data[name] = Damaged

RestoreFits ==
  /\ package # Nothing
  /\ restore = [step |-> restore.step, left |-> restore.left, listing |-> restore.listing,
                built |-> restore.built]
  /\ restore.built = [name \in DOMAIN restore.built |-> restore.built[name]]
  /\ package.kind # "independent" =>
       /\ Rebuilt
       /\ DOMAIN restore.built \subseteq DOMAIN package.manifest
       /\ restore.step = "portable" => DOMAIN restore.built \cup restore.left = DOMAIN package.portable
       /\ restore.step = "list" /\ package.kind = "archive" =>
            DOMAIN restore.built = DOMAIN package.manifest
       /\ restore.step = "copy" =>
            /\ restore.left \subseteq DOMAIN package.manifest
            /\ DOMAIN restore.built \cup restore.left = DOMAIN package.manifest
       /\ restore.step = "verify" => DOMAIN restore.built = DOMAIN package.manifest

\* "No backup" is not the record of a backup.
NothingIsNoBackup ==
  \A kind, manifest, data, portable :
    [kind |-> kind, manifest |-> manifest, data |-> data, portable |-> portable] # Nothing

ArchiveInv ==
  /\ WorkTypes
  /\ capture # Nothing => CaptureShape /\ CaptureFits
  /\ package # Nothing => PackageFits
  /\ restore # Nothing => RestoreFits
  /\ restored # Nothing => package # Nothing
  /\ A!BackupsAreMoments /\ A!RestoredIsTheBackup

ArchiveOK == part = "backup" => ArchiveInv

LEMMA WithAdds ==
  ASSUME NEW f, NEW name, NEW content
  PROVE  /\ DOMAIN A!With(f, name, content) = DOMAIN f \cup {name}
         /\ \A n \in DOMAIN f : A!With(f, name, content)[n] = f[n]
         /\ name \notin DOMAIN f => A!With(f, name, content)[name] = content
         /\ A!With(f, name, content) =
              [n \in DOMAIN A!With(f, name, content) |-> A!With(f, name, content)[n]]
BY DEF A!With

LEMMA NowFits ==
  ASSUME WorkTypes
  PROVE  /\ DOMAIN A!Now = work.disk \cup {Listing}
         /\ A!Now[Listing] = work.listed
         /\ \A d \in work.disk : d \in File /\ d # Listing /\ A!Now[d] = work.text[d]
         /\ IsCopy(A!Now)
<1>1. /\ DOMAIN A!Now = work.disk \cup {Listing}
      /\ A!Now[Listing] = work.listed
      /\ A!Now = [name \in DOMAIN A!Now |-> A!Now[name]]
  BY DEF A!Now
<1>2. \A d \in work.disk : d \in File /\ d # Listing /\ A!Now[d] = work.text[d]
  BY DeviceAssumption DEF A!Now, WorkTypes
<1>3. \A d \in work.disk : A!Now[d] \in Nat
  BY <1>2 DEF WorkTypes
<1>4. work.listed \in SUBSET File
  BY DEF WorkTypes
<1> QED
  BY <1>1, <1>2, <1>3, <1>4 DEF IsCopy

LEMMA EarlierFollows ==
  ASSUME NEW f, NEW g, NEW h, IsCopy(f), IsCopy(g), IsCopy(h), Earlier(f, g), Earlier(g, h)
  PROVE  Earlier(f, h)
BY DEF Earlier, IsCopy

LEMMA EarlierSame ==
  ASSUME NEW f, IsCopy(f) PROVE Earlier(f, f)
BY DEF Earlier, IsCopy

\* Whatever the writer does, the work grows, and the state it had stays known.
LEMMA WriterGrows ==
  ASSUME WorkTypes, A!Save \/ A!CreateFile \/ A!CommitIdentity
  PROVE  /\ WorkTypes' /\ Earlier(A!Now, A!Now') /\ moments.states \subseteq moments'.states
         /\ UNCHANGED <<capture, package, restore, restored>>
<1>1. /\ moments' = [moments EXCEPT !.saves = @ + 1, !.states = @ \cup {A!Now'}]
      /\ UNCHANGED <<capture, package, restore, restored>>
  BY DEF A!Save, A!CreateFile, A!CommitIdentity, A!Changes
<1>2. moments' = [saves |-> moments.saves + 1, tries |-> moments.tries,
                  damages |-> moments.damages, states |-> moments.states \cup {A!Now'}]
  BY <1>1 DEF WorkTypes
<1>3. /\ work.disk \in SUBSET File /\ work.listed \in SUBSET File /\ work.text \in [File -> Nat]
      /\ work = [disk |-> work.disk, listed |-> work.listed, text |-> work.text]
      /\ work.listed \subseteq work.disk
  BY DEF WorkTypes
<1>4. /\ work'.disk \in SUBSET File /\ work'.listed \in SUBSET File /\ work'.text \in [File -> Nat]
      /\ work' = [disk |-> work'.disk, listed |-> work'.listed, text |-> work'.text]
      /\ work'.listed \subseteq work'.disk
      /\ work.disk \subseteq work'.disk /\ work.listed \subseteq work'.listed
      /\ \A d \in work.disk : work.text[d] <= work'.text[d]
  <2>1. CASE A!Save
    <3>1. PICK d \in work.disk : work' = [work EXCEPT !.text[d] = @ + 1]
      BY <2>1 DEF A!Save
    <3>2. work' = [disk |-> work.disk, listed |-> work.listed, text |-> [work.text EXCEPT ![d] = @ + 1]]
      BY <1>3, <3>1
    <3> DEFINE text == [work.text EXCEPT ![d] = @ + 1]
    <3>3. text \in [File -> Nat] /\ \A e \in work.disk : work.text[e] <= text[e]
      BY <1>3
    <3> HIDE DEF text
    <3> QED
      BY <1>3, <3>2, <3>3
  <2>2. CASE A!CreateFile
    BY <1>3, <2>2 DEF A!CreateFile
  <2>3. CASE A!CommitIdentity
    BY <1>3, <2>3 DEF A!CommitIdentity
  <2> QED
    BY <2>1, <2>2, <2>3
<1>5. /\ DOMAIN A!Now' = work'.disk \cup {Listing}
      /\ A!Now'[Listing] = work'.listed
      /\ \A d \in work'.disk : d \in File /\ d # Listing /\ A!Now'[d] = work'.text[d]
      /\ A!Now' = [name \in DOMAIN A!Now' |-> A!Now'[name]]
  BY <1>4, DeviceAssumption DEF A!Now
<1>6. IsCopy(A!Now')
  BY <1>4, <1>5 DEF IsCopy
<1>7. WorkTypes'
  BY <1>2, <1>4, <1>5, <1>6 DEF WorkTypes
<1>8. Earlier(A!Now, A!Now')
  BY <1>4, <1>5, NowFits DEF Earlier
<1> QED
  BY <1>1, <1>2, <1>7, <1>8

LEMMA WriterKeeps ==
  ASSUME ArchiveInv, A!Save \/ A!CreateFile \/ A!CommitIdentity PROVE ArchiveInv'
<1>1. /\ WorkTypes /\ WorkTypes' /\ Earlier(A!Now, A!Now') /\ moments.states \subseteq moments'.states
      /\ UNCHANGED <<capture, package, restore, restored>>
  BY WriterGrows DEF ArchiveInv
<1>2. IsCopy(A!Now) /\ IsCopy(A!Now') /\ \A state \in moments.states : IsCopy(state)
  BY <1>1, NowFits DEF WorkTypes
<1>3. ASSUME capture # Nothing, CaptureShape, CaptureFits PROVE CaptureShape' /\ CaptureFits'
  <2>1. CaptureShape'
    BY <1>1, <1>3 DEF CaptureShape, Earlier
  <2>2. CASE capture.kind = "independent"
    BY <1>1, <1>3, <2>1, <2>2 DEF CaptureFits, Seen
  <2>3. CASE capture.kind # "independent"
    <3>1. IsCopy(capture.seen)
      BY <1>3 DEF CaptureShape
    <3>2. Earlier(capture.seen, A!Now')
      BY <1>1, <1>2, <1>3, <2>3, <3>1, EarlierFollows DEF CaptureFits
    <3>3. ASSUME LookedOver PROVE LookedOver'
      BY <1>1, <1>2, <3>3, EarlierFollows DEF LookedOver
    <3> QED
      BY <1>1, <1>3, <2>1, <2>3, <3>2, <3>3 DEF CaptureFits
  <2> QED
    BY <2>1, <2>2, <2>3
<1>4. PackageFits => PackageFits'
  BY <1>1 DEF PackageFits
<1>5. RestoreFits => RestoreFits'
  BY <1>1 DEF RestoreFits, Rebuilt
<1>6. A!BackupsAreMoments' /\ A!RestoredIsTheBackup'
  BY <1>1 DEF ArchiveInv, A!BackupsAreMoments, A!RestoredIsTheBackup, A!Sound
<1> QED
  BY <1>1, <1>3, <1>4, <1>5, <1>6 DEF ArchiveInv
\* A step that changes nothing but the backup being made.
LEMMA CapturingKeeps ==
  ASSUME ArchiveInv, UNCHANGED <<work, package, restore, restored>>,
         \/ UNCHANGED moments
         \/ moments' = [moments EXCEPT !.tries = @ + 1],
         capture' # Nothing => CaptureShape' /\ CaptureFits'
  PROVE  ArchiveInv'
<1>1. /\ moments'.states = moments.states
      /\ moments' = [saves |-> moments'.saves, tries |-> moments'.tries,
                     damages |-> moments'.damages, states |-> moments'.states]
  BY DEF ArchiveInv, WorkTypes
<1>2. WorkTypes'
  BY <1>1 DEF ArchiveInv, WorkTypes, A!Now
<1>3. A!BackupsAreMoments' /\ A!RestoredIsTheBackup'
  BY <1>1 DEF ArchiveInv, A!BackupsAreMoments, A!RestoredIsTheBackup, A!Sound
<1>4. /\ package' # Nothing => PackageFits'
      /\ restore' # Nothing => RestoreFits'
      /\ restored' # Nothing => package' # Nothing
  BY DEF ArchiveInv, PackageFits, RestoreFits, Rebuilt
<1> QED
  BY <1>2, <1>3, <1>4 DEF ArchiveInv

LEMMA GivingUpKeeps ==
  ASSUME ArchiveInv, UNCHANGED <<work, package, restore, restored, moments>>, capture' = Nothing
  PROVE  ArchiveInv'
BY CapturingKeeps

LEMMA CaptureStartsKeeps == ASSUME ArchiveInv, A!CaptureStarts PROVE ArchiveInv'
<1>1. PICK kind \in A!Kinds :
        capture' = [kind |-> kind, step |-> IF kind = "independent" THEN "copy" ELSE "look",
                    left |-> IF kind = "independent" THEN work.listed ELSE DOMAIN A!Now,
                    seen |-> <<>>, copied |-> <<>>]
  BY DEF A!CaptureStarts
<1>2. /\ UNCHANGED <<work, package, restore, restored>>
      /\ moments' = [moments EXCEPT !.tries = @ + 1]
  BY DEF A!CaptureStarts
<1>3. /\ moments'.states = moments.states /\ A!Now' = A!Now
      /\ DOMAIN A!Now = work.disk \cup {Listing} /\ work.listed \subseteq work.disk
  BY <1>2, NowFits DEF ArchiveInv, WorkTypes, A!Now
<1>4. DOMAIN <<>> = {} /\ <<>> = [name \in DOMAIN <<>> |-> <<>>[name]]
  OBVIOUS
<1>5. IsCopy(<<>>) /\ Earlier(<<>>, A!Now)
  BY <1>4 DEF IsCopy, Earlier
<1>6. CaptureShape'
  BY <1>1, <1>3, <1>5 DEF CaptureShape
<1>7. CaptureFits'
  BY <1>1, <1>3, <1>4, <1>5 DEF CaptureFits, A!Kinds
<1> QED
  BY <1>2, <1>6, <1>7, CapturingKeeps

\* A file is digested or copied.
LEMMA Taken ==
  ASSUME NEW f, IsCopy(f), WorkTypes, NEW name \in DOMAIN A!Now
  PROVE  /\ IsCopy(A!With(f, name, A!Now[name]))
         /\ DOMAIN A!With(f, name, A!Now[name]) = DOMAIN f \cup {name}
         /\ \A n \in DOMAIN f : A!With(f, name, A!Now[name])[n] = f[n]
         /\ name \notin DOMAIN f => A!With(f, name, A!Now[name])[name] = A!Now[name]
         /\ Earlier(f, A!Now) => Earlier(A!With(f, name, A!Now[name]), A!Now)
<1> DEFINE w == A!With(f, name, A!Now[name])
<1>1. /\ DOMAIN w = DOMAIN f \cup {name} /\ \A n \in DOMAIN f : w[n] = f[n]
      /\ name \notin DOMAIN f => w[name] = A!Now[name]
      /\ w = [n \in DOMAIN w |-> w[n]]
  BY DEF A!With
<1>2. IsCopy(A!Now)
  BY NowFits
<1> HIDE DEF w
<1>3. IsCopy(w)
  BY <1>1, <1>2 DEF IsCopy
<1>4. Earlier(f, A!Now) => Earlier(w, A!Now)
  BY <1>1, <1>2 DEF Earlier, IsCopy
<1> QED
  BY <1>1, <1>3, <1>4 DEF w

LEMMA LookAtKeeps == ASSUME ArchiveInv, A!LookAt PROVE ArchiveInv'
<1>1. /\ UNCHANGED <<work, package, restore, restored, moments>> /\ capture # Nothing
      /\ capture.step = "look" /\ CaptureShape /\ CaptureFits /\ WorkTypes
  BY DEF A!LookAt, A!AtStep, ArchiveInv
<1>2. PICK name \in capture.left :
        capture' = [capture EXCEPT !.left = @ \ {name},
                      !.seen = A!With(@, name, A!Now[name]),
                      !.step = IF capture.left = {name} THEN "audit" ELSE @]
  BY DEF A!LookAt
<1> DEFINE seen == A!With(capture.seen, name, A!Now[name])
<1>3. capture' = [kind |-> capture.kind, step |-> IF capture.left = {name} THEN "audit" ELSE "look",
                  left |-> capture.left \ {name}, seen |-> seen, copied |-> capture.copied]
  BY <1>1, <1>2 DEF CaptureShape
<1>4. capture.kind # "independent" /\ Earlier(capture.seen, A!Now) /\ name \in DOMAIN A!Now
  BY <1>1 DEF CaptureFits, CaptureShape
<1>5. IsCopy(seen) /\ Earlier(seen, A!Now) /\ Earlier(A!Now, A!Now)
  BY <1>1, <1>4, Taken, NowFits, EarlierSame DEF CaptureShape
<1> HIDE DEF seen
<1>6. A!Now' = A!Now /\ A!Now \in moments.states
  BY <1>1 DEF A!Now, WorkTypes
<1>7. CaptureShape'
  BY <1>1, <1>3, <1>5, <1>6 DEF CaptureShape
<1>8. CaptureFits'
  BY <1>1, <1>3, <1>4, <1>5, <1>6 DEF LookedOver, CaptureFits
<1> QED
  BY <1>1, <1>7, <1>8, CapturingKeeps

LEMMA AuditKeeps == ASSUME ArchiveInv, A!Audit PROVE ArchiveInv'
<1>1. /\ UNCHANGED <<work, package, restore, restored, moments>> /\ capture # Nothing
      /\ capture.step = "audit" /\ CaptureShape /\ CaptureFits /\ WorkTypes
  BY DEF A!Audit, A!AtStep, ArchiveInv
<1>2. CASE capture' = Nothing
  BY <1>1, <1>2, GivingUpKeeps
<1>3. CASE capture' = [capture EXCEPT !.step = "copy", !.left = DOMAIN capture.seen]
  <2>1. capture' = [kind |-> capture.kind, step |-> "copy", left |-> DOMAIN capture.seen,
                    seen |-> capture.seen, copied |-> capture.copied]
    BY <1>1, <1>3 DEF CaptureShape
  <2>2. /\ capture'.kind = capture.kind /\ capture'.seen = capture.seen
        /\ capture'.copied = capture.copied /\ capture'.step = "copy"
        /\ capture'.left = DOMAIN capture.seen /\ A!Now' = A!Now
    BY <1>1, <2>1 DEF A!Now
  <2>3. capture.kind # "independent" /\ DOMAIN capture.copied = {} /\ LookedOver
        /\ Earlier(capture.seen, A!Now)
    BY <1>1 DEF CaptureFits
  <2>4. CaptureShape'
    BY <1>1, <2>1, <2>2, <2>3 DEF CaptureShape, Earlier
  <2>5. LookedOver'
    BY <1>1, <2>2, <2>3 DEF LookedOver
  <2>6. CaptureFits'
    BY <2>2, <2>3, <2>5 DEF CaptureFits
  <2> QED
    BY <1>1, <2>4, <2>6, CapturingKeeps
<1> QED
  BY <1>2, <1>3 DEF A!Audit, A!GiveUp
LEMMA CopyKeeps == ASSUME ArchiveInv, A!Copy PROVE ArchiveInv'
<1>1. /\ UNCHANGED <<work, package, restore, restored, moments>> /\ capture # Nothing
      /\ capture.step = "copy" /\ CaptureShape /\ CaptureFits /\ WorkTypes
  BY DEF A!Copy, A!AtStep, ArchiveInv
<1>2. A!Now' = A!Now /\ A!Now \in moments.states
  BY <1>1 DEF A!Now, WorkTypes
<1>3. CASE capture' = Nothing
  BY <1>1, <1>3, GivingUpKeeps
<1>4. ASSUME NEW name \in capture.left,
             capture.kind = "independent" \/ A!Now[name] = capture.seen[name],
             capture' = [capture EXCEPT !.left = @ \ {name},
                           !.copied = A!With(@, name, A!Now[name])]
      PROVE  ArchiveInv'
  <2> DEFINE copied == A!With(capture.copied, name, A!Now[name])
  <2>1. capture' = [kind |-> capture.kind, step |-> capture.step, left |-> capture.left \ {name},
                    seen |-> capture.seen, copied |-> copied]
    BY <1>1, <1>4 DEF CaptureShape
  <2>2. name \in DOMAIN A!Now /\ IsCopy(capture.copied)
    BY <1>1 DEF CaptureShape
  <2>3. /\ IsCopy(copied) /\ DOMAIN copied = DOMAIN capture.copied \cup {name}
        /\ \A n \in DOMAIN capture.copied : copied[n] = capture.copied[n]
        /\ name \notin DOMAIN capture.copied => copied[name] = A!Now[name]
    BY <1>1, <2>2, Taken
  <2> HIDE DEF copied
  <2>4. /\ capture'.kind = capture.kind /\ capture'.step = "copy" /\ capture'.seen = capture.seen
        /\ capture'.copied = copied /\ capture'.left = capture.left \ {name}
        /\ capture' = [kind |-> capture'.kind, step |-> capture'.step, left |-> capture'.left,
                       seen |-> capture'.seen, copied |-> capture'.copied]
    BY <1>1, <2>1
  <2>5. CaptureShape'
    BY <1>1, <1>2, <2>3, <2>4 DEF CaptureShape
  <2>6. CASE capture.kind = "independent"
    <3>1. \A n \in DOMAIN copied : Seen(n, copied[n])
      BY <1>1, <1>2, <2>2, <2>3, <2>6 DEF CaptureFits, Seen
    <3>2. CaptureFits'
      BY <1>1, <2>4, <2>6, <3>1 DEF CaptureFits, Seen
    <3> QED
      BY <1>1, <2>5, <3>2, CapturingKeeps
  <2>7. CASE capture.kind # "independent"
    <3>1. /\ DOMAIN capture.copied \cup capture.left = DOMAIN capture.seen
          /\ \A n \in DOMAIN capture.copied : capture.copied[n] = capture.seen[n]
          /\ LookedOver /\ Earlier(capture.seen, A!Now)
      BY <1>1, <2>7 DEF CaptureFits
    <3>2. LookedOver'
      BY <1>1, <1>2, <2>4, <3>1 DEF LookedOver
    <3>3. /\ DOMAIN copied \cup (capture.left \ {name}) = DOMAIN capture.seen
          /\ \A n \in DOMAIN copied : copied[n] = capture.seen[n]
      BY <1>4, <2>3, <2>7, <3>1
    <3>4. CaptureFits'
      BY <1>2, <2>4, <2>7, <3>1, <3>2, <3>3 DEF CaptureFits
    <3> QED
      BY <1>1, <2>5, <3>4, CapturingKeeps
  <2> QED
    BY <2>6, <2>7
<1> QED
  BY <1>3, <1>4 DEF A!Copy, A!GiveUp

\* Two copies that agree on the same names are equal.
LEMMA SameCopies ==
  ASSUME NEW f, NEW g, IsCopy(f), IsCopy(g), DOMAIN f = DOMAIN g,
         \A name \in DOMAIN f : f[name] = g[name]
  PROVE  f = g
BY DEF IsCopy

LEMMA MakePortableKeeps == ASSUME ArchiveInv, A!MakePortable PROVE ArchiveInv'
<1>1. /\ UNCHANGED <<work, package, restore, restored, moments>> /\ capture # Nothing
      /\ capture.step = "copy" /\ CaptureShape /\ CaptureFits /\ WorkTypes
      /\ capture.left = {} /\ capture.kind # "independent"
  BY DEF A!MakePortable, A!AtStep, ArchiveInv
<1>2. CASE capture' = Nothing
  BY <1>1, <1>2, GivingUpKeeps
<1>3. CASE capture' = [capture EXCEPT !.step = "again", !.left = DOMAIN A!Now]
  <2>1. capture' = [kind |-> capture.kind, step |-> "again", left |-> DOMAIN A!Now,
                    seen |-> capture.seen, copied |-> capture.copied]
    BY <1>1, <1>3 DEF CaptureShape
  <2>2. /\ capture'.kind = capture.kind /\ capture'.seen = capture.seen
        /\ capture'.copied = capture.copied /\ capture'.step = "again"
        /\ capture'.left = DOMAIN A!Now /\ A!Now' = A!Now
    BY <1>1, <2>1 DEF A!Now
  <2>3. /\ LookedOver /\ Earlier(capture.seen, A!Now)
        /\ DOMAIN capture.copied = DOMAIN capture.seen
        /\ \A name \in DOMAIN capture.copied : capture.copied[name] = capture.seen[name]
    BY <1>1 DEF CaptureFits
  <2>4. CaptureShape'
    BY <1>1, <2>1, <2>2 DEF CaptureShape
  <2>5. LookedOver'
    BY <1>1, <2>2, <2>3 DEF LookedOver, Earlier
  <2>6. capture.copied = capture.seen
    BY <1>1, <2>3, SameCopies DEF CaptureShape
  <2>7. CaptureFits'
    BY <1>1, <2>2, <2>3, <2>5, <2>6 DEF CaptureFits
  <2> QED
    BY <1>1, <2>4, <2>7, CapturingKeeps
<1> QED
  BY <1>2, <1>3 DEF A!MakePortable, A!GiveUp

\* The second look finds what the first one saw: at the moment between them the
\* work was just that.
LEMMA LookAgainKeeps == ASSUME ArchiveInv, A!LookAgain PROVE ArchiveInv'
<1>1. /\ UNCHANGED <<work, package, restore, restored, moments>> /\ capture # Nothing
      /\ capture.step = "again" /\ CaptureShape /\ CaptureFits /\ WorkTypes
  BY DEF A!LookAgain, A!AtStep, ArchiveInv
<1>2. /\ capture.kind # "independent" /\ LookedOver /\ Earlier(capture.seen, A!Now)
      /\ capture.copied = capture.seen /\ IsCopy(capture.seen)
  BY <1>1 DEF CaptureFits, CaptureShape
<1>3. PICK state \in moments.states :
        /\ Earlier(capture.seen, state) /\ Earlier(state, A!Now)
        /\ \A name \in DOMAIN state \ capture.left :
             name \in DOMAIN capture.seen /\ state[name] = capture.seen[name]
  BY <1>1, <1>2 DEF LookedOver
<1>4. A!Now' = A!Now /\ IsCopy(state) /\ IsCopy(A!Now)
  BY <1>1, NowFits DEF A!Now, WorkTypes
<1>5. CASE capture' = Nothing
  BY <1>1, <1>5, GivingUpKeeps
<1>6. CASE capture.left = {} /\ capture' = [capture EXCEPT !.step = "index"]
  <2>1. capture' = [kind |-> capture.kind, step |-> "index", left |-> capture.left,
                    seen |-> capture.seen, copied |-> capture.copied]
    BY <1>1, <1>6 DEF CaptureShape
  <2>2. /\ capture'.kind = capture.kind /\ capture'.seen = capture.seen
        /\ capture'.copied = capture.copied /\ capture'.step = "index"
        /\ capture'.left = capture.left
    BY <2>1
  <2>3. capture.seen = state
    <3>1. DOMAIN capture.seen = DOMAIN state
      BY <1>3, <1>6 DEF Earlier
    <3>2. \A name \in DOMAIN capture.seen : capture.seen[name] = state[name]
      BY <1>3, <1>6, <3>1
    <3> QED
      BY <1>2, <1>4, <3>1, <3>2, SameCopies
  <2>4. CaptureShape'
    BY <1>1, <1>4, <2>1, <2>2 DEF CaptureShape
  <2>5. LookedOver'
    BY <1>1, <1>3, <1>4, <2>2 DEF LookedOver
  <2>6. CaptureFits'
    BY <1>1, <1>2, <1>3, <1>4, <2>2, <2>3, <2>5 DEF CaptureFits
  <2> QED
    BY <1>1, <2>4, <2>6, CapturingKeeps
<1>7. ASSUME NEW name \in capture.left, name \in DOMAIN capture.seen,
             A!Now[name] = capture.seen[name], capture' = [capture EXCEPT !.left = @ \ {name}]
      PROVE  ArchiveInv'
  <2>1. capture' = [kind |-> capture.kind, step |-> "again", left |-> capture.left \ {name},
                    seen |-> capture.seen, copied |-> capture.copied]
    BY <1>1, <1>7 DEF CaptureShape
  <2>2. /\ capture'.kind = capture.kind /\ capture'.seen = capture.seen
        /\ capture'.copied = capture.copied /\ capture'.step = "again"
        /\ capture'.left = capture.left \ {name}
    BY <2>1
  <2>3. name \in DOMAIN state => state[name] = capture.seen[name]
    BY <1>2, <1>3, <1>4, <1>7, SMTT(30) DEF Earlier, IsCopy
  <2>4. CaptureShape'
    BY <1>1, <1>4, <2>1, <2>2 DEF CaptureShape
  <2>5. LookedOver'
    BY <1>1, <1>3, <1>4, <1>7, <2>2, <2>3 DEF LookedOver
  <2>6. CaptureFits'
    BY <1>1, <1>2, <1>4, <2>2, <2>5 DEF CaptureFits
  <2> QED
    BY <1>1, <2>4, <2>6, CapturingKeeps
<1> QED
  BY <1>5, <1>6, <1>7 DEF A!LookAgain, A!GiveUp
LEMMA PublishKeeps == ASSUME ArchiveInv, A!Publish PROVE ArchiveInv'
<1>1. /\ UNCHANGED <<work, restore, restored, moments>> /\ capture # Nothing /\ capture' = Nothing
      /\ CaptureShape /\ CaptureFits /\ WorkTypes
      /\ \/ capture.step = "index"
         \/ capture.step = "copy" /\ capture.left = {} /\ capture.kind = "independent"
      /\ package' = IF package # Nothing \/ (capture.kind = "archive" /\ ~ A!Sound(capture.copied))
                    THEN package
                    ELSE [kind |-> capture.kind, manifest |-> capture.copied, data |-> capture.copied,
                          portable |-> IF capture.kind = "archive"
                                       THEN [d \in capture.copied[Listing] |-> capture.copied[d]]
                                       ELSE <<>>]
  BY DEF A!Publish, A!AtStep, A!GiveUp, A!Files, ArchiveInv
<1>2. CASE package' = package
  BY <1>1, <1>2, GivingUpKeeps
<1>3. CASE package' # package
  <2>1. /\ package = Nothing /\ (capture.kind = "archive" => A!Sound(capture.copied))
        /\ package' = [kind |-> capture.kind, manifest |-> capture.copied, data |-> capture.copied,
                       portable |-> IF capture.kind = "archive"
                                    THEN [d \in capture.copied[Listing] |-> capture.copied[d]]
                                    ELSE <<>>]
    BY <1>1, <1>3
  <2>2. restore = Nothing /\ restored = Nothing
    BY <2>1 DEF ArchiveInv, RestoreFits
  <2>3. WorkTypes'
    BY <1>1 DEF WorkTypes, A!Now
  <2>4. /\ package'.kind = capture.kind /\ package'.manifest = capture.copied
        /\ package'.data = capture.copied
        /\ package'.portable = IF capture.kind = "archive"
                               THEN [d \in capture.copied[Listing] |-> capture.copied[d]]
                               ELSE <<>>
        /\ package' = [kind |-> package'.kind, manifest |-> package'.manifest,
                       data |-> package'.data, portable |-> package'.portable]
    BY <2>1
  <2>5. capture.kind # "independent" => capture.copied \in moments.states
    BY <1>1 DEF CaptureFits
  <2>6. A!BackupsAreMoments'
    BY <1>1, <2>1, <2>4, <2>5 DEF A!BackupsAreMoments, CaptureFits, Seen, A!Sound
  <2>7. PackageFits'
    <3>1. capture.copied = [name \in DOMAIN capture.copied |-> capture.copied[name]]
      BY <1>1 DEF CaptureShape, IsCopy
    <3>2. CASE capture.kind = "archive"
      BY <1>1, <2>1, <2>4, <2>5, <3>1, <3>2 DEF WorkTypes, A!Sound, PackageFits, A!Kinds
    <3>3. CASE capture.kind # "archive"
      BY <1>1, <2>4, <3>1, <3>3 DEF CaptureShape, PackageFits
    <3> QED
      BY <3>2, <3>3
  <2> QED
    BY <1>1, <2>2, <2>3, <2>6, <2>7 DEF ArchiveInv, A!RestoredIsTheBackup
<1> QED
  BY <1>2, <1>3

LEMMA KillKeeps == ASSUME ArchiveInv, A!Kill PROVE ArchiveInv'
<1>1. UNCHANGED <<work, package, restored, moments>> /\ capture' = Nothing /\ restore' = Nothing
  BY DEF A!Kill
<1>2. WorkTypes'
  BY <1>1 DEF ArchiveInv, WorkTypes, A!Now
<1> QED
  BY <1>1, <1>2 DEF ArchiveInv, A!BackupsAreMoments, A!RestoredIsTheBackup, A!Sound, PackageFits

-----------------------------------------------------------------------------
(* Restoring a backup *)

LEMMA RestoringKeeps ==
  ASSUME ArchiveInv, UNCHANGED <<work, capture, package>>,
         \/ UNCHANGED moments
         \/ moments' = [moments EXCEPT !.tries = @ + 1],
         restore' # Nothing => RestoreFits',
         restored' # Nothing => package # Nothing,
         A!RestoredIsTheBackup'
  PROVE  ArchiveInv'
<1>1. /\ moments'.states = moments.states
      /\ moments' = [saves |-> moments'.saves, tries |-> moments'.tries,
                     damages |-> moments'.damages, states |-> moments'.states]
  BY DEF ArchiveInv, WorkTypes
<1>2. WorkTypes' /\ A!Now' = A!Now
  BY <1>1 DEF ArchiveInv, WorkTypes, A!Now
<1>3. A!BackupsAreMoments'
  BY <1>1 DEF ArchiveInv, A!BackupsAreMoments, A!Sound
<1>4. package' # Nothing => PackageFits'
  BY DEF ArchiveInv, PackageFits
<1>5. CaptureShape => CaptureShape'
  BY <1>2 DEF CaptureShape
<1>6. LookedOver => LookedOver'
  BY <1>1, <1>2 DEF LookedOver
<1>7. CaptureFits => CaptureFits'
  BY <1>1, <1>2, <1>6 DEF CaptureFits, Seen
<1> QED
  BY <1>2, <1>3, <1>4, <1>5, <1>7 DEF ArchiveInv

LEMMA RestoreStartsKeeps == ASSUME ArchiveInv, A!RestoreStarts PROVE ArchiveInv'
<1>1. /\ UNCHANGED <<work, capture, package, restored>> /\ moments' = [moments EXCEPT !.tries = @ + 1]
      /\ package # Nothing /\ PackageFits
  BY DEF A!RestoreStarts, ArchiveInv
<1>2. CASE restore' = Nothing
  BY <1>1, <1>2, RestoringKeeps DEF ArchiveInv, A!RestoredIsTheBackup
<1>3. CASE restore' = [step |-> IF package.kind = "independent" THEN "copy" ELSE "portable",
                       left |-> IF package.kind = "independent" THEN DOMAIN package.manifest
                                ELSE DOMAIN package.portable,
                       listing |-> package.manifest, built |-> <<>>]
  BY <1>1, <1>3, RestoringKeeps DEF RestoreFits, Rebuilt, ArchiveInv, A!RestoredIsTheBackup
<1> QED
  BY <1>2, <1>3 DEF A!RestoreStarts

LEMMA MaterializeKeeps == ASSUME ArchiveInv, A!Materialize PROVE ArchiveInv'
<1>1. /\ UNCHANGED <<work, capture, package, restored, moments>>
      /\ restore # Nothing /\ restore.step = "portable" /\ RestoreFits
      /\ package # Nothing /\ PackageFits
  BY DEF A!Materialize, A!Restoring, ArchiveInv, RestoreFits
<1>2. \/ restore' = Nothing
      \/ RestoreFits'
  <2>1. ASSUME restore.left = {},
               restore' = [restore EXCEPT !.step = "list",
                 !.built = IF package.kind = "archive"
                           THEN A!With(@, Listing, package.manifest[Listing]) ELSE @]
        PROVE  RestoreFits'
    <3> DEFINE built == IF package.kind = "archive"
                        THEN A!With(restore.built, Listing, package.manifest[Listing])
                        ELSE restore.built
    <3>1. restore' = [step |-> "list", left |-> restore.left, listing |-> restore.listing,
                      built |-> built]
      BY <1>1, <2>1 DEF RestoreFits
    <3>2. /\ built = [name \in DOMAIN built |-> built[name]]
          /\ DOMAIN built = IF package.kind = "archive" THEN DOMAIN restore.built \cup {Listing}
                            ELSE DOMAIN restore.built
          /\ \A name \in DOMAIN built :
               \/ name \in DOMAIN restore.built /\ built[name] = restore.built[name]
               \/ name = Listing /\ built[name] = package.manifest[name]
      BY <1>1 DEF RestoreFits, A!With
    <3> HIDE DEF built
    <3>3. /\ restore'.step = "list" /\ restore'.built = built
          /\ restore' = [step |-> restore'.step, left |-> restore'.left,
                         listing |-> restore'.listing, built |-> restore'.built]
      BY <3>1
    <3>4. CASE package.kind = "independent"
      BY <1>1, <3>2, <3>3, <3>4 DEF RestoreFits
    <3>5. CASE package.kind # "independent"
      BY <1>1, <2>1, <3>2, <3>3, <3>5 DEF RestoreFits, PackageFits, Rebuilt
    <3> QED
      BY <3>4, <3>5
  <2>2. ASSUME NEW d \in restore.left, package.portable[d] = package.manifest[d],
               restore' = [restore EXCEPT !.left = @ \ {d},
                             !.built = A!With(@, d, package.portable[d])]
        PROVE  RestoreFits'
    <3> DEFINE built == A!With(restore.built, d, package.portable[d])
    <3>1. restore' = [step |-> "portable", left |-> restore.left \ {d}, listing |-> restore.listing,
                      built |-> built]
      BY <1>1, <2>2 DEF RestoreFits
    <3>2. /\ built = [name \in DOMAIN built |-> built[name]]
          /\ DOMAIN built = DOMAIN restore.built \cup {d}
          /\ \A name \in DOMAIN built :
               \/ name \in DOMAIN restore.built /\ built[name] = restore.built[name]
               \/ name = d /\ built[name] = package.manifest[d]
      BY <2>2 DEF A!With
    <3> HIDE DEF built
    <3>3. /\ restore'.step = "portable" /\ restore'.built = built /\ restore'.left = restore.left \ {d}
          /\ restore' = [step |-> restore'.step, left |-> restore'.left,
                         listing |-> restore'.listing, built |-> restore'.built]
      BY <3>1
    <3>4. CASE package.kind = "independent"
      BY <1>1, <3>2, <3>3, <3>4 DEF RestoreFits
    <3>5. CASE package.kind # "independent"
      BY <1>1, <3>2, <3>3, <3>5 DEF RestoreFits, PackageFits, Rebuilt
    <3> QED
      BY <3>4, <3>5
  <2> QED
    BY <2>1, <2>2 DEF A!Materialize, A!Stop
<1> QED
  BY <1>1, <1>2, RestoringKeeps DEF ArchiveInv, A!RestoredIsTheBackup
LEMMA ListDataKeeps == ASSUME ArchiveInv, A!ListData PROVE ArchiveInv'
<1>1. /\ UNCHANGED <<work, capture, package, restored, moments>>
      /\ restore # Nothing /\ restore.step = "list" /\ RestoreFits
      /\ package # Nothing /\ PackageFits
      /\ restore' = [restore EXCEPT !.step = "copy", !.listing = package.data,
                       !.left = DOMAIN package.data \ {n \in {Listing} : package.kind = "archive"}]
  BY DEF A!ListData, A!Restoring, ArchiveInv, RestoreFits
<1>2. restore' = [step |-> "copy",
                  left |-> DOMAIN package.data \ {n \in {Listing} : package.kind = "archive"},
                  listing |-> package.data, built |-> restore.built]
  BY <1>1 DEF RestoreFits
<1>3. /\ restore'.step = "copy" /\ restore'.built = restore.built
      /\ restore'.left = DOMAIN package.data \ {n \in {Listing} : package.kind = "archive"}
      /\ restore' = [step |-> restore'.step, left |-> restore'.left,
                     listing |-> restore'.listing, built |-> restore'.built]
  BY <1>2
<1>4. DOMAIN package.data = DOMAIN package.manifest
  BY <1>1 DEF PackageFits
<1>5. RestoreFits'
  <2>1. CASE package.kind = "independent"
    BY <1>1, <1>3, <2>1 DEF RestoreFits
  <2>2. CASE package.kind = "archive"
    BY <1>1, <1>3, <1>4, <2>2 DEF RestoreFits, Rebuilt
  <2>3. CASE package.kind \notin {"independent", "archive"}
    BY <1>1, <1>3, <1>4, <2>3 DEF RestoreFits, Rebuilt
  <2> QED
    BY <2>1, <2>2, <2>3
<1> QED
  BY <1>1, <1>5, RestoringKeeps DEF ArchiveInv, A!RestoredIsTheBackup

LEMMA CopyBackKeeps == ASSUME ArchiveInv, A!CopyBack PROVE ArchiveInv'
<1>1. /\ UNCHANGED <<work, capture, package, restored, moments>>
      /\ restore # Nothing /\ restore.step = "copy" /\ RestoreFits
      /\ package # Nothing /\ PackageFits
  BY DEF A!CopyBack, A!Restoring, ArchiveInv, RestoreFits
<1>2. \/ restore' = Nothing
      \/ RestoreFits'
  <2>1. ASSUME restore.left = {}, restore' = [restore EXCEPT !.step = "verify"]
        PROVE  RestoreFits'
    BY <1>1, <2>1 DEF RestoreFits, Rebuilt
  <2>2. ASSUME NEW name \in restore.left,
               LET there == name \in DOMAIN restore.built
                   text  == IF there THEN restore.built[name] ELSE package.data[name]
               IN restore' = [restore EXCEPT !.left = @ \ {name},
                                !.built = IF there THEN @ ELSE A!With(@, name, text)]
        PROVE  RestoreFits'
    <3> DEFINE built == IF name \in DOMAIN restore.built THEN restore.built
                        ELSE A!With(restore.built, name, package.data[name])
    <3>1. restore' = [step |-> "copy", left |-> restore.left \ {name}, listing |-> restore.listing,
                      built |-> built]
      BY <1>1, <2>2 DEF RestoreFits
    <3>2. /\ built = [n \in DOMAIN built |-> built[n]]
          /\ DOMAIN built = DOMAIN restore.built \cup {name}
          /\ \A n \in DOMAIN built :
               \/ n \in DOMAIN restore.built /\ built[n] = restore.built[n]
               \/ n = name /\ built[n] = package.data[name]
      BY <1>1 DEF A!With, RestoreFits
    <3> HIDE DEF built
    <3>3. /\ restore'.step = "copy" /\ restore'.built = built /\ restore'.left = restore.left \ {name}
          /\ restore' = [step |-> restore'.step, left |-> restore'.left,
                         listing |-> restore'.listing, built |-> restore'.built]
      BY <3>1
    <3>4. CASE package.kind = "independent"
      BY <1>1, <3>2, <3>3, <3>4 DEF RestoreFits
    <3>5. CASE package.kind # "independent"
      BY <1>1, <3>2, <3>3, <3>5 DEF RestoreFits, PackageFits, Rebuilt
    <3> QED
      BY <3>4, <3>5
  <2> QED
    BY <2>1, <2>2 DEF A!CopyBack, A!Stop
<1> QED
  BY <1>1, <1>2, RestoringKeeps DEF ArchiveInv, A!RestoredIsTheBackup

LEMMA FinishRestoreKeeps == ASSUME ArchiveInv, A!FinishRestore PROVE ArchiveInv'
<1>1. /\ UNCHANGED <<work, capture, package, moments>> /\ restore' = Nothing
      /\ restore.step = "verify" /\ RestoreFits
      /\ package # Nothing /\ PackageFits
      /\ restored' = IF A!VerifiedAgain THEN restore.built ELSE Nothing
  BY DEF A!FinishRestore, A!Restoring, A!Stop, ArchiveInv, RestoreFits
<1>2. A!VerifiedAgain => restore.built = package.manifest
  <2>1. CASE package.kind = "independent"
    BY <2>1 DEF A!VerifiedAgain
  <2>2. CASE package.kind # "independent"
    BY <1>1, <2>2 DEF A!VerifiedAgain, A!Verifies, RestoreFits, PackageFits, Rebuilt
  <2> QED
    BY <2>1, <2>2
<1>3. A!RestoredIsTheBackup'
  BY <1>1, <1>2 DEF A!RestoredIsTheBackup
<1> QED
  BY <1>1, <1>3, RestoringKeeps

\* A damaged file stays damaged: what was restored from it is seen at the end.
LEMMA DamageKeeps == ASSUME NothingIsNoBackup, ArchiveInv, A!Damage PROVE ArchiveInv'
<1>1. /\ UNCHANGED <<work, capture, restore, restored>> /\ package # Nothing /\ PackageFits
      /\ moments' = [moments EXCEPT !.damages = @ + 1]
  BY DEF A!Damage, ArchiveInv
<1>2. PICK data, portable :
        /\ package' = [kind |-> package.kind, manifest |-> package.manifest,
                       data |-> data, portable |-> portable]
        /\ \/ data = package.data
           \/ \E name \in DOMAIN package.data : data = [package.data EXCEPT ![name] = Damaged]
        /\ DOMAIN portable = DOMAIN package.portable
  BY <1>1 DEF PackageFits, A!Damage
<1>3. /\ package'.kind = package.kind /\ package'.manifest = package.manifest
      /\ package'.data = data /\ package'.portable = portable
      /\ package' = [kind |-> package'.kind, manifest |-> package'.manifest,
                     data |-> package'.data, portable |-> package'.portable]
  BY <1>2
<1>4. /\ data = [name \in DOMAIN package.manifest |-> data[name]]
      /\ \A name \in DOMAIN package.manifest :
           data[name] = package.data[name] \/ data[name] = Damaged
      /\ \A name \in DOMAIN package.manifest :
           data[name] \in {package.manifest[name], Damaged}
  BY <1>1, <1>2 DEF PackageFits
<1>5. PackageFits'
  BY <1>1, <1>2, <1>3, <1>4, ZenonT(40) DEF PackageFits
<1>6. /\ moments'.states = moments.states
      /\ moments' = [saves |-> moments'.saves, tries |-> moments'.tries,
                     damages |-> moments'.damages, states |-> moments'.states]
  BY <1>1 DEF ArchiveInv, WorkTypes
<1>7. WorkTypes' /\ A!Now' = A!Now
  BY <1>1, <1>6 DEF ArchiveInv, WorkTypes, A!Now
<1>8. A!BackupsAreMoments' /\ A!RestoredIsTheBackup'
  BY <1>1, <1>3, <1>6 DEF ArchiveInv, A!BackupsAreMoments, A!RestoredIsTheBackup, A!Sound
<1>9. CaptureShape => CaptureShape'
  BY <1>1, <1>7 DEF CaptureShape
<1>10. LookedOver => LookedOver'
  BY <1>1, <1>6, <1>7 DEF LookedOver
<1>11. CaptureFits => CaptureFits'
  BY <1>1, <1>6, <1>7, <1>10 DEF CaptureFits, Seen
<1>12. ASSUME RestoreFits PROVE RestoreFits'
  <2>1. package' # Nothing
    BY <1>2 DEF NothingIsNoBackup
  <2>2. CASE package.kind = "independent"
    BY <1>1, <1>3, <1>12, <2>1, <2>2 DEF RestoreFits
  <2>3. CASE package.kind # "independent"
    <3>1. Rebuilt /\ DOMAIN restore.built \subseteq DOMAIN package.manifest
      BY <1>12, <2>3 DEF RestoreFits
    <3>2. Rebuilt'
      BY <1>1, <1>3, <1>4, <3>1 DEF Rebuilt
    <3> QED
      BY <1>1, <1>2, <1>3, <1>12, <2>1, <2>3, <3>1, <3>2 DEF RestoreFits
  <2> QED
    BY <2>2, <2>3
<1>13. package' # Nothing
  BY <1>2 DEF NothingIsNoBackup
<1> QED
  BY <1>1, <1>5, <1>7, <1>8, <1>9, <1>11, <1>12, <1>13 DEF ArchiveInv
LEMMA ArchiveStep == ASSUME NothingIsNoBackup, ArchiveInv, A!ArchiveNext PROVE ArchiveInv'
BY WriterKeeps, CaptureStartsKeeps, LookAtKeeps, AuditKeeps, CopyKeeps, MakePortableKeeps,
   LookAgainKeeps, PublishKeeps, RestoreStartsKeeps, MaterializeKeeps, ListDataKeeps, CopyBackKeeps,
   FinishRestoreKeeps, KillKeeps, DamageKeeps DEF A!ArchiveNext

LEMMA ArchiveStutter == ASSUME ArchiveInv, UNCHANGED backed PROVE ArchiveInv'
<1>1. UNCHANGED <<work, capture, package, restore, restored, moments>>
  BY DEF backed
<1> QED
  BY <1>1, RestoringKeeps DEF ArchiveInv, RestoreFits, Rebuilt, A!RestoredIsTheBackup

LEMMA ArchiveStarts == ASSUME A!ArchiveInit PROVE ArchiveInv
<1>1. PICK first \in File :
        work = [disk |-> {first}, listed |-> {first}, text |-> [d \in File |-> 0]]
  BY DEF A!ArchiveInit
<1>2. /\ moments = [saves |-> 0, tries |-> 0, damages |-> 0, states |-> {A!Now}]
      /\ capture = Nothing /\ package = Nothing /\ restore = Nothing /\ restored = Nothing
  BY DEF A!ArchiveInit
<1>3. /\ DOMAIN A!Now = {first, Listing} /\ A!Now[Listing] = {first} /\ A!Now[first] = 0
      /\ A!Now = [name \in DOMAIN A!Now |-> A!Now[name]]
  BY <1>1, DeviceAssumption DEF A!Now
<1>4. IsCopy(A!Now) /\ Listing \in DOMAIN A!Now
  BY <1>3 DEF IsCopy
<1>5. /\ moments.states = {A!Now}
      /\ moments = [saves |-> moments.saves, tries |-> moments.tries,
                    damages |-> moments.damages, states |-> moments.states]
  BY <1>2
<1>6. /\ work \in [disk : SUBSET File, listed : SUBSET File, text : [File -> Nat]]
      /\ work.listed \subseteq work.disk
  BY <1>1
<1>7. WorkTypes
  BY <1>4, <1>5, <1>6 DEF WorkTypes
<1> QED
  BY <1>2, <1>7 DEF ArchiveInv, A!BackupsAreMoments, A!RestoredIsTheBackup

\* A backup is the work at one moment, though it is read file by file while the
\* writer goes on, and a restoration gives back what was backed up, whatever has
\* happened to the package since (create_archive, verify_archive, restore_archive).
\* The two looks at the work enclose a moment, and contents only grow: what both
\* have found was there at that moment.
THEOREM BackupsStayTrue == ASSUME NothingIsNoBackup PROVE DeviceSpec => []BackupsAreTrue
<1>1. DeviceInit => ArchiveOK
  BY ArchiveStarts DEF DeviceInit, ArchiveOK
<1>2. ArchiveOK /\ [DeviceNext]_<<part, vars, typed, tried, opened, backed>> => ArchiveOK'
  BY ArchiveStep, ArchiveStutter DEF ArchiveOK, DeviceNext
<1>3. ArchiveOK => BackupsAreTrue
  BY DEF ArchiveOK, ArchiveInv, BackupsAreTrue
<1> QED
  BY <1>1, <1>2, <1>3, PTL DEF DeviceSpec
-----------------------------------------------------------------------------
(* The opening of an older store (StoreUpgrade) *)

\* What an opening has behind it.
Prepared == {"drop", "create", "reviewed", "mark", "recover", "upgradeAgain", "running"}
Imported == {"status", "renames"} \cup Prepared
FromLegacy == {"legacy", "import"} \cup Imported
FromContract == {"contract"} \cup FromLegacy
FromLook == {"look", "alter"} \cup FromContract
FromIntents == {"intents"} \cup FromLook
EventNames == {"enqueued", "dispatch_started", "retry_scheduled", "committed", "cancel_requested",
               "conflict_detected", "recorded", "completed"}
Stages == {"closed", "upgrade", "tables", "failed"} \cup FromIntents

FileTypes ==
  /\ file = [version |-> file.version, has |-> file.has, ops |-> file.ops, rename |-> file.rename]
  /\ file.version \in Nat
  /\ DOMAIN file.ops = Operation /\ file.ops = [op \in Operation |-> file.ops[op]]
  /\ \A op \in Operation :
       /\ file.ops[op] = [known |-> file.ops[op].known, status |-> file.ops[op].status,
                          events |-> file.ops[op].events]
       /\ file.ops[op].known \in BOOLEAN /\ file.ops[op].events \in Seq(EventNames)
  /\ file.rename = [completed |-> file.rename.completed, events |-> file.rename.events]
  /\ file.rename.completed \in BOOLEAN /\ file.rename.events \in Seq(EventNames)
  /\ Len(file.rename.events) <= 2

RowInHand == {Nothing} \cup (Operation \X Nat)

Opening == [at : Stages, seen : Nat \cup {Nothing}, list : SUBSET Operation, row : RowInHand,
            raced : BOOLEAN]

OpeningTypes == opening \in [Opener -> Opening]

HistoryTypes ==
  /\ history = [openings |-> history.openings, sends |-> history.sends, true |-> history.true,
                sent |-> history.sent, cut |-> history.cut]
  /\ history.true \in [Operation -> U!Statuses]
  /\ history.sent \subseteq Operation /\ history.cut \subseteq Operation

RowsInHand ==
  \A p \in Opener : opening[p].row # Nothing =>
    /\ opening[p].at \in {"import", "recover", "running", "failed"}
    /\ opening[p].at = "import" =>
         opening[p].row[2] \in 1 .. Len(U!LegacyEvents(history.true[opening[p].row[1]]))

\* Operations that were settled and that no later list found half imported.
Safe(op) == op \in Operation /\ history.true[op] \in U!Settled /\ op \notin history.cut

Whole(op) == file.ops[op].events = U!LegacyEvents(history.true[op])

\* The events of a safe operation are its old ones, as far as they are imported.
SafeEvents(op) ==
  /\ op \notin history.sent
  /\ file.ops[op].events \in {<<>>, <<"enqueued">>, U!LegacyEvents(history.true[op])}

InHand(p, op) == opening[p].row # Nothing /\ opening[p].row[1] = op

\* Whoever has passed the import finds all of them; whoever imports has the
\* operation on its list or in hand; nobody dispatches or recovers it.
SafeFor(p, op) ==
  /\ opening[p].at \in Imported => Whole(op)
  /\ opening[p].at = "import" =>
       /\ Whole(op) \/ op \in opening[p].list \/ InHand(p, op)
       /\ InHand(p, op) =>
            \/ opening[p].row = <<op, 1>>
            \/ opening[p].row = <<op, 2>> /\ Len(file.ops[op].events) >= 1
  /\ opening[p].at \in {"recover", "running"} => ~ InHand(p, op)

SafeRows ==
  \A op \in Operation : Safe(op) => SafeEvents(op) /\ \A p \in Opener : SafeFor(p, op)

\* Who is alone finds what it left.
AloneFinds(p) ==
  ~ opening[p].raced =>
    /\ opening[p].at # "failed"
    /\ opening[p].at = "alter" => "columns" \notin file.has
    /\ opening[p].at = "create" => "guards" \notin file.has
    /\ opening[p].at = "recover" /\ opening[p].row # Nothing /\ opening[p].row[2] # 1 =>
         U!Derived(opening[p].row[1]) = "inflight"

\* Two that are open have seen each other.
Racing ==
  /\ \A p, q \in Opener :
       p # q /\ opening[p].at # "closed" /\ opening[q].at # "closed" => opening[p].raced
  /\ \A p \in Opener : AloneFinds(p)

\* What has been made stays: each stage finds what those before it made.
MadeBefore(p) ==
  /\ opening[p].at \in FromIntents => "queue" \in file.has
  /\ opening[p].at \in FromLook => "intents" \in file.has /\ opening[p].seen \in Nat
  /\ opening[p].at \in FromContract => "columns" \in file.has
  /\ opening[p].at \in FromLegacy => "contract" \in file.has
  /\ opening[p].at = "import" => U!Unknown \subseteq opening[p].list
  /\ opening[p].at \in Imported => U!Unknown = {}
  /\ opening[p].at \in Prepared => (file.rename.completed => Len(file.rename.events) = 2)

Made == \A p \in Opener : MadeBefore(p)

UpgradeInv ==
  /\ FileTypes /\ OpeningTypes /\ HistoryTypes
  /\ RowsInHand /\ SafeRows /\ Racing /\ Made /\ U!VersionTellsSchema

UpgradeOK == part = "opening" => UpgradeInv

LEMMA OneMore ==
  ASSUME NEW first \in EventNames, NEW rest \in Seq(EventNames)
  PROVE  /\ <<first>> \o rest \in Seq(EventNames) /\ Len(<<first>> \o rest) = 1 + Len(rest)
         /\ (<<first>> \o rest)[1] = first
         /\ Len(rest) >= 1 => (<<first>> \o rest)[2] = rest[1]
<1>1. <<first>> \in Seq(EventNames) /\ Len(<<first>>) = 1 /\ <<first>>[1] = first
  OBVIOUS
<1>2. Len(rest) \in Nat
  OBVIOUS
<1> DEFINE one == <<first>>
<1> HIDE DEF one
<1>3. /\ one \o rest \in Seq(EventNames) /\ Len(one \o rest) = Len(one) + Len(rest)
      /\ \A i \in 1 .. Len(one) + Len(rest) :
           (one \o rest)[i] = IF i <= Len(one) THEN one[i] ELSE rest[i - Len(one)]
  BY <1>1, ConcatProperties DEF one
<1>4. /\ Len(one \o rest) = 1 + Len(rest) /\ (one \o rest)[1] = first
      /\ Len(rest) >= 1 => (one \o rest)[2] = rest[1]
  BY <1>1, <1>2, <1>3 DEF one
<1> QED
  BY <1>3, <1>4 DEF one

LEMMA LegacyFits ==
  ASSUME NEW status \in U!Statuses
  PROVE  /\ U!LegacyEvents(status) \in Seq(EventNames) /\ Len(U!LegacyEvents(status)) \in Nat \ {0}
         /\ U!LegacyEvents(status)[1] = "enqueued"
         /\ status \in U!Settled =>
              /\ Len(U!LegacyEvents(status)) = 2
              /\ U!StateOf(U!LegacyEvents(status)[2]) = status
<1>0. /\ "enqueued" \in EventNames /\ "dispatch_started" \in EventNames
      /\ "retry_scheduled" \in EventNames /\ "committed" \in EventNames
      /\ "cancel_requested" \in EventNames /\ "conflict_detected" \in EventNames
  BY DEF EventNames
<1>1. CASE status = "pending"
  BY <1>0, <1>1, OneMore DEF U!LegacyEvents, U!Settled
<1>2. CASE status = "inflight"
  <2> DEFINE two == <<"dispatch_started", "retry_scheduled">>
  <2>1. U!LegacyEvents(status) = <<"enqueued">> \o two
    BY <1>2 DEF U!LegacyEvents
  <2>2. two \in Seq(EventNames) /\ Len(two) = 2 /\ status \notin U!Settled
    BY <1>0, <1>2 DEF U!Settled
  <2> HIDE DEF two
  <2> QED
    BY <1>0, <2>1, <2>2, OneMore
<1>3. CASE status \in U!Settled
  <2>1. PICK event \in {"committed", "cancel_requested", "conflict_detected"} :
          U!LegacyEvents(status) = <<"enqueued">> \o <<event>> /\ U!StateOf(event) = status
    <3>1. CASE status = "completed"
      BY <3>1 DEF U!LegacyEvents, U!StateOf
    <3>2. CASE status = "cancelled"
      BY <3>2 DEF U!LegacyEvents, U!StateOf
    <3>3. CASE status = "conflict"
      BY <3>3 DEF U!LegacyEvents, U!StateOf
    <3> QED
      BY <1>3, <3>1, <3>2, <3>3 DEF U!Settled
  <2>2. <<event>> \in Seq(EventNames) /\ Len(<<event>>) = 1 /\ <<event>>[1] = event
    BY <1>0
  <2> DEFINE last == <<event>>
  <2> HIDE DEF last
  <2> QED
    BY <1>0, <2>1, <2>2, OneMore DEF last
<1> QED
  BY <1>1, <1>2, <1>3 DEF U!Statuses, U!Settled

\* Step(p, at, seen, list, row): process p goes on, the others stand by.
Step(p, at, seen, list, row) ==
  opening' = [opening EXCEPT ![p] =
    [at |-> at, seen |-> seen, list |-> list, row |-> row, raced |-> opening[p].raced]]

Places(at, seen, list, row) ==
  /\ at \in Stages /\ seen \in Nat \cup {Nothing} /\ list \in SUBSET Operation /\ row \in RowInHand

Stepped(p, at, seen, list, row) ==
  /\ OpeningTypes'
  /\ \A q \in Opener : q # p => opening'[q] = opening[q]
  /\ opening'[p] = [at |-> at, seen |-> seen, list |-> list, row |-> row,
                    raced |-> opening[p].raced]

LEMMA StepFits ==
  ASSUME OpeningTypes, NEW p \in Opener, NEW at, NEW seen, NEW list, NEW row,
         Places(at, seen, list, row), Step(p, at, seen, list, row)
  PROVE  Stepped(p, at, seen, list, row)
<1>1. opening[p].raced \in BOOLEAN
  BY DEF OpeningTypes, Opening
<1>2. [at |-> at, seen |-> seen, list |-> list, row |-> row, raced |-> opening[p].raced] \in Opening
  BY <1>1 DEF Opening, Places
<1> QED
  BY <1>2 DEF OpeningTypes, Step, Stepped

LEMMA GoSteps ==
  ASSUME OpeningTypes, NEW p \in Opener, NEW at, U!Go(p, at)
  PROVE  Step(p, at, opening[p].seen, opening[p].list, opening[p].row)
<1>1. opening[p] \in Opening
  BY DEF OpeningTypes
<1>2. [opening[p] EXCEPT !.at = at] =
        [at |-> at, seen |-> opening[p].seen, list |-> opening[p].list,
         row |-> opening[p].row, raced |-> opening[p].raced]
  BY <1>1 DEF Opening
<1>3. opening' = [opening EXCEPT ![p] = [opening[p] EXCEPT !.at = at]]
  BY DEF U!Go, OpeningTypes
<1> QED
  BY <1>2, <1>3 DEF Step

\* What changes in several fields of the record is a new record.
LEMMA SeenSteps ==
  ASSUME OpeningTypes, NEW p \in Opener, NEW at, NEW seen,
         opening' = [opening EXCEPT ![p].at = at, ![p].seen = seen]
  PROVE  Step(p, at, seen, opening[p].list, opening[p].row)
<1> DEFINE o == opening[p]
           o1 == [at |-> at, seen |-> o.seen, list |-> o.list, row |-> o.row, raced |-> o.raced]
<1>0. o \in Opening
  BY DEF OpeningTypes
<1>1. [o EXCEPT !.at = at] = o1
  BY <1>0 DEF Opening
<1>2. [o1 EXCEPT !.seen = seen] =
        [at |-> at, seen |-> seen, list |-> o.list, row |-> o.row, raced |-> o.raced]
  OBVIOUS
<1>3. opening' = [opening EXCEPT ![p] = [o EXCEPT !.at = at, !.seen = seen]]
  BY DEF OpeningTypes
<1> HIDE DEF o1
<1>4. [o EXCEPT !.at = at, !.seen = seen] = [o1 EXCEPT !.seen = seen]
  BY <1>1
<1> QED
  BY <1>2, <1>3, <1>4 DEF Step

LEMMA ListSteps ==
  ASSUME OpeningTypes, NEW p \in Opener, NEW at, NEW list,
         opening' = [opening EXCEPT ![p].at = at, ![p].list = list]
  PROVE  Step(p, at, opening[p].seen, list, opening[p].row)
<1> DEFINE o == opening[p]
           o1 == [at |-> at, seen |-> o.seen, list |-> o.list, row |-> o.row, raced |-> o.raced]
<1>0. o \in Opening
  BY DEF OpeningTypes
<1>1. [o EXCEPT !.at = at] = o1
  BY <1>0 DEF Opening
<1>2. [o1 EXCEPT !.list = list] =
        [at |-> at, seen |-> o.seen, list |-> list, row |-> o.row, raced |-> o.raced]
  OBVIOUS
<1>3. opening' = [opening EXCEPT ![p] = [o EXCEPT !.at = at, !.list = list]]
  BY DEF OpeningTypes
<1> HIDE DEF o1
<1>4. [o EXCEPT !.at = at, !.list = list] = [o1 EXCEPT !.list = list]
  BY <1>1
<1> QED
  BY <1>2, <1>3, <1>4 DEF Step

LEMMA RowSteps ==
  ASSUME OpeningTypes, NEW p \in Opener, NEW list, NEW row,
         opening' = [opening EXCEPT ![p].list = list, ![p].row = row]
  PROVE  Step(p, opening[p].at, opening[p].seen, list, row)
<1> DEFINE o == opening[p]
           o1 == [at |-> o.at, seen |-> o.seen, list |-> list, row |-> o.row, raced |-> o.raced]
<1>0. o \in Opening
  BY DEF OpeningTypes
<1>1. [o EXCEPT !.list = list] = o1
  BY <1>0 DEF Opening
<1>2. [o1 EXCEPT !.row = row] =
        [at |-> o.at, seen |-> o.seen, list |-> list, row |-> row, raced |-> o.raced]
  OBVIOUS
<1>3. opening' = [opening EXCEPT ![p] = [o EXCEPT !.list = list, !.row = row]]
  BY DEF OpeningTypes
<1> HIDE DEF o1
<1>4. [o EXCEPT !.list = list, !.row = row] = [o1 EXCEPT !.row = row]
  BY <1>1
<1> QED
  BY <1>2, <1>3, <1>4 DEF Step

LEMMA ListStep ==
  ASSUME OpeningTypes, NEW p \in Opener, NEW x, opening' = [opening EXCEPT ![p].list = x]
  PROVE  Step(p, opening[p].at, opening[p].seen, x, opening[p].row)
<1> DEFINE o == opening[p]
<1>1. o \in Opening
  BY DEF OpeningTypes
<1>2. [o EXCEPT !.list = x] =
        [at |-> o.at, seen |-> o.seen, list |-> x, row |-> o.row, raced |-> o.raced]
  BY <1>1 DEF Opening
<1>3. [opening EXCEPT ![p].list = x] = [opening EXCEPT ![p] = [o EXCEPT !.list = x]]
  BY DEF OpeningTypes
<1> QED
  BY <1>2, <1>3 DEF Step

LEMMA RowStep ==
  ASSUME OpeningTypes, NEW p \in Opener, NEW x, opening' = [opening EXCEPT ![p].row = x]
  PROVE  Step(p, opening[p].at, opening[p].seen, opening[p].list, x)
<1> DEFINE o == opening[p]
<1>1. o \in Opening
  BY DEF OpeningTypes
<1>2. [o EXCEPT !.row = x] =
        [at |-> o.at, seen |-> o.seen, list |-> o.list, row |-> x, raced |-> o.raced]
  BY <1>1 DEF Opening
<1>3. [opening EXCEPT ![p].row = x] = [opening EXCEPT ![p] = [o EXCEPT !.row = x]]
  BY DEF OpeningTypes
<1> QED
  BY <1>2, <1>3 DEF Step

LEMMA OpeningFields ==
  ASSUME OpeningTypes, NEW p \in Opener
  PROVE  /\ opening[p].at \in Stages /\ opening[p].seen \in Nat \cup {Nothing}
         /\ opening[p].list \in SUBSET Operation /\ opening[p].row \in RowInHand
         /\ opening[p].raced \in BOOLEAN
BY DEF OpeningTypes, Opening

\* Nothing that was made or imported is lost, but for the guards.
FileGrows ==
  /\ FileTypes'
  /\ file'.version = file.version
  /\ file.has \ {"guards"} \subseteq file'.has
  /\ \A op \in Operation : file.ops[op].known => file'.ops[op].known
  /\ file'.rename.completed = file.rename.completed
  /\ Len(file.rename.events) <= Len(file'.rename.events)

LEMMA GrownVersion ==
  ASSUME UpgradeInv, FileGrows PROVE U!VersionTellsSchema'
<1>1. U!Unknown = {} => U!Unknown' = {}
  BY DEF FileGrows, U!Unknown
<1>2. /\ file.rename.completed /\ Len(file.rename.events) = 2 => Len(file'.rename.events) = 2
  BY DEF FileGrows, UpgradeInv, FileTypes
<1> QED
  BY <1>1, <1>2 DEF FileGrows, UpgradeInv, U!VersionTellsSchema

\* What the others have behind them stays behind them.
LEMMA GrownMade ==
  ASSUME UpgradeInv, FileTypes', file.has \ {"guards"} \subseteq file'.has,
         \A op \in Operation : file.ops[op].known => file'.ops[op].known,
         file'.rename.completed = file.rename.completed,
         Len(file.rename.events) <= Len(file'.rename.events),
         NEW p \in Opener, \A q \in Opener : q # p => opening'[q] = opening[q],
         MadeBefore(p)'
  PROVE  Made'
<1> SUFFICES ASSUME NEW q \in Opener, q # p PROVE MadeBefore(q)'
  BY DEF Made
<1>1. MadeBefore(q) /\ opening'[q] = opening[q]
  BY DEF UpgradeInv, Made
<1>2. U!Unknown' \subseteq U!Unknown
  BY DEF U!Unknown
<1>3. file.rename.completed /\ Len(file.rename.events) = 2 => Len(file'.rename.events) = 2
  BY DEF UpgradeInv, FileTypes
<1> QED
  BY <1>1, <1>2, <1>3 DEF MadeBefore

LEMMA KeptRacing ==
  ASSUME UpgradeInv, NEW p \in Opener, opening[p].at # "closed",
         \A q \in Opener : q # p => opening'[q] = opening[q],
         opening'[p].at = "closed" \/ opening'[p].raced = opening[p].raced,
         AloneFinds(p)'
  PROVE  Racing'
<1>1. ASSUME NEW q \in Opener, NEW r \in Opener, q # r,
             opening'[q].at # "closed", opening'[r].at # "closed"
      PROVE  opening'[q].raced
  BY <1>1 DEF UpgradeInv, Racing
<1>2. ASSUME NEW q \in Opener, q # p PROVE AloneFinds(q)'
  BY <1>2 DEF UpgradeInv, Racing, AloneFinds
<1> QED
  BY <1>1, <1>2 DEF Racing

\* No event is added: the safe rows stay as they are.
LEMMA KeptRows ==
  ASSUME UpgradeInv, NEW p \in Opener,
         \A q \in Opener : q # p => /\ opening'[q].at = opening[q].at /\ opening'[q].list = opening[q].list
                                    /\ opening'[q].row = opening[q].row,
         \A op \in Operation : file'.ops[op].events = file.ops[op].events,
         history'.true = history.true, history'.sent = history.sent,
         history.cut \subseteq history'.cut,
         \A op \in Operation : Safe(op) /\ Safe(op)' => SafeFor(p, op)'
  PROVE  SafeRows'
<1> SUFFICES ASSUME NEW op \in Operation, Safe(op)'
             PROVE  SafeEvents(op)' /\ \A q \in Opener : SafeFor(q, op)'
  BY DEF SafeRows
<1>1. Safe(op)
  BY DEF Safe
<1>2. SafeEvents(op)'
  BY <1>1 DEF UpgradeInv, SafeRows, SafeEvents
<1>3. ASSUME NEW q \in Opener, q # p PROVE SafeFor(q, op)'
  BY <1>1, <1>3 DEF UpgradeInv, SafeRows, SafeFor, InHand, Whole
<1> QED
  BY <1>1, <1>2, <1>3

\* The process leaves no obligation of its own unmet.
LEMMA GoesOn ==
  ASSUME UpgradeInv, NEW p \in Opener, NEW op \in Operation, Safe(op),
         file'.ops[op].events = file.ops[op].events, history'.true = history.true,
         opening'[p].at # "import",
         opening'[p].at \in Imported => opening[p].at \in Imported,
         opening'[p].at \in {"recover", "running"} /\ opening'[p].row # Nothing =>
           opening[p].at \in {"recover", "running"} /\ opening'[p].row = opening[p].row
  PROVE  SafeFor(p, op)'
BY DEF UpgradeInv, SafeRows, SafeFor, InHand, Whole

\* One process goes on; no event is added and nothing is taken into its hand.
LEMMA StageKeeps ==
  ASSUME UpgradeInv, NEW p \in Opener, opening[p].at # "closed",
         NEW at \in Stages \ {"import"}, NEW seen \in Nat \cup {Nothing}, NEW list \in SUBSET Operation,
         Step(p, at, seen, list, opening[p].row),
         at \in Imported => opening[p].at \in Imported,
         opening[p].row # Nothing => \/ at = "failed"
                                     \/ at \in {"recover", "running"} /\ opening[p].at \in {"recover", "running"},
         FileTypes', UNCHANGED history,
         file.has \ {"guards"} \subseteq file'.has,
         \A op \in Operation : /\ file'.ops[op].events = file.ops[op].events
                               /\ file'.ops[op].known = file.ops[op].known,
         file'.rename.completed = file.rename.completed,
         Len(file.rename.events) <= Len(file'.rename.events),
         AloneFinds(p)', MadeBefore(p)', U!VersionTellsSchema'
  PROVE  UpgradeInv'
<1>1. OpeningTypes /\ opening[p].row \in RowInHand /\ opening[p].at \in Stages
  BY OpeningFields DEF UpgradeInv
<1>2. /\ OpeningTypes' /\ \A q \in Opener : q # p => opening'[q] = opening[q]
      /\ opening'[p] = [at |-> at, seen |-> seen, list |-> list, row |-> opening[p].row,
                        raced |-> opening[p].raced]
  BY <1>1, StepFits DEF Places, Stepped
<1>3. opening'[p].at = at /\ opening'[p].row = opening[p].row /\ opening'[p].raced = opening[p].raced
  BY <1>2
<1>4. RowsInHand'
  BY <1>2, <1>3 DEF UpgradeInv, RowsInHand
<1>5. SafeRows'
  BY <1>2, <1>3, GoesOn, KeptRows
<1>6. Racing'
  BY <1>2, <1>3, KeptRacing
<1>7. Made'
  BY <1>2, GrownMade
<1>8. HistoryTypes'
  BY DEF UpgradeInv, HistoryTypes
<1> QED
  BY <1>2, <1>4, <1>5, <1>6, <1>7, <1>8 DEF UpgradeInv

\* Only the version and the objects of the schema change.
LEMMA SchemaBecomes ==
  ASSUME FileTypes, NEW version \in Nat, NEW has,
         file' = [version |-> version, has |-> has, ops |-> file.ops, rename |-> file.rename]
  PROVE  /\ FileTypes' /\ file'.version = version /\ file'.has = has
         /\ file'.ops = file.ops /\ file'.rename = file.rename
         /\ U!Unknown' = U!Unknown
<1>1. /\ file'.version = version /\ file'.has = has
      /\ file'.ops = file.ops /\ file'.rename = file.rename
      /\ file' = [version |-> file'.version, has |-> file'.has, ops |-> file'.ops, rename |-> file'.rename]
  OBVIOUS
<1> QED
  BY <1>1 DEF FileTypes, U!Unknown

LEMMA SchemaChanges ==
  ASSUME FileTypes, NEW version \in Nat, NEW has,
         file' = [file EXCEPT !.version = version, !.has = has]
  PROVE  /\ FileTypes' /\ file'.version = version /\ file'.has = has
         /\ file'.ops = file.ops /\ file'.rename = file.rename
         /\ U!Unknown' = U!Unknown
<1>1. file' = [version |-> version, has |-> has, ops |-> file.ops, rename |-> file.rename]
  BY DEF FileTypes
<1> QED
  BY <1>1, SchemaBecomes

LEMMA SameFile ==
  ASSUME FileTypes
  PROVE  file = [file EXCEPT !.version = file.version, !.has = file.has]
BY DEF FileTypes

LEMMA NewHas ==
  ASSUME FileTypes, NEW has
  PROVE  [file EXCEPT !.has = has] = [file EXCEPT !.version = file.version, !.has = has]
BY DEF FileTypes

LEMMA UpgradeCheckpointKeeps ==
  ASSUME UpgradeInv, NEW p \in Opener, U!UpgradeCheckpoint(p) PROVE UpgradeInv'
<1> DEFINE at == IF opening[p].at = "upgrade" THEN "tables" ELSE "running"
           has == IF file.version # 8012 THEN file.has ELSE file.has \cup {"checkpoint"}
           version == IF file.version # 8012 THEN file.version ELSE 8013
<1>1. /\ opening[p].at \in {"upgrade", "upgradeAgain"} /\ UNCHANGED history
      /\ FileTypes /\ OpeningTypes
  BY DEF U!UpgradeCheckpoint, UpgradeInv
<1>2. Step(p, at, opening[p].seen, opening[p].list, opening[p].row)
  BY <1>1, GoSteps DEF U!UpgradeCheckpoint, U!At
<1>3. file' = [file EXCEPT !.version = version, !.has = has] /\ version \in Nat
  <2>1. CASE file.version # 8012
    BY <1>1, <2>1, SameFile DEF U!UpgradeCheckpoint, FileTypes
  <2>2. CASE file.version = 8012
    BY <1>1, <2>2 DEF U!UpgradeCheckpoint, FileTypes
  <2> QED
    BY <2>1, <2>2
<1>4. /\ FileTypes' /\ file'.version = version /\ file'.has = has
      /\ file'.ops = file.ops /\ file'.rename = file.rename /\ U!Unknown' = U!Unknown
  <2> HIDE DEF version, has
  <2> QED
    BY <1>1, <1>3, SchemaChanges
<1>5. /\ opening[p].row = Nothing /\ opening[p].seen \in Nat \cup {Nothing}
      /\ opening[p].list \in SUBSET Operation
  BY <1>1, OpeningFields DEF UpgradeInv, RowsInHand
<1>6. /\ opening'[p].at = at /\ opening'[p].seen = opening[p].seen /\ opening'[p].list = opening[p].list
      /\ at \in Stages \ {"import"} /\ opening'[p].row = Nothing
  <2>1. at \in Stages \ {"import"} /\ Nothing \in RowInHand
    BY DEF Stages, FromIntents, FromLook, FromContract, FromLegacy, Imported, Prepared, RowInHand
  <2> QED
    <3>1. opening'[p] = [at |-> at, seen |-> opening[p].seen, list |-> opening[p].list,
                         row |-> opening[p].row, raced |-> opening[p].raced]
      <4>1. Places(at, opening[p].seen, opening[p].list, opening[p].row)
        BY <1>5, <2>1 DEF Places
      <4> HIDE DEF at
      <4>2. Stepped(p, at, opening[p].seen, opening[p].list, opening[p].row)
        BY <1>1, <1>2, <4>1, StepFits, Zenon
      <4> QED
        BY <4>2 DEF Stepped
    <3> QED
      BY <1>5, <2>1, <3>1
<1>7. AloneFinds(p)'
  BY <1>6 DEF AloneFinds
<1>8. MadeBefore(p)'
  <2>1. opening[p].at = "upgrade" \/ (opening[p].at = "upgradeAgain" /\ at = "running")
    BY <1>1
  <2> QED
    BY <1>4, <1>6, <2>1 DEF UpgradeInv, Made, MadeBefore, FromIntents, FromLook, FromContract,
       FromLegacy, Imported, Prepared
<1>9. U!VersionTellsSchema'
  BY <1>3, <1>4 DEF UpgradeInv, U!VersionTellsSchema
<1>10. at \in Imported => opening[p].at \in Imported
  BY <1>1 DEF Imported, Prepared
<1> HIDE DEF at, has, version
<1>11. file.has \ {"guards"} \subseteq file'.has /\ Len(file.rename.events) <= Len(file'.rename.events)
  BY <1>1, <1>4 DEF has, FileTypes
<1> QED
  BY <1>1, <1>2, <1>4, <1>5, <1>6, <1>7, <1>8, <1>9, <1>10, <1>11, StageKeeps

\* A stage that makes or drops objects of the schema.
LEMMA SchemaStageKeeps ==
  ASSUME UpgradeInv, NEW p \in Opener, opening[p].at \notin {"closed", "import", "recover", "running", "failed"},
         NEW at \in Stages \ {"import"}, NEW seen \in Nat \cup {Nothing}, NEW has,
         Step(p, at, seen, opening[p].list, opening[p].row),
         file' = [file EXCEPT !.has = has], file.has \ {"guards"} \subseteq has, UNCHANGED history,
         at \in Imported => opening[p].at \in Imported,
         at \in Prepared => opening[p].at \in Prepared,
         opening[p].raced \/ /\ at # "failed" /\ (at = "alter" => "columns" \notin has)
                             /\ (at = "create" => "guards" \notin has),
         at \in FromIntents => "queue" \in has,
         at \in FromLook => "intents" \in has /\ seen \in Nat,
         at \in FromContract => "columns" \in has,
         at \in FromLegacy => "contract" \in has
  PROVE  UpgradeInv'
<1>1. FileTypes /\ OpeningTypes /\ file.version \in Nat
  BY DEF UpgradeInv, FileTypes
<1>2. /\ opening[p].row = Nothing /\ Nothing \in RowInHand /\ opening[p].list \in SUBSET Operation
  BY <1>1, OpeningFields DEF UpgradeInv, RowsInHand, RowInHand
<1>3. /\ FileTypes' /\ file'.version = file.version /\ file'.has = has
      /\ file'.ops = file.ops /\ file'.rename = file.rename /\ U!Unknown' = U!Unknown
  BY <1>1, NewHas, SchemaChanges
<1>4. Places(at, seen, opening[p].list, Nothing)
  BY <1>2 DEF Places
<1>5. Stepped(p, at, seen, opening[p].list, Nothing)
  BY <1>1, <1>2, <1>4, StepFits
<1>6. /\ opening'[p].at = at /\ opening'[p].seen = seen /\ opening'[p].row = Nothing
      /\ opening'[p].raced = opening[p].raced
  BY <1>5 DEF Stepped
<1>7. AloneFinds(p)'
  BY <1>3, <1>6 DEF AloneFinds
<1>8. MadeBefore(p)'
  BY <1>3, <1>6 DEF MadeBefore, UpgradeInv, Made
<1>9. FileGrows
  BY <1>1, <1>3 DEF FileGrows, FileTypes
<1>10. U!VersionTellsSchema'
  BY <1>9, GrownVersion
<1>11. Len(file.rename.events) <= Len(file'.rename.events)
  BY <1>9 DEF FileGrows
<1> QED
  BY <1>2, <1>3, <1>7, <1>8, <1>10, <1>11, StageKeeps

LEMMA HasAsIs == ASSUME FileTypes PROVE file = [file EXCEPT !.has = file.has]
BY DEF FileTypes

LEMMA CreateTablesKeeps ==
  ASSUME UpgradeInv, NEW p \in Opener, U!CreateTables(p) PROVE UpgradeInv'
<1>1. /\ opening[p].at = "tables" /\ UNCHANGED history /\ FileTypes /\ OpeningTypes
      /\ file' = [file EXCEPT !.has = @ \cup {"queue"}] /\ U!Go(p, "intents")
  BY DEF U!CreateTables, U!At, U!Add, UpgradeInv
<1>2. Step(p, "intents", opening[p].seen, opening[p].list, opening[p].row)
  BY <1>1, GoSteps
<1>3. file' = [file EXCEPT !.has = file.has \cup {"queue"}] /\ opening[p].seen \in Nat \cup {Nothing}
  BY <1>1, OpeningFields
<1>4. "intents" \in Stages \ {"import"} /\ "intents" \notin FromLook
  BY DEF Stages, FromIntents, FromLook, FromContract, FromLegacy, Imported, Prepared
<1>5. "intents" \notin FromContract \cup FromLegacy \cup Imported \cup Prepared
  BY DEF FromContract, FromLegacy, Imported, Prepared
<1> QED
  BY <1>1, <1>2, <1>3, <1>4, <1>5, SchemaStageKeeps

LEMMA CreateIntentTablesKeeps ==
  ASSUME UpgradeInv, NEW p \in Opener, U!CreateIntentTables(p) PROVE UpgradeInv'
<1>1. /\ opening[p].at = "intents" /\ UNCHANGED history /\ FileTypes /\ OpeningTypes
      /\ file' = [file EXCEPT !.has = @ \cup {"intents"}] /\ MadeBefore(p)
      /\ opening' = [opening EXCEPT ![p].at = "look", ![p].seen = file.version]
  BY DEF U!CreateIntentTables, U!At, U!Add, UpgradeInv, Made
<1>2. Step(p, "look", file.version, opening[p].list, opening[p].row)
  BY <1>1, SeenSteps
<1>3. file' = [file EXCEPT !.has = file.has \cup {"intents"}] /\ file.version \in Nat
  BY <1>1 DEF FileTypes
<1>4. "look" \in Stages \ {"import"} /\ "look" \notin FromContract \cup FromLegacy \cup Imported \cup Prepared
  BY DEF Stages, FromIntents, FromLook, FromContract, FromLegacy, Imported, Prepared
<1>5. "queue" \in file.has
  BY <1>1 DEF MadeBefore, FromIntents
<1> QED
  BY <1>1, <1>2, <1>3, <1>4, <1>5, SchemaStageKeeps

LEMMA LookForColumnsKeeps ==
  ASSUME UpgradeInv, NEW p \in Opener, U!LookForColumns(p) PROVE UpgradeInv'
<1> DEFINE at == IF "columns" \in file.has THEN "contract" ELSE "alter"
<1>1. /\ opening[p].at = "look" /\ UNCHANGED <<file, history>> /\ FileTypes /\ OpeningTypes
      /\ MadeBefore(p) /\ U!Go(p, at)
  BY DEF U!LookForColumns, U!At, U!Has, UpgradeInv, Made
<1>2. Step(p, at, opening[p].seen, opening[p].list, opening[p].row)
  BY <1>1, GoSteps
<1>3. file' = [file EXCEPT !.has = file.has] /\ opening[p].seen \in Nat \cup {Nothing}
  BY <1>1, HasAsIs, OpeningFields
<1>4. at \in Stages \ {"import"} /\ at \notin FromLegacy \cup Imported \cup Prepared
  BY DEF Stages, FromIntents, FromLook, FromContract, FromLegacy, Imported, Prepared
<1>5. "queue" \in file.has /\ "intents" \in file.has /\ opening[p].seen \in Nat
  BY <1>1 DEF MadeBefore, FromIntents, FromLook
<1>6. /\ at \in FromContract => "columns" \in file.has
      /\ at = "alter" => "columns" \notin file.has
      /\ at # "failed" /\ at # "create"
  BY DEF FromContract, FromLegacy, Imported, Prepared
<1> HIDE DEF at
<1> QED
  BY <1>1, <1>2, <1>3, <1>4, <1>5, <1>6, SchemaStageKeeps

LEMMA AddColumnsKeeps ==
  ASSUME UpgradeInv, NEW p \in Opener, U!AddColumns(p) PROVE UpgradeInv'
<1>1. /\ opening[p].at = "alter" /\ UNCHANGED history /\ FileTypes /\ OpeningTypes
      /\ MadeBefore(p) /\ AloneFinds(p)
  BY DEF U!AddColumns, U!At, UpgradeInv, Made, Racing
<1>2. "queue" \in file.has /\ "intents" \in file.has /\ opening[p].seen \in Nat
  BY <1>1 DEF MadeBefore, FromIntents, FromLook
<1>3. CASE "columns" \in file.has
  <2>1. file' = [file EXCEPT !.has = file.has] /\ U!Go(p, "failed")
    BY <1>1, <1>3, HasAsIs DEF U!AddColumns, U!Has
  <2>2. Step(p, "failed", opening[p].seen, opening[p].list, opening[p].row)
    BY <1>1, <2>1, GoSteps
  <2>3. "failed" \in Stages \ {"import"} /\ "failed" \notin FromIntents \cup FromLook \cup FromContract
    BY DEF Stages, FromIntents, FromLook, FromContract, FromLegacy, Imported, Prepared
  <2>4. "failed" \notin FromLegacy \cup Imported \cup Prepared
    BY DEF FromLegacy, Imported, Prepared
  <2>5. opening[p].raced
    BY <1>1, <1>3 DEF AloneFinds
  <2> QED
    BY <1>1, <1>2, <2>1, <2>2, <2>3, <2>4, <2>5, SchemaStageKeeps
<1>4. CASE "columns" \notin file.has
  <2>1. file' = [file EXCEPT !.has = file.has \cup {"columns"}] /\ U!Go(p, "contract")
    BY <1>1, <1>4 DEF U!AddColumns, U!Has, U!Add
  <2>2. Step(p, "contract", opening[p].seen, opening[p].list, opening[p].row)
    BY <1>1, <2>1, GoSteps
  <2>3. "contract" \in Stages \ {"import"} /\ "contract" \notin FromLegacy \cup Imported \cup Prepared
    BY DEF Stages, FromIntents, FromLook, FromContract, FromLegacy, Imported, Prepared
  <2> QED
    BY <1>1, <1>2, <2>1, <2>2, <2>3, SchemaStageKeeps
<1> QED
  BY <1>3, <1>4

LEMMA CreateContractTablesKeeps ==
  ASSUME UpgradeInv, NEW p \in Opener, U!CreateContractTables(p) PROVE UpgradeInv'
<1>1. /\ opening[p].at = "contract" /\ UNCHANGED history /\ FileTypes /\ OpeningTypes
      /\ file' = [file EXCEPT !.has = @ \cup {"contract"}] /\ U!Go(p, "legacy") /\ MadeBefore(p)
  BY DEF U!CreateContractTables, U!At, U!Add, UpgradeInv, Made
<1>2. Step(p, "legacy", opening[p].seen, opening[p].list, opening[p].row)
  BY <1>1, GoSteps
<1>3. file' = [file EXCEPT !.has = file.has \cup {"contract"}]
  BY <1>1
<1>4. "legacy" \in Stages \ {"import"} /\ "legacy" \notin Imported \cup Prepared
  BY DEF Stages, FromIntents, FromLook, FromContract, FromLegacy, Imported, Prepared
<1>5. /\ "queue" \in file.has /\ "intents" \in file.has /\ opening[p].seen \in Nat
      /\ "columns" \in file.has
  BY <1>1 DEF MadeBefore, FromIntents, FromLook, FromContract
<1> QED
  BY <1>1, <1>2, <1>3, <1>4, <1>5, SchemaStageKeeps

\* What whoever prepares the file has made before.
LEMMA AllMade ==
  ASSUME UpgradeInv, NEW p \in Opener, opening[p].at \in FromLegacy \ {"legacy"}
  PROVE  /\ {"queue", "intents", "columns", "contract"} \subseteq file.has
         /\ opening[p].seen \in Nat
<1>1. /\ opening[p].at \in FromLegacy /\ opening[p].at \in FromContract
      /\ opening[p].at \in FromLook /\ opening[p].at \in FromIntents
  BY DEF FromIntents, FromLook, FromContract
<1> QED
  BY <1>1 DEF UpgradeInv, Made, MadeBefore

LEMMA DropGuardsKeeps ==
  ASSUME UpgradeInv, NEW p \in Opener, U!DropGuards(p) PROVE UpgradeInv'
<1>1. /\ opening[p].at = "drop" /\ UNCHANGED history /\ FileTypes /\ OpeningTypes
      /\ file' = [file EXCEPT !.has = file.has \ {"guards"}] /\ U!Go(p, "create")
  BY DEF U!DropGuards, U!At, UpgradeInv
<1>2. Step(p, "create", opening[p].seen, opening[p].list, opening[p].row)
  BY <1>1, GoSteps
<1>3. /\ "create" \in Stages \ {"import"} /\ "drop" \in FromLegacy
      /\ "drop" \in Prepared /\ "drop" \in Imported
  BY DEF Stages, FromIntents, FromLook, FromContract, FromLegacy, Imported, Prepared
<1>4. {"queue", "intents", "columns", "contract"} \subseteq file.has /\ opening[p].seen \in Nat
  BY <1>1, <1>3, AllMade
<1> QED
  BY <1>1, <1>2, <1>3, <1>4, SchemaStageKeeps

LEMMA CreateGuardsKeeps ==
  ASSUME UpgradeInv, NEW p \in Opener, U!CreateGuards(p) PROVE UpgradeInv'
<1>1. /\ opening[p].at = "create" /\ UNCHANGED history /\ FileTypes /\ OpeningTypes /\ AloneFinds(p)
  BY DEF U!CreateGuards, U!At, UpgradeInv, Racing
<1>2. /\ "failed" \in Stages \ {"import"} /\ "reviewed" \in Stages \ {"import"}
      /\ "create" \in FromLegacy /\ "create" \in Prepared /\ "create" \in Imported
  BY DEF Stages, FromIntents, FromLook, FromContract, FromLegacy, Imported, Prepared
<1>3. {"queue", "intents", "columns", "contract"} \subseteq file.has /\ opening[p].seen \in Nat
  BY <1>1, <1>2, AllMade
<1>4. CASE "guards" \in file.has
  BY <1>1, <1>2, <1>3, <1>4, HasAsIs, GoSteps, SchemaStageKeeps DEF U!CreateGuards, U!Has,
     AloneFinds
<1>5. CASE "guards" \notin file.has
  BY <1>1, <1>2, <1>3, <1>5, GoSteps, SchemaStageKeeps DEF U!CreateGuards, U!Has, U!Add
<1> QED
  BY <1>4, <1>5

LEMMA CreateReviewTablesKeeps ==
  ASSUME UpgradeInv, NEW p \in Opener, U!CreateReviewTables(p) PROVE UpgradeInv'
<1>1. /\ opening[p].at = "reviewed" /\ UNCHANGED history /\ FileTypes /\ OpeningTypes
      /\ file' = [file EXCEPT !.has = file.has \cup {"reviewed"}] /\ U!Go(p, "mark")
  BY DEF U!CreateReviewTables, U!At, U!Add, UpgradeInv
<1>2. Step(p, "mark", opening[p].seen, opening[p].list, opening[p].row)
  BY <1>1, GoSteps
<1>3. /\ "mark" \in Stages \ {"import"} /\ "reviewed" \in FromLegacy
      /\ "reviewed" \in Prepared /\ "reviewed" \in Imported
  BY DEF Stages, FromIntents, FromLook, FromContract, FromLegacy, Imported, Prepared
<1>4. {"queue", "intents", "columns", "contract"} \subseteq file.has /\ opening[p].seen \in Nat
  BY <1>1, <1>3, AllMade
<1> QED
  BY <1>1, <1>2, <1>3, <1>4, SchemaStageKeeps
\* RowBecomes(...): one row of the queue, and what the schema holds.
RowBecomes(op, known, status, events, has) ==
  /\ FileTypes'
  /\ file'.version = file.version /\ file'.has = has /\ file'.rename = file.rename
  /\ \A o \in Operation : o # op => file'.ops[o] = file.ops[o]
  /\ file'.ops[op].known = known /\ file'.ops[op].status = status /\ file'.ops[op].events = events

LEMMA RowFits ==
  ASSUME FileTypes, NEW op \in Operation, NEW known \in BOOLEAN, NEW status,
         NEW events \in Seq(EventNames), NEW has,
         file' = [version |-> file.version, has |-> has, rename |-> file.rename,
                  ops |-> [file.ops EXCEPT ![op] =
                            [known |-> known, status |-> status, events |-> events]]]
  PROVE  RowBecomes(op, known, status, events, has)
<1> DEFINE row == [known |-> known, status |-> status, events |-> events]
<1>1. /\ row = [known |-> row.known, status |-> row.status, events |-> row.events]
      /\ row.known = known /\ row.status = status /\ row.events = events
  OBVIOUS
<1>2. /\ file'.version = file.version /\ file'.has = has /\ file'.rename = file.rename
      /\ file'.ops = [file.ops EXCEPT ![op] = row]
      /\ file' = [version |-> file'.version, has |-> file'.has, ops |-> file'.ops, rename |-> file'.rename]
  OBVIOUS
<1> HIDE DEF row
<1>3. /\ \A o \in Operation : o # op => file'.ops[o] = file.ops[o]
      /\ file'.ops[op] = row /\ DOMAIN file'.ops = Operation
      /\ file'.ops = [o \in Operation |-> file'.ops[o]]
  BY <1>2 DEF FileTypes
<1>4. FileTypes'
  BY <1>1, <1>2, <1>3 DEF FileTypes
<1> QED
  BY <1>1, <1>2, <1>3, <1>4 DEF RowBecomes

LEMMA FieldsOfRow ==
  ASSUME FileTypes, NEW op \in Operation
  PROVE  /\ file = [version |-> file.version, has |-> file.has, ops |-> file.ops, rename |-> file.rename]
         /\ file.ops[op] = [known |-> file.ops[op].known, status |-> file.ops[op].status,
                            events |-> file.ops[op].events]
         /\ file.ops[op].known \in BOOLEAN /\ file.ops[op].events \in Seq(EventNames)
BY DEF FileTypes

LEMMA KnownForm ==
  ASSUME FileTypes, NEW op \in Operation, NEW known \in BOOLEAN,
         file' = [file EXCEPT !.ops[op].known = known]
  PROVE  RowBecomes(op, known, file.ops[op].status,
                    file.ops[op].events, file.has)
<1> DEFINE r == file.ops[op]
           new == [r EXCEPT !.known = known]
<1>1. /\ file = [version |-> file.version, has |-> file.has, ops |-> file.ops, rename |-> file.rename]
      /\ r = [known |-> r.known, status |-> r.status, events |-> r.events]
      /\ r.known \in BOOLEAN /\ r.events \in Seq(EventNames)
  BY FieldsOfRow
<1>2. file' = [version |-> file.version, has |-> file.has, rename |-> file.rename,
               ops |-> [file.ops EXCEPT ![op] = new]]
  BY <1>1
<1> HIDE DEF r
<1>3. new = [known |-> known, status |-> r.status, events |-> r.events]
  BY <1>1
<1>4. r.events \in Seq(EventNames)
  BY <1>1
<1> HIDE DEF new
<1> QED
  BY <1>1, <1>2, <1>3, <1>4, RowFits DEF r

LEMMA StatusHasForm ==
  ASSUME FileTypes, NEW op \in Operation, NEW status, NEW has,
         file' = [file EXCEPT !.ops[op].status = status, !.has = has]
  PROVE  RowBecomes(op, file.ops[op].known, status,
                    file.ops[op].events, has)
<1> DEFINE r == file.ops[op]
           new == [r EXCEPT !.status = status]
<1>1. /\ file = [version |-> file.version, has |-> file.has, ops |-> file.ops, rename |-> file.rename]
      /\ r = [known |-> r.known, status |-> r.status, events |-> r.events]
      /\ r.known \in BOOLEAN /\ r.events \in Seq(EventNames)
  BY FieldsOfRow
<1>2. file' = [version |-> file.version, has |-> has, rename |-> file.rename,
               ops |-> [file.ops EXCEPT ![op] = new]]
  BY <1>1
<1> HIDE DEF r
<1>3. new = [known |-> r.known, status |-> status, events |-> r.events]
  BY <1>1
<1>4. r.events \in Seq(EventNames)
  BY <1>1
<1> HIDE DEF new
<1> QED
  BY <1>1, <1>2, <1>3, <1>4, RowFits DEF r

LEMMA StatusForm ==
  ASSUME FileTypes, NEW op \in Operation, NEW status,
         file' = [file EXCEPT !.ops[op].status = status]
  PROVE  RowBecomes(op, file.ops[op].known, status,
                    file.ops[op].events, file.has)
<1> DEFINE r == file.ops[op]
           new == [r EXCEPT !.status = status]
<1>1. /\ file = [version |-> file.version, has |-> file.has, ops |-> file.ops, rename |-> file.rename]
      /\ r = [known |-> r.known, status |-> r.status, events |-> r.events]
      /\ r.known \in BOOLEAN /\ r.events \in Seq(EventNames)
  BY FieldsOfRow
<1>2. file' = [version |-> file.version, has |-> file.has, rename |-> file.rename,
               ops |-> [file.ops EXCEPT ![op] = new]]
  BY <1>1
<1> HIDE DEF r
<1>3. new = [known |-> r.known, status |-> status, events |-> r.events]
  BY <1>1
<1>4. r.events \in Seq(EventNames)
  BY <1>1
<1> HIDE DEF new
<1> QED
  BY <1>1, <1>2, <1>3, <1>4, RowFits DEF r

LEMMA EventsForm ==
  ASSUME FileTypes, NEW op \in Operation, NEW events \in Seq(EventNames),
         file' = [file EXCEPT !.ops[op].events = events]
  PROVE  RowBecomes(op, file.ops[op].known, file.ops[op].status,
                    events, file.has)
<1> DEFINE r == file.ops[op]
           new == [r EXCEPT !.events = events]
<1>1. /\ file = [version |-> file.version, has |-> file.has, ops |-> file.ops, rename |-> file.rename]
      /\ r = [known |-> r.known, status |-> r.status, events |-> r.events]
      /\ r.known \in BOOLEAN /\ r.events \in Seq(EventNames)
  BY FieldsOfRow
<1>2. file' = [version |-> file.version, has |-> file.has, rename |-> file.rename,
               ops |-> [file.ops EXCEPT ![op] = new]]
  BY <1>1
<1> HIDE DEF r
<1>3. new = [known |-> r.known, status |-> r.status, events |-> events]
  BY <1>1
<1>4. events \in Seq(EventNames)
  BY <1>1
<1> HIDE DEF new
<1> QED
  BY <1>1, <1>2, <1>3, <1>4, RowFits DEF r

LEMMA EventStatusForm ==
  ASSUME FileTypes, NEW op \in Operation, NEW events \in Seq(EventNames), NEW status,
         file' = [file EXCEPT !.ops[op].events = events, !.ops[op].status = status]
  PROVE  RowBecomes(op, file.ops[op].known, status,
                    events, file.has)
<1> DEFINE r == file.ops[op]
           new == [r EXCEPT !.events = events, !.status = status]
<1>1. /\ file = [version |-> file.version, has |-> file.has, ops |-> file.ops, rename |-> file.rename]
      /\ r = [known |-> r.known, status |-> r.status, events |-> r.events]
      /\ r.known \in BOOLEAN /\ r.events \in Seq(EventNames)
  BY FieldsOfRow
<1>2. file' = [version |-> file.version, has |-> file.has, rename |-> file.rename,
               ops |-> [file.ops EXCEPT ![op] = new]]
  BY <1>1
<1> HIDE DEF r
<1>3. new = [known |-> r.known, status |-> status, events |-> events]
  <2> DEFINE r1 == [known |-> r.known, status |-> r.status, events |-> events]
  <2>1. [r EXCEPT !.events = events] = r1
    BY <1>1
  <2>2. [r1 EXCEPT !.status = status] = [known |-> r.known, status |-> status, events |-> events]
    OBVIOUS
  <2> HIDE DEF r1
  <2> QED
    BY <2>1, <2>2
<1>4. events \in Seq(EventNames)
  BY <1>1
<1> HIDE DEF new
<1> QED
  BY <1>1, <1>2, <1>3, <1>4, RowFits DEF r
\* One process takes a step that its own obligations allow.
Allowed(at, list, row) ==
  row # Nothing =>
    /\ at \in {"import", "recover", "running", "failed"}
    /\ at = "import" => row[2] \in 1 .. Len(U!LegacyEvents(history.true[row[1]]))

Preserved ==
  /\ file.has \ {"guards"} \subseteq file'.has
  /\ \A op \in Operation : file.ops[op].known => file'.ops[op].known
  /\ file'.rename.completed = file.rename.completed
  /\ Len(file.rename.events) <= Len(file'.rename.events)

LEMMA PlaceKeeps ==
  ASSUME UpgradeInv, NEW p \in Opener, opening[p].at # "closed",
         NEW at, NEW seen, NEW list, NEW row, Stepped(p, at, seen, list, row),
         Allowed(at, list, row), FileTypes', HistoryTypes', history'.true = history.true,
         Preserved, SafeRows', AloneFinds(p)', MadeBefore(p)', U!VersionTellsSchema'
  PROVE  UpgradeInv'
<1>1. /\ OpeningTypes' /\ \A q \in Opener : q # p => opening'[q] = opening[q]
      /\ opening'[p].at = at /\ opening'[p].row = row /\ opening'[p].raced = opening[p].raced
  BY DEF Stepped
<1>2. RowsInHand'
  BY <1>1 DEF UpgradeInv, RowsInHand, Allowed
<1>3. Racing'
  BY <1>1, KeptRacing
<1>4. Made'
  BY <1>1, GrownMade DEF Preserved
<1> QED
  BY <1>1, <1>2, <1>3, <1>4 DEF UpgradeInv

\* One row changes, and only one that is not safe gets another event.
LEMMA RowKeeps ==
  ASSUME UpgradeInv, NEW op \in Operation, NEW known, NEW status, NEW events, NEW has,
         RowBecomes(op, known, status, events, has),
         file.has \ {"guards"} \subseteq has, file.ops[op].known => known
  PROVE  FileTypes' /\ Preserved /\ FileGrows /\ U!VersionTellsSchema'
<1>1. /\ FileTypes' /\ file'.version = file.version /\ file'.has = has /\ file'.rename = file.rename
      /\ \A o \in Operation : o # op => file'.ops[o] = file.ops[o]
      /\ file'.ops[op].known = known
  BY DEF RowBecomes
<1>2. \A o \in Operation : file.ops[o].known => file'.ops[o].known
  BY <1>1
<1>3. Len(file.rename.events) <= Len(file'.rename.events)
  BY <1>1 DEF UpgradeInv, FileTypes
<1>4. FileGrows
  BY <1>1, <1>2, <1>3 DEF FileGrows
<1>5. U!VersionTellsSchema'
  BY <1>4, GrownVersion
<1> QED
  BY <1>1, <1>2, <1>3, <1>4, <1>5 DEF Preserved

\* Only an operation that is not safe gets an event, or is sent.
LEMMA OtherRowsKeep ==
  ASSUME UpgradeInv, NEW p \in Opener, NEW op \in Operation, ~ Safe(op),
         \A q \in Opener : q # p => opening'[q] = opening[q],
         \A o \in Operation : o # op => file'.ops[o].events = file.ops[o].events,
         history'.true = history.true, history'.sent \subseteq history.sent \cup {op},
         history'.cut = history.cut,
         \A o \in Operation : o # op /\ Safe(o) => SafeFor(p, o)'
  PROVE  SafeRows'
<1> SUFFICES ASSUME NEW o \in Operation, Safe(o)'
             PROVE  SafeEvents(o)' /\ \A q \in Opener : SafeFor(q, o)'
  BY DEF SafeRows
<1>1. Safe(o) /\ o # op
  BY DEF Safe
<1>2. SafeEvents(o)'
  BY <1>1 DEF UpgradeInv, SafeRows, SafeEvents
<1>3. ASSUME NEW q \in Opener, q # p PROVE SafeFor(q, o)'
  BY <1>1, <1>3 DEF UpgradeInv, SafeRows, SafeFor, InHand, Whole
<1> QED
  BY <1>1, <1>2, <1>3

LEMMA FileStays ==
  ASSUME UpgradeInv, UNCHANGED file PROVE FileTypes' /\ Preserved /\ U!VersionTellsSchema'
<1>1. FileTypes /\ U!VersionTellsSchema
  BY DEF UpgradeInv
<1>2. FileTypes'
  BY <1>1 DEF FileTypes
<1>3. U!VersionTellsSchema'
  BY <1>1 DEF U!VersionTellsSchema, U!Unknown
<1>4. Preserved
  BY <1>1 DEF Preserved, FileTypes
<1> QED
  BY <1>2, <1>3, <1>4

LEMMA TakeLegacyKeeps ==
  ASSUME UpgradeInv, NEW p \in Opener, U!TakeLegacy(p) PROVE UpgradeInv'
<1>1. /\ opening[p].at = "legacy" /\ UNCHANGED file /\ FileTypes /\ OpeningTypes /\ HistoryTypes
      /\ opening' = [opening EXCEPT ![p].at = "import", ![p].list = U!Unknown]
      /\ history' = [history EXCEPT !.cut = @ \cup U!HalfImported] /\ MadeBefore(p)
  BY DEF U!TakeLegacy, U!At, UpgradeInv, Made
<1>2. /\ opening[p].row = Nothing /\ Nothing \in RowInHand /\ opening[p].seen \in Nat \cup {Nothing}
  BY <1>1, OpeningFields DEF UpgradeInv, RowsInHand, RowInHand
<1>3. Stepped(p, "import", opening[p].seen, U!Unknown, Nothing)
  <2>1. Step(p, "import", opening[p].seen, U!Unknown, Nothing)
    BY <1>1, <1>2, ListSteps
  <2>2. Places("import", opening[p].seen, U!Unknown, Nothing)
    BY <1>2 DEF Places, Stages, FromIntents, FromLook, FromContract, FromLegacy, U!Unknown
  <2> QED
    BY <1>1, <2>1, <2>2, StepFits
<1>4. /\ opening'[p].at = "import" /\ opening'[p].row = Nothing /\ opening'[p].list = U!Unknown
      /\ opening'[p].seen = opening[p].seen
      /\ \A q \in Opener : q # p => opening'[q] = opening[q]
  BY <1>3 DEF Stepped
<1>5. /\ history'.true = history.true /\ history'.sent = history.sent
      /\ history'.cut = history.cut \cup U!HalfImported /\ HistoryTypes'
  BY <1>1 DEF HistoryTypes, U!HalfImported
<1>6. SafeRows'
  <2>1. ASSUME NEW op \in Operation, Safe(op), Safe(op)' PROVE SafeFor(p, op)'
    <3>1. op \notin U!HalfImported
      BY <1>5, <2>1 DEF Safe
    <3>2. SafeEvents(op)
      BY <2>1 DEF UpgradeInv, SafeRows
    <3>3. Len(U!LegacyEvents(history.true[op])) = 2
      BY <1>1, <2>1, LegacyFits DEF Safe, HistoryTypes
    <3>4. file.ops[op].known => Whole(op)
      <4>1. Len(<<>>) = 0 /\ Len(<<"enqueued">>) = 1
        OBVIOUS
      <4>2. file.ops[op].events \in {<<>>, <<"enqueued">>} => Len(file.ops[op].events) \in {0, 1}
        BY <4>1, Zenon
      <4>3. file.ops[op].known => ~ (Len(file.ops[op].events) < Len(U!LegacyEvents(history.true[op])))
        BY <2>1, <3>1, Zenon DEF U!HalfImported, Safe
      <4>4. \A n, m : n \in {0, 1} /\ m = 2 => n < m
        OBVIOUS
      <4> QED
        BY <3>2, <3>3, <4>2, <4>3, <4>4, Zenon DEF SafeEvents, Whole
    <3>5. Whole(op) \/ op \in U!Unknown
      BY <3>4 DEF U!Unknown
    <3>6. Whole(op) => Whole(op)'
      BY <1>1, <1>5 DEF Whole
    <3> QED
      BY <1>4, <3>5, <3>6 DEF SafeFor, InHand, Imported, Prepared
  <2> QED
    BY <1>1, <1>4, <1>5, <2>1, KeptRows
<1>7. AloneFinds(p)'
  BY <1>4 DEF AloneFinds
<1>8. MadeBefore(p)'
  BY <1>1, <1>4 DEF MadeBefore, FromIntents, FromLook, FromContract, FromLegacy, Imported, Prepared,
     U!Unknown
<1>9. U!VersionTellsSchema' /\ FileTypes' /\ Preserved
  BY <1>1, FileStays
<1>10. Allowed("import", U!Unknown, Nothing)
  BY DEF Allowed
<1> QED
  BY <1>1, <1>3, <1>5, <1>6, <1>7, <1>8, <1>9, <1>10, PlaceKeeps
LEMMA ImportRowKeeps ==
  ASSUME UpgradeInv, NEW p \in Opener, U!ImportRow(p) PROVE UpgradeInv'
<1>1. /\ opening[p].at = "import" /\ opening[p].row = Nothing
      /\ UNCHANGED history /\ FileTypes /\ OpeningTypes /\ HistoryTypes /\ MadeBefore(p)
  BY DEF U!ImportRow, U!At, UpgradeInv, Made
<1>2. PICK op \in opening[p].list :
        /\ file' = [file EXCEPT !.ops[op].known = TRUE]
        /\ opening' = [opening EXCEPT ![p].list = @ \ {op}, ![p].row = <<op, 1>>]
  BY DEF U!ImportRow
<1>3. /\ op \in Operation /\ opening[p].list \in SUBSET Operation
      /\ opening[p].seen \in Nat \cup {Nothing}
  BY <1>1, <1>2, OpeningFields
<1> DEFINE list == opening[p].list \ {op}
           row == <<op, 1>>
<1>4. row # Nothing /\ row[1] = op /\ row[2] = 1 /\ row \in RowInHand
  BY <1>3, DeviceAssumption DEF RowInHand
<1>5. Stepped(p, "import", opening[p].seen, list, row)
  <2>1. opening' = [opening EXCEPT ![p].list = list, ![p].row = row]
    BY <1>2
  <2> HIDE DEF row
  <2>2. Step(p, "import", opening[p].seen, list, row)
    BY <1>1, <2>1, RowSteps
  <2>3. Places("import", opening[p].seen, list, row)
    BY <1>3, <1>4 DEF Places, Stages, FromIntents, FromLook, FromContract, FromLegacy
  <2> QED
    BY <1>1, <2>2, <2>3, StepFits
<1>6. /\ opening'[p].at = "import" /\ opening'[p].row = row /\ opening'[p].list = list
      /\ opening'[p].seen = opening[p].seen
      /\ \A q \in Opener : q # p => opening'[q] = opening[q]
  BY <1>5 DEF Stepped
<1>7. RowBecomes(op, TRUE, file.ops[op].status, file.ops[op].events, file.has)
  BY <1>1, <1>2, <1>3, KnownForm
<1>8. FileTypes' /\ Preserved /\ U!VersionTellsSchema'
  BY <1>3, <1>7, RowKeeps
<1> HIDE DEF row, list
<1>9. SafeRows'
  <2>1. ASSUME NEW o \in Operation, Safe(o) PROVE SafeFor(p, o)'
    <3>1. Whole(o) \/ o \in opening[p].list
      BY <1>1, <2>1 DEF UpgradeInv, SafeRows, SafeFor, InHand
    <3>2. Whole(o) => Whole(o)'
      BY <1>1, <1>7 DEF Whole, RowBecomes
    <3>3. InHand(p, o)' <=> o = op
      BY <1>4, <1>6 DEF InHand
    <3>4. o # op /\ o \in opening[p].list => o \in list
      BY DEF list
    <3>5. o = op => opening'[p].row = <<o, 1>>
      BY <1>6 DEF row
    <3> QED
      BY <1>6, <3>1, <3>2, <3>3, <3>4, <3>5 DEF SafeFor, Imported, Prepared
  <2>2. \A o \in Operation : file'.ops[o].events = file.ops[o].events
    BY <1>7 DEF RowBecomes
  <2> QED
    BY <1>1, <1>6, <2>1, <2>2, KeptRows
<1>10. AloneFinds(p)'
  BY <1>6 DEF AloneFinds
<1>11. MadeBefore(p)'
  <2>1. U!Unknown' \subseteq list
    BY <1>1, <1>7 DEF MadeBefore, U!Unknown, RowBecomes, list
  <2>2. file'.has = file.has
    BY <1>7 DEF RowBecomes
  <2> QED
    BY <1>1, <1>6, <2>1, <2>2 DEF MadeBefore, FromIntents, FromLook, FromContract, FromLegacy,
       Imported, Prepared
<1>12. Allowed("import", list, row)
  BY <1>1, <1>3, <1>4, LegacyFits DEF HistoryTypes, Allowed
<1>13. HistoryTypes'
  BY <1>1 DEF HistoryTypes
<1> QED
  BY <1>1, <1>5, <1>8, <1>9, <1>10, <1>11, <1>12, <1>13, PlaceKeeps

LEMMA ImportEndsKeeps ==
  ASSUME UpgradeInv, NEW p \in Opener, U!ImportEnds(p) PROVE UpgradeInv'
<1> DEFINE list == IF opening[p].seen < 8006 THEN Operation ELSE {}
<1>1. /\ opening[p].at = "import" /\ opening[p].row = Nothing /\ opening[p].list = {}
      /\ opening' = [opening EXCEPT ![p].at = "status", ![p].list = list]
      /\ UNCHANGED <<file, history>> /\ FileTypes /\ OpeningTypes /\ HistoryTypes /\ MadeBefore(p)
  BY DEF U!ImportEnds, U!At, UpgradeInv, Made
<1>2. list \subseteq Operation
  OBVIOUS
<1> HIDE DEF list
<1>3. Nothing \in RowInHand /\ opening[p].seen \in Nat \cup {Nothing}
  BY <1>1, OpeningFields DEF RowInHand
<1>4. Stepped(p, "status", opening[p].seen, list, Nothing)
  <2>1. Step(p, "status", opening[p].seen, list, Nothing)
    BY <1>1, ListSteps
  <2>2. Places("status", opening[p].seen, list, Nothing)
    BY <1>2, <1>3 DEF Places, Stages, FromIntents, FromLook, FromContract, FromLegacy, Imported
  <2> QED
    BY <1>1, <2>1, <2>2, StepFits
<1>5. /\ opening'[p].at = "status" /\ opening'[p].row = Nothing /\ opening'[p].seen = opening[p].seen
      /\ \A q \in Opener : q # p => opening'[q] = opening[q]
  BY <1>4 DEF Stepped
<1>6. FileTypes' /\ Preserved /\ U!VersionTellsSchema' /\ HistoryTypes'
  BY <1>1, FileStays DEF HistoryTypes
<1>7. SafeRows'
  <2>1. ASSUME NEW o \in Operation, Safe(o) PROVE SafeFor(p, o)'
    BY <1>1, <1>5, <2>1 DEF UpgradeInv, SafeRows, SafeFor, InHand, Whole
  <2> QED
    BY <1>1, <1>5, <2>1, KeptRows
<1>8. AloneFinds(p)'
  BY <1>5 DEF AloneFinds
<1>9. MadeBefore(p)'
  <2>1. U!Unknown' = {}
    BY <1>1 DEF MadeBefore, U!Unknown
  <2> QED
    BY <1>1, <1>5, <2>1 DEF MadeBefore, FromIntents, FromLook, FromContract, FromLegacy,
       Imported, Prepared
<1>10. Allowed("status", list, Nothing)
  BY DEF Allowed
<1> QED
  BY <1>1, <1>4, <1>6, <1>7, <1>8, <1>9, <1>10, PlaceKeeps
\* What a list of an operation's old events has at each place is an event.
LEMMA LegacyItem ==
  ASSUME NEW op \in Operation, HistoryTypes, NEW k \in 1 .. Len(U!LegacyEvents(history.true[op]))
  PROVE  U!LegacyEvents(history.true[op])[k] \in EventNames /\ k \in Nat \ {0}
<1>1. /\ U!LegacyEvents(history.true[op]) \in Seq(EventNames)
      /\ Len(U!LegacyEvents(history.true[op])) \in Nat
  BY LegacyFits DEF HistoryTypes
<1> QED
  BY <1>1

LEMMA LongIsWhole ==
  ASSUME NEW events \in Seq(EventNames), NEW old, events \in {<<>>, <<"enqueued">>, old},
         Len(events) >= 2
  PROVE  events = old
<1> DEFINE one == <<"enqueued">>
           none == <<>>
<1>1. Len(one) = 1 /\ Len(none) = 0
  OBVIOUS
<1>2. events \in {none, one, old}
  OBVIOUS
<1> HIDE DEF one, none
<1>3. ~ 1 >= 2 /\ ~ 0 >= 2
  OBVIOUS
<1>4. events # one /\ events # none
  BY <1>1, <1>3, Zenon
<1> QED
  BY <1>2, <1>4

\* What is appended to the events of a safe operation is its next old one.
LEMMA NextOld ==
  ASSUME HistoryTypes, FileTypes, NEW op \in Operation, Safe(op), SafeEvents(op),
         NEW k \in {1, 2}, k = 2 => Len(file.ops[op].events) >= 1,
         Len(file.ops[op].events) < k,
         file'.ops[op].events = Append(file.ops[op].events, U!LegacyEvents(history.true[op])[k]),
         UNCHANGED history
  PROVE  /\ SafeEvents(op)' /\ Len(file'.ops[op].events) >= 1
         /\ ~ Whole(op) /\ (k = 2 => Whole(op)')
<1> DEFINE old == U!LegacyEvents(history.true[op])
           events == file.ops[op].events
<1>1. old \in Seq(EventNames) /\ Len(old) = 2 /\ old[1] = "enqueued"
  BY LegacyFits DEF HistoryTypes, Safe
<1>2. events \in {<<>>, <<"enqueued">>, old} /\ events \in Seq(EventNames)
  BY DEF SafeEvents, FileTypes
<1>3. old[1] \in EventNames /\ old[2] \in EventNames
  BY <1>1
<1> HIDE DEF old
<1>4. CASE k = 1
  <2>1. events = <<>>
    BY <1>1, <1>2, <1>4
  <2>2. file'.ops[op].events = <<"enqueued">>
    BY <1>1, <1>4, <2>1 DEF old
  <2>3. old # <<>> /\ <<"enqueued">> # <<>> /\ Len(<<"enqueued">>) = 1
    <3>1. old # <<>>
      <4>1. Len(<<>>) = 0 /\ 0 # 2
        OBVIOUS
      <4> QED
        BY <1>1, <4>1, Zenon
    <3>2. <<"enqueued">> # <<>> /\ Len(<<"enqueued">>) = 1
      OBVIOUS
    <3> QED
      BY <3>1, <3>2
  <2> QED
    BY <1>4, <2>1, <2>2, <2>3 DEF SafeEvents, Whole, old
<1>5. CASE k = 2
  <2>1. events = <<"enqueued">>
    BY <1>1, <1>2, <1>5
  <2>2. Append(events, old[2]) = old
    <3>1. /\ Append(events, old[2]) \in Seq(EventNames) /\ Len(Append(events, old[2])) = 2
          /\ Append(events, old[2])[1] = old[1] /\ Append(events, old[2])[2] = old[2]
      BY <1>1, <1>2, <1>3, <2>1
    <3>2. \A i \in 1 .. 2 : Append(events, old[2])[i] = old[i]
      BY <3>1
    <3> DEFINE new == Append(events, old[2])
    <3>3. new \in Seq(EventNames) /\ Len(new) = Len(old) /\ \A i \in 1 .. Len(new) : new[i] = old[i]
      BY <1>1, <3>1, <3>2
    <3> HIDE DEF new
    <3>4. new = old
      BY <1>1, <3>3, SeqEqual
    <3> QED
      BY <3>4 DEF new
  <2>3. events # old /\ Len(old) >= 1
    BY <1>1, <2>1
  <2>4. file'.ops[op].events = old
    BY <1>5, <2>2 DEF old
  <2> QED
    BY <1>5, <2>3, <2>4 DEF SafeEvents, Whole, old
<1> QED
  BY <1>4, <1>5

LEMMA ImportEventKeeps ==
  ASSUME UpgradeInv, NEW p \in Opener, U!ImportEvent(p) PROVE UpgradeInv'
<1>1. /\ opening[p].at = "import" /\ opening[p].row # Nothing
      /\ UNCHANGED history /\ FileTypes /\ OpeningTypes /\ HistoryTypes /\ MadeBefore(p)
  BY DEF U!ImportEvent, U!At, UpgradeInv, Made
<1>2. PICK op \in Operation, k \in Nat : opening[p].row = <<op, k>>
  BY <1>1, OpeningFields DEF RowInHand
<1> DEFINE old == U!LegacyEvents(history.true[op])
           row == IF k = Len(old) THEN Nothing ELSE <<op, k + 1>>
<1>3. /\ opening' = [opening EXCEPT ![p].row = row]
  BY <1>2 DEF U!ImportEvent
<1>30. Len(file.ops[op].events) >= k => file' = file
  BY <1>2 DEF U!ImportEvent
<1>31. ~ Len(file.ops[op].events) >= k =>
         file' = [file EXCEPT !.ops[op].events = Append(file.ops[op].events, old[k])]
  BY <1>2 DEF U!ImportEvent
<1>4. /\ k \in 1 .. Len(old)
       /\ opening[p].list \in SUBSET Operation /\ opening[p].seen \in Nat \cup {Nothing}
  <2>1. opening[p].row[1] = op /\ opening[p].row[2] = k
    BY <1>2
  <2>2. k \in 1 .. Len(U!LegacyEvents(history.true[op]))
    BY <1>1, <2>1 DEF UpgradeInv, RowsInHand
  <2> QED
    BY <1>1, <2>2, OpeningFields
<1>5. /\ old \in Seq(EventNames) /\ Len(old) \in Nat \ {0}
      /\ Safe(op) => Len(old) = 2
      /\ old[k] \in EventNames /\ k \in Nat \ {0}
  BY <1>1, <1>2, <1>4, LegacyFits, LegacyItem DEF HistoryTypes, Safe
<1>6. /\ k = Len(old) => row = Nothing
      /\ k # Len(old) => row = <<op, k + 1>>
      /\ row # Nothing => row[1] = op /\ row[2] \in 1 .. Len(old)
      /\ row \in RowInHand
  BY <1>2, <1>4, <1>5 DEF RowInHand
<1> HIDE DEF row, old
<1>7. Stepped(p, "import", opening[p].seen, opening[p].list, row)
  BY <1>1, <1>2, <1>3, <1>4, <1>6, RowStep, StepFits DEF Places, Stages, FromIntents,
     FromLook, FromContract, FromLegacy
<1>8. /\ opening'[p].at = "import" /\ opening'[p].row = row /\ opening'[p].list = opening[p].list
      /\ opening'[p].seen = opening[p].seen
      /\ \A q \in Opener : q # p => opening'[q] = opening[q]
  BY <1>7 DEF Stepped
<1>9. /\ FileTypes' /\ Preserved /\ U!VersionTellsSchema' /\ file'.has = file.has
      /\ \A o \in Operation : file'.ops[o].known = file.ops[o].known
      /\ \A o \in Operation : o # op => file'.ops[o].events = file.ops[o].events
      /\ IF Len(file.ops[op].events) >= k THEN file'.ops[op].events = file.ops[op].events
         ELSE file'.ops[op].events = Append(file.ops[op].events, old[k])
  <2>1. CASE Len(file.ops[op].events) >= k
    BY <1>30, <2>1, FileStays
  <2>2. CASE ~ Len(file.ops[op].events) >= k
    <3> DEFINE item == old[k]
               events == Append(file.ops[op].events, item)
    <3>1. file' = [file EXCEPT !.ops[op].events = events]
      BY <1>31, <2>2 DEF item
    <3>2. item \in EventNames /\ file.ops[op].events \in Seq(EventNames)
      BY <1>1, <1>2, <1>5, FieldsOfRow
    <3> HIDE DEF item
    <3>3. events \in Seq(EventNames)
      BY <3>2
    <3> HIDE DEF events
    <3>4. RowBecomes(op, file.ops[op].known, file.ops[op].status, events, file.has)
      BY <1>1, <1>2, <1>4, <3>1, <3>3, EventsForm
    <3>5. FileTypes' /\ Preserved /\ U!VersionTellsSchema'
      BY <1>2, <3>4, RowKeeps
    <3> QED
      BY <2>2, <3>4, <3>5 DEF RowBecomes, events, item
  <2> QED
    BY <2>1, <2>2
<1>10. SafeRows'
  <2> SUFFICES ASSUME NEW o \in Operation, Safe(o)
               PROVE  SafeEvents(o)' /\ \A q \in Opener : SafeFor(q, o)'
    BY <1>1 DEF SafeRows, Safe
  <2>0. SafeEvents(o) /\ \A q \in Opener : SafeFor(q, o)
    BY DEF UpgradeInv, SafeRows
  <2>1. CASE o # op
    <3>1. file'.ops[o].events = file.ops[o].events
      BY <1>9, <2>1
    <3>2. SafeEvents(o)' /\ (Whole(o)' <=> Whole(o))
      BY <1>1, <2>0, <3>1 DEF SafeEvents, Whole
    <3>3. ASSUME NEW q \in Opener, q # p PROVE SafeFor(q, o)'
      BY <1>8, <2>0, <3>1, <3>2, <3>3 DEF SafeFor, InHand
    <3>4. ~ InHand(p, o) /\ ~ InHand(p, o)'
      BY <1>2, <1>4, <1>6, <1>8, <2>1 DEF InHand
    <3>5. SafeFor(p, o)'
      BY <1>1, <1>8, <2>0, <3>2, <3>4 DEF SafeFor, Imported, Prepared
    <3> QED
      BY <3>2, <3>3, <3>5
  <2>2. CASE o = op
    <3>1. Len(old) = 2 /\ k \in {1, 2} /\ (k = 2 => Len(file.ops[op].events) >= 1)
      BY <1>1, <1>2, <1>4, <1>5, <2>0, <2>2 DEF InHand, SafeFor
    <3>2. /\ k = 1 => row = <<op, 2>>
          /\ k = 2 => row = Nothing
      BY <1>6, <3>1
    <3>3. CASE Len(file.ops[op].events) >= k
      <4>1. SafeEvents(op)' /\ (Whole(op)' <=> Whole(op)) /\ file'.ops[op].events = file.ops[op].events
        BY <1>1, <1>9, <2>0, <2>2, <3>3 DEF SafeEvents, Whole
      <4>2. ASSUME NEW q \in Opener, q # p PROVE SafeFor(q, op)'
        BY <1>8, <2>0, <2>2, <4>1, <4>2 DEF SafeFor, InHand
      <4>3. SafeFor(p, op)'
        <5>1. CASE k = 1
          <6>1. opening'[p].row = <<op, 2>> /\ Len(file'.ops[op].events) >= 1
            BY <1>8, <3>2, <3>3, <4>1, <5>1
          <6>2. opening'[p].row # Nothing
            BY <1>2, <1>4, <6>1, DeviceAssumption
          <6> QED
            BY <1>8, <6>1, <6>2 DEF SafeFor, InHand, Imported, Prepared
        <5>2. CASE k = 2
          <6>1. Len(file.ops[op].events) >= 2
            BY <3>3, <5>2
          <6>2. Whole(op)
            BY <1>1, <2>0, <2>2, <6>1, LongIsWhole, FieldsOfRow DEF SafeEvents, Whole
          <6> QED
            BY <1>8, <3>2, <4>1, <5>2, <6>2 DEF SafeFor, InHand, Imported, Prepared
        <5> QED
          BY <3>1, <5>1, <5>2
      <4> QED
        BY <2>2, <4>1, <4>2, <4>3
    <3>4. CASE ~ Len(file.ops[op].events) >= k
      <4>1. /\ SafeEvents(op)' /\ Len(file'.ops[op].events) >= 1
            /\ ~ Whole(op) /\ (k = 2 => Whole(op)')
        <5>1. file'.ops[op].events = Append(file.ops[op].events, U!LegacyEvents(history.true[op])[k])
          BY <1>9, <3>4 DEF old
        <5>2. Len(file.ops[op].events) < k
          BY <1>1, <1>2, <1>4, <1>5, <3>4 DEF FileTypes
        <5> QED
          BY <1>1, <1>2, <1>4, <2>0, <2>2, <3>1, <5>1, <5>2, NextOld
      <4>2. ASSUME NEW q \in Opener, q # p PROVE SafeFor(q, op)'
        BY <1>8, <2>0, <2>2, <4>1, <4>2 DEF SafeFor, InHand, Imported, Prepared
      <4>3. SafeFor(p, op)'
        <5>1. CASE k = 1
          BY <1>2, <1>4, <1>8, <3>2, <4>1, <5>1, DeviceAssumption DEF SafeFor, InHand,
             Imported, Prepared
        <5>2. CASE k = 2
          BY <1>8, <3>2, <4>1, <5>2 DEF SafeFor, InHand, Imported, Prepared
        <5> QED
          BY <3>1, <5>1, <5>2
      <4> QED
        BY <2>2, <4>1, <4>2, <4>3
    <3> QED
      BY <3>3, <3>4
  <2> QED
    BY <2>1, <2>2
<1>11. AloneFinds(p)'
  BY <1>8 DEF AloneFinds
<1>12. MadeBefore(p)'
  <2>1. U!Unknown' = U!Unknown
    BY <1>9 DEF U!Unknown
  <2> QED
    BY <1>1, <1>8, <1>9, <2>1 DEF MadeBefore, FromIntents, FromLook, FromContract, FromLegacy,
       Imported, Prepared
<1>13. Allowed("import", opening[p].list, row)
  BY <1>6 DEF Allowed, old
<1>14. HistoryTypes'
  BY <1>1 DEF HistoryTypes
<1> QED
  BY <1>1, <1>7, <1>9, <1>10, <1>11, <1>12, <1>13, <1>14, PlaceKeeps
\* A process that has the import behind it goes on to a stage of the same kind.
LEMMA StaysMade ==
  ASSUME UpgradeInv, NEW p \in Opener, opening[p].at \in Imported, Preserved,
         opening'[p].at \in Imported, opening'[p].seen = opening[p].seen,
         FileTypes',
         opening'[p].at \in Prepared =>
           opening[p].at \in Prepared
             \/ (file'.rename.completed => Len(file'.rename.events) = 2)
  PROVE  MadeBefore(p)'
<1>1. /\ {"queue", "intents", "columns", "contract"} \subseteq file.has /\ opening[p].seen \in Nat
  BY AllMade DEF FromLegacy, Imported, Prepared
<1>2. {"queue", "intents", "columns", "contract"} \subseteq file'.has
  BY <1>1 DEF Preserved
<1>3. U!Unknown' = {}
  BY DEF UpgradeInv, Made, MadeBefore, Preserved, U!Unknown
<1>4. opening[p].at \in Prepared => (file'.rename.completed => Len(file'.rename.events) = 2)
  BY DEF UpgradeInv, Made, MadeBefore, Preserved, FileTypes
<1>5. opening'[p].at # "import"
  BY DEF Imported, Prepared
<1> QED
  BY <1>1, <1>2, <1>3, <1>4, <1>5 DEF MadeBefore

LEMMA MaterializeStatusKeeps ==
  ASSUME UpgradeInv, NEW p \in Opener, U!Materialize(p) PROVE UpgradeInv'
<1>1. /\ opening[p].at = "status" /\ opening[p].row = Nothing
      /\ UNCHANGED history /\ FileTypes /\ OpeningTypes
      /\ opening[p].seen \in Nat \cup {Nothing} /\ opening[p].list \in SUBSET Operation
      /\ Nothing \in RowInHand
  BY OpeningFields DEF U!Materialize, U!At, UpgradeInv, RowsInHand, RowInHand
<1>2. /\ {"status", "renames"} \subseteq Stages \ {"import"} /\ {"status", "renames"} \subseteq Imported
      /\ {"status", "renames"} \cap Prepared = {}
  BY DEF Stages, FromIntents, FromLook, FromContract, FromLegacy, Imported, Prepared
<1>3. CASE opening[p].list = {}
  <2>1. U!Go(p, "renames") /\ UNCHANGED file
    BY <1>3 DEF U!Materialize
  <2>2. Step(p, "renames", opening[p].seen, opening[p].list, opening[p].row)
    BY <1>1, <2>1, GoSteps
  <2>3. Stepped(p, "renames", opening[p].seen, opening[p].list, Nothing)
    BY <1>1, <1>2, <2>2, StepFits DEF Places
  <2>4. opening'[p].at = "renames" /\ opening'[p].seen = opening[p].seen
    BY <2>3 DEF Stepped
  <2>5. FileTypes' /\ Preserved /\ U!VersionTellsSchema'
    BY <2>1, FileStays
  <2>6. AloneFinds(p)'
    BY <2>4 DEF AloneFinds
  <2>7. MadeBefore(p)'
    BY <1>1, <1>2, <2>4, <2>5, StaysMade
  <2> QED
    BY <1>1, <1>2, <2>1, <2>2, <2>5, <2>6, <2>7, StageKeeps DEF Preserved
<1>4. CASE opening[p].list # {}
  <2>1. PICK op \in opening[p].list :
          /\ opening' = [opening EXCEPT ![p].list = @ \ {op}]
          /\ file' = IF U!Derived(op) = "raises" THEN file
                     ELSE [file EXCEPT !.ops[op].status = U!Derived(op)]
    BY <1>4 DEF U!Materialize
  <2> DEFINE list == opening[p].list \ {op}
             status == U!Derived(op)
  <2>2. op \in Operation /\ list \in SUBSET Operation /\ opening' = [opening EXCEPT ![p].list = list]
    BY <1>1, <2>1
  <2>3. /\ status = "raises" => file' = file
        /\ status # "raises" => file' = [file EXCEPT !.ops[op].status = status]
    BY <2>1
  <2> HIDE DEF list, status
  <2>4. Step(p, "status", opening[p].seen, list, Nothing)
    BY <1>1, <2>2, ListStep
  <2>5. Stepped(p, "status", opening[p].seen, list, Nothing)
    BY <1>1, <1>2, <2>2, <2>4, StepFits DEF Places
  <2>6. opening'[p].at = "status" /\ opening'[p].seen = opening[p].seen
    BY <2>5 DEF Stepped
  <2>7. /\ FileTypes' /\ Preserved /\ U!VersionTellsSchema'
        /\ \A o \in Operation : /\ file'.ops[o].events = file.ops[o].events
                                /\ file'.ops[o].known = file.ops[o].known
    <3>1. CASE status = "raises"
      BY <2>3, <3>1, FileStays
    <3>2. CASE status # "raises"
      BY <1>1, <2>2, <2>3, <3>2, StatusForm, RowKeeps DEF RowBecomes
    <3> QED
      BY <3>1, <3>2
  <2>8. AloneFinds(p)'
    BY <2>6 DEF AloneFinds
  <2>9. MadeBefore(p)'
    BY <1>1, <1>2, <2>6, <2>7, StaysMade
  <2> QED
    BY <1>1, <1>2, <2>2, <2>4, <2>7, <2>8, <2>9, StageKeeps DEF Preserved
<1> QED
  BY <1>3, <1>4

\* Only the events of the renames change.
LEMMA RenameForm ==
  ASSUME UpgradeInv, NEW events \in Seq(EventNames), Len(file.rename.events) <= Len(events),
         Len(events) <= 2, file' = [file EXCEPT !.rename.events = events]
  PROVE  /\ FileTypes' /\ Preserved /\ U!VersionTellsSchema'
         /\ file'.ops = file.ops /\ file'.rename.events = events
<1> DEFINE rename == [completed |-> file.rename.completed, events |-> events]
<1>1. FileTypes /\ file.rename = [completed |-> file.rename.completed, events |-> file.rename.events]
  BY DEF UpgradeInv, FileTypes
<1>2. [file.rename EXCEPT !.events = events] = rename
  BY <1>1
<1>3. /\ rename = [completed |-> rename.completed, events |-> rename.events]
      /\ rename.completed = file.rename.completed /\ rename.events = events
  OBVIOUS
<1> HIDE DEF rename
<1>4. file' = [version |-> file.version, has |-> file.has, ops |-> file.ops, rename |-> rename]
  BY <1>1, <1>2 DEF FileTypes
<1>5. /\ file'.version = file.version /\ file'.has = file.has /\ file'.ops = file.ops
      /\ file'.rename = rename
      /\ file' = [version |-> file'.version, has |-> file'.has, ops |-> file'.ops, rename |-> file'.rename]
  <2>1. /\ file'.version = file.version /\ file'.has = file.has /\ file'.ops = file.ops
        /\ file'.rename = rename
    BY <1>4
  <2> QED
    BY <1>4, <2>1, Zenon
<1>6. FileTypes'
  BY <1>1, <1>3, <1>5 DEF FileTypes
<1>7. FileGrows /\ Preserved
  BY <1>3, <1>5, <1>6 DEF FileGrows, Preserved
<1> QED
  BY <1>3, <1>5, <1>6, <1>7, GrownVersion

LEMMA ImportRenameKeeps ==
  ASSUME UpgradeInv, NEW p \in Opener, U!ImportRename(p) PROVE UpgradeInv'
<1> DEFINE all == IF file.rename.completed THEN <<"recorded", "completed">> ELSE <<"recorded">>
           known == Len(file.rename.events)
<1>1. /\ opening[p].at = "renames" /\ opening[p].row = Nothing
      /\ UNCHANGED history /\ FileTypes /\ OpeningTypes
      /\ opening[p].seen \in Nat \cup {Nothing} /\ opening[p].list \in SUBSET Operation
      /\ Nothing \in RowInHand
  BY OpeningFields DEF U!ImportRename, U!At, UpgradeInv, RowsInHand, RowInHand
<1>2. /\ {"drop", "renames"} \subseteq Stages \ {"import"} /\ {"drop", "renames"} \subseteq Imported
      /\ "renames" \notin Prepared
  BY DEF Stages, FromIntents, FromLook, FromContract, FromLegacy, Imported, Prepared
<1>3. /\ Len(all) = IF file.rename.completed THEN 2 ELSE 1
      /\ \A i \in 1 .. Len(all) : all[i] \in EventNames
      /\ known \in Nat /\ known <= 2 /\ file.rename.events \in Seq(EventNames)
      /\ file.rename.completed \in BOOLEAN
  BY <1>1 DEF EventNames, FileTypes
<1>4. /\ known < Len(all) =>
           file' = [file EXCEPT !.rename.events = Append(@, all[known + 1])] /\ UNCHANGED opening
      /\ ~ known < Len(all) => U!Go(p, "drop") /\ UNCHANGED file
  BY DEF U!ImportRename
<1> HIDE DEF all
<1>5. CASE known < Len(all)
  <2> DEFINE event == all[known + 1]
             events == Append(file.rename.events, event)
  <2>1. event \in EventNames
    BY <1>3, <1>5
  <2> HIDE DEF event
  <2>2. events \in Seq(EventNames) /\ Len(events) = known + 1
    BY <1>3, <2>1
  <2>3. file' = [file EXCEPT !.rename.events = events]
    BY <1>4, <1>5 DEF event
  <2> HIDE DEF events
  <2>4. /\ FileTypes' /\ Preserved /\ U!VersionTellsSchema' /\ file'.ops = file.ops
    BY <1>3, <1>5, <2>2, <2>3, RenameForm, SMTT(30)
  <2>5. UNCHANGED opening
    BY <1>4, <1>5
  <2>6. Step(p, "renames", opening[p].seen, opening[p].list, opening[p].row)
    BY <1>1, <2>5 DEF OpeningTypes, Opening, Step
  <2>7. AloneFinds(p)'
    BY <1>1, <2>5 DEF AloneFinds
  <2>8. MadeBefore(p)'
    BY <1>1, <1>2, <2>4, <2>5, StaysMade
  <2> QED
    BY <1>1, <1>2, <2>4, <2>6, <2>7, <2>8, StageKeeps DEF Preserved
<1>6. CASE ~ known < Len(all)
  <2>1. U!Go(p, "drop") /\ UNCHANGED file
    BY <1>4, <1>6
  <2>2. Step(p, "drop", opening[p].seen, opening[p].list, opening[p].row)
    BY <1>1, <2>1, GoSteps
  <2>3. Stepped(p, "drop", opening[p].seen, opening[p].list, Nothing)
    BY <1>1, <1>2, <2>2, StepFits DEF Places
  <2>4. opening'[p].at = "drop" /\ opening'[p].seen = opening[p].seen
    BY <2>3 DEF Stepped
  <2>5. FileTypes' /\ Preserved /\ U!VersionTellsSchema'
    BY <2>1, FileStays
  <2>6. AloneFinds(p)'
    BY <2>4 DEF AloneFinds
  <2>7. file'.rename.completed => Len(file'.rename.events) = 2
    <3>1. ASSUME file.rename.completed PROVE known = 2
      <4>1. Len(all) = 2
        BY <1>3, <3>1
      <4> HIDE DEF known
      <4> QED
        BY <1>3, <1>6, <4>1
    <3> QED
      BY <2>1, <3>1
  <2>8. MadeBefore(p)'
    BY <1>1, <1>2, <2>4, <2>5, <2>7, StaysMade
  <2>9. SafeRows'
    <3>1. ASSUME NEW o \in Operation, Safe(o) PROVE SafeFor(p, o)'
      BY <1>1, <1>2, <2>1, <2>4, <3>1 DEF UpgradeInv, SafeRows, SafeFor, Whole
    <3> QED
      BY <1>1, <2>1, <2>3, <3>1, KeptRows DEF Stepped
  <2>10. Allowed("drop", opening[p].list, Nothing) /\ HistoryTypes'
    BY <1>1 DEF Allowed, UpgradeInv, HistoryTypes
  <2> QED
    BY <1>1, <2>3, <2>5, <2>6, <2>8, <2>9, <2>10, PlaceKeeps
<1> QED
  BY <1>5, <1>6
LEMMA MarkVersionKeeps ==
  ASSUME UpgradeInv, NEW p \in Opener, U!MarkVersion(p) PROVE UpgradeInv'
<1> DEFINE version == IF opening[p].seen < 8012 THEN 8012 ELSE file.version
<1>1. /\ opening[p].at = "mark" /\ opening[p].row = Nothing
      /\ UNCHANGED history /\ FileTypes /\ OpeningTypes /\ U!VersionTellsSchema
      /\ opening[p].seen \in Nat \cup {Nothing} /\ Nothing \in RowInHand
  BY OpeningFields DEF U!MarkVersion, U!At, UpgradeInv, RowsInHand, RowInHand
<1>2. /\ "recover" \in Stages \ {"import"} /\ {"recover", "mark"} \subseteq Imported
      /\ "recover" \in Prepared /\ "mark" \in Prepared /\ "mark" \in FromLegacy \ {"legacy"}
  BY DEF Stages, FromIntents, FromLook, FromContract, FromLegacy, Imported, Prepared
<1>13. opening' = [opening EXCEPT ![p].at = "recover", ![p].list = Operation]
  BY DEF U!MarkVersion
<1>3. /\ file' = [version |-> version, has |-> file.has, ops |-> file.ops, rename |-> file.rename]
      /\ version \in Nat
  <2>1. CASE opening[p].seen < 8012
    <3>1. file' = [file EXCEPT !.version = 8012] /\ version = 8012
      BY <2>1 DEF U!MarkVersion
    <3> HIDE DEF version
    <3> QED
      BY <1>1, <3>1 DEF FileTypes
  <2>2. CASE ~ opening[p].seen < 8012
    <3>1. file' = file /\ version = file.version
      BY <2>2 DEF U!MarkVersion
    <3> HIDE DEF version
    <3> QED
      BY <1>1, <3>1 DEF FileTypes
  <2> QED
    BY <2>1, <2>2
<1>4. version = file.version \/ version = 8012
  OBVIOUS
<1> HIDE DEF version
<1>5. /\ FileTypes' /\ file'.version = version /\ file'.has = file.has
      /\ file'.ops = file.ops /\ file'.rename = file.rename /\ U!Unknown' = U!Unknown
  BY <1>1, <1>3, SchemaBecomes
<1>6. Preserved
  BY <1>1, <1>5 DEF Preserved, FileTypes
<1>7. Step(p, "recover", opening[p].seen, Operation, Nothing)
  BY <1>1, <1>13, ListSteps
<1>8. Stepped(p, "recover", opening[p].seen, Operation, Nothing)
  BY <1>1, <1>2, <1>7, StepFits DEF Places
<1>9. /\ opening'[p].at = "recover" /\ opening'[p].seen = opening[p].seen
      /\ opening'[p].row = Nothing
  BY <1>8 DEF Stepped
<1>10. AloneFinds(p)'
  BY <1>9 DEF AloneFinds
<1>11. MadeBefore(p)'
  BY <1>1, <1>2, <1>5, <1>6, <1>9, StaysMade
<1>12. U!VersionTellsSchema'
  BY <1>1, <1>2, <1>4, <1>5, AllMade DEF UpgradeInv, Made, MadeBefore, U!VersionTellsSchema
<1> QED
  BY <1>1, <1>2, <1>5, <1>6, <1>7, <1>10, <1>11, <1>12, StageKeeps DEF Preserved

LEMMA DerivedOfWhole ==
  ASSUME HistoryTypes, NEW op \in Operation, Safe(op), Whole(op)
  PROVE  U!Derived(op) = history.true[op] /\ U!Derived(op) \in U!Settled
<1> DEFINE old == U!LegacyEvents(history.true[op])
<1>1. old \in Seq(EventNames) /\ Len(old) = 2 /\ U!StateOf(old[2]) = history.true[op]
  BY LegacyFits DEF HistoryTypes, Safe
<1>2. file.ops[op].events = old
  BY DEF Whole
<1> HIDE DEF old
<1>3. old # <<>>
  BY <1>1
<1>4. U!Derived(op) = U!StateOf(old[2])
  BY <1>1, <1>2, <1>3 DEF U!Derived
<1> QED
  BY <1>1, <1>4 DEF Safe

\* Whoever has the import behind it finds no safe operation under way or waiting.
LEMMA NotUnderWay ==
  ASSUME UpgradeInv, NEW p \in Opener, opening[p].at \in Imported, NEW op \in Operation,
         U!Derived(op) \in {"inflight", "pending", "retry_wait"}
  PROVE  ~ Safe(op)
<1>1. Safe(op) => Whole(op)
  BY DEF UpgradeInv, SafeRows, SafeFor
<1> QED
  BY <1>1, DerivedOfWhole DEF UpgradeInv, U!Settled

LEMMA FindInterruptedKeeps ==
  ASSUME UpgradeInv, NEW p \in Opener, U!FindInterrupted(p) PROVE UpgradeInv'
<1>1. /\ opening[p].at = "recover" /\ opening[p].row = Nothing
      /\ UNCHANGED <<file, history>> /\ FileTypes /\ OpeningTypes
      /\ opening[p].seen \in Nat \cup {Nothing} /\ Nothing \in RowInHand
      /\ opening[p].list \in SUBSET Operation
  BY OpeningFields DEF U!FindInterrupted, U!At, UpgradeInv, RowsInHand, RowInHand
<1>2. /\ {"recover", "upgradeAgain"} \subseteq Stages \ {"import"}
      /\ {"recover", "upgradeAgain"} \subseteq Prepared
      /\ {"recover", "upgradeAgain"} \subseteq Imported
  BY DEF Stages, FromIntents, FromLook, FromContract, FromLegacy, Imported, Prepared
<1>3. FileTypes' /\ Preserved /\ U!VersionTellsSchema' /\ HistoryTypes'
  BY <1>1, FileStays DEF UpgradeInv, HistoryTypes
<1>4. CASE opening[p].list = {}
  <2>1. U!Go(p, "upgradeAgain")
    BY <1>4 DEF U!FindInterrupted
  <2>2. Step(p, "upgradeAgain", opening[p].seen, opening[p].list, opening[p].row)
    BY <1>1, <2>1, GoSteps
  <2>3. Stepped(p, "upgradeAgain", opening[p].seen, opening[p].list, Nothing)
    BY <1>1, <1>2, <2>2, StepFits DEF Places
  <2>4. opening'[p].at = "upgradeAgain" /\ opening'[p].seen = opening[p].seen
    BY <2>3 DEF Stepped
  <2>5. AloneFinds(p)'
    BY <2>4 DEF AloneFinds
  <2>6. MadeBefore(p)'
    BY <1>1, <1>2, <1>3, <2>4, StaysMade
  <2> QED
    BY <1>1, <1>2, <1>3, <2>2, <2>5, <2>6, StageKeeps DEF Preserved
<1>5. CASE opening[p].list # {}
  <2>1. PICK op \in opening[p].list :
          opening' = [opening EXCEPT ![p].list = @ \ {op},
                        ![p].row = IF U!Derived(op) = "inflight" THEN <<op, 0>> ELSE Nothing]
    BY <1>5 DEF U!FindInterrupted
  <2> DEFINE list == opening[p].list \ {op}
             row == IF U!Derived(op) = "inflight" THEN <<op, 0>> ELSE Nothing
  <2>2. /\ op \in Operation /\ list \in SUBSET Operation /\ row \in RowInHand
        /\ row # Nothing => row[1] = op /\ U!Derived(op) = "inflight"
    BY <1>1, <2>1 DEF RowInHand
  <2>3. opening' = [opening EXCEPT ![p].list = list, ![p].row = row]
    BY <2>1
  <2> HIDE DEF list, row
  <2>4. Stepped(p, "recover", opening[p].seen, list, row)
    <3>1. Places("recover", opening[p].seen, list, row)
      BY <1>1, <1>2, <2>2 DEF Places
    <3>2. Step(p, "recover", opening[p].seen, list, row)
      BY <1>1, <2>3, RowSteps
    <3> QED
      BY <1>1, <3>1, <3>2, StepFits
  <2>5. /\ opening'[p].at = "recover" /\ opening'[p].row = row /\ opening'[p].seen = opening[p].seen
        /\ \A q \in Opener : q # p => opening'[q] = opening[q]
    BY <2>4 DEF Stepped
  <2>6. SafeRows'
    <3>1. ASSUME NEW o \in Operation, Safe(o) PROVE SafeFor(p, o)'
      <4>1. Whole(o)'
        BY <1>1, <1>2, <3>1 DEF UpgradeInv, SafeRows, SafeFor, Whole
      <4>2. ~ InHand(p, o)'
        BY <1>1, <1>2, <2>2, <2>5, <3>1, NotUnderWay DEF InHand
      <4> QED
        BY <2>5, <4>1, <4>2 DEF SafeFor
    <3> QED
      BY <1>1, <2>5, <3>1, KeptRows
  <2>7. AloneFinds(p)'
    <3>1. U!Derived(op)' = U!Derived(op)
      BY <1>1 DEF U!Derived
    <3>2. ASSUME opening'[p].row # Nothing PROVE U!Derived(opening[p].row[1])' = "inflight"
      BY <2>2, <2>5, <3>1, <3>2 DEF U!Derived
    <3> QED
      BY <2>5, <3>2 DEF AloneFinds
  <2>8. MadeBefore(p)'
    BY <1>1, <1>2, <1>3, <2>5, StaysMade
  <2>9. Allowed("recover", list, row)
    BY DEF Allowed
  <2> QED
    BY <1>1, <1>3, <2>4, <2>6, <2>7, <2>8, <2>9, PlaceKeeps
<1> QED
  BY <1>4, <1>5
LEMMA Names == {"retry_scheduled", "dispatch_started", "committed"} \subseteq EventNames
BY DEF EventNames

LEMMA AppendedEvent ==
  ASSUME FileTypes, NEW op \in Operation, NEW event \in EventNames
  PROVE  Append(file.ops[op].events, event) \in Seq(EventNames)
<1>1. file.ops[op].events \in Seq(EventNames)
  BY FieldsOfRow
<1> QED
  BY <1>1

\* A process whose import is behind it, with a row in hand or none.
LEMMA HandKeeps ==
  ASSUME UpgradeInv, NEW p \in Opener, opening[p].at \in {"recover", "running"},
         NEW op \in Operation, ~ Safe(op),
         NEW at \in {"recover", "running", "failed"}, NEW row \in RowInHand, row # Nothing => row[1] = op,
         Step(p, at, opening[p].seen, opening[p].list, row),
         FileTypes', Preserved, U!VersionTellsSchema', HistoryTypes',
         \A o \in Operation : o # op => file'.ops[o].events = file.ops[o].events,
         history'.true = history.true, history'.sent \subseteq history.sent \cup {op},
         history'.cut = history.cut,
         AloneFinds(p)'
  PROVE  UpgradeInv'
<1>1. /\ OpeningTypes /\ opening[p].seen \in Nat \cup {Nothing}
      /\ opening[p].list \in SUBSET Operation
  BY OpeningFields DEF UpgradeInv
<1>2. /\ at \in Stages \ {"import"} /\ {"recover", "running"} \subseteq Imported
      /\ {"recover", "running"} \subseteq Prepared
  BY DEF Stages, FromIntents, FromLook, FromContract, FromLegacy, Imported, Prepared
<1>3. Stepped(p, at, opening[p].seen, opening[p].list, row)
  BY <1>1, <1>2, StepFits DEF Places
<1>4. /\ opening'[p].at = at /\ opening'[p].row = row /\ opening'[p].seen = opening[p].seen
      /\ \A q \in Opener : q # p => opening'[q] = opening[q]
  BY <1>3 DEF Stepped
<1>5. SafeRows'
  <2>1. ASSUME NEW o \in Operation, o # op, Safe(o) PROVE SafeFor(p, o)'
    BY <1>2, <1>4, <2>1 DEF UpgradeInv, SafeRows, SafeFor, Whole, InHand
  <2> QED
    BY <1>4, <2>1, OtherRowsKeep
<1>6. MadeBefore(p)'
  <2>1. CASE at = "failed"
    <3>1. "failed" \notin FromIntents \cup FromLook \cup FromContract
      BY DEF FromIntents, FromLook, FromContract, FromLegacy, Imported, Prepared
    <3>2. "failed" \notin FromLegacy \cup Imported \cup Prepared
      BY DEF FromLegacy, Imported, Prepared
    <3> QED
      BY <1>4, <2>1, <3>1, <3>2 DEF MadeBefore
  <2>2. CASE at # "failed"
    BY <1>2, <1>4, <2>2, StaysMade
  <2> QED
    BY <2>1, <2>2
<1>7. Allowed(at, opening[p].list, row)
  BY DEF Allowed
<1> QED
  BY <1>3, <1>5, <1>6, <1>7, PlaceKeeps

LEMMA RecoverKeeps ==
  ASSUME UpgradeInv, NEW p \in Opener, U!Recover(p) PROVE UpgradeInv'
<1>1. /\ opening[p].at = "recover" /\ opening[p].row # Nothing
      /\ UNCHANGED history /\ FileTypes /\ OpeningTypes /\ HistoryTypes' /\ AloneFinds(p)
  BY DEF U!Recover, U!At, UpgradeInv, HistoryTypes, Racing
<1>2. PICK op \in Operation, k \in Nat : opening[p].row = <<op, k>>
  BY <1>1, OpeningFields DEF RowInHand
<1>3. opening[p].row[1] = op /\ opening[p].row[2] = k
  BY <1>2
<1>4. "recover" \in Imported
  BY DEF Imported, Prepared
<1>5. ~ Safe(op)
  BY <1>1, <1>3 DEF UpgradeInv, SafeRows, SafeFor, InHand
<1>6. CASE k = 1
  <2>1. /\ file' = [file EXCEPT !.ops[op].status = "retry_wait", !.has = file.has \cup {"server"}]
        /\ opening' = [opening EXCEPT ![p].row = Nothing]
    BY <1>3, <1>6 DEF U!Recover
  <2>2. RowBecomes(op, file.ops[op].known, "retry_wait", file.ops[op].events, file.has \cup {"server"})
    BY <1>1, <2>1, StatusHasForm
  <2>3. /\ FileTypes' /\ Preserved /\ U!VersionTellsSchema'
        /\ \A o \in Operation : o # op => file'.ops[o].events = file.ops[o].events
    BY <2>2, RowKeeps DEF RowBecomes
  <2>4. Step(p, "recover", opening[p].seen, opening[p].list, Nothing)
    BY <1>1, <2>1, RowStep
  <2>5. opening'[p].at = "recover" /\ opening'[p].row = Nothing
    BY <1>1, <2>4 DEF Step, OpeningTypes
  <2>6. AloneFinds(p)'
    BY <2>5 DEF AloneFinds
  <2>7. Nothing \in RowInHand
    BY DEF RowInHand
  <2> QED
    BY <1>1, <1>5, <2>3, <2>4, <2>6, <2>7, HandKeeps
<1>7. CASE k # 1 /\ U!Derived(op) \in {"completed", "cancelled"}
  <2>1. U!Go(p, "failed") /\ UNCHANGED file
    BY <1>3, <1>7 DEF U!Recover
  <2>2. Step(p, "failed", opening[p].seen, opening[p].list, opening[p].row)
    BY <1>1, <2>1, GoSteps
  <2>3. opening[p].raced
    BY <1>1, <1>3, <1>7 DEF AloneFinds
  <2>4. opening'[p].raced
    BY <1>1, <2>2, <2>3 DEF Step, OpeningTypes
  <2>5. AloneFinds(p)'
    BY <2>4 DEF AloneFinds
  <2>6. FileTypes' /\ Preserved /\ U!VersionTellsSchema'
    BY <2>1, FileStays
  <2>7. opening[p].row \in RowInHand
    BY <1>1, OpeningFields
  <2> QED
    BY <1>1, <1>3, <1>5, <2>1, <2>2, <2>5, <2>6, <2>7, HandKeeps
<1>8. CASE k # 1 /\ U!Derived(op) \notin {"completed", "cancelled"}
  <2> DEFINE events == Append(file.ops[op].events, "retry_scheduled")
             row == <<op, 1>>
  <2>1. /\ file' = [file EXCEPT !.ops[op].events = events]
        /\ opening' = [opening EXCEPT ![p].row = row]
    BY <1>3, <1>8 DEF U!Recover
  <2>2. events \in Seq(EventNames)
    BY <1>1, AppendedEvent, Names
  <2>3. row \in RowInHand /\ row[1] = op /\ row[2] = 1
    BY DEF RowInHand
  <2> HIDE DEF events, row
  <2>4. RowBecomes(op, file.ops[op].known, file.ops[op].status, events, file.has)
    BY <1>1, <2>1, <2>2, EventsForm
  <2>5. /\ FileTypes' /\ Preserved /\ U!VersionTellsSchema'
        /\ \A o \in Operation : o # op => file'.ops[o].events = file.ops[o].events
    BY <2>4, RowKeeps DEF RowBecomes
  <2>6. Step(p, "recover", opening[p].seen, opening[p].list, row)
    BY <1>1, <2>1, RowStep
  <2>7. opening'[p].at = "recover" /\ opening'[p].row = row
    BY <1>1, <2>6 DEF Step, OpeningTypes
  <2>8. AloneFinds(p)'
    BY <2>3, <2>7 DEF AloneFinds
  <2> QED
    BY <1>1, <1>5, <2>3, <2>5, <2>6, <2>8, HandKeeps
<1> QED
  BY <1>6, <1>7, <1>8

LEMMA DispatchKeeps ==
  ASSUME UpgradeInv, NEW p \in Opener, U!Dispatch(p) PROVE UpgradeInv'
<1>1. /\ opening[p].at = "running" /\ opening[p].row = Nothing
      /\ FileTypes /\ OpeningTypes /\ HistoryTypes
  BY DEF U!Dispatch, U!At, UpgradeInv
<1>2. PICK op \in Operation :
        /\ U!Derived(op) \in {"pending", "retry_wait"}
        /\ file' = [file EXCEPT !.ops[op].events = Append(@, "dispatch_started"),
                      !.ops[op].status = "inflight"]
        /\ opening' = [opening EXCEPT ![p].row = <<op, 0>>]
        /\ history' = [history EXCEPT !.sends = @ + 1, !.sent = @ \cup {op}]
  BY DEF U!Dispatch
<1>3. ~ Safe(op)
  BY <1>1, <1>2, NotUnderWay DEF Imported, Prepared
<1> DEFINE events == Append(file.ops[op].events, "dispatch_started")
           row == <<op, 0>>
<1>4. events \in Seq(EventNames)
  BY <1>1, AppendedEvent, Names
<1>5. row \in RowInHand /\ row[1] = op
  BY DEF RowInHand
<1>6. file' = [file EXCEPT !.ops[op].events = events, !.ops[op].status = "inflight"]
  BY <1>2
<1>7. opening' = [opening EXCEPT ![p].row = row]
  BY <1>2
<1> HIDE DEF events, row
<1>8. RowBecomes(op, file.ops[op].known, "inflight", events, file.has)
  BY <1>1, <1>4, <1>6, EventStatusForm
<1>9. /\ FileTypes' /\ Preserved /\ U!VersionTellsSchema'
      /\ \A o \in Operation : o # op => file'.ops[o].events = file.ops[o].events
  BY <1>8, RowKeeps DEF RowBecomes
<1>10. Step(p, "running", opening[p].seen, opening[p].list, row)
  BY <1>1, <1>7, RowStep
<1>11. opening'[p].at = "running"
  BY <1>1, <1>10 DEF Step, OpeningTypes
<1>12. AloneFinds(p)'
  BY <1>11 DEF AloneFinds
<1>13. /\ history'.true = history.true /\ history'.sent = history.sent \cup {op}
       /\ history'.cut = history.cut /\ HistoryTypes'
  BY <1>1, <1>2 DEF HistoryTypes
<1> QED
  BY <1>1, <1>3, <1>5, <1>9, <1>10, <1>12, <1>13, HandKeeps

LEMMA AnswerKeeps ==
  ASSUME UpgradeInv, NEW p \in Opener, U!Answer(p) PROVE UpgradeInv'
<1>1. /\ opening[p].at = "running" /\ opening[p].row # Nothing
      /\ UNCHANGED history /\ FileTypes /\ OpeningTypes /\ HistoryTypes'
      /\ opening' = [opening EXCEPT ![p].row = Nothing]
  BY DEF U!Answer, U!At, UpgradeInv, HistoryTypes
<1>2. PICK op \in Operation, k \in Nat : opening[p].row = <<op, k>>
  BY <1>1, OpeningFields DEF RowInHand
<1>3. opening[p].row[1] = op
  BY <1>2
<1>4. ~ Safe(op)
  BY <1>1, <1>3 DEF UpgradeInv, SafeRows, SafeFor, InHand
<1>5. /\ FileTypes' /\ Preserved /\ U!VersionTellsSchema'
      /\ \A o \in Operation : o # op => file'.ops[o].events = file.ops[o].events
  <2>1. CASE U!Derived(op) # "inflight"
    BY <1>3, <2>1, FileStays DEF U!Answer
  <2>2. CASE U!Derived(op) = "inflight"
    <3> DEFINE events == Append(file.ops[op].events, "committed")
    <3>1. file' = [file EXCEPT !.ops[op].events = events, !.ops[op].status = "completed"]
      BY <1>3, <2>2 DEF U!Answer
    <3>2. events \in Seq(EventNames)
      BY <1>1, AppendedEvent, Names
    <3> HIDE DEF events
    <3>3. RowBecomes(op, file.ops[op].known, "completed", events, file.has)
      BY <1>1, <3>1, <3>2, EventStatusForm
    <3>4. FileTypes' /\ Preserved /\ U!VersionTellsSchema'
      BY <3>3, RowKeeps
    <3> QED
      BY <3>3, <3>4 DEF RowBecomes
  <2> QED
    BY <2>1, <2>2
<1>6. Step(p, "running", opening[p].seen, opening[p].list, Nothing)
  BY <1>1, RowStep
<1>7. opening'[p].at = "running"
  BY <1>1, <1>6 DEF Step, OpeningTypes
<1>8. AloneFinds(p)'
  BY <1>7 DEF AloneFinds
<1>9. Nothing \in RowInHand
  BY DEF RowInHand
<1> QED
  BY <1>1, <1>4, <1>5, <1>6, <1>8, <1>9, HandKeeps
LEMMA CloseKeeps ==
  ASSUME UpgradeInv, NEW p \in Opener, U!Close(p) PROVE UpgradeInv'
<1>1. /\ opening[p].at # "closed" /\ UNCHANGED <<file, history>> /\ OpeningTypes
      /\ opening' = [opening EXCEPT ![p] = U!Closed]
  BY DEF U!Close, U!At, UpgradeInv
<1>2. U!Closed \in Opening /\ U!Closed.at = "closed" /\ U!Closed.row = Nothing
  BY DEF U!Closed, Opening, Stages, RowInHand
<1>3. /\ OpeningTypes' /\ opening'[p] = U!Closed
      /\ \A q \in Opener : q # p => opening'[q] = opening[q]
  BY <1>1, <1>2 DEF OpeningTypes
<1>4. opening'[p].at = "closed" /\ opening'[p].row = Nothing
  BY <1>2, <1>3
<1>5. FileTypes' /\ Preserved /\ U!VersionTellsSchema' /\ HistoryTypes'
  BY <1>1, FileStays DEF UpgradeInv, HistoryTypes
<1>6. RowsInHand'
  BY <1>1, <1>3, <1>4 DEF UpgradeInv, RowsInHand
<1>7. "closed" \notin Imported \cup FromIntents \cup FromLook \cup FromContract \cup FromLegacy \cup Prepared
  BY DEF FromIntents, FromLook, FromContract, FromLegacy, Imported, Prepared
<1>8. SafeRows'
  BY <1>1, <1>3, <1>4, <1>7, KeptRows DEF SafeFor
<1>9. Racing'
  BY <1>1, <1>3, <1>4, KeptRacing DEF AloneFinds
<1>10. Made'
  BY <1>3, <1>4, <1>5, <1>7, GrownMade DEF MadeBefore, Preserved
<1> QED
  BY <1>3, <1>5, <1>6, <1>8, <1>9, <1>10 DEF UpgradeInv

LEMMA OpenedWith ==
  ASSUME NEW x
  PROVE  [U!Closed EXCEPT !.at = "upgrade", !.raced = x] =
           [at |-> "upgrade", seen |-> Nothing, list |-> {}, row |-> Nothing, raced |-> x]
<1>1. ASSUME NEW o, NEW never, o = [at |-> "closed", seen |-> Nothing, list |-> {}, row |-> Nothing,
                                    raced |-> never]
      PROVE  [o EXCEPT !.at = "upgrade"] =
               [at |-> "upgrade", seen |-> Nothing, list |-> {}, row |-> Nothing, raced |-> never]
  BY <1>1
<1>2. ASSUME NEW never
      PROVE  [[at |-> "upgrade", seen |-> Nothing, list |-> {}, row |-> Nothing, raced |-> never]
                EXCEPT !.raced = x] =
               [at |-> "upgrade", seen |-> Nothing, list |-> {}, row |-> Nothing, raced |-> x]
  OBVIOUS
<1>3. [U!Closed EXCEPT !.at = "upgrade"] =
        [at |-> "upgrade", seen |-> Nothing, list |-> {}, row |-> Nothing, raced |-> FALSE]
  BY <1>1, Zenon DEF U!Closed
<1> QED
  BY <1>2, <1>3, Zenon

LEMMA OpenKeeps ==
  ASSUME UpgradeInv, NEW p \in Opener, U!Open(p) PROVE UpgradeInv'
<1> DEFINE others == {q \in Opener : q # p /\ opening[q].at # "closed"}
<1>1. /\ opening[p].at = "closed" /\ UNCHANGED file /\ OpeningTypes /\ HistoryTypes
      /\ history' = [history EXCEPT !.openings = @ + 1]
      /\ opening' = [q \in Opener |->
           IF q = p THEN [U!Closed EXCEPT !.at = "upgrade", !.raced = others # {}]
           ELSE IF q \in others THEN [opening[q] EXCEPT !.raced = TRUE]
           ELSE opening[q]]
  BY DEF U!Open, U!At, UpgradeInv
<1>2. /\ history'.true = history.true /\ history'.sent = history.sent
      /\ history'.cut = history.cut /\ HistoryTypes'
  BY <1>1 DEF HistoryTypes
<1> DEFINE raced == IF others = {} THEN FALSE ELSE TRUE
<1>3. raced \in BOOLEAN /\ (raced <=> others # {})
  OBVIOUS
<1>4. /\ opening'[p] \in Opening /\ opening'[p].at = "upgrade" /\ opening'[p].row = Nothing
      /\ (opening'[p].raced <=> others # {})
  <2>1. opening'[p] = [U!Closed EXCEPT !.at = "upgrade", !.raced = others # {}]
    BY <1>1
  <2>2. [U!Closed EXCEPT !.at = "upgrade", !.raced = others # {}] =
          [at |-> "upgrade", seen |-> Nothing, list |-> {}, row |-> Nothing, raced |-> others # {}]
    BY OpenedWith
  <2> HIDE DEF others
  <2>3. (others # {}) \in BOOLEAN
    OBVIOUS
  <2> QED
    BY <2>1, <2>2, <2>3 DEF Opening, Stages, RowInHand
<1>5. ASSUME NEW q \in Opener, q # p
      PROVE  /\ opening'[q] \in Opening /\ opening'[q].at = opening[q].at
             /\ opening'[q].seen = opening[q].seen /\ opening'[q].list = opening[q].list
             /\ opening'[q].row = opening[q].row
             /\ opening[q].raced => opening'[q].raced
             /\ opening[q].at # "closed" => opening'[q].raced
  <2>1. opening[q] \in Opening
    BY <1>1 DEF OpeningTypes
  <2>2. CASE q \in others
    BY <1>1, <1>5, <2>1, <2>2 DEF Opening
  <2>3. CASE q \notin others
    BY <1>1, <1>5, <2>1, <2>3
  <2> QED
    BY <2>2, <2>3
<1>6. OpeningTypes'
  BY <1>1, <1>4, <1>5 DEF OpeningTypes
<1>7. FileTypes' /\ Preserved /\ U!VersionTellsSchema'
  BY <1>1, FileStays
<1>8. RowsInHand'
  BY <1>2, <1>4, <1>5 DEF UpgradeInv, RowsInHand
<1>9. SafeRows'
  <2>1. \A o \in Operation : SafeFor(p, o)'
    BY <1>4 DEF SafeFor, Imported, Prepared
  <2>2. \A q \in Opener : q # p => /\ opening'[q].at = opening[q].at /\ opening'[q].list = opening[q].list
                                   /\ opening'[q].row = opening[q].row
    BY <1>5
  <2>3. \A o \in Operation : file'.ops[o].events = file.ops[o].events
    BY <1>1
  <2> QED
    BY <1>2, <2>1, <2>2, <2>3, KeptRows
<1>10. Racing'
  <2>1. ASSUME NEW q \in Opener, NEW r \in Opener, q # r, opening'[q].at # "closed",
               opening'[r].at # "closed"
        PROVE  opening'[q].raced
    <3>1. CASE q = p
      BY <1>4, <1>5, <2>1, <3>1
    <3>2. CASE q # p
      BY <1>5, <2>1, <3>2
    <3> QED
      BY <3>1, <3>2
  <2>2. AloneFinds(p)'
    BY <1>4 DEF AloneFinds
  <2>3. ASSUME NEW q \in Opener, q # p PROVE AloneFinds(q)'
    BY <1>5, <2>3 DEF AloneFinds
  <2> QED
    BY <2>1, <2>2, <2>3 DEF Racing
<1>11. Made'
  <2>1. MadeBefore(p)'
    BY <1>4 DEF MadeBefore, FromIntents, FromLook, FromContract, FromLegacy, Imported, Prepared
  <2>2. ASSUME NEW q \in Opener, q # p PROVE MadeBefore(q)'
    BY <1>1, <1>5, <2>2 DEF UpgradeInv, Made, MadeBefore, U!Unknown
  <2> QED
    BY <2>1, <2>2 DEF Made
<1> QED
  BY <1>2, <1>6, <1>7, <1>8, <1>9, <1>10, <1>11 DEF UpgradeInv

LEMMA UpgradeStep == ASSUME UpgradeInv, U!UpgradeNext PROVE UpgradeInv'
BY OpenKeeps, UpgradeCheckpointKeeps, CreateTablesKeeps, CreateIntentTablesKeeps,
   LookForColumnsKeeps, AddColumnsKeeps, CreateContractTablesKeeps, TakeLegacyKeeps,
   ImportRowKeeps, ImportEventKeeps, ImportEndsKeeps, MaterializeStatusKeeps, ImportRenameKeeps,
   DropGuardsKeeps, CreateGuardsKeeps, CreateReviewTablesKeeps, MarkVersionKeeps,
   FindInterruptedKeeps, RecoverKeeps, DispatchKeeps, AnswerKeeps, CloseKeeps, Zenon
   DEF U!UpgradeNext
LEMMA UpgradeStutter == ASSUME UpgradeInv, UNCHANGED opened PROVE UpgradeInv'
<1>1. UNCHANGED file /\ UNCHANGED opening /\ UNCHANGED history
  BY DEF opened
<1>2. FileTypes' /\ U!VersionTellsSchema'
  BY <1>1, FileStays
<1>3. OpeningTypes' /\ HistoryTypes' /\ RowsInHand'
  BY <1>1 DEF UpgradeInv, OpeningTypes, HistoryTypes, RowsInHand
<1>4. SafeRows'
  BY <1>1 DEF UpgradeInv, SafeRows, SafeEvents, SafeFor, Safe, Whole, InHand
<1>5. Racing'
  BY <1>1 DEF UpgradeInv, Racing, AloneFinds, U!Derived
<1>6. Made'
  BY <1>1 DEF UpgradeInv, Made, MadeBefore, U!Unknown
<1> QED
  BY <1>2, <1>3, <1>4, <1>5, <1>6 DEF UpgradeInv

\* The fields of a row, and of the proof of a rename.
LEMMA RowRead ==
  ASSUME NEW known, NEW status, NEW events, NEW r,
         r = [known |-> known, status |-> status, events |-> events]
  PROVE  /\ r.known = known /\ r.events = events
         /\ r = [known |-> r.known, status |-> r.status, events |-> r.events]
<1>1. r.known = known /\ r.events = events /\ r.status = status
  OBVIOUS
<1> QED
  BY <1>1, Zenon

LEMMA RenameRead ==
  ASSUME NEW completed, NEW events, NEW r, r = [completed |-> completed, events |-> events]
  PROVE  /\ r.completed = completed /\ r.events = events
         /\ r = [completed |-> r.completed, events |-> r.events]
<1>1. r.completed = completed /\ r.events = events
  OBVIOUS
<1> QED
  BY <1>1, Zenon

Rows(rows, known) ==
  /\ DOMAIN rows = Operation /\ rows = [op \in Operation |-> rows[op]]
  /\ \A op \in Operation :
       /\ rows[op] = [known |-> rows[op].known, status |-> rows[op].status,
                      events |-> rows[op].events]
       /\ rows[op].known = known /\ rows[op].events \in Seq(EventNames)

FileIs(version, has, rows, completed, known) ==
  /\ FileTypes /\ file.version = version /\ file.has = has /\ file.ops = rows
  /\ file.rename.completed = completed /\ (known => U!Unknown = {})

LEMMA FileFits ==
  ASSUME NEW version \in Nat, NEW has, NEW rows, NEW rename, NEW completed \in BOOLEAN,
         NEW known \in BOOLEAN, NEW events \in Seq(EventNames), Len(events) <= 2,
         rename = [completed |-> completed, events |-> events], Rows(rows, known),
         file = [version |-> version, has |-> has, ops |-> rows, rename |-> rename]
  PROVE  FileIs(version, has, rows, completed, known)
<1>1. /\ rename = [completed |-> rename.completed, events |-> rename.events]
      /\ rename.completed = completed /\ rename.events = events
  BY RenameRead, Zenon
<1>2. /\ file.version = version /\ file.has = has /\ file.ops = rows /\ file.rename = rename
      /\ file = [version |-> file.version, has |-> file.has, ops |-> file.ops, rename |-> file.rename]
  OBVIOUS
<1>3. FileTypes
  BY <1>1, <1>2 DEF FileTypes, Rows
<1>4. known => U!Unknown = {}
  BY <1>2 DEF U!Unknown, Rows
<1> QED
  BY <1>1, <1>2, <1>3, <1>4 DEF FileIs

LEMMA LaterFileFits ==
  ASSUME NEW version \in Nat, NEW true \in [Operation -> U!Statuses],
         file = [version |-> version,
                 has |-> {"queue", "intents", "columns", "server", "contract", "guards"},
                 ops |-> [op \in Operation |->
                   [known |-> TRUE,
                    status |-> U!FirstStatus(version, true[op]),
                    events |-> U!LegacyEvents(true[op])]],
                 rename |-> [completed |-> FALSE, events |-> <<"recorded">>]]
  PROVE  /\ FileTypes /\ file.version = version /\ ~ file.rename.completed /\ U!Unknown = {}
         /\ {"queue", "intents", "columns", "contract"} \subseteq file.has
         /\ \A op \in Operation : file.ops[op].events = U!LegacyEvents(true[op])
<1>0. <<"recorded">> \in Seq(EventNames) /\ Len(<<"recorded">>) <= 2
  <2>1. "recorded" \in EventNames
    BY DEF EventNames
  <2> QED
    BY <2>1
<1> DEFINE status(op) == U!FirstStatus(version, true[op])
           old(op) == U!LegacyEvents(true[op])
           has == {"queue", "intents", "columns", "server", "contract", "guards"}
           row(op) == [known |-> TRUE, status |-> status(op), events |-> old(op)]
           rows == [op \in Operation |-> row(op)]
           rename == [completed |-> FALSE, events |-> <<"recorded">>]
<1>1. file = [version |-> version, has |-> has, ops |-> rows, rename |-> rename]
  BY Zenon
<1>2. \A op \in Operation : old(op) \in Seq(EventNames)
  BY LegacyFits
<1> HIDE DEF status, old
<1>3. \A op \in Operation :
        /\ row(op).known = TRUE /\ row(op).events = old(op)
        /\ row(op) = [known |-> row(op).known, status |-> row(op).status, events |-> row(op).events]
  BY RowRead, Zenon
<1> HIDE DEF row
<1>4. /\ DOMAIN rows = Operation /\ rows = [op \in Operation |-> rows[op]]
      /\ \A op \in Operation : rows[op] = row(op)
  BY Zenon
<1> HIDE DEF rows
<1>5. /\ FileTypes /\ file.version = version /\ file.ops = rows /\ file.has = has
      /\ ~ file.rename.completed /\ U!Unknown = {}
  <2> DEFINE no == FALSE
             yes == TRUE
  <2>1. no \in BOOLEAN /\ yes \in BOOLEAN
    OBVIOUS
  <2>2. Rows(rows, yes)
    BY <1>2, <1>3, <1>4, ZenonT(30) DEF Rows
  <2>4. rename = [completed |-> no, events |-> <<"recorded">>]
    OBVIOUS
  <2>5. yes /\ ~ no
    OBVIOUS
  <2> HIDE DEF has, no, yes, rename
  <2>3. FileIs(version, has, rows, no, yes)
    BY <1>0, <1>1, <2>1, <2>2, <2>4, FileFits
  <2> QED
    BY <2>3, <2>5 DEF FileIs
<1>6. ASSUME NEW op \in Operation PROVE file.ops[op].events = old(op)
  <2>1. file.ops[op] = row(op) /\ row(op).events = old(op)
    BY <1>3, <1>4, <1>5, Zenon
  <2> QED
    BY <2>1, Zenon
<1> QED
  BY <1>5, <1>6 DEF old, has

LEMMA UpgradeStarts == ASSUME U!UpgradeInit PROVE UpgradeInv
<1>1. /\ opening = [p \in Opener |-> U!Closed]
      /\ \A p \in Opener : opening[p].at = "closed" /\ opening[p].row = Nothing
  BY DEF U!UpgradeInit, U!Closed
<1>2. PICK true \in [Operation -> U!Statuses] :
        /\ history = [openings |-> 0, sends |-> 0, true |-> true, sent |-> {}, cut |-> {}]
        /\ file \in U!OldFiles(true)
  BY DEF U!UpgradeInit
<1>3. HistoryTypes /\ history.true = true /\ history.sent = {}
  BY <1>2 DEF HistoryTypes
<1>4. OpeningTypes
  BY <1>1 DEF U!Closed, Opening, Stages, RowInHand, OpeningTypes
<1>5. "closed" \notin Imported \cup FromIntents \cup FromLook \cup FromContract \cup FromLegacy \cup Prepared
  BY DEF FromIntents, FromLook, FromContract, FromLegacy, Imported, Prepared
<1>6. RowsInHand /\ Made /\ Racing
  BY <1>1, <1>5 DEF RowsInHand, Made, MadeBefore, Racing, AloneFinds
<1>7. FileTypes /\ U!VersionTellsSchema /\ \A op \in Operation : file.ops[op].events \in {<<>>, U!LegacyEvents(true[op])}
  <2>0. /\ <<>> \in Seq(EventNames) /\ <<"recorded">> \in Seq(EventNames)
        /\ Len(<<>>) <= 2 /\ Len(<<"recorded">>) <= 2
    <3>1. "recorded" \in EventNames
      BY DEF EventNames
    <3> QED
      BY <3>1
  <2>1. ASSUME NEW done \in BOOLEAN,
               file = [version |-> 0, has |-> {"queue"},
                       ops |-> [op \in Operation |-> [known |-> FALSE, status |-> true[op], events |-> <<>>]],
                       rename |-> [completed |-> done, events |-> <<>>]]
        PROVE  /\ FileTypes /\ U!VersionTellsSchema
               /\ \A op \in Operation : file.ops[op].events = <<>>
    <3> DEFINE row(op) == [known |-> FALSE, status |-> true[op], events |-> <<>>]
               rows == [op \in Operation |-> row(op)]
               rename == [completed |-> done, events |-> <<>>]
    <3>1. file = [version |-> 0, has |-> {"queue"}, ops |-> rows, rename |-> rename]
      BY <2>1, Zenon
    <3>2. \A op \in Operation :
            /\ row(op).known = FALSE /\ row(op).events = <<>>
            /\ row(op) = [known |-> row(op).known, status |-> row(op).status, events |-> row(op).events]
      BY RowRead, Zenon
    <3> HIDE DEF row
    <3>3. /\ DOMAIN rows = Operation /\ rows = [op \in Operation |-> rows[op]]
          /\ \A op \in Operation : rows[op] = row(op)
      BY Zenon
    <3> HIDE DEF rows
    <3>4. FileTypes /\ file.version = 0 /\ file.ops = rows
      <4> DEFINE has == {"queue"}
                 no == FALSE
      <4>1. no \in BOOLEAN /\ 0 \in Nat
        OBVIOUS
      <4>2. Rows(rows, no)
        BY <2>0, <3>2, <3>3, Zenon DEF Rows
      <4>4. rename = [completed |-> done, events |-> <<>>]
        OBVIOUS
      <4> HIDE DEF has, no, rename
      <4>3. FileIs(0, has, rows, done, no)
        BY <2>0, <3>1, <4>1, <4>2, <4>4, FileFits DEF has
      <4> QED
        BY <4>3 DEF FileIs
    <3>5. \A op \in Operation : file.ops[op].events = <<>>
      BY <3>2, <3>3, <3>4
    <3> QED
      BY <3>4, <3>5 DEF U!VersionTellsSchema
  <2>2. ASSUME NEW version \in {8005, 8012},
               file = [version |-> version,
                       has |-> {"queue", "intents", "columns", "server", "contract", "guards"},
                       ops |-> [op \in Operation |->
                         [known |-> TRUE,
                          status |-> U!FirstStatus(version, true[op]),
                          events |-> U!LegacyEvents(true[op])]],
                       rename |-> [completed |-> FALSE, events |-> <<"recorded">>]]
        PROVE  /\ FileTypes /\ U!VersionTellsSchema
               /\ \A op \in Operation : file.ops[op].events = U!LegacyEvents(true[op])
    BY <2>2, LaterFileFits DEF U!VersionTellsSchema
  <2> QED
    BY <1>2, <2>1, <2>2 DEF U!OldFiles
<1>8. SafeRows
  BY <1>1, <1>3, <1>5, <1>7 DEF SafeRows, SafeEvents, SafeFor
<1> QED
  BY <1>3, <1>4, <1>6, <1>7, <1>8 DEF UpgradeInv

LEMMA UpgradeHolds ==
  ASSUME UpgradeInv PROVE U!SettledStaySettled /\ U!OpensAfterKill /\ U!VersionTellsSchema
<1>1. U!SettledStaySettled
  <2> SUFFICES ASSUME NEW op \in Operation, history.true[op] \in U!Settled, op \notin history.cut
               PROVE  /\ op \notin history.sent
                      /\ \A p \in Opener : U!At(p, "running") => U!Derived(op) = history.true[op]
    BY DEF U!SettledStaySettled
  <2>1. Safe(op)
    BY DEF Safe
  <2>2. ASSUME NEW p \in Opener, opening[p].at = "running" PROVE U!Derived(op) = history.true[op]
    BY <2>1, <2>2, DerivedOfWhole DEF UpgradeInv, SafeRows, SafeFor, Imported, Prepared
  <2> QED
    BY <2>1, <2>2 DEF UpgradeInv, SafeRows, SafeEvents, U!At
<1>2. U!OpensAfterKill
  BY DEF U!OpensAfterKill, UpgradeInv, Racing, AloneFinds, U!At
<1> QED
  BY <1>1, <1>2 DEF UpgradeInv

\* Opening an older store (StoreUpgrade): whatever processes open it at once and
\* wherever each is killed, no operation that the old queue had settled is sent
\* again, but for the rows that a later list finds half imported; an opening fails
\* only beside another one; and the version a file carries tells what it has.
THEOREM OldStoresStayOpen == DeviceSpec => []OldStoresOpen
<1>1. DeviceInit => UpgradeOK
  BY UpgradeStarts DEF DeviceInit, UpgradeOK
<1>2. UpgradeOK /\ [DeviceNext]_<<part, vars, typed, tried, opened, backed>> => UpgradeOK'
  BY UpgradeStep, UpgradeStutter DEF UpgradeOK, DeviceNext
<1>3. UpgradeOK => OldStoresOpen
  BY UpgradeHolds DEF UpgradeOK, OldStoresOpen
<1> QED
  BY <1>1, <1>2, <1>3, PTL DEF DeviceSpec-----------------------------------------------------------------------------
(* The single-document editor (NormalEditor) *)

QueuedEdit == [id : Nat, text : Text, base : Nat, at : Nat,
               status : {"pending", "inflight", "retry_wait"}, dispatched : BOOLEAN,
               attempted : BOOLEAN, response : BOOLEAN, conflict : BOOLEAN]

Receptions == [before : Text, content : Text, rev : Nat]

Kept == [file : Text, at : Nat, draft : {Nothing} \cup [text : Text, rev : Nat],
         receive : {Nothing} \cup Receptions,
         last : [event : {"intent", "done"}, before : Text, content : Text],
         rev : Nat, base : Text, op : {Nothing} \cup QueuedEdit, ops : Nat,
         intents : SUBSET (Text \X Nat),
         gate : [open : BOOLEAN, record : {"none", "pending"}], cut : BOOLEAN, hasty : BOOLEAN]

Revisions == [text : Text, op : Nat, at : Nat]

\* None of the revisions in between is the other device's.
Own(lo, hi) == \A j \in lo + 1 .. hi : texts[j].op # 0

WasSent(id) == \E i \in DOMAIN past.sent : past.sent[i] = id

WasServed(id) == \E i \in DOMAIN texts : texts[i].op = id

\* What the records announce.
Records(k) ==
  /\ N!Explained(k)
  /\ k.gate.open => k.gate.record = "pending"
  /\ k.op # Nothing => <<k.op.text, k.op.base>> \in k.intents

\* A reception is the last replace announced, of a revision not behind the base;
\* an operation that stands beside it was queued in haste and has not left.
Reception(k) ==
  k.receive # Nothing =>
    /\ k.last.content = k.receive.content
    /\ k.receive.rev \in k.rev .. Len(texts)
    /\ texts[k.receive.rev].text = k.receive.content
    /\ k.op # Nothing => k.hasty /\ ~ k.op.dispatched

Based(k) == k.rev \in 1 .. Len(texts) /\ texts[k.rev].text = k.base

\* Between what was typed on and what it follows lie revisions of this device.
Followed(k) ==
  k.cut \/ /\ \A i \in DOMAIN texts : texts[i].op # 0 => Own(texts[i].at, i - 1)
           /\ Own(k.at, k.rev)
           /\ k.draft # Nothing /\ k.receive = Nothing => Own(k.draft.rev, k.rev)
           /\ k.op # Nothing => Own(k.op.at, k.op.base)

\* The operation follows the base, and once it was served it is the next revision.
Pending(k) ==
  k.op # Nothing =>
    /\ k.op.base = k.rev /\ k.op.id = k.ops /\ k.op.id # 0
    /\ \A i \in DOMAIN texts :
         texts[i].op = k.op.id => i = k.op.base + 1 /\ texts[i].text = k.op.text
    /\ WasSent(k.op.id) => k.op.attempted
    /\ k.op.response => WasServed(k.op.id)

Numbered(k) == \A i \in DOMAIN past.sent : past.sent[i] \in 1 .. k.ops

Good(k) ==
  /\ k \in Kept
  /\ Records(k) /\ Reception(k) /\ Based(k) /\ Followed(k) /\ Pending(k) /\ Numbered(k)

HistoryFits ==
  /\ texts \in Seq(Revisions)
  /\ past.sent \in Seq(Nat) /\ past = [acts |-> past.acts, surprises |-> past.surprises, sent |-> past.sent]
  /\ \A i \in DOMAIN texts : texts[i].op # 0 => WasSent(texts[i].op)
  /\ \A i, j \in DOMAIN past.sent : past.sent[i] = past.sent[j] => i = j
  /\ \A i, j \in DOMAIN texts : texts[i].op = texts[j].op /\ texts[i].op # 0 => i = j

\* A commit on the wire is the operation in the queue, and was not served.
WireFits ==
  wire # Nothing =>
    /\ kept.op # Nothing
    /\ wire.id = kept.op.id /\ wire.text = kept.op.text
    /\ wire.base = kept.op.base /\ wire.at = kept.op.at
    /\ WasSent(wire.id) /\ ~ WasServed(wire.id)

ActionFits ==
  /\ action \in {"send", "dispatched", "attempted", "wire", "applied", "refused", "recover"} =>
       kept.op # Nothing /\ kept.receive = Nothing
  /\ action \in {"send", "dispatched", "attempted"} => ~ WasSent(kept.op.id)
  /\ action \in {"send", "dispatched"} => ~ kept.op.attempted
  /\ action = "attempted" => kept.op.attempted
  /\ action = "wire" => WasSent(kept.op.id)
  /\ action = "applied" => WasServed(kept.op.id)
  /\ action = "receive" => N!Receivable(kept)

EditorInv == Good(kept) /\ HistoryFits /\ WireFits /\ ActionFits

\* The value for none is neither an operation nor the record of a reception.
NothingIsNoRecord == Nothing \notin QueuedEdit \cup Receptions

AllGood(steps) == steps \in Seq(Kept) /\ \A i \in DOMAIN steps : Good(steps[i])

LEMMA GoodPair ==
  ASSUME NEW a, NEW b, Good(a), Good(b) PROVE AllGood(<<a, b>>) /\ Len(<<a, b>>) = 2
<1>1. a \in Kept /\ b \in Kept
  BY DEF Good
<1> QED BY <1>1 DEF AllGood

LEMMA GoodTriple ==
  ASSUME NEW a, NEW b, NEW c, Good(a), Good(b), Good(c)
  PROVE  AllGood(<<a, b, c>>) /\ Len(<<a, b, c>>) = 3
<1>1. a \in Kept /\ b \in Kept /\ c \in Kept
  BY DEF Good
<1> QED BY <1>1 DEF AllGood

LEMMA GoodJoined ==
  ASSUME NEW some, NEW more, AllGood(some), AllGood(more)
  PROVE  AllGood(some \o more) /\ Len(some \o more) = Len(some) + Len(more)
<1>1. /\ some \in Seq(Kept) /\ more \in Seq(Kept)
      /\ \A i \in 1 .. Len(some) : Good(some[i])
      /\ \A i \in 1 .. Len(more) : Good(more[i])
  BY DEF AllGood
<1> HIDE DEF Kept
<1>2. /\ some \o more \in Seq(Kept) /\ Len(some \o more) = Len(some) + Len(more)
      /\ \A i \in 1 .. Len(some) + Len(more) :
           (some \o more)[i] = IF i <= Len(some) THEN some[i] ELSE more[i - Len(some)]
  BY <1>1
<1>3. \A i \in 1 .. Len(some) + Len(more) : Good((some \o more)[i])
  <2> TAKE i \in 1 .. Len(some) + Len(more)
  <2>1. Len(some) \in Nat /\ Len(more) \in Nat
    BY <1>1
  <2>2. CASE i <= Len(some)
    BY <1>1, <1>2, <2>1, <2>2
  <2>3. CASE ~ (i <= Len(some))
    BY <1>1, <1>2, <2>1, <2>3
  <2> QED BY <2>2, <2>3
<1>4. DOMAIN (some \o more) = 1 .. Len(some) + Len(more)
  BY <1>2
<1> QED BY <1>2, <1>3, <1>4 DEF AllGood

\* Durable steps leave one of what they write, and what was sent as it was.
LEMMA OneStep ==
  ASSUME NEW steps, NEW next, AllGood(steps), Len(steps) >= 1, N!Steps(steps, next), HistoryFits
  PROVE  /\ \E i \in DOMAIN steps : kept' = steps[i] /\ Good(steps[i])
         /\ action' \in {next, "down"} /\ past'.sent = past.sent
         /\ past' = [acts |-> past'.acts, surprises |-> past'.surprises, sent |-> past'.sent]
<1>1. /\ \E i \in DOMAIN steps : kept' = steps[i]
      /\ action' \in {next, "down"}
      /\ past' = past \/ past' = [past EXCEPT !.surprises = @ + 1]
  BY DEF AllGood, N!Steps
<1>2. past'.sent = past.sent
       /\ past' = [acts |-> past'.acts, surprises |-> past'.surprises, sent |-> past'.sent]
  BY <1>1 DEF HistoryFits
<1> QED BY <1>1, <1>2 DEF AllGood

\* write leaves a file that its record announced.
LEMMA SavedGood ==
  ASSUME NEW k, Good(k), k.receive = Nothing, NEW text \in Text,
         k.draft # Nothing => text = k.draft.text
  PROVE  /\ AllGood(N!Saved(k, text)) /\ Len(N!Saved(k, text)) = 3
         /\ \A i \in 1 .. 3 : N!Saved(k, text)[i].op = k.op
<1> DEFINE intent == [event |-> "intent", before |-> k.file, content |-> text]
           done == [intent EXCEPT !.event = "done"]
           at == N!DraftAt(k)
           announced == [k EXCEPT !.last = intent]
           replaced == [k EXCEPT !.last = intent, !.file = text, !.at = at]
           recorded == [k EXCEPT !.last = done, !.file = text, !.at = at]
<1>1. k \in Kept
  BY DEF Good
<1>2. intent \in [event : {"intent", "done"}, before : Text, content : Text]
      /\ intent.event = "intent" /\ intent.before = k.file /\ intent.content = text
  BY <1>1 DEF Kept
<1>3. done \in [event : {"intent", "done"}, before : Text, content : Text] /\ done.content = text
  BY <1>2
<1>4. at \in Nat /\ (k.cut \/ Own(at, k.rev))
  BY <1>1 DEF N!DraftAt, Kept, Own, Good, Followed
<1> HIDE DEF intent, done, at
<1>5. Good(announced)
  <2>1. /\ announced \in Kept
        /\ announced.last = intent /\ announced.file = k.file /\ announced.at = k.at
        /\ announced.draft = k.draft /\ announced.receive = k.receive
        /\ announced.rev = k.rev /\ announced.base = k.base /\ announced.op = k.op
        /\ announced.ops = k.ops /\ announced.intents = k.intents
        /\ announced.gate = k.gate /\ announced.cut = k.cut
    BY <1>1, <1>2 DEF Kept
  <2> HIDE DEF announced
  <2> QED
    BY <1>2, <2>1 DEF Good, Records, N!Explained, Reception, Based, Followed, Pending, Numbered
<1>6. Good(replaced)
  <2>1. /\ replaced \in Kept
        /\ replaced.last = intent /\ replaced.file = text /\ replaced.at = at
        /\ replaced.draft = k.draft /\ replaced.receive = k.receive
        /\ replaced.rev = k.rev /\ replaced.base = k.base /\ replaced.op = k.op
        /\ replaced.ops = k.ops /\ replaced.intents = k.intents
        /\ replaced.gate = k.gate /\ replaced.cut = k.cut
    BY <1>1, <1>2, <1>4 DEF Kept
  <2> HIDE DEF replaced
  <2> QED
    BY <1>2, <1>4, <2>1 DEF Good, Records, N!Explained, Reception, Based, Followed, Pending, Numbered
<1>7. Good(recorded)
  <2>1. /\ recorded \in Kept
        /\ recorded.last = done /\ recorded.file = text /\ recorded.at = at
        /\ recorded.draft = k.draft /\ recorded.receive = k.receive
        /\ recorded.rev = k.rev /\ recorded.base = k.base /\ recorded.op = k.op
        /\ recorded.ops = k.ops /\ recorded.intents = k.intents
        /\ recorded.gate = k.gate /\ recorded.cut = k.cut
    BY <1>1, <1>3, <1>4 DEF Kept
  <2> HIDE DEF recorded
  <2> QED
    BY <1>3, <1>4, <2>1 DEF Good, Records, N!Explained, Reception, Based, Followed, Pending, Numbered
<1>8. N!Saved(k, text) = <<announced, replaced, recorded>>
  BY Zenon DEF N!Saved, announced, replaced, recorded, intent, done, at
<1>9. announced.op = k.op /\ replaced.op = k.op /\ recorded.op = k.op
  BY <1>1 DEF Kept
<1> HIDE DEF announced, replaced, recorded
<1>10. \A i \in 1 .. 3 : <<announced, replaced, recorded>>[i].op = k.op
  BY <1>9
<1> QED
  BY <1>5, <1>6, <1>7, <1>8, <1>10, GoodTriple

LEMMA GoodSix ==
  ASSUME NEW a, NEW b, NEW c, NEW g, NEW e, NEW f,
         Good(a), Good(b), Good(c), Good(g), Good(e), Good(f)
  PROVE  AllGood(<<a, b, c, g, e, f>>) /\ Len(<<a, b, c, g, e, f>>) = 6
<1>1. a \in Kept /\ b \in Kept /\ c \in Kept /\ g \in Kept /\ e \in Kept /\ f \in Kept
  BY DEF Good
<1> QED BY <1>1 DEF AllGood

Fields == {"file", "at", "draft", "receive", "last", "rev", "base", "op", "ops", "intents",
           "gate", "cut", "hasty"}

Gates == [open : BOOLEAN, record : {"none", "pending"}]

\* A change of the gate alone.
LEMMA GateMoved ==
  ASSUME NEW k, Good(k), NEW gate \in Gates, gate.open => gate.record = "pending",
         NEW s, s = [k EXCEPT !.gate = gate]
  PROVE  Good(s) /\ s.gate = gate /\ \A f \in Fields \ {"gate"} : s[f] = k[f]
<1>1. k \in Kept
  BY DEF Good
<1>2. /\ s \in Kept
      /\ s.gate = gate
      /\ s.file = k.file /\ s.at = k.at /\ s.draft = k.draft /\ s.receive = k.receive
      /\ s.last = k.last /\ s.rev = k.rev /\ s.base = k.base /\ s.op = k.op /\ s.ops = k.ops
      /\ s.intents = k.intents /\ s.cut = k.cut /\ s.hasty = k.hasty
  BY <1>1 DEF Kept, Gates
<1>3. Good(s)
  BY <1>2 DEF Good, Records, N!Explained, Reception, Based, Followed, Pending, Numbered
<1> QED BY <1>2, <1>3 DEF Fields

\* An operation that is queued is new and follows the base of the store.
LEMMA PutGood ==
  ASSUME NEW k, Good(k), k.op = Nothing, HistoryFits, <<k.file, k.rev>> \in k.intents,
         NEW no, no \in BOOLEAN, ~ no, NEW hasty \in BOOLEAN, k.receive # Nothing => hasty,
         NEW edit, edit = [id |-> k.ops + 1, text |-> k.file, base |-> k.rev, at |-> k.at,
                           status |-> "pending", dispatched |-> no, attempted |-> no,
                           response |-> no, conflict |-> no],
         NEW s, s = [k EXCEPT !.ops = @ + 1, !.op = edit, !.hasty = hasty]
  PROVE  Good(s) /\ s.gate = k.gate /\ s.intents = k.intents
<1>1. k \in Kept
  BY DEF Good
<1>2. /\ edit \in QueuedEdit
      /\ edit.id = k.ops + 1 /\ edit.text = k.file /\ edit.base = k.rev /\ edit.at = k.at
      /\ ~ edit.dispatched /\ ~ edit.response
  BY <1>1 DEF Kept, QueuedEdit
<1>3. /\ s \in Kept
      /\ s.file = k.file /\ s.at = k.at /\ s.draft = k.draft /\ s.receive = k.receive
      /\ s.last = k.last /\ s.rev = k.rev /\ s.base = k.base /\ s.op = edit /\ s.ops = k.ops + 1
      /\ s.intents = k.intents /\ s.cut = k.cut /\ s.hasty = hasty /\ s.gate = k.gate
  <2> DEFINE number == k.ops + 1
  <2>1. number \in Nat /\ edit \in {Nothing} \cup QueuedEdit
    BY <1>1, <1>2 DEF Kept
  <2> HIDE DEF number
  <2>2. s = [k EXCEPT !.ops = number, !.op = edit, !.hasty = hasty]
    BY Zenon DEF number
  <2>3. s \in Kept
    BY <1>1, <2>1, <2>2 DEF Kept
  <2>4. s.ops = k.ops + 1
    BY <1>1, <2>2 DEF Kept, number
  <2>5. /\ s.file = k.file /\ s.at = k.at /\ s.draft = k.draft /\ s.receive = k.receive
        /\ s.last = k.last /\ s.rev = k.rev /\ s.base = k.base /\ s.op = edit
        /\ s.intents = k.intents /\ s.cut = k.cut /\ s.hasty = hasty /\ s.gate = k.gate
    BY <1>1, <2>2 DEF Kept
  <2> QED BY <2>3, <2>4, <2>5
<1>4. k.ops \in Nat /\ \A i \in DOMAIN past.sent : past.sent[i] \in 1 .. k.ops
  BY <1>1 DEF Good, Numbered, Kept
<1>5. ~ WasSent(k.ops + 1)
  BY <1>4 DEF WasSent
<1>6. ~ WasServed(k.ops + 1)
  BY <1>4, <1>5 DEF WasServed, HistoryFits
<1>7. Records(s)
  BY <1>2, <1>3 DEF Good, Records, N!Explained
<1>8. Reception(s)
  BY <1>2, <1>3 DEF Good, Reception
<1>9. Based(s)
  BY <1>3 DEF Good, Based
<1>10. Followed(s)
  BY <1>2, <1>3 DEF Good, Followed
<1>11. Pending(s)
  BY <1>2, <1>3, <1>4, <1>5, <1>6 DEF Pending, WasServed
<1>12. Numbered(s)
  BY <1>3, <1>4 DEF Numbered
<1> QED BY <1>3, <1>7, <1>8, <1>9, <1>10, <1>11, <1>12 DEF Good

LEMMA QueuedGood ==
  ASSUME NEW k, Good(k), k.op = Nothing, HistoryFits
  PROVE  AllGood(N!Queued(k)) /\ Len(N!Queued(k)) = 6
<1> DEFINE intent == [k EXCEPT !.intents = @ \cup {<<k.file, k.rev>>}]
           recorded == [intent EXCEPT !.gate.record = "pending"]
           opening1 == [recorded EXCEPT !.gate.open = TRUE]
           edit == [id |-> k.ops + 1, text |-> k.file, base |-> k.rev, at |-> k.at,
                    status |-> "pending", dispatched |-> FALSE, attempted |-> FALSE,
                    response |-> FALSE, conflict |-> FALSE]
           put == [opening1 EXCEPT !.ops = @ + 1, !.op = edit, !.hasty = @ \/ k.receive # Nothing]
           closed == [put EXCEPT !.gate.open = FALSE]
           last == [closed EXCEPT !.gate.record = "none"]
<1>1. k \in Kept
  BY DEF Good
<1>2. Good(intent) /\ <<k.file, k.rev>> \in intent.intents
       /\ \A f \in Fields \ {"intents"} : intent[f] = k[f]
  <2>1. /\ intent \in Kept
        /\ intent.intents = k.intents \cup {<<k.file, k.rev>>}
        /\ intent.file = k.file /\ intent.at = k.at /\ intent.draft = k.draft
        /\ intent.receive = k.receive /\ intent.last = k.last /\ intent.rev = k.rev
        /\ intent.base = k.base /\ intent.op = k.op /\ intent.ops = k.ops
        /\ intent.gate = k.gate /\ intent.cut = k.cut /\ intent.hasty = k.hasty
    BY <1>1 DEF Kept
  <2> HIDE DEF intent
  <2>2. Good(intent)
    BY <2>1 DEF Good, Records, N!Explained, Reception, Based, Followed, Pending, Numbered
  <2> QED BY <2>1, <2>2 DEF Fields
<1> HIDE DEF intent
<1>3. Good(recorded) /\ recorded.gate.record = "pending"
       /\ \A f \in Fields \ {"gate"} : recorded[f] = intent[f]
  <2>1. intent.gate \in Gates
    BY <1>2 DEF Good, Kept, Gates
  <2> DEFINE gate == [intent.gate EXCEPT !.record = "pending"]
  <2>2. gate \in Gates /\ gate.record = "pending"
    BY <2>1 DEF Gates
  <2>3. recorded = [intent EXCEPT !.gate = gate]
    OBVIOUS
  <2> HIDE DEF gate, recorded
  <2> QED BY <1>2, <2>2, <2>3, GateMoved
<1> HIDE DEF recorded
<1>4. Good(opening1) /\ \A f \in Fields \ {"gate"} : opening1[f] = recorded[f]
  <2>1. recorded.gate \in Gates
    BY <1>3 DEF Good, Kept, Gates
  <2> DEFINE gate == [recorded.gate EXCEPT !.open = TRUE]
  <2>2. gate \in Gates /\ gate.record = "pending"
    BY <1>3, <2>1 DEF Gates
  <2>3. opening1 = [recorded EXCEPT !.gate = gate]
    OBVIOUS
  <2> HIDE DEF gate, opening1
  <2> QED BY <1>3, <2>2, <2>3, GateMoved
<1> HIDE DEF opening1
<1>5. /\ opening1.file = k.file /\ opening1.rev = k.rev /\ opening1.at = k.at /\ opening1.ops = k.ops
      /\ opening1.op = k.op /\ opening1.receive = k.receive /\ opening1.hasty = k.hasty
      /\ opening1.intents = intent.intents
  BY <1>2, <1>3, <1>4 DEF Fields
<1>6. Good(put)
  <2> DEFINE hasty == opening1.hasty \/ k.receive # Nothing
  <2>1. hasty \in BOOLEAN /\ (opening1.receive # Nothing => hasty)
    BY <1>5
  <2>2. put = [opening1 EXCEPT !.ops = @ + 1, !.op = edit, !.hasty = hasty]
    BY Zenon
  <2> HIDE DEF hasty, put
  <2>3. edit = [id |-> opening1.ops + 1, text |-> opening1.file, base |-> opening1.rev,
                at |-> opening1.at, status |-> "pending", dispatched |-> FALSE,
                attempted |-> FALSE, response |-> FALSE, conflict |-> FALSE]
    BY <1>5, Zenon
  <2>4. <<opening1.file, opening1.rev>> \in opening1.intents /\ opening1.op = Nothing
    BY <1>2, <1>5
  <2> HIDE DEF edit
  <2> QED BY <1>4, <2>1, <2>2, <2>3, <2>4, PutGood, Zenon
<1> HIDE DEF put
<1>7. Good(closed) /\ closed.gate.open = FALSE
  <2>1. put.gate \in Gates
    BY <1>6 DEF Good, Kept, Gates
  <2> DEFINE gate == [put.gate EXCEPT !.open = FALSE]
  <2>2. gate \in Gates /\ gate.open = FALSE
    BY <2>1 DEF Gates
  <2>3. closed = [put EXCEPT !.gate = gate]
    OBVIOUS
  <2> HIDE DEF gate, closed
  <2> QED BY <1>6, <2>2, <2>3, GateMoved
<1> HIDE DEF closed
<1>8. Good(last)
  <2>1. closed.gate \in Gates
    BY <1>7 DEF Good, Kept, Gates
  <2> DEFINE gate == [closed.gate EXCEPT !.record = "none"]
  <2>2. gate \in Gates /\ gate.open = FALSE
    BY <1>7, <2>1 DEF Gates
  <2>3. last = [closed EXCEPT !.gate = gate]
    OBVIOUS
  <2> HIDE DEF gate, last
  <2> QED BY <1>7, <2>2, <2>3, GateMoved
<1>9. N!Queued(k) = <<intent, recorded, opening1, put, closed, last>>
  BY Zenon DEF N!Queued, intent, recorded, opening1, edit, put, closed, last
<1> HIDE DEF last
<1> QED BY <1>2, <1>3, <1>4, <1>6, <1>7, <1>8, <1>9, GoodSix

\* What was received replaces the file, the base and the draft, in this order.
LEMMA FinishedGood ==
  ASSUME NEW k, Good(k), k.op = Nothing, k.receive # Nothing
  PROVE  AllGood(N!Finished(k)) /\ Len(N!Finished(k)) = 4
<1> DEFINE row == k.receive
           file1 == [k EXCEPT !.file = row.content, !.at = row.rev]
           stored == [file1 EXCEPT !.rev = row.rev, !.base = row.content]
           done == [event |-> "done", before |-> row.before, content |-> row.content]
           received == [stored EXCEPT !.receive = Nothing, !.last = done,
                          !.cut = @ \/ k.draft # Nothing]
           typed1 == [text |-> row.content, rev |-> row.rev]
           drafted == [received EXCEPT !.draft = typed1, !.cut = k.cut]
<1>1. k \in Kept
  BY DEF Good
<1>2. /\ row.before \in Text /\ row.content \in Text /\ row.rev \in Nat
      /\ k.last.content = row.content /\ row.rev \in k.rev .. Len(texts)
      /\ texts[row.rev].text = row.content
      /\ k.rev \in Nat /\ k.rev >= 1
  BY <1>1 DEF Good, Reception, Kept, Receptions, Based
<1>3. Own(row.rev, k.rev) /\ Own(row.rev, row.rev)
  BY <1>2 DEF Own
<1> HIDE DEF row
<1>4. Good(file1) /\ file1.file = row.content /\ file1.at = row.rev
       /\ \A f \in Fields \ {"file", "at"} : file1[f] = k[f]
  <2>1. /\ file1 \in Kept
        /\ file1.file = row.content /\ file1.at = row.rev
        /\ file1.draft = k.draft /\ file1.receive = k.receive /\ file1.last = k.last
        /\ file1.rev = k.rev /\ file1.base = k.base /\ file1.op = k.op /\ file1.ops = k.ops
        /\ file1.intents = k.intents /\ file1.gate = k.gate /\ file1.cut = k.cut
        /\ file1.hasty = k.hasty
    BY <1>1, <1>2 DEF Kept
  <2> HIDE DEF file1
  <2>2. Good(file1)
    BY <1>2, <1>3, <2>1 DEF Good, Records, N!Explained, Reception, Based, Followed, Pending, Numbered
  <2> QED BY <2>1, <2>2 DEF Fields
<1> HIDE DEF file1
<1>5. Good(stored) /\ stored.rev = row.rev /\ stored.base = row.content
       /\ \A f \in Fields \ {"rev", "base"} : stored[f] = file1[f]
  <2>1. /\ stored \in Kept
        /\ stored.rev = row.rev /\ stored.base = row.content
        /\ stored.file = file1.file /\ stored.at = file1.at
        /\ stored.draft = file1.draft /\ stored.receive = file1.receive /\ stored.last = file1.last
        /\ stored.op = file1.op /\ stored.ops = file1.ops
        /\ stored.intents = file1.intents /\ stored.gate = file1.gate /\ stored.cut = file1.cut
        /\ stored.hasty = file1.hasty
    BY <1>2, <1>4 DEF Good, Kept
  <2> HIDE DEF stored
  <2>2. file1.op = Nothing /\ file1.receive = row /\ row # Nothing
    BY <1>4 DEF Fields, row
  <2>3. Good(stored)
    BY <1>2, <1>3, <1>4, <2>1, <2>2
       DEF Good, Records, N!Explained, Reception, Based, Followed, Pending, Numbered
  <2> QED BY <2>1, <2>3 DEF Fields
<1> HIDE DEF stored
<1>6. /\ stored.file = row.content /\ stored.at = row.rev /\ stored.draft = k.draft
      /\ stored.op = Nothing /\ stored.cut = k.cut
  BY <1>4, <1>5 DEF Fields
<1>7. done \in [event : {"intent", "done"}, before : Text, content : Text]
       /\ done.content = row.content
  BY <1>2
<1>8. typed1 \in [text : Text, rev : Nat] /\ typed1.rev = row.rev
  BY <1>2
<1> HIDE DEF done, typed1
<1>9. Good(received) /\ received.receive = Nothing /\ (k.cut => received.cut)
       /\ \A f \in Fields \ {"receive", "last", "cut"} : received[f] = stored[f]
  <2> DEFINE cut == stored.cut \/ k.draft # Nothing
  <2>1. cut \in BOOLEAN
    OBVIOUS
  <2>2. received = [stored EXCEPT !.receive = Nothing, !.last = done, !.cut = cut]
    BY Zenon
  <2>3. (~ cut => stored.draft = Nothing) /\ (k.cut => cut)
    BY <1>6
  <2> HIDE DEF cut, received
  <2>4. /\ received \in Kept
        /\ received.receive = Nothing /\ received.last = done /\ received.cut = cut
        /\ received.file = stored.file /\ received.at = stored.at
        /\ received.draft = stored.draft
        /\ received.rev = stored.rev /\ received.base = stored.base
        /\ received.op = stored.op /\ received.ops = stored.ops
        /\ received.intents = stored.intents /\ received.gate = stored.gate
        /\ received.hasty = stored.hasty
    <3>1. stored \in Kept
      BY <1>5 DEF Good
    <3> DEFINE none == Nothing
    <3>2. none \in {Nothing} \cup Receptions /\ none = Nothing
      OBVIOUS
    <3> HIDE DEF none
    <3>3. received = [stored EXCEPT !.receive = none, !.last = done, !.cut = cut]
      BY <2>2, <3>2
    <3>4. received \in Kept
      <4>1. /\ none \in {Nothing} \cup Receptions /\ cut \in BOOLEAN
            /\ done \in [event : {"intent", "done"}, before : Text, content : Text]
        BY <1>7, <2>1, <3>2
      <4> QED BY <3>1, <3>3, <4>1, ZenonT(60) DEF Kept
    <3>5. received.receive = none /\ received.last = done /\ received.cut = cut
      BY <3>1, <3>3 DEF Kept
    <3> QED
      BY <3>1, <3>2, <3>3, <3>4, <3>5 DEF Kept
  <2>5. Good(received)
    BY <1>3, <1>5, <1>6, <1>7, <2>3, <2>4
       DEF Good, Records, N!Explained, Reception, Based, Followed, Pending, Numbered
  <2> QED BY <2>3, <2>4, <2>5 DEF Fields
<1> HIDE DEF received
<1>10. /\ received.file = row.content /\ received.at = row.rev /\ received.rev = row.rev
       /\ received.op = Nothing
  BY <1>5, <1>6, <1>9 DEF Fields
<1>11. Good(drafted)
  <2>1. /\ drafted \in Kept
        /\ drafted.draft = typed1 /\ drafted.cut = k.cut
        /\ drafted.receive = received.receive /\ drafted.last = received.last
        /\ drafted.file = received.file /\ drafted.at = received.at
        /\ drafted.rev = received.rev /\ drafted.base = received.base
        /\ drafted.op = received.op /\ drafted.ops = received.ops
        /\ drafted.intents = received.intents /\ drafted.gate = received.gate
        /\ drafted.hasty = received.hasty
    BY <1>1, <1>8, <1>9 DEF Good, Kept
  <2> HIDE DEF drafted
  <2> QED
    BY <1>3, <1>8, <1>9, <1>10, <2>1
       DEF Good, Records, N!Explained, Reception, Based, Followed, Pending, Numbered
<1>12. N!Finished(k) = <<file1, stored, received, drafted>>
  BY Zenon DEF N!Finished, row, file1, stored, done, received, typed1, drafted
<1> HIDE DEF drafted
<1>13. file1 \in Kept /\ stored \in Kept /\ received \in Kept /\ drafted \in Kept
  BY <1>4, <1>5, <1>9, <1>11 DEF Good
<1> QED BY <1>4, <1>5, <1>9, <1>11, <1>12, <1>13 DEF AllGood

\* A change of the operation's own records.
LEMMA OperationMoved ==
  ASSUME NEW k, Good(k), k.op # Nothing, NEW edit \in QueuedEdit, NothingIsNoRecord,
         edit.id = k.op.id, edit.text = k.op.text, edit.base = k.op.base, edit.at = k.op.at,
         WasSent(edit.id) => edit.attempted, edit.response => WasServed(edit.id),
         k.receive # Nothing => ~ edit.dispatched,
         NEW s, s = [k EXCEPT !.op = edit]
  PROVE  /\ Good(s) /\ s.op = edit /\ s.op # Nothing
         /\ \A f \in Fields \ {"op"} : s[f] = k[f]
<1>1. k \in Kept
  BY DEF Good
<1>2. /\ s \in Kept
      /\ s.op = edit
      /\ s.file = k.file /\ s.at = k.at /\ s.draft = k.draft /\ s.receive = k.receive
      /\ s.last = k.last /\ s.rev = k.rev /\ s.base = k.base /\ s.ops = k.ops
      /\ s.intents = k.intents /\ s.gate = k.gate /\ s.cut = k.cut /\ s.hasty = k.hasty
  BY <1>1 DEF Kept
<1>3. Records(s) /\ Reception(s)
  BY <1>2 DEF Good, Records, N!Explained, Reception
<1>4. Based(s) /\ Followed(s) /\ Numbered(s)
  BY <1>2 DEF Good, Based, Followed, Numbered
<1>5. Pending(s)
  BY <1>2 DEF Good, Pending
<1>6. s.op # Nothing
  BY <1>2 DEF NothingIsNoRecord
<1> QED BY <1>2, <1>3, <1>4, <1>5, <1>6 DEF Good, Fields

\* A receipt makes the operation's revision the base.
LEMMA CompletedGood ==
  ASSUME NEW k, Good(k), HistoryFits, NothingIsNoRecord,
         k.op # Nothing, k.receive = Nothing, WasServed(k.op.id)
  PROVE  AllGood(N!Completed(k)) /\ Len(N!Completed(k)) = 2
<1> DEFINE told == [k EXCEPT !.op.response = TRUE]
           edit == [k.op EXCEPT !.response = TRUE]
           base == k.op.base + 1
           completed == [told EXCEPT !.rev = k.op.base + 1, !.base = k.op.text, !.op = Nothing]
<1>1. k \in Kept /\ k.op \in QueuedEdit
  BY DEF Good, Kept
<1>2. /\ edit \in QueuedEdit
      /\ edit.id = k.op.id /\ edit.text = k.op.text /\ edit.base = k.op.base /\ edit.at = k.op.at
      /\ edit.attempted = k.op.attempted
  BY <1>1 DEF QueuedEdit
<1>3. told = [k EXCEPT !.op = edit]
  OBVIOUS
<1> HIDE DEF edit, told
<1>4. Good(told) /\ \A f \in Fields \ {"op"} : told[f] = k[f]
  BY <1>2, <1>3, OperationMoved DEF Good, Pending
<1>5. PICK i \in DOMAIN texts : texts[i].op = k.op.id
  BY DEF WasServed
<1>6. /\ base \in 1 .. Len(texts) /\ texts[base].text = k.op.text /\ texts[base].op # 0
      /\ base = k.rev + 1 /\ k.op.text \in Text /\ k.rev \in Nat /\ base \in Nat
  BY <1>1, <1>5 DEF Good, Pending, HistoryFits, Kept, QueuedEdit
<1>7. \A lo : lo \in Nat /\ Own(lo, k.rev) => Own(lo, base)
  BY <1>6 DEF Own
<1> HIDE DEF base
<1>8. Good(completed)
  <2> DEFINE text == k.op.text
             none == Nothing
  <2>1. text \in Text /\ texts[base].text = text /\ none \in {Nothing} \cup QueuedEdit /\ none = Nothing
    BY <1>6
  <2>2. completed = [told EXCEPT !.rev = base, !.base = text, !.op = none]
    BY Zenon DEF base
  <2> HIDE DEF text, none, completed
  <2>3. told \in Kept
    BY <1>4 DEF Good
  <2>4. completed \in Kept
    <3>1. base \in Nat /\ text \in Text /\ none \in {Nothing} \cup QueuedEdit
      BY <1>6, <2>1
    <3> QED BY <2>2, <2>3, <3>1 DEF Kept
  <2>5. /\ completed.rev = base /\ completed.base = text /\ completed.op = Nothing
        /\ completed.file = told.file /\ completed.at = told.at /\ completed.draft = told.draft
        /\ completed.receive = told.receive /\ completed.last = told.last
        /\ completed.ops = told.ops /\ completed.intents = told.intents
        /\ completed.gate = told.gate /\ completed.cut = told.cut
    BY <2>1, <2>2, <2>3 DEF Kept
  <2>6. /\ told.receive = Nothing /\ told.at = k.at /\ told.draft = k.draft /\ told.cut = k.cut
    BY <1>4 DEF Fields
  <2>7. Records(completed) /\ Numbered(completed) /\ Reception(completed) /\ Pending(completed)
    BY <1>4, <2>5, <2>6 DEF Good, Records, N!Explained, Numbered, Reception, Pending
  <2>8. Based(completed)
    BY <1>6, <2>1, <2>5 DEF Based
  <2>9. Followed(completed)
    BY <1>1, <1>7, <2>5, <2>6 DEF Kept, Good, Followed
  <2> QED BY <2>4, <2>7, <2>8, <2>9 DEF Good
<1>9. N!Completed(k) = <<told, completed>>
  BY Zenon DEF N!Completed, told, completed
<1> HIDE DEF completed
<1> QED BY <1>4, <1>8, <1>9, GoodPair

\* What a step leaves of the server and of what was sent.
Behind == UNCHANGED texts /\ past'.sent = past.sent

LEMMA GoodStays ==
  ASSUME NEW s, Good(s), kept' = s, Behind PROVE Good(kept)'
<1>1. /\ kept' \in Kept
      /\ Records(kept)' /\ Reception(kept)' /\ Based(kept)' /\ Numbered(kept)'
  BY DEF Good, Records, N!Explained, Reception, Based, Numbered, Behind
<1>2. \A lo, hi : Own(lo, hi) <=> Own(lo, hi)'
  BY DEF Own, Behind
<1>3. Followed(kept)'
  BY <1>2 DEF Good, Followed, Own, Behind
<1>4. Pending(kept)'
  BY DEF Good, Pending, WasSent, WasServed, Behind
<1> QED BY <1>1, <1>3, <1>4 DEF Good

LEMMA HistoryStays ==
  ASSUME HistoryFits, Behind,
         past' = [acts |-> past'.acts, surprises |-> past'.surprises, sent |-> past'.sent]
  PROVE  HistoryFits'
BY DEF HistoryFits, Behind, WasSent

LEMMA SentStays ==
  ASSUME Behind PROVE \A id : (WasSent(id) <=> WasSent(id)') /\ (WasServed(id) <=> WasServed(id)')
BY DEF WasSent, WasServed, Behind

\* Past moves on, nothing is sent.
LEMMA PastMoves ==
  ASSUME HistoryFits,
         \/ UNCHANGED past
         \/ past' = [past EXCEPT !.acts = @ + 1]
         \/ past' = [past EXCEPT !.surprises = @ + 1]
  PROVE  /\ past'.sent = past.sent
         /\ past' = [acts |-> past'.acts, surprises |-> past'.surprises, sent |-> past'.sent]
BY DEF HistoryFits

\* The operation on the wire is still there.
SameEdit(s, k) ==
  k.op # Nothing => /\ s.op # Nothing /\ s.op.id = k.op.id /\ s.op.text = k.op.text
                    /\ s.op.base = k.op.base /\ s.op.at = k.op.at

LEMMA WireStays ==
  ASSUME WireFits, UNCHANGED wire, Behind, wire # Nothing => SameEdit(kept', kept)
  PROVE  WireFits'
BY DEF WireFits, SameEdit, WasSent, WasServed, Behind

\* An action of the program that ends: what it wrote is good, and the wire keeps
\* the operation.
LEMMA StepsKeep ==
  ASSUME EditorInv, NEW steps, NEW next, AllGood(steps), Len(steps) >= 1, N!Steps(steps, next),
         UNCHANGED <<wire, texts>>,
         wire # Nothing => \A i \in DOMAIN steps : SameEdit(steps[i], kept)
  PROVE  /\ Good(kept)' /\ HistoryFits' /\ WireFits' /\ Behind /\ action' \in {next, "down"}
         /\ \E i \in DOMAIN steps : kept' = steps[i]
<1>1. HistoryFits /\ WireFits
  BY DEF EditorInv
<1>2. PICK i \in DOMAIN steps : kept' = steps[i] /\ Good(steps[i])
  BY <1>1, OneStep
<1>3. /\ Behind /\ action' \in {next, "down"}
      /\ past' = [acts |-> past'.acts, surprises |-> past'.surprises, sent |-> past'.sent]
  BY <1>1, OneStep DEF Behind
<1>4. Good(kept)'
  BY <1>2, <1>3, GoodStays
<1>5. HistoryFits'
  BY <1>1, <1>3, HistoryStays
<1>6. WireFits'
  BY <1>1, <1>2, <1>3, WireStays
<1> QED BY <1>2, <1>3, <1>4, <1>5, <1>6

LEMMA NothingUnderWay == ASSUME action' \in {"idle", "down"} PROVE ActionFits'
BY DEF ActionFits

\* One thing is written.
LEMMA OneKeeps ==
  ASSUME EditorInv, NEW s, Good(s), kept' = s, UNCHANGED <<wire, texts>>,
         wire # Nothing => SameEdit(s, kept),
         \/ UNCHANGED past
         \/ past' = [past EXCEPT !.acts = @ + 1]
         \/ past' = [past EXCEPT !.surprises = @ + 1]
  PROVE  Good(kept)' /\ HistoryFits' /\ WireFits' /\ Behind
<1>1. HistoryFits /\ WireFits
  BY DEF EditorInv
<1>2. /\ Behind
      /\ past' = [acts |-> past'.acts, surprises |-> past'.surprises, sent |-> past'.sent]
  BY <1>1, PastMoves DEF Behind
<1> QED BY <1>1, <1>2, GoodStays, HistoryStays, WireStays

LEMMA TypeKeeps ==
  ASSUME EditorInv, NEW text \in Text, N!Type(text) PROVE EditorInv'
<1> DEFINE typed1 == [text |-> text, rev |-> kept.rev]
           s == [kept EXCEPT !.draft = typed1]
<1>1. kept' = s /\ UNCHANGED <<wire, texts>> /\ past' = [past EXCEPT !.acts = @ + 1]
      /\ action' = "idle"
  BY DEF N!Type, N!Idle
<1>2. kept \in Kept /\ Good(kept)
  BY DEF EditorInv, Good
<1>3. typed1 \in [text : Text, rev : Nat] /\ typed1.rev = kept.rev /\ Own(kept.rev, kept.rev)
  BY <1>2 DEF Kept, Own
<1> HIDE DEF typed1
<1>4. /\ s \in Kept
      /\ s.draft = typed1
      /\ s.file = kept.file /\ s.at = kept.at /\ s.receive = kept.receive
      /\ s.last = kept.last /\ s.rev = kept.rev /\ s.base = kept.base /\ s.op = kept.op
      /\ s.ops = kept.ops /\ s.intents = kept.intents /\ s.gate = kept.gate
      /\ s.cut = kept.cut /\ s.hasty = kept.hasty
  BY <1>2, <1>3 DEF Kept
<1> HIDE DEF s
<1>5. Good(s)
  BY <1>2, <1>3, <1>4
     DEF Good, Records, N!Explained, Reception, Based, Followed, Pending, Numbered
<1> QED BY <1>1, <1>4, <1>5, OneKeeps, NothingUnderWay DEF EditorInv, SameEdit

LEMMA SaveKeeps == ASSUME EditorInv, N!Save PROVE EditorInv'
<1> DEFINE text == N!Draft(kept)
<1>1. /\ N!Steps(N!Saved(kept, text), "idle") /\ UNCHANGED <<wire, texts>>
      /\ kept.receive = Nothing
  BY DEF N!Save, N!Saveable
<1>2. kept \in Kept /\ Good(kept)
  BY DEF EditorInv, Good
<1>3. text \in Text /\ (kept.draft # Nothing => text = kept.draft.text)
  BY <1>2 DEF N!Draft, N!Expected, Kept
<1> HIDE DEF text
<1>4. /\ AllGood(N!Saved(kept, text)) /\ Len(N!Saved(kept, text)) = 3
      /\ \A i \in 1 .. 3 : N!Saved(kept, text)[i].op = kept.op
  BY <1>1, <1>2, <1>3, SavedGood
<1> DEFINE steps == N!Saved(kept, text)
<1> HIDE DEF steps
<1>5. AllGood(steps) /\ Len(steps) >= 1 /\ \A i \in DOMAIN steps : SameEdit(steps[i], kept)
  BY <1>4 DEF steps, AllGood, SameEdit
<1>6. N!Steps(steps, "idle")
  BY <1>1 DEF steps
<1> QED BY <1>1, <1>5, <1>6, StepsKeep, NothingUnderWay DEF EditorInv

LEMMA NoOperationNoWire == ASSUME EditorInv, kept.op = Nothing PROVE wire = Nothing
BY DEF EditorInv, WireFits

LEMMA EnqueueKeeps == ASSUME EditorInv, N!Enqueue PROVE EditorInv'
<1>1. /\ N!Steps(N!Queued(kept), "idle") /\ UNCHANGED <<wire, texts>> /\ kept.op = Nothing
  BY DEF N!Enqueue, N!Queueable
<1>2. AllGood(N!Queued(kept)) /\ Len(N!Queued(kept)) = 6
  BY <1>1, QueuedGood DEF EditorInv
<1>3. wire = Nothing
  BY <1>1, NoOperationNoWire
<1> DEFINE steps == N!Queued(kept)
<1>4. AllGood(steps) /\ Len(steps) >= 1 /\ N!Steps(steps, "idle")
  BY <1>1, <1>2
<1> HIDE DEF steps
<1> QED BY <1>1, <1>3, <1>4, StepsKeep, NothingUnderWay DEF EditorInv

\* The program moves on, ends or waits; nothing is written.
LEMMA NothingWritten ==
  ASSUME EditorInv, UNCHANGED <<kept, wire, texts>>,
         UNCHANGED past \/ past' = [past EXCEPT !.surprises = @ + 1]
  PROVE  Good(kept)' /\ HistoryFits' /\ WireFits' /\ Behind
BY OneKeeps DEF EditorInv, SameEdit

LEMMA EndsKeep ==
  ASSUME EditorInv, N!Start \/ N!Refuse \/ N!EndAction \/ N!Stop PROVE EditorInv'
BY NothingWritten, NothingUnderWay DEF N!Start, N!Refuse, N!EndAction, N!Stop, EditorInv

LEMMA BeginningsKeep ==
  ASSUME EditorInv, N!StartSend \/ N!StartRecover \/ N!StartReceive PROVE EditorInv'
<1>1. UNCHANGED <<kept, wire, texts, past>>
  BY DEF N!StartSend, N!StartRecover, N!StartReceive
<1>2. ActionFits'
  <2>1. CASE N!StartSend
    BY <1>1, <2>1 DEF N!StartSend, N!Sendable, N!NoWriteAttempt, ActionFits, EditorInv, Good,
       Pending, WasSent
  <2>2. CASE N!StartRecover
    BY <1>1, <2>2 DEF N!StartRecover, ActionFits, EditorInv, Good, Reception
  <2>3. CASE N!StartReceive
    BY <1>1, <2>3 DEF N!StartReceive, ActionFits, N!Receivable, N!Draft, N!Expected
  <2> QED BY <2>1, <2>2, <2>3
<1> QED BY <1>1, <1>2, NothingWritten DEF EditorInv

LEMMA RecoverLocalKeeps == ASSUME EditorInv, N!RecoverLocal PROVE EditorInv'
<1> DEFINE k == N!Restored(kept)
           shut == [kept EXCEPT !.gate.open = FALSE]
           gates == IF kept.gate.record = "none" THEN <<>> ELSE <<shut, k>>
           rest == IF k.receive # Nothing
                     THEN IF N!Finishable(k) THEN N!Finished(k) ELSE <<>>
                   ELSE IF N!Queueable(k) THEN N!Queued(k) ELSE <<>>
<1>1. gates \o rest # <<>> /\ N!Steps(gates \o rest, "idle") /\ UNCHANGED <<wire, texts>>
  BY Zenon DEF N!RecoverLocal
<1>2. Good(kept) /\ kept.gate \in Gates /\ HistoryFits
  BY DEF EditorInv, Good, Kept, Gates
<1>3. Good(k) /\ k.op = kept.op
  <2> DEFINE gate == [open |-> FALSE, record |-> "none"]
  <2>1. gate \in Gates /\ ~ gate.open
    BY DEF Gates
  <2>2. k = [kept EXCEPT !.gate = gate]
    BY DEF N!Restored
  <2> HIDE DEF gate, k
  <2>3. Good(k) /\ \A f \in Fields \ {"gate"} : k[f] = kept[f]
    BY <1>2, <2>1, <2>2, GateMoved
  <2> QED BY <2>3 DEF Fields
<1>4. Good(shut) /\ shut.op = kept.op
  <2> DEFINE gate == [kept.gate EXCEPT !.open = FALSE]
  <2>1. gate \in Gates /\ ~ gate.open
    BY <1>2 DEF Gates
  <2>2. shut = [kept EXCEPT !.gate = gate]
    OBVIOUS
  <2> HIDE DEF gate, shut
  <2>3. Good(shut) /\ \A f \in Fields \ {"gate"} : shut[f] = kept[f]
    BY <1>2, <2>1, <2>2, GateMoved
  <2> QED BY <2>3 DEF Fields
<1> HIDE DEF k, shut
<1>5. /\ AllGood(gates) /\ \A i \in DOMAIN gates : gates[i].op = kept.op
  <2>1. CASE kept.gate.record = "none"
    <3>1. gates = <<>>
      BY <2>1
    <3> HIDE DEF gates
    <3> QED BY <3>1 DEF AllGood
  <2>2. CASE kept.gate.record # "none"
    <3>1. gates = <<shut, k>>
      BY <2>2
    <3>2. AllGood(<<shut, k>>) /\ Len(<<shut, k>>) = 2
      BY <1>3, <1>4, GoodPair
    <3>3. \A i \in 1 .. 2 : <<shut, k>>[i].op = kept.op
      BY <1>3, <1>4
    <3> HIDE DEF gates
    <3> QED BY <3>1, <3>2, <3>3 DEF AllGood
  <2> QED BY <2>1, <2>2
<1>6. AllGood(rest) /\ (rest # <<>> => kept.op = Nothing)
  <2>1. CASE k.receive # Nothing /\ N!Finishable(k)
    <3>1. rest = N!Finished(k) /\ k.op = Nothing
      BY <2>1 DEF N!Finishable
    <3> HIDE DEF rest
    <3> QED BY <1>3, <2>1, <3>1, FinishedGood
  <2>2. CASE k.receive = Nothing /\ N!Queueable(k)
    <3>1. rest = N!Queued(k) /\ k.op = Nothing
      BY <2>2 DEF N!Queueable
    <3> HIDE DEF rest
    <3> QED BY <1>2, <1>3, <2>2, <3>1, QueuedGood
  <2>3. CASE rest = <<>>
    <3> HIDE DEF rest
    <3> QED BY <2>3 DEF AllGood
  <2> QED BY <2>1, <2>2, <2>3, Zenon
<1> HIDE DEF gates, rest
<1>7. AllGood(gates \o rest) /\ Len(gates \o rest) = Len(gates) + Len(rest)
  BY <1>5, <1>6, GoodJoined
<1>8. Len(gates \o rest) >= 1
  BY <1>1, <1>7 DEF AllGood
<1>9. wire # Nothing => \A i \in DOMAIN (gates \o rest) : SameEdit((gates \o rest)[i], kept)
  BY <1>5, <1>6, NoOperationNoWire DEF SameEdit, AllGood
<1> DEFINE steps == gates \o rest
<1>10. /\ AllGood(steps) /\ Len(steps) >= 1 /\ N!Steps(steps, "idle")
       /\ wire # Nothing => \A i \in DOMAIN steps : SameEdit(steps[i], kept)
  BY <1>1, <1>7, <1>8, <1>9
<1> HIDE DEF steps
<1> QED BY <1>1, <1>10, StepsKeep, NothingUnderWay DEF EditorInv

\* What the network action may write into the operation's own record.
LEMMA FindConflictKeeps ==
  ASSUME EditorInv, N!FindConflict, NothingIsNoRecord PROVE EditorInv'
<1> DEFINE edit == [kept.op EXCEPT !.conflict = TRUE]
<1>1. /\ kept' = [kept EXCEPT !.op = edit] /\ UNCHANGED <<wire, texts, past>>
      /\ action' = "idle" /\ kept.op # Nothing /\ kept.receive = Nothing
  BY DEF N!FindConflict, EditorInv, ActionFits
<1>2. Good(kept) /\ kept.op \in QueuedEdit
  BY <1>1 DEF EditorInv, Good, Kept
<1>3. /\ edit \in QueuedEdit
      /\ edit.id = kept.op.id /\ edit.text = kept.op.text
      /\ edit.base = kept.op.base /\ edit.at = kept.op.at
      /\ edit.attempted = kept.op.attempted /\ edit.response = kept.op.response
  BY <1>2 DEF QueuedEdit
<1> HIDE DEF edit
<1>4. (WasSent(edit.id) => edit.attempted) /\ (edit.response => WasServed(edit.id))
  BY <1>1, <1>2, <1>3 DEF Good, Pending
<1> DEFINE s == [kept EXCEPT !.op = edit]
<1> HIDE DEF s
<1>5. Good(s) /\ s.op = edit /\ s.op # Nothing
  BY <1>1, <1>2, <1>3, <1>4, OperationMoved DEF s
<1>6. kept' = s /\ SameEdit(s, kept)
  BY <1>1, <1>3, <1>5 DEF SameEdit, s
<1> QED BY <1>1, <1>5, <1>6, OneKeeps, NothingUnderWay DEF EditorInv

LEMMA RetryKeeps ==
  ASSUME EditorInv, N!Retry, NothingIsNoRecord PROVE EditorInv'
<1> DEFINE edit == [kept.op EXCEPT !.status = "retry_wait"]
<1>1. /\ kept' = [kept EXCEPT !.op = edit] /\ UNCHANGED <<wire, texts, past>>
      /\ action' = "idle" /\ kept.op # Nothing /\ kept.receive = Nothing
  BY DEF N!Retry, EditorInv, ActionFits
<1>2. Good(kept) /\ kept.op \in QueuedEdit
  BY <1>1 DEF EditorInv, Good, Kept
<1>3. /\ edit \in QueuedEdit
      /\ edit.id = kept.op.id /\ edit.text = kept.op.text
      /\ edit.base = kept.op.base /\ edit.at = kept.op.at
      /\ edit.attempted = kept.op.attempted /\ edit.response = kept.op.response
  BY <1>2 DEF QueuedEdit
<1> HIDE DEF edit
<1>4. (WasSent(edit.id) => edit.attempted) /\ (edit.response => WasServed(edit.id))
  BY <1>1, <1>2, <1>3 DEF Good, Pending
<1> DEFINE s == [kept EXCEPT !.op = edit]
<1> HIDE DEF s
<1>5. Good(s) /\ s.op = edit /\ s.op # Nothing
  BY <1>1, <1>2, <1>3, <1>4, OperationMoved DEF s
<1>6. kept' = s /\ SameEdit(s, kept)
  BY <1>1, <1>3, <1>5 DEF SameEdit, s
<1> QED BY <1>1, <1>5, <1>6, OneKeeps, NothingUnderWay DEF EditorInv

LEMMA AttemptKeeps ==
  ASSUME EditorInv, N!Attempt, NothingIsNoRecord PROVE EditorInv'
<1> DEFINE edit == [kept.op EXCEPT !.attempted = TRUE]
<1>1. /\ kept' = [kept EXCEPT !.op = edit] /\ UNCHANGED <<wire, texts, past>>
      /\ action' = "attempted" /\ kept.op # Nothing /\ kept.receive = Nothing
      /\ ~ WasSent(kept.op.id)
  BY DEF N!Attempt, EditorInv, ActionFits
<1>2. Good(kept) /\ kept.op \in QueuedEdit
  BY <1>1 DEF EditorInv, Good, Kept
<1>3. /\ edit \in QueuedEdit
      /\ edit.id = kept.op.id /\ edit.text = kept.op.text
      /\ edit.base = kept.op.base /\ edit.at = kept.op.at
      /\ edit.attempted /\ edit.response = kept.op.response
  BY <1>2 DEF QueuedEdit
<1> HIDE DEF edit
<1>4. (WasSent(edit.id) => edit.attempted) /\ (edit.response => WasServed(edit.id))
  BY <1>1, <1>2, <1>3 DEF Good, Pending
<1> DEFINE s == [kept EXCEPT !.op = edit]
<1> HIDE DEF s
<1>5. Good(s) /\ s.op = edit /\ s.op # Nothing /\ s.receive = kept.receive
  BY <1>1, <1>2, <1>3, <1>4, OperationMoved DEF s, Fields
<1>6. kept' = s /\ SameEdit(s, kept)
  BY <1>1, <1>3, <1>5 DEF SameEdit, s
<1>7. Good(kept)' /\ HistoryFits' /\ WireFits' /\ Behind
  BY <1>1, <1>5, <1>6, OneKeeps
<1>8. (~ WasSent(kept.op.id))'
  BY <1>1, <1>3, <1>5, <1>6, <1>7 DEF WasSent, Behind
<1>9. ActionFits'
  BY <1>1, <1>3, <1>5, <1>6, <1>8 DEF ActionFits
<1> QED BY <1>7, <1>9 DEF EditorInv

LEMMA EditDispatchKeeps ==
  ASSUME EditorInv, N!Dispatch, NothingIsNoRecord PROVE EditorInv'
<1> DEFINE edit == [kept.op EXCEPT !.dispatched = TRUE]
           recorded == [kept EXCEPT !.op.dispatched = TRUE]
           leaving == [edit EXCEPT !.status = "inflight"]
           sending == [recorded EXCEPT !.op.status = "inflight"]
           steps == <<recorded, sending>>
<1>1. /\ N!Steps(steps, "dispatched") /\ UNCHANGED <<wire, texts>>
      /\ kept.op # Nothing /\ kept.receive = Nothing
      /\ ~ WasSent(kept.op.id) /\ ~ kept.op.attempted
  BY DEF N!Dispatch, EditorInv, ActionFits
<1>2. Good(kept) /\ kept.op \in QueuedEdit
  BY <1>1 DEF EditorInv, Good, Kept
<1>3. /\ edit \in QueuedEdit
      /\ edit.id = kept.op.id /\ edit.text = kept.op.text
      /\ edit.base = kept.op.base /\ edit.at = kept.op.at
      /\ ~ edit.attempted /\ edit.response = kept.op.response
  BY <1>1, <1>2 DEF QueuedEdit
<1>4. recorded = [kept EXCEPT !.op = edit]
  OBVIOUS
<1> HIDE DEF edit, recorded
<1>5. (edit.response => WasServed(edit.id)) /\ ~ WasSent(edit.id)
  BY <1>1, <1>2, <1>3 DEF Good, Pending
<1>6. Good(recorded) /\ recorded.op = edit /\ recorded.op # Nothing /\ recorded.receive = Nothing
  BY <1>1, <1>2, <1>3, <1>4, <1>5, OperationMoved DEF Fields
<1>7. /\ leaving \in QueuedEdit
      /\ leaving.id = edit.id /\ leaving.text = edit.text
      /\ leaving.base = edit.base /\ leaving.at = edit.at
      /\ leaving.attempted = edit.attempted /\ leaving.response = edit.response
  BY <1>3 DEF QueuedEdit
<1>8. sending = [recorded EXCEPT !.op = leaving]
  BY <1>6
<1> HIDE DEF leaving, sending
<1>9. Good(sending) /\ sending.op = leaving /\ sending.op # Nothing /\ sending.receive = Nothing
  BY <1>3, <1>5, <1>6, <1>7, <1>8, OperationMoved DEF Fields
<1>10. AllGood(steps) /\ Len(steps) = 2
  BY <1>6, <1>9, GoodPair
<1>11. \A i \in 1 .. 2 :
         /\ steps[i].op # Nothing /\ steps[i].receive = Nothing
         /\ steps[i].op.id = kept.op.id /\ ~ steps[i].op.attempted
         /\ SameEdit(steps[i], kept)
  <2> TAKE i \in 1 .. 2
  <2>1. steps[i] = recorded \/ steps[i] = sending
    OBVIOUS
  <2> HIDE DEF steps
  <2> QED BY <1>3, <1>6, <1>7, <1>9, <2>1 DEF SameEdit
<1> HIDE DEF steps
<1>12. /\ Good(kept)' /\ HistoryFits' /\ WireFits' /\ Behind
       /\ action' \in {"dispatched", "down"}
       /\ \E i \in DOMAIN steps : kept' = steps[i]
  <2>1. Len(steps) >= 1 /\ DOMAIN steps = 1 .. 2
    BY <1>10 DEF AllGood
  <2> QED BY <1>1, <1>10, <1>11, <2>1, StepsKeep
<1>13. PICK i \in 1 .. 2 : kept' = steps[i]
  BY <1>10, <1>12 DEF AllGood
<1>14. (~ WasSent(kept.op.id))'
  BY <1>1, <1>11, <1>12, <1>13 DEF WasSent, Behind
<1>15. ActionFits'
  BY <1>11, <1>12, <1>13, <1>14 DEF ActionFits
<1> QED BY <1>12, <1>15 DEF EditorInv

LEMMA SameAsHere ==
  ASSUME NEW k, NEW steps, k.op = Nothing PROVE \A i \in DOMAIN steps : SameEdit(steps[i], k)
BY DEF SameEdit

\* What was served is no longer on the wire.
LEMMA ServedNoWire == ASSUME EditorInv, WasServed(kept.op.id) PROVE wire = Nothing
BY DEF EditorInv, WireFits

LEMMA ReceiptsKeep ==
  ASSUME EditorInv, N!Complete \/ N!FetchReceipt, NothingIsNoRecord PROVE EditorInv'
<1>1. kept.op # Nothing /\ kept.receive = Nothing /\ UNCHANGED <<wire, texts>>
  BY DEF N!Complete, N!FetchReceipt, EditorInv, ActionFits
<1>2. Good(kept) /\ HistoryFits
  BY DEF EditorInv
<1>3. ASSUME N!Steps(N!Completed(kept), "idle"), WasServed(kept.op.id) PROVE EditorInv'
  <2> DEFINE steps == N!Completed(kept)
  <2>1. AllGood(steps) /\ Len(steps) >= 1 /\ N!Steps(steps, "idle")
    <3>1. AllGood(N!Completed(kept)) /\ Len(N!Completed(kept)) = 2
      BY <1>1, <1>2, <1>3, CompletedGood
    <3> QED BY <1>3, <3>1
  <2> HIDE DEF steps
  <2>2. wire = Nothing
    BY <1>3, ServedNoWire
  <2> QED BY <1>1, <2>1, <2>2, StepsKeep, NothingUnderWay DEF EditorInv
<1>4. CASE N!Complete
  BY <1>3, <1>4 DEF N!Complete, EditorInv, ActionFits
<1>5. CASE N!FetchReceipt
  <2>1. kept.op.response => WasServed(kept.op.id)
    BY <1>1, <1>2 DEF Good, Pending
  <2>2. CASE kept.op.response \/ \E i \in DOMAIN texts : texts[i].op = kept.op.id
    BY <1>3, <1>5, <2>1, <2>2 DEF N!FetchReceipt, WasServed
  <2>3. CASE ~ (kept.op.response \/ \E i \in DOMAIN texts : texts[i].op = kept.op.id)
    BY <1>1, <1>5, <2>3, NothingWritten, NothingUnderWay DEF N!FetchReceipt, EditorInv
  <2> QED BY <2>2, <2>3
<1> QED BY <1>4, <1>5

LEMMA ReceiveKeeps == ASSUME EditorInv, N!Receive, NothingIsNoRecord PROVE EditorInv'
<1>1. /\ Good(kept) /\ kept \in Kept /\ HistoryFits
      /\ kept.receive = Nothing /\ kept.op = Nothing /\ kept.file = kept.base
      /\ UNCHANGED <<wire, texts>>
  BY DEF N!Receive, EditorInv, ActionFits, N!Receivable, Good
<1>2. CASE Len(texts) = kept.rev
  BY <1>1, <1>2, NothingWritten, NothingUnderWay DEF N!Receive, EditorInv
<1>3. CASE Len(texts) # kept.rev
  <2> DEFINE text == texts[Len(texts)].text
             row == [before |-> kept.base, content |-> text, rev |-> Len(texts)]
             intent == [event |-> "intent", before |-> kept.base, content |-> text]
             announced == [kept EXCEPT !.receive = row, !.last = intent]
  <2>1. \/ N!Steps(<<announced>> \o N!Finished(announced), "idle")
        \/ /\ kept' = announced /\ action' = "idle"
           /\ past' = [past EXCEPT !.surprises = @ + 1]
    BY <1>3, Zenon DEF N!Receive
  <2>2. /\ kept.rev \in 1 .. Len(texts) /\ Len(texts) \in Nat /\ Len(texts) \in DOMAIN texts
        /\ text \in Text
    <3>1. kept.rev \in 1 .. Len(texts)
      BY <1>1 DEF Good, Based
    <3>2. Len(texts) \in Nat /\ DOMAIN texts = 1 .. Len(texts) /\ texts \in Seq(Revisions)
      BY <1>1 DEF HistoryFits
    <3>3. Len(texts) \in DOMAIN texts
      BY <3>1, <3>2
    <3>4. texts[Len(texts)] \in Revisions
      BY <3>2, <3>3
    <3> QED BY <3>1, <3>2, <3>3, <3>4 DEF Revisions
  <2>3. /\ texts[Len(texts)].text = text
        /\ kept.base \in Text
    BY <1>1 DEF Kept
  <2> HIDE DEF text
  <2>4. /\ row \in Receptions /\ row.content = text /\ row.rev = Len(texts)
        /\ intent \in [event : {"intent", "done"}, before : Text, content : Text]
        /\ intent.event = "intent" /\ intent.before = kept.base /\ intent.content = text
    BY <2>2, <2>3 DEF Receptions
  <2>5. row # Nothing
    BY <2>4 DEF NothingIsNoRecord
  <2> HIDE DEF row, intent
  <2>6. /\ announced \in Kept
        /\ announced.receive = row /\ announced.last = intent
        /\ announced.file = kept.file /\ announced.at = kept.at /\ announced.draft = kept.draft
        /\ announced.rev = kept.rev /\ announced.base = kept.base /\ announced.op = kept.op
        /\ announced.ops = kept.ops /\ announced.intents = kept.intents
        /\ announced.gate = kept.gate /\ announced.cut = kept.cut
    BY <1>1, <2>4 DEF Kept
  <2> HIDE DEF announced
  <2>7. Good(announced)
    <3>1. Records(announced)
      BY <1>1, <2>4, <2>6 DEF Good, Records, N!Explained
    <3>2. Reception(announced)
      BY <1>1, <2>2, <2>3, <2>4, <2>6 DEF Reception
    <3>3. Based(announced) /\ Followed(announced) /\ Pending(announced) /\ Numbered(announced)
      BY <1>1, <2>5, <2>6 DEF Good, Based, Followed, Pending, Numbered
    <3> QED BY <2>6, <3>1, <3>2, <3>3 DEF Good
  <2>8. wire = Nothing
    BY <1>1, NoOperationNoWire
  <2>9. CASE N!Steps(<<announced>> \o N!Finished(announced), "idle")
    <3> DEFINE one == <<announced>>
               more == N!Finished(announced)
    <3>1. AllGood(more) /\ Len(more) = 4
      BY <1>1, <2>5, <2>6, <2>7, FinishedGood
    <3>2. AllGood(one) /\ Len(one) = 1
      BY <2>6, <2>7 DEF AllGood
    <3> HIDE DEF one, more
    <3>3. AllGood(one \o more) /\ Len(one \o more) = 5
      <4>1. AllGood(one \o more) /\ Len(one \o more) = Len(one) + Len(more)
        BY <3>1, <3>2, GoodJoined, Zenon
      <4> QED BY <3>1, <3>2, <4>1
    <3> DEFINE steps == one \o more
    <3>4. N!Steps(steps, "idle")
      BY <2>9 DEF one, more
    <3>5. AllGood(steps) /\ Len(steps) >= 1
      BY <3>3
    <3> HIDE DEF steps
    <3> QED BY <1>1, <2>8, <3>4, <3>5, StepsKeep, NothingUnderWay DEF EditorInv
  <2>10. CASE kept' = announced /\ action' = "idle" /\ past' = [past EXCEPT !.surprises = @ + 1]
    BY <1>1, <2>7, <2>8, <2>10, OneKeeps, NothingUnderWay DEF EditorInv
  <2> QED BY <2>1, <2>9, <2>10
<1> QED BY <1>2, <1>3

\* The commit leaves: its number was never sent.
LEMMA PostKeeps == ASSUME EditorInv, N!Post PROVE EditorInv'
<1> DEFINE id == kept.op.id
<1>1. /\ wire' = kept.op /\ UNCHANGED <<kept, texts>> /\ action' = "wire"
      /\ past' = [past EXCEPT !.sent = Append(past.sent, id)]
      /\ kept.op # Nothing /\ kept.receive = Nothing /\ ~ WasSent(id) /\ kept.op.attempted
  BY DEF N!Post, EditorInv, ActionFits
<1>2. Good(kept) /\ HistoryFits /\ past.sent \in Seq(Nat)
  BY DEF EditorInv, HistoryFits
<1>3. id \in Nat /\ id # 0 /\ id = kept.ops
  BY <1>1, <1>2 DEF Good, Pending, Kept, QueuedEdit
<1> HIDE DEF id
<1>4. /\ past'.sent = Append(past.sent, id)
      /\ past' = [acts |-> past'.acts, surprises |-> past'.surprises, sent |-> past'.sent]
  BY <1>1, <1>2 DEF HistoryFits
<1>5. /\ past'.sent \in Seq(Nat) /\ Len(past'.sent) = Len(past.sent) + 1
      /\ DOMAIN past'.sent = 1 .. Len(past.sent) + 1 /\ DOMAIN past.sent = 1 .. Len(past.sent)
      /\ past'.sent[Len(past.sent) + 1] = id
      /\ \A i \in 1 .. Len(past.sent) : past'.sent[i] = past.sent[i]
      /\ Len(past.sent) \in Nat
  BY <1>2, <1>3, <1>4
<1>6. \A n : (\E i \in DOMAIN past'.sent : past'.sent[i] = n) <=> WasSent(n) \/ n = id
  <2> TAKE n
  <2>1. WasSent(n) => \E i \in DOMAIN past'.sent : past'.sent[i] = n
    BY <1>5 DEF WasSent
  <2>2. \A i \in DOMAIN past'.sent : i \in DOMAIN past.sent \/ i = Len(past.sent) + 1
    BY <1>5
  <2>3. (\E i \in DOMAIN past'.sent : past'.sent[i] = n) => WasSent(n) \/ n = id
    BY <1>5, <2>2 DEF WasSent
  <2>4. n = id => \E i \in DOMAIN past'.sent : past'.sent[i] = n
    <3>1. Len(past.sent) + 1 \in DOMAIN past'.sent
      BY <1>5
    <3> QED BY <1>5, <3>1, Zenon
  <2> QED BY <2>1, <2>3, <2>4, Zenon
<1>7. ~ WasServed(id)
  BY <1>1, <1>2, <1>3 DEF HistoryFits, WasServed
<1>8. Good(kept)'
  <2>1. Records(kept)' /\ Reception(kept)' /\ Based(kept)' /\ (kept \in Kept)'
    BY <1>1, <1>2 DEF Good, Records, N!Explained, Reception, Based
  <2>2. Followed(kept)'
    BY <1>1, <1>2 DEF Good, Followed, Own
  <2>3. Pending(kept)'
    BY <1>1, <1>2 DEF Good, Pending, WasServed
  <2>4. Numbered(kept)'
    <3> SUFFICES ASSUME NEW i \in DOMAIN past'.sent PROVE past'.sent[i] \in 1 .. kept'.ops
      BY DEF Numbered
    <3>1. CASE i \in DOMAIN past.sent
      BY <1>1, <1>2, <1>5, <3>1 DEF Good, Numbered
    <3>2. CASE i = Len(past.sent) + 1
      BY <1>1, <1>3, <1>5, <3>2
    <3> QED BY <1>5, <3>1, <3>2
  <2> QED BY <2>1, <2>2, <2>3, <2>4 DEF Good
<1>9. HistoryFits'
  <2>1. \A i \in DOMAIN texts' : texts'[i].op # 0 => WasSent(texts[i].op)'
    BY <1>1, <1>2, <1>6 DEF HistoryFits, WasSent
  <2>2. \A i, j \in DOMAIN past'.sent : past'.sent[i] = past'.sent[j] => i = j
    BY <1>1, <1>2, <1>5 DEF HistoryFits, WasSent
  <2> QED BY <1>1, <1>2, <1>4, <1>5, <2>1, <2>2 DEF HistoryFits
<1>10. WasSent(kept.op.id)' /\ (~ WasServed(kept.op.id))'
  BY <1>1, <1>6, <1>7 DEF WasSent, WasServed, id
<1>11. WireFits'
  BY <1>1, <1>10 DEF WireFits
<1>12. ActionFits'
  BY <1>1, <1>10 DEF ActionFits
<1> QED BY <1>8, <1>9, <1>11, <1>12 DEF EditorInv

\* A revision more: another device's, or the operation's own.
LEMMA TextsGrow ==
  ASSUME Good(kept), HistoryFits, NEW x \in Revisions, texts' = Append(texts, x),
         kept' = kept, past'.sent = past.sent,
         past' = [acts |-> past'.acts, surprises |-> past'.surprises, sent |-> past'.sent],
         \/ x.op = 0
         \/ /\ kept.op # Nothing /\ x.op = kept.op.id /\ x.text = kept.op.text
            /\ x.at = kept.op.at /\ Len(texts) = kept.op.base
            /\ WasSent(x.op) /\ ~ WasServed(x.op)
  PROVE  /\ Good(kept)' /\ HistoryFits'
         /\ \A id : WasSent(id)' <=> WasSent(id)
         /\ \A id : (\E i \in DOMAIN texts' : texts'[i].op = id) <=> WasServed(id) \/ id = x.op
<1> DEFINE n == Len(texts)
<1>1. /\ texts' \in Seq(Revisions) /\ n \in Nat /\ Len(texts') = n + 1
      /\ DOMAIN texts = 1 .. n /\ DOMAIN texts' = 1 .. n + 1
      /\ texts'[n + 1] = x /\ \A i \in 1 .. n : texts'[i] = texts[i]
  BY DEF HistoryFits
<1> HIDE DEF n
<1>2. /\ kept.rev \in 1 .. n /\ texts[kept.rev].text = kept.base /\ kept \in Kept
      /\ Len(texts) = n
  BY DEF Good, Based, n
<1>3. \A lo : lo \in Nat => \A hi \in 0 .. n : Own(lo, hi) => Own(lo, hi)'
  BY <1>1 DEF Own
<1>4. \A i \in DOMAIN texts : texts[i].at \in Nat
  <2> TAKE i \in DOMAIN texts
  <2>1. texts[i] \in Revisions
    BY DEF HistoryFits
  <2> QED BY <2>1 DEF Revisions
<1>5. \A id : (\E i \in DOMAIN texts' : texts'[i].op = id) <=> WasServed(id) \/ id = x.op
  <2> TAKE id
  <2>1. WasServed(id) => \E i \in DOMAIN texts' : texts'[i].op = id
    BY <1>1 DEF WasServed
  <2>2. id = x.op => \E i \in DOMAIN texts' : texts'[i].op = id
    BY <1>1
  <2>3. (\E i \in DOMAIN texts' : texts'[i].op = id) => WasServed(id) \/ id = x.op
    BY <1>1 DEF WasServed
  <2> QED BY <2>1, <2>2, <2>3
<1>6. \A id : WasSent(id)' <=> WasSent(id)
  BY DEF WasSent
<1>7. Records(kept)' /\ Numbered(kept)' /\ (kept \in Kept)'
  BY DEF Good, Records, N!Explained, Numbered
<1>8. Based(kept)'
  BY <1>1, <1>2 DEF Based
<1>9. Reception(kept)'
  <2>1. CASE kept.receive = Nothing
    BY <2>1 DEF Reception
  <2>2. CASE kept.receive # Nothing
    BY <1>1, <1>2, <2>2 DEF Good, Reception
  <2> QED BY <2>1, <2>2
<1>10. kept.op # Nothing =>
         kept.op.base = kept.rev /\ kept.op.at \in Nat /\ kept.op.id \in Nat /\ kept.op.id # 0
  BY <1>2 DEF Good, Pending, Kept, QueuedEdit
<1>11. Pending(kept)'
  <2> SUFFICES ASSUME kept.op # Nothing PROVE Pending(kept)'
    BY DEF Pending
  <2>1. ASSUME NEW i \in DOMAIN texts', texts'[i].op = kept.op.id
        PROVE  i = kept.op.base + 1 /\ texts'[i].text = kept.op.text
    BY <1>1, <1>2, <1>10, <2>1 DEF Good, Pending
  <2>2. (WasSent(kept.op.id) => kept.op.attempted) /\ (kept.op.response => WasServed(kept.op.id))
        /\ kept.op.base = kept.rev /\ kept.op.id = kept.ops /\ kept.op.id # 0
    BY DEF Good, Pending
  <2>3. WasSent(kept.op.id)' => WasSent(kept.op.id)
    BY DEF WasSent
  <2>4. kept.op.response => \E i \in DOMAIN texts' : texts'[i].op = kept.op.id
    BY <1>5, <2>2
  <2> QED BY <2>1, <2>2, <2>3, <2>4 DEF Pending, WasServed
<1>12. Followed(kept)'
  <2> SUFFICES ASSUME ~ kept.cut PROVE Followed(kept)'
    BY DEF Followed
  <2>1. /\ \A i \in DOMAIN texts : texts[i].op # 0 => Own(texts[i].at, i - 1)
        /\ Own(kept.at, kept.rev)
        /\ kept.draft # Nothing /\ kept.receive = Nothing => Own(kept.draft.rev, kept.rev)
        /\ kept.op # Nothing => Own(kept.op.at, kept.op.base)
    BY DEF Good, Followed
  <2>2. kept.at \in Nat /\ (kept.draft # Nothing => kept.draft.rev \in Nat) /\ kept.rev \in 0 .. n
    BY <1>1, <1>2 DEF Kept
  <2>3. Own(kept.at, kept.rev)'
    BY <1>1, <2>1, <2>2 DEF Own
  <2>4. kept.draft # Nothing /\ kept.receive = Nothing => Own(kept.draft.rev, kept.rev)'
    BY <1>1, <2>1, <2>2 DEF Own
  <2>5. kept.op # Nothing => Own(kept.op.at, kept.op.base)'
    BY <1>1, <1>10, <2>1, <2>2 DEF Own
  <2>6. ASSUME NEW i \in DOMAIN texts', texts'[i].op # 0
        PROVE  \A j \in texts'[i].at + 1 .. i - 1 : texts'[j].op # 0
    <3>1. CASE i \in 1 .. n
      BY <1>1, <1>4, <2>1, <2>6, <3>1 DEF Own
    <3>2. CASE i = n + 1
      <4>1. kept.op # Nothing /\ x.at = kept.op.at /\ n = kept.op.base
        BY <1>1, <1>2, <2>6, <3>2
      <4>2. \A j \in kept.op.at + 1 .. kept.op.base : texts[j].op # 0
        BY <2>1, <4>1 DEF Own
      <4>3. i - 1 = n /\ texts'[i].at = kept.op.at
        BY <1>1, <3>2, <4>1
      <4>4. \A j \in kept.op.at + 1 .. n : texts'[j] = texts[j]
        BY <1>1, <1>10, <4>1
      <4>5. \A j \in kept.op.at + 1 .. n : texts'[j].op # 0
        BY <4>1, <4>2, <4>4
      <4> QED BY <4>3, <4>5, Zenon
    <3>3. i \in 1 .. n \/ i = n + 1
      BY <1>1
    <3> QED BY <3>1, <3>2, <3>3, Zenon
  <2> QED BY <2>3, <2>4, <2>5, <2>6 DEF Followed, Own
<1>13. HistoryFits'
  <2>1. \A i \in DOMAIN texts' : texts'[i].op # 0 => WasSent(texts'[i].op)
    BY <1>1 DEF HistoryFits
  <2>2. ASSUME NEW i \in DOMAIN texts', NEW j \in DOMAIN texts',
               texts'[i].op = texts'[j].op, texts'[i].op # 0
        PROVE  i = j
    BY <1>1, <2>2 DEF HistoryFits, WasServed
  <2> QED BY <1>1, <2>1, <2>2 DEF HistoryFits, WasSent
<1> QED BY <1>5, <1>6, <1>7, <1>8, <1>9, <1>11, <1>12, <1>13 DEF Good

LEMMA EditServeKeeps == ASSUME EditorInv, N!Serve PROVE EditorInv'
<1>1. /\ wire # Nothing /\ wire' = Nothing /\ UNCHANGED <<kept, past>>
      /\ \/ /\ Len(texts) = wire.base
            /\ texts' = Append(texts, [text |-> wire.text, op |-> wire.id, at |-> wire.at])
            /\ action' = IF action = "wire" THEN "applied" ELSE action
         \/ UNCHANGED texts /\ action' = IF action = "wire" THEN "refused" ELSE action
  BY DEF N!Serve
<1>2. /\ Good(kept) /\ HistoryFits /\ ActionFits
      /\ kept.op # Nothing
      /\ wire.id = kept.op.id /\ wire.text = kept.op.text
      /\ wire.base = kept.op.base /\ wire.at = kept.op.at
      /\ WasSent(wire.id) /\ ~ WasServed(wire.id)
  BY <1>1 DEF EditorInv, WireFits
<1>3. /\ past'.sent = past.sent
      /\ past' = [acts |-> past'.acts, surprises |-> past'.surprises, sent |-> past'.sent]
  BY <1>1, <1>2, PastMoves
<1>4. WireFits'
  BY <1>1 DEF WireFits
<1>5. CASE UNCHANGED texts /\ action' = IF action = "wire" THEN "refused" ELSE action
  <2>1. Good(kept)' /\ HistoryFits' /\ Behind
    BY <1>1, <1>2, <1>3, <1>5, GoodStays, HistoryStays DEF Behind
  <2>2. ActionFits'
    BY <1>1, <1>2, <1>5 DEF ActionFits, WasSent, WasServed, N!Receivable, N!Draft, N!Expected
  <2> QED BY <1>4, <2>1, <2>2 DEF EditorInv
<1>6. CASE /\ Len(texts) = wire.base
           /\ texts' = Append(texts, [text |-> wire.text, op |-> wire.id, at |-> wire.at])
           /\ action' = IF action = "wire" THEN "applied" ELSE action
  <2> DEFINE x == [text |-> wire.text, op |-> wire.id, at |-> wire.at]
  <2>1. kept.op \in QueuedEdit
    BY <1>2 DEF Good, Kept
  <2>2. /\ x \in Revisions /\ x.op = kept.op.id /\ x.text = kept.op.text /\ x.at = kept.op.at
        /\ WasSent(x.op) /\ ~ WasServed(x.op)
    BY <1>2, <2>1 DEF Revisions, QueuedEdit
  <2>3. texts' = Append(texts, x) /\ Len(texts) = kept.op.base
    BY <1>2, <1>6
  <2> HIDE DEF x
  <2>4. /\ Good(kept)' /\ HistoryFits'
        /\ \A id : WasSent(id)' <=> WasSent(id)
        /\ \A id : (\E i \in DOMAIN texts' : texts'[i].op = id) <=> WasServed(id) \/ id = x.op
    BY <1>1, <1>2, <1>3, <2>2, <2>3, TextsGrow
  <2>5. WasServed(kept.op.id)' /\ (WasSent(kept.op.id)' <=> WasSent(kept.op.id))
    BY <1>1, <1>3, <2>2, <2>4 DEF WasServed, WasSent
  <2>6. ActionFits'
    BY <1>1, <1>2, <1>6, <2>5 DEF ActionFits, N!Receivable, N!Draft, N!Expected
  <2> QED BY <1>4, <2>4, <2>6 DEF EditorInv
<1> QED BY <1>1, <1>5, <1>6

LEMMA PeerCommitsKeeps ==
  ASSUME EditorInv, NEW text \in Text, N!PeerCommits(text) PROVE EditorInv'
<1> DEFINE x == [text |-> text, op |-> 0, at |-> Len(texts)]
<1>1. /\ UNCHANGED <<kept, action, wire>> /\ past' = [past EXCEPT !.surprises = @ + 1]
      /\ texts' = Append(texts, x)
  BY DEF N!PeerCommits
<1>2. Good(kept) /\ HistoryFits /\ ActionFits /\ WireFits
  BY DEF EditorInv
<1>3. /\ past'.sent = past.sent
      /\ past' = [acts |-> past'.acts, surprises |-> past'.surprises, sent |-> past'.sent]
  BY <1>1, <1>2, PastMoves
<1>4. x \in Revisions /\ x.op = 0
  BY <1>2 DEF HistoryFits, Revisions
<1> HIDE DEF x
<1>5. /\ Good(kept)' /\ HistoryFits'
      /\ \A id : WasSent(id)' <=> WasSent(id)
      /\ \A id : (\E i \in DOMAIN texts' : texts'[i].op = id) <=> WasServed(id) \/ id = x.op
  BY <1>1, <1>2, <1>3, <1>4, TextsGrow
<1>6. kept.op # Nothing => kept.op.id # 0
  BY <1>2 DEF Good, Pending
<1>7. /\ WasSent(kept.op.id)' <=> WasSent(kept.op.id)
      /\ kept.op # Nothing => (WasServed(kept.op.id)' <=> WasServed(kept.op.id))
  BY <1>1, <1>3, <1>4, <1>5, <1>6 DEF WasServed, WasSent
<1>8. ActionFits'
  BY <1>1, <1>2, <1>7 DEF ActionFits, N!Receivable, N!Draft, N!Expected
<1>9. WireFits'
  BY <1>1, <1>2, <1>7 DEF WireFits, WasSent, WasServed
<1> QED BY <1>5, <1>8, <1>9 DEF EditorInv

LEMMA EditorStep == ASSUME EditorInv, N!NormalNext, NothingIsNoRecord PROVE EditorInv'
<1>1. \/ \E text \in Text : N!Type(text) \/ N!PeerCommits(text)
      \/ N!Save \/ N!Enqueue \/ N!RecoverLocal
      \/ (N!Start \/ N!Refuse \/ N!EndAction \/ N!Stop)
      \/ (N!StartSend \/ N!StartRecover \/ N!StartReceive)
      \/ N!FindConflict \/ N!Retry \/ N!Attempt \/ N!Dispatch
      \/ N!Complete \/ N!FetchReceipt
      \/ N!Receive \/ N!Post \/ N!Serve
  BY Zenon DEF N!NormalNext
<1> QED
  BY <1>1, TypeKeeps, PeerCommitsKeeps, SaveKeeps, EnqueueKeeps, RecoverLocalKeeps, EndsKeep,
     BeginningsKeep, FindConflictKeeps, RetryKeeps, AttemptKeeps, EditDispatchKeeps, ReceiptsKeep,
     ReceiveKeeps, PostKeeps, EditServeKeeps, Zenon

LEMMA EditorStutter == ASSUME EditorInv, UNCHANGED typed PROVE EditorInv'
<1>1. UNCHANGED <<kept, action, wire, texts, past>>
  BY DEF typed
<1>2. Good(kept)' /\ HistoryFits' /\ WireFits' /\ Behind
  BY <1>1, NothingWritten
<1>3. ActionFits'
  BY <1>1 DEF EditorInv, ActionFits, WasSent, WasServed, N!Receivable, N!Draft, N!Expected
<1> QED BY <1>2, <1>3 DEF EditorInv

LEMMA EditorStarts == ASSUME N!NormalInit PROVE EditorInv
<1>1. PICK text \in Text :
    /\ kept = [file |-> text, at |-> 1, draft |-> Nothing, receive |-> Nothing,
               last |-> [event |-> "done", before |-> text, content |-> text],
               rev |-> 1, base |-> text, op |-> Nothing, ops |-> 0, intents |-> {},
               gate |-> [open |-> FALSE, record |-> "none"], cut |-> FALSE, hasty |-> FALSE]
    /\ texts = <<[text |-> text, op |-> 0, at |-> 0]>>
    /\ action = "idle" /\ wire = Nothing
    /\ past = [acts |-> 0, surprises |-> 0, sent |-> <<>>]
  BY DEF N!NormalInit
<1> DEFINE x == [text |-> text, op |-> 0, at |-> 0]
<1>2. x \in Revisions /\ x.op = 0 /\ x.text = text
  BY DEF Revisions
<1> HIDE DEF x
<1>3. /\ texts \in Seq(Revisions) /\ Len(texts) = 1 /\ DOMAIN texts = 1 .. 1 /\ texts[1] = x
  BY <1>1, <1>2 DEF x
<1>4. /\ past.sent \in Seq(Nat) /\ DOMAIN past.sent = {}
      /\ past = [acts |-> past.acts, surprises |-> past.surprises, sent |-> past.sent]
  BY <1>1
<1>5. HistoryFits
  BY <1>2, <1>3, <1>4 DEF HistoryFits
<1>6. /\ kept.file = text /\ kept.at = 1 /\ kept.draft = Nothing /\ kept.receive = Nothing
      /\ kept.last.content = text /\ kept.rev = 1 /\ kept.base = text /\ kept.op = Nothing
      /\ ~ kept.gate.open
  BY <1>1
<1>7. kept \in Kept
  BY <1>1 DEF Kept
<1>8. Good(kept)
  <2>1. Records(kept) /\ Reception(kept) /\ Pending(kept)
    BY <1>6 DEF Records, N!Explained, Reception, Pending
  <2>2. Based(kept) /\ Followed(kept) /\ Numbered(kept)
    BY <1>2, <1>3, <1>4, <1>6 DEF Based, Followed, Own, Numbered
  <2> QED BY <1>7, <2>1, <2>2 DEF Good
<1>9. WireFits /\ ActionFits
  BY <1>1 DEF WireFits, ActionFits
<1> QED BY <1>5, <1>8, <1>9 DEF EditorInv

LEMMA EditorHolds ==
  ASSUME EditorInv
  PROVE  N!HistoryExplains /\ N!CommittedOnce /\ N!PeersAreNotReverted /\ N!ReceptionsFinish
<1>1. Good(kept) /\ HistoryFits
  BY DEF EditorInv
<1>2. N!HistoryExplains
  BY <1>1 DEF Good, Records, N!HistoryExplains
<1>3. N!CommittedOnce
  BY <1>1 DEF Good, Based, HistoryFits, N!CommittedOnce
<1>4. N!PeersAreNotReverted
  BY <1>1 DEF Good, Followed, Own, N!PeersAreNotReverted
<1>5. N!ReceptionsFinish
  BY <1>1 DEF Good, Reception, N!ReceptionsFinish
<1> QED BY <1>2, <1>3, <1>4, <1>5

EditorOK == part = "normal" => EditorInv

\* The single-document editor (NormalEditor): wherever the program stops, its
\* records explain the file, the gate and the queue it leaves; a commit leaves
\* once and is served once; and what another device wrote is undone only after
\* a stop between the record of a reception and that of its draft
\* (normal_editor_local.py:281).
THEOREM NormalEditorStaysSound ==
  ASSUME NothingIsNoRecord PROVE DeviceSpec => []NormalEditorIsSound
<1>1. DeviceInit => EditorOK
  BY EditorStarts DEF DeviceInit, EditorOK
<1>2. EditorOK /\ [DeviceNext]_<<part, vars, typed, tried, opened, backed>> => EditorOK'
  BY EditorStep, EditorStutter DEF EditorOK, DeviceNext
<1>3. EditorOK => NormalEditorIsSound
  BY EditorHolds DEF EditorOK, NormalEditorIsSound
<1> QED
  BY <1>1, <1>2, <1>3, PTL DEF DeviceSpec
=============================================================================
