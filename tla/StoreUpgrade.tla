------------------------------ MODULE StoreUpgrade ------------------------------
(* Opening sync_v2.sqlite3: SyncV2Store.__init__ with _initialize,             *)
(* _migrate_contract_schema and server_checkpoint.upgrade. executescript ends  *)
(* the transaction _initialize has begun, so every later statement is durable  *)
(* by itself: a process may be killed after any of them, and a second one (the *)
(* tools open the live file too) may be at any other of them.                  *)
EXTENDS Naturals, Sequences, FiniteSets

CONSTANTS
  Opener,          \* processes that open the file
  Operation,       \* rows of sync_operations
  Nothing,
  MaxOpenings,     \* bound: openings
  MaxSends         \* bound: dispatches

VARIABLES
  file,            \* version, schema objects and rows
  opening,         \* Opener -> where it is
  history          \* counters, the true state of every operation, and what went wrong

upgradeVars == <<file, opening, history>>

Statuses == {"pending", "inflight", "completed", "cancelled", "conflict"}

Settled == {"completed", "cancelled", "conflict"}

Closed == [at |-> "closed", seen |-> Nothing, list |-> {}, row |-> Nothing, raced |-> FALSE]

\* EVENT_STATE.
StateOf(event) ==
  CASE event = "enqueued"          -> "pending"
    [] event = "dispatch_started"  -> "inflight"
    [] event = "retry_scheduled"   -> "retry_wait"
    [] event = "committed"         -> "completed"
    [] event = "cancel_requested"  -> "cancelled"
    [] event = "conflict_detected" -> "conflict"

\* _derived_state, which raises on a row without any event.
Derived(op) ==
  LET events == file.ops[op].events
  IN IF events = <<>> THEN "raises" ELSE StateOf(events[Len(events)])

\* Mutant: a cancelled row keeps only the event every row has.
LegacyEventsOfAnswers(status) ==
  <<"enqueued">> \o
    CASE status = "completed" -> <<"committed">>
      [] status = "conflict"  -> <<"conflict_detected">>
      [] status = "inflight"  -> <<"dispatch_started", "retry_scheduled">>
      [] OTHER                -> <<>>

LegacyEvents(status) ==
  <<"enqueued">> \o
    CASE status = "completed" -> <<"committed">>
      [] status = "cancelled" -> <<"cancel_requested">>
      [] status = "conflict"  -> <<"conflict_detected">>
      [] status = "inflight"  -> <<"dispatch_started", "retry_scheduled">>
      [] OTHER                -> <<>>

\* What the status column says of an operation.
FirstStatus(version, status) ==
  IF version = 8012 THEN StateOf(LegacyEvents(status)[Len(LegacyEvents(status))]) ELSE "pending"

\* The file of the first releases; one whose operations had events already, but
\* whose status column kept what it was first given; and one before the
\* observation of server checkpoints.
OldFiles(true) ==
  {[version |-> 0, has |-> {"queue"},
    ops |-> [op \in Operation |-> [known |-> FALSE, status |-> true[op], events |-> <<>>]],
    rename |-> [completed |-> done, events |-> <<>>]] : done \in BOOLEAN}
  \cup
  {[version |-> version,
    has |-> {"queue", "intents", "columns", "server", "contract", "guards"},
    ops |-> [op \in Operation |->
       [known |-> TRUE,
        status |-> FirstStatus(version, true[op]),
        events |-> LegacyEvents(true[op])]],
    rename |-> [completed |-> FALSE, events |-> <<"recorded">>]] : version \in {8005, 8012}}

UpgradeInit ==
  /\ opening = [p \in Opener |-> Closed]
  /\ \E true \in [Operation -> Statuses] :
       /\ history = [openings |-> 0, sends |-> 0, true |-> true, sent |-> {}, cut |-> {}]
       /\ file \in OldFiles(true)

-----------------------------------------------------------------------------
(* Stages *)

At(p, stage) == opening[p].at = stage

Go(p, stage) == opening' = [opening EXCEPT ![p].at = stage]

Has(object) == object \in file.has

Add(objects) == file' = [file EXCEPT !.has = @ \cup objects]

\* Each opening is raced by the processes that have the file open.
Open(p) ==
  /\ At(p, "closed") /\ history.openings < MaxOpenings
  /\ LET others == {q \in Opener : q # p /\ ~ At(q, "closed")}
     IN opening' = [q \in Opener |->
          IF q = p THEN [Closed EXCEPT !.at = "upgrade", !.raced = others # {}]
          ELSE IF q \in others THEN [opening[q] EXCEPT !.raced = TRUE]
          ELSE opening[q]]
  /\ history' = [history EXCEPT !.openings = @ + 1]
  /\ UNCHANGED file

\* server_checkpoint.upgrade, the one step with a transaction of its own; it is
\* called before the other steps and after them.
UpgradeCheckpoint(p) ==
  /\ opening[p].at \in {"upgrade", "upgradeAgain"}
  /\ file' = IF file.version # 8012 THEN file
             ELSE [file EXCEPT !.version = 8013, !.has = @ \cup {"checkpoint"}]
  /\ Go(p, IF At(p, "upgrade") THEN "tables" ELSE "running")
  /\ UNCHANGED history

\* CREATE TABLE IF NOT EXISTS, and the version that the rest goes by.
CreateTables(p) ==
  /\ At(p, "tables")
  /\ Add({"queue"}) /\ Go(p, "intents") /\ UNCHANGED history

CreateIntentTables(p) ==
  /\ At(p, "intents")
  /\ Add({"intents"})
  /\ opening' = [opening EXCEPT ![p].at = "look", ![p].seen = file.version]
  /\ UNCHANGED history

\* Mutant: the column is added unseen.
LookForNothing(p) ==
  /\ At(p, "look")
  /\ Go(p, "alter")
  /\ UNCHANGED <<file, history>>

\* _add_column looks, and alters in a statement of its own.
LookForColumns(p) ==
  /\ At(p, "look")
  /\ Go(p, IF Has("columns") THEN "contract" ELSE "alter")
  /\ UNCHANGED <<file, history>>

AddColumns(p) ==
  /\ At(p, "alter")
  /\ IF Has("columns")
     THEN Go(p, "failed") /\ UNCHANGED file
     ELSE Go(p, "contract") /\ Add({"columns"})
  /\ UNCHANGED history

CreateContractTables(p) ==
  /\ At(p, "contract")
  /\ Add({"contract"}) /\ Go(p, "legacy") /\ UNCHANGED history

-----------------------------------------------------------------------------
(* Import of the rows of the old queue *)

Unknown == {op \in Operation : ~ file.ops[op].known}

\* A row that says it is imported while events of it are still missing.
HalfImported ==
  {op \in Operation :
     file.ops[op].known /\ Len(file.ops[op].events) < Len(LegacyEvents(history.true[op]))}

TakeLegacy(p) ==
  /\ At(p, "legacy")
  /\ opening' = [opening EXCEPT ![p].at = "import", ![p].list = Unknown]
  /\ history' = [history EXCEPT !.cut = @ \cup HalfImported]
  /\ UNCHANGED file

\* The row's provenance first.
ImportRow(p) ==
  /\ At(p, "import") /\ opening[p].row = Nothing /\ opening[p].list # {}
  /\ \E op \in opening[p].list :
       /\ file' = [file EXCEPT !.ops[op].known = TRUE]
       /\ opening' = [opening EXCEPT ![p].list = @ \ {op}, ![p].row = <<op, 1>>]
  /\ UNCHANGED history

\* Then its events, one by one; INSERT OR IGNORE passes over a sequence number
\* that is taken.
ImportEvent(p) ==
  /\ At(p, "import") /\ opening[p].row # Nothing
  /\ LET op == opening[p].row[1]
         k == opening[p].row[2]
         events == LegacyEvents(history.true[op])
     IN /\ file' = IF Len(file.ops[op].events) >= k THEN file
                   ELSE [file EXCEPT !.ops[op].events = Append(@, events[k])]
        /\ opening' = [opening EXCEPT ![p].row = IF k = Len(events) THEN Nothing ELSE <<op, k + 1>>]
  /\ UNCHANGED history

ImportEnds(p) ==
  /\ At(p, "import") /\ opening[p].row = Nothing /\ opening[p].list = {}
  /\ opening' = [opening EXCEPT ![p].at = "status",
                   ![p].list = IF opening[p].seen < 8006 THEN Operation ELSE {}]
  /\ UNCHANGED <<file, history>>

\* Before 8006 the status column is set once from the events; a row whose
\* history cannot be read is left alone.
Materialize(p) ==
  /\ At(p, "status")
  /\ IF opening[p].list = {} THEN Go(p, "renames") /\ UNCHANGED file
     ELSE \E op \in opening[p].list :
            /\ opening' = [opening EXCEPT ![p].list = @ \ {op}]
            /\ file' = IF Derived(op) = "raises" THEN file
                       ELSE [file EXCEPT !.ops[op].status = Derived(op)]
  /\ UNCHANGED history

\* The proofs of folder renames get the events their snapshot stands for.
ImportRename(p) ==
  /\ At(p, "renames")
  /\ LET events == IF file.rename.completed THEN <<"recorded", "completed">> ELSE <<"recorded">>
         known == Len(file.rename.events)
     IN IF known < Len(events)
        THEN file' = [file EXCEPT !.rename.events = Append(@, events[known + 1])] /\ UNCHANGED opening
        ELSE Go(p, "drop") /\ UNCHANGED file
  /\ UNCHANGED history

-----------------------------------------------------------------------------
(* Guards, version, interrupted dispatches *)

\* The delete guards are dropped and made anew, for an older one may have the name.
DropGuards(p) ==
  /\ At(p, "drop")
  /\ file' = [file EXCEPT !.has = @ \ {"guards"}]
  /\ Go(p, "create") /\ UNCHANGED history

CreateGuards(p) ==
  /\ At(p, "create")
  /\ IF Has("guards")
     THEN Go(p, "failed") /\ UNCHANGED file
     ELSE Go(p, "reviewed") /\ Add({"guards"})
  /\ UNCHANGED history

CreateReviewTables(p) ==
  /\ At(p, "reviewed")
  /\ Add({"reviewed"}) /\ Go(p, "mark") /\ UNCHANGED history

\* The version is set by what was read at the start.
MarkVersion(p) ==
  /\ At(p, "mark")
  /\ file' = IF opening[p].seen < 8012 THEN [file EXCEPT !.version = 8012] ELSE file
  /\ opening' = [opening EXCEPT ![p].at = "recover", ![p].list = Operation]
  /\ UNCHANGED history

\* A row found under way waits: it is read, its event is appended unless another
\* process has settled it, and its status follows. The columns of the server's
\* name and state are added here, and only here.
FindInterrupted(p) ==
  /\ At(p, "recover") /\ opening[p].row = Nothing
  /\ IF opening[p].list = {} THEN Go(p, "upgradeAgain")
     ELSE \E op \in opening[p].list :
            opening' = [opening EXCEPT ![p].list = @ \ {op},
                          ![p].row = IF Derived(op) = "inflight" THEN <<op, 0>> ELSE Nothing]
  /\ UNCHANGED <<file, history>>

Recover(p) ==
  /\ At(p, "recover") /\ opening[p].row # Nothing
  /\ LET op == opening[p].row[1]
     IN IF opening[p].row[2] = 1
        THEN /\ file' = [file EXCEPT !.ops[op].status = "retry_wait", !.has = @ \cup {"server"}]
             /\ opening' = [opening EXCEPT ![p].row = Nothing]
        ELSE IF Derived(op) \in {"completed", "cancelled"}
        THEN Go(p, "failed") /\ UNCHANGED file
        ELSE /\ file' = [file EXCEPT !.ops[op].events = Append(@, "retry_scheduled")]
             /\ opening' = [opening EXCEPT ![p].row = <<op, 1>>]
  /\ UNCHANGED history

-----------------------------------------------------------------------------
(* The program at work *)

\* next_ready_operation reads every row, and raises on one without events.
Dispatch(p) ==
  /\ At(p, "running") /\ history.sends < MaxSends
  /\ \A op \in Operation : Derived(op) # "raises"
  /\ \E op \in Operation :
       /\ Derived(op) \in {"pending", "retry_wait"}
       /\ file' = [file EXCEPT !.ops[op].events = Append(@, "dispatch_started"),
                     !.ops[op].status = "inflight"]
       /\ opening' = [opening EXCEPT ![p].row = <<op, 0>>]
       /\ history' = [history EXCEPT !.sends = @ + 1, !.sent = @ \cup {op}]
  /\ opening[p].row = Nothing

Answer(p) ==
  /\ At(p, "running") /\ opening[p].row # Nothing
  /\ LET op == opening[p].row[1]
     IN file' = IF Derived(op) # "inflight" THEN file
                ELSE [file EXCEPT !.ops[op].events = Append(@, "committed"),
                        !.ops[op].status = "completed"]
  /\ opening' = [opening EXCEPT ![p].row = Nothing]
  /\ UNCHANGED history

\* The process ends, is killed, or reports that the file could not be opened.
Close(p) ==
  /\ ~ At(p, "closed")
  /\ opening' = [opening EXCEPT ![p] = Closed]
  /\ UNCHANGED <<file, history>>

UpgradeNext ==
  \E p \in Opener :
    \/ Open(p) \/ UpgradeCheckpoint(p) \/ CreateTables(p) \/ CreateIntentTables(p)
    \/ LookForColumns(p) \/ AddColumns(p) \/ CreateContractTables(p)
    \/ TakeLegacy(p) \/ ImportRow(p) \/ ImportEvent(p) \/ ImportEnds(p)
    \/ Materialize(p) \/ ImportRename(p)
    \/ DropGuards(p) \/ CreateGuards(p) \/ CreateReviewTables(p)
    \/ MarkVersion(p) \/ FindInterrupted(p) \/ Recover(p)
    \/ Dispatch(p) \/ Answer(p) \/ Close(p)

UpgradeSpec == UpgradeInit /\ [][UpgradeNext]_upgradeVars

-----------------------------------------------------------------------------

\* What the old queue had settled is not sent once more, whoever opens the file
\* and wherever the opening is killed; the one exception is a row that a later
\* list finds marked as imported while events of it are missing.
SettledStaySettled ==
  \A op \in Operation :
    history.true[op] \in Settled /\ op \notin history.cut =>
      /\ op \notin history.sent
      /\ \A p \in Opener : At(p, "running") => Derived(op) = history.true[op]

\* An opening that was killed can be repeated: it fails only beside another one.
OpensAfterKill == \A p \in Opener : At(p, "failed") => opening[p].raced

\* A file that says it is of the newest version has everything that version has,
\* but for what an opening under way has dropped or a kill has left dropped.
VersionTellsSchema ==
  file.version >= 8012 =>
    /\ {"queue", "intents", "columns", "contract"} \subseteq file.has
    /\ file.version = 8013 => "checkpoint" \in file.has
    /\ file.rename.completed => Len(file.rename.events) = 2
    /\ Unknown = {}
=============================================================================
