------------------------------ MODULE NormalEditor ------------------------------
(* The single-document editor of the staging project (normal_editor_local,      *)
(* _network, _ui, with the boundary of general_validation_boundary and the      *)
(* local gate of general_validation_control). Everything durable is written     *)
(* one file, record or transaction at a time, and the program may stop between  *)
(* any two; a start reads what it finds, and the writer asks for the recovery.  *)
(* A network action is one button: it reads the server, and sends, receives or  *)
(* asks what became of a commit. A commit that was on the wire is never sent    *)
(* again.                                                                       *)
(*                                                                              *)
(* Left out: changes of the disk, the database or the account by others, which  *)
(* every step compares and refuses, and the text rules of validate_text.        *)
EXTENDS Naturals, Sequences, TLC

CONSTANTS
  Text,
  Nothing,
  MaxActs,        \* bound: texts typed
  MaxSurprises    \* bound: foreign commits, lost authority, stops, together

VARIABLES
  kept,           \* what is durable: the file, the records, the store, the gate;
                  \* history: at, the revision the file was typed on, and
                  \* what was done at an awkward moment, cut and hasty
  action,         \* the program: "down", "idle", or the network action under way
  wire,           \* a commit on its way
  server,         \* the texts of the revisions, and the operations they came from
  past            \* history: commits put on the wire; bounds

normalVars == <<kept, action, wire, server, past>>

-----------------------------------------------------------------------------
(* What is durable *)

\* disk_from_history: the last replace announced, or what stood before it.
Explained(k) ==
  \/ k.file = k.last.content
  \/ k.last.event = "intent" /\ k.file = k.last.before

\* The file the editor works from.
Expected(k) == k.file

Draft(k) == IF k.draft = Nothing THEN Expected(k) ELSE k.draft.text

DraftAt(k) == IF k.draft = Nothing THEN k.rev ELSE k.draft.rev

\* no_write_attempt: every dispatch has a journal of its own.
NoWriteAttempt(k) == ~ k.op.attempted

\* Durable steps, in order; the program may stop after any of them.
Steps(steps, next) ==
  \/ /\ kept' = steps[Len(steps)]
     /\ action' = next
     /\ UNCHANGED past
  \/ /\ past.surprises < MaxSurprises
     /\ \E i \in DOMAIN steps :
          /\ i < Len(steps)
          /\ kept' = steps[i]
          /\ past' = [past EXCEPT !.surprises = @ + 1]
     /\ action' = "down"

-----------------------------------------------------------------------------
(* The writer *)

Idle == action = "idle"

\* on_editor_text_changed.
Type(text) ==
  /\ Idle
  /\ text # Draft(kept)
  /\ past.acts < MaxActs
  /\ kept' = [kept EXCEPT !.draft = [text |-> text, rev |-> kept.rev]]
  /\ past' = [past EXCEPT !.acts = @ + 1]
  /\ UNCHANGED <<action, wire, server>>

\* Mutant: replaces the file and then announces it.
SavedUnannounced(k, text) ==
  <<[k EXCEPT !.file = text],
    [k EXCEPT !.file = text, !.last = [event |-> "done", before |-> k.file, content |-> text]]>>

Saveable(k) == k.receive = Nothing /\ k.gate.record = "none" /\ k.gate.open = FALSE

\* write: announced, replaced, recorded.
Saved(k, text) ==
  LET intent == [event |-> "intent", before |-> k.file, content |-> text] IN
    <<[k EXCEPT !.last = intent],
      [k EXCEPT !.last = intent, !.file = text, !.at = DraftAt(k)],
      [k EXCEPT !.last = [intent EXCEPT !.event = "done"], !.file = text, !.at = DraftAt(k)]>>

Save ==
  /\ Idle /\ Saveable(kept)
  /\ Draft(kept) # Expected(kept)
  /\ Steps(Saved(kept, Draft(kept)), "idle")
  /\ UNCHANGED <<wire, server>>

\* enqueue_saved: the intent, the undo record, the gate, the queue, the gate.
Queued(k) ==
  LET intent == [k EXCEPT !.intents = @ \cup {<<k.file, k.rev>>}]
      recorded == [intent EXCEPT !.gate.record = "pending"]
      opened == [recorded EXCEPT !.gate.open = TRUE]
      put == [opened EXCEPT !.ops = @ + 1,
                !.op = [id |-> k.ops + 1, text |-> k.file, base |-> k.rev, at |-> k.at,
                        status |-> "pending", dispatched |-> FALSE, attempted |-> FALSE,
                        response |-> FALSE, conflict |-> FALSE],
                !.hasty = @ \/ k.receive # Nothing]
      closed == [put EXCEPT !.gate.open = FALSE]
  IN <<intent, recorded, opened, put, closed, [closed EXCEPT !.gate.record = "none"]>>

\* A save made while an operation is active waits outside of it.
Queueable(k) == k.op = Nothing /\ k.file # k.base

Enqueue ==
  /\ Idle
  /\ kept.gate.record = "none" /\ Queueable(kept)
  /\ Steps(Queued(kept), "idle")
  /\ UNCHANGED <<wire, server>>

-----------------------------------------------------------------------------
(* Start and recovery *)

\* open_local: the store is opened without its recovery of operations in flight.
Start ==
  /\ action = "down"
  /\ Explained(kept)
  /\ kept.gate.record = "none" => ~ kept.gate.open
  /\ action' = "idle"
  /\ UNCHANGED <<kept, wire, server, past>>

\* Mutant: leaves the draft of before.
FinishedWithoutDraft(k) ==
  LET row == k.receive
      file == [k EXCEPT !.file = row.content, !.at = row.rev]
      stored == [file EXCEPT !.rev = row.rev, !.base = row.content]
  IN <<file, stored,
       [stored EXCEPT !.receive = Nothing,
          !.last = [event |-> "done", before |-> row.before, content |-> row.content]]>>

\* finish_receive: the file, the store, the record, the draft.
Finished(k) ==
  LET row == k.receive
      file == [k EXCEPT !.file = row.content, !.at = row.rev]
      stored == [file EXCEPT !.rev = row.rev, !.base = row.content]
      received == [stored EXCEPT !.receive = Nothing,
                     !.last = [event |-> "done", before |-> row.before, content |-> row.content],
                     !.cut = @ \/ k.draft # Nothing]
      draft == [received EXCEPT !.draft = [text |-> row.content, rev |-> row.rev],
                  !.cut = k.cut]
  IN <<file, stored, received, draft>>

\* Neither a draft nor another save may stand in its way.
Finishable(k) ==
  /\ k.op = Nothing
  /\ Draft(k) \in {k.receive.before, k.receive.content}
  /\ k.file \in {k.receive.before, k.receive.content}

\* restore_control, then recover_local.
Restored(k) == [k EXCEPT !.gate = [open |-> FALSE, record |-> "none"]]

RecoverLocal ==
  /\ Idle
  /\ LET k == Restored(kept)
         gates == IF kept.gate.record = "none" THEN <<>>
                  ELSE <<[kept EXCEPT !.gate.open = FALSE], k>>
         rest == IF k.receive # Nothing
                   THEN IF Finishable(k) THEN Finished(k) ELSE <<>>
                 ELSE IF Queueable(k) THEN Queued(k) ELSE <<>>
     IN /\ gates \o rest # <<>>
        /\ Steps(gates \o rest, "idle")
  /\ UNCHANGED <<wire, server>>

-----------------------------------------------------------------------------
(* A network action *)

\* start_network and NormalNetworkService.action: a fresh login, the gates, the
\* handshake.
MayAct == Idle /\ kept.gate.record = "none" /\ ~ kept.gate.open

\* Mutant: what was recorded as dispatched may go again after a restart.
SendableAgain(k) ==
  /\ k.receive = Nothing
  /\ k.op # Nothing /\ ~ k.op.conflict

Sendable(k) ==
  /\ k.receive = Nothing
  /\ k.op # Nothing /\ ~ k.op.conflict
  /\ k.op.status \in {"pending", "retry_wait"}
  /\ NoWriteAttempt(k)

StartSend ==
  /\ MayAct /\ Sendable(kept)
  /\ action' = "send"
  /\ UNCHANGED <<kept, wire, server, past>>

\* The server's document must still be the base of the operation.
FindConflict ==
  /\ action = "send"
  /\ Len(server) # kept.op.base
  /\ kept' = [kept EXCEPT !.op.conflict = TRUE]
  /\ action' = "idle"
  /\ UNCHANGED <<wire, server, past>>

Dispatch ==
  /\ action = "send"
  /\ Len(server) = kept.op.base
  /\ LET recorded == [kept EXCEPT !.op.dispatched = TRUE] IN
       Steps(<<recorded, [recorded EXCEPT !.op.status = "inflight"]>>, "dispatched")
  /\ UNCHANGED <<wire, server>>

\* handle_request: the attempt is journalled before it is on the wire; what has
\* changed in between keeps it off.
Attempt ==
  /\ action = "dispatched"
  /\ kept' = [kept EXCEPT !.op.attempted = TRUE]
  /\ action' = "attempted"
  /\ UNCHANGED <<wire, server, past>>

Post ==
  /\ action = "attempted"
  /\ wire' = kept.op
  /\ action' = "wire"
  /\ past' = [past EXCEPT !.sent = Append(@, kept.op.id)]
  /\ UNCHANGED <<kept, server>>

\* document_commit.
Serve ==
  /\ wire # Nothing
  /\ IF Len(server) = wire.base
       THEN /\ server' = Append(server, [text |-> wire.text, op |-> wire.id, at |-> wire.at])
            /\ action' = IF action = "wire" THEN "applied" ELSE action
       ELSE /\ UNCHANGED server
            /\ action' = IF action = "wire" THEN "refused" ELSE action
  /\ wire' = Nothing
  /\ UNCHANGED <<kept, past>>

\* An answer that is no exact receipt ends the action.
Refuse ==
  /\ action = "refused"
  /\ action' = "idle"
  /\ UNCHANGED <<kept, wire, server, past>>

\* complete_response: the receipt and the store in one transaction. What was
\* answered is recorded before.
Completed(k) ==
  LET told == [k EXCEPT !.op.response = TRUE] IN
    <<told, [told EXCEPT !.rev = k.op.base + 1, !.base = k.op.text, !.op = Nothing]>>

Complete ==
  /\ action = "applied"
  /\ Steps(Completed(kept), "idle")
  /\ UNCHANGED <<wire, server>>

\* recover.
StartRecover ==
  /\ MayAct /\ kept.op # Nothing
  /\ kept.op.status = "inflight" /\ kept.op.dispatched
  /\ action' = "recover"
  /\ UNCHANGED <<kept, wire, server, past>>

\* Only what was never attempted may be sent again.
Retry ==
  /\ action = "recover" /\ NoWriteAttempt(kept)
  /\ kept' = [kept EXCEPT !.op.status = "retry_wait"]
  /\ action' = "idle"
  /\ UNCHANGED <<wire, server, past>>

FetchReceipt ==
  /\ action = "recover" /\ ~ NoWriteAttempt(kept)
  /\ IF kept.op.response \/ \E i \in DOMAIN server : server[i].op = kept.op.id
       THEN Steps(Completed(kept), "idle")
       ELSE action' = "idle" /\ UNCHANGED <<kept, past>>
  /\ UNCHANGED <<wire, server>>

\* receive: nothing here may be newer than the base.
Receivable(k) ==
  /\ k.receive = Nothing /\ k.op = Nothing
  /\ Draft(k) = k.file /\ k.file = k.base

StartReceive ==
  /\ MayAct /\ Receivable(kept)
  /\ action' = "receive"
  /\ UNCHANGED <<kept, wire, server, past>>

Receive ==
  /\ action = "receive"
  /\ IF Len(server) = kept.rev
       THEN action' = "idle" /\ UNCHANGED <<kept, past>>
       ELSE LET text == server[Len(server)].text
                announced == [kept EXCEPT
                   !.receive = [before |-> kept.base, content |-> text, rev |-> Len(server)],
                   !.last = [event |-> "intent", before |-> kept.base, content |-> text]]
            IN \/ Steps(<<announced>> \o Finished(announced), "idle")
               \/ /\ past.surprises < MaxSurprises
                  /\ kept' = announced
                  /\ action' = "idle"
                  /\ past' = [past EXCEPT !.surprises = @ + 1]
  /\ UNCHANGED <<wire, server>>

\* ForegroundAuthority and the boundary: the window, the login, the time or a
\* call is lost.
EndAction ==
  /\ action \in {"send", "dispatched", "attempted", "wire", "applied", "recover", "receive"}
  /\ past.surprises < MaxSurprises
  /\ action' = "idle"
  /\ past' = [past EXCEPT !.surprises = @ + 1]
  /\ UNCHANGED <<kept, wire, server>>

Stop ==
  /\ action # "down"
  /\ past.surprises < MaxSurprises
  /\ action' = "down"
  /\ past' = [past EXCEPT !.surprises = @ + 1]
  /\ UNCHANGED <<kept, wire, server>>

\* Another device.
PeerCommits(text) ==
  /\ past.surprises < MaxSurprises
  /\ server' = Append(server, [text |-> text, op |-> 0, at |-> Len(server)])
  /\ past' = [past EXCEPT !.surprises = @ + 1]
  /\ UNCHANGED <<kept, action, wire>>

-----------------------------------------------------------------------------
(* The specification *)

NormalInit ==
  \E text \in Text :
    /\ kept = [file |-> text, at |-> 1, draft |-> Nothing, receive |-> Nothing,
               last |-> [event |-> "done", before |-> text, content |-> text],
               rev |-> 1, base |-> text, op |-> Nothing, ops |-> 0, intents |-> {},
               gate |-> [open |-> FALSE, record |-> "none"], cut |-> FALSE, hasty |-> FALSE]
    /\ server = <<[text |-> text, op |-> 0, at |-> 0]>>
    /\ action = "idle" /\ wire = Nothing
    /\ past = [acts |-> 0, surprises |-> 0, sent |-> <<>>]

NormalNext ==
  \/ \E text \in Text : Type(text) \/ PeerCommits(text)
  \/ Save \/ Enqueue \/ Start \/ RecoverLocal
  \/ StartSend \/ FindConflict \/ Dispatch \/ Attempt \/ Post \/ Serve \/ Refuse \/ Complete
  \/ StartRecover \/ Retry \/ FetchReceipt
  \/ StartReceive \/ Receive
  \/ EndAction \/ Stop

NormalSpec == NormalInit /\ [][NormalNext]_normalVars

-----------------------------------------------------------------------------
(* Properties *)

\* Wherever the program stops, the next start can explain the file it finds, the
\* gate is open only with the record that closes it again, and the operation in
\* the queue is one the records announced.
HistoryExplains ==
  /\ Explained(kept)
  /\ kept.gate.open => kept.gate.record = "pending"
  /\ kept.op # Nothing => <<kept.op.text, kept.op.base>> \in kept.intents

\* A commit is put on the wire once ("never invoke document_commit again"), its
\* revision is served once, and the store's base is the server's text of that
\* revision.
CommittedOnce ==
  /\ \A i, j \in DOMAIN past.sent : past.sent[i] = past.sent[j] => i = j
  /\ \A i, j \in DOMAIN server : server[i].op = server[j].op /\ server[i].op # 0 => i = j
  /\ kept.rev <= Len(server) /\ server[kept.rev].text = kept.base

\* The writer has seen what a commit replaces: no revision of the other device
\* lies between the one the text was typed on and the one it follows. Unless
\* the program stopped between the record of a reception and the record of its
\* draft (normal_editor_local.py:281): then the older draft looks unsaved, and
\* saving it undoes the other device's text.
PeersAreNotReverted ==
  \A i \in DOMAIN server :
    server[i].op # 0 =>
      \/ \A j \in server[i].at + 1 .. i - 1 : server[j].op # 0
      \/ kept.cut

\* A reception that was announced can be finished, which no active operation
\* allows: unless the writer asks to send before the recovery, when the text
\* just received is queued as the writer's own (normal_editor_local.py:213) and
\* from then on receiving, sending and recovering refuse one another.
ReceptionsFinish == kept.receive # Nothing /\ kept.op # Nothing => kept.hasty
=============================================================================
