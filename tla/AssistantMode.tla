------------------------------ MODULE AssistantMode ------------------------------
(* The assistant window: mode_assistant.AssistantModeWidget with                 *)
(* AssistantWorkflowMixin. Four steps of a chapter (draft, completed, eval,      *)
(* summary) are edited in two columns whose panels of one step share one         *)
(* document; every panel has a chapter and an autosave timer of its own; the     *)
(* toolbar has a chapter too. Answers of the AI come from worker threads, and    *)
(* the final confirmation of a chapter builds the summary that the next ones     *)
(* start from.                                                                   *)
EXTENDS Naturals, FiniteSets

CONSTANTS
  Chapters,        \* chapters are 1 .. Chapters
  Collected,       \* chapters whose summary is a plain collection (25)
  Window,          \* raw chapters at the end of a later summary (5)
  Nothing,
  MaxActs,         \* bound: edits, applied answers, requests, and changes of
                   \* tab, chapter, column and split, together
  MaxFaults        \* bound: failed writes

VARIABLES
  desk,            \* tabs, columns, chapters, documents, timers and files
  ai,              \* the panel of the AI and its request
  workers,         \* threads and the answers they have put in the queue
  kept,            \* what is known of every answer
  past             \* counters, the newest text of every chapter, and causes

assistantVars == <<desk, ai, workers, kept, past>>

Chapter == 1 .. Chapters
Step == {"draft", "completed", "eval", "summary"}
Tab == Step \cup {"settings"}
Side == {"left", "right"}

\* A text: the chapter it was written for, its version, the chapters an answer in
\* it was about, and those it has in full; whole if nothing was missing when the
\* summary was made.
Blank(c) == [of |-> c, n |-> 0, ai |-> {}, raw |-> {}, whole |-> FALSE]

EmptyBox == [answers |-> {}, session |-> {}, final |-> FALSE, raws |-> {}, whole |-> FALSE]

-----------------------------------------------------------------------------
(* What one handler does to the desk, as functions from desk to desk *)

\* get_active_panel.
Active(d) ==
  LET side == IF d.split /\ d.side = "right" THEN "right" ELSE "left"
  IN [side |-> side, step |-> d.tab[side]]

\* Mutant: the chapter of the toolbar is written.
SavedOfToolbar(d, p) ==
  [d EXCEPT !.files[p.step][d.chapter] = d.doc[p.step],
     !.timers = @ \ {p}, !.dirty = @ \ {p.step}]

\* autosave_panel: the document goes to the chapter of the panel.
Saved(d, p) ==
  [d EXCEPT !.files[p.step][d.at[p.side][p.step]] = d.doc[p.step],
     !.timers = @ \ {p}, !.dirty = @ \ {p.step}]

SaveFailed(d, p) == [d EXCEPT !.timers = @ \cup {p}, !.dirty = @ \cup {p.step}]

\* sync_internal_storage.
Synced(d, p, ok) == IF ok THEN Saved(d, p) ELSE SaveFailed(d, p)

Pair(step) == {[side |-> s, step |-> step] : s \in Side}

\* load_content_for_panel: both timers of the pair are stopped, and nothing is saved.
Loaded(d, p) ==
  [d EXCEPT !.doc[p.step] = d.files[p.step][d.at[p.side][p.step]],
     !.timers = @ \ Pair(p.step), !.dirty = @ \ {p.step}]

AtBoth(d, step, c) == [d EXCEPT !.at["left"][step] = c, !.at["right"][step] = c]

\* The text of the panel is set, by a key or by an answer: both panels see it.
Written(d, step, text) ==
  [d EXCEPT !.doc[step] = text, !.timers = @ \cup Pair(step), !.dirty = @ \cup {step}]

\* The split is suspended while the settings are open.
Arranged(d, tab) ==
  IF tab = "settings"
  THEN IF d.split
       THEN [d EXCEPT !.split = FALSE, !.side = "left",
               !.was = [left |-> d.tab["left"], right |-> d.tab["right"], side |-> d.side]]
       ELSE [d EXCEPT !.side = "left"]
  ELSE IF d.was = Nothing THEN d
  ELSE [d EXCEPT !.split = TRUE, !.side = d.was.side, !.was = Nothing,
          !.tab = [left |-> d.was.left, right |-> d.was.right]]

\* switch_tab.
Switched(d, tab, ok) ==
  LET old    == Active(d)
      synced == IF old.step = "settings" THEN d ELSE Synced(d, old, ok)
      moved  == LET a == Arranged(synced, tab) IN [a EXCEPT !.tab[a.side] = tab]
      new    == Active(moved)
  IN IF d.tab[d.side] = tab THEN d
     ELSE IF old.step # "settings" /\ ~ ok THEN synced
     ELSE IF new.step = "settings" THEN moved
     ELSE Loaded([moved EXCEPT !.chapter = moved.at[new.side][new.step]], new)

\* on_chapter_changed, which is refused while the panel of the AI is open.
Turned(d, c, ok, shown) ==
  LET p == Active(d)
      turned == [AtBoth(Saved(d, p), p.step, c) EXCEPT !.chapter = c]
  IN IF shown \/ p.step = "settings" THEN d
     ELSE IF ~ ok THEN SaveFailed(d, p)
     ELSE Loaded(turned, p)

\* The panel of a step is brought to a chapter by a handler of the AI.
Brought(d, step, c, ok) ==
  LET p == [side |-> "left", step |-> step]
  IN IF d.at["left"][step] = c THEN d
     ELSE IF ok THEN Loaded(AtBoth(Saved(d, p), step, c), p)
     ELSE SaveFailed(d, p)

\* toggle_split_mode.
SplitOpened(d, ok) ==
  LET left  == d.tab["left"]
      first == [d EXCEPT !.split = TRUE]
      shown == IF left = "summary" THEN first ELSE Switched(first, "completed", ok)
      right == [side |-> "right", step |-> IF left = "eval" THEN "eval" ELSE "draft"]
  IN [Loaded([shown EXCEPT !.tab["right"] = right.step,
                !.at["right"][right.step] = shown.chapter], right)
        EXCEPT !.side = "right"]

SplitClosed(d) == [d EXCEPT !.split = FALSE, !.side = "left"]

-----------------------------------------------------------------------------
(* The state *)

\* The summary of a chapter that was confirmed earlier.
Settled(c) ==
  [of |-> c, n |-> 0, ai |-> IF c <= Collected THEN {} ELSE 1 .. (c - Window),
   raw |-> IF c <= Collected THEN 1 .. c ELSE (c - Window + 1) .. c, whole |-> TRUE]

\* A document that has not been loaded since the program started.
Unloaded == Blank(0)

\* The window opens at the tab and the chapters it was left at; the chapters before
\* them are confirmed. Only the document of the tab is loaded.
AssistantInit ==
  /\ \E start \in Chapter, tab \in {"draft", "eval"} : \E other \in {1, start} :
       LET at    == [t \in Step |-> IF t = tab THEN start ELSE other]
           files == [t \in Step |-> [c \in Chapter |->
                       IF t = "summary" /\ c < start THEN Settled(c) ELSE Blank(c)]]
       IN desk = [tab |-> [s \in Side |-> IF s = "left" THEN tab ELSE "draft"],
                  split |-> FALSE, side |-> "left", chapter |-> start, was |-> Nothing,
                  at |-> [s \in Side |-> at],
                  doc |-> [t \in Step |-> IF t = tab THEN files[t][start] ELSE Unloaded],
                  dirty |-> {}, timers |-> {}, files |-> files]
  /\ ai = [shown |-> FALSE, step |-> "draft", key |-> Nothing, active |-> Nothing,
           box |-> [t \in Step |-> EmptyBox]]
  /\ workers = {}
  /\ kept = [history |-> {}, dialogs |-> {}, cancelled |-> {}, failed |-> {}]
  /\ past = [edits |-> 0, moves |-> 0, requests |-> 0, faults |-> 0, closed |-> FALSE,
             newest |-> [t \in Step |-> [c \in Chapter |-> 0]], causes |-> {}]

\* is_working.
Working == ai.active # Nothing

\* A write succeeds, or fails within the bound.
Outcome(ok) == ok \/ past.faults < MaxFaults

Open == ~ past.closed

Apart(d) == \E t \in Step : d.at["left"][t] # d.at["right"][t]

\* Causes: the window was split; the panels of a step showed two chapters; a
\* document that was never loaded was saved.
Causes(d) ==
  (IF d.split THEN {"split"} ELSE {}) \cup (IF Apart(d) THEN {"apart"} ELSE {})
    \cup (IF \E t \in Step, c \in Chapter : d.files[t][c].of = 0 THEN {"unloaded"} ELSE {})

Acts == past.edits + past.moves + past.requests

\* What every step of the user records.
Did(move, edit, ok, more) ==
  /\ Acts + move <= MaxActs
  /\ past' = [past EXCEPT !.moves = @ + move, !.edits = @ + edit,
                !.faults = IF ok THEN @ ELSE @ + 1,
                !.causes = @ \cup Causes(desk') \cup more]

\* A text is new to its chapter.
Newer(text) == [text EXCEPT !.n = past.edits + 1]

DidWrite(step, c, ok) ==
  /\ Acts < MaxActs
  /\ past' = [past EXCEPT !.edits = @ + 1, !.newest[step][c] = past.edits + 1,
                !.faults = IF ok THEN @ ELSE @ + 1, !.causes = @ \cup Causes(desk')]

-----------------------------------------------------------------------------
(* The writer *)

Visible(p) == p.step # "settings" /\ (p.side = "left" \/ desk.split) /\ desk.tab[p.side] = p.step

TypeText ==
  LET p == Active(desk)
  IN /\ Open /\ p.step # "settings"
     /\ desk' = Written(desk, p.step, Newer(desk.doc[p.step]))
     /\ DidWrite(p.step, desk.doc[p.step].of, TRUE)
     /\ UNCHANGED <<ai, workers, kept>>

\* A timer of five seconds ends.
Autosave ==
  /\ Open
  /\ \E p \in desk.timers, ok \in BOOLEAN :
       /\ Outcome(ok)
       /\ desk' = Synced(desk, p, ok)
       /\ Did(0, 0, ok, {})
  /\ UNCHANGED <<ai, workers, kept>>

\* manual_save, by the key.
ManualSave ==
  LET p == Active(desk)
  IN /\ Open /\ p.step # "settings"
     /\ \E ok \in BOOLEAN :
          /\ Outcome(ok) /\ desk' = Synced(desk, p, ok) /\ Did(1, 0, ok, {})
     /\ UNCHANGED <<ai, workers, kept>>

\* save_content, by the button of a panel, writes to the chapter of the toolbar.
SaveContent ==
  /\ Open
  /\ \E p \in {[side |-> s, step |-> desk.tab[s]] : s \in Side} :
       /\ Visible(p)
       /\ desk' = [desk EXCEPT !.files[p.step][desk.chapter] = desk.doc[p.step],
                     !.dirty = IF Active(desk).step = p.step THEN @ \ {p.step} ELSE @]
       /\ Did(1, 0, TRUE,
              IF desk.chapter # desk.at[p.side][p.step] THEN {"toolbar"} ELSE {})
  /\ UNCHANGED <<ai, workers, kept>>

\* A click in the sidebar, which is disabled while the panel is open, as the chapter
\* selector is.
SwitchTab ==
  /\ Open /\ ~ ai.shown
  /\ \E tab \in Tab, ok \in BOOLEAN :
       /\ Outcome(ok) /\ tab # desk.tab[desk.side]
       /\ desk' = Switched(desk, tab, ok) /\ Did(1, 0, ok, {})
  /\ UNCHANGED <<ai, workers, kept>>

ChangeChapter ==
  /\ Open /\ ~ ai.shown /\ Active(desk).step # "settings"
  /\ \E c \in Chapter, ok \in BOOLEAN :
       /\ Outcome(ok) /\ c # desk.chapter
       /\ desk' = Turned(desk, c, ok, FALSE) /\ Did(1, 0, ok, {})
  /\ UNCHANGED <<ai, workers, kept>>

\* on_focus_changed.
Focus ==
  /\ Open /\ desk.split
  /\ \E side \in Side :
       /\ side # desk.side /\ desk.tab[side] # "settings"
       /\ desk' = [desk EXCEPT !.side = side, !.chapter = desk.at[side][desk.tab[side]]]
  /\ Did(1, 0, TRUE, {})
  /\ UNCHANGED <<ai, workers, kept>>

\* goto_search_result, also while the panel is open: the chapter is refused then, the
\* tab is not, and the editor that takes the focus brings its own chapter.
Focused(d) ==
  LET p == Active(d)
  IN IF p.step = "settings" THEN d ELSE [d EXCEPT !.chapter = d.at[p.side][p.step]]

Jumped(step, c, turned, switched) ==
  LET there == IF c = desk.chapter THEN desk ELSE Turned(desk, c, turned, ai.shown)
  IN Focused(Switched(there, step, switched))

GotoSearchResult ==
  /\ Open
  /\ \E step \in Step, c \in Chapter, turned, switched \in BOOLEAN :
       /\ Outcome(turned /\ switched)
       /\ desk' = Jumped(step, c, turned, switched)
       /\ Did(1, 0, turned /\ switched, {})
  /\ UNCHANGED <<ai, workers, kept>>

ToggleSplit ==
  /\ Open /\ desk.tab["left"] # "settings"
  /\ \E ok \in BOOLEAN :
       /\ Outcome(ok)
       /\ IF desk.split THEN ok /\ desk' = SplitClosed(desk)
          ELSE ~ ai.shown /\ desk' = SplitOpened(desk, ok)
       /\ Did(1, 0, ok, {})
  /\ UNCHANGED <<ai, workers, kept>>

-----------------------------------------------------------------------------
(* Requests and answers *)

Interrupted(req) ==
  {IF w.req = req THEN [w EXCEPT !.interrupted = TRUE] ELSE w : w \in workers}

\* _cancel_ai_request: the answer may be in the queue already.
Cancelled ==
  /\ workers' = IF Working THEN Interrupted(ai.active) ELSE workers
  /\ kept' = IF Working THEN [kept EXCEPT !.cancelled = @ \cup {ai.active}] ELSE kept

Hidden == [ai EXCEPT !.shown = FALSE, !.active = Nothing,
             !.box[ai.step].final = FALSE, !.box[ai.step].raws = {}]

\* stop_ai_generation.
StopGeneration ==
  /\ Open /\ Working
  /\ ai' = [ai EXCEPT !.active = Nothing]
  /\ Cancelled
  /\ UNCHANGED <<desk, past>>

\* hide_ai_panel, by the button.
HidePanel ==
  /\ Open /\ ai.shown
  /\ ai' = Hidden /\ Cancelled
  /\ UNCHANGED <<desk, past>>

\* handle_ai_open: the chat starts anew for another chapter or step.
OpenPanel ==
  LET step == desk.tab["left"]
      key  == <<desk.chapter, step>>
  IN /\ Open /\ ~ desk.split /\ step # "settings" /\ ~ Working
     /\ ai' = IF ai.key = key THEN [ai EXCEPT !.shown = TRUE]
              ELSE [ai EXCEPT !.shown = TRUE, !.step = step, !.key = key, !.box[step] = EmptyBox]
     /\ UNCHANGED <<desk, workers, kept>>
     /\ Did(1, 0, TRUE, {})

\* _start_ai_request: the request is for the chapter of the toolbar, and its
\* messages are those of the panel.
Ask(step, box) ==
  LET req == [id |-> past.requests + 1, step |-> step, chapter |-> desk'.chapter,
              about |-> box.session]
  IN /\ Acts < MaxActs
     /\ ai' = [ai EXCEPT !.shown = TRUE, !.step = step, !.key = <<desk'.chapter, step>>,
                 !.active = req, !.box[step] = box]
     /\ workers' = workers \cup {[req |-> req, at |-> "running", interrupted |-> FALSE]}

Asked(ok, more) ==
  past' = [past EXCEPT !.requests = @ + 1, !.faults = IF ok THEN @ ELSE @ + 1,
             !.causes = @ \cup Causes(desk') \cup more]

StaleToolbar == IF desk.chapter # desk.at["left"][desk.tab["left"]] THEN {"toolbar"} ELSE {}

\* handle_ai_generation on a draft: the text of the editor, after the summary of
\* the chapter before.
GenerateDraft ==
  LET about == {desk.doc["draft"].of}
  IN /\ Open /\ ~ desk.split /\ desk.tab["left"] = "draft" /\ ~ Working
     /\ \E ok \in BOOLEAN :
          /\ Outcome(ok)
          /\ desk' = Brought(desk, "completed", desk.chapter, ok)
          /\ IF ~ ok /\ desk.at["left"]["completed"] # desk.chapter
             THEN Did(0, 0, ok, {}) /\ UNCHANGED <<ai, workers>>
             ELSE /\ Ask("draft", [ai.box["draft"] EXCEPT !.answers = {}, !.session = about])
                  /\ Asked(ok, StaleToolbar)
     /\ UNCHANGED kept

\* handle_ai_generation on a completed text: its evaluation, on the tab of the
\* evaluations, which is turned to the chapter if the panel is not open.
GenerateEvaluation ==
  LET about == {desk.doc["completed"].of}
  IN /\ Open /\ ~ desk.split /\ desk.tab["left"] = "completed" /\ ~ Working
     /\ \E ok \in BOOLEAN :
          /\ Outcome(ok)
          /\ desk' = Turned(Switched(desk, "eval", ok), desk.chapter, ok, ai.shown)
          /\ Ask("eval", [ai.box["eval"] EXCEPT !.answers = {}, !.session = about])
          /\ Asked(ok, StaleToolbar \cup IF ai.shown THEN {"open"} ELSE {})
     /\ UNCHANGED kept

\* handle_ai_feedback, from the open panel: a request for the chapter of the toolbar
\* about what the panel's session is about.
Feedback ==
  /\ Open /\ ai.shown /\ ~ Working
  /\ desk' = desk
  /\ Ask(ai.step, ai.box[ai.step])
  /\ Asked(TRUE, IF ai.key # <<desk.chapter, ai.step>> THEN {"jumped"} ELSE {})
  /\ UNCHANGED kept

\* AIGenerationWorker.run.
WorkerEnds ==
  /\ \E w \in workers :
       /\ w.at = "running"
       /\ \/ /\ ~ w.interrupted
             /\ \E end \in {"answered", "failed"} :
                  workers' = (workers \ {w}) \cup {[w EXCEPT !.at = end]}
          \/ w.interrupted /\ workers' = workers \ {w}
  /\ UNCHANGED <<desk, ai, kept, past>>

\* Mutant: an answer is recognized by its step and chapter.
SamePlace(req) ==
  Working /\ ai.active.step = req.step /\ ai.active.chapter = req.chapter

\* The answer to the request that is active.
Expected(req) == req = ai.active

\* on_ai_finished: kept in the history, or by a dialog of its own; shown in the
\* panel if that is still the one of the request.
Deliver ==
  \E w \in workers :
    /\ w.at = "answered"
    /\ workers' = workers \ {w}
    /\ IF ~ Expected(w.req) THEN UNCHANGED <<ai, kept, past>>
       ELSE \E ok \in BOOLEAN :
              /\ Outcome(ok)
              /\ kept' = IF ok THEN [kept EXCEPT !.history = @ \cup {w.req}]
                         ELSE [kept EXCEPT !.dialogs = @ \cup {w.req}]
              /\ past' = [past EXCEPT !.faults = IF ok THEN @ ELSE @ + 1]
              /\ ai' = IF ai.shown /\ ai.key = <<desk.chapter, w.req.step>>
                          /\ desk.chapter = w.req.chapter
                       THEN [ai EXCEPT !.active = Nothing, !.box[ai.step].answers = @ \cup {w.req}]
                       ELSE [ai EXCEPT !.active = Nothing]
    /\ UNCHANGED desk

\* on_ai_error.
DeliverError ==
  \E w \in workers :
    /\ w.at = "failed"
    /\ workers' = workers \ {w}
    /\ IF Expected(w.req)
       THEN /\ ai' = [ai EXCEPT !.active = Nothing]
            /\ kept' = [kept EXCEPT !.failed = @ \cup {w.req}]
       ELSE UNCHANGED <<ai, kept>>
    /\ UNCHANGED <<desk, past>>

\* AIResponseRecoveryDialog: saved elsewhere, or given up.
SettleDialog ==
  /\ \E req \in kept.dialogs :
       \/ kept' = [kept EXCEPT !.dialogs = @ \ {req}, !.history = @ \cup {req}]
       \/ kept' = [kept EXCEPT !.dialogs = @ \ {req}, !.cancelled = @ \cup {req}]
  /\ UNCHANGED <<desk, ai, workers, past>>

About(answers) == UNION {r.about : r \in answers}

\* apply_ai_result: a summary replaces the text and ends with the raw chapters;
\* any other answer is added to it. The timer tries a failed save again. An evaluation
\* leaves the panel open.
Apply ==
  LET step  == ai.step
      box   == ai.box[step]
      side  == IF desk.tab["left"] = step THEN "left" ELSE "right"
      c     == desk.at[side][step]
      text  == IF box.final
               THEN [of |-> c, n |-> 0, ai |-> About(box.answers), raw |-> box.raws,
                     whole |-> box.whole]
               ELSE [desk.doc[step] EXCEPT !.ai = @ \cup About(box.answers)]
  IN /\ Open /\ ai.shown /\ box.answers # {} /\ ~ Working
     /\ ai.key = <<desk.chapter, step>> /\ c = desk.chapter
     /\ desk.tab["left"] = step \/ (desk.split /\ desk.tab["right"] = step)
     /\ \E ok \in BOOLEAN :
          /\ Outcome(ok)
          /\ desk' = Synced(Written(desk, step, Newer(text)), [side |-> side, step |-> step], ok)
          /\ DidWrite(step, text.of, ok)
     /\ ai' = IF step # "eval" THEN Hidden
              ELSE [ai EXCEPT !.box[step].final = FALSE, !.box[step].raws = {}]
     /\ UNCHANGED <<workers, kept>>

-----------------------------------------------------------------------------
(* The final confirmation of a chapter *)

\* The text of the editor that shows the chapter, if it has one.
CompletedOf(c) ==
  IF (\E s \in Side : desk.at[s]["completed"] = c) /\ desk.doc["completed"].n > 0
  THEN desk.doc["completed"] ELSE desk.files["completed"][c]

Earlier(c) == desk.files["summary"][c - 1]

\* Mutant: one chapter too few is left for the raw part.
AskedForLate(c) ==
  IF c = Collected + 1 THEN 1 .. (c - Window) ELSE Earlier(c).ai \cup {c - Window + 1}

\* What is to be summarized: everything at first, later the summary before and
\* the chapter that has left the window.
AskedFor(c) ==
  IF c = Collected + 1 THEN 1 .. (c - Window) ELSE Earlier(c).ai \cup {c - Window}

ConfirmRefused(ok) ==
  ~ ok /\ desk.at["left"]["summary"] # desk.chapter

Confirmable ==
  Open /\ ~ desk.split /\ desk.tab["left"] = "eval" /\ ~ Working

\* The first chapters are collected at once.
ConfirmCollected ==
  LET c    == desk.chapter
      text == [of |-> c, n |-> past.edits + 1, ai |-> {}, whole |-> TRUE,
               raw |-> (1 .. (c - 1)) \cup {CompletedOf(c).of}]
      put(d) == [AtBoth(d, "summary", c) EXCEPT !.files["summary"][c] = text,
                   !.doc["summary"] = text, !.timers = @ \ Pair("summary"),
                   !.dirty = @ \ {"summary"}]
  IN /\ Confirmable /\ c <= Collected
     /\ \E ok \in BOOLEAN :
          /\ Outcome(ok) /\ ~ ConfirmRefused(ok)
          /\ desk' = Switched(put(Brought(desk, "summary", c, ok)), "summary", ok)
          /\ DidWrite("summary", c, ok)
     /\ ai' = Hidden
     /\ UNCHANGED <<workers, kept>>

\* Later ones ask for a summary and keep the raw chapters for its application.
ConfirmRolling ==
  LET c == desk.chapter
  IN /\ Confirmable /\ c > Collected
     /\ \E ok \in BOOLEAN :
          /\ Outcome(ok) /\ ~ ConfirmRefused(ok)
          /\ desk' = Switched(AtBoth(Brought(desk, "summary", c, ok), "summary", c), "summary", ok)
          /\ Ask("summary",
               [answers |-> {}, session |-> AskedFor(c), final |-> TRUE,
                raws |-> ((c - Window + 1) .. (c - 1)) \cup {CompletedOf(c).of},
                whole |-> c = Collected + 1 \/ Earlier(c).whole])
          /\ Asked(ok, StaleToolbar)
     /\ UNCHANGED kept

\* The summary of another chapter could not be saved.
ConfirmFails ==
  /\ Confirmable /\ Outcome(FALSE) /\ ConfirmRefused(FALSE)
  /\ desk' = Brought(desk, "summary", desk.chapter, FALSE)
  /\ Did(0, 0, FALSE, {})
  /\ ai' = Hidden
  /\ UNCHANGED <<workers, kept>>

-----------------------------------------------------------------------------

Unsaved ==
  {t \in desk.dirty : desk.doc[t] # desk.files[t][desk.at["left"][t]]}

SavedAll(d) ==
  [d EXCEPT !.files = [t \in Step |->
     IF t \in d.dirty THEN [d.files[t] EXCEPT ![d.at["left"][t]] = d.doc[t]] ELSE d.files[t]],
     !.dirty = {}, !.timers = {}]

\* closeEvent and check_unsaved_changes: not while a thread runs or a dialog holds
\* an answer; what is not saved is saved or given up.
Close ==
  /\ Open /\ ~ Working /\ workers = {} /\ kept.dialogs = {}
  /\ \E choice \in {"save", "discard"} :
       /\ desk' = IF Unsaved # {} /\ choice = "save" THEN SavedAll(desk) ELSE desk
       /\ past' = [past EXCEPT !.closed = TRUE,
                     !.causes = @ \cup Causes(desk') \cup
                       IF Unsaved # {} /\ choice = "discard" THEN {"discarded"} ELSE {}]
  /\ UNCHANGED <<ai, workers, kept>>

AssistantNext ==
  \/ TypeText \/ Autosave \/ ManualSave \/ SaveContent
  \/ SwitchTab \/ ChangeChapter \/ GotoSearchResult \/ Focus \/ ToggleSplit
  \/ StopGeneration \/ HidePanel \/ OpenPanel
  \/ GenerateDraft \/ GenerateEvaluation \/ Feedback
  \/ WorkerEnds \/ Deliver \/ DeliverError \/ SettleDialog \/ Apply
  \/ ConfirmCollected \/ ConfirmRolling \/ ConfirmFails
  \/ Close

AssistantSpec == AssistantInit /\ [][AssistantNext]_assistantVars

-----------------------------------------------------------------------------

Never(causes) == past.causes \cap causes = {}

\* "The shared document belongs to its panel's chapter, not the toolbar": a file
\* has the text that was written for its chapter. Except after two panels of one
\* step stood at different chapters, which opening the split can leave behind
\* for good (both timers then save the one document), and after the save button
\* of a panel whose chapter is not the toolbar's.
TextStaysInItsChapter ==
  Never({"apart", "toolbar", "unloaded"}) =>
    \A t \in Step, c \in Chapter : desk.files[t][c].of = c

\* What was typed or applied last is in its file, or in its document with a timer
\* that will save it, through failed writes and changes of tab and chapter; unless
\* the window was split, where a tab opened in one column reloads what was typed in
\* the other one.
NothingTypedIsLost ==
  Never({"split", "discarded", "unloaded"}) =>
    \A t \in Step, c \in Chapter :
      \/ desk.files[t][c].n = past.newest[t][c]
      \/ /\ Open /\ desk.doc[t].of = c /\ desk.doc[t].n = past.newest[t][c]
         /\ desk.timers \cap Pair(t) # {}

\* A draft or an evaluation is filed with the chapter it is about, in the history
\* and in the text; except an evaluation asked for while the panel was open, which
\* leaves the tab at its old chapter, and after feedback in a panel that a jump from
\* the search has left behind.
AnswersReachTheirChapter ==
  Never({"apart", "toolbar", "open", "jumped", "unloaded"}) =>
    \A t \in {"draft", "eval"} :
      /\ \A r \in kept.history : r.step = t => r.about \subseteq {r.chapter}
      /\ \A c \in Chapter : desk.files[t][c].ai \subseteq {c}

\* A summary that was built on a whole one has every chapter once, summarized or
\* raw.
SummariesAreWhole ==
  Never({"apart", "toolbar", "open", "jumped", "unloaded"}) =>
    \A c \in Chapter :
      LET s == desk.files["summary"][c] IN
      s.whole => s.ai \cup s.raw = 1 .. c /\ s.ai \cap s.raw = {}

\* Every request has one end: its answer is kept, it failed, or the writer gave
\* it up; and an answer that was given up enters nothing.
AnswersEndOnce ==
  LET ends == <<kept.history, kept.dialogs, kept.cancelled, kept.failed,
                {ai.active} \ {Nothing}>>
  IN /\ \A i, j \in DOMAIN ends : i < j => ends[i] \cap ends[j] = {}
     /\ Cardinality(UNION {ends[i] : i \in DOMAIN ends}) = past.requests
     /\ Working => \E w \in workers : w.req = ai.active
     /\ ai.shown /\ Never({"jumped"}) =>
          \A r \in ai.box[ai.step].answers : <<r.chapter, r.step>> = ai.key
=============================================================================
