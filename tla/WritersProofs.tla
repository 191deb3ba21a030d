------------------------------ MODULE WritersProofs ------------------------------
(* Proofs about the window of the assistant, for any number of chapters, of    *)
(* acts and of failed writes.                                                  *)
(*                                                                             *)
(* The invariant has three parts. DeskInv: every text is where it belongs and  *)
(* the newest one is in its file or still has a timer, unless a cause that the *)
(* properties name has occurred. RequestsInv: every request but the active one *)
(* has ended once, and the panel holds messages and answers of one chapter and *)
(* step. TruthInv: what a text and an answer are about is their own chapter,   *)
(* and a whole summary has summarized what has left the window. The first part *)
(* is kept by every handler as a function from desk to desk (SavedIs ..        *)
(* SwitchedKeeps), then by every action; the others are kept on top of it.     *)
EXTENDS MCWriters, FiniteSetTheorems, TLAPS

-----------------------------------------------------------------------------
(* The window of the assistant (AssistantMode) *)

Panel == [side : A!Side, step : A!Step]

Text == [of : Nat, n : Nat, ai : SUBSET Nat, raw : SUBSET Nat, whole : BOOLEAN]

Places == [left : A!Step, right : A!Step, side : A!Side]

Desk ==
  [tab : [A!Side -> A!Tab], split : BOOLEAN, side : A!Side, chapter : A!Chapter,
   was : Places \cup {Nothing}, at : [A!Side -> [A!Step -> A!Chapter]],
   doc : [A!Step -> Text], dirty : SUBSET A!Step, timers : SUBSET Panel,
   files : [A!Step -> [A!Chapter -> Text]]]

\* The right column never shows the settings, and the split is suspended and
\* remembered while the left one does.
Shaped(d) ==
  /\ d \in Desk
  /\ d.tab["right"] \in A!Step
  /\ ~ d.split => d.side = "left"
  /\ d.split => d.tab["left"] \in A!Step
  /\ d.was # Nothing => d.was \in Places /\ ~ d.split /\ d.tab["left"] = "settings"

Even(d) == \A t \in A!Step : d.at["left"][t] = d.at["right"][t]

Unfiled(d) == \E t \in A!Step, c \in A!Chapter : d.files[t][c].of = 0

\* Every text is in its chapter: in the files, and in the documents that have
\* been loaded.
Filed(d) ==
  /\ \A t \in A!Step, c \in A!Chapter : d.files[t][c].of = c
  /\ \A t \in A!Step : d.doc[t] = A!Unloaded \/ d.doc[t].of = d.at["left"][t]

\* The tabs that are shown, or will be shown again, have their documents.
Ready(d) ==
  /\ d.tab["left"] \in A!Step => d.doc[d.tab["left"]].of # 0
  /\ d.split => d.doc[d.tab["right"]].of # 0
  /\ d.was # Nothing => d.doc[d.was.left].of # 0 /\ d.doc[d.was.right].of # 0

\* What one handler does to the desk, field by field.
LEMMA SavedIs ==
  ASSUME NEW d \in Desk, NEW p \in Panel
  PROVE  /\ A!Saved(d, p) \in Desk
         /\ A!Saved(d, p).tab = d.tab /\ A!Saved(d, p).split = d.split
         /\ A!Saved(d, p).side = d.side /\ A!Saved(d, p).chapter = d.chapter
         /\ A!Saved(d, p).was = d.was /\ A!Saved(d, p).at = d.at
         /\ A!Saved(d, p).doc = d.doc
         /\ A!Saved(d, p).dirty = d.dirty \ {p.step}
         /\ A!Saved(d, p).timers = d.timers \ {p}
         /\ \A t \in A!Step, c \in A!Chapter :
              A!Saved(d, p).files[t][c] =
                IF t = p.step /\ c = d.at[p.side][p.step] THEN d.doc[p.step]
                ELSE d.files[t][c]
<1> DEFINE c0 == d.at[p.side][p.step]
           files == [d.files EXCEPT ![p.step][c0] = d.doc[p.step]]
<1>1. /\ p.side \in A!Side /\ p.step \in A!Step
      /\ d.at \in [A!Side -> [A!Step -> A!Chapter]]
      /\ d.doc \in [A!Step -> Text] /\ d.files \in [A!Step -> [A!Chapter -> Text]]
  BY DEF Panel, Desk
<1>2. c0 \in A!Chapter /\ d.doc[p.step] \in Text
  BY <1>1
<1>3. files \in [A!Step -> [A!Chapter -> Text]]
  BY <1>1, <1>2
<1>4. \A t \in A!Step, c \in A!Chapter :
        files[t][c] = IF t = p.step /\ c = c0 THEN d.doc[p.step] ELSE d.files[t][c]
  BY <1>1, <1>2
<1> HIDE DEF c0, files
<1>5. A!Saved(d, p) = [d EXCEPT !.files = files, !.timers = @ \ {p}, !.dirty = @ \ {p.step}]
  BY <1>1 DEF A!Saved, Desk, files, c0
<1>6. A!Saved(d, p) \in Desk
  BY <1>3, <1>5 DEF Desk
<1>7. A!Saved(d, p).files = files
  BY <1>5 DEF Desk
<1>8. \A t \in A!Step, c \in A!Chapter :
        A!Saved(d, p).files[t][c] =
          IF t = p.step /\ c = d.at[p.side][p.step] THEN d.doc[p.step] ELSE d.files[t][c]
  BY <1>4, <1>7 DEF c0
<1> QED BY <1>5, <1>6, <1>8 DEF Desk

LEMMA SaveFailedIs ==
  ASSUME NEW d \in Desk, NEW p \in Panel
  PROVE  /\ A!SaveFailed(d, p) \in Desk
         /\ A!SaveFailed(d, p).tab = d.tab /\ A!SaveFailed(d, p).split = d.split
         /\ A!SaveFailed(d, p).side = d.side /\ A!SaveFailed(d, p).chapter = d.chapter
         /\ A!SaveFailed(d, p).was = d.was /\ A!SaveFailed(d, p).at = d.at
         /\ A!SaveFailed(d, p).doc = d.doc /\ A!SaveFailed(d, p).files = d.files
         /\ A!SaveFailed(d, p).dirty = d.dirty \cup {p.step}
         /\ A!SaveFailed(d, p).timers = d.timers \cup {p}
  BY DEF A!SaveFailed, Desk, Panel

LEMMA PairIs ==
  ASSUME NEW t \in A!Step
  PROVE  /\ A!Pair(t) \subseteq Panel /\ A!Pair(t) # {}
         /\ \A q \in Panel : q \in A!Pair(t) <=> q.step = t
<1>1. \A s \in A!Side : [side |-> s, step |-> t] \in Panel
  BY DEF Panel
<1>2. A!Pair(t) \subseteq Panel
  BY <1>1 DEF A!Pair
<1>3. [side |-> "left", step |-> t] \in A!Pair(t)
  BY DEF A!Pair, A!Side
<1>4. \A q \in Panel : q.side \in A!Side /\ q = [side |-> q.side, step |-> q.step]
  BY DEF Panel
<1>5. \A q \in Panel : q \in A!Pair(t) <=> q.step = t
  BY <1>4 DEF A!Pair
<1> QED BY <1>2, <1>3, <1>5

LEMMA LoadedIs ==
  ASSUME NEW d \in Desk, NEW p \in Panel
  PROVE  /\ A!Loaded(d, p) \in Desk
         /\ A!Loaded(d, p).tab = d.tab /\ A!Loaded(d, p).split = d.split
         /\ A!Loaded(d, p).side = d.side /\ A!Loaded(d, p).chapter = d.chapter
         /\ A!Loaded(d, p).was = d.was /\ A!Loaded(d, p).at = d.at
         /\ A!Loaded(d, p).files = d.files
         /\ A!Loaded(d, p).dirty = d.dirty \ {p.step}
         /\ A!Loaded(d, p).timers = d.timers \ A!Pair(p.step)
         /\ \A t \in A!Step :
              A!Loaded(d, p).doc[t] =
                IF t = p.step THEN d.files[p.step][d.at[p.side][p.step]] ELSE d.doc[t]
<1> DEFINE text == d.files[p.step][d.at[p.side][p.step]]
           doc == [d.doc EXCEPT ![p.step] = text]
<1>1. /\ p.side \in A!Side /\ p.step \in A!Step
      /\ d.at \in [A!Side -> [A!Step -> A!Chapter]]
      /\ d.doc \in [A!Step -> Text] /\ d.files \in [A!Step -> [A!Chapter -> Text]]
  BY DEF Panel, Desk
<1>2. text \in Text
  BY <1>1
<1>3. doc \in [A!Step -> Text]
  BY <1>1, <1>2
<1>4. \A t \in A!Step : doc[t] = IF t = p.step THEN text ELSE d.doc[t]
  BY <1>1
<1>5. A!Loaded(d, p) =
        [d EXCEPT !.doc = doc, !.timers = @ \ A!Pair(p.step), !.dirty = @ \ {p.step}]
  BY <1>1 DEF A!Loaded, Desk
<1> HIDE DEF text, doc
<1>6. A!Loaded(d, p) \in Desk /\ A!Loaded(d, p).doc = doc
  BY <1>3, <1>5 DEF Desk
<1>7. \A t \in A!Step :
        A!Loaded(d, p).doc[t] =
          IF t = p.step THEN d.files[p.step][d.at[p.side][p.step]] ELSE d.doc[t]
  BY <1>4, <1>6 DEF text
<1> QED BY <1>5, <1>6, <1>7 DEF Desk

LEMMA AtBothIs ==
  ASSUME NEW d \in Desk, NEW step \in A!Step, NEW c \in A!Chapter
  PROVE  /\ A!AtBoth(d, step, c) \in Desk
         /\ A!AtBoth(d, step, c).tab = d.tab /\ A!AtBoth(d, step, c).split = d.split
         /\ A!AtBoth(d, step, c).side = d.side /\ A!AtBoth(d, step, c).chapter = d.chapter
         /\ A!AtBoth(d, step, c).was = d.was /\ A!AtBoth(d, step, c).doc = d.doc
         /\ A!AtBoth(d, step, c).files = d.files /\ A!AtBoth(d, step, c).dirty = d.dirty
         /\ A!AtBoth(d, step, c).timers = d.timers
         /\ \A s \in A!Side, t \in A!Step :
              A!AtBoth(d, step, c).at[s][t] = IF t = step THEN c ELSE d.at[s][t]
<1> DEFINE one == [d.at EXCEPT !["left"][step] = c]
           at == [one EXCEPT !["right"][step] = c]
<1>1. d.at \in [A!Side -> [A!Step -> A!Chapter]] /\ A!Side = {"left", "right"}
  BY DEF Desk, A!Side
<1>2. /\ one \in [A!Side -> [A!Step -> A!Chapter]]
      /\ \A s \in A!Side, t \in A!Step :
           one[s][t] = IF s = "left" /\ t = step THEN c ELSE d.at[s][t]
  BY <1>1
<1> DEFINE e == [d EXCEPT !.at["left"][step] = c]
<1>a. e = [d EXCEPT !.at = one]
  BY DEF Desk
<1>b. e.at = one /\ A!AtBoth(d, step, c) = [e EXCEPT !.at["right"][step] = c]
  BY <1>a DEF A!AtBoth, Desk
<1> HIDE DEF e
<1>3. A!AtBoth(d, step, c) = [d EXCEPT !.at = at]
  BY <1>a, <1>b DEF Desk
<1> HIDE DEF one
<1>4. /\ at \in [A!Side -> [A!Step -> A!Chapter]]
      /\ \A s \in A!Side, t \in A!Step :
           at[s][t] = IF s = "right" /\ t = step THEN c ELSE one[s][t]
  BY <1>1, <1>2
<1> HIDE DEF at
<1>5. A!AtBoth(d, step, c).at = at /\ A!AtBoth(d, step, c) \in Desk
  BY <1>3, <1>4 DEF Desk
<1>6. \A s \in A!Side, t \in A!Step :
        A!AtBoth(d, step, c).at[s][t] = IF t = step THEN c ELSE d.at[s][t]
  BY <1>1, <1>2, <1>4, <1>5
<1> QED BY <1>3, <1>5, <1>6 DEF Desk

LEMMA WrittenIs ==
  ASSUME NEW d \in Desk, NEW step \in A!Step, NEW text \in Text
  PROVE  /\ A!Written(d, step, text) \in Desk
         /\ A!Written(d, step, text).tab = d.tab /\ A!Written(d, step, text).split = d.split
         /\ A!Written(d, step, text).side = d.side
         /\ A!Written(d, step, text).chapter = d.chapter
         /\ A!Written(d, step, text).was = d.was /\ A!Written(d, step, text).at = d.at
         /\ A!Written(d, step, text).files = d.files
         /\ A!Written(d, step, text).dirty = d.dirty \cup {step}
         /\ A!Written(d, step, text).timers = d.timers \cup A!Pair(step)
         /\ \A t \in A!Step :
              A!Written(d, step, text).doc[t] = IF t = step THEN text ELSE d.doc[t]
<1> DEFINE doc == [d.doc EXCEPT ![step] = text]
<1>1. d.doc \in [A!Step -> Text] /\ A!Pair(step) \subseteq Panel
  BY PairIs DEF Desk
<1>2. doc \in [A!Step -> Text] /\ \A t \in A!Step : doc[t] = IF t = step THEN text ELSE d.doc[t]
  BY <1>1
<1>3. A!Written(d, step, text) =
        [d EXCEPT !.doc = doc, !.timers = @ \cup A!Pair(step), !.dirty = @ \cup {step}]
  BY DEF A!Written, Desk
<1> HIDE DEF doc
<1>4. A!Written(d, step, text).doc = doc
  BY <1>3 DEF Desk
<1>5. A!Written(d, step, text).timers \subseteq Panel /\ A!Written(d, step, text).dirty \subseteq A!Step
  BY <1>1, <1>3 DEF Desk
<1>6. A!Written(d, step, text) \in Desk
  BY <1>2, <1>3, <1>4, <1>5 DEF Desk
<1> QED BY <1>2, <1>3, <1>4, <1>6 DEF Desk

-----------------------------------------------------------------------------
(* What a summary holds, and what the handlers keep *)

\* The chapters of a whole summary of chapter k: those that are summarized in it,
\* and those that are in it in full.
Early(k) == IF k <= Collected THEN {} ELSE 1 .. (k - Window)

Late(k) == IF k <= Collected THEN 1 .. k ELSE (k - Window + 1) .. k

\* What an answer for step t of chapter k may be about.
Apt(t, k, about) ==
  /\ t \in {"draft", "eval"} => about \subseteq {k}
  /\ t = "summary" => about \subseteq Early(k)

TrueText(t, x) ==
  /\ Apt(t, x.of, x.ai)
  /\ t = "summary" /\ x.whole => x.ai = Early(x.of) /\ x.raw = Late(x.of)

TrueTexts(d) ==
  /\ \A t \in A!Step : TrueText(t, d.doc[t])
  /\ \A t \in A!Step, c \in A!Chapter : TrueText(t, d.files[t][c])

Clean(d, t, newest) == \A c \in A!Chapter : d.files[t][c].n = newest[t][c]

\* While the window is not split: a document that was loaded is the newest text
\* of its chapter, and so is the file, except that of the tab that is shown while
\* a timer runs for it.
NewestKept(d, newest) ==
  /\ \A t \in A!Step : d.doc[t].of # 0 => d.doc[t].n = newest[t][d.at["left"][t]]
  /\ \A t \in A!Step, c \in A!Chapter :
       \/ d.files[t][c].n = newest[t][c]
       \/ /\ t = d.tab["left"] /\ c = d.at["left"][t] /\ d.doc[t].of # 0
          /\ d.timers \cap A!Pair(t) # {} /\ t \in d.dirty

Newest == [A!Step -> [A!Chapter -> Nat]]

\* A save of a document that was not loaded shows in the files.
LEMMA SavedUnfiled ==
  ASSUME NEW d \in Desk, NEW p \in Panel, ~ Unfiled(A!Saved(d, p))
  PROVE  d.doc[p.step].of # 0
<1>1. p.step \in A!Step /\ d.at[p.side][p.step] \in A!Chapter
  BY DEF Panel, Desk
<1>2. A!Saved(d, p).files[p.step][d.at[p.side][p.step]] = d.doc[p.step]
  BY <1>1, SavedIs
<1> QED BY <1>1, <1>2 DEF Unfiled

LEMMA SavedKeeps ==
  ASSUME NEW d, Shaped(d), NEW p \in Panel, NEW newest
  PROVE  LET e == A!Saved(d, p) IN
         /\ Shaped(e)
         /\ Even(d) => Even(e)
         /\ Ready(d) => Ready(e)
         /\ TrueTexts(d) => TrueTexts(e)
         /\ Even(d) /\ Filed(d) /\ d.doc[p.step].of # 0 => Filed(e)
         /\ Even(d) /\ NewestKept(d, newest) /\ d.doc[p.step].of # 0 =>
              NewestKept(e, newest) /\ Clean(e, p.step, newest)
<1> DEFINE e == A!Saved(d, p)
<1> HIDE DEF e
<1>0. d \in Desk
  BY DEF Shaped
<1>1. /\ e \in Desk
      /\ e.tab = d.tab /\ e.split = d.split /\ e.side = d.side /\ e.chapter = d.chapter
      /\ e.was = d.was /\ e.at = d.at /\ e.doc = d.doc
      /\ e.dirty = d.dirty \ {p.step} /\ e.timers = d.timers \ {p}
      /\ \A t \in A!Step, c \in A!Chapter :
           e.files[t][c] = IF t = p.step /\ c = d.at[p.side][p.step] THEN d.doc[p.step]
                           ELSE d.files[t][c]
  BY <1>0, SavedIs DEF e
<1>2. /\ p.side \in A!Side /\ p.step \in A!Step /\ p.side \in {"left", "right"}
      /\ d.at[p.side][p.step] \in A!Chapter
  BY <1>0 DEF Panel, Desk, A!Side
<1>3. Shaped(e)
  BY <1>1 DEF Shaped
<1>4. Even(d) => Even(e)
  BY <1>1 DEF Even
<1>5. Ready(d) => Ready(e)
  BY <1>1 DEF Ready
<1>6. TrueTexts(d) => TrueTexts(e)
  BY <1>1, <1>2 DEF TrueTexts
<1>7. Even(d) => d.at[p.side][p.step] = d.at["left"][p.step]
  BY <1>2 DEF Even
<1>8. ASSUME Even(d), Filed(d), d.doc[p.step].of # 0  PROVE Filed(e)
  <2>1. d.doc[p.step].of = d.at[p.side][p.step]
    BY <1>2, <1>7, <1>8 DEF Filed, A!Unloaded, A!Blank
  <2> QED BY <1>1, <1>8, <2>1 DEF Filed
<1>9. ASSUME Even(d), NewestKept(d, newest), d.doc[p.step].of # 0
      PROVE  NewestKept(e, newest) /\ Clean(e, p.step, newest)
  <2>1. \A t \in A!Step : e.doc[t].of # 0 => e.doc[t].n = newest[t][e.at["left"][t]]
    BY <1>1, <1>9 DEF NewestKept
  <2>2. d.doc[p.step].n = newest[p.step][d.at["left"][p.step]]
    BY <1>2, <1>9 DEF NewestKept
  <2>3. Clean(e, p.step, newest)
    <3> SUFFICES ASSUME NEW c \in A!Chapter PROVE e.files[p.step][c].n = newest[p.step][c]
      BY DEF Clean
    <3>1. CASE c = d.at["left"][p.step]
      BY <1>1, <1>2, <1>7, <1>9, <2>2, <3>1
    <3>2. CASE c # d.at["left"][p.step]
      BY <1>1, <1>2, <1>7, <1>9, <3>2 DEF NewestKept
    <3> QED BY <3>1, <3>2
  <2>4. ASSUME NEW t \in A!Step, t # p.step, NEW c \in A!Chapter
        PROVE  \/ e.files[t][c].n = newest[t][c]
               \/ /\ t = e.tab["left"] /\ c = e.at["left"][t] /\ e.doc[t].of # 0
                  /\ e.timers \cap A!Pair(t) # {} /\ t \in e.dirty
    BY <1>1, <1>9, <2>4, PairIs DEF NewestKept
  <2> QED BY <2>1, <2>3, <2>4 DEF NewestKept, Clean
<1> QED BY <1>3, <1>4, <1>5, <1>6, <1>8, <1>9 DEF e

LEMMA SaveFailedKeeps ==
  ASSUME NEW d, Shaped(d), NEW p \in Panel, NEW newest
  PROVE  LET e == A!SaveFailed(d, p) IN
         /\ Shaped(e)
         /\ Even(d) => Even(e)
         /\ Ready(d) => Ready(e)
         /\ TrueTexts(d) => TrueTexts(e)
         /\ Filed(d) => Filed(e)
         /\ NewestKept(d, newest) => NewestKept(e, newest)
<1> DEFINE e == A!SaveFailed(d, p)
<1> HIDE DEF e
<1>1. /\ e \in Desk
      /\ e.tab = d.tab /\ e.split = d.split /\ e.side = d.side /\ e.chapter = d.chapter
      /\ e.was = d.was /\ e.at = d.at /\ e.doc = d.doc /\ e.files = d.files
      /\ e.dirty = d.dirty \cup {p.step} /\ e.timers = d.timers \cup {p}
  BY SaveFailedIs DEF e, Shaped
<1>2. Shaped(e)
  BY <1>1 DEF Shaped
<1>3. (Even(d) => Even(e)) /\ (Ready(d) => Ready(e)) /\ (TrueTexts(d) => TrueTexts(e))
  BY <1>1 DEF Even, Ready, TrueTexts
<1>4. Filed(d) => Filed(e)
  BY <1>1 DEF Filed
<1>5. NewestKept(d, newest) => NewestKept(e, newest)
  BY <1>1 DEF NewestKept
<1> QED BY <1>2, <1>3, <1>4, <1>5 DEF e

\* A panel is loaded again: what is in its document must be in the file.
LEMMA LoadedKeeps ==
  ASSUME NEW d, Shaped(d), NEW p \in Panel, NEW newest
  PROVE  LET e == A!Loaded(d, p) IN
         /\ Shaped(e)
         /\ Even(d) => Even(e)
         /\ TrueTexts(d) => TrueTexts(e)
         /\ Even(d) /\ Filed(d) =>
              /\ Filed(e) /\ e.doc[p.step].of # 0
              /\ \A t \in A!Step : d.doc[t].of # 0 => e.doc[t].of # 0
         /\ Even(d) /\ NewestKept(d, newest) /\ Clean(d, p.step, newest) => NewestKept(e, newest)
<1> DEFINE e == A!Loaded(d, p)
<1> HIDE DEF e
<1>0. d \in Desk
  BY DEF Shaped
<1>1. /\ e \in Desk
      /\ e.tab = d.tab /\ e.split = d.split /\ e.side = d.side /\ e.chapter = d.chapter
      /\ e.was = d.was /\ e.at = d.at /\ e.files = d.files
      /\ e.dirty = d.dirty \ {p.step} /\ e.timers = d.timers \ A!Pair(p.step)
      /\ \A t \in A!Step :
           e.doc[t] = IF t = p.step THEN d.files[p.step][d.at[p.side][p.step]] ELSE d.doc[t]
  BY <1>0, LoadedIs DEF e
<1>2. /\ p.side \in A!Side /\ p.step \in A!Step /\ p.side \in {"left", "right"}
      /\ d.at[p.side][p.step] \in A!Chapter /\ d.at[p.side][p.step] # 0
  BY <1>0 DEF Panel, Desk, A!Side, A!Chapter
<1>3. Shaped(e)
  BY <1>1 DEF Shaped
<1>4. Even(d) => Even(e)
  BY <1>1 DEF Even
<1>5. TrueTexts(d) => TrueTexts(e)
  BY <1>1, <1>2 DEF TrueTexts
<1>6. Even(d) => d.at[p.side][p.step] = d.at["left"][p.step]
  BY <1>2 DEF Even
<1>7. ASSUME Even(d), Filed(d)
      PROVE  /\ Filed(e) /\ e.doc[p.step].of # 0
             /\ \A t \in A!Step : d.doc[t].of # 0 => e.doc[t].of # 0
  <2>1. e.doc[p.step].of = d.at[p.side][p.step]
    BY <1>1, <1>2, <1>7 DEF Filed
  <2>2. \A t \in A!Step, c \in A!Chapter : e.files[t][c].of = c
    BY <1>1, <1>2, <1>7 DEF Filed
  <2>3. ASSUME NEW t \in A!Step PROVE e.doc[t] = A!Unloaded \/ e.doc[t].of = e.at["left"][t]
    <3>1. CASE t = p.step
      <4>1. e.at = d.at
        BY <1>1
      <4> QED BY <1>6, <1>7, <2>1, <3>1, <4>1
    <3>2. CASE t # p.step
      BY <1>1, <1>7, <3>2 DEF Filed
    <3> QED BY <3>1, <3>2
  <2>4. Filed(e)
    BY <2>2, <2>3 DEF Filed
  <2> QED BY <1>1, <1>2, <2>1, <2>4
<1>8. ASSUME Even(d), NewestKept(d, newest), Clean(d, p.step, newest)
      PROVE  NewestKept(e, newest)
  <2>1. ASSUME NEW t \in A!Step, e.doc[t].of # 0
        PROVE  e.doc[t].n = newest[t][e.at["left"][t]]
    <3>1. CASE t = p.step
      <4>1. e.doc[p.step] = d.files[p.step][d.at["left"][p.step]]
        BY <1>1, <1>2, <1>6, <1>8
      <4>2. d.at["left"][p.step] \in A!Chapter
        BY <1>2, <1>6, <1>8
      <4>3. d.files[p.step][d.at["left"][p.step]].n = newest[p.step][d.at["left"][p.step]]
        BY <1>8, <4>2 DEF Clean
      <4> QED BY <1>1, <3>1, <4>1, <4>3
    <3>2. CASE t # p.step
      BY <1>1, <1>8, <2>1, <3>2 DEF NewestKept
    <3> QED BY <3>1, <3>2
  <2>2. ASSUME NEW t \in A!Step, NEW c \in A!Chapter
        PROVE  \/ e.files[t][c].n = newest[t][c]
               \/ /\ t = e.tab["left"] /\ c = e.at["left"][t] /\ e.doc[t].of # 0
                  /\ e.timers \cap A!Pair(t) # {} /\ t \in e.dirty
    <3>1. CASE t = p.step
      BY <1>1, <1>8, <3>1 DEF Clean
    <3>2. CASE t # p.step
      <4>1. e.timers \cap A!Pair(t) = d.timers \cap A!Pair(t)
        BY <1>1, <1>2, <3>2, PairIs
      <4> QED BY <1>1, <1>8, <3>2, <4>1 DEF NewestKept
    <3> QED BY <3>1, <3>2
  <2> QED BY <2>1, <2>2 DEF NewestKept
<1> QED BY <1>3, <1>4, <1>5, <1>7, <1>8 DEF e

-----------------------------------------------------------------------------
(* Turning a step to a chapter *)

\* Both panels of a step have been brought to chapter c and loaded.
TurnedTo(d, e, step, c) ==
  /\ e \in Desk
  /\ e.tab = d.tab /\ e.split = d.split /\ e.side = d.side /\ e.was = d.was
  /\ e.files = d.files
  /\ e.dirty = d.dirty \ {step} /\ e.timers = d.timers \ A!Pair(step)
  /\ \A s \in A!Side, t \in A!Step : e.at[s][t] = IF t = step THEN c ELSE d.at[s][t]
  /\ \A t \in A!Step : e.doc[t] = IF t = step THEN d.files[step][c] ELSE d.doc[t]

LEMMA LoadedAtBoth ==
  ASSUME NEW d \in Desk, NEW p \in Panel, NEW c \in A!Chapter
  PROVE  /\ TurnedTo(d, A!Loaded(A!AtBoth(d, p.step, c), p), p.step, c)
         /\ A!Loaded(A!AtBoth(d, p.step, c), p).chapter = d.chapter
<1> DEFINE f == A!AtBoth(d, p.step, c)
<1> HIDE DEF f
<1>1. p.side \in A!Side /\ p.step \in A!Step
  BY DEF Panel
<1>2. /\ f \in Desk
      /\ f.tab = d.tab /\ f.split = d.split /\ f.side = d.side /\ f.chapter = d.chapter
      /\ f.was = d.was /\ f.doc = d.doc /\ f.files = d.files /\ f.dirty = d.dirty
      /\ f.timers = d.timers
      /\ \A s \in A!Side, t \in A!Step : f.at[s][t] = IF t = p.step THEN c ELSE d.at[s][t]
  BY <1>1, AtBothIs DEF f
<1>3. f.at[p.side][p.step] = c
  BY <1>1, <1>2
<1>4. /\ A!Loaded(f, p) \in Desk
      /\ A!Loaded(f, p).tab = d.tab /\ A!Loaded(f, p).split = d.split
      /\ A!Loaded(f, p).side = d.side /\ A!Loaded(f, p).chapter = d.chapter
      /\ A!Loaded(f, p).was = d.was /\ A!Loaded(f, p).at = f.at
      /\ A!Loaded(f, p).files = d.files
      /\ A!Loaded(f, p).dirty = d.dirty \ {p.step}
      /\ A!Loaded(f, p).timers = d.timers \ A!Pair(p.step)
      /\ \A t \in A!Step : A!Loaded(f, p).doc[t] =
                           IF t = p.step THEN d.files[p.step][c] ELSE d.doc[t]
  BY <1>2, <1>3, LoadedIs
<1>5. TurnedTo(d, A!Loaded(f, p), p.step, c)
  BY <1>2, <1>4 DEF TurnedTo
<1> QED BY <1>4, <1>5 DEF f

LEMMA LoadedAtBothToolbar ==
  ASSUME NEW d \in Desk, NEW p \in Panel, NEW c \in A!Chapter
  PROVE  LET e == A!Loaded([A!AtBoth(d, p.step, c) EXCEPT !.chapter = c], p)
         IN TurnedTo(d, e, p.step, c) /\ e.chapter = c
<1> DEFINE f == A!AtBoth(d, p.step, c)
           g == [f EXCEPT !.chapter = c]
<1> HIDE DEF f
<1>1. p.side \in A!Side /\ p.step \in A!Step
  BY DEF Panel
<1>2. /\ f \in Desk
      /\ f.tab = d.tab /\ f.split = d.split /\ f.side = d.side /\ f.chapter = d.chapter
      /\ f.was = d.was /\ f.doc = d.doc /\ f.files = d.files /\ f.dirty = d.dirty
      /\ f.timers = d.timers
      /\ \A s \in A!Side, t \in A!Step : f.at[s][t] = IF t = p.step THEN c ELSE d.at[s][t]
  BY <1>1, AtBothIs DEF f
<1>3. f.at[p.side][p.step] = c
  BY <1>1, <1>2
<1>4. /\ g \in Desk
      /\ g.tab = f.tab /\ g.split = f.split /\ g.side = f.side /\ g.chapter = c
      /\ g.was = f.was /\ g.doc = f.doc /\ g.files = f.files /\ g.dirty = f.dirty
      /\ g.timers = f.timers /\ g.at = f.at
  BY <1>2 DEF Desk
<1> HIDE DEF g
<1>5. /\ A!Loaded(g, p) \in Desk
      /\ A!Loaded(g, p).tab = d.tab /\ A!Loaded(g, p).split = d.split
      /\ A!Loaded(g, p).side = d.side /\ A!Loaded(g, p).chapter = c
      /\ A!Loaded(g, p).was = d.was /\ A!Loaded(g, p).at = f.at
      /\ A!Loaded(g, p).files = d.files
      /\ A!Loaded(g, p).dirty = d.dirty \ {p.step}
      /\ A!Loaded(g, p).timers = d.timers \ A!Pair(p.step)
      /\ \A t \in A!Step : A!Loaded(g, p).doc[t] =
                           IF t = p.step THEN d.files[p.step][c] ELSE d.doc[t]
  <2>1. g \in Desk
    BY <1>4
  <2>2. /\ A!Loaded(g, p) \in Desk
        /\ A!Loaded(g, p).tab = g.tab /\ A!Loaded(g, p).split = g.split
        /\ A!Loaded(g, p).side = g.side /\ A!Loaded(g, p).chapter = g.chapter
        /\ A!Loaded(g, p).was = g.was /\ A!Loaded(g, p).at = g.at
        /\ A!Loaded(g, p).files = g.files
        /\ A!Loaded(g, p).dirty = g.dirty \ {p.step}
        /\ A!Loaded(g, p).timers = g.timers \ A!Pair(p.step)
        /\ \A t \in A!Step :
             A!Loaded(g, p).doc[t] =
               IF t = p.step THEN g.files[p.step][g.at[p.side][p.step]] ELSE g.doc[t]
    BY <2>1, LoadedIs
  <2> QED BY <1>2, <1>3, <1>4, <2>2
<1>6. TurnedTo(d, A!Loaded(g, p), p.step, c)
  BY <1>2, <1>5 DEF TurnedTo
<1> QED BY <1>5, <1>6 DEF f, g

LEMMA TurnKeeps ==
  ASSUME NEW d, Shaped(d), NEW e, NEW step \in A!Step, NEW c \in A!Chapter,
         TurnedTo(d, e, step, c), NEW newest
  PROVE  /\ Shaped(e)
         /\ Even(d) => Even(e)
         /\ TrueTexts(d) => TrueTexts(e)
         /\ Even(d) /\ Filed(d) => Filed(e)
         /\ Filed(d) /\ Ready(d) => Ready(e)
         /\ Filed(d) => e.doc[step].of # 0
         /\ NewestKept(d, newest) /\ Clean(d, step, newest) => NewestKept(e, newest)
<1>1. /\ e \in Desk /\ d \in Desk
      /\ e.tab = d.tab /\ e.split = d.split /\ e.side = d.side /\ e.was = d.was
      /\ e.files = d.files
      /\ e.dirty = d.dirty \ {step} /\ e.timers = d.timers \ A!Pair(step)
      /\ \A s \in A!Side, t \in A!Step : e.at[s][t] = IF t = step THEN c ELSE d.at[s][t]
      /\ \A t \in A!Step : e.doc[t] = IF t = step THEN d.files[step][c] ELSE d.doc[t]
  BY DEF TurnedTo, Shaped
<1>2. "left" \in A!Side /\ "right" \in A!Side /\ c # 0
  BY DEF A!Side, A!Chapter
<1>3. Shaped(e)
  BY <1>1 DEF Shaped
<1>4. Even(d) => Even(e)
  BY <1>1, <1>2 DEF Even
<1>5. TrueTexts(d) => TrueTexts(e)
  BY <1>1 DEF TrueTexts
<1>6. Filed(d) => e.doc[step].of = c
  BY <1>1 DEF Filed
<1>7. Filed(d) => Filed(e)
  BY <1>1, <1>2, <1>6 DEF Filed
<1>8. ASSUME Filed(d), Ready(d) PROVE Ready(e)
  BY <1>1, <1>2, <1>6, <1>8 DEF Shaped, Places, Ready
<1>9. ASSUME NewestKept(d, newest), Clean(d, step, newest) PROVE NewestKept(e, newest)
  <2>1. ASSUME NEW t \in A!Step, e.doc[t].of # 0
        PROVE  e.doc[t].n = newest[t][e.at["left"][t]]
    <3>1. CASE t = step
      BY <1>1, <1>2, <1>9, <3>1 DEF Clean
    <3>2. CASE t # step
      BY <1>1, <1>2, <1>9, <2>1, <3>2 DEF NewestKept
    <3> QED BY <3>1, <3>2
  <2>2. ASSUME NEW t \in A!Step, NEW k \in A!Chapter
        PROVE  \/ e.files[t][k].n = newest[t][k]
               \/ /\ t = e.tab["left"] /\ k = e.at["left"][t] /\ e.doc[t].of # 0
                  /\ e.timers \cap A!Pair(t) # {} /\ t \in e.dirty
    <3>1. CASE t = step
      BY <1>1, <1>9, <3>1 DEF Clean
    <3>2. CASE t # step
      <4>1. e.timers \cap A!Pair(t) = d.timers \cap A!Pair(t)
        BY <1>1, <3>2, PairIs
      <4> QED BY <1>1, <1>2, <1>9, <3>2, <4>1 DEF NewestKept
    <3> QED BY <3>1, <3>2
  <2> QED BY <2>1, <2>2 DEF NewestKept
<1> QED BY <1>3, <1>4, <1>5, <1>6, <1>7, <1>8, <1>9, <1>2

\* A handler of the AI brings a step to a chapter, or cannot save what is there.
LEMMA BroughtKeeps ==
  ASSUME NEW d, Shaped(d), NEW step \in A!Step, NEW c \in A!Chapter, NEW ok \in BOOLEAN,
         NEW newest
  PROVE  LET e == A!Brought(d, step, c, ok) IN
         /\ Shaped(e)
         /\ e.tab = d.tab /\ e.split = d.split /\ e.side = d.side /\ e.was = d.was
         /\ e.chapter = d.chapter
         /\ Even(d) => Even(e)
         /\ TrueTexts(d) => TrueTexts(e)
         /\ ok /\ d.at["left"][step] # c =>
              e.files[step][d.at["left"][step]] = d.doc[step]
         /\ \A t \in A!Step : t # step => e.files[t] = d.files[t]
         /\ ok \/ d.at["left"][step] = c => e.at["left"][step] = c
         /\ \A t \in A!Step : t # step => e.at["left"][t] = d.at["left"][t]
         /\ \A t \in A!Step : t # step => e.doc[t] = d.doc[t]
         /\ (ok /\ d.at["left"][step] # c => d.doc[step].of # 0) /\ Even(d) /\ Filed(d) =>
              /\ Filed(e)
              /\ Ready(d) => Ready(e)
              /\ NewestKept(d, newest) => NewestKept(e, newest)
<1> DEFINE p == [side |-> "left", step |-> step]
           s == A!Saved(d, p)
           e == A!Brought(d, step, c, ok)
<1>0. d \in Desk /\ p \in Panel /\ p.step = step /\ p.side = "left" /\ "left" \in A!Side
  BY DEF Shaped, Panel, A!Side
<1> HIDE DEF p
<1>1. CASE d.at["left"][step] = c
  BY <1>1 DEF A!Brought
<1>2. CASE d.at["left"][step] # c /\ ~ ok
  <2>1. e = A!SaveFailed(d, p)
    BY <1>2 DEF A!Brought, p
  <2>2. /\ e.tab = d.tab /\ e.split = d.split /\ e.side = d.side /\ e.was = d.was
        /\ e.chapter = d.chapter /\ e.files = d.files /\ e.at = d.at /\ e.doc = d.doc
    BY <1>0, <2>1, SaveFailedIs
  <2> HIDE DEF e
  <2>3. /\ Shaped(e) /\ (Even(d) => Even(e)) /\ (TrueTexts(d) => TrueTexts(e))
        /\ (Filed(d) => Filed(e)) /\ (Ready(d) => Ready(e))
        /\ (NewestKept(d, newest) => NewestKept(e, newest))
    BY <1>0, <2>1, SaveFailedKeeps
  <2> QED BY <1>2, <2>2, <2>3 DEF e
<1>3. CASE d.at["left"][step] # c /\ ok
  <2>1. e = A!Loaded(A!AtBoth(s, p.step, c), p)
    BY <1>0, <1>3 DEF A!Brought, p
  <2>2. /\ s \in Desk
        /\ s.tab = d.tab /\ s.split = d.split /\ s.side = d.side /\ s.chapter = d.chapter
        /\ s.was = d.was /\ s.at = d.at /\ s.doc = d.doc
        /\ \A t \in A!Step, k \in A!Chapter :
             s.files[t][k] = IF t = step /\ k = d.at["left"][step] THEN d.doc[step]
                             ELSE d.files[t][k]
    BY <1>0, SavedIs
  <2>3. Shaped(s) /\ (Even(d) => Even(s)) /\ (TrueTexts(d) => TrueTexts(s))
          /\ (Ready(d) => Ready(s))
    BY <1>0, SavedKeeps
  <2>4. /\ Even(d) /\ Filed(d) /\ d.doc[step].of # 0 => Filed(s)
        /\ Even(d) /\ NewestKept(d, newest) /\ d.doc[step].of # 0 =>
             NewestKept(s, newest) /\ Clean(s, step, newest)
    BY <1>0, SavedKeeps
  <2> HIDE DEF s
  <2>5. TurnedTo(s, e, step, c) /\ e.chapter = s.chapter
    BY <1>0, <2>1, <2>2, LoadedAtBoth
  <2> HIDE DEF e
  <2>6. /\ e.files = s.files /\ e.tab = s.tab /\ e.split = s.split /\ e.side = s.side
        /\ e.was = s.was /\ e.at["left"][step] = c
        /\ \A t \in A!Step : t # step => e.at["left"][t] = s.at["left"][t]
        /\ \A t \in A!Step : t # step => e.doc[t] = s.doc[t]
    BY <1>0, <2>5 DEF TurnedTo
  <2>7. d.at["left"][step] \in A!Chapter
    BY <1>0 DEF Desk
  <2>8. e.files[step][d.at["left"][step]] = d.doc[step]
    BY <2>2, <2>6, <2>7
  <2>10. \A t \in A!Step : t # step => e.files[t] = d.files[t]
    BY <1>0, <2>2, <2>6 DEF Desk
  <2>11. Shaped(e) /\ (Even(s) => Even(e)) /\ (TrueTexts(s) => TrueTexts(e))
    BY <2>3, <2>5, TurnKeeps
  <2>12. /\ Even(s) /\ Filed(s) => Filed(e)
         /\ Filed(s) /\ Ready(s) => Ready(e)
         /\ NewestKept(s, newest) /\ Clean(s, step, newest) => NewestKept(e, newest)
    BY <2>3, <2>5, TurnKeeps
  <2>13. d.doc[step].of # 0 /\ Even(d) /\ Filed(d) =>
           /\ Filed(e)
           /\ Ready(d) => Ready(e)
           /\ NewestKept(d, newest) => NewestKept(e, newest)
    BY <2>3, <2>4, <2>12
  <2>14. /\ Shaped(e) /\ (Even(d) => Even(e)) /\ (TrueTexts(d) => TrueTexts(e))
         /\ e.tab = d.tab /\ e.split = d.split /\ e.side = d.side /\ e.was = d.was
         /\ e.chapter = d.chapter
    BY <2>2, <2>3, <2>5, <2>6, <2>11
  <2>15. /\ \A t \in A!Step : t # step => e.at["left"][t] = d.at["left"][t]
         /\ \A t \in A!Step : t # step => e.doc[t] = d.doc[t]
         /\ e.at["left"][step] = c
    BY <2>2, <2>6
  <2> QED BY <1>3, <2>8, <2>10, <2>13, <2>14, <2>15 DEF e
<1> QED BY <1>1, <1>2, <1>3

-----------------------------------------------------------------------------
(* Switching the tab *)

LEMMA ActiveIs ==
  ASSUME NEW d, Shaped(d)
  PROVE  /\ A!Active(d) = [side |-> d.side, step |-> d.tab[d.side]]
         /\ d.side \in A!Side /\ d.tab[d.side] \in A!Tab
         /\ d.tab[d.side] # "settings" => A!Active(d) \in Panel
         /\ ~ d.split => d.side = "left"
<1>1. /\ d.side \in A!Side /\ d.tab \in [A!Side -> A!Tab] /\ A!Side = {"left", "right"}
      /\ d.split \in BOOLEAN
  BY DEF Shaped, Desk, A!Side
<1>2. ~ d.split => d.side = "left"
  BY DEF Shaped
<1>3. (IF d.split /\ d.side = "right" THEN "right" ELSE "left") = d.side
  BY <1>1, <1>2
<1>4. A!Active(d) = [side |-> d.side, step |-> d.tab[d.side]]
  BY <1>3 DEF A!Active
<1>5. d.tab[d.side] \in A!Tab
  BY <1>1
<1>6. d.tab[d.side] # "settings" => d.tab[d.side] \in A!Step
  BY <1>5 DEF A!Tab
<1> QED BY <1>1, <1>2, <1>4, <1>5, <1>6 DEF Panel

\* The split is suspended for the settings and restored after them.
LEMMA ArrangedIs ==
  ASSUME NEW d, Shaped(d), NEW tab \in A!Tab
  PROVE  LET e == A!Arranged(d, tab) IN
         /\ e \in Desk /\ e.tab["right"] \in A!Step
         /\ e.chapter = d.chapter /\ e.at = d.at /\ e.doc = d.doc
         /\ e.dirty = d.dirty /\ e.timers = d.timers /\ e.files = d.files
         /\ (~ e.split => e.side = "left")
         /\ tab = "settings" => ~ e.split /\ e.tab = d.tab
         /\ tab # "settings" => e.was = Nothing
         /\ tab # "settings" /\ e.split => e.tab["left"] \in A!Step
         /\ e.was # Nothing => e.was \in Places
         /\ d.was = Nothing /\ ~ d.split => e = d
         /\ Ready(d) /\ tab = "settings" /\ e.was # Nothing =>
              e.doc[e.was.left].of # 0 /\ e.doc[e.was.right].of # 0
         /\ Ready(d) /\ tab # "settings" =>
              /\ e.tab["left"] \in A!Step => e.doc[e.tab["left"]].of # 0
              /\ e.split => e.doc[e.tab["right"]].of # 0
<1> DEFINE e == A!Arranged(d, tab)
           was == [left |-> d.tab["left"], right |-> d.tab["right"], side |-> d.side]
<1>1. /\ d \in Desk /\ d.side \in A!Side /\ d.tab \in [A!Side -> A!Tab]
      /\ d.split \in BOOLEAN /\ d.tab["right"] \in A!Step
      /\ (~ d.split => d.side = "left") /\ (d.split => d.tab["left"] \in A!Step)
      /\ (d.was # Nothing => d.was \in Places /\ ~ d.split /\ d.tab["left"] = "settings")
      /\ A!Side = {"left", "right"} /\ "settings" \notin A!Step /\ A!Step \subseteq A!Tab
  BY DEF Shaped, Desk, A!Side, A!Step, A!Tab
<1>2. CASE tab = "settings" /\ d.split
  <2>1. was \in Places /\ was.left = d.tab["left"] /\ was.right = d.tab["right"]
    BY <1>1, <1>2 DEF Places
  <2> HIDE DEF was
  <2>2. e = [d EXCEPT !.split = FALSE, !.side = "left", !.was = was]
    BY <1>2 DEF A!Arranged, was
  <2>3. /\ e \in Desk /\ e.split = FALSE /\ e.side = "left" /\ e.was = was /\ e.tab = d.tab
        /\ e.chapter = d.chapter /\ e.at = d.at /\ e.doc = d.doc
        /\ e.dirty = d.dirty /\ e.timers = d.timers /\ e.files = d.files
    BY <1>1, <2>1, <2>2 DEF Desk
  <2> HIDE DEF e
  <2>4. Ready(d) => e.doc[was.left].of # 0 /\ e.doc[was.right].of # 0
    BY <1>1, <1>2, <2>1, <2>3 DEF Ready
  <2> QED BY <1>1, <1>2, <2>1, <2>3, <2>4 DEF e
<1>3. CASE tab = "settings" /\ ~ d.split
  <2>1. e = d
    BY <1>1, <1>3 DEF A!Arranged, Desk
  <2> HIDE DEF e
  <2> QED BY <1>1, <1>3, <2>1 DEF e, Ready
<1>4. CASE tab # "settings" /\ d.was = Nothing
  <2>1. e = d
    BY <1>4 DEF A!Arranged
  <2> HIDE DEF e
  <2> QED BY <1>1, <1>4, <2>1 DEF e, Ready
<1>5. CASE tab # "settings" /\ d.was # Nothing
  <2> DEFINE both == [left |-> d.was.left, right |-> d.was.right]
  <2>1. d.was.left \in A!Step /\ d.was.right \in A!Step /\ d.was.side \in A!Side
    BY <1>1, <1>5 DEF Places
  <2>2. both \in [A!Side -> A!Tab] /\ both["left"] = d.was.left /\ both["right"] = d.was.right
    BY <1>1, <2>1
  <2>3. e = [d EXCEPT !.split = TRUE, !.side = d.was.side, !.was = Nothing, !.tab = both]
    BY <1>5 DEF A!Arranged
  <2> HIDE DEF both
  <2>4. /\ e \in Desk /\ e.split = TRUE /\ e.side = d.was.side /\ e.was = Nothing /\ e.tab = both
        /\ e.chapter = d.chapter /\ e.at = d.at /\ e.doc = d.doc
        /\ e.dirty = d.dirty /\ e.timers = d.timers /\ e.files = d.files
    BY <1>1, <2>1, <2>2, <2>3 DEF Desk
  <2> HIDE DEF e
  <2>5. Ready(d) => e.doc[e.tab["left"]].of # 0 /\ e.doc[e.tab["right"]].of # 0
    BY <1>5, <2>2, <2>4 DEF Ready
  <2> QED BY <1>5, <2>1, <2>2, <2>4, <2>5 DEF e
<1> QED BY <1>2, <1>3, <1>4, <1>5

\* The old tab is saved, the columns are arranged, and then the tab is shown.
SavedFirst(d) == IF d.tab[d.side] = "settings" THEN d ELSE A!Saved(d, A!Active(d))

Columns(d, tab) == A!Arranged(SavedFirst(d), tab)

Shown(d, tab) == [Columns(d, tab) EXCEPT !.tab[Columns(d, tab).side] = tab]

AtItsChapter(m, s, tab) == [m EXCEPT !.chapter = m.at[s][tab]]

LEMMA SwitchedIs ==
  ASSUME NEW d, Shaped(d), NEW tab \in A!Tab, NEW ok \in BOOLEAN, d.tab[d.side] # tab,
         ok \/ d.tab[d.side] = "settings"
  PROVE  A!Switched(d, tab, ok) =
           IF tab = "settings" THEN Shown(d, tab)
           ELSE A!Loaded(AtItsChapter(Shown(d, tab), Columns(d, tab).side, tab),
                         [side |-> Columns(d, tab).side, step |-> tab])
<1> DEFINE s == SavedFirst(d)
           a == Columns(d, tab)
           m == Shown(d, tab)
           p == [side |-> a.side, step |-> tab]
<1>1. /\ A!Active(d) = [side |-> d.side, step |-> d.tab[d.side]]
      /\ (d.tab[d.side] # "settings" => A!Active(d) \in Panel)
  BY ActiveIs
<1>2. Shaped(s)
  BY <1>1, SavedKeeps DEF SavedFirst
<1>3. A!Active(d).step = d.tab[d.side]
  BY <1>1
<1> DEFINE s2 == IF A!Active(d).step = "settings" THEN d ELSE A!Synced(d, A!Active(d), ok)
           a2 == A!Arranged(s2, tab)
           m2 == [a2 EXCEPT !.tab[a2.side] = tab]
           new == A!Active(m2)
<1>4. A!Switched(d, tab, ok) =
        IF d.tab[d.side] = tab THEN d
        ELSE IF A!Active(d).step # "settings" /\ ~ ok THEN s2
        ELSE IF new.step = "settings" THEN m2
        ELSE A!Loaded([m2 EXCEPT !.chapter = m2.at[new.side][new.step]], new)
  BY DEF A!Switched
<1> HIDE DEF new, m2, a2, s2
<1>5. s2 = s
  BY <1>3 DEF A!Synced, s2, SavedFirst
<1>6. a2 = a
  BY <1>5 DEF a2, Columns
<1>7. a \in Desk /\ (~ a.split => a.side = "left")
  BY <1>2, ArrangedIs DEF Columns
<1> HIDE DEF a
<1>8. m2 = m
  BY <1>6 DEF m2, a, Shown
<1>9. m \in Desk /\ m.split = a.split /\ m.side = a.side /\ m.tab[a.side] = tab
  BY <1>7 DEF Desk, a, Shown
<1> HIDE DEF m
<1>10. A!Active(m) = p
  BY <1>7, <1>9 DEF Desk, A!Side, A!Active
<1>11. new = p
  BY <1>8, <1>10 DEF new
<1>12. A!Switched(d, tab, ok) =
        IF tab = "settings" THEN m
        ELSE A!Loaded(AtItsChapter(m, a.side, tab), p)
  BY <1>3, <1>4, <1>8, <1>11 DEF AtItsChapter
<1> QED BY <1>12 DEF m, a, s

LEMMA SwitchedKeeps ==
  ASSUME NEW d, Shaped(d), NEW tab \in A!Tab, NEW ok \in BOOLEAN, NEW newest
  PROVE  LET e == A!Switched(d, tab, ok) IN
         /\ Shaped(e) /\ e.at = d.at
         /\ TrueTexts(d) => TrueTexts(e)
         /\ Even(d) /\ Filed(d) /\ Ready(d) => Filed(e) /\ Ready(e)
         /\ Even(d) /\ Filed(d) /\ Ready(d) /\ ~ d.split /\ d.was = Nothing
              /\ NewestKept(d, newest) => NewestKept(e, newest)
         /\ e.split \/ e.was # Nothing => d.split \/ d.was # Nothing
         /\ \A t \in A!Step : t # A!Active(d).step => e.files[t] = d.files[t]
         /\ ~ d.split /\ d.was = Nothing =>
              \/ ~ ok /\ e.chapter = d.chapter /\ e.tab = d.tab
                   /\ \A t \in A!Step : e.doc[t] = d.doc[t]
              \/ /\ e.tab["left"] = tab
                 /\ IF tab = d.tab["left"] \/ tab = "settings" THEN e.chapter = d.chapter
                    ELSE e.chapter = d.at["left"][tab]
                 /\ \A t \in A!Step : t # tab => e.doc[t] = d.doc[t]
<1> DEFINE e == A!Switched(d, tab, ok)
           old == A!Active(d)
<1>1. /\ old = [side |-> d.side, step |-> d.tab[d.side]]
      /\ d.side \in A!Side /\ d.tab[d.side] \in A!Tab
      /\ (d.tab[d.side] # "settings" => old \in Panel)
      /\ (~ d.split => d.side = "left")
  BY ActiveIs
<1>2. old.side = d.side /\ old.step = d.tab[d.side]
  BY <1>1
<1> HIDE DEF old
<1>3. CASE d.tab[d.side] = tab
  <2>1. e = d
    BY <1>3 DEF A!Switched
  <2> HIDE DEF e
  <2> QED BY <1>1, <1>3, <2>1 DEF e
<1>4. CASE d.tab[d.side] # tab /\ d.tab[d.side] # "settings" /\ ~ ok
  <2>1. e = A!SaveFailed(d, old)
    BY <1>2, <1>4 DEF A!Switched, A!Synced, old
  <2>2. /\ e.tab = d.tab /\ e.split = d.split /\ e.was = d.was /\ e.at = d.at
        /\ e.chapter = d.chapter /\ e.doc = d.doc /\ e.files = d.files
    BY <1>1, <1>4, <2>1, SaveFailedIs DEF Shaped
  <2> HIDE DEF e
  <2>3. /\ Shaped(e) /\ (TrueTexts(d) => TrueTexts(e))
        /\ (Filed(d) => Filed(e)) /\ (Ready(d) => Ready(e))
        /\ (NewestKept(d, newest) => NewestKept(e, newest))
    BY <1>1, <1>4, <2>1, SaveFailedKeeps
  <2> QED BY <1>4, <2>2, <2>3 DEF e
<1>5. CASE d.tab[d.side] # tab /\ (ok \/ d.tab[d.side] = "settings")
  <2> DEFINE s == SavedFirst(d)
             a == Columns(d, tab)
             m == Shown(d, tab)
             n == AtItsChapter(m, a.side, tab)
             p == [side |-> a.side, step |-> tab]
  <2>1. e = IF tab = "settings" THEN m ELSE A!Loaded(n, p)
    BY <1>5, SwitchedIs
  <2> HIDE DEF e, n
  \* The old tab has been saved.
  <2>a. s = IF d.tab[d.side] = "settings" THEN d ELSE A!Saved(d, old)
    BY DEF SavedFirst, old
  <2> HIDE DEF s
  <2>2. /\ s \in Desk /\ Shaped(s)
        /\ s.tab = d.tab /\ s.split = d.split /\ s.side = d.side /\ s.chapter = d.chapter
        /\ s.was = d.was /\ s.at = d.at /\ s.doc = d.doc
        /\ (TrueTexts(d) => TrueTexts(s)) /\ (Even(d) => Even(s)) /\ (Ready(d) => Ready(s))
    <3>1. CASE d.tab[d.side] = "settings"
      BY <2>a, <3>1 DEF Shaped
    <3>2. CASE d.tab[d.side] # "settings"
      <4>1. s = A!Saved(d, old) /\ old \in Panel /\ d \in Desk
        BY <1>1, <2>a, <3>2 DEF Shaped
      <4> QED BY <4>1, SavedIs, SavedKeeps
    <3> QED BY <3>1, <3>2
  <2>3. Ready(d) /\ d.tab[d.side] # "settings" => d.doc[d.tab[d.side]].of # 0
    BY <1>1 DEF A!Side, A!Tab, Ready
  <2>4. Even(d) /\ Filed(d) /\ Ready(d) => Filed(s)
    <3>1. CASE d.tab[d.side] = "settings"
      BY <2>a, <3>1
    <3>2. CASE d.tab[d.side] # "settings"
      BY <1>1, <1>2, <2>a, <2>3, <3>2, SavedKeeps
    <3> QED BY <3>1, <3>2
  <2>5. Even(d) /\ NewestKept(d, newest) /\ Ready(d) /\ ~ d.split =>
          NewestKept(s, newest) /\ \A t \in A!Step : Clean(s, t, newest)
    <3> SUFFICES ASSUME Even(d), NewestKept(d, newest), Ready(d), ~ d.split
                 PROVE  NewestKept(s, newest) /\ \A t \in A!Step : Clean(s, t, newest)
      OBVIOUS
    <3>0. d.side = "left" /\ "settings" \notin A!Step
      BY <1>1 DEF A!Step
    <3>1. CASE d.tab[d.side] = "settings"
      BY <2>a, <3>0, <3>1 DEF NewestKept, Clean
    <3>2. CASE d.tab[d.side] # "settings"
      <4>1. s = A!Saved(d, old) /\ old \in Panel
        BY <1>1, <2>a, <3>2
      <4>2. NewestKept(s, newest) /\ Clean(s, d.tab["left"], newest)
        BY <1>2, <2>3, <3>0, <3>2, <4>1, SavedKeeps
      <4>3. \A t \in A!Step : t # s.tab["left"] => Clean(s, t, newest)
        BY <4>2 DEF NewestKept, Clean
      <4> QED BY <2>2, <4>2, <4>3
    <3> QED BY <3>1, <3>2
  <2>6. \A t \in A!Step : t # old.step => s.files[t] = d.files[t]
    <3>1. CASE d.tab[d.side] = "settings"
      BY <2>a, <3>1
    <3>2. CASE d.tab[d.side] # "settings"
      <4>1. s = A!Saved(d, old) /\ old \in Panel /\ d \in Desk
        BY <1>1, <2>a, <3>2 DEF Shaped
      <4> SUFFICES ASSUME NEW t \in A!Step, t # old.step PROVE s.files[t] = d.files[t]
        OBVIOUS
      <4>2. s.files[t] \in [A!Chapter -> Text] /\ d.files[t] \in [A!Chapter -> Text]
        BY <2>2, <4>1 DEF Desk
      <4>3. \A k \in A!Chapter : s.files[t][k] = d.files[t][k]
        BY <4>1, SavedIs
      <4> QED BY <4>2, <4>3
    <3> QED BY <3>1, <3>2
  \* The columns are arranged for the new tab.
  <2>7. /\ a \in Desk /\ a.tab["right"] \in A!Step
        /\ a.chapter = s.chapter /\ a.at = s.at /\ a.doc = s.doc
        /\ a.dirty = s.dirty /\ a.timers = s.timers /\ a.files = s.files
        /\ (~ a.split => a.side = "left")
        /\ (tab = "settings" => ~ a.split /\ a.tab = s.tab)
        /\ (tab # "settings" => a.was = Nothing)
        /\ (tab # "settings" /\ a.split => a.tab["left"] \in A!Step)
        /\ (a.was # Nothing => a.was \in Places)
        /\ (s.was = Nothing /\ ~ s.split => a = s)
    BY <2>2, ArrangedIs DEF Columns, s
  <2>8. /\ Ready(s) /\ tab = "settings" /\ a.was # Nothing =>
             a.doc[a.was.left].of # 0 /\ a.doc[a.was.right].of # 0
        /\ Ready(s) /\ tab # "settings" =>
              /\ a.tab["left"] \in A!Step => a.doc[a.tab["left"]].of # 0
              /\ a.split => a.doc[a.tab["right"]].of # 0
    BY <2>2, ArrangedIs DEF Columns, s
  <2>9. a.split \/ a.was # Nothing => d.split \/ d.was # Nothing
    BY <2>2, <2>7
  <2> HIDE DEF a
  <2>10. /\ m \in Desk /\ m.split = a.split /\ m.side = a.side /\ m.was = a.was
         /\ m.chapter = a.chapter /\ m.at = a.at /\ m.doc = a.doc
         /\ m.dirty = a.dirty /\ m.timers = a.timers /\ m.files = a.files
         /\ m.tab[a.side] = tab
         /\ \A x \in A!Side : x # a.side => m.tab[x] = a.tab[x]
    <3>1. a.tab \in [A!Side -> A!Tab] /\ a.side \in A!Side
      BY <2>7 DEF Desk
    <3> DEFINE tabs == [a.tab EXCEPT ![a.side] = tab]
    <3>2. tabs \in [A!Side -> A!Tab] /\ tabs[a.side] = tab
            /\ \A x \in A!Side : x # a.side => tabs[x] = a.tab[x]
      BY <3>1
    <3>3. m = [a EXCEPT !.tab = tabs]
      BY <2>7 DEF Desk, Shown, a
    <3> HIDE DEF tabs, m
    <3> QED BY <2>7, <3>2, <3>3 DEF Desk
  <2> HIDE DEF m
  <2>11. /\ a.side \in {"left", "right"} /\ "left" \in A!Side /\ "right" \in A!Side
         /\ a.split \in BOOLEAN
         /\ (tab # "settings" => tab \in A!Step) /\ "settings" \notin A!Step
    BY <2>7 DEF Desk, A!Side, A!Tab, A!Step
  <2>12. Shaped(m)
    BY <2>7, <2>10, <2>11 DEF Shaped
  <2>13. /\ TrueTexts(d) => TrueTexts(m)
         /\ Even(d) => Even(m)
         /\ Even(d) /\ Filed(d) /\ Ready(d) => Filed(m)
    BY <2>2, <2>4, <2>7, <2>10 DEF TrueTexts, Even, Filed
  <2>14. Even(d) /\ NewestKept(d, newest) /\ Ready(d) /\ ~ d.split /\ d.was = Nothing =>
           NewestKept(m, newest) /\ \A t \in A!Step : Clean(m, t, newest)
    BY <2>5, <2>7, <2>10 DEF NewestKept, Clean
  <2>15. CASE tab = "settings"
    <3>1. e = m
      BY <2>1, <2>15
    <3>2. a.side = "left" /\ ~ m.split
      BY <2>7, <2>10, <2>15
    <3>3. Ready(d) => Ready(m)
      BY <2>2, <2>8, <2>10, <2>11, <2>15, <3>2 DEF Ready
    <3>4. m.files = s.files /\ m.doc = d.doc /\ m.at = d.at /\ m.chapter = d.chapter
      BY <2>2, <2>7, <2>10
    <3>5. m.tab["left"] = tab
      BY <2>10, <3>2
    <3> QED BY <2>6, <2>9, <2>10, <2>12, <2>13, <2>14, <2>15, <3>1, <3>3, <3>4, <3>5
            DEF e, old
  <2>16. CASE tab # "settings"
    <3>1. e = A!Loaded(n, p)
      BY <2>1, <2>16
    <3>2. p \in Panel /\ p.side = a.side /\ p.step = tab /\ tab \in A!Step
      BY <2>7, <2>11, <2>16 DEF Panel, Desk
    <3> HIDE DEF p
    <3>3. m.at[a.side][tab] \in A!Chapter
      BY <2>10, <2>11, <3>2 DEF Desk
    <3>4. /\ n \in Desk /\ n.tab = m.tab /\ n.split = m.split /\ n.side = m.side
          /\ n.was = m.was /\ n.at = m.at /\ n.doc = m.doc /\ n.dirty = m.dirty
          /\ n.timers = m.timers /\ n.files = m.files /\ n.chapter = m.at[a.side][tab]
      BY <2>10, <3>3 DEF Desk, AtItsChapter, n
    <3>5. /\ Shaped(n) /\ (Even(m) => Even(n)) /\ (TrueTexts(m) => TrueTexts(n))
          /\ (Filed(m) => Filed(n)) /\ (NewestKept(m, newest) => NewestKept(n, newest))
          /\ \A t \in A!Step : Clean(m, t, newest) => Clean(n, t, newest)
      BY <2>12, <3>4 DEF Shaped, Even, TrueTexts, Filed, NewestKept, Clean
    <3>6. /\ Shaped(e) /\ (TrueTexts(n) => TrueTexts(e))
          /\ (Even(n) /\ Filed(n) =>
                Filed(e) /\ e.doc[tab].of # 0
                /\ \A t \in A!Step : n.doc[t].of # 0 => e.doc[t].of # 0)
          /\ (Even(n) /\ NewestKept(n, newest) /\ Clean(n, tab, newest) => NewestKept(e, newest))
      BY <3>1, <3>2, <3>5, LoadedKeeps
    <3>7. /\ e.tab = n.tab /\ e.split = n.split /\ e.side = n.side /\ e.chapter = n.chapter
          /\ e.was = n.was /\ e.at = n.at /\ e.files = n.files
          /\ \A t \in A!Step : t # tab => e.doc[t] = n.doc[t]
      BY <3>1, <3>2, <3>4, LoadedIs
    <3>8. ASSUME Even(d), Filed(d), Ready(d) PROVE Filed(e) /\ Ready(e)
      <4>1. Filed(e) /\ e.doc[tab].of # 0 /\ \A t \in A!Step : n.doc[t].of # 0 => e.doc[t].of # 0
        BY <2>13, <3>5, <3>6, <3>8
      <4>2. /\ a.tab["left"] \in A!Step => a.doc[a.tab["left"]].of # 0
            /\ a.split => a.doc[a.tab["right"]].of # 0
        BY <2>2, <2>8, <2>16, <3>8
      <4>3. e.was = Nothing /\ e.split = a.split
        BY <2>7, <2>10, <2>16, <3>4, <3>7
      <4>4. ASSUME NEW x \in {"left", "right"}, e.tab[x] \in A!Step, x = "left" \/ e.split
            PROVE  e.doc[e.tab[x]].of # 0
        <5>1. CASE x = a.side
          BY <2>10, <3>4, <3>7, <4>1, <5>1
        <5>2. CASE x # a.side
          <6>1. e.tab[x] = a.tab[x] /\ n.doc = a.doc
            BY <2>10, <2>11, <3>4, <3>7, <5>2
          <6>2. n.doc[a.tab[x]].of # 0
            BY <4>2, <4>3, <4>4, <6>1
          <6> QED BY <4>1, <4>4, <6>1, <6>2
        <5> QED BY <5>1, <5>2
      <4>5. e.tab["right"] \in A!Step
        BY <3>6 DEF Shaped
      <4> QED BY <4>1, <4>3, <4>4, <4>5 DEF Ready
    <3>9. e.at = d.at
      BY <2>2, <2>7, <2>10, <3>4, <3>7
    <3>10. Even(d) /\ Filed(d) /\ Ready(d) /\ ~ d.split /\ d.was = Nothing
              /\ NewestKept(d, newest) => NewestKept(e, newest)
      BY <2>13, <2>14, <3>2, <3>5, <3>6
    <3>11. e.split \/ e.was # Nothing => d.split \/ d.was # Nothing
      BY <2>9, <2>10, <3>4, <3>7
    <3>12. \A t \in A!Step : t # old.step => e.files[t] = d.files[t]
      BY <2>6, <2>7, <2>10, <3>4, <3>7
    <3>13. ASSUME ~ d.split, d.was = Nothing
           PROVE  /\ e.tab["left"] = tab /\ tab # d.tab["left"]
                  /\ e.chapter = d.at["left"][tab]
                  /\ \A t \in A!Step : t # tab => e.doc[t] = d.doc[t]
      <4>1. a = s
        BY <2>2, <2>7, <3>13
      <4>2. a.side = "left" /\ d.side = "left"
        BY <1>1, <2>2, <3>13, <4>1
      <4>3. e.tab["left"] = tab /\ e.chapter = d.at["left"][tab]
        BY <2>2, <2>7, <2>10, <3>4, <3>7, <4>2
      <4>4. \A t \in A!Step : t # tab => e.doc[t] = d.doc[t]
        BY <2>2, <2>7, <2>10, <3>4, <3>7
      <4> QED BY <1>5, <4>2, <4>3, <4>4
    <3>14. TrueTexts(d) => TrueTexts(e)
      BY <2>13, <3>5, <3>6
    <3> QED BY <2>16, <3>6, <3>8, <3>9, <3>10, <3>11, <3>12, <3>13, <3>14 DEF e, old
  <2> QED BY <2>15, <2>16
<1> QED BY <1>3, <1>4, <1>5

\* A switch inside one column, to another step.
LEMMA SwitchedInColumn ==
  ASSUME NEW d, Shaped(d), NEW tab \in A!Step, NEW ok \in BOOLEAN, d.was = Nothing,
         d.tab[d.side] # "settings"
  PROVE  LET e == A!Switched(d, tab, ok) IN
         /\ e.split = d.split /\ e.side = d.side /\ e.was = Nothing
         /\ Even(d) /\ Filed(d) /\ d.doc[d.tab[d.side]].of # 0 =>
              Filed(e) /\ e.doc[e.tab[d.side]].of # 0
<1> DEFINE e == A!Switched(d, tab, ok)
           old == A!Active(d)
<1>1. /\ old = [side |-> d.side, step |-> d.tab[d.side]] /\ old \in Panel
      /\ d.side \in A!Side /\ d \in Desk
  BY ActiveIs DEF Shaped
<1>2. old.side = d.side /\ old.step = d.tab[d.side] /\ tab \in A!Tab /\ tab # "settings"
  BY <1>1 DEF A!Tab, A!Step
<1> HIDE DEF old
<1>3. CASE d.tab[d.side] = tab
  <2>1. e = d
    BY <1>3 DEF A!Switched
  <2> HIDE DEF e
  <2> QED BY <2>1 DEF e
<1>4. CASE d.tab[d.side] # tab /\ ~ ok
  <2>1. e = A!SaveFailed(d, old)
    BY <1>2, <1>4 DEF A!Switched, A!Synced, old
  <2> HIDE DEF e
  <2>2. e.tab = d.tab /\ e.split = d.split /\ e.was = d.was /\ e.side = d.side /\ e.doc = d.doc
    BY <1>1, <2>1, SaveFailedIs
  <2>3. Filed(d) => Filed(e)
    BY <1>1, <2>1, SaveFailedKeeps
  <2> QED BY <2>2, <2>3 DEF e
<1>5. CASE d.tab[d.side] # tab /\ ok
  <2> DEFINE s == A!Saved(d, old)
             m == [s EXCEPT !.tab[s.side] = tab]
             n == [m EXCEPT !.chapter = m.at[s.side][tab]]
             p == [side |-> s.side, step |-> tab]
  <2>1. SavedFirst(d) = s
    BY DEF SavedFirst, old
  <2>2. Columns(d, tab) = s
    BY <1>1, <1>2, <2>1, SavedIs DEF Columns, A!Arranged
  <2>3. e = A!Loaded(n, p)
    BY <1>2, <1>5, <2>2, SwitchedIs DEF Shown, AtItsChapter
  <2> HIDE DEF e
  <2>4. /\ s \in Desk /\ s.tab = d.tab /\ s.split = d.split /\ s.side = d.side
        /\ s.was = d.was /\ s.at = d.at /\ s.doc = d.doc
    BY <1>1, SavedIs
  <2>5. Shaped(s) /\ (Even(d) => Even(s))
          /\ (Even(d) /\ Filed(d) /\ d.doc[d.tab[d.side]].of # 0 => Filed(s))
    BY <1>1, <1>2, SavedKeeps
  <2> HIDE DEF s
  <2>6. s.at[s.side][tab] \in A!Chapter /\ s.tab \in [A!Side -> A!Tab]
    BY <1>1, <2>4 DEF Desk
  <2>7. /\ m \in Desk /\ m.split = s.split /\ m.side = s.side /\ m.was = s.was /\ m.at = s.at
        /\ m.doc = s.doc /\ m.files = s.files /\ m.tab[d.side] = tab
    BY <1>1, <1>2, <2>4, <2>6 DEF Desk
  <2>8. m.at[s.side][tab] = s.at[s.side][tab]
    BY <2>7
  <2>9. Shaped(m)
    <3>1. m.tab["right"] \in A!Step /\ (m.split => m.tab["left"] \in A!Step)
      BY <2>4, <2>5, <2>6, <2>7 DEF Desk, A!Side, Shaped
    <3> QED BY <2>4, <2>5, <2>7, <3>1 DEF Shaped
  <2> HIDE DEF m
  <2>10. /\ n \in Desk /\ n.tab = m.tab /\ n.split = m.split /\ n.side = m.side
         /\ n.was = m.was /\ n.at = m.at /\ n.doc = m.doc /\ n.files = m.files
    BY <2>6, <2>7, <2>8 DEF Desk
  <2> HIDE DEF n
  <2>11. Shaped(n) /\ (Even(s) => Even(n)) /\ (Filed(s) => Filed(n))
    BY <2>7, <2>9, <2>10 DEF Shaped, Even, Filed
  <2>12. p \in Panel /\ p.step = tab
    BY <1>1, <2>4 DEF Panel
  <2> HIDE DEF p
  <2>13. Even(n) /\ Filed(n) => Filed(e) /\ e.doc[tab].of # 0
    BY <2>3, <2>11, <2>12, LoadedKeeps
  <2>14. e.tab = n.tab /\ e.split = n.split /\ e.side = n.side /\ e.was = n.was
    BY <2>3, <2>10, <2>12, LoadedIs
  <2>15. e.tab[d.side] = tab
    BY <2>7, <2>10, <2>14
  <2>16. e.split = d.split /\ e.side = d.side /\ e.was = Nothing
    BY <2>4, <2>7, <2>10, <2>14
  <2> QED BY <2>5, <2>11, <2>13, <2>15, <2>16 DEF e
<1> QED BY <1>3, <1>4, <1>5

-----------------------------------------------------------------------------
(* The chapter, the split, and the other handlers *)

LEMMA TurnedKeeps ==
  ASSUME NEW d, Shaped(d), NEW c \in A!Chapter, NEW ok \in BOOLEAN, NEW shown \in BOOLEAN,
         NEW newest
  PROVE  LET e == A!Turned(d, c, ok, shown)
             step == A!Active(d).step
         IN
         /\ Shaped(e) /\ e.tab = d.tab /\ e.split = d.split /\ e.side = d.side /\ e.was = d.was
         /\ Even(d) => Even(e)
         /\ TrueTexts(d) => TrueTexts(e)
         /\ Even(d) /\ Filed(d) /\ Ready(d) => Filed(e) /\ Ready(e)
         /\ Even(d) /\ Filed(d) /\ Ready(d) /\ NewestKept(d, newest) => NewestKept(e, newest)
         /\ IF ok /\ ~ shown /\ step # "settings"
            THEN e.chapter = c /\ e.at[d.side][step] = c
            ELSE e.chapter = d.chapter /\ e.at = d.at
<1> DEFINE e == A!Turned(d, c, ok, shown)
           p == A!Active(d)
           s == A!Saved(d, p)
<1>1. /\ p = [side |-> d.side, step |-> d.tab[d.side]]
      /\ d.side \in A!Side /\ d \in Desk
      /\ (d.tab[d.side] # "settings" => p \in Panel)
  BY ActiveIs DEF Shaped
<1>2. p.side = d.side /\ p.step = d.tab[d.side]
  BY <1>1
<1>3. Ready(d) /\ p.step # "settings" => d.doc[p.step].of # 0
  BY <1>1, <1>2 DEF A!Side, Panel, Shaped, Ready
<1> HIDE DEF p
<1>4. CASE shown \/ p.step = "settings"
  <2>1. e = d
    BY <1>4 DEF A!Turned, p
  <2> HIDE DEF e
  <2> QED BY <1>4, <2>1 DEF e, p
<1>5. CASE ~ shown /\ p.step # "settings" /\ ~ ok
  <2>1. e = A!SaveFailed(d, p)
    BY <1>5 DEF A!Turned, p
  <2>2. /\ e.tab = d.tab /\ e.split = d.split /\ e.was = d.was /\ e.side = d.side
        /\ e.at = d.at /\ e.chapter = d.chapter
    BY <1>1, <1>2, <1>5, <2>1, SaveFailedIs
  <2> HIDE DEF e
  <2>3. /\ Shaped(e) /\ (Even(d) => Even(e)) /\ (TrueTexts(d) => TrueTexts(e))
        /\ (Filed(d) => Filed(e)) /\ (Ready(d) => Ready(e))
        /\ (NewestKept(d, newest) => NewestKept(e, newest))
    BY <1>1, <1>2, <1>5, <2>1, SaveFailedKeeps
  <2> QED BY <1>5, <2>2, <2>3 DEF e, p
<1>6. CASE ~ shown /\ p.step # "settings" /\ ok
  <2>0. p \in Panel /\ p.step \in A!Step
    BY <1>1, <1>2, <1>6 DEF Panel
  <2>1. e = A!Loaded([A!AtBoth(s, p.step, c) EXCEPT !.chapter = c], p)
    BY <1>6 DEF A!Turned, p
  <2>2. /\ s \in Desk /\ s.tab = d.tab /\ s.split = d.split /\ s.side = d.side
        /\ s.was = d.was
    BY <1>1, <2>0, SavedIs
  <2>3. /\ Shaped(s) /\ (Even(d) => Even(s)) /\ (TrueTexts(d) => TrueTexts(s))
        /\ (Ready(d) => Ready(s))
        /\ (Even(d) /\ Filed(d) /\ d.doc[p.step].of # 0 => Filed(s))
        /\ (Even(d) /\ NewestKept(d, newest) /\ d.doc[p.step].of # 0 =>
              NewestKept(s, newest) /\ Clean(s, p.step, newest))
    BY <2>0, SavedKeeps
  <2> HIDE DEF s
  <2>4. TurnedTo(s, e, p.step, c) /\ e.chapter = c
    BY <2>0, <2>1, <2>2, LoadedAtBothToolbar
  <2> HIDE DEF e
  <2>5. /\ Shaped(e) /\ (Even(s) => Even(e)) /\ (TrueTexts(s) => TrueTexts(e))
        /\ (Even(s) /\ Filed(s) => Filed(e)) /\ (Filed(s) /\ Ready(s) => Ready(e))
        /\ (NewestKept(s, newest) /\ Clean(s, p.step, newest) => NewestKept(e, newest))
    BY <2>0, <2>3, <2>4, TurnKeeps
  <2>6. /\ e.tab = s.tab /\ e.split = s.split /\ e.side = s.side /\ e.was = s.was
        /\ e.at[d.side][p.step] = c
    BY <1>1, <2>0, <2>4 DEF TurnedTo
  <2> QED BY <1>3, <1>6, <2>2, <2>3, <2>4, <2>5, <2>6 DEF e, p
<1> QED BY <1>4, <1>5, <1>6

LEMMA SplitOpenedKeeps ==
  ASSUME NEW d, Shaped(d), NEW ok \in BOOLEAN, ~ d.split, d.tab["left"] # "settings"
  PROVE  LET e == A!SplitOpened(d, ok) IN
         /\ Shaped(e) /\ e.split
         /\ TrueTexts(d) => TrueTexts(e)
         /\ Even(d) /\ Filed(d) /\ Ready(d) /\ Even(e) => Filed(e) /\ Ready(e)
<1> DEFINE e == A!SplitOpened(d, ok)
           first == [d EXCEPT !.split = TRUE]
           shown == IF d.tab["left"] = "summary" THEN first
                    ELSE A!Switched(first, "completed", ok)
           step == IF d.tab["left"] = "eval" THEN "eval" ELSE "draft"
           right == [side |-> "right", step |-> step]
           f == [shown EXCEPT !.tab["right"] = right.step,
                   !.at["right"][right.step] = shown.chapter]
           g == A!Loaded(f, right)
<1>1. e = [g EXCEPT !.side = "right"]
  BY DEF A!SplitOpened
<1> HIDE DEF e, g
<1>2. /\ d \in Desk /\ d.tab["right"] \in A!Step /\ d.side = "left" /\ d.was = Nothing
      /\ d.tab["left"] \in A!Step /\ A!Side = {"left", "right"}
  BY DEF Shaped, Desk, A!Side, A!Tab
<1>3. /\ first \in Desk /\ first.tab = d.tab /\ first.split = TRUE /\ first.side = "left"
      /\ first.was = Nothing /\ first.at = d.at /\ first.doc = d.doc /\ first.files = d.files
      /\ first.chapter = d.chapter
  BY <1>2 DEF Desk
<1> HIDE DEF first
<1>4. /\ Shaped(first) /\ (Even(d) => Even(first)) /\ (Filed(d) => Filed(first))
      /\ (TrueTexts(d) => TrueTexts(first))
      /\ (Ready(d) => first.doc[first.tab["left"]].of # 0)
  BY <1>2, <1>3 DEF Shaped, Even, Filed, TrueTexts, Ready
<1>5. /\ Shaped(shown) /\ shown.split = TRUE /\ shown.was = Nothing /\ shown.at = d.at
      /\ (TrueTexts(d) => TrueTexts(shown))
      /\ (Even(d) /\ Filed(d) /\ Ready(d) =>
            Even(shown) /\ Filed(shown) /\ shown.doc[shown.tab["left"]].of # 0)
  <2>1. CASE d.tab["left"] = "summary"
    BY <1>3, <1>4, <2>1
  <2>2. CASE d.tab["left"] # "summary"
    <3>1. shown = A!Switched(first, "completed", ok)
      BY <2>2
    <3>2. "completed" \in A!Tab /\ "completed" \in A!Step
      BY DEF A!Tab, A!Step
    <3>3. first.tab[first.side] # "settings" /\ first.side = "left"
      BY <1>3
    <3>4. shown.split = first.split /\ shown.was = Nothing
            /\ (Even(first) /\ Filed(first) /\ first.doc[first.tab["left"]].of # 0 =>
                  Filed(shown) /\ shown.doc[shown.tab["left"]].of # 0)
      BY <1>3, <1>4, <3>1, <3>2, <3>3, SwitchedInColumn
    <3>5. Shaped(shown) /\ shown.at = first.at /\ (TrueTexts(first) => TrueTexts(shown))
      BY <1>4, <3>1, <3>2, SwitchedKeeps
    <3> HIDE DEF shown
    <3>6. Even(d) => Even(shown)
      BY <1>3, <3>5 DEF Even
    <3> QED BY <1>3, <1>4, <3>4, <3>5, <3>6
  <2> QED BY <2>1, <2>2
<1> HIDE DEF shown
<1>6. step \in A!Step /\ right \in Panel /\ right.step = step /\ right.side = "right"
  BY DEF A!Step, Panel, A!Side
<1> HIDE DEF right, step
<1>7. /\ f \in Desk /\ f.split = TRUE /\ f.was = Nothing /\ f.side = shown.side
      /\ f.doc = shown.doc /\ f.files = shown.files
      /\ f.tab["left"] = shown.tab["left"] /\ f.tab["right"] = step
      /\ f.at["left"] = shown.at["left"]
  <2> DEFINE f1 == [shown EXCEPT !.tab["right"] = right.step]
             at == [shown.at EXCEPT !["right"][step] = shown.chapter]
             tabs == [shown.tab EXCEPT !["right"] = step]
  <2>1. /\ shown \in Desk /\ shown.tab \in [A!Side -> A!Tab] /\ shown.chapter \in A!Chapter
        /\ shown.at \in [A!Side -> [A!Step -> A!Chapter]] /\ step \in A!Tab
    BY <1>5, <1>6 DEF Shaped, Desk, A!Tab
  <2>2. /\ tabs \in [A!Side -> A!Tab] /\ tabs["left"] = shown.tab["left"]
        /\ tabs["right"] = step
    BY <1>2, <2>1
  <2>3. at \in [A!Side -> [A!Step -> A!Chapter]] /\ at["left"] = shown.at["left"]
    BY <1>2, <1>6, <2>1
  <2>4. f1 = [shown EXCEPT !.tab = tabs]
    BY <1>6, <2>1 DEF Desk
  <2> HIDE DEF tabs
  <2>5. /\ f1 \in Desk /\ f1.tab = tabs /\ f1.split = shown.split /\ f1.side = shown.side
        /\ f1.was = shown.was /\ f1.at = shown.at /\ f1.doc = shown.doc
        /\ f1.files = shown.files
    BY <2>1, <2>2, <2>4 DEF Desk
  <2>6. f = [f1 EXCEPT !.at["right"][right.step] = shown.chapter]
    OBVIOUS
  <2> HIDE DEF f1
  <2>7. f = [f1 EXCEPT !.at = at]
    BY <1>6, <2>5, <2>6 DEF Desk
  <2> HIDE DEF at, f
  <2> QED BY <1>5, <2>2, <2>3, <2>5, <2>7 DEF Desk
<1> HIDE DEF f
<1>8. /\ Shaped(f) /\ (TrueTexts(shown) => TrueTexts(f)) /\ (Filed(shown) => Filed(f))
  BY <1>5, <1>6, <1>7 DEF Shaped, TrueTexts, Filed
<1>9. /\ Shaped(g) /\ (TrueTexts(f) => TrueTexts(g))
      /\ (Even(f) /\ Filed(f) => Filed(g) /\ g.doc[step].of # 0
            /\ \A t \in A!Step : f.doc[t].of # 0 => g.doc[t].of # 0)
  BY <1>6, <1>8, LoadedKeeps DEF g
<1>10. /\ g \in Desk /\ g.tab = f.tab /\ g.split = f.split /\ g.was = f.was /\ g.at = f.at
  BY <1>6, <1>7, LoadedIs DEF g
<1>11. /\ e \in Desk /\ e.tab = g.tab /\ e.split = g.split /\ e.was = g.was /\ e.at = g.at
       /\ e.doc = g.doc /\ e.files = g.files /\ e.side = "right"
  BY <1>1, <1>2, <1>10 DEF Desk
<1>12. Shaped(e)
  BY <1>7, <1>9, <1>10, <1>11 DEF Shaped
<1>13. TrueTexts(d) => TrueTexts(e)
  BY <1>5, <1>8, <1>9, <1>11 DEF TrueTexts
<1>14. ASSUME Even(d), Filed(d), Ready(d), Even(e) PROVE Filed(e) /\ Ready(e)
  BY <1>5, <1>7, <1>8, <1>9, <1>10, <1>11, <1>14 DEF Even, Filed, Shaped, Ready
<1>15. e.split
  BY <1>7, <1>10, <1>11
<1> QED BY <1>12, <1>13, <1>14, <1>15 DEF e

LEMMA WrittenKeeps ==
  ASSUME NEW d, Shaped(d), NEW step \in A!Step, NEW text \in Text,
         NEW newest \in Newest, NEW after
  PROVE  LET e == A!Written(d, step, text) IN
         /\ Shaped(e)
         /\ Even(d) => Even(e)
         /\ TrueTexts(d) /\ TrueText(step, text) => TrueTexts(e)
         /\ Ready(d) /\ text.of # 0 => Ready(e)
         /\ Filed(d) /\ text.of = d.at["left"][step] => Filed(e)
         /\ NewestKept(d, newest) /\ text.of = d.at["left"][step] /\ step = d.tab["left"]
              /\ after = [newest EXCEPT ![step][text.of] = text.n] => NewestKept(e, after)
<1> DEFINE e == A!Written(d, step, text)
<1> HIDE DEF e
<1>1. /\ d \in Desk /\ e \in Desk
      /\ e.tab = d.tab /\ e.split = d.split /\ e.side = d.side /\ e.was = d.was
      /\ e.at = d.at /\ e.files = d.files
      /\ e.dirty = d.dirty \cup {step} /\ e.timers = d.timers \cup A!Pair(step)
      /\ \A t \in A!Step : e.doc[t] = IF t = step THEN text ELSE d.doc[t]
  BY WrittenIs DEF e, Shaped
<1>2. Shaped(e)
  BY <1>1 DEF Shaped
<1>3. (Even(d) => Even(e)) /\ (TrueTexts(d) /\ TrueText(step, text) => TrueTexts(e))
  BY <1>1 DEF Even, TrueTexts
<1>4. Ready(d) /\ text.of # 0 => Ready(e)
  BY <1>1 DEF Shaped, Places, Ready
<1>5. Filed(d) /\ text.of = d.at["left"][step] => Filed(e)
  BY <1>1 DEF Filed
<1>6. ASSUME NewestKept(d, newest), text.of = d.at["left"][step], step = d.tab["left"],
             after = [newest EXCEPT ![step][text.of] = text.n]
      PROVE  NewestKept(e, after)
  <2>1. text.of \in A!Chapter /\ text.of # 0
    BY <1>1, <1>6 DEF Desk, A!Side, A!Chapter
  <2>2. \A t \in A!Step, c \in A!Chapter :
          after[t][c] = IF t = step /\ c = text.of THEN text.n ELSE newest[t][c]
    BY <1>6, <2>1 DEF Newest
  <2>3. e.timers \cap A!Pair(step) # {} /\ step \in e.dirty
    BY <1>1, PairIs
  <2>4. \A t \in A!Step : d.at["left"][t] \in A!Chapter
    BY <1>1 DEF Desk, A!Side
  <2>5. ASSUME NEW t \in A!Step, e.doc[t].of # 0
        PROVE  e.doc[t].n = after[t][e.at["left"][t]]
    <3>1. CASE t = step
      BY <1>1, <1>6, <2>1, <2>2, <2>4, <3>1
    <3>2. CASE t # step
      BY <1>1, <1>6, <2>2, <2>4, <2>5, <3>2 DEF NewestKept
    <3> QED BY <3>1, <3>2
  <2>6. ASSUME NEW t \in A!Step, NEW c \in A!Chapter
        PROVE  \/ e.files[t][c].n = after[t][c]
               \/ /\ t = e.tab["left"] /\ c = e.at["left"][t] /\ e.doc[t].of # 0
                  /\ e.timers \cap A!Pair(t) # {} /\ t \in e.dirty
    <3>1. CASE t = step /\ c = text.of
      BY <1>1, <1>6, <2>1, <2>3, <3>1
    <3>2. CASE ~ (t = step /\ c = text.of)
      BY <1>1, <1>6, <2>2, <3>2 DEF NewestKept
    <3> QED BY <3>1, <3>2
  <2> QED BY <2>5, <2>6 DEF NewestKept
<1> QED BY <1>2, <1>3, <1>4, <1>5, <1>6 DEF e

\* The button of a panel writes to the chapter of the toolbar.
ContentSaved(d, step, marks) ==
  [d EXCEPT !.files[step][d.chapter] = d.doc[step], !.dirty = marks]

LEMMA ContentSavedKeeps ==
  ASSUME NEW d, Shaped(d), NEW side \in A!Side, NEW step \in A!Step, step = d.tab[side],
         side = "left" \/ d.split, NEW marks \in SUBSET A!Step, NEW newest
  PROVE  LET e == ContentSaved(d, step, marks) IN
         /\ Shaped(e) /\ e.tab = d.tab /\ e.split = d.split /\ e.was = d.was /\ e.at = d.at
         /\ e.chapter = d.chapter
         /\ TrueTexts(d) => TrueTexts(e)
         /\ Ready(d) => Ready(e)
         /\ Even(d) /\ Filed(d) /\ Ready(d) /\ d.chapter = d.at[side][step] => Filed(e)
         /\ Even(d) /\ Ready(d) /\ ~ d.split /\ d.chapter = d.at[side][step]
              /\ NewestKept(d, newest) => NewestKept(e, newest)
<1> DEFINE files == [d.files EXCEPT ![step][d.chapter] = d.doc[step]]
           e == ContentSaved(d, step, marks)
<1>1. /\ d \in Desk /\ d.chapter \in A!Chapter /\ d.doc[step] \in Text
      /\ d.files \in [A!Step -> [A!Chapter -> Text]]
      /\ side \in {"left", "right"}
  BY DEF Shaped, Desk, A!Side
<1>2. /\ files \in [A!Step -> [A!Chapter -> Text]]
      /\ \A t \in A!Step, c \in A!Chapter :
           files[t][c] = IF t = step /\ c = d.chapter THEN d.doc[step] ELSE d.files[t][c]
  BY <1>1
<1>3. e = [d EXCEPT !.files = files, !.dirty = marks]
  BY <1>1 DEF Desk, ContentSaved
<1> HIDE DEF files, e
<1>4. /\ e \in Desk /\ e.tab = d.tab /\ e.split = d.split /\ e.side = d.side /\ e.was = d.was
      /\ e.at = d.at /\ e.doc = d.doc /\ e.chapter = d.chapter /\ e.timers = d.timers
      /\ e.files = files
  BY <1>1, <1>2, <1>3 DEF Desk
<1>5. Shaped(e) /\ (Ready(d) => Ready(e))
  BY <1>4 DEF Shaped, Ready
<1>6. TrueTexts(d) => TrueTexts(e)
  BY <1>2, <1>4 DEF TrueTexts
<1>7. Ready(d) => d.doc[step].of # 0
  BY <1>1 DEF Ready
<1>8. Even(d) => d.at[side][step] = d.at["left"][step]
  BY <1>1 DEF Even
<1>9. ASSUME Even(d), Filed(d), Ready(d), d.chapter = d.at[side][step] PROVE Filed(e)
  BY <1>2, <1>4, <1>7, <1>8, <1>9 DEF Filed, A!Unloaded, A!Blank
<1>10. ASSUME Even(d), Ready(d), ~ d.split, d.chapter = d.at[side][step],
              NewestKept(d, newest)
       PROVE  NewestKept(e, newest)
  <2>1. d.doc[step].n = newest[step][d.chapter]
    BY <1>7, <1>8, <1>10 DEF NewestKept
  <2>2. step = d.tab["left"] /\ d.chapter = d.at["left"][step]
    BY <1>8, <1>10
  <2>3. \A t \in A!Step, c \in A!Chapter : e.files[t][c].n = newest[t][c]
    <3> SUFFICES ASSUME NEW t \in A!Step, NEW c \in A!Chapter
                 PROVE  e.files[t][c].n = newest[t][c]
      OBVIOUS
    <3>1. CASE t = step /\ c = d.chapter
      BY <1>2, <1>4, <2>1, <3>1
    <3>2. CASE ~ (t = step /\ c = d.chapter)
      BY <1>2, <1>4, <1>10, <2>2, <3>2 DEF NewestKept
    <3> QED BY <3>1, <3>2
  <2>4. e.doc = d.doc /\ e.at = d.at
    BY <1>4
  <2> QED BY <1>10, <2>3, <2>4 DEF NewestKept
<1> QED BY <1>4, <1>5, <1>6, <1>9, <1>10 DEF e

\* The other column gets the focus.
LEMMA FocusedKeeps ==
  ASSUME NEW d, Shaped(d), d.split, NEW side \in A!Side, NEW c \in A!Chapter
  PROVE  LET e == [d EXCEPT !.side = side, !.chapter = c] IN
         /\ Shaped(e) /\ e.split /\ e.at = d.at
         /\ TrueTexts(d) => TrueTexts(e)
         /\ Filed(d) /\ Ready(d) => Filed(e) /\ Ready(e)
<1> DEFINE e == [d EXCEPT !.side = side, !.chapter = c]
<1>1. /\ d \in Desk /\ e \in Desk /\ e.tab = d.tab /\ e.split = d.split /\ e.was = d.was
      /\ e.at = d.at /\ e.doc = d.doc /\ e.files = d.files
  BY DEF Shaped, Desk
<1> HIDE DEF e
<1>2. Shaped(e) /\ (TrueTexts(d) => TrueTexts(e))
        /\ (Filed(d) /\ Ready(d) => Filed(e) /\ Ready(e))
  BY <1>1 DEF Shaped, TrueTexts, Filed, Ready
<1> QED BY <1>1, <1>2 DEF e

LEMMA SplitClosedKeeps ==
  ASSUME NEW d, Shaped(d)
  PROVE  LET e == A!SplitClosed(d) IN
         /\ Shaped(e) /\ e.at = d.at /\ ~ e.split /\ e.was = d.was
         /\ TrueTexts(d) => TrueTexts(e)
         /\ Filed(d) /\ Ready(d) => Filed(e) /\ Ready(e)
<1> DEFINE e == A!SplitClosed(d)
<1>1. /\ d \in Desk /\ e \in Desk /\ e.tab = d.tab /\ ~ e.split /\ e.was = d.was
      /\ e.at = d.at /\ e.doc = d.doc /\ e.files = d.files /\ e.side = "left"
  BY DEF Shaped, Desk, A!SplitClosed, A!Side
<1> HIDE DEF e
<1>2. Shaped(e) /\ (TrueTexts(d) => TrueTexts(e))
        /\ (Filed(d) /\ Ready(d) => Filed(e) /\ Ready(e))
  BY <1>1 DEF Shaped, TrueTexts, Filed, Ready
<1> QED BY <1>1, <1>2 DEF e

\* The collected summary is put into its file and its document.
Put(d, c, text) ==
  [A!AtBoth(d, "summary", c) EXCEPT !.files["summary"][c] = text,
     !.doc["summary"] = text, !.timers = @ \ A!Pair("summary"), !.dirty = @ \ {"summary"}]

LEMMA PutKeeps ==
  ASSUME NEW d, Shaped(d), NEW c \in A!Chapter, NEW text \in Text, text.of = c,
         NEW newest \in Newest, NEW after
  PROVE  LET e == Put(d, c, text) IN
         /\ Shaped(e) /\ e.tab = d.tab /\ e.split = d.split /\ e.side = d.side /\ e.was = d.was
         /\ e.chapter = d.chapter /\ e.at["left"]["summary"] = c
         /\ \A k \in A!Chapter : k # c => e.files["summary"][k] = d.files["summary"][k]
         /\ \A t \in A!Step : t # "summary" => e.files[t] = d.files[t]
         /\ \A t \in A!Step : t # "summary" => e.doc[t] = d.doc[t]
         /\ Even(d) => Even(e)
         /\ TrueTexts(d) /\ TrueText("summary", text) => TrueTexts(e)
         /\ Ready(d) => Ready(e)
         /\ Filed(d) => Filed(e)
         /\ NewestKept(d, newest) /\ d.tab["left"] # "summary"
              /\ after = [newest EXCEPT !["summary"][c] = text.n] => NewestKept(e, after)
<1> DEFINE f == A!AtBoth(d, "summary", c)
           files == [f.files EXCEPT !["summary"][c] = text]
           doc == [f.doc EXCEPT !["summary"] = text]
           e == Put(d, c, text)
<1>0. "summary" \in A!Step /\ d \in Desk /\ c # 0 /\ "left" \in A!Side /\ "right" \in A!Side
  BY DEF A!Step, Shaped, A!Chapter, A!Side
<1>1. /\ f \in Desk
      /\ f.tab = d.tab /\ f.split = d.split /\ f.side = d.side /\ f.chapter = d.chapter
      /\ f.was = d.was /\ f.doc = d.doc /\ f.files = d.files /\ f.dirty = d.dirty
      /\ f.timers = d.timers
      /\ \A s \in A!Side, t \in A!Step : f.at[s][t] = IF t = "summary" THEN c ELSE d.at[s][t]
  BY <1>0, AtBothIs
<1> HIDE DEF f
<1>2. /\ files \in [A!Step -> [A!Chapter -> Text]]
      /\ \A t \in A!Step, k \in A!Chapter :
           files[t][k] = IF t = "summary" /\ k = c THEN text ELSE d.files[t][k]
      /\ \A t \in A!Step : t # "summary" => files[t] = d.files[t]
  BY <1>0, <1>1 DEF Desk
<1>3. /\ doc \in [A!Step -> Text]
      /\ \A t \in A!Step : doc[t] = IF t = "summary" THEN text ELSE d.doc[t]
  BY <1>0, <1>1 DEF Desk
<1>4. e = [f EXCEPT !.files = files, !.doc = doc, !.timers = @ \ A!Pair("summary"),
             !.dirty = @ \ {"summary"}]
  <2> DEFINE f1 == [f EXCEPT !.files["summary"][c] = text]
             f2 == [f1 EXCEPT !.doc["summary"] = text]
             f3 == [f2 EXCEPT !.timers = @ \ A!Pair("summary")]
  <2>1. e = [f3 EXCEPT !.dirty = @ \ {"summary"}]
    BY DEF Put, f
  <2>2. f1 = [f EXCEPT !.files = files]
    BY <1>1 DEF Desk
  <2>3. f2 = [f1 EXCEPT !.doc = doc]
    BY <1>1, <2>2 DEF Desk
  <2> HIDE DEF files, doc, f1, f2, e
  <2> QED BY <1>1, <2>1, <2>2, <2>3 DEF Desk
<1> HIDE DEF files, doc, e
<1>5. /\ e \in Desk /\ e.tab = d.tab /\ e.split = d.split /\ e.side = d.side
      /\ e.chapter = d.chapter /\ e.was = d.was /\ e.at = f.at /\ e.files = files
      /\ e.doc = doc
      /\ e.timers = d.timers \ A!Pair("summary") /\ e.dirty = d.dirty \ {"summary"}
  BY <1>1, <1>2, <1>3, <1>4 DEF Desk
<1>6. Shaped(e)
  BY <1>5 DEF Shaped
<1>7. Even(d) => Even(e)
  BY <1>0, <1>1, <1>5 DEF Even
<1>8. TrueTexts(d) /\ TrueText("summary", text) => TrueTexts(e)
  BY <1>2, <1>3, <1>5 DEF TrueTexts
<1>9. Ready(d) => Ready(e)
  BY <1>0, <1>3, <1>5 DEF Shaped, Places, Ready
<1>10. ASSUME Filed(d) PROVE Filed(e)
  <2>1. \A t \in A!Step, k \in A!Chapter : e.files[t][k].of = k
    BY <1>2, <1>5, <1>10 DEF Filed
  <2>2. ASSUME NEW t \in A!Step
        PROVE  e.doc[t] = A!Unloaded \/ e.doc[t].of = e.at["left"][t]
    BY <1>0, <1>1, <1>3, <1>5, <1>10 DEF Filed
  <2> QED BY <2>1, <2>2 DEF Filed
<1>11. ASSUME NewestKept(d, newest), d.tab["left"] # "summary",
              after = [newest EXCEPT !["summary"][c] = text.n]
       PROVE  NewestKept(e, after)
  <2>1. \A t \in A!Step, k \in A!Chapter :
          after[t][k] = IF t = "summary" /\ k = c THEN text.n ELSE newest[t][k]
    BY <1>0, <1>11 DEF Newest
  <2>2. \A t \in A!Step : d.at["left"][t] \in A!Chapter
    BY <1>0 DEF Desk
  <2>3. ASSUME NEW t \in A!Step, e.doc[t].of # 0
        PROVE  e.doc[t].n = after[t][e.at["left"][t]]
    BY <1>0, <1>1, <1>3, <1>5, <1>11, <2>1, <2>2, <2>3 DEF NewestKept
  <2>4. ASSUME NEW t \in A!Step, NEW k \in A!Chapter
        PROVE  \/ e.files[t][k].n = after[t][k]
               \/ /\ t = e.tab["left"] /\ k = e.at["left"][t] /\ e.doc[t].of # 0
                  /\ e.timers \cap A!Pair(t) # {} /\ t \in e.dirty
    <3>1. CASE t = "summary"
      BY <1>2, <1>5, <1>11, <2>1, <3>1 DEF NewestKept
    <3>2. CASE t # "summary"
      <4>1. e.timers \cap A!Pair(t) = d.timers \cap A!Pair(t)
        BY <1>0, <1>5, <3>2, PairIs
      <4>2. after[t][k] = newest[t][k] /\ e.files[t][k] = d.files[t][k]
              /\ e.doc[t] = d.doc[t] /\ e.at["left"][t] = d.at["left"][t]
        BY <1>0, <1>1, <1>2, <1>3, <1>5, <2>1, <3>2
      <4> QED BY <1>5, <1>11, <3>2, <4>1, <4>2 DEF NewestKept
    <3> QED BY <3>1, <3>2
  <2> QED BY <2>3, <2>4 DEF NewestKept
<1>12. e.at["left"]["summary"] = c
  BY <1>0, <1>1, <1>5
<1> QED BY <1>0, <1>2, <1>3, <1>5, <1>6, <1>7, <1>8, <1>9, <1>10, <1>11, <1>12 DEF e

\* Everything that is not saved is saved before the window closes.
LEMMA SavedAllKeeps ==
  ASSUME NEW d, Shaped(d), NEW newest
  PROVE  LET e == A!SavedAll(d) IN
         /\ Shaped(e) /\ e.split = d.split /\ e.was = d.was /\ e.at = d.at /\ e.tab = d.tab
         /\ e.chapter = d.chapter
         /\ TrueTexts(d) => TrueTexts(e)
         /\ Filed(d) /\ ~ Unfiled(e) => Filed(e)
         /\ Ready(d) => Ready(e)
         /\ NewestKept(d, newest) /\ ~ Unfiled(e) => \A t \in A!Step : Clean(e, t, newest)
<1> DEFINE e == A!SavedAll(d)
           files == [t \in A!Step |->
                       IF t \in d.dirty THEN [d.files[t] EXCEPT ![d.at["left"][t]] = d.doc[t]]
                       ELSE d.files[t]]
<1>1. /\ d \in Desk /\ d.files \in [A!Step -> [A!Chapter -> Text]]
      /\ d.doc \in [A!Step -> Text]
      /\ \A t \in A!Step : d.at["left"][t] \in A!Chapter /\ d.at["left"][t] # 0
  BY DEF Shaped, Desk, A!Side, A!Chapter
<1>2. /\ files \in [A!Step -> [A!Chapter -> Text]]
      /\ \A t \in A!Step, c \in A!Chapter :
           files[t][c] = IF t \in d.dirty /\ c = d.at["left"][t] THEN d.doc[t]
                         ELSE d.files[t][c]
  BY <1>1
<1>3. e = [d EXCEPT !.files = files, !.dirty = {}, !.timers = {}]
  BY DEF A!SavedAll
<1> HIDE DEF files, e
<1>4. /\ e \in Desk /\ e.tab = d.tab /\ e.split = d.split /\ e.side = d.side /\ e.was = d.was
      /\ e.at = d.at /\ e.doc = d.doc /\ e.chapter = d.chapter /\ e.files = files
  BY <1>1, <1>2, <1>3 DEF Desk
<1>5. Shaped(e) /\ (Ready(d) => Ready(e))
  BY <1>4 DEF Shaped, Ready
<1>6. TrueTexts(d) => TrueTexts(e)
  BY <1>2, <1>4 DEF TrueTexts
<1>7. ~ Unfiled(e) => \A t \in A!Step : t \in d.dirty => d.doc[t].of # 0
  <2> SUFFICES ASSUME NEW t \in A!Step, t \in d.dirty, d.doc[t].of = 0 PROVE Unfiled(e)
    OBVIOUS
  <2>1. e.files[t][d.at["left"][t]] = d.doc[t]
    BY <1>1, <1>2, <1>4
  <2> QED BY <1>1, <2>1 DEF Unfiled
<1>8. ASSUME Filed(d), ~ Unfiled(e) PROVE Filed(e)
  BY <1>2, <1>4, <1>7, <1>8 DEF Filed, A!Unloaded, A!Blank
<1>9. ASSUME NewestKept(d, newest), ~ Unfiled(e)
      PROVE  \A t \in A!Step : Clean(e, t, newest)
  BY <1>2, <1>4, <1>7, <1>9 DEF Clean, NewestKept
<1> QED BY <1>4, <1>5, <1>6, <1>8, <1>9 DEF e

-----------------------------------------------------------------------------
(* The desk and the story: the first part of the invariant *)

CauseName == {"split", "apart", "unloaded", "toolbar", "open", "jumped", "discarded"}

Story ==
  [edits : Nat, moves : Nat, requests : Nat, faults : Nat, closed : BOOLEAN,
   newest : Newest, causes : SUBSET CauseName]

\* The toolbar shows the chapter of the tab.
ToolbarFits(d) == d.tab["left"] # "settings" => d.chapter = d.at["left"][d.tab["left"]]

CausesAreTold ==
  /\ desk.split \/ desk.was # Nothing => "split" \in story.causes
  /\ ~ Even(desk) => "apart" \in story.causes
  /\ Unfiled(desk) => "unloaded" \in story.causes

\* A window that was never split shows one chapter of every step, and the
\* toolbar shows it.
NeverSplit ==
  "split" \notin story.causes =>
    "apart" \notin story.causes /\ "toolbar" \notin story.causes /\ ToolbarFits(desk)

TextsAreFiled ==
  A!Never({"apart", "toolbar", "unloaded"}) => Filed(desk) /\ Ready(desk)

NewestIsKept ==
  A!Never({"split", "discarded", "unloaded"}) =>
    IF story.closed THEN \A t \in A!Step : Clean(desk, t, story.newest)
    ELSE NewestKept(desk, story.newest)

DeskInv ==
  /\ Shaped(desk) /\ story \in Story
  /\ CausesAreTold /\ NeverSplit /\ TextsAreFiled /\ NewestIsKept

LEMMA CausesAre ==
  ASSUME NEW d
  PROVE  /\ A!Causes(d) \subseteq CauseName
         /\ "split" \in A!Causes(d) <=> d.split
         /\ "apart" \in A!Causes(d) <=> ~ Even(d)
         /\ "unloaded" \in A!Causes(d) <=> Unfiled(d)
         /\ "toolbar" \notin A!Causes(d) /\ "open" \notin A!Causes(d)
         /\ "jumped" \notin A!Causes(d) /\ "discarded" \notin A!Causes(d)
<1>1. A!Apart(d) <=> ~ Even(d)
  BY DEF A!Apart, Even
<1>2. (\E t \in A!Step, c \in A!Chapter : d.files[t][c].of = 0) <=> Unfiled(d)
  BY DEF Unfiled
<1> QED BY <1>1, <1>2 DEF A!Causes, CauseName

\* What a window has that was never split.
Alone(d) == ~ d.split /\ d.was = Nothing /\ Even(d) /\ ToolbarFits(d)

LEMMA AloneUnlessSplit ==
  ASSUME DeskInv, "split" \notin story.causes
  PROVE  Alone(desk) /\ "apart" \notin story.causes /\ "toolbar" \notin story.causes
  BY DEF DeskInv, CausesAreTold, NeverSplit, Alone

LEMMA FiledUnless ==
  ASSUME DeskInv, "apart" \notin story.causes, "toolbar" \notin story.causes,
         "unloaded" \notin story.causes
  PROVE  Filed(desk) /\ Ready(desk) /\ Even(desk)
  BY DEF DeskInv, TextsAreFiled, CausesAreTold, A!Never

\* A step of the writer, or of the assistant, on an open window.
LEMMA DeskStep ==
  ASSUME DeskInv, NEW more \in SUBSET {"toolbar", "open", "jumped"},
         Shaped(desk'), story' \in Story, ~ story.closed, ~ story'.closed,
         story'.causes = (story.causes \cup A!Causes(desk')) \cup more,
         desk'.was # Nothing => desk.split \/ desk.was # Nothing,
         Alone(desk) /\ ~ desk'.split =>
           Even(desk') /\ ToolbarFits(desk') /\ "toolbar" \notin more,
         Even(desk) /\ Even(desk') /\ ~ Unfiled(desk') /\ Filed(desk) /\ Ready(desk)
           /\ "toolbar" \notin more => Filed(desk') /\ Ready(desk'),
         Alone(desk) /\ ~ desk'.split /\ ~ Unfiled(desk') /\ Filed(desk) /\ Ready(desk)
           /\ NewestKept(desk, story.newest) => NewestKept(desk', story'.newest)
  PROVE  DeskInv'
<1>1. CausesAreTold'
  BY CausesAre DEF DeskInv, CausesAreTold, Even, Unfiled
<1>2. ASSUME "split" \notin story'.causes
      PROVE  /\ Alone(desk) /\ ~ desk'.split /\ Even(desk') /\ ToolbarFits(desk')
             /\ "apart" \notin story'.causes /\ "toolbar" \notin story'.causes
  BY <1>2, AloneUnlessSplit, CausesAre
<1>3. NeverSplit'
  BY <1>2 DEF NeverSplit, ToolbarFits
<1>4. ASSUME "unloaded" \notin story'.causes, "apart" \notin story'.causes,
             "toolbar" \notin story'.causes
      PROVE  /\ Filed(desk') /\ Ready(desk') /\ Filed(desk) /\ Ready(desk) /\ ~ Unfiled(desk')
  BY <1>4, FiledUnless, CausesAre
<1>5. TextsAreFiled'
  BY <1>4 DEF A!Never, TextsAreFiled, Filed, Ready
<1>6. ASSUME A!Never({"split", "discarded", "unloaded"})' PROVE NewestKept(desk', story'.newest)
  BY <1>2, <1>4, <1>6 DEF A!Never, DeskInv, NewestIsKept
<1>7. NewestIsKept'
  BY <1>6 DEF NewestIsKept, NewestKept
<1> QED BY <1>1, <1>3, <1>5, <1>7 DEF DeskInv, Shaped

\* A step that leaves the desk, what was typed and the causes alone.
LEMMA DeskStands ==
  ASSUME DeskInv, desk' = desk, story' \in Story, story'.causes = story.causes,
         story'.newest = story.newest, story'.closed = story.closed
  PROVE  DeskInv'
  BY DEF DeskInv, Shaped, CausesAreTold, NeverSplit, TextsAreFiled, NewestIsKept, A!Never,
         Even, Unfiled, ToolbarFits, Filed, Ready, NewestKept, Clean

LEMMA DeskStepPlain ==
  ASSUME DeskInv,
         Shaped(desk'), story' \in Story, ~ story.closed, ~ story'.closed,
         story'.causes = story.causes \cup A!Causes(desk'),
         desk'.was # Nothing => desk.split \/ desk.was # Nothing,
         Alone(desk) /\ ~ desk'.split => Even(desk') /\ ToolbarFits(desk'),
         Even(desk) /\ Even(desk') /\ ~ Unfiled(desk') /\ Filed(desk) /\ Ready(desk) =>
           Filed(desk') /\ Ready(desk'),
         Alone(desk) /\ ~ desk'.split /\ ~ Unfiled(desk') /\ Filed(desk) /\ Ready(desk)
           /\ NewestKept(desk, story.newest) => NewestKept(desk', story'.newest)
  PROVE  DeskInv'
<1> DEFINE more == {}
<1>1. more \in SUBSET {"toolbar", "open", "jumped"} /\ "toolbar" \notin more
  OBVIOUS
<1>2. story'.causes = (story.causes \cup A!Causes(desk')) \cup more
  OBVIOUS
<1> HIDE DEF more
<1> QED BY <1>1, <1>2, DeskStep

-----------------------------------------------------------------------------
(* The steps of the writer keep the desk *)

LEMMA DidIs ==
  ASSUME DeskInv, NEW move \in Nat, NEW edit \in Nat, NEW ok \in BOOLEAN,
         NEW more \in SUBSET {"toolbar", "open", "jumped"}, A!Did(move, edit, ok, more)
  PROVE  /\ story' \in Story /\ story'.closed = story.closed
         /\ story'.causes = (story.causes \cup A!Causes(desk')) \cup more
         /\ story'.newest = story.newest /\ story'.requests = story.requests
<1> DEFINE causes == (story.causes \cup A!Causes(desk')) \cup more
           moves == story.moves + move
           edits == story.edits + edit
           faults == IF ok THEN story.faults ELSE story.faults + 1
<1>1. story \in Story /\ A!Causes(desk') \subseteq CauseName /\ more \subseteq CauseName
  BY CausesAre DEF DeskInv, CauseName
<1>a. story.causes \subseteq CauseName
  BY <1>1 DEF Story
<1>b. causes \subseteq CauseName
  BY <1>1, <1>a
<1>c. moves \in Nat /\ edits \in Nat /\ faults \in Nat
  BY <1>1 DEF Story
<1>2. causes \subseteq CauseName /\ moves \in Nat /\ edits \in Nat /\ faults \in Nat
  BY <1>b, <1>c
<1>3. story' = [story EXCEPT !.moves = moves, !.edits = edits, !.faults = faults, !.causes = causes]
  BY <1>1 DEF A!Did, Story
<1> HIDE DEF causes, moves, edits, faults
<1>4. /\ story' \in Story /\ story'.closed = story.closed /\ story'.causes = causes
      /\ story'.newest = story.newest /\ story'.requests = story.requests
  BY <1>1, <1>2, <1>3 DEF Story
<1> QED BY <1>4 DEF causes

LEMMA DidPlain ==
  ASSUME DeskInv, NEW move \in Nat, NEW edit \in Nat, NEW ok \in BOOLEAN,
         A!Did(move, edit, ok, {})
  PROVE  /\ story' \in Story /\ story'.closed = story.closed
         /\ story'.causes = story.causes \cup A!Causes(desk')
         /\ story'.newest = story.newest /\ story'.requests = story.requests
<1>1. {} \in SUBSET {"toolbar", "open", "jumped"}
  OBVIOUS
<1> QED BY <1>1, DidIs

LEMMA DidWriteIs ==
  ASSUME DeskInv, NEW step \in A!Step, NEW c, NEW ok \in BOOLEAN, A!DidWrite(step, c, ok)
  PROVE  /\ story' \in Story /\ story'.closed = story.closed
         /\ story'.causes = story.causes \cup A!Causes(desk')
         /\ story'.newest = [story.newest EXCEPT ![step][c] = story.edits + 1]
         /\ story'.requests = story.requests
<1> DEFINE newest == [story.newest EXCEPT ![step][c] = story.edits + 1]
           causes == story.causes \cup A!Causes(desk')
           edits == story.edits + 1
           faults == IF ok THEN story.faults ELSE story.faults + 1
<1>1. story \in Story /\ A!Causes(desk') \subseteq CauseName
  BY CausesAre DEF DeskInv
<1>2. newest \in Newest
  <2>1. story.newest \in [A!Step -> [A!Chapter -> Nat]] /\ story.edits + 1 \in Nat
    BY <1>1 DEF Story, Newest
  <2>2. [story.newest[step] EXCEPT ![c] = story.edits + 1] \in [A!Chapter -> Nat]
    BY <2>1
  <2> QED BY <2>1, <2>2 DEF Newest
<1>3. causes \subseteq CauseName /\ edits \in Nat /\ faults \in Nat
  BY <1>1 DEF Story
<1>4. story' = [story EXCEPT !.edits = edits, !.newest = newest, !.faults = faults,
                  !.causes = causes]
  BY <1>1 DEF A!DidWrite, Story
<1> HIDE DEF newest, causes, edits, faults
<1>5. /\ story' \in Story /\ story'.closed = story.closed /\ story'.causes = causes
      /\ story'.newest = newest /\ story'.requests = story.requests
  BY <1>1, <1>2, <1>3, <1>4 DEF Story
<1> QED BY <1>5 DEF newest, causes

LEMMA NewerIs ==
  ASSUME DeskInv, NEW text \in Text
  PROVE  /\ A!Newer(text) \in Text /\ A!Newer(text).of = text.of /\ A!Newer(text).ai = text.ai
         /\ A!Newer(text).n = story.edits + 1
         /\ A!Newer(text).raw = text.raw /\ A!Newer(text).whole = text.whole
<1>1. story.edits + 1 \in Nat
  BY DEF DeskInv, Story
<1> QED BY <1>1 DEF A!Newer, Text

LEMMA DocIs ==
  ASSUME DeskInv, NEW step \in A!Step
  PROVE  desk.doc[step] \in Text /\ desk \in Desk /\ desk.at["left"][step] \in A!Chapter
  BY DEF DeskInv, Shaped, Desk, A!Side

\* The active panel, and what it has when its document is the one of its chapter.
LEMMA ActivePanel ==
  ASSUME DeskInv, NEW p, p = A!Active(desk), p.step # "settings"
  PROVE  /\ p \in Panel /\ p.step \in A!Step /\ p.step = desk.tab[desk.side]
         /\ p.side = desk.side
         /\ Ready(desk) => desk.doc[p.step].of # 0
         /\ ~ desk.split => p.step = desk.tab["left"]
         /\ Even(desk) /\ Filed(desk) /\ Ready(desk) =>
              desk.doc[p.step].of = desk.at["left"][p.step]
<1>1. Shaped(desk)
  BY DEF DeskInv
<1>2. /\ p = [side |-> desk.side, step |-> desk.tab[desk.side]]
      /\ desk.side \in A!Side
      /\ (desk.tab[desk.side] # "settings" => p \in Panel)
      /\ (~ desk.split => desk.side = "left")
  BY <1>1, ActiveIs
<1>3. p.step = desk.tab[desk.side] /\ p.side = desk.side /\ p \in Panel
  BY <1>2
<1>4. p.step \in A!Step /\ desk.side \in {"left", "right"}
  BY <1>2, <1>3 DEF Panel, A!Side
<1>5. Ready(desk) => desk.doc[p.step].of # 0
  BY <1>2, <1>3, <1>4 DEF Ready
<1>6. Filed(desk) /\ Ready(desk) => desk.doc[p.step].of = desk.at["left"][p.step]
  BY <1>4, <1>5 DEF Filed, A!Unloaded, A!Blank
<1> QED BY <1>2, <1>3, <1>4, <1>5, <1>6

LEMMA TypeTextKeepsDesk ==
  ASSUME DeskInv, A!TypeText PROVE DeskInv'
<1> DEFINE p == A!Active(desk)
           text == A!Newer(desk.doc[p.step])
<1>1. /\ p.step # "settings" /\ ~ story.closed
      /\ desk' = A!Written(desk, p.step, text)
      /\ A!DidWrite(p.step, desk.doc[p.step].of, TRUE)
  BY DEF A!TypeText, A!Open
<1>2. /\ p \in Panel /\ p.step \in A!Step
      /\ (~ desk.split => p.step = desk.tab["left"])
      /\ (Even(desk) /\ Filed(desk) /\ Ready(desk) =>
            desk.doc[p.step].of = desk.at["left"][p.step])
      /\ (Ready(desk) => desk.doc[p.step].of # 0)
  BY <1>1, ActivePanel
<1>3. Shaped(desk) /\ story.newest \in Newest /\ desk \in Desk /\ desk.doc[p.step] \in Text
  BY <1>2, DocIs DEF DeskInv, Story
<1>4. /\ story' \in Story /\ story'.closed = story.closed
      /\ story'.causes = story.causes \cup A!Causes(desk')
      /\ story'.newest = [story.newest EXCEPT ![p.step][desk.doc[p.step].of] = story.edits + 1]
  BY <1>1, <1>2, DidWriteIs
<1>5. text \in Text /\ text.of = desk.doc[p.step].of /\ text.n = story.edits + 1
  BY <1>3, NewerIs
<1> HIDE DEF p, text
<1>6. /\ desk'.tab = desk.tab /\ desk'.split = desk.split /\ desk'.was = desk.was
      /\ desk'.at = desk.at /\ desk'.chapter = desk.chapter
  BY <1>1, <1>2, <1>3, <1>5, WrittenIs
<1>7. /\ Shaped(desk') /\ (Even(desk) => Even(desk'))
      /\ (Ready(desk) /\ text.of # 0 => Ready(desk'))
      /\ (Filed(desk) /\ text.of = desk.at["left"][p.step] => Filed(desk'))
      /\ (NewestKept(desk, story.newest) /\ text.of = desk.at["left"][p.step]
            /\ p.step = desk.tab["left"] => NewestKept(desk', story'.newest))
  BY <1>1, <1>2, <1>3, <1>4, <1>5, WrittenKeeps
<1>8. Alone(desk) => Even(desk') /\ ToolbarFits(desk')
  BY <1>6, <1>7 DEF Alone, ToolbarFits
<1>9. Even(desk) /\ Filed(desk) /\ Ready(desk) => Filed(desk') /\ Ready(desk')
  BY <1>2, <1>5, <1>7
<1>10. Alone(desk) /\ Filed(desk) /\ Ready(desk) /\ NewestKept(desk, story.newest) =>
         NewestKept(desk', story'.newest)
  BY <1>2, <1>5, <1>7 DEF Alone
<1> QED BY <1>1, <1>4, <1>6, <1>7, <1>8, <1>9, <1>10, DeskStepPlain

\* A save of a panel, or a save that failed.
LEMMA SyncKeepsDesk ==
  ASSUME DeskInv, NEW p \in Panel, NEW ok \in BOOLEAN, NEW move \in Nat, A!Open,
         desk' = A!Synced(desk, p, ok), A!Did(move, 0, ok, {})
  PROVE  DeskInv'
<1>1. Shaped(desk) /\ desk \in Desk /\ ~ story.closed
  BY DEF DeskInv, Shaped, A!Open
<1>2. /\ story' \in Story /\ story'.closed = story.closed
      /\ story'.causes = story.causes \cup A!Causes(desk')
      /\ story'.newest = story.newest
  BY DidPlain
<1>3. /\ desk'.tab = desk.tab /\ desk'.split = desk.split /\ desk'.was = desk.was
      /\ desk'.at = desk.at /\ desk'.chapter = desk.chapter
  BY <1>1, SavedIs, SaveFailedIs DEF A!Synced
<1>4. Shaped(desk') /\ (Even(desk) => Even(desk')) /\ (Ready(desk) => Ready(desk'))
  BY <1>1, SavedKeeps, SaveFailedKeeps DEF A!Synced
<1>5. Even(desk) /\ ~ Unfiled(desk') /\ Filed(desk) => Filed(desk')
  BY <1>1, SavedKeeps, SavedUnfiled, SaveFailedKeeps DEF A!Synced
<1>6. Even(desk) /\ ~ Unfiled(desk') /\ NewestKept(desk, story.newest) =>
        NewestKept(desk', story'.newest)
  BY <1>1, <1>2, SavedKeeps, SavedUnfiled, SaveFailedKeeps DEF A!Synced
<1>7. Alone(desk) => Even(desk') /\ ToolbarFits(desk')
  BY <1>3, <1>4 DEF Alone, ToolbarFits
<1>8. Alone(desk) /\ ~ Unfiled(desk') /\ NewestKept(desk, story.newest) =>
        NewestKept(desk', story'.newest)
  BY <1>6 DEF Alone
<1> QED BY <1>1, <1>2, <1>3, <1>4, <1>5, <1>7, <1>8, DeskStepPlain

LEMMA SavesKeepDesk ==
  ASSUME DeskInv, A!Autosave \/ A!ManualSave PROVE DeskInv'
<1>1. ASSUME A!Autosave PROVE DeskInv'
  BY <1>1, SyncKeepsDesk DEF A!Autosave, DeskInv, Shaped, Desk
<1>2. ASSUME A!ManualSave PROVE DeskInv'
  BY <1>2, ActivePanel, SyncKeepsDesk DEF A!ManualSave
<1> QED BY <1>1, <1>2

LEMMA SaveContentKeepsDesk ==
  ASSUME DeskInv, A!SaveContent PROVE DeskInv'
<1>0. Shaped(desk) /\ desk \in Desk
  BY DEF DeskInv, Shaped
<1>1. PICK p \in {[side |-> s, step |-> desk.tab[s]] : s \in A!Side} :
        /\ A!Visible(p)
        /\ desk' = [desk EXCEPT !.files[p.step][desk.chapter] = desk.doc[p.step],
                      !.dirty = IF A!Active(desk).step = p.step THEN @ \ {p.step} ELSE @]
        /\ A!Did(1, 0, TRUE,
             IF desk.chapter # desk.at[p.side][p.step] THEN {"toolbar"} ELSE {})
  BY DEF A!SaveContent
<1> DEFINE more == IF desk.chapter # desk.at[p.side][p.step] THEN {"toolbar"} ELSE {}
           marks == IF A!Active(desk).step = p.step THEN desk.dirty \ {p.step} ELSE desk.dirty
<1>2. /\ p.side \in A!Side /\ p.step = desk.tab[p.side] /\ p.step \in A!Step
      /\ p.side = "left" \/ desk.split
  BY <1>0, <1>1 DEF Desk, A!Visible, A!Tab
<1>3. marks \in SUBSET A!Step
  BY <1>0 DEF Desk
<1>4. desk' = ContentSaved(desk, p.step, marks)
  BY <1>1, <1>0 DEF Desk, ContentSaved
<1> HIDE DEF marks
<1>5. /\ story' \in Story /\ story'.closed = story.closed /\ more \in SUBSET {"toolbar", "open", "jumped"}
      /\ story'.causes = (story.causes \cup A!Causes(desk')) \cup more
      /\ story'.newest = story.newest
  BY <1>1, DidIs
<1>6. ~ story.closed
  BY DEF A!SaveContent, A!Open
<1>7. /\ Shaped(desk') /\ desk'.tab = desk.tab /\ desk'.split = desk.split
      /\ desk'.was = desk.was /\ desk'.at = desk.at /\ desk'.chapter = desk.chapter
      /\ (Ready(desk) => Ready(desk'))
      /\ (Even(desk) /\ Filed(desk) /\ Ready(desk) /\ desk.chapter = desk.at[p.side][p.step] =>
            Filed(desk'))
      /\ (Even(desk) /\ Ready(desk) /\ ~ desk.split /\ desk.chapter = desk.at[p.side][p.step]
            /\ NewestKept(desk, story.newest) => NewestKept(desk', story.newest))
  BY <1>0, <1>2, <1>3, <1>4, ContentSavedKeeps
<1>8. "toolbar" \notin more => desk.chapter = desk.at[p.side][p.step]
  OBVIOUS
<1>9. Alone(desk) =>
        Even(desk') /\ ToolbarFits(desk') /\ "toolbar" \notin more
        /\ desk.chapter = desk.at[p.side][p.step]
  BY <1>2, <1>7 DEF Alone, A!Step, ToolbarFits, Even
<1> HIDE DEF more
<1>10. Alone(desk) /\ Ready(desk) /\ NewestKept(desk, story.newest) =>
         NewestKept(desk', story'.newest)
  BY <1>5, <1>7, <1>9 DEF Alone
<1>11. Even(desk) /\ Filed(desk) /\ Ready(desk) /\ "toolbar" \notin more =>
         Filed(desk') /\ Ready(desk')
  BY <1>7, <1>8
<1> QED BY <1>5, <1>6, <1>7, <1>9, <1>10, <1>11, DeskStep

LEMMA SwitchTabKeepsDesk ==
  ASSUME DeskInv, A!SwitchTab PROVE DeskInv'
<1>1. PICK tab \in A!Tab, ok \in BOOLEAN :
        /\ tab # desk.tab[desk.side]
        /\ desk' = A!Switched(desk, tab, ok) /\ A!Did(1, 0, ok, {})
  BY DEF A!SwitchTab
<1>2. ~ story.closed /\ Shaped(desk)
  BY DEF A!SwitchTab, A!Open, DeskInv
<1>3. /\ story' \in Story /\ story'.closed = story.closed
      /\ story'.causes = story.causes \cup A!Causes(desk')
      /\ story'.newest = story.newest
  BY <1>1, DidPlain
<1>4. /\ Shaped(desk') /\ desk'.at = desk.at
      /\ (Even(desk) /\ Filed(desk) /\ Ready(desk) => Filed(desk') /\ Ready(desk'))
      /\ (Even(desk) /\ Filed(desk) /\ Ready(desk) /\ ~ desk.split /\ desk.was = Nothing
            /\ NewestKept(desk, story.newest) => NewestKept(desk', story.newest))
      /\ (desk'.split \/ desk'.was # Nothing => desk.split \/ desk.was # Nothing)
      /\ (~ desk.split /\ desk.was = Nothing =>
            \/ desk'.chapter = desk.chapter /\ desk'.tab = desk.tab
            \/ /\ desk'.tab["left"] = tab
               /\ IF tab = desk.tab["left"] \/ tab = "settings" THEN desk'.chapter = desk.chapter
                  ELSE desk'.chapter = desk.at["left"][tab])
  BY <1>1, <1>2, SwitchedKeeps
<1>5. Alone(desk) => Even(desk') /\ ToolbarFits(desk')
  BY <1>1, <1>2, <1>4 DEF Even, Alone, Shaped, ToolbarFits
<1>6. Alone(desk) /\ Filed(desk) /\ Ready(desk) /\ NewestKept(desk, story.newest) =>
        NewestKept(desk', story'.newest)
  BY <1>3, <1>4 DEF Alone
<1>7. desk'.was # Nothing => desk.split \/ desk.was # Nothing
  BY <1>4
<1>8. Even(desk) /\ Filed(desk) /\ Ready(desk) => Filed(desk') /\ Ready(desk')
  BY <1>4
<1>9. Shaped(desk')
  BY <1>4
<1> QED BY <1>2, <1>3, <1>5, <1>6, <1>7, <1>8, <1>9, DeskStepPlain

LEMMA ChangeChapterKeepsDesk ==
  ASSUME DeskInv, A!ChangeChapter PROVE DeskInv'
<1>1. PICK c \in A!Chapter, ok \in BOOLEAN :
        desk' = A!Turned(desk, c, ok, FALSE) /\ A!Did(1, 0, ok, {})
  BY DEF A!ChangeChapter
<1>2. ~ story.closed /\ Shaped(desk) /\ A!Active(desk).step # "settings"
  BY DEF A!ChangeChapter, A!Open, DeskInv
<1>3. /\ story' \in Story /\ story'.closed = story.closed
      /\ story'.causes = story.causes \cup A!Causes(desk')
      /\ story'.newest = story.newest
  BY <1>1, DidPlain
<1>4. /\ Shaped(desk') /\ desk'.tab = desk.tab /\ desk'.split = desk.split
      /\ desk'.was = desk.was /\ (Even(desk) => Even(desk'))
      /\ (Even(desk) /\ Filed(desk) /\ Ready(desk) => Filed(desk') /\ Ready(desk'))
      /\ (Even(desk) /\ Filed(desk) /\ Ready(desk) /\ NewestKept(desk, story.newest) =>
            NewestKept(desk', story.newest))
      /\ (ok => desk'.chapter = c /\ desk'.at[desk.side][A!Active(desk).step] = c)
      /\ (~ ok => desk'.chapter = desk.chapter /\ desk'.at = desk.at)
  <2> DEFINE shown == FALSE
  <2>1. shown \in BOOLEAN /\ ~ shown /\ desk' = A!Turned(desk, c, ok, shown)
    BY <1>1
  <2> HIDE DEF shown
  <2> QED BY <1>2, <2>1, TurnedKeeps
<1>5. Alone(desk) => ToolbarFits(desk')
  BY <1>2, <1>4, ActivePanel DEF Alone, Shaped, ToolbarFits
<1>6. Alone(desk) => Even(desk')
  BY <1>4 DEF Alone
<1>7. Alone(desk) /\ Filed(desk) /\ Ready(desk) /\ NewestKept(desk, story.newest) =>
        NewestKept(desk', story'.newest)
  BY <1>3, <1>4 DEF Alone
<1> QED BY <1>2, <1>3, <1>4, <1>5, <1>6, <1>7, DeskStepPlain

LEMMA FocusKeepsDesk ==
  ASSUME DeskInv, A!Focus PROVE DeskInv'
<1>1. PICK side \in A!Side :
        /\ desk.tab[side] # "settings"
        /\ desk' = [desk EXCEPT !.side = side, !.chapter = desk.at[side][desk.tab[side]]]
  BY DEF A!Focus
<1>2. ~ story.closed /\ desk.split /\ A!Did(1, 0, TRUE, {}) /\ Shaped(desk)
  BY DEF A!Focus, A!Open, DeskInv
<1>3. /\ story' \in Story /\ story'.closed = story.closed
      /\ story'.causes = story.causes \cup A!Causes(desk')
  BY <1>2, DidPlain
<1>4. desk.at[side][desk.tab[side]] \in A!Chapter
  BY <1>1, <1>2 DEF Shaped, Desk, A!Tab
<1>5. /\ Shaped(desk') /\ desk'.split
      /\ (Filed(desk) /\ Ready(desk) => Filed(desk') /\ Ready(desk'))
  BY <1>1, <1>2, <1>4, FocusedKeeps
<1> QED BY <1>2, <1>3, <1>5, DeskStepPlain

LEMMA ToggleSplitKeepsDesk ==
  ASSUME DeskInv, A!ToggleSplit PROVE DeskInv'
<1>1. PICK ok \in BOOLEAN :
        /\ IF desk.split THEN ok /\ desk' = A!SplitClosed(desk)
           ELSE desk' = A!SplitOpened(desk, ok)
        /\ A!Did(1, 0, ok, {})
  BY DEF A!ToggleSplit
<1>2. ~ story.closed /\ Shaped(desk) /\ desk.tab["left"] # "settings"
  BY DEF A!ToggleSplit, A!Open, DeskInv
<1>3. /\ story' \in Story /\ story'.closed = story.closed
      /\ story'.causes = story.causes \cup A!Causes(desk')
  BY <1>1, DidPlain
<1>4. CASE desk.split
  BY <1>1, <1>2, <1>3, <1>4, SplitClosedKeeps, DeskStepPlain DEF Alone
<1>5. CASE ~ desk.split
  BY <1>1, <1>2, <1>3, <1>5, SplitOpenedKeeps, DeskStepPlain DEF Shaped
<1> QED BY <1>4, <1>5

-----------------------------------------------------------------------------
(* The steps of the assistant keep the desk *)

Request == [id : Nat, step : A!Step, chapter : A!Chapter, about : SUBSET Nat]

Boxes ==
  [answers : SUBSET Request, session : SUBSET Nat, final : BOOLEAN, raws : SUBSET Nat,
   whole : BOOLEAN]

Assistants ==
  [shown : BOOLEAN, step : A!Step, key : (A!Chapter \X A!Step) \cup {Nothing},
   active : Request \cup {Nothing}, box : [A!Step -> Boxes]]

Workers ==
  [req : Request, at : {"running", "answered", "failed"}, interrupted : BOOLEAN]

Fates ==
  [history : SUBSET Request, dialogs : SUBSET Request, cancelled : SUBSET Request,
   failed : SUBSET Request]

\* Only a summary is confirmed for good.
AiTyped ==
  /\ ai \in Assistants /\ workers \subseteq Workers /\ answers \in Fates
  /\ \A t \in A!Step : ai.box[t].final => t = "summary"

\* The editor that takes the focus brings its chapter to the toolbar.
LEMMA ShownChapterKeeps ==
  ASSUME NEW d, Shaped(d), NEW newest
  PROVE  LET e == A!Focused(d) IN
         /\ Shaped(e) /\ e.at = d.at /\ e.split = d.split /\ e.was = d.was
         /\ TrueTexts(d) => TrueTexts(e)
         /\ Filed(d) /\ Ready(d) => Filed(e) /\ Ready(e)
         /\ NewestKept(d, newest) => NewestKept(e, newest)
         /\ ~ d.split => ToolbarFits(e)
<1> DEFINE p == A!Active(d)
           e == A!Focused(d)
<1>1. /\ p = [side |-> d.side, step |-> d.tab[d.side]]
      /\ d.side \in A!Side /\ d.tab[d.side] \in A!Tab /\ (~ d.split => d.side = "left")
  BY ActiveIs
<1>2. d \in Desk
  BY DEF Shaped
<1>3. e = IF d.tab[d.side] = "settings" THEN d ELSE [d EXCEPT !.chapter = d.at[d.side][d.tab[d.side]]]
  BY <1>1 DEF A!Focused
<1> HIDE DEF p, e
<1>4. /\ e \in Desk /\ e.tab = d.tab /\ e.split = d.split /\ e.side = d.side /\ e.was = d.was
      /\ e.at = d.at /\ e.doc = d.doc /\ e.files = d.files
      /\ e.timers = d.timers /\ e.dirty = d.dirty
      /\ (d.tab[d.side] # "settings" => e.chapter = d.at[d.side][d.tab[d.side]])
  <2>1. CASE d.tab[d.side] = "settings"
    BY <1>2, <1>3, <2>1
  <2>2. CASE d.tab[d.side] # "settings"
    <3>1. d.tab[d.side] \in A!Step /\ d.at[d.side][d.tab[d.side]] \in A!Chapter
      BY <1>1, <1>2, <2>2 DEF Desk, A!Tab
    <3> QED BY <1>2, <1>3, <2>2, <3>1 DEF Desk
  <2> QED BY <2>1, <2>2
<1>5. Shaped(e) /\ (TrueTexts(d) => TrueTexts(e)) /\ (Filed(d) /\ Ready(d) => Filed(e) /\ Ready(e))
  BY <1>4 DEF Shaped, TrueTexts, Filed, Ready
<1>6. (NewestKept(d, newest) => NewestKept(e, newest)) /\ (~ d.split => ToolbarFits(e))
  BY <1>1, <1>4 DEF NewestKept, ToolbarFits
<1> QED BY <1>4, <1>5, <1>6 DEF e

LEMMA JumpedKeeps ==
  ASSUME DeskInv, ai.shown \in BOOLEAN, NEW step \in A!Step, NEW c \in A!Chapter,
         NEW turned \in BOOLEAN, NEW switched \in BOOLEAN
  PROVE  LET e == A!Jumped(step, c, turned, switched) IN
         /\ Shaped(e)
         /\ e.was # Nothing => desk.split \/ desk.was # Nothing
         /\ Alone(desk) /\ ~ e.split => Even(e) /\ ToolbarFits(e)
         /\ TrueTexts(desk) => TrueTexts(e)
         /\ Even(desk) /\ Filed(desk) /\ Ready(desk) => Filed(e) /\ Ready(e)
         /\ Alone(desk) /\ Filed(desk) /\ Ready(desk) /\ NewestKept(desk, story.newest) =>
              NewestKept(e, story.newest)
<1> DEFINE d == IF c = desk.chapter THEN desk ELSE A!Turned(desk, c, turned, ai.shown)
           m == A!Switched(d, step, switched)
           e == A!Jumped(step, c, turned, switched)
           newest == story.newest
<1>1. e = A!Focused(m) /\ Shaped(desk) /\ step \in A!Tab
  BY DEF A!Jumped, DeskInv, A!Tab
<1>2. /\ Shaped(d) /\ d.split = desk.split /\ d.was = desk.was /\ (Even(desk) => Even(d))
      /\ (TrueTexts(desk) => TrueTexts(d))
      /\ (Even(desk) /\ Filed(desk) /\ Ready(desk) => Filed(d) /\ Ready(d))
      /\ (Even(desk) /\ Filed(desk) /\ Ready(desk) /\ NewestKept(desk, newest) =>
            NewestKept(d, newest))
  <2>1. CASE c = desk.chapter
    BY <1>1, <2>1
  <2>2. CASE c # desk.chapter
    <3>1. d = A!Turned(desk, c, turned, ai.shown)
      BY <2>2
    <3> HIDE DEF d, newest
    <3> QED BY <1>1, <3>1, TurnedKeeps
  <2> QED BY <2>1, <2>2
<1> HIDE DEF d, e, newest
<1>3. /\ Shaped(m) /\ m.at = d.at
      /\ (TrueTexts(d) => TrueTexts(m))
      /\ (Even(d) /\ Filed(d) /\ Ready(d) => Filed(m) /\ Ready(m))
      /\ (Even(d) /\ Filed(d) /\ Ready(d) /\ ~ d.split /\ d.was = Nothing
            /\ NewestKept(d, newest) => NewestKept(m, newest))
      /\ (m.split \/ m.was # Nothing => d.split \/ d.was # Nothing)
  BY <1>1, <1>2, SwitchedKeeps
<1> HIDE DEF m
<1>4. /\ Shaped(e) /\ e.at = m.at /\ e.split = m.split /\ e.was = m.was
      /\ (TrueTexts(m) => TrueTexts(e)) /\ (Filed(m) /\ Ready(m) => Filed(e) /\ Ready(e))
      /\ (NewestKept(m, newest) => NewestKept(e, newest)) /\ (~ m.split => ToolbarFits(e))
  BY <1>1, <1>3, ShownChapterKeeps
<1>5. Even(d) => Even(e)
  BY <1>3, <1>4 DEF Even
<1> QED BY <1>2, <1>3, <1>4, <1>5 DEF Alone, e, newest

LEMMA GotoKeepsDesk ==
  ASSUME DeskInv, AiTyped, A!GotoSearchResult PROVE DeskInv'
<1>1. PICK step \in A!Step, c \in A!Chapter, turned \in BOOLEAN, switched \in BOOLEAN :
        /\ desk' = A!Jumped(step, c, turned, switched)
        /\ A!Did(1, 0, turned /\ switched, {})
  BY DEF A!GotoSearchResult
<1> DEFINE ok == turned /\ switched
<1>2. A!Did(1, 0, ok, {}) /\ ok \in BOOLEAN /\ ~ story.closed /\ ai.shown \in BOOLEAN
  BY <1>1 DEF A!GotoSearchResult, A!Open, AiTyped, Assistants
<1> HIDE DEF ok
<1>3. /\ story' \in Story /\ story'.closed = story.closed
      /\ story'.causes = story.causes \cup A!Causes(desk')
      /\ story'.newest = story.newest
  BY <1>2, DidPlain
<1>4. /\ Shaped(desk')
      /\ (desk'.was # Nothing => desk.split \/ desk.was # Nothing)
      /\ (Alone(desk) /\ ~ desk'.split => Even(desk') /\ ToolbarFits(desk'))
      /\ (Even(desk) /\ Filed(desk) /\ Ready(desk) => Filed(desk') /\ Ready(desk'))
      /\ (Alone(desk) /\ Filed(desk) /\ Ready(desk) /\ NewestKept(desk, story.newest) =>
            NewestKept(desk', story.newest))
  BY <1>1, <1>2, JumpedKeeps
<1> QED BY <1>2, <1>3, <1>4, DeskStepPlain

LEMMA AskedIs ==
  ASSUME DeskInv, NEW ok \in BOOLEAN, NEW more \in SUBSET {"toolbar", "open", "jumped"},
         A!Asked(ok, more)
  PROVE  /\ story' \in Story /\ story'.closed = story.closed
         /\ story'.causes = (story.causes \cup A!Causes(desk')) \cup more
         /\ story'.newest = story.newest /\ story'.requests = story.requests + 1
<1> DEFINE causes == (story.causes \cup A!Causes(desk')) \cup more
           requests == story.requests + 1
           faults == IF ok THEN story.faults ELSE story.faults + 1
<1>1. story \in Story /\ A!Causes(desk') \subseteq CauseName /\ more \subseteq CauseName
  BY CausesAre DEF DeskInv, CauseName
<1>2. story.causes \subseteq CauseName
  BY <1>1 DEF Story
<1>3. causes \subseteq CauseName
  BY <1>1, <1>2
<1>4. requests \in Nat /\ faults \in Nat
  BY <1>1 DEF Story
<1>5. story' = [story EXCEPT !.requests = requests, !.faults = faults, !.causes = causes]
  BY <1>1 DEF A!Asked, Story
<1> HIDE DEF causes, requests, faults
<1>6. /\ story' \in Story /\ story'.closed = story.closed /\ story'.causes = causes
      /\ story'.newest = story.newest /\ story'.requests = requests
  BY <1>1, <1>3, <1>4, <1>5 DEF Story
<1> QED BY <1>6 DEF causes, requests

LEMMA StaleToolbarIs ==
  /\ A!StaleToolbar \in SUBSET {"toolbar", "open", "jumped"}
  /\ desk.tab["left"] # "settings" /\ ToolbarFits(desk) => A!StaleToolbar = {}
  /\ "toolbar" \notin A!StaleToolbar => desk.chapter = desk.at["left"][desk.tab["left"]]
  BY DEF A!StaleToolbar, ToolbarFits

\* The desk as it is, and a new entry in the story.
LEMMA SameDeskKept ==
  ASSUME DeskInv, desk' = desk, story' \in Story, ~ story.closed, ~ story'.closed,
         story'.newest = story.newest,
         story'.causes = story.causes \cup A!Causes(desk')
  PROVE  DeskInv'
<1>1. Shaped(desk)
  BY DEF DeskInv
<1>2. Alone(desk) => Even(desk') /\ ToolbarFits(desk')
  BY DEF Alone
<1> QED BY <1>1, <1>2, DeskStepPlain

LEMMA PanelStepsKeepDesk ==
  ASSUME DeskInv, A!OpenPanel \/ A!Feedback PROVE DeskInv'
<1>1. ASSUME A!OpenPanel PROVE DeskInv'
  BY <1>1, DidPlain, SameDeskKept DEF A!OpenPanel, A!Open
<1>2. ASSUME A!Feedback PROVE DeskInv'
  <2> DEFINE more == IF ai.key # <<desk.chapter, ai.step>> THEN {"jumped"} ELSE {}
             yes == TRUE
  <2>1. desk' = desk /\ ~ story.closed /\ A!Asked(yes, more)
    BY <1>2 DEF A!Feedback, A!Open
  <2>2. more \in SUBSET {"toolbar", "open", "jumped"} /\ "toolbar" \notin more /\ yes \in BOOLEAN
    OBVIOUS
  <2>3. Shaped(desk)
    BY DEF DeskInv
  <2>4. Alone(desk) => Even(desk') /\ ToolbarFits(desk')
    BY <2>1 DEF Alone
  <2> HIDE DEF more, yes
  <2>5. /\ story' \in Story /\ story'.closed = story.closed /\ story'.newest = story.newest
        /\ story'.causes = (story.causes \cup A!Causes(desk')) \cup more
    BY <2>1, <2>2, AskedIs
  <2> QED BY <2>1, <2>2, <2>3, <2>4, <2>5, DeskStep
<1> QED BY <1>1, <1>2

\* Stopping, hiding, and the ends of requests.
LEMMA AnswersLeaveDesk ==
  ASSUME DeskInv,
         A!StopGeneration \/ A!HidePanel \/ A!WorkerEnds \/ A!Deliver \/ A!DeliverError
           \/ A!SettleDialog
  PROVE  DeskInv'
<1>1. story \in Story
  BY DEF DeskInv
<1>2. CASE A!StopGeneration \/ A!HidePanel \/ A!WorkerEnds \/ A!DeliverError \/ A!SettleDialog
  <2>1. desk' = desk /\ story' = story
    BY <1>2 DEF A!StopGeneration, A!HidePanel, A!WorkerEnds, A!DeliverError, A!SettleDialog
  <2> QED BY <1>1, <2>1, DeskStands
<1>3. CASE A!Deliver
  <2>1. desk' = desk
    BY <1>3 DEF A!Deliver
  <2>2. story' = story \/ \E ok \in BOOLEAN :
          story' = [story EXCEPT !.faults = IF ok THEN @ ELSE @ + 1]
    BY <1>3 DEF A!Deliver
  <2>3. /\ story' \in Story /\ story'.causes = story.causes
        /\ story'.newest = story.newest /\ story'.closed = story.closed
    BY <1>1, <2>2 DEF Story
  <2> QED BY <2>1, <2>3, DeskStands
<1> QED BY <1>2, <1>3

\* A step is brought to the chapter of the toolbar, and the tab stays.
LEMMA BroughtKeepsDesk ==
  ASSUME DeskInv, NEW step \in A!Step, NEW c \in A!Chapter, NEW ok \in BOOLEAN,
         desk' = A!Brought(desk, step, c, ok), step # desk.tab["left"],
         NEW more \in SUBSET {"toolbar", "open", "jumped"},
         Alone(desk) => "toolbar" \notin more,
         story' \in Story, ~ story.closed, ~ story'.closed, story'.newest = story.newest,
         story'.causes = (story.causes \cup A!Causes(desk')) \cup more
  PROVE  DeskInv'
<1>1. Shaped(desk) /\ desk \in Desk
  BY DEF DeskInv, Shaped
<1>2. /\ Shaped(desk') /\ desk'.tab = desk.tab /\ desk'.split = desk.split
      /\ desk'.was = desk.was /\ desk'.chapter = desk.chapter
      /\ (Even(desk) => Even(desk'))
      /\ (ok /\ desk.at["left"][step] # c =>
            desk'.files[step][desk.at["left"][step]] = desk.doc[step])
      /\ \A t \in A!Step : t # step => desk'.at["left"][t] = desk.at["left"][t]
  BY <1>1, BroughtKeeps
<1>3. /\ (ok /\ desk.at["left"][step] # c => desk.doc[step].of # 0) /\ Even(desk)
           /\ Filed(desk) =>
              /\ Filed(desk')
              /\ Ready(desk) => Ready(desk')
              /\ NewestKept(desk, story.newest) => NewestKept(desk', story.newest)
  BY <1>1, BroughtKeeps
<1>4. desk.at["left"][step] \in A!Chapter
  BY <1>1 DEF Desk, A!Side
<1>5. ~ Unfiled(desk') => (ok /\ desk.at["left"][step] # c => desk.doc[step].of # 0)
  BY <1>2, <1>4 DEF Unfiled
<1>6. Alone(desk) => Even(desk') /\ ToolbarFits(desk') /\ "toolbar" \notin more
  BY <1>1, <1>2 DEF Desk, A!Tab, A!Side, Alone, ToolbarFits
<1>7. Even(desk) /\ ~ Unfiled(desk') /\ Filed(desk) /\ Ready(desk) =>
        Filed(desk') /\ Ready(desk')
  BY <1>3, <1>5
<1>8. Alone(desk) /\ ~ Unfiled(desk') /\ Filed(desk) /\ NewestKept(desk, story.newest) =>
        NewestKept(desk', story'.newest)
  BY <1>3, <1>5 DEF Alone
<1>9. desk'.was # Nothing => desk.was # Nothing
  BY <1>2
<1>10. Shaped(desk')
  BY <1>2
<1> QED BY <1>6, <1>7, <1>8, <1>9, <1>10, DeskStep

LEMMA GenerateDraftKeepsDesk ==
  ASSUME DeskInv, A!GenerateDraft PROVE DeskInv'
<1>1. ~ story.closed /\ desk.tab["left"] = "draft" /\ desk.chapter \in A!Chapter
  BY DEF A!GenerateDraft, A!Open, DeskInv, Shaped, Desk
<1>2. PICK ok \in BOOLEAN :
        /\ desk' = A!Brought(desk, "completed", desk.chapter, ok)
        /\ A!Did(0, 0, ok, {}) \/ A!Asked(ok, A!StaleToolbar)
  BY DEF A!GenerateDraft
<1>3. "completed" \in A!Step /\ "completed" # desk.tab["left"]
  BY <1>1 DEF A!Step
<1>4. CASE A!Did(0, 0, ok, {})
  <2> DEFINE more == {}
  <2>1. /\ story' \in Story /\ story'.closed = story.closed /\ story'.newest = story.newest
        /\ story'.causes = (story.causes \cup A!Causes(desk')) \cup more
    BY <1>4, DidPlain
  <2>2. more \in SUBSET {"toolbar", "open", "jumped"} /\ "toolbar" \notin more
    OBVIOUS
  <2> HIDE DEF more
  <2> QED BY <1>1, <1>2, <1>3, <2>1, <2>2, BroughtKeepsDesk
<1>5. CASE A!Asked(ok, A!StaleToolbar)
  <2> DEFINE more == A!StaleToolbar
  <2>1. more \in SUBSET {"toolbar", "open", "jumped"} /\ (Alone(desk) => "toolbar" \notin more)
    BY <1>1, StaleToolbarIs DEF Alone
  <2>2. A!Asked(ok, more)
    BY <1>5
  <2> HIDE DEF more
  <2>3. /\ story' \in Story /\ story'.closed = story.closed /\ story'.newest = story.newest
        /\ story'.causes = (story.causes \cup A!Causes(desk')) \cup more
    BY <2>1, <2>2, AskedIs
  <2> QED BY <1>1, <1>2, <1>3, <2>1, <2>3, BroughtKeepsDesk
<1> QED BY <1>2, <1>4, <1>5

LEMMA ConfirmFailsKeepsDesk ==
  ASSUME DeskInv, A!ConfirmFails PROVE DeskInv'
<1> DEFINE no == FALSE
           more == {}
<1>1. ~ story.closed /\ desk.tab["left"] = "eval" /\ desk.chapter \in A!Chapter
  BY DEF A!ConfirmFails, A!Confirmable, A!Open, DeskInv, Shaped, Desk
<1>2. no \in BOOLEAN /\ desk' = A!Brought(desk, "summary", desk.chapter, no)
        /\ A!Did(0, 0, no, {})
  BY DEF A!ConfirmFails
<1> HIDE DEF no
<1>3. /\ story' \in Story /\ story'.closed = story.closed /\ story'.newest = story.newest
      /\ story'.causes = (story.causes \cup A!Causes(desk')) \cup more
  BY <1>2, DidPlain
<1>4. more \in SUBSET {"toolbar", "open", "jumped"} /\ "toolbar" \notin more
  OBVIOUS
<1> HIDE DEF more
<1>5. "summary" \in A!Step /\ "summary" # desk.tab["left"]
  BY <1>1 DEF A!Step
<1> QED BY <1>1, <1>2, <1>3, <1>4, <1>5, BroughtKeepsDesk

LEMMA GenerateEvaluationKeepsDesk ==
  ASSUME DeskInv, A!GenerateEvaluation, ai.shown \in BOOLEAN PROVE DeskInv'
<1> DEFINE more == A!StaleToolbar \cup IF ai.shown THEN {"open"} ELSE {}
<1>1. /\ ~ story.closed /\ ~ desk.split /\ desk.tab["left"] = "completed"
      /\ desk.chapter \in A!Chapter /\ Shaped(desk)
  BY DEF A!GenerateEvaluation, A!Open, DeskInv, Shaped, Desk
<1>2. PICK ok \in BOOLEAN :
        /\ desk' = A!Turned(A!Switched(desk, "eval", ok), desk.chapter, ok, ai.shown)
        /\ A!Asked(ok, more)
  BY DEF A!GenerateEvaluation
<1> DEFINE d == A!Switched(desk, "eval", ok)
<1>3. "eval" \in A!Tab /\ "eval" # "settings" /\ "eval" \in A!Step
  BY DEF A!Tab, A!Step
<1>4. desk.side = "left" /\ desk.was = Nothing
  BY <1>1 DEF Shaped
<1>5. more \in SUBSET {"toolbar", "open", "jumped"} /\ ("toolbar" \notin A!StaleToolbar => "toolbar" \notin more)
  BY StaleToolbarIs
<1> HIDE DEF more
<1>6. /\ story' \in Story /\ story'.closed = story.closed /\ story'.newest = story.newest
      /\ story'.causes = (story.causes \cup A!Causes(desk')) \cup more
  BY <1>2, <1>5, AskedIs
<1>7. /\ Shaped(d) /\ d.at = desk.at
      /\ (Even(desk) /\ Filed(desk) /\ Ready(desk) => Filed(d) /\ Ready(d))
      /\ (Even(desk) /\ Filed(desk) /\ Ready(desk) /\ ~ desk.split /\ desk.was = Nothing
            /\ NewestKept(desk, story.newest) => NewestKept(d, story.newest))
      /\ (d.split \/ d.was # Nothing => desk.split \/ desk.was # Nothing)
      /\ (~ desk.split /\ desk.was = Nothing =>
            \/ d.chapter = desk.chapter /\ d.tab = desk.tab
            \/ /\ d.tab["left"] = "eval"
               /\ IF "eval" = desk.tab["left"] \/ "eval" = "settings"
                  THEN d.chapter = desk.chapter
                  ELSE d.chapter = desk.at["left"]["eval"])
  BY <1>1, <1>3, SwitchedKeeps
<1> HIDE DEF d
<1>8. Even(desk) => Even(d)
  BY <1>7 DEF Even
<1>9. Alone(desk) => ToolbarFits(d)
  BY <1>1, <1>4, <1>7 DEF Alone, ToolbarFits
<1>10. d.split = FALSE /\ d.was = Nothing /\ d.side = "left"
  BY <1>1, <1>4, <1>7 DEF Shaped, Desk
<1>11. desk' = A!Turned(d, desk.chapter, ok, ai.shown)
  BY <1>2 DEF d
<1>12. /\ Shaped(desk') /\ desk'.tab = d.tab /\ desk'.split = d.split
       /\ desk'.was = d.was /\ (Even(d) => Even(desk'))
       /\ (Even(d) /\ Filed(d) /\ Ready(d) => Filed(desk') /\ Ready(desk'))
       /\ (Even(d) /\ Filed(d) /\ Ready(d) /\ NewestKept(d, story.newest) =>
            NewestKept(desk', story.newest))
  BY <1>1, <1>7, <1>11, TurnedKeeps
<1>13. \/ desk'.chapter = desk.chapter /\ desk'.at["left"][A!Active(d).step] = desk.chapter
          /\ A!Active(d).step # "settings"
       \/ desk'.chapter = d.chapter /\ desk'.at = d.at
  <2> DEFINE step == A!Active(d).step
  <2>1. IF ok /\ ~ ai.shown /\ step # "settings"
        THEN desk'.chapter = desk.chapter /\ desk'.at[d.side][step] = desk.chapter
        ELSE desk'.chapter = d.chapter /\ desk'.at = d.at
    BY <1>1, <1>7, <1>11, TurnedKeeps
  <2> HIDE DEF step
  <2> QED BY <1>10, <2>1 DEF step
<1>14. Alone(desk) => ToolbarFits(desk')
  BY <1>7, <1>9, <1>10, <1>12, <1>13, ActiveIs DEF ToolbarFits
<1>15. Alone(desk) => Even(desk') /\ ToolbarFits(desk') /\ "toolbar" \notin more
  BY <1>1, <1>5, <1>8, <1>12, <1>14, StaleToolbarIs DEF Alone
<1>16. Even(desk) /\ Filed(desk) /\ Ready(desk) => Filed(desk') /\ Ready(desk')
  BY <1>7, <1>8, <1>12
<1>17. Alone(desk) /\ Filed(desk) /\ Ready(desk) /\ NewestKept(desk, story.newest) =>
         NewestKept(desk', story'.newest)
  BY <1>6, <1>7, <1>8, <1>12 DEF Alone
<1>18. desk'.was = Nothing
  BY <1>10, <1>12
<1>19. Shaped(desk')
  BY <1>12
<1> QED BY <1>1, <1>5, <1>6, <1>15, <1>16, <1>17, <1>18, <1>19, DeskStep

LEMMA AboutNat ==
  ASSUME NEW S \in SUBSET Request PROVE A!About(S) \subseteq Nat
  BY DEF A!About, Request

\* The panel an answer is applied to shows the step of the answer, at the chapter
\* of the toolbar; and the text that is set.
ApplySide == IF desk.tab["left"] = ai.step THEN "left" ELSE "right"

AppliedText ==
  IF ai.box[ai.step].final
  THEN [of |-> desk.at[ApplySide][ai.step], n |-> 0, ai |-> A!About(ai.box[ai.step].answers),
        raw |-> ai.box[ai.step].raws, whole |-> ai.box[ai.step].whole]
  ELSE [desk.doc[ai.step] EXCEPT !.ai = @ \cup A!About(ai.box[ai.step].answers)]

LEMMA ApplyIs ==
  ASSUME DeskInv, AiTyped, A!Apply
  PROVE  /\ ~ story.closed /\ ai.step \in A!Step /\ ApplySide \in A!Side
         /\ ai.shown /\ ai.active = Nothing
         /\ ai.key = <<desk.chapter, ai.step>>
         /\ desk.at[ApplySide][ai.step] = desk.chapter
         /\ desk.tab[ApplySide] = ai.step /\ (ApplySide = "left" \/ desk.split)
         /\ AppliedText \in Text
         /\ AppliedText.of = IF ai.box[ai.step].final THEN desk.chapter
                             ELSE desk.doc[ai.step].of
         /\ \E ok \in BOOLEAN :
              /\ desk' = A!Synced(A!Written(desk, ai.step, A!Newer(AppliedText)),
                                  [side |-> ApplySide, step |-> ai.step], ok)
              /\ A!DidWrite(ai.step, AppliedText.of, ok)
         /\ ai' = IF ai.step # "eval" THEN A!Hidden
                  ELSE [ai EXCEPT !.box[ai.step].final = FALSE, !.box[ai.step].raws = {}]
         /\ UNCHANGED <<workers, answers>>
<1>1. /\ ~ story.closed /\ ai.shown /\ ai.active = Nothing
      /\ ai.key = <<desk.chapter, ai.step>>
      /\ desk.at[ApplySide][ai.step] = desk.chapter
      /\ desk.tab["left"] = ai.step \/ (desk.split /\ desk.tab["right"] = ai.step)
      /\ UNCHANGED <<workers, answers>>
      /\ ai' = IF ai.step # "eval" THEN A!Hidden
               ELSE [ai EXCEPT !.box[ai.step].final = FALSE, !.box[ai.step].raws = {}]
  BY DEF A!Apply, A!Open, A!Working, ApplySide
<1>2. \E ok \in BOOLEAN :
        /\ desk' = A!Synced(A!Written(desk, ai.step, A!Newer(AppliedText)),
                            [side |-> ApplySide, step |-> ai.step], ok)
        /\ A!DidWrite(ai.step, AppliedText.of, ok)
  BY DEF A!Apply, ApplySide, AppliedText
<1>3. /\ ai.step \in A!Step /\ ai.box[ai.step] \in Boxes /\ desk \in Desk
      /\ desk.doc[ai.step] \in Text /\ desk.chapter \in Nat
  BY DEF AiTyped, Assistants, DeskInv, Shaped, Desk, A!Chapter
<1>4. ApplySide \in A!Side /\ desk.tab[ApplySide] = ai.step /\ (ApplySide = "left" \/ desk.split)
  BY <1>1 DEF ApplySide, A!Side
<1>5. A!About(ai.box[ai.step].answers) \subseteq Nat
  BY <1>3, AboutNat DEF Boxes
<1>6. CASE ai.box[ai.step].final
  BY <1>1, <1>2, <1>3, <1>4, <1>5, <1>6 DEF AppliedText, Text, Boxes
<1>7. CASE ~ ai.box[ai.step].final
  <2> DEFINE about == desk.doc[ai.step].ai \cup A!About(ai.box[ai.step].answers)
  <2>1. about \subseteq Nat
    BY <1>3, <1>5 DEF Text
  <2>2. AppliedText = [desk.doc[ai.step] EXCEPT !.ai = about]
    BY <1>3, <1>7 DEF AppliedText, Text
  <2> HIDE DEF about
  <2>3. AppliedText \in Text /\ AppliedText.of = desk.doc[ai.step].of
    BY <1>3, <2>1, <2>2 DEF Text
  <2> QED BY <1>1, <1>2, <1>3, <1>4, <1>7, <2>3
<1> QED BY <1>6, <1>7

LEMMA ApplyKeepsDesk ==
  ASSUME DeskInv, AiTyped, A!Apply PROVE DeskInv'
<1> DEFINE step == ai.step
           side == ApplySide
           text == A!Newer(AppliedText)
           d == A!Written(desk, step, text)
           p == [side |-> side, step |-> step]
<1>1. /\ ~ story.closed /\ step \in A!Step /\ side \in A!Side
      /\ desk.at[side][step] = desk.chapter
      /\ desk.tab[side] = step /\ (side = "left" \/ desk.split)
      /\ AppliedText \in Text
      /\ AppliedText.of \in {desk.chapter, desk.doc[step].of}
  BY ApplyIs
<1>a. PICK ok \in BOOLEAN : desk' = A!Synced(d, p, ok) /\ A!DidWrite(step, AppliedText.of, ok)
  BY ApplyIs
<1>2. text \in Text /\ text.of = AppliedText.of /\ text.n = story.edits + 1
  BY <1>1, NewerIs
<1>3. Shaped(desk) /\ desk \in Desk /\ story.newest \in Newest
  BY DEF DeskInv, Shaped, Story
<1>4. /\ story' \in Story /\ story'.closed = story.closed
      /\ story'.causes = story.causes \cup A!Causes(desk')
      /\ story'.newest = [story.newest EXCEPT ![step][AppliedText.of] = story.edits + 1]
  <2>1. step \in A!Step /\ A!DidWrite(step, AppliedText.of, ok)
    BY <1>1, <1>a
  <2> HIDE DEF step, side, text, d, p
  <2> QED BY <1>a, <2>1, DidWriteIs
<1>5. p \in Panel /\ p.step = step
  BY <1>1 DEF Panel
<1> HIDE DEF step, side, text, p
<1>6. /\ d \in Desk /\ d.tab = desk.tab /\ d.split = desk.split /\ d.was = desk.was
      /\ d.at = desk.at /\ d.chapter = desk.chapter /\ d.doc[step] = text
  BY <1>1, <1>2, <1>3, WrittenIs
<1>7. /\ Shaped(d) /\ (Even(desk) => Even(d))
      /\ (Ready(desk) /\ text.of # 0 => Ready(d))
      /\ (Filed(desk) /\ text.of = desk.at["left"][step] => Filed(d))
      /\ (NewestKept(desk, story.newest) /\ text.of = desk.at["left"][step]
            /\ step = desk.tab["left"] => NewestKept(d, story'.newest))
  BY <1>1, <1>2, <1>3, <1>4, WrittenKeeps
<1> HIDE DEF d
<1>8. /\ Shaped(desk') /\ (Even(d) => Even(desk')) /\ (Ready(d) => Ready(desk'))
      /\ (Even(d) /\ Filed(d) /\ d.doc[step].of # 0 => Filed(desk'))
      /\ (Even(d) /\ NewestKept(d, story'.newest) /\ d.doc[step].of # 0 =>
            NewestKept(desk', story'.newest))
  BY <1>1, <1>a, <1>5, <1>7, SavedKeeps, SaveFailedKeeps DEF A!Synced
<1>9. /\ desk'.tab = d.tab /\ desk'.split = d.split /\ desk'.was = d.was /\ desk'.at = d.at
      /\ desk'.chapter = d.chapter
  BY <1>1, <1>a, <1>5, <1>6, SavedIs, SaveFailedIs DEF A!Synced
<1>10. ASSUME Even(desk), Filed(desk), Ready(desk)
       PROVE  text.of = desk.at["left"][step] /\ text.of # 0
  <2>1. side \in {"left", "right"} /\ desk.chapter # 0
    BY <1>1, <1>3 DEF A!Side, Desk, A!Chapter
  <2>2. desk.at["left"][step] = desk.chapter
    BY <1>1, <1>10, <2>1 DEF Even
  <2>3. desk.doc[step].of # 0
    BY <1>1, <1>10, <2>1 DEF Ready
  <2>4. desk.doc[step].of = desk.chapter
    BY <1>1, <1>10, <2>2, <2>3 DEF Filed, A!Unloaded, A!Blank
  <2> QED BY <1>1, <1>2, <2>1, <2>2, <2>4
<1>11. Alone(desk) => Even(desk') /\ ToolbarFits(desk')
  BY <1>6, <1>7, <1>8, <1>9 DEF Alone, ToolbarFits
<1>12. Even(desk) /\ Filed(desk) /\ Ready(desk) => Filed(desk') /\ Ready(desk')
  BY <1>6, <1>7, <1>8, <1>10
<1>13. Alone(desk) /\ Filed(desk) /\ Ready(desk) /\ NewestKept(desk, story.newest) =>
         NewestKept(desk', story'.newest)
  BY <1>1, <1>6, <1>7, <1>8, <1>10 DEF Alone
<1> QED BY <1>1, <1>4, <1>6, <1>8, <1>9, <1>11, <1>12, <1>13, DeskStepPlain

-----------------------------------------------------------------------------
(* The final confirmation keeps the desk *)

\* The desk before the tab of the summaries is shown, and then.
LEMMA ShowSummaryKeeps ==
  ASSUME DeskInv, ~ desk.split, desk.tab["left"] = "eval",
         NEW d, Shaped(d), d.tab = desk.tab, d.split = desk.split, d.was = desk.was,
         d.side = desk.side, d.chapter = desk.chapter,
         Even(desk) => Even(d),
         d.at["left"]["eval"] = desk.at["left"]["eval"],
         d.at["left"]["summary"] = desk.chapter,
         NEW ok \in BOOLEAN, NEW newest,
         desk' = A!Switched(d, "summary", ok)
  PROVE  /\ Shaped(desk') /\ ~ desk'.split /\ desk'.was = Nothing
         /\ desk'.chapter = desk.chapter
         /\ desk'.at = d.at
         /\ desk'.files["summary"] = d.files["summary"]
         /\ Even(desk) => Even(desk')
         /\ TrueTexts(d) => TrueTexts(desk')
         /\ Even(desk) /\ Filed(d) /\ Ready(d) => Filed(desk') /\ Ready(desk')
         /\ Even(desk) /\ Filed(d) /\ Ready(d) /\ NewestKept(d, newest) =>
              NewestKept(desk', newest)
         /\ Alone(desk) => ToolbarFits(desk')
<1>1. "summary" \in A!Tab /\ "summary" # "settings" /\ "summary" \in A!Step /\ "eval" # "summary"
  BY DEF A!Tab, A!Step
<1>2. desk.side = "left" /\ desk.was = Nothing /\ d.side = "left" /\ d.was = Nothing /\ ~ d.split
  BY DEF DeskInv, Shaped
<1>3. /\ Shaped(desk') /\ desk'.at = d.at
      /\ (TrueTexts(d) => TrueTexts(desk'))
      /\ (Even(d) /\ Filed(d) /\ Ready(d) => Filed(desk') /\ Ready(desk'))
      /\ (Even(d) /\ Filed(d) /\ Ready(d) /\ ~ d.split /\ d.was = Nothing
            /\ NewestKept(d, newest) => NewestKept(desk', newest))
      /\ (desk'.split \/ desk'.was # Nothing => d.split \/ d.was # Nothing)
      /\ \A t \in A!Step : t # A!Active(d).step => desk'.files[t] = d.files[t]
      /\ (~ d.split /\ d.was = Nothing =>
            \/ ~ ok /\ desk'.chapter = d.chapter /\ desk'.tab = d.tab
            \/ /\ desk'.tab["left"] = "summary"
               /\ IF "summary" = d.tab["left"] \/ "summary" = "settings"
                  THEN desk'.chapter = d.chapter
                  ELSE desk'.chapter = d.at["left"]["summary"])
  BY <1>1, SwitchedKeeps
<1>4. A!Active(d).step = "eval"
  BY <1>2, ActiveIs
<1>5. desk'.files["summary"] = d.files["summary"]
  BY <1>1, <1>3, <1>4
<1>6. desk'.chapter = desk.chapter
  BY <1>1, <1>2, <1>3
<1>7. Even(desk) => Even(desk')
  BY <1>3 DEF Even
<1>8. Alone(desk) => ToolbarFits(desk')
  BY <1>1, <1>2, <1>3, <1>6 DEF Alone, ToolbarFits
<1>9. ~ desk'.split /\ desk'.was = Nothing
  BY <1>2, <1>3 DEF Shaped, Desk
<1> QED BY <1>2, <1>3, <1>5, <1>6, <1>7, <1>8, <1>9

\* The summary is brought to the chapter unless its text could not be saved.
LEMMA BroughtSummary ==
  ASSUME DeskInv, ~ desk.split, desk.tab["left"] = "eval", NEW ok \in BOOLEAN, NEW c,
         c = desk.chapter, ~ A!ConfirmRefused(ok), NEW newest
  PROVE  LET d == A!Brought(desk, "summary", c, ok) IN
         /\ Shaped(d) /\ d.tab = desk.tab /\ d.split = desk.split /\ d.was = desk.was
         /\ d.side = desk.side /\ d.chapter = desk.chapter
         /\ d.at["left"]["eval"] = desk.at["left"]["eval"] /\ d.at["left"]["summary"] = c
         /\ Even(desk) => Even(d)
         /\ TrueTexts(desk) => TrueTexts(d)
         /\ (ok /\ desk.at["left"]["summary"] # c) =>
              d.files["summary"][desk.at["left"]["summary"]] = desk.doc["summary"]
         /\ (ok /\ desk.at["left"]["summary"] # c => desk.doc["summary"].of # 0)
              /\ Even(desk) /\ Filed(desk) =>
              /\ Filed(d)
              /\ Ready(desk) => Ready(d)
              /\ NewestKept(desk, newest) => NewestKept(d, newest)
<1> DEFINE d == A!Brought(desk, "summary", c, ok)
<1>1. /\ Shaped(desk) /\ c \in A!Chapter /\ "summary" \in A!Step /\ "eval" \in A!Step
      /\ "eval" # "summary"
  BY DEF DeskInv, Shaped, Desk, A!Step
<1>2. ok \/ desk.at["left"]["summary"] = c
  BY DEF A!ConfirmRefused
<1>3. /\ Shaped(d) /\ d.tab = desk.tab /\ d.split = desk.split /\ d.side = desk.side
      /\ d.was = desk.was /\ d.chapter = desk.chapter
      /\ (Even(desk) => Even(d)) /\ (TrueTexts(desk) => TrueTexts(d))
      /\ (ok /\ desk.at["left"]["summary"] # c =>
           d.files["summary"][desk.at["left"]["summary"]] = desk.doc["summary"])
  BY <1>1, BroughtKeeps, SMTT(20)
<1>4. ok \/ desk.at["left"]["summary"] = c => d.at["left"]["summary"] = c
  BY <1>1, BroughtKeeps
<1>6. \A t \in A!Step : t # "summary" => d.at["left"][t] = desk.at["left"][t]
  BY <1>1, BroughtKeeps
<1>5. (ok /\ desk.at["left"]["summary"] # c => desk.doc["summary"].of # 0)
         /\ Even(desk) /\ Filed(desk) =>
              /\ Filed(d)
              /\ Ready(desk) => Ready(d)
              /\ NewestKept(desk, newest) => NewestKept(d, newest)
  BY <1>1, BroughtKeeps
<1> HIDE DEF d
<1> QED BY <1>1, <1>2, <1>3, <1>4, <1>5, <1>6 DEF d

CollectedText(c) ==
  [of |-> c, n |-> story.edits + 1, ai |-> {}, whole |-> TRUE,
   raw |-> (1 .. (c - 1)) \cup {A!CompletedOf(c).of}]

LEMMA CollectedTextIs ==
  ASSUME DeskInv, NEW c \in A!Chapter
  PROVE  CollectedText(c) \in Text /\ A!CompletedOf(c).of \in Nat
<1>1. desk.doc["completed"] \in Text /\ desk.files["completed"][c] \in Text
  BY DEF DeskInv, Shaped, Desk, A!Step
<1>2. A!CompletedOf(c) \in Text
  BY <1>1 DEF A!CompletedOf
<1>3. A!CompletedOf(c).of \in Nat
  BY <1>2 DEF Text
<1>4. c \in Nat /\ story.edits + 1 \in Nat
  BY DEF DeskInv, Story, A!Chapter
<1>5. (1 .. (c - 1)) \cup {A!CompletedOf(c).of} \subseteq Nat
  BY <1>3, <1>4
<1> QED BY <1>3, <1>4, <1>5 DEF CollectedText, Text

LEMMA ConfirmCollectedIs ==
  ASSUME DeskInv, A!ConfirmCollected
  PROVE  /\ ~ story.closed /\ ~ desk.split /\ desk.tab["left"] = "eval" /\ ai.active = Nothing
         /\ desk.chapter <= Collected
         /\ ai' = A!Hidden /\ UNCHANGED <<workers, answers>>
         /\ \E ok \in BOOLEAN :
              /\ ~ A!ConfirmRefused(ok)
              /\ desk' = A!Switched(Put(A!Brought(desk, "summary", desk.chapter, ok),
                                        desk.chapter, CollectedText(desk.chapter)),
                                    "summary", ok)
              /\ A!DidWrite("summary", desk.chapter, ok)
  BY DEF A!ConfirmCollected, A!Confirmable, A!Open, A!Working, Put, CollectedText

LEMMA ConfirmCollectedKeepsDesk ==
  ASSUME DeskInv, A!ConfirmCollected PROVE DeskInv'
<1> DEFINE c == desk.chapter
           text == CollectedText(c)
<1>1. ~ story.closed /\ ~ desk.split /\ desk.tab["left"] = "eval"
  BY ConfirmCollectedIs
<1>2. PICK ok \in BOOLEAN :
        /\ ~ A!ConfirmRefused(ok)
        /\ desk' = A!Switched(Put(A!Brought(desk, "summary", c, ok), c, text), "summary", ok)
        /\ A!DidWrite("summary", c, ok)
  BY ConfirmCollectedIs
<1> DEFINE d == A!Brought(desk, "summary", c, ok)
           e == Put(d, c, text)
<1>3. /\ Shaped(desk) /\ c \in A!Chapter /\ "summary" \in A!Step /\ "eval" \in A!Step
      /\ "eval" # "summary" /\ desk.at["left"]["summary"] \in A!Chapter
      /\ story.newest \in Newest
  BY DEF DeskInv, Shaped, Desk, A!Step, A!Side, Story
<1>4. text \in Text /\ text.of = c /\ text.n = story.edits + 1
  BY <1>3, CollectedTextIs DEF CollectedText
<1>5. /\ story' \in Story /\ story'.closed = story.closed
      /\ story'.causes = story.causes \cup A!Causes(desk')
      /\ story'.newest = [story.newest EXCEPT !["summary"][c] = story.edits + 1]
  BY <1>2, <1>3, DidWriteIs
<1>6. /\ Shaped(d) /\ d.tab = desk.tab /\ d.split = desk.split /\ d.was = desk.was
      /\ d.side = desk.side /\ d.chapter = desk.chapter
      /\ d.at["left"]["eval"] = desk.at["left"]["eval"]
      /\ (Even(desk) => Even(d))
      /\ ((ok /\ desk.at["left"]["summary"] # c) =>
              d.files["summary"][desk.at["left"]["summary"]] = desk.doc["summary"])
      /\ ((ok /\ desk.at["left"]["summary"] # c => desk.doc["summary"].of # 0)
              /\ Even(desk) /\ Filed(desk) =>
              /\ Filed(d)
              /\ Ready(desk) => Ready(d)
              /\ NewestKept(desk, story.newest) => NewestKept(d, story.newest))
  BY <1>1, <1>2, BroughtSummary
<1> HIDE DEF d, text
<1>7. /\ Shaped(e) /\ e.tab = d.tab /\ e.split = d.split /\ e.side = d.side /\ e.was = d.was
      /\ e.chapter = d.chapter /\ e.at["left"]["summary"] = c
      /\ \A k \in A!Chapter : k # c => e.files["summary"][k] = d.files["summary"][k]
      /\ (Even(d) => Even(e)) /\ (Ready(d) => Ready(e)) /\ (Filed(d) => Filed(e))
      /\ (NewestKept(d, story.newest) /\ d.tab["left"] # "summary" =>
            NewestKept(e, story'.newest))
  BY <1>3, <1>4, <1>5, <1>6, PutKeeps
<1>8. e.at["left"]["eval"] = d.at["left"]["eval"]
  <2>1. d \in Desk
    BY <1>6 DEF Shaped
  <2>2. \A s \in A!Side, t \in A!Step :
          A!AtBoth(d, "summary", c).at[s][t] = IF t = "summary" THEN c ELSE d.at[s][t]
    BY <1>3, <2>1, AtBothIs
  <2>3. A!AtBoth(d, "summary", c) \in Desk
    BY <1>3, <2>1, AtBothIs
  <2>4. e.at = A!AtBoth(d, "summary", c).at
    BY <2>3 DEF Put, Desk
  <2> QED BY <1>3, <2>2, <2>4 DEF A!Side
<1> HIDE DEF e
<1>9. desk' = A!Switched(e, "summary", ok)
  BY <1>2 DEF d, e
<1>10. /\ e.tab = desk.tab /\ e.split = desk.split /\ e.side = desk.side /\ e.was = desk.was
       /\ e.chapter = desk.chapter /\ e.at["left"]["eval"] = desk.at["left"]["eval"]
       /\ e.at["left"]["summary"] = desk.chapter /\ (Even(desk) => Even(e))
  BY <1>6, <1>7, <1>8
<1>11. /\ Shaped(desk') /\ ~ desk'.split /\ desk'.was = Nothing
       /\ desk'.files["summary"] = e.files["summary"]
       /\ (Even(desk) => Even(desk'))
       /\ (Even(desk) /\ Filed(e) /\ Ready(e) => Filed(desk') /\ Ready(desk'))
       /\ (Even(desk) /\ Filed(e) /\ Ready(e) /\ NewestKept(e, story'.newest) =>
             NewestKept(desk', story'.newest))
       /\ (Alone(desk) => ToolbarFits(desk'))
  BY <1>1, <1>7, <1>9, <1>10, ShowSummaryKeeps
<1>12. ~ Unfiled(desk') => (ok /\ desk.at["left"]["summary"] # c => desk.doc["summary"].of # 0)
  BY <1>3, <1>6, <1>7, <1>11 DEF Unfiled
<1>13. Even(desk) /\ ~ Unfiled(desk') /\ Filed(desk) /\ Ready(desk) =>
         Filed(desk') /\ Ready(desk')
  BY <1>6, <1>7, <1>11, <1>12
<1>14. Even(desk) /\ ~ Unfiled(desk') /\ Filed(desk) /\ Ready(desk)
         /\ NewestKept(desk, story.newest) => NewestKept(desk', story'.newest)
  BY <1>1, <1>3, <1>6, <1>7, <1>11, <1>12
<1>15. Alone(desk) => Even(desk)
  BY DEF Alone
<1> QED BY <1>1, <1>5, <1>11, <1>13, <1>14, <1>15, DeskStepPlain

\* Both panels of a step whose left one is at the chapter already.
LEMMA AtBothKeeps ==
  ASSUME NEW d, Shaped(d), NEW step \in A!Step, NEW c, c = d.at["left"][step], NEW newest
  PROVE  LET e == A!AtBoth(d, step, c) IN
         /\ Shaped(e) /\ e.tab = d.tab /\ e.split = d.split /\ e.side = d.side
         /\ e.was = d.was /\ e.chapter = d.chapter /\ e.files = d.files
         /\ \A t \in A!Step : e.at["left"][t] = d.at["left"][t]
         /\ Even(d) => Even(e)
         /\ TrueTexts(d) => TrueTexts(e)
         /\ Filed(d) => Filed(e)
         /\ Ready(d) => Ready(e)
         /\ NewestKept(d, newest) => NewestKept(e, newest)
<1> DEFINE e == A!AtBoth(d, step, c)
<1>0. d \in Desk /\ c \in A!Chapter /\ "left" \in A!Side /\ "right" \in A!Side
  BY DEF Shaped, Desk, A!Side
<1>1. /\ e \in Desk
      /\ e.tab = d.tab /\ e.split = d.split /\ e.side = d.side /\ e.chapter = d.chapter
      /\ e.was = d.was /\ e.doc = d.doc /\ e.files = d.files /\ e.dirty = d.dirty
      /\ e.timers = d.timers
      /\ \A s \in A!Side, t \in A!Step : e.at[s][t] = IF t = step THEN c ELSE d.at[s][t]
  BY <1>0, AtBothIs
<1> HIDE DEF e
<1>2. \A t \in A!Step : e.at["left"][t] = d.at["left"][t]
  BY <1>0, <1>1
<1>3. Shaped(e) /\ (Ready(d) => Ready(e)) /\ (TrueTexts(d) => TrueTexts(e))
  BY <1>1 DEF Shaped, Ready, TrueTexts
<1>4. Even(d) => Even(e)
  BY <1>0, <1>1 DEF Even
<1>5. (Filed(d) => Filed(e)) /\ (NewestKept(d, newest) => NewestKept(e, newest))
  BY <1>1, <1>2 DEF Filed, NewestKept
<1> QED BY <1>1, <1>2, <1>3, <1>4, <1>5 DEF e

RollingBox ==
  LET c == desk.chapter IN
  [answers |-> {}, session |-> A!AskedFor(c), final |-> TRUE,
   raws |-> ((c - Window + 1) .. (c - 1)) \cup {A!CompletedOf(c).of},
   whole |-> c = Collected + 1 \/ A!Earlier(c).whole]

LEMMA ConfirmRollingIs ==
  ASSUME DeskInv, A!ConfirmRolling
  PROVE  /\ ~ story.closed /\ ~ desk.split /\ desk.tab["left"] = "eval" /\ ai.active = Nothing
         /\ desk.chapter > Collected
         /\ A!Ask("summary", RollingBox) /\ UNCHANGED answers
         /\ \E ok \in BOOLEAN :
              /\ ~ A!ConfirmRefused(ok)
              /\ desk' = A!Switched(A!AtBoth(A!Brought(desk, "summary", desk.chapter, ok),
                                             "summary", desk.chapter),
                                    "summary", ok)
              /\ A!Asked(ok, A!StaleToolbar)
<1>1. /\ ~ story.closed /\ ~ desk.split /\ desk.tab["left"] = "eval" /\ ai.active = Nothing
      /\ desk.chapter > Collected /\ UNCHANGED answers
  BY DEF A!ConfirmRolling, A!Confirmable, A!Open, A!Working
<1>2. \E ok \in BOOLEAN :
              /\ ~ A!ConfirmRefused(ok)
              /\ desk' = A!Switched(A!AtBoth(A!Brought(desk, "summary", desk.chapter, ok),
                                             "summary", desk.chapter),
                                    "summary", ok)
              /\ A!Ask("summary", RollingBox)
              /\ A!Asked(ok, A!StaleToolbar)
  BY DEF A!ConfirmRolling, RollingBox
<1> QED BY <1>1, <1>2

LEMMA ConfirmRollingKeepsDesk ==
  ASSUME DeskInv, A!ConfirmRolling PROVE DeskInv'
<1> DEFINE c == desk.chapter
           more == A!StaleToolbar
<1>1. ~ story.closed /\ ~ desk.split /\ desk.tab["left"] = "eval"
  BY ConfirmRollingIs
<1>2. PICK ok \in BOOLEAN :
        /\ ~ A!ConfirmRefused(ok)
        /\ desk' = A!Switched(A!AtBoth(A!Brought(desk, "summary", c, ok), "summary", c),
                              "summary", ok)
        /\ A!Asked(ok, more)
  BY ConfirmRollingIs
<1> DEFINE d == A!Brought(desk, "summary", c, ok)
           e == A!AtBoth(d, "summary", c)
<1>3. /\ Shaped(desk) /\ c \in A!Chapter /\ "summary" \in A!Step /\ "eval" \in A!Step
      /\ "eval" # "summary" /\ desk.at["left"]["summary"] \in A!Chapter
  BY DEF DeskInv, Shaped, Desk, A!Step, A!Side
<1>4. more \in SUBSET {"toolbar", "open", "jumped"} /\ (Alone(desk) => "toolbar" \notin more)
  BY <1>1, StaleToolbarIs DEF Alone
<1> HIDE DEF more
<1>5. /\ story' \in Story /\ story'.closed = story.closed /\ story'.newest = story.newest
      /\ story'.causes = (story.causes \cup A!Causes(desk')) \cup more
  BY <1>2, <1>4, AskedIs
<1>6. /\ Shaped(d) /\ d.tab = desk.tab /\ d.split = desk.split /\ d.was = desk.was
      /\ d.side = desk.side /\ d.chapter = desk.chapter
      /\ d.at["left"]["eval"] = desk.at["left"]["eval"] /\ d.at["left"]["summary"] = c
      /\ (Even(desk) => Even(d))
      /\ ((ok /\ desk.at["left"]["summary"] # c) =>
              d.files["summary"][desk.at["left"]["summary"]] = desk.doc["summary"])
      /\ ((ok /\ desk.at["left"]["summary"] # c => desk.doc["summary"].of # 0)
              /\ Even(desk) /\ Filed(desk) =>
              /\ Filed(d)
              /\ Ready(desk) => Ready(d)
              /\ NewestKept(desk, story.newest) => NewestKept(d, story.newest))
  BY <1>1, <1>2, BroughtSummary
<1> HIDE DEF d
<1>7. /\ Shaped(e) /\ e.tab = d.tab /\ e.split = d.split /\ e.side = d.side
      /\ e.was = d.was /\ e.chapter = d.chapter /\ e.files = d.files
      /\ \A t \in A!Step : e.at["left"][t] = d.at["left"][t]
      /\ (Even(d) => Even(e)) /\ (Filed(d) => Filed(e)) /\ (Ready(d) => Ready(e))
      /\ (NewestKept(d, story.newest) => NewestKept(e, story.newest))
  BY <1>3, <1>6, AtBothKeeps
<1> HIDE DEF e
<1>8. desk' = A!Switched(e, "summary", ok)
  BY <1>2 DEF d, e
<1>9. /\ e.tab = desk.tab /\ e.split = desk.split /\ e.side = desk.side /\ e.was = desk.was
      /\ e.chapter = desk.chapter /\ e.at["left"]["eval"] = desk.at["left"]["eval"]
      /\ e.at["left"]["summary"] = desk.chapter /\ (Even(desk) => Even(e))
  BY <1>3, <1>6, <1>7
<1>10. /\ Shaped(desk') /\ ~ desk'.split /\ desk'.was = Nothing
       /\ desk'.files["summary"] = e.files["summary"]
       /\ (Even(desk) => Even(desk'))
       /\ (Even(desk) /\ Filed(e) /\ Ready(e) => Filed(desk') /\ Ready(desk'))
       /\ (Even(desk) /\ Filed(e) /\ Ready(e) /\ NewestKept(e, story.newest) =>
             NewestKept(desk', story.newest))
       /\ (Alone(desk) => ToolbarFits(desk'))
  BY <1>1, <1>7, <1>8, <1>9, ShowSummaryKeeps
<1>11. ~ Unfiled(desk') => (ok /\ desk.at["left"]["summary"] # c => desk.doc["summary"].of # 0)
  BY <1>3, <1>6, <1>7, <1>10 DEF Unfiled
<1>12. Even(desk) /\ ~ Unfiled(desk') /\ Filed(desk) /\ Ready(desk) =>
         Filed(desk') /\ Ready(desk')
  BY <1>6, <1>7, <1>10, <1>11
<1>13. Even(desk) /\ ~ Unfiled(desk') /\ Filed(desk) /\ Ready(desk)
         /\ NewestKept(desk, story.newest) => NewestKept(desk', story'.newest)
  BY <1>5, <1>6, <1>7, <1>10, <1>11
<1>14. Alone(desk) => Even(desk)
  BY DEF Alone
<1> QED BY <1>1, <1>4, <1>5, <1>10, <1>12, <1>13, <1>14, DeskStep

\* The window closes when everything is saved or given up.
LEMMA CloseKeepsDesk ==
  ASSUME DeskInv, A!Close PROVE DeskInv'
<1>1. PICK choice \in {"save", "discard"} :
        /\ desk' = IF A!Unsaved # {} /\ choice = "save" THEN A!SavedAll(desk) ELSE desk
        /\ story' = [story EXCEPT !.closed = TRUE,
                       !.causes = @ \cup A!Causes(desk') \cup
                         IF A!Unsaved # {} /\ choice = "discard" THEN {"discarded"} ELSE {}]
  BY DEF A!Close
<1> DEFINE lost == IF A!Unsaved # {} /\ choice = "discard" THEN {"discarded"} ELSE {}
           causes == (story.causes \cup A!Causes(desk')) \cup lost
<1>2. ~ story.closed /\ Shaped(desk) /\ desk \in Desk /\ story \in Story
  BY DEF A!Close, A!Open, DeskInv, Shaped
<1>3. /\ story' \in Story /\ story'.closed = TRUE /\ story'.causes = causes
      /\ story'.newest = story.newest
  <2>1. story.causes \subseteq CauseName /\ A!Causes(desk') \subseteq CauseName
          /\ lost \subseteq CauseName
    BY <1>2, CausesAre DEF Story, CauseName
  <2>2. causes \subseteq CauseName
    BY <2>1
  <2>3. story' = [story EXCEPT !.closed = TRUE, !.causes = causes]
    BY <1>1, <1>2 DEF Story
  <2> HIDE DEF causes
  <2> QED BY <1>2, <2>2, <2>3 DEF Story
<1>4. /\ Shaped(desk') /\ desk'.split = desk.split /\ desk'.was = desk.was
      /\ desk'.at = desk.at /\ desk'.tab = desk.tab /\ desk'.chapter = desk.chapter
      /\ (Filed(desk) /\ ~ Unfiled(desk') => Filed(desk'))
      /\ (Ready(desk) => Ready(desk'))
  BY <1>1, <1>2, SavedAllKeeps
<1>5. ASSUME "discarded" \notin lost, NewestKept(desk, story.newest), ~ Unfiled(desk')
      PROVE  \A t \in A!Step : Clean(desk', t, story.newest)
  <2>1. CASE A!Unsaved # {}
    BY <1>1, <1>2, <1>5, <2>1, SavedAllKeeps
  <2>2. CASE A!Unsaved = {}
    <3>1. desk' = desk
      BY <1>1, <2>2
    <3>2. \A t \in A!Step : t \in desk.dirty => desk.doc[t] = desk.files[t][desk.at["left"][t]]
      BY <2>2 DEF A!Unsaved
    <3>3. ASSUME NEW t \in A!Step, NEW c \in A!Chapter
          PROVE  desk.files[t][c].n = story.newest[t][c]
      BY <1>5, <3>2 DEF NewestKept
    <3> QED BY <3>1, <3>3 DEF Clean
  <2> QED BY <2>1, <2>2
<1>6. CausesAreTold'
  BY <1>3, <1>4, CausesAre DEF DeskInv, CausesAreTold, Even, Unfiled
<1>7. Even(desk') <=> Even(desk)
  BY <1>4 DEF Even
<1>8. ASSUME "split" \notin story'.causes
      PROVE  "apart" \notin story'.causes /\ "toolbar" \notin story'.causes /\ ToolbarFits(desk')
  BY <1>3, <1>4, <1>7, <1>8, AloneUnlessSplit, CausesAre DEF Alone, ToolbarFits
<1>9. NeverSplit'
  BY <1>8 DEF NeverSplit, ToolbarFits
<1>10. ASSUME "unloaded" \notin story'.causes, "apart" \notin story'.causes,
              "toolbar" \notin story'.causes
       PROVE  Filed(desk') /\ Ready(desk') /\ ~ Unfiled(desk')
  BY <1>3, <1>4, <1>10, FiledUnless, CausesAre
<1>11. TextsAreFiled'
  BY <1>10 DEF A!Never, TextsAreFiled, Filed, Ready
<1>12. ASSUME A!Never({"split", "discarded", "unloaded"})'
       PROVE  \A t \in A!Step : Clean(desk', t, story'.newest)
  BY <1>2, <1>3, <1>5, <1>12, CausesAre DEF A!Never, DeskInv, NewestIsKept
<1>13. NewestIsKept'
  BY <1>3, <1>12 DEF NewestIsKept, Clean
<1> QED BY <1>3, <1>4, <1>6, <1>9, <1>11, <1>13 DEF DeskInv, Shaped

-----------------------------------------------------------------------------
(* The first part of the invariant holds for good *)

LEMMA DeskOpens ==
  ASSUME A!AssistantInit PROVE DeskInv
<1>1. PICK start \in A!Chapter, tab \in {"draft", "eval"} : \E other \in {1, start} :
        LET at    == [t \in A!Step |-> IF t = tab THEN start ELSE other]
            texts == [t \in A!Step |-> [c \in A!Chapter |->
                        IF t = "summary" /\ c < start THEN A!Settled(c) ELSE A!Blank(c)]]
        IN desk = [tab |-> [s \in A!Side |-> IF s = "left" THEN tab ELSE "draft"],
                   split |-> FALSE, side |-> "left", chapter |-> start, was |-> Nothing,
                   at |-> [s \in A!Side |-> at],
                   doc |-> [t \in A!Step |-> IF t = tab THEN texts[t][start] ELSE A!Unloaded],
                   dirty |-> {}, timers |-> {}, files |-> texts]
  BY DEF A!AssistantInit
<1>2. PICK other \in {1, start} :
        LET at    == [t \in A!Step |-> IF t = tab THEN start ELSE other]
            texts == [t \in A!Step |-> [c \in A!Chapter |->
                        IF t = "summary" /\ c < start THEN A!Settled(c) ELSE A!Blank(c)]]
        IN desk = [tab |-> [s \in A!Side |-> IF s = "left" THEN tab ELSE "draft"],
                   split |-> FALSE, side |-> "left", chapter |-> start, was |-> Nothing,
                   at |-> [s \in A!Side |-> at],
                   doc |-> [t \in A!Step |-> IF t = tab THEN texts[t][start] ELSE A!Unloaded],
                   dirty |-> {}, timers |-> {}, files |-> texts]
  BY <1>1
<1> DEFINE at == [t \in A!Step |-> IF t = tab THEN start ELSE other]
           texts == [t \in A!Step |-> [c \in A!Chapter |->
                       IF t = "summary" /\ c < start THEN A!Settled(c) ELSE A!Blank(c)]]
           doc == [t \in A!Step |-> IF t = tab THEN texts[t][start] ELSE A!Unloaded]
<1>3. /\ start \in 1 .. Chapters /\ start \in Nat /\ 1 \in A!Chapter /\ other \in A!Chapter
      /\ tab \in A!Step /\ tab # "settings" /\ tab # "summary"
  BY WindowAssumption DEF A!Chapter, A!Step
<1>4. ASSUME NEW c \in A!Chapter
      PROVE  /\ A!Blank(c) \in Text /\ A!Blank(c).of = c /\ A!Blank(c).n = 0
             /\ A!Settled(c) \in Text /\ A!Settled(c).of = c /\ A!Settled(c).n = 0
  <2> DEFINE early == IF c <= Collected THEN {} ELSE 1 .. (c - Window)
             late == IF c <= Collected THEN 1 .. c ELSE (c - Window + 1) .. c
  <2>1. c \in Nat /\ Window \in Nat /\ Collected \in Nat /\ Window <= Collected
    BY WindowAssumption DEF A!Chapter
  <2>2. early \subseteq Nat
    BY <2>1
  <2>3. late \subseteq Nat
    BY <2>1
  <2>4. A!Settled(c) = [of |-> c, n |-> 0, ai |-> early, raw |-> late, whole |-> TRUE]
    BY DEF A!Settled
  <2> HIDE DEF early, late
  <2> QED BY <2>1, <2>2, <2>3, <2>4 DEF A!Blank, Text
<1>5. A!Unloaded \in Text /\ A!Unloaded.of = 0
  BY DEF A!Unloaded, A!Blank, Text
<1>6. at \in [A!Step -> A!Chapter]
  BY <1>3
<1>7. /\ texts \in [A!Step -> [A!Chapter -> Text]]
      /\ \A t \in A!Step, c \in A!Chapter : texts[t][c].of = c /\ texts[t][c].n = 0
  BY <1>4
<1>8. doc \in [A!Step -> Text] /\ doc[tab] = texts[tab][start]
        /\ \A t \in A!Step : t # tab => doc[t] = A!Unloaded
  BY <1>3, <1>5, <1>7
<1>9. at[tab] = start
  BY <1>3
<1>10. desk = [tab |-> [s \in A!Side |-> IF s = "left" THEN tab ELSE "draft"],
               split |-> FALSE, side |-> "left", chapter |-> start, was |-> Nothing,
               at |-> [s \in A!Side |-> at], doc |-> doc, dirty |-> {}, timers |-> {},
               files |-> texts]
  BY <1>2
<1> HIDE DEF at, texts, doc
<1>11. /\ "left" \in A!Side /\ "right" \in A!Side /\ "draft" \in A!Step
       /\ A!Step \subseteq A!Tab
  BY DEF A!Side, A!Step, A!Tab
<1>12. /\ desk.tab["left"] = tab /\ desk.tab["right"] = "draft" /\ desk.split = FALSE
       /\ desk.side = "left" /\ desk.chapter = start /\ desk.was = Nothing
       /\ desk.at["left"] = at /\ desk.at["right"] = at /\ desk.doc = doc /\ desk.files = texts
  BY <1>10, <1>11
<1>13. Shaped(desk)
  BY <1>3, <1>6, <1>7, <1>8, <1>10, <1>11, <1>12 DEF Desk, Shaped
<1>14. /\ story = [edits |-> 0, moves |-> 0, requests |-> 0, faults |-> 0, closed |-> FALSE,
                   newest |-> [t \in A!Step |-> [c \in A!Chapter |-> 0]], causes |-> {}]
       /\ [t \in A!Step |-> [c \in A!Chapter |-> 0]] \in Newest
  BY DEF A!AssistantInit, Newest
<1>15. /\ story \in Story /\ story.closed = FALSE /\ story.causes = {}
       /\ \A t \in A!Step, c \in A!Chapter : story.newest[t][c] = 0
  BY <1>14 DEF Story
<1>16. CausesAreTold
  BY <1>3, <1>7, <1>12 DEF CausesAreTold, Even, Unfiled, A!Chapter
<1>17. NeverSplit
  BY <1>9, <1>12, <1>15 DEF NeverSplit, ToolbarFits
<1>18. Filed(desk) /\ Ready(desk)
  BY <1>3, <1>7, <1>8, <1>9, <1>12 DEF Filed, Ready
<1>19. NewestKept(desk, story.newest)
  <2>1. \A t \in A!Step : desk.doc[t].of # 0 => desk.doc[t].n = 0
    BY <1>3, <1>5, <1>7, <1>8, <1>12
  <2>2. \A t \in A!Step : desk.at["left"][t] \in A!Chapter
    BY <1>6, <1>12
  <2> QED BY <1>7, <1>12, <1>15, <2>1, <2>2 DEF NewestKept
<1> QED BY <1>13, <1>15, <1>16, <1>17, <1>18, <1>19 DEF DeskInv, TextsAreFiled, NewestIsKept

LEMMA DeskStays ==
  ASSUME DeskInv, AiTyped, A!AssistantNext PROVE DeskInv'
<1>1. CASE A!TypeText \/ A!Autosave \/ A!ManualSave \/ A!SaveContent
  BY <1>1, TypeTextKeepsDesk, SavesKeepDesk, SaveContentKeepsDesk
<1>2. CASE A!SwitchTab \/ A!ChangeChapter \/ A!Focus \/ A!ToggleSplit
  BY <1>2, SwitchTabKeepsDesk, ChangeChapterKeepsDesk, FocusKeepsDesk, ToggleSplitKeepsDesk
<1>12. CASE A!GotoSearchResult
  BY <1>12, GotoKeepsDesk
<1>3. CASE A!StopGeneration \/ A!HidePanel \/ A!WorkerEnds \/ A!Deliver \/ A!DeliverError
             \/ A!SettleDialog
  BY <1>3, AnswersLeaveDesk
<1>4. CASE A!OpenPanel \/ A!Feedback
  BY <1>4, PanelStepsKeepDesk
<1>5. CASE A!GenerateDraft
  BY <1>5, GenerateDraftKeepsDesk
<1>6. CASE A!GenerateEvaluation
  BY <1>6, GenerateEvaluationKeepsDesk DEF AiTyped, Assistants
<1>7. CASE A!Apply
  BY <1>7, ApplyKeepsDesk
<1>8. CASE A!ConfirmCollected
  BY <1>8, ConfirmCollectedKeepsDesk
<1>9. CASE A!ConfirmRolling
  BY <1>9, ConfirmRollingKeepsDesk
<1>10. CASE A!ConfirmFails
  BY <1>10, ConfirmFailsKeepsDesk
<1>11. CASE A!Close
  BY <1>11, CloseKeepsDesk
<1> QED BY <1>1, <1>2, <1>3, <1>4, <1>5, <1>6, <1>7, <1>8, <1>9, <1>10, <1>11, <1>12
        DEF A!AssistantNext

\* What the invariant says of the texts.
LEMMA DeskKeepsTexts ==
  ASSUME DeskInv PROVE A!TextStaysInItsChapter /\ A!NothingTypedIsLost
<1>1. A!TextStaysInItsChapter
  BY DEF DeskInv, TextsAreFiled, Filed, A!TextStaysInItsChapter
<1>2. ASSUME A!Never({"split", "discarded", "unloaded"}),
             NEW t \in A!Step, NEW c \in A!Chapter
      PROVE  \/ desk.files[t][c].n = story.newest[t][c]
             \/ /\ A!Open /\ desk.doc[t].of = c /\ desk.doc[t].n = story.newest[t][c]
                /\ desk.timers \cap A!Pair(t) # {}
  <2>1. CASE story.closed
    BY <1>2, <2>1 DEF DeskInv, NewestIsKept, Clean
  <2>2. CASE ~ story.closed
    <3>1. NewestKept(desk, story.newest)
      BY <1>2, <2>2 DEF DeskInv, NewestIsKept
    <3>2. A!Never({"apart", "toolbar", "unloaded"})
      BY <1>2, AloneUnlessSplit DEF A!Never
    <3>3. Filed(desk)
      BY <3>2 DEF DeskInv, TextsAreFiled
    <3>4. desk.doc[t].of # 0 => desk.doc[t].of = desk.at["left"][t]
      BY <3>3 DEF Filed, A!Unloaded, A!Blank
    <3> QED BY <2>2, <3>1, <3>4 DEF NewestKept, A!Open
  <2> QED BY <2>1, <2>2
<1> QED BY <1>1, <1>2 DEF A!NothingTypedIsLost

-----------------------------------------------------------------------------
(* Requests and their answers: the second part of the invariant *)

\* Nothing stands for no request and for no panel.
NothingIsNoRequest == Nothing \notin Request /\ Nothing \notin A!Chapter \X A!Step

Box == ai.box[ai.step]

\* The panel is for one chapter and one step, those of the request that is active;
\* and the answers in it are about what its messages are about.
PanelIsKeyed ==
  /\ ai.key \in (A!Chapter \X {ai.step}) \cup {Nothing}
  /\ ai.active # Nothing =>
       ai.key = <<ai.active.chapter, ai.active.step>> /\ ai.active.about = Box.session
  /\ \A r \in Box.answers : r.about = Box.session

\* The answers in the panel are for its chapter, unless feedback was asked for after
\* the search had left it behind.
AnswersAreKeyed ==
  "jumped" \notin story.causes => \A r \in Box.answers : ai.key = <<r.chapter, r.step>>

Ended(f) == ((f.history \cup f.dialogs) \cup f.cancelled) \cup f.failed

EndedOnce(f) ==
  /\ f.history \cap f.dialogs = {} /\ f.history \cap f.cancelled = {}
  /\ f.history \cap f.failed = {} /\ f.dialogs \cap f.cancelled = {}
  /\ f.dialogs \cap f.failed = {} /\ f.cancelled \cap f.failed = {}

\* Every request has ended once, except the one that is active.
Tally(f, active, n) ==
  /\ EndedOnce(f) /\ active \notin Ended(f)
  /\ IsFiniteSet(Ended(f))
  /\ active = Nothing => Cardinality(Ended(f)) = n
  /\ active # Nothing => Cardinality(Ended(f)) + 1 = n

Numbered ==
  /\ \A r \in Ended(answers) : r.id <= story.requests
  /\ \A w \in workers : w.req.id <= story.requests
  /\ ai.active # Nothing => ai.active.id <= story.requests

\* A thread runs for the request that is active, or has put its end in the queue.
Answered ==
  /\ ai.active # Nothing => \E w \in workers : w.req = ai.active
  /\ \A w \in workers : w.req = ai.active => ~ w.interrupted

RequestsInv ==
  /\ AiTyped /\ PanelIsKeyed
  /\ Tally(answers, ai.active, story.requests) /\ Numbered /\ Answered

LEMMA EndedIs ==
  ASSUME NEW f \in Fates
  PROVE  Ended(f) \subseteq Request
  BY DEF Ended, Fates

\* A request that ends is filed in one place.
LEMMA RequestEnds ==
  ASSUME NothingIsNoRequest, NEW f \in Fates, NEW r \in Request, NEW n \in Nat,
         Tally(f, r, n), NEW g,
         \/ g = [f EXCEPT !.history = @ \cup {r}] \/ g = [f EXCEPT !.dialogs = @ \cup {r}]
         \/ g = [f EXCEPT !.cancelled = @ \cup {r}] \/ g = [f EXCEPT !.failed = @ \cup {r}]
  PROVE  g \in Fates /\ Tally(g, Nothing, n) /\ Ended(g) = Ended(f) \cup {r}
<1>1. r # Nothing /\ r \notin Ended(f) /\ EndedOnce(f) /\ IsFiniteSet(Ended(f))
        /\ Cardinality(Ended(f)) + 1 = n
  BY DEF Tally, NothingIsNoRequest
<1>2. /\ r \notin f.history /\ r \notin f.dialogs /\ r \notin f.cancelled /\ r \notin f.failed
  BY <1>1 DEF Ended
<1>3. /\ g \in Fates /\ EndedOnce(g)
      /\ \A x : x \in Ended(g) <=> x \in Ended(f) \cup {r}
  BY <1>1, <1>2 DEF Fates, EndedOnce, Ended
<1>4. Ended(g) = Ended(f) \cup {r}
  BY <1>3
<1>5. IsFiniteSet(Ended(g)) /\ Cardinality(Ended(g)) = Cardinality(Ended(f)) + 1
  BY <1>1, <1>4, FS_AddElement
<1>6. Nothing \notin Ended(g)
  BY <1>3, EndedIs DEF NothingIsNoRequest
<1> QED BY <1>1, <1>3, <1>4, <1>5, <1>6 DEF Tally

\* A dialog that is settled ends as another kind of end.
LEMMA DialogSettles ==
  ASSUME NEW f \in Fates, NEW r \in f.dialogs, NEW active, NEW n, Tally(f, active, n), NEW g,
         \/ g = [f EXCEPT !.dialogs = @ \ {r}, !.history = @ \cup {r}]
         \/ g = [f EXCEPT !.dialogs = @ \ {r}, !.cancelled = @ \cup {r}]
  PROVE  g \in Fates /\ Tally(g, active, n) /\ Ended(g) = Ended(f)
<1>1. EndedOnce(f) /\ r \in Request
  BY DEF Tally, Fates
<1>2. g \in Fates /\ EndedOnce(g) /\ \A x : x \in Ended(g) <=> x \in Ended(f)
  <2>1. CASE g = [f EXCEPT !.dialogs = @ \ {r}, !.history = @ \cup {r}]
    BY <1>1, <2>1 DEF Fates, EndedOnce, Ended
  <2>2. CASE g = [f EXCEPT !.dialogs = @ \ {r}, !.cancelled = @ \cup {r}]
    BY <1>1, <2>2 DEF Fates, EndedOnce, Ended
  <2> QED BY <2>1, <2>2
<1>3. Ended(g) = Ended(f)
  BY <1>2
<1> QED BY <1>2, <1>3 DEF Tally

LEMMA RequestStarts ==
  ASSUME NothingIsNoRequest, NEW f \in Fates, NEW n \in Nat, Tally(f, Nothing, n),
         NEW r \in Request, \A x \in Ended(f) : x.id <= n, r.id = n + 1
  PROVE  Tally(f, r, n + 1)
<1>1. r # Nothing /\ r \notin Ended(f)
  BY DEF NothingIsNoRequest
<1>2. Cardinality(Ended(f)) = n
  BY DEF Tally
<1> QED BY <1>1, <1>2 DEF Tally

-----------------------------------------------------------------------------
(* What the handlers do to the panel and to the threads *)

\* The messages and the answers of a panel stay; what is prepared for the final
\* summary may be dropped.
SameBoxes(a) ==
  \A t \in A!Step :
    /\ a.box[t].answers = ai.box[t].answers /\ a.box[t].session = ai.box[t].session
    /\ a.box[t].final => /\ ai.box[t].final /\ a.box[t].raws = ai.box[t].raws
                         /\ a.box[t].whole = ai.box[t].whole

LEMMA UnpreparedIs ==
  ASSUME AiTyped, NEW t \in A!Step
  PROVE  LET a == [ai EXCEPT !.box[t].final = FALSE, !.box[t].raws = {}] IN
         /\ a \in Assistants /\ SameBoxes(a) /\ a.shown = ai.shown /\ a.step = ai.step
         /\ a.key = ai.key /\ a.active = ai.active /\ ~ a.box[t].final
<1> DEFINE no == FALSE
           none == {}
           one == [ai.box[t] EXCEPT !.final = no, !.raws = none]
           box == [ai.box EXCEPT ![t] = one]
           a == [ai EXCEPT !.box[t].final = no, !.box[t].raws = none]
<1>1. ai \in Assistants /\ ai.box \in [A!Step -> Boxes] /\ ai.box[t] \in Boxes
  BY DEF AiTyped, Assistants
<1>2. no \in BOOLEAN /\ ~ no /\ none \in SUBSET Nat
  OBVIOUS
<1> HIDE DEF no, none
<1>3. /\ one \in Boxes /\ one.answers = ai.box[t].answers /\ one.session = ai.box[t].session
      /\ ~ one.final
  BY <1>1, <1>2 DEF Boxes
<1> DEFINE half == [ai EXCEPT !.box[t].final = no]
           first == [ai.box EXCEPT ![t].final = no]
<1>4. half = [ai EXCEPT !.box = first] /\ first \in [A!Step -> Boxes]
        /\ first[t] = [ai.box[t] EXCEPT !.final = no]
  BY <1>1, <1>2 DEF Assistants, Boxes
<1>5. a = [half EXCEPT !.box[t].raws = none]
  OBVIOUS
<1> DEFINE second == [first EXCEPT ![t].raws = none]
<1>6. half.box = first /\ a = [half EXCEPT !.box = second]
  BY <1>1, <1>4, <1>5 DEF Assistants
<1>7. a = [ai EXCEPT !.box = second]
  BY <1>1, <1>4, <1>6 DEF Assistants
<1>8. /\ second \in [A!Step -> Boxes] /\ second[t] = one
      /\ \A u \in A!Step : u # t => second[u] = ai.box[u]
  BY <1>1, <1>2, <1>4 DEF Boxes
<1> HIDE DEF second, first, half, one, a
<1>9. /\ a \in Assistants /\ a.shown = ai.shown /\ a.step = ai.step /\ a.key = ai.key
      /\ a.active = ai.active /\ a.box = second
  BY <1>1, <1>7, <1>8 DEF Assistants
<1>10. SameBoxes(a) /\ ~ a.box[t].final
  BY <1>3, <1>8, <1>9 DEF SameBoxes
<1> QED BY <1>9, <1>10 DEF a, no, none

LEMMA HiddenIs ==
  ASSUME AiTyped
  PROVE  /\ A!Hidden \in Assistants /\ SameBoxes(A!Hidden) /\ ~ A!Hidden.shown
         /\ A!Hidden.step = ai.step /\ A!Hidden.key = ai.key /\ A!Hidden.active = Nothing
         /\ ~ A!Hidden.box[ai.step].final
<1> DEFINE no == FALSE
           a == [ai EXCEPT !.box[ai.step].final = FALSE, !.box[ai.step].raws = {}]
<1>1. ai \in Assistants /\ ai.step \in A!Step /\ no \in BOOLEAN /\ ~ no
  BY DEF AiTyped, Assistants
<1>2. /\ a \in Assistants /\ SameBoxes(a) /\ a.shown = ai.shown /\ a.step = ai.step
      /\ a.key = ai.key /\ a.active = ai.active /\ ~ a.box[ai.step].final
  BY <1>1, UnpreparedIs
<1>3. A!Hidden = [a EXCEPT !.shown = no, !.active = Nothing]
  BY <1>1 DEF A!Hidden, Assistants
<1> HIDE DEF a, no
<1>4. /\ A!Hidden \in Assistants /\ ~ A!Hidden.shown /\ A!Hidden.active = Nothing
      /\ A!Hidden.step = ai.step /\ A!Hidden.key = ai.key /\ A!Hidden.box = a.box
  BY <1>1, <1>2, <1>3 DEF Assistants
<1> QED BY <1>2, <1>4 DEF SameBoxes

LEMMA IdleIs ==
  ASSUME AiTyped
  PROVE  LET a == [ai EXCEPT !.active = Nothing] IN
         /\ a \in Assistants /\ SameBoxes(a) /\ a.shown = ai.shown /\ a.step = ai.step
         /\ a.key = ai.key /\ a.active = Nothing /\ a.box = ai.box
  BY DEF AiTyped, Assistants, SameBoxes

LEMMA InterruptedIs ==
  ASSUME AiTyped, NEW r
  PROVE  /\ A!Interrupted(r) \subseteq Workers
         /\ \A w \in A!Interrupted(r) : \E v \in workers : w.req = v.req
<1>1. ASSUME NEW w \in workers
      PROVE  /\ w \in Workers /\ [w EXCEPT !.interrupted = TRUE] \in Workers
             /\ [w EXCEPT !.interrupted = TRUE].req = w.req
  BY DEF AiTyped, Workers
<1> QED BY <1>1 DEF A!Interrupted

-----------------------------------------------------------------------------
(* The steps keep the requests *)

\* A step that leaves the panel, the threads and the answers alone.
LEMMA PanelStands ==
  ASSUME RequestsInv, ai' = ai, workers' = workers, answers' = answers,
         story'.requests = story.requests
  PROVE  RequestsInv'
<1>1. AiTyped'
  BY DEF RequestsInv, AiTyped
<1>2. PanelIsKeyed'
  BY DEF RequestsInv, PanelIsKeyed, Box
<1>3. Tally(answers, ai.active, story.requests)'
  BY DEF RequestsInv, Tally, EndedOnce, Ended
<1>4. Numbered' /\ Answered'
  BY DEF RequestsInv, Numbered, Answered, Ended
<1> QED BY <1>1, <1>2, <1>3, <1>4 DEF RequestsInv

\* A step after which no request is active, in the same panel.
LEMMA PanelRests ==
  ASSUME RequestsInv, ai' \in Assistants, SameBoxes(ai'), ai'.step = ai.step,
         ai'.key = ai.key, ai'.active = Nothing,
         workers' \subseteq Workers, \A w \in workers' : \E v \in workers : w.req = v.req,
         NothingIsNoRequest,
         answers' \in Fates, Tally(answers', Nothing, story.requests),
         \A r \in Ended(answers') : r.id <= story.requests,
         story'.requests = story.requests
  PROVE  RequestsInv'
<1>1. ai.step \in A!Step /\ ai.key \in (A!Chapter \X {ai.step}) \cup {Nothing}
  BY DEF RequestsInv, AiTyped, Assistants, PanelIsKeyed
<1>2. AiTyped'
  BY DEF RequestsInv, AiTyped, SameBoxes
<1>3. Box'.answers = Box.answers /\ Box'.session = Box.session
  BY <1>1 DEF Box, SameBoxes
<1>4. PanelIsKeyed'
  BY <1>1, <1>3 DEF RequestsInv, PanelIsKeyed
<1>5. Tally(answers, ai.active, story.requests)'
  BY DEF Tally, EndedOnce, Ended
<1>6. Numbered'
  BY DEF RequestsInv, Numbered, Ended
<1>7. Answered'
  BY DEF Answered, NothingIsNoRequest, Workers
<1> QED BY <1>2, <1>4, <1>5, <1>6, <1>7 DEF RequestsInv

\* What cancelling leaves behind.
LEMMA CancelledIs ==
  ASSUME NothingIsNoRequest, RequestsInv, story.requests \in Nat, A!Cancelled
  PROVE  /\ workers' \subseteq Workers /\ \A w \in workers' : \E v \in workers : w.req = v.req
         /\ answers' \in Fates /\ Tally(answers', Nothing, story.requests)
         /\ \A r \in Ended(answers') : r.id <= story.requests
<1>1. /\ AiTyped /\ Tally(answers, ai.active, story.requests) /\ Numbered
      /\ workers \subseteq Workers /\ answers \in Fates
      /\ ai.active \in Request \cup {Nothing}
  BY DEF RequestsInv, AiTyped, Assistants
<1>2. CASE ai.active = Nothing
  BY <1>1, <1>2 DEF A!Cancelled, A!Working, Numbered
<1>3. CASE ai.active # Nothing
  BY <1>1, <1>3, RequestEnds, InterruptedIs DEF A!Cancelled, A!Working, Numbered
<1> QED BY <1>2, <1>3

LEMMA StopsKeepRequests ==
  ASSUME NothingIsNoRequest, RequestsInv, story.requests \in Nat,
         A!StopGeneration \/ A!HidePanel
  PROVE  RequestsInv'
<1>1. AiTyped /\ A!Cancelled /\ desk' = desk /\ story' = story
  BY DEF RequestsInv, A!StopGeneration, A!HidePanel
<1>2. /\ workers' \subseteq Workers /\ \A w \in workers' : \E v \in workers : w.req = v.req
      /\ answers' \in Fates /\ Tally(answers', Nothing, story.requests)
      /\ \A r \in Ended(answers') : r.id <= story.requests
  BY <1>1, CancelledIs
<1>3. CASE A!StopGeneration
  BY <1>1, <1>2, <1>3, IdleIs, PanelRests DEF A!StopGeneration
<1>4. CASE A!HidePanel
  BY <1>1, <1>2, <1>4, HiddenIs, PanelRests DEF A!HidePanel
<1> QED BY <1>3, <1>4

LEMMA OpenPanelKeepsRequests ==
  ASSUME RequestsInv, DeskInv, A!OpenPanel, NothingIsNoRequest PROVE RequestsInv'
<1> DEFINE step == desk.tab["left"]
           key == <<desk.chapter, step>>
           yes == TRUE
<1>1. /\ ~ desk.split /\ step # "settings" /\ ai.active = Nothing /\ desk' = desk
      /\ workers' = workers /\ answers' = answers /\ A!Did(1, 0, yes, {})
      /\ ai' = IF ai.key = key THEN [ai EXCEPT !.shown = yes]
               ELSE [ai EXCEPT !.shown = yes, !.step = step, !.key = key,
                       !.box[step] = A!EmptyBox]
  BY DEF A!OpenPanel, A!Working
<1>2. yes \in BOOLEAN /\ yes
  OBVIOUS
<1> HIDE DEF yes
<1>3. story'.requests = story.requests
  BY <1>1, <1>2, DidPlain
<1>4. /\ desk.chapter \in A!Chapter /\ step \in A!Step /\ ai \in Assistants
      /\ ai.box \in [A!Step -> Boxes] /\ ai.step \in A!Step
      /\ ai.key \in (A!Chapter \X {ai.step}) \cup {Nothing}
  <2>1. "left" \in A!Side /\ desk.tab \in [A!Side -> A!Tab] /\ desk.chapter \in A!Chapter
    BY DEF DeskInv, Shaped, Desk, A!Side
  <2>2. step \in A!Step
    BY <1>1, <2>1 DEF A!Tab
  <2> QED BY <2>1, <2>2 DEF RequestsInv, AiTyped, Assistants, PanelIsKeyed
<1> HIDE DEF step
<1>5. key \in A!Chapter \X A!Step /\ key # Nothing
  BY <1>4 DEF NothingIsNoRequest
<1>6. A!EmptyBox \in Boxes /\ A!EmptyBox.answers = {} /\ A!EmptyBox.final = FALSE
  BY DEF A!EmptyBox, Boxes
<1>7. CASE ai.key = key
  <2>1. /\ ai' \in Assistants /\ ai'.shown = yes /\ ai'.step = ai.step /\ ai'.key = key
        /\ ai'.active = Nothing /\ ai'.box = ai.box
    BY <1>1, <1>2, <1>4, <1>7 DEF Assistants
  <2>2. ai.step = step
    BY <1>4, <1>5, <1>7
  <2>3. AiTyped'
    BY <1>1, <2>1 DEF RequestsInv, AiTyped
  <2>4. PanelIsKeyed'
    BY <1>1, <1>4, <1>7, <2>1, <2>2 DEF RequestsInv, PanelIsKeyed, Box
  <2>5. Tally(answers, ai.active, story.requests)'
    BY <1>1, <1>3, <2>1 DEF RequestsInv, Tally, EndedOnce, Ended
  <2>6. Numbered' /\ Answered'
    BY <1>1, <1>3, <2>1 DEF RequestsInv, Numbered, Answered, Ended
  <2> QED BY <2>3, <2>4, <2>5, <2>6 DEF RequestsInv
<1>8. CASE ai.key # key
  <2> DEFINE box == [ai.box EXCEPT ![step] = A!EmptyBox]
  <2>1. ai' = [ai EXCEPT !.shown = yes, !.step = step, !.key = key, !.box = box]
    BY <1>1, <1>4, <1>8 DEF Assistants
  <2>2. box \in [A!Step -> Boxes] /\ box[step] = A!EmptyBox
          /\ \A t \in A!Step : t # step => box[t] = ai.box[t]
    BY <1>4, <1>6
  <2> HIDE DEF box
  <2> HIDE DEF key
  <2>3. /\ ai' \in Assistants /\ ai'.shown = yes /\ ai'.step = step /\ ai'.key = key
        /\ ai'.active = Nothing /\ ai'.box = box
    BY <1>1, <1>2, <1>4, <1>5, <2>1, <2>2 DEF Assistants
  <2>4. AiTyped'
    BY <1>1, <1>6, <2>2, <2>3 DEF RequestsInv, AiTyped
  <2>5. Box'.answers = {}
    BY <1>6, <2>2, <2>3 DEF Box
  <2>6. PanelIsKeyed'
    BY <1>1, <1>4, <2>3, <2>5 DEF PanelIsKeyed, key
  <2>7. Tally(answers, ai.active, story.requests)'
    BY <1>1, <1>3, <2>3 DEF RequestsInv, Tally, EndedOnce, Ended
  <2>8. Numbered' /\ Answered'
    BY <1>1, <1>3, <2>3 DEF RequestsInv, Numbered, Answered, Ended
  <2> QED BY <2>4, <2>6, <2>7, <2>8 DEF RequestsInv
<1> QED BY <1>7, <1>8

\* A new request, for the chapter of the toolbar.
NewRequest(step, box) ==
  [id |-> story.requests + 1, step |-> step, chapter |-> desk'.chapter, about |-> box.session]

LEMMA AskIs ==
  ASSUME RequestsInv, story.requests \in Nat, NEW step \in A!Step, NEW box \in Boxes,
         desk'.chapter \in A!Chapter, A!Ask(step, box)
  PROVE  LET req == NewRequest(step, box) IN
         /\ req \in Request /\ req.id = story.requests + 1 /\ req.step = step
         /\ req.chapter = desk'.chapter /\ req.about = box.session
         /\ ai' \in Assistants /\ ai'.shown /\ ai'.step = step
         /\ ai'.key = <<desk'.chapter, step>> /\ ai'.active = req
         /\ ai'.box[step] = box
         /\ \A t \in A!Step : t # step => ai'.box[t] = ai.box[t]
         /\ workers' = workers \cup {[req |-> req, at |-> "running", interrupted |-> FALSE]}
<1> DEFINE req == NewRequest(step, box)
           boxes == [ai.box EXCEPT ![step] = box]
           key == <<desk'.chapter, step>>
           yes == TRUE
<1>1. ai \in Assistants /\ ai.box \in [A!Step -> Boxes]
  BY DEF RequestsInv, AiTyped, Assistants
<1>2. boxes \in [A!Step -> Boxes] /\ boxes[step] = box
        /\ \A t \in A!Step : t # step => boxes[t] = ai.box[t]
  BY <1>1
<1>3. /\ req \in Request /\ req.id = story.requests + 1 /\ req.step = step
      /\ req.chapter = desk'.chapter /\ req.about = box.session
  BY DEF Boxes, NewRequest, Request
<1>4. key \in A!Chapter \X A!Step /\ yes \in BOOLEAN /\ yes
  OBVIOUS
<1>5. workers' = workers \cup {[req |-> req, at |-> "running", interrupted |-> FALSE]}
  BY DEF A!Ask, NewRequest
<1>6. ai' = [ai EXCEPT !.shown = yes, !.step = step, !.key = key, !.active = req,
               !.box[step] = box]
  BY DEF A!Ask, NewRequest
<1> HIDE DEF yes, key, req
<1>7. ai' = [ai EXCEPT !.shown = yes, !.step = step, !.key = key, !.active = req,
               !.box = boxes]
  BY <1>1, <1>6 DEF Assistants
<1> HIDE DEF boxes
<1>8. /\ ai' \in Assistants /\ ai'.shown = yes /\ ai'.step = step /\ ai'.key = key
      /\ ai'.active = req /\ ai'.box = boxes
  BY <1>1, <1>2, <1>3, <1>4, <1>7 DEF Assistants
<1>9. ai'.key = <<desk'.chapter, step>>
  BY <1>8 DEF key
<1>10. ai'.shown
  BY <1>4, <1>8
<1> QED BY <1>2, <1>3, <1>5, <1>8, <1>9, <1>10 DEF req

LEMMA AskKeepsRequests ==
  ASSUME NothingIsNoRequest, RequestsInv, story.requests \in Nat,
         NEW step \in A!Step, NEW box \in Boxes, box.final => step = "summary",
         desk'.chapter \in A!Chapter, ai.active = Nothing,
         \A r \in box.answers : r.about = box.session,
         A!Ask(step, box), answers' = answers, story'.requests = story.requests + 1
  PROVE  RequestsInv'
<1> DEFINE req == NewRequest(step, box)
           thread == [req |-> req, at |-> "running", interrupted |-> FALSE]
<1>1. /\ req \in Request /\ req.id = story.requests + 1 /\ req.step = step
      /\ req.chapter = desk'.chapter /\ req.about = box.session
      /\ ai' \in Assistants /\ ai'.shown /\ ai'.step = step
      /\ ai'.key = <<desk'.chapter, step>> /\ ai'.active = req
      /\ ai'.box[step] = box
      /\ \A t \in A!Step : t # step => ai'.box[t] = ai.box[t]
      /\ workers' = workers \cup {thread}
  BY AskIs
<1> HIDE DEF req
<1>2. thread \in Workers /\ thread.req = req /\ ~ thread.interrupted
  BY <1>1 DEF Workers
<1> HIDE DEF thread
<1>3. /\ AiTyped /\ Tally(answers, Nothing, story.requests) /\ Numbered
      /\ workers \subseteq Workers /\ answers \in Fates
  BY DEF RequestsInv, AiTyped
<1>4. AiTyped'
  BY <1>1, <1>2, <1>3 DEF AiTyped
<1>5. PanelIsKeyed'
  BY <1>1 DEF Box, PanelIsKeyed
<1>6. Tally(answers, req, story.requests + 1)
  BY <1>1, <1>3, RequestStarts DEF Numbered
<1>7. Tally(answers, ai.active, story.requests)'
  BY <1>1, <1>6 DEF Tally, EndedOnce, Ended
<1>8. /\ \A r \in Ended(answers) : r.id \in Nat
      /\ \A w \in workers : w.req.id \in Nat
  BY <1>3, EndedIs DEF Workers, Request
<1>9. Numbered'
  BY <1>1, <1>2, <1>3, <1>8 DEF Numbered, Ended
<1>10. Answered'
  BY <1>1, <1>2, <1>3, <1>8 DEF Numbered, Answered
<1> QED BY <1>4, <1>5, <1>7, <1>9, <1>10 DEF RequestsInv

LEMMA WorkerEndsKeepsRequests ==
  ASSUME NothingIsNoRequest, RequestsInv, A!WorkerEnds PROVE RequestsInv'
<1>1. desk' = desk /\ ai' = ai /\ answers' = answers /\ story' = story
  BY DEF A!WorkerEnds
<1>2. PICK w \in workers :
        /\ w.at = "running"
        /\ \/ /\ ~ w.interrupted
              /\ \E end \in {"answered", "failed"} :
                   workers' = (workers \ {w}) \cup {[w EXCEPT !.at = end]}
           \/ w.interrupted /\ workers' = workers \ {w}
  BY DEF A!WorkerEnds
<1>3. w \in Workers /\ workers \subseteq Workers /\ Answered /\ Numbered /\ AiTyped
  BY DEF RequestsInv, AiTyped
<1>4. /\ workers' \subseteq Workers
      /\ \A v \in workers' : \E u \in workers : v.req = u.req /\ v.interrupted = u.interrupted
      /\ ai.active # Nothing => \E v \in workers' : v.req = ai.active
  <2>1. CASE w.interrupted
    BY <1>2, <1>3, <2>1 DEF Answered
  <2>2. CASE ~ w.interrupted
    <3>1. PICK end \in {"answered", "failed"} :
            workers' = (workers \ {w}) \cup {[w EXCEPT !.at = end]}
      BY <1>2, <2>2
    <3> DEFINE v == [w EXCEPT !.at = end]
    <3>2. v \in Workers /\ v.req = w.req /\ v.interrupted = w.interrupted
      BY <1>3 DEF Workers
    <3>3. workers' = (workers \ {w}) \cup {v}
      BY <3>1
    <3> HIDE DEF v
    <3> QED BY <1>3, <3>2, <3>3 DEF Answered
  <2> QED BY <2>1, <2>2
<1>5. AiTyped' /\ PanelIsKeyed'
  BY <1>1, <1>4 DEF RequestsInv, AiTyped, PanelIsKeyed, Box
<1>6. Tally(answers, ai.active, story.requests)'
  BY <1>1 DEF RequestsInv, Tally, EndedOnce, Ended
<1>7. Numbered' /\ Answered'
  BY <1>1, <1>3, <1>4 DEF Numbered, Answered, Ended
<1> QED BY <1>5, <1>6, <1>7 DEF RequestsInv

\* The end of a request that is no longer active is dropped.
LEMMA ThreadGone ==
  ASSUME RequestsInv, NEW w \in workers, w.req # ai.active, workers' = workers \ {w},
         desk' = desk, ai' = ai, answers' = answers, story'.requests = story.requests
  PROVE  RequestsInv'
<1>1. AiTyped' /\ PanelIsKeyed'
  BY DEF RequestsInv, AiTyped, PanelIsKeyed, Box
<1>2. Tally(answers, ai.active, story.requests)'
  BY DEF RequestsInv, Tally, EndedOnce, Ended
<1>3. Numbered' /\ Answered'
  BY DEF RequestsInv, Numbered, Answered, Ended
<1> QED BY <1>1, <1>2, <1>3 DEF RequestsInv

LEMMA DeliverKeepsRequests ==
  ASSUME NothingIsNoRequest, RequestsInv, story \in Story, A!Deliver PROVE RequestsInv'
<1>1. PICK w \in workers :
        /\ workers' = workers \ {w} /\ desk' = desk
        /\ IF w.req # ai.active THEN ai' = ai /\ answers' = answers /\ story' = story
           ELSE \E ok \in BOOLEAN :
              /\ answers' = IF ok THEN [answers EXCEPT !.history = @ \cup {w.req}]
                            ELSE [answers EXCEPT !.dialogs = @ \cup {w.req}]
              /\ story' = [story EXCEPT !.faults = IF ok THEN @ ELSE @ + 1]
              /\ ai' = IF ai.shown /\ ai.key = <<desk.chapter, w.req.step>>
                          /\ desk.chapter = w.req.chapter
                       THEN [ai EXCEPT !.active = Nothing, !.box[ai.step].answers = @ \cup {w.req}]
                       ELSE [ai EXCEPT !.active = Nothing]
  BY DEF A!Deliver, A!Expected
<1>2. /\ AiTyped /\ ai \in Assistants /\ ai.step \in A!Step /\ answers \in Fates
      /\ ai.box \in [A!Step -> Boxes] /\ Box \in Boxes /\ story.requests \in Nat
      /\ workers \subseteq Workers
  BY DEF RequestsInv, AiTyped, Assistants, Box, Story
<1>3. CASE w.req # ai.active
  BY <1>1, <1>3, ThreadGone
<1>4. CASE w.req = ai.active
  <2> DEFINE r == ai.active
  <2>1. PICK ok \in BOOLEAN :
          /\ answers' = IF ok THEN [answers EXCEPT !.history = @ \cup {r}]
                        ELSE [answers EXCEPT !.dialogs = @ \cup {r}]
          /\ story' = [story EXCEPT !.faults = IF ok THEN @ ELSE @ + 1]
          /\ \/ ai' = [ai EXCEPT !.active = Nothing, !.box[ai.step].answers = @ \cup {r}]
             \/ ai' = [ai EXCEPT !.active = Nothing]
    BY <1>1, <1>4
  <2>2. r \in Request /\ r # Nothing /\ ai.key = <<r.chapter, r.step>> /\ r.about = Box.session
    BY <1>2, <1>4 DEF Workers, NothingIsNoRequest, RequestsInv, PanelIsKeyed
  <2>3. story'.requests = story.requests
    BY <2>1 DEF Story
  <2>4. /\ answers' \in Fates /\ Tally(answers', Nothing, story.requests)
        /\ Ended(answers') = Ended(answers) \cup {r}
    BY <1>2, <2>1, <2>2, RequestEnds DEF RequestsInv
  <2>5. \A x \in Ended(answers') : x.id <= story.requests
    BY <2>2, <2>4 DEF RequestsInv, Numbered
  <2>6. CASE ai' = [ai EXCEPT !.active = Nothing]
    <3>1. /\ ai' \in Assistants /\ SameBoxes(ai') /\ ai'.shown = ai.shown /\ ai'.step = ai.step
          /\ ai'.key = ai.key /\ ai'.active = Nothing
      BY <1>2, <2>6, IdleIs
    <3>2. workers' \subseteq Workers /\ \A v \in workers' : \E u \in workers : v.req = u.req
      BY <1>1, <1>2
    <3> QED BY <1>1, <2>3, <2>4, <2>5, <3>1, <3>2, PanelRests
  <2>7. CASE ai' = [ai EXCEPT !.active = Nothing, !.box[ai.step].answers = @ \cup {r}]
    <3> DEFINE more == Box.answers \cup {r}
               one == [Box EXCEPT !.answers = more]
               boxes == [ai.box EXCEPT ![ai.step] = one]
    <3>1. more \subseteq Request
      BY <1>2, <2>2 DEF Boxes
    <3>2. /\ one \in Boxes /\ one.answers = more /\ one.session = Box.session
          /\ one.final = Box.final
      BY <1>2, <3>1 DEF Boxes
    <3>3. boxes \in [A!Step -> Boxes] /\ boxes[ai.step] = one
            /\ \A t \in A!Step : t # ai.step => boxes[t] = ai.box[t]
      BY <1>2, <3>2
    <3>4. ai' = [ai EXCEPT !.active = Nothing, !.box = boxes]
      BY <1>2, <2>7 DEF Assistants, Box, Boxes
    <3> HIDE DEF more, one, boxes
    <3>5. /\ ai' \in Assistants /\ ai'.active = Nothing /\ ai'.shown = ai.shown
          /\ ai'.step = ai.step /\ ai'.key = ai.key /\ ai'.box = boxes
      BY <1>2, <3>3, <3>4 DEF Assistants
    <3>6. AiTyped'
      BY <1>1, <1>2, <2>4, <3>2, <3>3, <3>5 DEF AiTyped, Box
    <3>7. Box' = one
      BY <3>3, <3>5 DEF Box
    <3>8. PanelIsKeyed'
      BY <1>1, <2>2, <3>2, <3>5, <3>7 DEF more, RequestsInv, PanelIsKeyed
    <3>9. Tally(answers, ai.active, story.requests)'
      BY <2>3, <2>4, <3>5 DEF Tally, EndedOnce, Ended
    <3>10. Numbered'
      BY <1>1, <2>3, <2>5, <3>5 DEF RequestsInv, Numbered, Ended
    <3>11. Answered'
      BY <1>1, <1>2, <3>5 DEF Answered, NothingIsNoRequest, Workers
    <3> QED BY <3>6, <3>8, <3>9, <3>10, <3>11 DEF RequestsInv
  <2> QED BY <2>1, <2>6, <2>7
<1> QED BY <1>3, <1>4

LEMMA DeliverErrorKeepsRequests ==
  ASSUME NothingIsNoRequest, RequestsInv, story.requests \in Nat, A!DeliverError
  PROVE  RequestsInv'
<1>1. PICK w \in workers :
        /\ workers' = workers \ {w} /\ desk' = desk /\ story' = story
        /\ IF w.req = ai.active
           THEN /\ ai' = [ai EXCEPT !.active = Nothing]
                /\ answers' = [answers EXCEPT !.failed = @ \cup {w.req}]
           ELSE ai' = ai /\ answers' = answers
  BY DEF A!DeliverError, A!Expected
<1>2. AiTyped /\ answers \in Fates /\ workers \subseteq Workers
  BY DEF RequestsInv, AiTyped
<1>3. CASE w.req # ai.active
  BY <1>1, <1>3, ThreadGone
<1>4. CASE w.req = ai.active
  <2> DEFINE r == ai.active
  <2>1. r \in Request /\ Tally(answers, r, story.requests) /\ r # Nothing
    BY <1>2, <1>4 DEF Workers, RequestsInv, NothingIsNoRequest
  <2>2. answers' = [answers EXCEPT !.failed = @ \cup {r}]
    BY <1>1, <1>4
  <2>3. /\ answers' \in Fates /\ Tally(answers', Nothing, story.requests)
        /\ Ended(answers') = Ended(answers) \cup {r}
    BY <1>2, <2>1, <2>2, RequestEnds
  <2>4. \A x \in Ended(answers') : x.id <= story.requests
    BY <2>1, <2>3 DEF RequestsInv, Numbered
  <2>5. /\ ai' \in Assistants /\ SameBoxes(ai') /\ ai'.shown = ai.shown /\ ai'.step = ai.step
        /\ ai'.key = ai.key /\ ai'.active = Nothing
    BY <1>1, <1>2, <1>4, IdleIs
  <2>6. workers' \subseteq Workers /\ \A v \in workers' : \E u \in workers : v.req = u.req
    BY <1>1, <1>2
  <2> QED BY <1>1, <2>3, <2>4, <2>5, <2>6, PanelRests
<1> QED BY <1>3, <1>4

LEMMA SettleKeepsRequests ==
  ASSUME RequestsInv, A!SettleDialog PROVE RequestsInv'
<1>1. PICK r \in answers.dialogs :
        \/ answers' = [answers EXCEPT !.dialogs = @ \ {r}, !.history = @ \cup {r}]
        \/ answers' = [answers EXCEPT !.dialogs = @ \ {r}, !.cancelled = @ \cup {r}]
  BY DEF A!SettleDialog
<1>2. desk' = desk /\ ai' = ai /\ workers' = workers /\ story' = story
  BY DEF A!SettleDialog
<1>3. answers \in Fates /\ Tally(answers, ai.active, story.requests)
  BY DEF RequestsInv, AiTyped
<1>4. /\ answers' \in Fates /\ Tally(answers', ai.active, story.requests)
      /\ Ended(answers') = Ended(answers)
  BY <1>1, <1>3, DialogSettles
<1>5. AiTyped' /\ PanelIsKeyed'
  BY <1>2, <1>4 DEF RequestsInv, AiTyped, PanelIsKeyed, Box
<1>6. Tally(answers, ai.active, story.requests)'
  BY <1>2, <1>4 DEF Tally, EndedOnce, Ended
<1>7. Numbered'
  BY <1>2, <1>4 DEF Ended, RequestsInv, Numbered
<1>8. Answered'
  BY <1>2 DEF RequestsInv, Answered
<1> QED BY <1>5, <1>6, <1>7, <1>8 DEF RequestsInv

LEMMA WriterKeepsRequests ==
  ASSUME RequestsInv, DeskInv,
         \/ A!TypeText \/ A!Autosave \/ A!ManualSave \/ A!SaveContent \/ A!SwitchTab
         \/ A!ChangeChapter \/ A!GotoSearchResult \/ A!Focus \/ A!ToggleSplit \/ A!Close
  PROVE  RequestsInv'
<1>1. ai' = ai /\ workers' = workers /\ answers' = answers
  BY DEF A!TypeText, A!Autosave, A!ManualSave, A!SaveContent, A!SwitchTab, A!ChangeChapter,
         A!GotoSearchResult, A!Focus, A!ToggleSplit, A!Close
<1>2. story \in Story
  BY DEF DeskInv
<1>3. ASSUME NEW move, NEW edit, NEW ok, NEW more, A!Did(move, edit, ok, more)
      PROVE  story'.requests = story.requests
  BY <1>2, <1>3 DEF A!Did, Story
<1>4. ASSUME NEW step, NEW c, NEW ok, A!DidWrite(step, c, ok)
      PROVE  story'.requests = story.requests
  BY <1>2, <1>4 DEF A!DidWrite, Story
<1>5. CASE A!TypeText
  BY <1>1, <1>4, <1>5, PanelStands DEF A!TypeText
<1>6. CASE A!Autosave \/ A!ManualSave \/ A!SaveContent \/ A!SwitchTab \/ A!ChangeChapter
  <2>1. story'.requests = story.requests
    BY <1>3, <1>6 DEF A!Autosave, A!ManualSave, A!SaveContent, A!SwitchTab, A!ChangeChapter
  <2> QED BY <1>1, <2>1, PanelStands
<1>7. CASE A!GotoSearchResult \/ A!Focus \/ A!ToggleSplit
  <2>1. story'.requests = story.requests
    BY <1>3, <1>7 DEF A!GotoSearchResult, A!Focus, A!ToggleSplit
  <2> QED BY <1>1, <2>1, PanelStands
<1>8. CASE A!Close
  BY <1>1, <1>2, <1>8, PanelStands DEF A!Close, Story
<1> QED BY <1>5, <1>6, <1>7, <1>8

\* The application of an answer, and a confirmation that asks for nothing.
LEMMA QuietKeepsRequests ==
  ASSUME NothingIsNoRequest, RequestsInv, DeskInv,
         A!Apply \/ A!ConfirmCollected \/ A!ConfirmFails
  PROVE  RequestsInv'
<1>1. /\ AiTyped /\ workers \subseteq Workers /\ answers \in Fates /\ ai \in Assistants
      /\ ai.step \in A!Step /\ story \in Story /\ desk \in Desk
  BY DEF RequestsInv, AiTyped, Assistants, DeskInv, Shaped
<1>2. ai.active = Nothing /\ workers' = workers /\ answers' = answers
  BY DEF A!Apply, A!ConfirmCollected, A!ConfirmFails, A!Confirmable, A!Working
<1>3. /\ \A w \in workers' : \E v \in workers : w.req = v.req
      /\ Tally(answers', Nothing, story.requests)
      /\ \A r \in Ended(answers') : r.id <= story.requests
  BY <1>2 DEF RequestsInv, Numbered
<1>4. CASE A!ConfirmCollected \/ A!ConfirmFails
  <2>1. ai' = A!Hidden
    BY <1>4 DEF A!ConfirmCollected, A!ConfirmFails
  <2>2. story'.requests = story.requests
    <3>1. CASE A!ConfirmCollected
      BY <1>1, <3>1, ConfirmCollectedIs DEF A!DidWrite, Story
    <3>2. CASE A!ConfirmFails
      BY <1>1, <3>2 DEF A!ConfirmFails, A!Did, Story
    <3> QED BY <1>4, <3>1, <3>2
  <2>3. /\ ai' \in Assistants /\ SameBoxes(ai') /\ ~ ai'.shown /\ ai'.step = ai.step
        /\ ai'.key = ai.key /\ ai'.active = Nothing
    BY <1>1, <2>1, HiddenIs
  <2> QED BY <1>1, <1>2, <1>3, <2>2, <2>3, PanelRests
<1>5. CASE A!Apply
  <2>1. /\ \E ok \in BOOLEAN : A!DidWrite(ai.step, AppliedText.of, ok)
        /\ ai' = IF ai.step # "eval" THEN A!Hidden
                 ELSE [ai EXCEPT !.box[ai.step].final = FALSE, !.box[ai.step].raws = {}]
    BY <1>1, <1>5, ApplyIs
  <2>2. story'.requests = story.requests
    BY <1>1, <2>1 DEF A!DidWrite, Story
  <2>4. /\ ai' \in Assistants /\ SameBoxes(ai')
        /\ ai'.step = ai.step /\ ai'.key = ai.key /\ ai'.active = Nothing
    <3>1. CASE ai.step # "eval"
      BY <1>1, <2>1, <3>1, HiddenIs
    <3>2. CASE ai.step = "eval"
      BY <1>1, <1>2, <2>1, <3>2, UnpreparedIs
    <3> QED BY <3>1, <3>2
  <2> QED BY <1>1, <1>2, <1>3, <2>2, <2>4, PanelRests
<1> QED BY <1>4, <1>5

LEMMA FeedbackKeepsRequests ==
  ASSUME NothingIsNoRequest, RequestsInv, DeskInv, A!Feedback PROVE RequestsInv'
<1>1. /\ AiTyped /\ PanelIsKeyed /\ ai.step \in A!Step /\ ai.box[ai.step] \in Boxes
      /\ desk.chapter \in A!Chapter /\ story.requests \in Nat
  BY DEF RequestsInv, AiTyped, Assistants, DeskInv, Shaped, Desk, Story
<1>2. /\ ai.shown /\ ai.active = Nothing /\ desk' = desk /\ answers' = answers
      /\ A!Ask(ai.step, ai.box[ai.step])
      /\ A!Asked(TRUE, IF ai.key # <<desk.chapter, ai.step>> THEN {"jumped"} ELSE {})
  BY DEF A!Feedback, A!Working
<1>3. story'.requests = story.requests + 1
  BY <1>2 DEF A!Asked, DeskInv, Story
<1>5. \A r \in ai.box[ai.step].answers : r.about = ai.box[ai.step].session
  BY <1>1, <1>2 DEF PanelIsKeyed, Box
<1>6. ai.box[ai.step].final => ai.step = "summary"
  BY <1>1 DEF AiTyped
<1> QED BY <1>1, <1>2, <1>3, <1>5, <1>6, AskKeepsRequests

\* The messages of a request for a draft or for an evaluation.
AskedBox(step, from) ==
  [ai.box[step] EXCEPT !.answers = {}, !.session = {desk.doc[from].of}]

LEMMA AskedBoxIs ==
  ASSUME AiTyped, DeskInv, NEW step \in A!Step, NEW from \in A!Step
  PROVE  /\ AskedBox(step, from) \in Boxes /\ AskedBox(step, from).answers = {}
         /\ AskedBox(step, from).session = {desk.doc[from].of}
         /\ AskedBox(step, from).final = ai.box[step].final
         /\ AskedBox(step, from).raws = ai.box[step].raws
         /\ AskedBox(step, from).whole = ai.box[step].whole
<1> DEFINE about == {desk.doc[from].of}
           none == {}
<1>1. about \subseteq Nat /\ ai.box[step] \in Boxes /\ none \subseteq Request
  BY DocIs DEF Text, AiTyped, Assistants
<1>2. AskedBox(step, from) = [ai.box[step] EXCEPT !.answers = none, !.session = about]
  BY DEF AskedBox
<1> HIDE DEF about
<1> HIDE DEF none
<1>3. /\ AskedBox(step, from) \in Boxes /\ AskedBox(step, from).answers = none
      /\ AskedBox(step, from).session = about
      /\ AskedBox(step, from).final = ai.box[step].final
      /\ AskedBox(step, from).raws = ai.box[step].raws
      /\ AskedBox(step, from).whole = ai.box[step].whole
  BY <1>1, <1>2 DEF Boxes
<1> QED BY <1>3 DEF about, none

LEMMA GenerateDraftKeepsRequests ==
  ASSUME NothingIsNoRequest, RequestsInv, DeskInv, DeskInv', A!GenerateDraft
  PROVE  RequestsInv'
<1>1. /\ AiTyped /\ story \in Story /\ story.requests \in Nat /\ desk'.chapter \in A!Chapter
      /\ Shaped(desk) /\ desk.chapter \in A!Chapter
  BY DEF RequestsInv, DeskInv, Story, Shaped, Desk
<1>2. ~ desk.split /\ ai.active = Nothing /\ answers' = answers
  BY DEF A!GenerateDraft, A!Working
<1>3. PICK ok \in BOOLEAN :
        /\ desk' = A!Brought(desk, "completed", desk.chapter, ok)
        /\ \/ A!Did(0, 0, ok, {}) /\ UNCHANGED <<ai, workers>>
           \/ A!Ask("draft", AskedBox("draft", "draft")) /\ A!Asked(ok, A!StaleToolbar)
  BY DEF A!GenerateDraft, AskedBox
<1>4. "completed" \in A!Step /\ "draft" \in A!Step
  BY DEF A!Step
<1>5. /\ Shaped(desk') /\ desk'.tab = desk.tab /\ desk'.split = desk.split
      /\ desk'.chapter = desk.chapter
  BY <1>1, <1>3, <1>4, BroughtKeeps
<1>6. CASE A!Did(0, 0, ok, {}) /\ UNCHANGED <<ai, workers>>
  BY <1>1, <1>2, <1>5, <1>6, PanelStands DEF A!Did, Story
<1>7. CASE A!Ask("draft", AskedBox("draft", "draft")) /\ A!Asked(ok, A!StaleToolbar)
  <2> DEFINE box == AskedBox("draft", "draft")
  <2>1. story'.requests = story.requests + 1
    BY <1>1, <1>7 DEF A!Asked, Story
  <2>2. box \in Boxes /\ box.answers = {} /\ ~ box.final
    BY <1>1, <1>4, AskedBoxIs DEF AiTyped
  <2>3. A!Ask("draft", box)
    BY <1>7
  <2> HIDE DEF box
  <2> QED BY <1>1, <1>2, <1>4, <1>5, <2>1, <2>2, <2>3, AskKeepsRequests
<1> QED BY <1>3, <1>6, <1>7

LEMMA GenerateEvaluationIs ==
  ASSUME AiTyped, DeskInv, A!GenerateEvaluation
  PROVE  /\ ~ desk.split /\ desk.tab["left"] = "completed" /\ ai.active = Nothing
         /\ answers' = answers /\ ~ desk'.split
         /\ A!Ask("eval", AskedBox("eval", "completed"))
         /\ \E ok \in BOOLEAN :
              /\ desk' = A!Turned(A!Switched(desk, "eval", ok), desk.chapter, ok, ai.shown)
              /\ A!Asked(ok, A!StaleToolbar \cup IF ai.shown THEN {"open"} ELSE {})
<1>1. PICK ok \in BOOLEAN :
        /\ desk' = A!Turned(A!Switched(desk, "eval", ok), desk.chapter, ok, ai.shown)
        /\ A!Ask("eval", AskedBox("eval", "completed"))
        /\ A!Asked(ok, A!StaleToolbar \cup IF ai.shown THEN {"open"} ELSE {})
  BY DEF A!GenerateEvaluation, AskedBox
<1>2. /\ ~ desk.split /\ desk.tab["left"] = "completed" /\ ai.active = Nothing
      /\ answers' = answers /\ ai.shown \in BOOLEAN
      /\ Shaped(desk) /\ desk.chapter \in A!Chapter
  BY DEF A!GenerateEvaluation, A!Working, DeskInv, Shaped, Desk, AiTyped, Assistants
<1> DEFINE d == A!Switched(desk, "eval", ok)
<1>3. desk.was = Nothing /\ "eval" \in A!Tab
  BY <1>2 DEF Shaped, A!Tab, A!Step
<1>4. Shaped(d) /\ (d.split \/ d.was # Nothing => desk.split \/ desk.was # Nothing)
  BY <1>2, <1>3, SwitchedKeeps
<1>5. desk' = A!Turned(d, desk.chapter, ok, ai.shown)
  BY <1>1
<1> HIDE DEF d
<1>6. Shaped(desk') /\ desk'.tab = d.tab /\ desk'.split = d.split
  BY <1>2, <1>4, <1>5, TurnedKeeps
<1> QED BY <1>1, <1>2, <1>3, <1>4, <1>6

LEMMA GenerateEvaluationKeepsRequests ==
  ASSUME NothingIsNoRequest, RequestsInv, DeskInv, DeskInv', A!GenerateEvaluation
  PROVE  RequestsInv'
<1> DEFINE box == AskedBox("eval", "completed")
<1>1. /\ AiTyped /\ story \in Story /\ story.requests \in Nat /\ desk'.chapter \in A!Chapter
  BY DEF RequestsInv, DeskInv, Story, Shaped, Desk
<1>2. /\ ai.active = Nothing /\ answers' = answers /\ ~ desk'.split /\ A!Ask("eval", box)
      /\ story'.requests = story.requests + 1
  BY <1>1, GenerateEvaluationIs DEF A!Asked, Story
<1>3. "completed" \in A!Step /\ "eval" \in A!Step
  BY DEF A!Step
<1>4. box \in Boxes /\ box.answers = {} /\ ~ box.final
  BY <1>1, <1>3, AskedBoxIs DEF AiTyped
<1> HIDE DEF box
<1> QED BY <1>1, <1>2, <1>3, <1>4, AskKeepsRequests

\* The summary before is true, and so is what is asked for.
LEMMA RollingBoxIs ==
  ASSUME DeskInv, desk.chapter > Collected
  PROVE  /\ RollingBox \in Boxes /\ RollingBox.answers = {} /\ RollingBox.final
         /\ RollingBox.session = A!AskedFor(desk.chapter)
         /\ RollingBox.raws =
              ((desk.chapter - Window + 1) .. (desk.chapter - 1))
                \cup {A!CompletedOf(desk.chapter).of}
         /\ RollingBox.whole <=> (desk.chapter = Collected + 1 \/ A!Earlier(desk.chapter).whole)
         /\ desk.chapter - 1 \in A!Chapter
<1> DEFINE c == desk.chapter
           raws == ((c - Window + 1) .. (c - 1)) \cup {A!CompletedOf(c).of}
           session == A!AskedFor(c)
           whole == c = Collected + 1 \/ A!Earlier(c).whole
           yes == TRUE
           none == {}
<1>1. /\ c \in A!Chapter /\ c \in Nat /\ c - 1 \in A!Chapter /\ Window \in Nat
      /\ Window <= Collected /\ c - Window \in Nat /\ desk \in Desk
  BY WindowAssumption DEF DeskInv, Shaped, Desk, A!Chapter
<1>2. "summary" \in A!Step
  BY DEF A!Step
<1>3. A!Earlier(c) \in Text /\ A!CompletedOf(c).of \in Nat
  BY <1>1, <1>2, CollectedTextIs DEF A!Earlier, Desk
<1>4. session \subseteq Nat
  BY <1>1, <1>3 DEF Text, A!AskedFor
<1>5. raws \subseteq Nat
  BY <1>1, <1>3
<1>6. whole \in BOOLEAN /\ yes \in BOOLEAN /\ yes /\ none \subseteq Request
  BY <1>3 DEF Text
<1>7. RollingBox = [answers |-> none, session |-> session, final |-> yes, raws |-> raws,
                    whole |-> whole]
  BY DEF RollingBox
<1> HIDE DEF none, session, yes, raws, whole
<1>8. /\ RollingBox \in Boxes /\ RollingBox.answers = none /\ RollingBox.final = yes
      /\ RollingBox.session = session /\ RollingBox.raws = raws /\ RollingBox.whole = whole
  BY <1>4, <1>5, <1>6, <1>7 DEF Boxes
<1> QED BY <1>1, <1>6, <1>8 DEF none, session, raws, whole

LEMMA ConfirmRollingKeepsRequests ==
  ASSUME NothingIsNoRequest, RequestsInv, DeskInv, DeskInv', A!ConfirmRolling
  PROVE  RequestsInv'
<1>1. /\ story \in Story /\ story.requests \in Nat /\ desk'.chapter \in A!Chapter
      /\ desk.chapter \in A!Chapter /\ Shaped(desk) /\ "summary" \in A!Step /\ "summary" \in A!Tab
  BY DEF DeskInv, Story, Shaped, Desk, A!Step, A!Tab
<1>2. /\ ~ desk.split /\ desk.tab["left"] = "eval" /\ ai.active = Nothing
      /\ desk.chapter > Collected /\ A!Ask("summary", RollingBox) /\ answers' = answers
  BY ConfirmRollingIs
<1>3. PICK ok \in BOOLEAN :
        /\ ~ A!ConfirmRefused(ok)
        /\ desk' = A!Switched(A!AtBoth(A!Brought(desk, "summary", desk.chapter, ok),
                                       "summary", desk.chapter),
                              "summary", ok)
        /\ A!Asked(ok, A!StaleToolbar)
  BY ConfirmRollingIs
<1>4. story'.requests = story.requests + 1
  BY <1>1, <1>3 DEF A!Asked, Story
<1>5. ~ desk'.split
  <2> DEFINE d == A!Brought(desk, "summary", desk.chapter, ok)
             e == A!AtBoth(d, "summary", desk.chapter)
  <2>1. /\ Shaped(d) /\ d.tab = desk.tab /\ d.split = desk.split /\ d.was = desk.was
        /\ d.at["left"]["summary"] = desk.chapter
    BY <1>2, <1>3, BroughtSummary
  <2> HIDE DEF d
  <2>2. Shaped(e) /\ e.tab = d.tab /\ e.split = d.split /\ e.was = d.was
    BY <1>1, <2>1, AtBothKeeps
  <2> HIDE DEF e
  <2>3. desk' = A!Switched(e, "summary", ok)
    BY <1>3 DEF d, e
  <2>4. Shaped(desk') /\ (desk'.split \/ desk'.was # Nothing => e.split \/ e.was # Nothing)
    BY <1>1, <2>2, <2>3, SwitchedKeeps
  <2>5. desk.was = Nothing
    BY <1>1, <1>2 DEF Shaped
  <2> QED BY <1>2, <2>1, <2>2, <2>4, <2>5
<1>6. RollingBox \in Boxes /\ RollingBox.answers = {}
  BY <1>2, RollingBoxIs
<1> QED BY <1>1, <1>2, <1>4, <1>5, <1>6, AskKeepsRequests

LEMMA RequestsStay ==
  ASSUME NothingIsNoRequest, RequestsInv, DeskInv, DeskInv', A!AssistantNext
  PROVE  RequestsInv'
<1>1. story \in Story /\ story.requests \in Nat
  BY DEF DeskInv, Story
<1>2. CASE \/ A!TypeText \/ A!Autosave \/ A!ManualSave \/ A!SaveContent \/ A!SwitchTab
           \/ A!ChangeChapter \/ A!GotoSearchResult \/ A!Focus \/ A!ToggleSplit \/ A!Close
  BY <1>2, WriterKeepsRequests
<1>3. CASE A!StopGeneration \/ A!HidePanel
  BY <1>1, <1>3, StopsKeepRequests
<1>4. CASE A!OpenPanel
  BY <1>4, OpenPanelKeepsRequests
<1>5. CASE A!GenerateDraft \/ A!GenerateEvaluation \/ A!Feedback \/ A!ConfirmRolling
  BY <1>5, GenerateDraftKeepsRequests, GenerateEvaluationKeepsRequests,
     FeedbackKeepsRequests, ConfirmRollingKeepsRequests
<1>6. CASE A!WorkerEnds \/ A!Deliver
  BY <1>1, <1>6, WorkerEndsKeepsRequests, DeliverKeepsRequests
<1>7. CASE A!DeliverError \/ A!SettleDialog
  BY <1>1, <1>7, DeliverErrorKeepsRequests, SettleKeepsRequests
<1>8. CASE A!Apply \/ A!ConfirmCollected \/ A!ConfirmFails
  BY <1>8, QuietKeepsRequests
<1> QED BY <1>2, <1>3, <1>4, <1>5, <1>6, <1>7, <1>8 DEF A!AssistantNext

LEMMA RequestsOpen ==
  ASSUME NothingIsNoRequest, A!AssistantInit PROVE RequestsInv
<1> DEFINE no == FALSE
           none == {}
<1>1. /\ ai = [shown |-> no, step |-> "draft", key |-> Nothing, active |-> Nothing,
               box |-> [t \in A!Step |-> A!EmptyBox]]
      /\ workers = {} /\ story.requests = 0
      /\ answers = [history |-> none, dialogs |-> none, cancelled |-> none, failed |-> none]
  BY DEF A!AssistantInit
<1>2. no \in BOOLEAN /\ ~ no /\ none \subseteq Request /\ none = {} /\ "draft" \in A!Step
  BY DEF A!Step
<1>3. A!EmptyBox \in Boxes /\ A!EmptyBox.answers = {} /\ A!EmptyBox.final = FALSE
  BY DEF A!EmptyBox, Boxes
<1>4. [t \in A!Step |-> A!EmptyBox] \in [A!Step -> Boxes]
  BY <1>3
<1> HIDE DEF no, none
<1>5. /\ ai \in Assistants /\ ~ ai.shown /\ ai.key = Nothing /\ ai.active = Nothing
      /\ ai.step = "draft" /\ \A t \in A!Step : ai.box[t] = A!EmptyBox
  BY <1>1, <1>2, <1>4 DEF Assistants
<1>6. /\ answers \in Fates /\ answers.history = {} /\ answers.dialogs = {}
      /\ answers.cancelled = {} /\ answers.failed = {}
  BY <1>1, <1>2 DEF Fates
<1>7. AiTyped
  BY <1>1, <1>3, <1>5, <1>6 DEF AiTyped
<1>8. PanelIsKeyed
  BY <1>2, <1>3, <1>5 DEF PanelIsKeyed, Box
<1>9. Ended(answers) = {} /\ EndedOnce(answers)
  BY <1>6 DEF Ended, EndedOnce
<1>10. Tally(answers, ai.active, story.requests)
  BY <1>1, <1>5, <1>9, FS_EmptySet DEF Tally
<1>11. Numbered /\ Answered
  BY <1>1, <1>5, <1>9 DEF Numbered, Answered
<1> QED BY <1>7, <1>8, <1>10, <1>11 DEF RequestsInv

\* The instance has its own name for the same operator.
LEMMA SameCardinality ==
  ASSUME NEW S PROVE A!Cardinality(S) = Cardinality(S)
  BY DEF A!Cardinality, Cardinality

\* What the invariant says of the ends of requests.
LEMMA RequestsEndOnce ==
  ASSUME NothingIsNoRequest, RequestsInv, AnswersAreKeyed PROVE A!AnswersEndOnce
<1> DEFINE mine == {ai.active} \ {Nothing}
           ends == <<answers.history, answers.dialogs, answers.cancelled, answers.failed, mine>>
<1>1. /\ EndedOnce(answers) /\ ai.active \notin Ended(answers) /\ IsFiniteSet(Ended(answers))
      /\ ai.active = Nothing => Cardinality(Ended(answers)) = story.requests
      /\ ai.active # Nothing => Cardinality(Ended(answers)) + 1 = story.requests
  BY DEF RequestsInv, Tally
<1>2. DOMAIN ends = {1, 2, 3, 4, 5}
  OBVIOUS
<1>3. /\ ends[1] = answers.history /\ ends[2] = answers.dialogs /\ ends[3] = answers.cancelled
      /\ ends[4] = answers.failed /\ ends[5] = mine
  OBVIOUS
<1>4. /\ mine \cap answers.history = {} /\ mine \cap answers.dialogs = {}
      /\ mine \cap answers.cancelled = {} /\ mine \cap answers.failed = {}
  BY <1>1 DEF Ended
<1>5. UNION {ends[i] : i \in DOMAIN ends} = Ended(answers) \cup mine
  BY <1>2, <1>3 DEF Ended
<1> HIDE DEF ends
<1>6. \A i, j \in DOMAIN ends : i < j => ends[i] \cap ends[j] = {}
  BY <1>1, <1>2, <1>3, <1>4 DEF EndedOnce
<1>7. Cardinality(UNION {ends[i] : i \in DOMAIN ends}) = story.requests
  <2>1. CASE ai.active = Nothing
    BY <1>1, <1>5, <2>1
  <2>2. CASE ai.active # Nothing
    <3>1. mine = {ai.active}
      BY <2>2
    <3>2. Cardinality(Ended(answers) \cup {ai.active}) = Cardinality(Ended(answers)) + 1
      BY <1>1, FS_AddElement
    <3> QED BY <1>1, <1>5, <2>2, <3>1, <3>2
  <2> QED BY <2>1, <2>2
<1>8. A!Working => \E w \in workers : w.req = ai.active
  BY DEF RequestsInv, Answered, A!Working
<1>9. ai.shown /\ A!Never({"jumped"}) =>
        \A r \in ai.box[ai.step].answers : <<r.chapter, r.step>> = ai.key
  BY DEF AnswersAreKeyed, A!Never, Box
<1>10. /\ \A i, j \in DOMAIN ends : i < j => ends[i] \cap ends[j] = {}
       /\ Cardinality(UNION {ends[i] : i \in DOMAIN ends}) = story.requests
  BY <1>6, <1>7
<1>11. A!Cardinality(UNION {ends[i] : i \in DOMAIN ends}) = story.requests
  BY <1>10, SameCardinality
<1> QED BY <1>8, <1>9, <1>10, <1>11 DEF A!AnswersEndOnce, ends

-----------------------------------------------------------------------------
(* What the answers are about: the third part of the invariant *)

\* The causes after which an answer may be about another chapter than its own.
Misled == {"apart", "toolbar", "open", "jumped", "unloaded"}

\* The messages of the panel of chapter k, and what is prepared for a summary.
TruePanel(k) ==
  /\ Apt(ai.step, k, Box.session)
  /\ Box.final => /\ k > Collected
                  /\ Box.whole => Box.session = Early(k) /\ Box.raws = Late(k)

TrueAnswers ==
  /\ \A r \in answers.history \cup answers.dialogs : Apt(r.step, r.chapter, r.about)
  /\ \A k \in A!Chapter : ai.key = <<k, ai.step>> => TruePanel(k)

TruthInv == A!Never(Misled) => TrueTexts(desk) /\ TrueAnswers

LEMMA CausesGrow ==
  ASSUME DeskInv, A!AssistantNext PROVE story.causes \subseteq story'.causes
<1>1. story \in Story
  BY DEF DeskInv
<1>2. ASSUME NEW move, NEW edit, NEW ok, NEW more, A!Did(move, edit, ok, more)
      PROVE  story.causes \subseteq story'.causes
  BY <1>1, <1>2 DEF A!Did, Story
<1>3. ASSUME NEW step, NEW c, NEW ok, A!DidWrite(step, c, ok)
      PROVE  story.causes \subseteq story'.causes
  BY <1>1, <1>3 DEF A!DidWrite, Story
<1>4. ASSUME NEW ok, NEW more, A!Asked(ok, more)
      PROVE  story.causes \subseteq story'.causes
  BY <1>1, <1>4 DEF A!Asked, Story
<1>5. CASE A!TypeText \/ A!Apply \/ A!ConfirmCollected
  BY <1>3, <1>5 DEF A!TypeText, A!Apply, A!ConfirmCollected
<1>6. CASE A!Autosave \/ A!ManualSave \/ A!SaveContent \/ A!SwitchTab \/ A!ChangeChapter
  BY <1>2, <1>6 DEF A!Autosave, A!ManualSave, A!SaveContent, A!SwitchTab, A!ChangeChapter
<1>7. CASE A!GotoSearchResult \/ A!Focus \/ A!ToggleSplit \/ A!OpenPanel \/ A!ConfirmFails
  BY <1>2, <1>7 DEF A!GotoSearchResult, A!Focus, A!ToggleSplit, A!OpenPanel, A!ConfirmFails
<1>8. CASE A!GenerateDraft \/ A!GenerateEvaluation \/ A!Feedback \/ A!ConfirmRolling
  BY <1>2, <1>4, <1>8 DEF A!GenerateDraft, A!GenerateEvaluation, A!Feedback, A!ConfirmRolling
<1>9. CASE A!StopGeneration \/ A!HidePanel \/ A!WorkerEnds \/ A!DeliverError \/ A!SettleDialog
  BY <1>9 DEF A!StopGeneration, A!HidePanel, A!WorkerEnds, A!DeliverError, A!SettleDialog
<1>10. CASE A!Deliver
  BY <1>1, <1>10 DEF A!Deliver, Story
<1>11. CASE A!Close
  BY <1>1, <1>11 DEF A!Close, Story
<1> QED BY <1>5, <1>6, <1>7, <1>8, <1>9, <1>10, <1>11 DEF A!AssistantNext

LEMMA KeyedOpens ==
  ASSUME NothingIsNoRequest, A!AssistantInit PROVE AnswersAreKeyed
<1>1. Box = A!EmptyBox
  BY DEF A!AssistantInit, Box, A!Step
<1> QED BY <1>1 DEF A!EmptyBox, AnswersAreKeyed

\* An answer is in the panel it was asked for, unless feedback was asked for elsewhere.
LEMMA KeyedStays ==
  ASSUME NothingIsNoRequest, DeskInv, DeskInv', RequestsInv, AnswersAreKeyed, A!AssistantNext
  PROVE  AnswersAreKeyed'
<1> SUFFICES ASSUME "jumped" \notin story'.causes
             PROVE  \A r \in Box'.answers : ai'.key = <<r.chapter, r.step>>
  BY DEF AnswersAreKeyed
<1>1. \A r \in Box.answers : ai.key = <<r.chapter, r.step>>
  BY CausesGrow DEF AnswersAreKeyed
<1>2. /\ AiTyped /\ ai \in Assistants /\ ai.step \in A!Step /\ ai.box \in [A!Step -> Boxes]
      /\ Box \in Boxes /\ story \in Story /\ story.requests \in Nat
      /\ desk.chapter \in A!Chapter /\ desk'.chapter \in A!Chapter
  BY DEF RequestsInv, AiTyped, Assistants, Box, DeskInv, Shaped, Desk, Story
<1>3. CASE SameBoxes(ai') /\ ai'.step = ai.step /\ ai'.key = ai.key
  BY <1>1, <1>2, <1>3 DEF SameBoxes, Box
<1>4. ASSUME NEW step \in A!Step, NEW box \in Boxes, A!Ask(step, box),
             \A r \in box.answers : <<desk'.chapter, step>> = <<r.chapter, r.step>>
      PROVE  \A r \in Box'.answers : ai'.key = <<r.chapter, r.step>>
  BY <1>2, <1>4, AskIs DEF Box
<1>5. CASE \/ A!TypeText \/ A!Autosave \/ A!ManualSave \/ A!SaveContent \/ A!SwitchTab
           \/ A!ChangeChapter \/ A!GotoSearchResult \/ A!Focus \/ A!ToggleSplit \/ A!Close
  <2>1. ai' = ai
    BY <1>5 DEF A!TypeText, A!Autosave, A!ManualSave, A!SaveContent, A!SwitchTab,
                A!ChangeChapter, A!GotoSearchResult, A!Focus, A!ToggleSplit, A!Close
  <2> QED BY <1>3, <2>1 DEF SameBoxes
<1>6. CASE \/ A!StopGeneration \/ A!HidePanel \/ A!WorkerEnds \/ A!DeliverError
           \/ A!SettleDialog \/ A!Apply \/ A!ConfirmCollected \/ A!ConfirmFails
  <2>1. \/ ai' = ai \/ ai' = A!Hidden \/ ai' = [ai EXCEPT !.active = Nothing]
        \/ ai' = [ai EXCEPT !.box[ai.step].final = FALSE, !.box[ai.step].raws = {}]
    <3>1. CASE A!Apply
      BY <1>2, <3>1, ApplyIs
    <3>2. CASE ~ A!Apply
      BY <1>6, <3>2 DEF A!StopGeneration, A!HidePanel, A!WorkerEnds, A!DeliverError,
                        A!SettleDialog, A!ConfirmCollected, A!ConfirmFails
    <3> QED BY <3>1, <3>2
  <2>2. CASE ai' = ai
    BY <1>3, <2>2 DEF SameBoxes
  <2>3. CASE ai' = A!Hidden \/ ai' = [ai EXCEPT !.active = Nothing]
    BY <1>2, <1>3, <2>3, HiddenIs, IdleIs
  <2>4. CASE ai' = [ai EXCEPT !.box[ai.step].final = FALSE, !.box[ai.step].raws = {}]
    BY <1>2, <1>3, <2>4, UnpreparedIs
  <2> QED BY <2>1, <2>2, <2>3, <2>4
<1>7. CASE A!OpenPanel
  <2> DEFINE step == desk.tab["left"]
             key == <<desk.chapter, step>>
             yes == TRUE
  <2>1. /\ step # "settings" /\ desk \in Desk
        /\ ai' = IF ai.key = key THEN [ai EXCEPT !.shown = yes]
                 ELSE [ai EXCEPT !.shown = yes, !.step = step, !.key = key,
                         !.box[step] = A!EmptyBox]
    BY <1>7 DEF A!OpenPanel, DeskInv, Shaped
  <2>2. step \in A!Step
    BY <2>1 DEF Desk, A!Side, A!Tab
  <2> HIDE DEF step, key, yes
  <2>3. CASE ai.key = key
    BY <1>2, <1>3, <2>1, <2>3 DEF Assistants, SameBoxes
  <2>4. CASE ai.key # key
    <3> DEFINE boxes == [ai.box EXCEPT ![step] = A!EmptyBox]
    <3>1. boxes[step] = A!EmptyBox
      BY <1>2, <2>2
    <3>2. ai' = [ai EXCEPT !.shown = yes, !.step = step, !.key = key, !.box = boxes]
      BY <1>2, <2>1, <2>4 DEF Assistants
    <3> HIDE DEF boxes
    <3>3. Box' = A!EmptyBox
      BY <1>2, <3>1, <3>2 DEF Assistants, Box
    <3> QED BY <3>3 DEF A!EmptyBox
  <2> QED BY <2>3, <2>4
<1>8. CASE A!Deliver
  <2>1. PICK w \in workers :
          IF w.req # ai.active THEN ai' = ai
          ELSE \/ ai' = [ai EXCEPT !.active = Nothing]
               \/ ai' = [ai EXCEPT !.active = Nothing, !.box[ai.step].answers = @ \cup {w.req}]
    BY <1>8 DEF A!Deliver, A!Expected
  <2>2. CASE ai' = ai \/ ai' = [ai EXCEPT !.active = Nothing]
    BY <1>2, <1>3, <2>2, IdleIs DEF SameBoxes
  <2>3. CASE w.req = ai.active
               /\ ai' = [ai EXCEPT !.active = Nothing, !.box[ai.step].answers = @ \cup {w.req}]
    <3>1. ai.key = <<w.req.chapter, w.req.step>>
      BY <1>2, <2>3 DEF AiTyped, Workers, NothingIsNoRequest, RequestsInv, PanelIsKeyed
    <3> DEFINE more == Box.answers \cup {w.req}
               one == [Box EXCEPT !.answers = more]
               boxes == [ai.box EXCEPT ![ai.step] = one]
    <3>2. one.answers = more
      BY <1>2 DEF Boxes
    <3>3. boxes[ai.step] = one
      BY <1>2
    <3>4. ai' = [ai EXCEPT !.active = Nothing, !.box = boxes]
      BY <1>2, <2>3 DEF Assistants, Box, Boxes
    <3> HIDE DEF one, boxes
    <3>5. Box'.answers = more /\ ai'.key = ai.key
      BY <1>2, <3>2, <3>3, <3>4 DEF Assistants, Box
    <3> QED BY <1>1, <3>1, <3>5
  <2> QED BY <2>1, <2>2, <2>3
<1>9. CASE A!Feedback
  <2>1. "jumped" \in story'.causes \/ ai.key = <<desk.chapter, ai.step>>
    BY <1>9 DEF A!Feedback, A!Asked, DeskInv, Story
  <2>2. A!Ask(ai.step, Box) /\ desk' = desk
    BY <1>9 DEF A!Feedback, Box
  <2> QED BY <1>1, <1>2, <1>4, <2>1, <2>2
<1>10. CASE A!GenerateDraft
  <2>1. ai' = ai \/ A!Ask("draft", AskedBox("draft", "draft"))
    BY <1>10 DEF A!GenerateDraft, AskedBox
  <2>2. "draft" \in A!Step
    BY DEF A!Step
  <2>3. AskedBox("draft", "draft") \in Boxes /\ AskedBox("draft", "draft").answers = {}
    BY <1>2, <2>2, AskedBoxIs
  <2> QED BY <1>3, <1>4, <2>1, <2>2, <2>3 DEF SameBoxes
<1>11. CASE A!GenerateEvaluation
  <2>1. "eval" \in A!Step /\ "completed" \in A!Step
    BY DEF A!Step
  <2>2. AskedBox("eval", "completed") \in Boxes /\ AskedBox("eval", "completed").answers = {}
    BY <1>2, <2>1, AskedBoxIs
  <2> QED BY <1>2, <1>4, <1>11, <2>1, <2>2, GenerateEvaluationIs
<1>12. CASE A!ConfirmRolling
  <2>1. A!Ask("summary", RollingBox) /\ desk.chapter > Collected /\ "summary" \in A!Step
    BY <1>12, ConfirmRollingIs DEF A!Step
  <2> QED BY <1>4, <2>1, RollingBoxIs
<1> QED BY <1>5, <1>6, <1>7, <1>8, <1>9, <1>10, <1>11, <1>12 DEF A!AssistantNext

\* What holds of the desk before a step that misleads nobody.
LEMMA BeforeIsTrue ==
  ASSUME DeskInv, DeskInv', TruthInv, A!AssistantNext, A!Never(Misled)'
  PROVE  /\ TrueTexts(desk) /\ TrueAnswers /\ Filed(desk) /\ Ready(desk) /\ Even(desk)
         /\ "toolbar" \notin story'.causes /\ "open" \notin story'.causes
         /\ "jumped" \notin story'.causes
<1>1. /\ "apart" \notin story'.causes /\ "toolbar" \notin story'.causes
      /\ "unloaded" \notin story'.causes /\ "open" \notin story'.causes
      /\ "jumped" \notin story'.causes
  BY DEF A!Never, Misled
<1>2. /\ "apart" \notin story.causes /\ "toolbar" \notin story.causes
      /\ "unloaded" \notin story.causes /\ "open" \notin story.causes
      /\ "jumped" \notin story.causes
  BY <1>1, CausesGrow
<1>3. A!Never(Misled)
  BY <1>2 DEF A!Never, Misled
<1> QED BY <1>1, <1>2, <1>3, FiledUnless DEF TruthInv

LEMMA WriterKeepsTexts ==
  ASSUME DeskInv, AiTyped, TrueTexts(desk),
         \/ A!TypeText \/ A!Autosave \/ A!ManualSave \/ A!SaveContent \/ A!SwitchTab
         \/ A!ChangeChapter \/ A!GotoSearchResult \/ A!Focus \/ A!ToggleSplit \/ A!Close
  PROVE  TrueTexts(desk')
<1>1. desk \in Desk /\ Shaped(desk) /\ story.newest \in Newest
  BY DEF DeskInv, Shaped, Story
<1>2. CASE A!TypeText
  <2> DEFINE step == A!Active(desk).step
             text == A!Newer(desk.doc[step])
  <2>1. step # "settings" /\ desk' = A!Written(desk, step, text)
    BY <1>2 DEF A!TypeText
  <2>2. step \in A!Step
    BY <2>1, ActivePanel
  <2> HIDE DEF step
  <2>3. /\ text \in Text /\ text.of = desk.doc[step].of /\ text.ai = desk.doc[step].ai
        /\ text.raw = desk.doc[step].raw /\ text.whole = desk.doc[step].whole
    BY <2>2, DocIs, NewerIs
  <2> HIDE DEF text
  <2>4. TrueText(step, text)
    BY <2>2, <2>3 DEF TrueTexts, TrueText
  <2> QED BY <1>1, <2>1, <2>2, <2>3, <2>4, WrittenKeeps
<1>3. CASE A!Autosave \/ A!ManualSave
  <2>1. PICK p \in Panel, ok \in BOOLEAN : desk' = A!Synced(desk, p, ok)
    <3>1. CASE A!Autosave
      BY <1>1, <3>1 DEF A!Autosave, Desk
    <3>2. CASE A!ManualSave
      BY <3>2, ActivePanel DEF A!ManualSave
    <3> QED BY <1>3, <3>1, <3>2
  <2> QED BY <1>1, <2>1, SavedKeeps, SaveFailedKeeps DEF A!Synced
<1>4. CASE A!SaveContent
  <2>1. PICK p \in {[side |-> s, step |-> desk.tab[s]] : s \in A!Side} :
          /\ A!Visible(p)
          /\ desk' = [desk EXCEPT !.files[p.step][desk.chapter] = desk.doc[p.step],
                        !.dirty = IF A!Active(desk).step = p.step THEN @ \ {p.step} ELSE @]
    BY <1>4 DEF A!SaveContent
  <2> DEFINE marks == IF A!Active(desk).step = p.step THEN desk.dirty \ {p.step} ELSE desk.dirty
  <2>2. /\ p.side \in A!Side /\ p.step \in A!Step /\ p.step = desk.tab[p.side]
        /\ p.side = "left" \/ desk.split
    BY <1>1, <2>1 DEF A!Visible, A!Tab, Desk
  <2>3. marks \in SUBSET A!Step
    BY <1>1 DEF Desk
  <2>4. desk' = ContentSaved(desk, p.step, marks)
    BY <1>1, <2>1 DEF Desk, ContentSaved
  <2> HIDE DEF marks
  <2> QED BY <1>1, <2>2, <2>3, <2>4, ContentSavedKeeps
<1>5. CASE A!SwitchTab
  BY <1>1, <1>5, SwitchedKeeps DEF A!SwitchTab
<1>6. CASE A!ChangeChapter
  <2> DEFINE shown == FALSE
  <2>1. PICK c \in A!Chapter, ok \in BOOLEAN : desk' = A!Turned(desk, c, ok, shown)
    BY <1>6 DEF A!ChangeChapter
  <2>2. shown \in BOOLEAN
    OBVIOUS
  <2> HIDE DEF shown
  <2> QED BY <1>1, <2>1, <2>2, TurnedKeeps
<1>7. CASE A!Focus
  <2>1. PICK side \in A!Side :
          /\ desk.tab[side] # "settings"
          /\ desk' = [desk EXCEPT !.side = side, !.chapter = desk.at[side][desk.tab[side]]]
    BY <1>7 DEF A!Focus
  <2>2. desk.split /\ desk.at[side][desk.tab[side]] \in A!Chapter
    <3>1. desk.split
      BY <1>7 DEF A!Focus
    <3>2. desk.at[side][desk.tab[side]] \in A!Chapter
      BY <1>1, <2>1 DEF Desk, A!Tab
    <3> QED BY <3>1, <3>2
  <2> QED BY <1>1, <2>1, <2>2, FocusedKeeps
<1>8. CASE A!ToggleSplit
  BY <1>1, <1>8, SplitClosedKeeps, SplitOpenedKeeps DEF A!ToggleSplit
<1>9. CASE A!Close
  BY <1>1, <1>9, SavedAllKeeps DEF A!Close
<1>10. CASE A!GotoSearchResult
  BY <1>10, JumpedKeeps DEF A!GotoSearchResult, AiTyped, Assistants
<1> QED BY <1>2, <1>3, <1>4, <1>5, <1>6, <1>7, <1>8, <1>9, <1>10

\* The completed text that a confirmation takes is the one of the chapter.
LEMMA CompletedIsOfChapter ==
  ASSUME DeskInv, Filed(desk), Even(desk), NEW c \in A!Chapter
  PROVE  A!CompletedOf(c).of = c
<1>1. "completed" \in A!Step /\ desk.doc["completed"] \in Text /\ A!Side = {"left", "right"}
  BY DocIs DEF A!Step, A!Side
<1>2. desk.files["completed"][c].of = c
  BY <1>1 DEF Filed
<1>3. ASSUME \E s \in A!Side : desk.at[s]["completed"] = c, desk.doc["completed"].n > 0
      PROVE  desk.doc["completed"].of = c
  BY <1>1, <1>3 DEF Even, A!Unloaded, A!Blank, Filed
<1> QED BY <1>2, <1>3 DEF A!CompletedOf

\* The answers in a panel are about what its messages are about.
LEMMA AnswersOfPanel ==
  ASSUME RequestsInv, Box.answers # {} PROVE A!About(Box.answers) = Box.session
<1>1. \A r \in Box.answers : r.about = Box.session
  BY DEF RequestsInv, PanelIsKeyed
<1>2. \A x : x \in A!About(Box.answers) <=> x \in Box.session
  BY <1>1 DEF A!About
<1> QED BY <1>2

LEMMA AppliedIsTrue ==
  ASSUME DeskInv, RequestsInv, TrueTexts(desk), TrueAnswers, Filed(desk), Ready(desk),
         Even(desk), A!Apply
  PROVE  TrueText(ai.step, AppliedText)
<1> DEFINE step == ai.step
           c == desk.chapter
<1>1. /\ AiTyped /\ step \in A!Step /\ ApplySide \in A!Side
      /\ ai.key = <<c, step>> /\ desk.at[ApplySide][step] = c
      /\ desk.tab[ApplySide] = step /\ (ApplySide = "left" \/ desk.split)
      /\ AppliedText.of = IF Box.final THEN c ELSE desk.doc[step].of
  BY ApplyIs DEF RequestsInv, Box
<1>2. Box.answers # {}
  BY DEF A!Apply, Box
<1>3. c \in A!Chapter /\ ApplySide \in {"left", "right"}
  BY <1>1 DEF DeskInv, Shaped, Desk, A!Side
<1>4. TruePanel(c) /\ A!About(Box.answers) = Box.session
  BY <1>1, <1>2, <1>3, AnswersOfPanel DEF TrueAnswers
<1>5. CASE Box.final
  BY <1>1, <1>4, <1>5 DEF AiTyped, Box, AppliedText, TruePanel, TrueText, Apt
<1>6. CASE ~ Box.final
  <2>1. desk.doc[step].of # 0
    BY <1>1, <1>3 DEF Ready
  <2>2. desk.at["left"][step] = c
    BY <1>1, <1>3 DEF Even
  <2>3. desk.doc[step].of = c
    BY <1>1, <2>1, <2>2 DEF Filed, A!Unloaded, A!Blank
  <2>4. desk.doc[step] \in Text
    BY <1>1, DocIs
  <2> DEFINE about == desk.doc[step].ai \cup Box.session
  <2>5. AppliedText = [desk.doc[step] EXCEPT !.ai = about]
    BY <1>4, <1>6, <2>4 DEF AppliedText, Box, Text
  <2> HIDE DEF about
  <2>6. /\ AppliedText.of = c /\ AppliedText.ai = about
        /\ AppliedText.raw = desk.doc[step].raw /\ AppliedText.whole = desk.doc[step].whole
    BY <2>3, <2>4, <2>5 DEF Text
  <2>7. TrueText(step, desk.doc[step]) /\ Apt(step, c, Box.session)
    BY <1>1, <1>4 DEF TrueTexts, TruePanel
  <2>8. Apt(step, c, about)
    BY <2>3, <2>7 DEF TrueText, Apt, about
  <2>9. step = "summary" /\ desk.doc[step].whole => about = Early(c)
    BY <2>3, <2>7 DEF TrueText, Apt, about
  <2> HIDE DEF step, c
  <2> QED BY <2>3, <2>6, <2>7, <2>8, <2>9 DEF TrueText, step
<1> QED BY <1>5, <1>6

LEMMA ApplyKeepsTexts ==
  ASSUME DeskInv, RequestsInv, TrueTexts(desk), TrueAnswers, Filed(desk), Ready(desk),
         Even(desk), A!Apply
  PROVE  TrueTexts(desk')
<1> DEFINE text == A!Newer(AppliedText)
           d == A!Written(desk, ai.step, text)
           p == [side |-> ApplySide, step |-> ai.step]
<1>1. /\ ai.step \in A!Step /\ ApplySide \in A!Side /\ AppliedText \in Text
      /\ \E ok \in BOOLEAN : desk' = A!Synced(d, p, ok)
  BY ApplyIs DEF RequestsInv
<1>2. /\ text \in Text /\ text.of = AppliedText.of /\ text.ai = AppliedText.ai
      /\ text.raw = AppliedText.raw /\ text.whole = AppliedText.whole
  BY <1>1, NewerIs
<1>3. TrueText(ai.step, text)
  BY <1>2, AppliedIsTrue DEF TrueText
<1>4. Shaped(desk) /\ story.newest \in Newest /\ p \in Panel
  BY <1>1 DEF DeskInv, Story, Panel
<1> HIDE DEF text, p
<1>5. Shaped(d) /\ TrueTexts(d)
  BY <1>1, <1>2, <1>3, <1>4, WrittenKeeps
<1> HIDE DEF d
<1> QED BY <1>1, <1>4, <1>5, SavedKeeps, SaveFailedKeeps DEF A!Synced

LEMMA CollectedIsTrue ==
  ASSUME DeskInv, TrueTexts(desk), Filed(desk), Even(desk), A!ConfirmCollected
  PROVE  TrueTexts(desk')
<1> DEFINE c == desk.chapter
           text == CollectedText(c)
<1>1. ~ desk.split /\ desk.tab["left"] = "eval" /\ c <= Collected
  BY ConfirmCollectedIs
<1>2. PICK ok \in BOOLEAN :
        /\ ~ A!ConfirmRefused(ok)
        /\ desk' = A!Switched(Put(A!Brought(desk, "summary", c, ok), c, text), "summary", ok)
  BY ConfirmCollectedIs
<1> DEFINE d == A!Brought(desk, "summary", c, ok)
           e == Put(d, c, text)
<1>3. /\ Shaped(desk) /\ c \in A!Chapter /\ c \in Nat /\ "summary" \in A!Step
      /\ "summary" \in A!Tab /\ "eval" # "summary" /\ story.newest \in Newest
  <2>1. Shaped(desk) /\ c \in A!Chapter /\ story.newest \in Newest
    BY DEF DeskInv, Shaped, Desk, Story
  <2> QED BY <2>1 DEF A!Step, A!Tab, A!Chapter
<1>4. text \in Text /\ text.of = c
  BY <1>3, CollectedTextIs DEF CollectedText
<1>5. TrueText("summary", text)
  <2>1. A!CompletedOf(c).of = c
    BY <1>3, CompletedIsOfChapter
  <2>2. (1 .. (c - 1)) \cup {c} = 1 .. c
    BY <1>3 DEF A!Chapter
  <2>3. text.ai = {} /\ text.raw = 1 .. c
    BY <2>1, <2>2 DEF CollectedText
  <2>4. Early(c) = {} /\ Late(c) = 1 .. c
    BY <1>1 DEF Early, Late
  <2> QED BY <1>4, <2>3, <2>4 DEF TrueText, Apt
<1>6. /\ Shaped(d) /\ d.tab = desk.tab /\ d.split = desk.split /\ d.was = desk.was
      /\ d.side = desk.side /\ d.chapter = desk.chapter
      /\ (TrueTexts(desk) => TrueTexts(d))
  BY <1>1, <1>2, BroughtSummary
<1> HIDE DEF d, text
<1>7. /\ Shaped(e) /\ e.tab = d.tab /\ e.split = d.split /\ e.side = d.side /\ e.was = d.was
      /\ e.chapter = d.chapter /\ e.at["left"]["summary"] = c
      /\ TrueTexts(e)
  BY <1>3, <1>4, <1>5, <1>6, PutKeeps
<1> HIDE DEF e
<1>8. desk' = A!Switched(e, "summary", ok)
  BY <1>2 DEF d, e
<1> QED BY <1>3, <1>7, <1>8, SwitchedKeeps

\* A panel for a new request.
LEMMA AskedIsTrue ==
  ASSUME RequestsInv, TrueAnswers, story.requests \in Nat,
         NEW step \in A!Step, NEW box \in Boxes, desk'.chapter \in A!Chapter,
         A!Ask(step, box), answers' = answers,
         Apt(step, desk'.chapter, box.session),
         box.final => /\ desk'.chapter > Collected
                      /\ box.whole => /\ box.session = Early(desk'.chapter)
                                      /\ box.raws = Late(desk'.chapter)
  PROVE  TrueAnswers'
<1>1. /\ ai'.step = step /\ ai'.key = <<desk'.chapter, step>> /\ ai'.box[step] = box
  BY AskIs
<1>2. Box' = box
  BY <1>1 DEF Box
<1>3. ASSUME NEW k \in A!Chapter, (ai.key = <<k, ai.step>>)' PROVE TruePanel(k)'
  BY <1>1, <1>2, <1>3 DEF TruePanel, Apt
<1>4. \A r \in (answers.history \cup answers.dialogs)' : Apt(r.step, r.chapter, r.about)
  BY DEF TrueAnswers
<1> QED BY <1>3, <1>4 DEF TrueAnswers

\* The panel as it was, and no new answer in it.
LEMMA SamePanelIsTrue ==
  ASSUME RequestsInv, TrueAnswers, SameBoxes(ai'), ai'.step = ai.step, ai'.key = ai.key,
         \A r \in answers'.history \cup answers'.dialogs : Apt(r.step, r.chapter, r.about)
  PROVE  TrueAnswers'
<1>1. ai.step \in A!Step
  BY DEF RequestsInv, AiTyped, Assistants
<1>2. /\ Box'.session = Box.session
      /\ Box'.final => Box.final /\ Box'.raws = Box.raws /\ Box'.whole = Box.whole
  BY <1>1 DEF Box, SameBoxes
<1>3. ASSUME NEW k \in A!Chapter, (ai.key = <<k, ai.step>>)' PROVE TruePanel(k)'
  BY <1>2, <1>3 DEF TrueAnswers, TruePanel, Apt
<1> QED BY <1>3 DEF TrueAnswers

LEMMA DraftIsTrue ==
  ASSUME DeskInv, DeskInv', RequestsInv, TrueTexts(desk), TrueAnswers, Filed(desk),
         Ready(desk), Even(desk), "toolbar" \notin story'.causes, A!GenerateDraft
  PROVE  TrueTexts(desk') /\ TrueAnswers'
<1>1. /\ AiTyped /\ story \in Story /\ story.requests \in Nat /\ desk'.chapter \in A!Chapter
      /\ Shaped(desk) /\ desk.chapter \in A!Chapter
  BY DEF RequestsInv, DeskInv, Story, Shaped, Desk
<1>2. answers' = answers /\ desk.tab["left"] = "draft"
  BY DEF A!GenerateDraft
<1>3. PICK ok \in BOOLEAN :
        /\ desk' = A!Brought(desk, "completed", desk.chapter, ok)
        /\ \/ A!Did(0, 0, ok, {}) /\ UNCHANGED <<ai, workers>>
           \/ A!Ask("draft", AskedBox("draft", "draft")) /\ A!Asked(ok, A!StaleToolbar)
  BY DEF A!GenerateDraft, AskedBox
<1>4. "completed" \in A!Step /\ "draft" \in A!Step
  BY DEF A!Step
<1>5. /\ Shaped(desk') /\ desk'.tab = desk.tab /\ desk'.chapter = desk.chapter
      /\ TrueTexts(desk')
  BY <1>1, <1>3, <1>4, BroughtKeeps
<1>6. CASE UNCHANGED <<ai, workers>>
  BY <1>2, <1>5, <1>6 DEF TrueAnswers, TruePanel, Box, Apt
<1>7. CASE A!Ask("draft", AskedBox("draft", "draft")) /\ A!Asked(ok, A!StaleToolbar)
  <2> DEFINE box == AskedBox("draft", "draft")
             step == "draft"
  <2>1. box \in Boxes /\ box.session = {desk.doc["draft"].of} /\ ~ box.final
    BY <1>1, <1>4, AskedBoxIs DEF AiTyped
  <2>2. desk.doc["draft"].of = desk.chapter
    BY <1>1, <1>2, <1>4, <1>7, StaleToolbarIs DEF A!Asked, Story, Ready, Filed, A!Unloaded,
       A!Blank
  <2>3. Apt(step, desk'.chapter, box.session)
    BY <1>5, <2>1, <2>2 DEF Apt
  <2>4. A!Ask(step, box) /\ step \in A!Step
    BY <1>4, <1>7
  <2> HIDE DEF box, step
  <2>5. TrueAnswers'
    BY <1>1, <1>2, <2>1, <2>3, <2>4, AskedIsTrue
  <2> QED BY <1>5, <2>5
<1> QED BY <1>3, <1>6, <1>7

LEMMA TurnedIs ==
  ASSUME NEW d, Shaped(d), NEW c \in A!Chapter, NEW ok \in BOOLEAN, NEW shown \in BOOLEAN,
         NEW e, e = A!Turned(d, c, ok, shown)
  PROVE  /\ Shaped(e) /\ e.tab = d.tab /\ e.split = d.split
         /\ TrueTexts(d) => TrueTexts(e)
         /\ IF ok /\ ~ shown /\ A!Active(d).step # "settings"
            THEN e.chapter = c /\ e.at[d.side][A!Active(d).step] = c
            ELSE e.chapter = d.chapter /\ e.at = d.at
<1> DEFINE turned == A!Turned(d, c, ok, shown)
           newest == desk
           step == A!Active(d).step
<1>1. /\ Shaped(turned) /\ turned.tab = d.tab /\ turned.split = d.split
      /\ turned.side = d.side /\ turned.was = d.was
      /\ Even(d) => Even(turned)
      /\ TrueTexts(d) => TrueTexts(turned)
      /\ Even(d) /\ Filed(d) /\ Ready(d) => Filed(turned) /\ Ready(turned)
      /\ Even(d) /\ Filed(d) /\ Ready(d) /\ NewestKept(d, newest) => NewestKept(turned, newest)
      /\ IF ok /\ ~ shown /\ step # "settings"
         THEN turned.chapter = c /\ turned.at[d.side][step] = c
         ELSE turned.chapter = d.chapter /\ turned.at = d.at
  BY TurnedKeeps
<1>2. e = turned
  OBVIOUS
<1> HIDE DEF turned
<1> QED BY <1>1, <1>2

LEMMA EvaluationIsTrue ==
  ASSUME DeskInv, DeskInv', RequestsInv, TrueTexts(desk), TrueAnswers, Filed(desk),
         Ready(desk), Even(desk), "toolbar" \notin story'.causes, "open" \notin story'.causes,
         A!GenerateEvaluation
  PROVE  TrueTexts(desk') /\ TrueAnswers'
<1>1. /\ AiTyped /\ story \in Story /\ story.requests \in Nat /\ desk'.chapter \in A!Chapter
      /\ Shaped(desk) /\ desk \in Desk /\ desk.chapter \in A!Chapter /\ ai.shown \in BOOLEAN
  BY DEF RequestsInv, DeskInv, Story, Shaped, Desk, AiTyped, Assistants
<1>2. /\ ~ desk.split /\ desk.tab["left"] = "completed" /\ answers' = answers
      /\ A!Ask("eval", AskedBox("eval", "completed"))
  BY <1>1, GenerateEvaluationIs
<1>3. PICK ok \in BOOLEAN :
        /\ desk' = A!Turned(A!Switched(desk, "eval", ok), desk.chapter, ok, ai.shown)
        /\ A!Asked(ok, A!StaleToolbar \cup IF ai.shown THEN {"open"} ELSE {})
  BY <1>1, GenerateEvaluationIs
<1>4. ~ ai.shown /\ desk.chapter = desk.at["left"]["completed"]
  BY <1>1, <1>2, <1>3, StaleToolbarIs DEF A!Asked, Story
<1>5. "completed" \in A!Step /\ "eval" \in A!Step /\ "eval" \in A!Tab
  BY DEF A!Step, A!Tab
<1> DEFINE d == A!Switched(desk, "eval", ok)
<1>6. /\ Shaped(d) /\ TrueTexts(d)
      /\ (d.split \/ d.was # Nothing => desk.split \/ desk.was # Nothing)
      /\ (~ desk.split /\ desk.was = Nothing =>
            \/ ~ ok
            \/ d.tab["left"] = "eval")
  BY <1>1, <1>5, SwitchedKeeps
<1>7. /\ desk.was = Nothing /\ desk.side = "left" /\ d.split = FALSE /\ d.was = Nothing
      /\ d.side = "left"
  BY <1>1, <1>2, <1>6 DEF Shaped, Desk
<1>8. desk' = A!Turned(d, desk.chapter, ok, ai.shown)
  BY <1>3
<1>9. ~ ok => d.chapter = desk.chapter
  <2> SUFFICES ASSUME ~ ok PROVE d.chapter = desk.chapter
    OBVIOUS
  <2> DEFINE p == A!Active(desk)
  <2>1. p = [side |-> "left", step |-> "completed"] /\ p.step = "completed"
    BY <1>2, <1>7 DEF A!Active
  <2>2. p \in Panel
    BY <1>5, <2>1 DEF Panel, A!Side
  <2>3. desk.tab[desk.side] # "eval" /\ p.step # "settings"
    BY <1>2, <1>7, <2>1
  <2>4. d = A!Synced(desk, p, ok)
    BY <2>3 DEF A!Switched
  <2>5. d = A!SaveFailed(desk, p)
    BY <2>4 DEF A!Synced
  <2> HIDE DEF d, p
  <2> QED BY <1>1, <2>2, <2>5, SaveFailedIs
<1>10. ok => A!Active(d).step = "eval"
  <2>1. ok => d.tab["left"] = "eval"
    BY <1>2, <1>6, <1>7
  <2> HIDE DEF d
  <2> QED BY <1>7, <2>1 DEF A!Active
<1> HIDE DEF d
<1>11. Shaped(desk') /\ desk'.tab = d.tab /\ desk'.split = d.split /\ TrueTexts(desk')
  <2>1. Shaped(d) /\ TrueTexts(d) /\ desk.chapter \in A!Chapter /\ ai.shown \in BOOLEAN
    BY <1>1, <1>6
  <2> QED BY <2>1, <1>8, TurnedIs
<1> DEFINE step == A!Active(d).step
<1>14. IF ok /\ ~ ai.shown /\ step # "settings"
       THEN desk'.chapter = desk.chapter /\ desk'.at[d.side][step] = desk.chapter
       ELSE desk'.chapter = d.chapter /\ desk'.at = d.at
  <2>1. Shaped(d) /\ TrueTexts(d) /\ desk.chapter \in A!Chapter /\ ai.shown \in BOOLEAN
    BY <1>1, <1>6
  <2> QED BY <2>1, <1>8, TurnedIs
<1>12. desk'.chapter = desk.chapter
  BY <1>4, <1>9, <1>10, <1>14
<1>13. TrueAnswers'
  <2> DEFINE box == AskedBox("eval", "completed")
             eval == "eval"
  <2>1. box \in Boxes /\ box.session = {desk.doc["completed"].of} /\ ~ box.final
    BY <1>1, <1>5, AskedBoxIs DEF AiTyped
  <2>2. desk.doc["completed"].of = desk.chapter
    BY <1>2, <1>4, <1>5 DEF Ready, Filed, A!Unloaded, A!Blank
  <2>3. Apt(eval, desk'.chapter, box.session)
    BY <1>12, <2>1, <2>2 DEF Apt
  <2>4. A!Ask(eval, box) /\ eval \in A!Step
    BY <1>2, <1>5
  <2> HIDE DEF box, eval
  <2> QED BY <1>1, <1>2, <2>1, <2>3, <2>4, AskedIsTrue
<1> QED BY <1>11, <1>13

\* What a rolling confirmation asks for: the chapters that have left the window,
\* all of them if the summary before was whole.
LEMMA AskedForIsTrue ==
  ASSUME DeskInv, TrueTexts(desk), Filed(desk), Even(desk), desk.chapter > Collected
  PROVE  /\ A!AskedFor(desk.chapter) \subseteq Early(desk.chapter)
         /\ desk.chapter = Collected + 1 \/ A!Earlier(desk.chapter).whole =>
              A!AskedFor(desk.chapter) = Early(desk.chapter)
         /\ ((desk.chapter - Window + 1) .. (desk.chapter - 1))
              \cup {A!CompletedOf(desk.chapter).of} = Late(desk.chapter)
<1> DEFINE c == desk.chapter
           session == A!AskedFor(c)
           raws == ((c - Window + 1) .. (c - 1)) \cup {A!CompletedOf(c).of}
<1>1. /\ c \in A!Chapter /\ c \in Nat /\ Window \in Nat /\ Collected \in Nat
      /\ 1 <= Window /\ Window <= Collected /\ "summary" \in A!Step
  BY WindowAssumption DEF DeskInv, Shaped, Desk, A!Chapter, A!Step
<1>2. Early(c) = 1 .. (c - Window) /\ Late(c) = (c - Window + 1) .. c
  BY <1>1 DEF Early, Late
<1>3. raws = Late(c)
  BY <1>1, <1>2, CompletedIsOfChapter
<1>4. CASE c = Collected + 1
  BY <1>2, <1>3, <1>4 DEF A!AskedFor
<1>5. CASE c # Collected + 1
  <2> DEFINE before == A!Earlier(c)
  <2>1. c - 1 \in A!Chapter /\ c - 1 > Collected
    BY <1>1, <1>5, WindowAssumption DEF A!Chapter
  <2>2. before.of = c - 1 /\ TrueText("summary", before)
    BY <1>1, <2>1 DEF A!Earlier, Filed, TrueTexts
  <2>3. Early(c - 1) = 1 .. (c - 1 - Window)
    BY <1>1, <2>1 DEF Early
  <2>4. session = before.ai \cup {c - Window}
    BY <1>5 DEF A!AskedFor
  <2> HIDE DEF before, session
  <2>5. before.ai \subseteq 1 .. (c - 1 - Window)
    BY <2>2, <2>3 DEF TrueText, Apt
  <2>6. before.whole => before.ai = 1 .. (c - 1 - Window)
    BY <2>2, <2>3 DEF TrueText
  <2>7. \A x : x \in 1 .. (c - Window) <=> x \in (1 .. (c - 1 - Window)) \cup {c - Window}
    BY <1>1
  <2>8. session \subseteq 1 .. (c - Window)
    BY <2>4, <2>5, <2>7
  <2>9. before.whole => session = 1 .. (c - Window)
    BY <2>4, <2>6, <2>7
  <2> QED BY <1>2, <1>3, <1>5, <2>8, <2>9 DEF before, session
<1> QED BY <1>4, <1>5

LEMMA RollingIsTrue ==
  ASSUME DeskInv, DeskInv', RequestsInv, TrueTexts(desk), TrueAnswers, Filed(desk),
         Even(desk), A!ConfirmRolling
  PROVE  TrueTexts(desk') /\ TrueAnswers'
<1> DEFINE c == desk.chapter
<1>1. /\ story \in Story /\ story.requests \in Nat /\ desk'.chapter \in A!Chapter
      /\ c \in A!Chapter /\ Shaped(desk) /\ "summary" \in A!Step /\ story.newest \in Newest
  BY DEF DeskInv, Story, Shaped, Desk, A!Step
<1>2. /\ ~ desk.split /\ desk.tab["left"] = "eval" /\ c > Collected
      /\ A!Ask("summary", RollingBox) /\ answers' = answers
  BY ConfirmRollingIs
<1>3. PICK ok \in BOOLEAN :
        /\ ~ A!ConfirmRefused(ok)
        /\ desk' = A!Switched(A!AtBoth(A!Brought(desk, "summary", c, ok), "summary", c),
                              "summary", ok)
  BY ConfirmRollingIs
<1> DEFINE d == A!Brought(desk, "summary", c, ok)
           e == A!AtBoth(d, "summary", c)
<1>4. /\ Shaped(d) /\ d.tab = desk.tab /\ d.split = desk.split /\ d.was = desk.was
      /\ d.side = desk.side /\ d.chapter = desk.chapter
      /\ d.at["left"]["eval"] = desk.at["left"]["eval"] /\ d.at["left"]["summary"] = c
      /\ (Even(desk) => Even(d))
      /\ (TrueTexts(desk) => TrueTexts(d))
  BY <1>2, <1>3, BroughtSummary
<1> HIDE DEF d
<1>5. /\ Shaped(e) /\ e.tab = d.tab /\ e.split = d.split /\ e.side = d.side
      /\ e.was = d.was /\ e.chapter = d.chapter /\ e.files = d.files
      /\ (\A t \in A!Step : e.at["left"][t] = d.at["left"][t])
      /\ (Even(d) => Even(e))
      /\ (TrueTexts(d) => TrueTexts(e))
  BY <1>1, <1>4, AtBothKeeps
<1> HIDE DEF e
<1>6. desk' = A!Switched(e, "summary", ok)
  BY <1>3 DEF d, e
<1>7. e.at["left"]["eval"] = desk.at["left"]["eval"] /\ e.at["left"]["summary"] = c
  BY <1>4, <1>5 DEF A!Step
<1>8. desk'.chapter = c /\ TrueTexts(desk')
  BY <1>2, <1>4, <1>5, <1>6, <1>7, ShowSummaryKeeps
<1>9. /\ RollingBox \in Boxes /\ RollingBox.session = A!AskedFor(c)
      /\ RollingBox.raws = ((c - Window + 1) .. (c - 1)) \cup {A!CompletedOf(c).of}
      /\ (RollingBox.whole <=> (c = Collected + 1 \/ A!Earlier(c).whole))
  BY <1>2, RollingBoxIs
<1>10. /\ RollingBox.session \subseteq Early(c) /\ RollingBox.raws = Late(c)
       /\ (RollingBox.whole => RollingBox.session = Early(c))
  BY <1>2, <1>9, AskedForIsTrue
<1> DEFINE step == "summary"
           box == RollingBox
<1>11. Apt(step, desk'.chapter, box.session)
  BY <1>8, <1>10 DEF Apt
<1>12. step \in A!Step /\ A!Ask(step, box) /\ box \in Boxes
  BY <1>1, <1>2, <1>9
<1>13. box.final => /\ desk'.chapter > Collected
                    /\ box.whole => box.session = Early(desk'.chapter)
                                    /\ box.raws = Late(desk'.chapter)
  BY <1>2, <1>8, <1>10
<1> HIDE DEF step, box
<1>14. TrueAnswers'
  BY <1>1, <1>2, <1>11, <1>12, <1>13, AskedIsTrue
<1> QED BY <1>8, <1>14

\* The panel asks again: about what it asked about before.
LEMMA FeedbackIsTrue ==
  ASSUME DeskInv, RequestsInv, TrueAnswers, A!Feedback, "jumped" \notin story'.causes
  PROVE  desk' = desk /\ TrueAnswers'
<1> DEFINE step == ai.step
           box == ai.box[step]
<1>1. /\ desk' = desk /\ answers' = answers /\ A!Ask(step, box) /\ ai.shown
  BY DEF A!Feedback
<1>2. /\ step \in A!Step /\ box \in Boxes /\ story.requests \in Nat
      /\ desk.chapter \in A!Chapter /\ desk'.chapter \in A!Chapter
  BY <1>1 DEF RequestsInv, AiTyped, Assistants, DeskInv, Story, Shaped, Desk
<1>3. ai.key = <<desk.chapter, ai.step>>
  <2>1. "jumped" \in story'.causes \/ ai.key = <<desk.chapter, ai.step>>
    BY DEF A!Feedback, A!Asked, DeskInv, Story
  <2> QED BY <2>1
<1>4. TruePanel(desk.chapter)
  BY <1>2, <1>3 DEF TrueAnswers
<1>5. Apt(step, desk'.chapter, box.session)
  BY <1>1, <1>4 DEF TruePanel, Box
<1>6. box.final => /\ desk'.chapter > Collected
                   /\ box.whole => box.session = Early(desk'.chapter)
                                   /\ box.raws = Late(desk'.chapter)
  BY <1>1, <1>4 DEF TruePanel, Box
<1> HIDE DEF step, box
<1>7. TrueAnswers'
  BY <1>1, <1>2, <1>5, <1>6, AskedIsTrue
<1> QED BY <1>1, <1>7

\* The panel that opens is the one it was, or an empty one.
LEMMA OpenPanelIsTrue ==
  ASSUME DeskInv, RequestsInv, TrueAnswers, A!OpenPanel
  PROVE  desk' = desk /\ TrueAnswers'
<1> DEFINE step == desk.tab["left"]
           key == <<desk.chapter, step>>
           yes == TRUE
<1>1. /\ step # "settings" /\ desk' = desk /\ answers' = answers
      /\ ai' = IF ai.key = key THEN [ai EXCEPT !.shown = yes]
               ELSE [ai EXCEPT !.shown = yes, !.step = step, !.key = key,
                       !.box[step] = A!EmptyBox]
  BY DEF A!OpenPanel
<1>2. /\ desk.chapter \in A!Chapter /\ step \in A!Step /\ ai \in Assistants
      /\ ai.box \in [A!Step -> Boxes] /\ ai.step \in A!Step
  <2>1. "left" \in A!Side /\ desk.tab \in [A!Side -> A!Tab] /\ desk.chapter \in A!Chapter
    BY DEF DeskInv, Shaped, Desk, A!Side
  <2>2. step \in A!Step
    BY <1>1, <2>1 DEF A!Tab
  <2> QED BY <2>1, <2>2 DEF RequestsInv, AiTyped, Assistants
<1> HIDE DEF step, yes
<1>3. \A r \in (answers.history \cup answers.dialogs)' : Apt(r.step, r.chapter, r.about)
  BY <1>1 DEF TrueAnswers
<1>4. CASE ai.key = key
  BY <1>1, <1>2, <1>3, <1>4, SamePanelIsTrue DEF Assistants, SameBoxes
<1>5. CASE ai.key # key
  <2> DEFINE boxes == [ai.box EXCEPT ![step] = A!EmptyBox]
  <2>1. boxes[step] = A!EmptyBox
    BY <1>2
  <2>2. ai' = [ai EXCEPT !.shown = yes, !.step = step, !.key = key, !.box = boxes]
    BY <1>1, <1>2, <1>5 DEF Assistants
  <2> HIDE DEF boxes
  <2>3. ai'.step = step /\ ai'.box = boxes
    BY <1>2, <2>2 DEF Assistants
  <2>4. Box' = A!EmptyBox
    BY <2>1, <2>3 DEF Box
  <2>5. A!EmptyBox.session = {} /\ A!EmptyBox.final = FALSE
    BY DEF A!EmptyBox
  <2>6. ASSUME NEW k \in A!Chapter PROVE TruePanel(k)'
    BY <2>4, <2>5 DEF TruePanel, Apt
  <2> QED BY <1>1, <1>3, <2>6 DEF TrueAnswers
<1> QED BY <1>4, <1>5

\* The handlers of the panel and of the queue that make no new text.
LEMMA PanelIsTrue ==
  ASSUME DeskInv, RequestsInv, TrueAnswers,
         \/ A!StopGeneration \/ A!HidePanel \/ A!WorkerEnds \/ A!DeliverError \/ A!SettleDialog
  PROVE  desk' = desk /\ TrueAnswers'
<1>1. desk' = desk
  BY DEF A!StopGeneration, A!HidePanel, A!WorkerEnds, A!DeliverError, A!SettleDialog
<1>2. ai' = ai \/ ai' = A!Hidden \/ ai' = [ai EXCEPT !.active = Nothing]
  BY DEF A!StopGeneration, A!HidePanel, A!WorkerEnds, A!DeliverError, A!SettleDialog
<1>3. answers'.history \cup answers'.dialogs \subseteq answers.history \cup answers.dialogs
  <2>1. answers \in Fates
    BY DEF RequestsInv, AiTyped
  <2>2. CASE A!StopGeneration \/ A!HidePanel
    BY <2>1, <2>2 DEF A!StopGeneration, A!HidePanel, A!Cancelled, Fates
  <2>3. CASE A!WorkerEnds \/ A!DeliverError
    BY <2>1, <2>3 DEF A!WorkerEnds, A!DeliverError, Fates
  <2>4. CASE A!SettleDialog
    <3>1. PICK req \in answers.dialogs :
            \/ answers' = [answers EXCEPT !.dialogs = @ \ {req}, !.history = @ \cup {req}]
            \/ answers' = [answers EXCEPT !.dialogs = @ \ {req}, !.cancelled = @ \cup {req}]
      BY <2>4 DEF A!SettleDialog
    <3> QED BY <2>1, <3>1 DEF Fates
  <2> QED BY <2>2, <2>3, <2>4
<1>4. SameBoxes(ai') /\ ai'.step = ai.step /\ ai'.key = ai.key
  <2>1. AiTyped
    BY DEF RequestsInv
  <2>2. CASE ai' = ai
    BY <2>2 DEF SameBoxes
  <2>3. CASE ai' = A!Hidden
    BY <2>1, <2>3, HiddenIs
  <2>4. CASE ai' = [ai EXCEPT !.active = Nothing]
    BY <2>1, <2>4, IdleIs
  <2> QED BY <1>2, <2>2, <2>3, <2>4
<1>5. \A r \in answers'.history \cup answers'.dialogs : Apt(r.step, r.chapter, r.about)
  BY <1>3 DEF TrueAnswers
<1> QED BY <1>1, <1>4, <1>5, SamePanelIsTrue

\* An answer that is delivered is about what the panel asked for.
LEMMA DeliverIsTrue ==
  ASSUME NothingIsNoRequest, DeskInv, RequestsInv, TrueAnswers, A!Deliver
  PROVE  desk' = desk /\ TrueAnswers'
<1>1. PICK w \in workers :
        /\ desk' = desk
        /\ IF w.req # ai.active THEN ai' = ai /\ answers' = answers
           ELSE /\ \/ answers' = [answers EXCEPT !.history = @ \cup {w.req}]
                   \/ answers' = [answers EXCEPT !.dialogs = @ \cup {w.req}]
                /\ \/ ai' = [ai EXCEPT !.active = Nothing]
                   \/ ai' = [ai EXCEPT !.active = Nothing, !.box[ai.step].answers = @ \cup {w.req}]
  BY DEF A!Deliver, A!Expected
<1>2. /\ AiTyped /\ ai \in Assistants /\ ai.step \in A!Step /\ answers \in Fates
      /\ ai.box \in [A!Step -> Boxes] /\ Box \in Boxes /\ w.req \in Request
  BY DEF RequestsInv, AiTyped, Assistants, Box, Workers
<1>3. CASE w.req # ai.active
  BY <1>1, <1>3, SamePanelIsTrue DEF SameBoxes, TrueAnswers
<1>4. CASE w.req = ai.active
  <2> DEFINE r == w.req
  <2>1. /\ ai.key = <<r.chapter, r.step>> /\ r.about = Box.session /\ r.chapter \in A!Chapter
    BY <1>2, <1>4 DEF NothingIsNoRequest, RequestsInv, PanelIsKeyed, Request
  <2>2. r.step = ai.step
    BY <1>2, <2>1 DEF Request, NothingIsNoRequest, RequestsInv, PanelIsKeyed
  <2>3. Apt(r.step, r.chapter, r.about)
    BY <2>1, <2>2 DEF TrueAnswers, TruePanel
  <2>4. answers'.history \cup answers'.dialogs
          \subseteq (answers.history \cup answers.dialogs) \cup {r}
    BY <1>1, <1>2, <1>4 DEF Fates
  <2>5. \A x \in answers'.history \cup answers'.dialogs : Apt(x.step, x.chapter, x.about)
    BY <2>3, <2>4 DEF TrueAnswers
  <2>6. /\ ai'.step = ai.step /\ ai'.key = ai.key
        /\ Box'.session = Box.session /\ Box'.final = Box.final
        /\ Box'.raws = Box.raws /\ Box'.whole = Box.whole
    <3>1. CASE ai' = [ai EXCEPT !.active = Nothing]
      BY <1>2, <3>1 DEF Assistants, Box
    <3>2. CASE ai' = [ai EXCEPT !.active = Nothing, !.box[ai.step].answers = @ \cup {r}]
      <4> DEFINE more == Box.answers \cup {r}
                 one == [Box EXCEPT !.answers = more]
                 boxes == [ai.box EXCEPT ![ai.step] = one]
      <4>1. /\ one.session = Box.session /\ one.final = Box.final /\ one.raws = Box.raws
            /\ one.whole = Box.whole
        BY <1>2 DEF Boxes
      <4>2. boxes[ai.step] = one
        BY <1>2
      <4>3. ai' = [ai EXCEPT !.active = Nothing, !.box = boxes]
        BY <1>2, <3>2 DEF Assistants, Box, Boxes
      <4> HIDE DEF more, one, boxes
      <4>4. ai'.step = ai.step /\ ai'.key = ai.key /\ ai'.box = boxes
        BY <1>2, <4>3 DEF Assistants
      <4> QED BY <4>1, <4>2, <4>4 DEF Box
    <3> QED BY <1>1, <1>4, <3>1, <3>2
  <2>7. ASSUME NEW k \in A!Chapter, (ai.key = <<k, ai.step>>)' PROVE TruePanel(k)'
    BY <2>6, <2>7 DEF TrueAnswers, TruePanel, Apt
  <2> HIDE DEF r
  <2> QED BY <1>1, <2>5, <2>7 DEF TrueAnswers
<1> QED BY <1>3, <1>4

\* An answer that is applied, a confirmation that collects and one that fails.
LEMMA SettledIsTrue ==
  ASSUME DeskInv, RequestsInv, TrueTexts(desk), TrueAnswers, Filed(desk), Ready(desk),
         Even(desk), A!Apply \/ A!ConfirmCollected \/ A!ConfirmFails
  PROVE  TrueTexts(desk') /\ TrueAnswers'
<1>1. AiTyped /\ ai.step \in A!Step
  BY DEF RequestsInv, AiTyped, Assistants
<1>2. answers' = answers
  BY DEF A!Apply, A!ConfirmCollected, A!ConfirmFails
<1>3. \/ ai' = A!Hidden
      \/ ai' = [ai EXCEPT !.box[ai.step].final = FALSE, !.box[ai.step].raws = {}]
  BY <1>1, ApplyIs DEF A!ConfirmCollected, A!ConfirmFails
<1>4. SameBoxes(ai') /\ ai'.step = ai.step /\ ai'.key = ai.key
  BY <1>1, <1>3, HiddenIs, UnpreparedIs
<1>5. \A r \in answers'.history \cup answers'.dialogs : Apt(r.step, r.chapter, r.about)
  BY <1>2 DEF TrueAnswers
<1>6. TrueAnswers'
  BY <1>4, <1>5, SamePanelIsTrue
<1>7. CASE A!Apply
  BY <1>6, <1>7, ApplyKeepsTexts
<1>8. CASE A!ConfirmCollected
  BY <1>6, <1>8, CollectedIsTrue
<1>9. CASE A!ConfirmFails
  <2> DEFINE no == FALSE
             newest == desk
             d == A!Brought(desk, "summary", desk.chapter, no)
  <2>1. desk' = A!Brought(desk, "summary", desk.chapter, no)
    BY <1>9 DEF A!ConfirmFails
  <2>2. /\ Shaped(desk) /\ "summary" \in A!Step /\ desk.chapter \in A!Chapter /\ no \in BOOLEAN
    BY DEF DeskInv, Shaped, Desk, A!Step
  <2> HIDE DEF no
  <2>3. /\ Shaped(desk')
        /\ desk'.tab = desk.tab /\ desk'.split = desk.split /\ desk'.side = desk.side
        /\ desk'.was = desk.was
        /\ desk'.chapter = desk.chapter
        /\ (Even(desk) => Even(desk'))
        /\ (TrueTexts(desk) => TrueTexts(desk'))
    BY <2>1, <2>2, BroughtKeeps
  <2> QED BY <1>6, <2>3
<1> QED BY <1>7, <1>8, <1>9

LEMMA TruthStays ==
  ASSUME NothingIsNoRequest, DeskInv, DeskInv', RequestsInv, TruthInv, A!AssistantNext
  PROVE  TruthInv'
<1> SUFFICES ASSUME A!Never(Misled)' PROVE TrueTexts(desk') /\ TrueAnswers'
  BY DEF TruthInv
<1>1. /\ TrueTexts(desk) /\ TrueAnswers /\ Filed(desk) /\ Ready(desk) /\ Even(desk)
      /\ "toolbar" \notin story'.causes /\ "open" \notin story'.causes
      /\ "jumped" \notin story'.causes
  BY BeforeIsTrue
<1>2. CASE \/ A!TypeText \/ A!Autosave \/ A!ManualSave \/ A!SaveContent \/ A!SwitchTab
           \/ A!ChangeChapter \/ A!GotoSearchResult \/ A!Focus \/ A!ToggleSplit \/ A!Close
  <2>1. ai' = ai /\ answers' = answers
    BY <1>2 DEF A!TypeText, A!Autosave, A!ManualSave, A!SaveContent, A!SwitchTab,
                A!ChangeChapter, A!GotoSearchResult, A!Focus, A!ToggleSplit, A!Close
  <2>2. TrueAnswers'
    BY <1>1, <2>1 DEF TrueAnswers, TruePanel, Box
  <2> QED BY <1>1, <1>2, <2>2, WriterKeepsTexts DEF RequestsInv
<1>3. CASE \/ A!StopGeneration \/ A!HidePanel \/ A!WorkerEnds \/ A!DeliverError
           \/ A!SettleDialog
  BY <1>1, <1>3, PanelIsTrue
<1>4. CASE A!OpenPanel \/ A!Feedback \/ A!Deliver
  BY <1>1, <1>4, OpenPanelIsTrue, FeedbackIsTrue, DeliverIsTrue
<1>5. CASE A!GenerateDraft \/ A!GenerateEvaluation \/ A!ConfirmRolling
  BY <1>1, <1>5, DraftIsTrue, EvaluationIsTrue, RollingIsTrue
<1>6. CASE A!Apply \/ A!ConfirmCollected \/ A!ConfirmFails
  BY <1>1, <1>6, SettledIsTrue
<1> QED BY <1>2, <1>3, <1>4, <1>5, <1>6 DEF A!AssistantNext

LEMMA TruthOpens ==
  ASSUME NothingIsNoRequest, A!AssistantInit PROVE TruthInv
<1>1. PICK start \in A!Chapter, tab \in {"draft", "eval"}, other \in A!Chapter \cup {1} :
        LET at    == [t \in A!Step |-> IF t = tab THEN start ELSE other]
            texts == [t \in A!Step |-> [c \in A!Chapter |->
                        IF t = "summary" /\ c < start THEN A!Settled(c) ELSE A!Blank(c)]]
        IN desk = [tab |-> [s \in A!Side |-> IF s = "left" THEN tab ELSE "draft"],
                   split |-> FALSE, side |-> "left", chapter |-> start, was |-> Nothing,
                   at |-> [s \in A!Side |-> at],
                   doc |-> [t \in A!Step |-> IF t = tab THEN texts[t][start] ELSE A!Unloaded],
                   dirty |-> {}, timers |-> {}, files |-> texts]
  BY DEF A!AssistantInit
<1> DEFINE texts == [t \in A!Step |-> [c \in A!Chapter |->
                       IF t = "summary" /\ c < start THEN A!Settled(c) ELSE A!Blank(c)]]
           doc == [t \in A!Step |-> IF t = tab THEN texts[t][start] ELSE A!Unloaded]
<1>2. desk.doc = doc /\ desk.files = texts
  BY <1>1
<1>3. ASSUME NEW t \in A!Step, NEW c \in A!Chapter \cup {0} PROVE TrueText(t, A!Blank(c))
  BY DEF A!Blank, TrueText, Apt
<1>4. ASSUME NEW c \in A!Chapter PROVE TrueText("summary", A!Settled(c))
  BY DEF A!Settled, TrueText, Apt, Early, Late
<1>5. \A t \in A!Step, c \in A!Chapter : TrueText(t, texts[t][c])
  BY <1>3, <1>4
<1>6. \A t \in A!Step : TrueText(t, doc[t])
  BY <1>3, <1>5 DEF A!Unloaded
<1> HIDE DEF texts, doc
<1>7. TrueTexts(desk)
  BY <1>2, <1>5, <1>6 DEF TrueTexts
<1>8. ai.key = Nothing /\ answers.history = {} /\ answers.dialogs = {} /\ ai.step \in A!Step
  BY DEF A!AssistantInit, A!Step
<1>9. \A k \in A!Chapter : ai.key # <<k, ai.step>>
  BY <1>8 DEF NothingIsNoRequest
<1> QED BY <1>7, <1>8, <1>9 DEF TruthInv, TrueAnswers

\* What the invariant says of answers and summaries.
LEMMA TruthShows ==
  ASSUME DeskInv, TruthInv
  PROVE  A!AnswersReachTheirChapter /\ A!SummariesAreWhole
<1> SUFFICES ASSUME A!Never(Misled)
             PROVE  /\ \A t \in {"draft", "eval"} :
                         /\ \A r \in answers.history : r.step = t => r.about \subseteq {r.chapter}
                         /\ \A c \in A!Chapter : desk.files[t][c].ai \subseteq {c}
                    /\ \A c \in A!Chapter :
                         LET s == desk.files["summary"][c] IN
                         s.whole => s.ai \cup s.raw = 1 .. c /\ s.ai \cap s.raw = {}
  BY DEF A!AnswersReachTheirChapter, A!SummariesAreWhole, Misled
<1>1. TrueTexts(desk) /\ TrueAnswers
  BY DEF TruthInv
<1>2. Filed(desk)
  BY FiledUnless DEF A!Never, Misled
<1>3. ASSUME NEW t \in {"draft", "eval"}
      PROVE  /\ \A r \in answers.history : r.step = t => r.about \subseteq {r.chapter}
             /\ \A c \in A!Chapter : desk.files[t][c].ai \subseteq {c}
  BY <1>1, <1>2 DEF A!Step, TrueAnswers, Apt, TrueTexts, TrueText, Filed
<1>4. ASSUME NEW c \in A!Chapter, desk.files["summary"][c].whole
      PROVE  LET s == desk.files["summary"][c] IN
             s.ai \cup s.raw = 1 .. c /\ s.ai \cap s.raw = {}
  <2> DEFINE s == desk.files["summary"][c]
  <2>1. "summary" \in A!Step /\ c \in Nat /\ Window \in Nat /\ Collected \in Nat
          /\ 1 <= Window /\ Window <= Collected
    BY WindowAssumption DEF A!Step, A!Chapter
  <2>2. s.of = c /\ TrueText("summary", s)
    BY <1>1, <1>2, <2>1 DEF TrueTexts, Filed
  <2>3. s.ai = Early(c) /\ s.raw = Late(c)
    BY <1>4, <2>2 DEF TrueText
  <2>4. (\A x : x \in Early(c) \cup Late(c) <=> x \in 1 .. c) /\ Early(c) \cap Late(c) = {}
    <3>1. CASE c <= Collected
      BY <3>1 DEF Early, Late
    <3>2. CASE c > Collected
      BY <2>1, <3>2 DEF Early, Late
    <3> QED BY <2>1, <3>1, <3>2
  <2>5. Early(c) \cup Late(c) = 1 .. c
    BY <2>4
  <2> HIDE DEF s
  <2>6. s.ai \cup s.raw = 1 .. c /\ s.ai \cap s.raw = {}
    BY <2>3, <2>4, <2>5
  <2> QED BY <2>6 DEF s
<1> QED BY <1>3, <1>4

\* The window of the assistant stands still while the documents are synchronized.
AssistantInv == DeskInv /\ RequestsInv /\ AnswersAreKeyed /\ TruthInv

LEMMA AssistantOpens ==
  ASSUME NothingIsNoRequest, WritersInit PROVE AssistantInv
<1>1. A!AssistantInit
  BY DEF WritersInit
<1> QED BY <1>1, DeskOpens, RequestsOpen, KeyedOpens, TruthOpens DEF AssistantInv

LEMMA AssistantStays ==
  ASSUME NothingIsNoRequest, AssistantInv, [WritersNext]_<<situation, syncVars, assisted>>
  PROVE  AssistantInv'
<1>1. CASE A!AssistantNext
  BY <1>1, DeskStays, RequestsStay, KeyedStays, TruthStays DEF AssistantInv, RequestsInv
<1>2. CASE UNCHANGED assisted
  <2>1. /\ desk' = desk /\ ai' = ai /\ workers' = workers /\ answers' = answers
        /\ story' = story
    BY <1>2 DEF assisted
  <2>2. DeskInv'
    BY <2>1 DEF AssistantInv, DeskInv, CausesAreTold, NeverSplit, TextsAreFiled,
                NewestIsKept, A!Never
  <2>3. RequestsInv'
    BY <2>1 DEF AssistantInv, RequestsInv, AiTyped, PanelIsKeyed, Box, Numbered, Answered
  <2>5. AnswersAreKeyed'
    BY <2>1 DEF AssistantInv, AnswersAreKeyed, Box
  <2>4. TruthInv'
    BY <2>1 DEF AssistantInv, TruthInv, A!Never, TrueAnswers, TruePanel, Box
  <2> QED BY <2>2, <2>3, <2>4, <2>5 DEF AssistantInv
<1> QED BY <1>1, <1>2 DEF WritersNext

\* In the window of the assistant a text stays in its chapter, unless the panels of
\* a step stood apart or the button of a panel wrote to the chapter of the toolbar;
\* and nothing typed is lost while the window was never split.
THEOREM AssistantKeepsTheTexts == NothingIsNoRequest => (WritersSpec => []AssistantKeepsTexts)
<1> SUFFICES ASSUME NothingIsNoRequest PROVE WritersSpec => []AssistantKeepsTexts
  OBVIOUS
<1>1. WritersInit => AssistantInv
  BY AssistantOpens
<1>2. AssistantInv /\ [WritersNext]_<<situation, syncVars, assisted>> => AssistantInv'
  BY AssistantStays
<1>3. AssistantInv => AssistantKeepsTexts
  BY DeskKeepsTexts DEF AssistantInv, AssistantKeepsTexts
<1> QED BY <1>1, <1>2, <1>3, PTL DEF WritersSpec

\* Every request of the assistant ends once, its answer reaches the chapter it is
\* about, and a whole summary has every chapter once.
THEOREM AnswersStayTrue == NothingIsNoRequest => (WritersSpec => []AnswersAreTrue)
<1> SUFFICES ASSUME NothingIsNoRequest PROVE WritersSpec => []AnswersAreTrue
  OBVIOUS
<1>1. WritersInit => AssistantInv
  BY AssistantOpens
<1>2. AssistantInv /\ [WritersNext]_<<situation, syncVars, assisted>> => AssistantInv'
  BY AssistantStays
<1>3. AssistantInv => AnswersAreTrue
  BY RequestsEndOnce, TruthShows DEF AssistantInv, AnswersAreTrue
<1> QED BY <1>1, <1>2, <1>3, PTL DEF WritersSpec
=============================================================================
