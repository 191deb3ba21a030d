------------------------------- MODULE MCWriters -------------------------------
(* The devices of MCDocumentSync in two situations: one of them is only read  *)
(* on, and processes are killed and leases expire; or the writer types on     *)
(* both, whose processes live and hold their leases. And, in behaviours of    *)
(* its own, the window in which the writer works with the assistant.          *)
EXTENDS MCDocumentSync

CONSTANTS Chapters, Collected, Window, Nothing, MaxActs, MaxFaults

\* The summaries of later chapters leave fewer chapters raw than the last plain
\* collection has.
ASSUME WindowAssumption ==
  Chapters \in Nat /\ Collected \in Nat /\ Window \in 1 .. Collected

VARIABLES desk, ai, workers, answers, story, situation

A == INSTANCE AssistantMode WITH kept <- answers, past <- story

assisted == <<desk, ai, workers, answers, story>>

\* The assistant opens at the last chapter.
WritersInit ==
  /\ situation \in {"documents", "assisted"}
  /\ SyncInit /\ A!AssistantInit
  /\ IF situation = "assisted" THEN desk.chapter = Chapters /\ writers # Devices
     ELSE desk.chapter = 1 /\ desk.tab["left"] = "draft"

\* With two writers, processes live and hold their leases.
WritersNext ==
  /\ UNCHANGED situation
  /\ \/ /\ situation = "documents"
        /\ SyncNext
        /\ writers = Devices => UNCHANGED <<now, crashes>>
        /\ UNCHANGED assisted
     \/ situation = "assisted" /\ A!AssistantNext /\ UNCHANGED syncVars

WritersSpec == WritersInit /\ [][WritersNext]_<<situation, syncVars, assisted>>

\* In the window of the assistant a text stays in its chapter and nothing typed is
\* lost.
AssistantKeepsTexts ==
  situation = "assisted" => A!TextStaysInItsChapter /\ A!NothingTypedIsLost

\* Every request of the assistant ends once, its answer reaches the chapter it is
\* about, and a summary has every chapter once.
AnswersAreTrue ==
  situation = "assisted" =>
    A!AnswersEndOnce /\ A!AnswersReachTheirChapter /\ A!SummariesAreWhole
=============================================================================
