------------------------------- MODULE MCPages -------------------------------
(***************************************************************************)
(* Safety of what runs between the worker and the pages: replacement of    *)
(* the scripts of a chat (CaptureRecovery, whose own properties are        *)
(* checked), its capture (Capture), insertion of prompts (PromptInsertion) *)
(* and opening of the archive (ArchiveArrival).  They share no state, so   *)
(* part says which of them moves; the others stay as they were             *)
(* initialised.                                                            *)
(***************************************************************************)
EXTENDS CaptureRecovery, TLC

CONSTANTS
  Chats, Msgs, Owner, MaxText, MaxEpoch, MaxWire, MaxMoves,   \* Capture
  Ops, Urls, MaxDraft, MaxDisturbances,                       \* PromptInsertion
  Intents, Docs, Timer, MaxArrivalDisturbances,               \* ArchiveArrival
  a, b, c, d, m1, m2
VARIABLES part,
  chat, reader, cycle, wire, store, misled, moves,
  op, mail, run, replies, draftPage, consented, disturbances, touched,
  here, valid, queue, stage, target, pending, claim, qualified, answer, tab, doc, home,
  archivePage, call, told, given, shown, arrivalDisturbances

captureVars == <<chat, reader, cycle, wire, store, misled, moves>>
promptVars == <<op, mail, run, replies, draftPage, consented, disturbances, touched>>
arrivalVars == <<here, valid, queue, stage, target, pending, claim, qualified, answer, tab, doc,
                 home, archivePage, call, told, given, shown, arrivalDisturbances>>

Capture == INSTANCE Capture WITH page <- chat
Prompt == INSTANCE PromptInsertion WITH page <- draftPage
Arrival == INSTANCE ArchiveArrival
  WITH page <- archivePage, disturbances <- arrivalDisturbances,
       MaxDisturbances <- MaxArrivalDisturbances

\* Two chats with a message each; a permutation that swaps both, and the tabs,
\* presses and surfaces with them.
MCOwner == m1 :> c @@ m2 :> d
Swap == a :> b @@ b :> a @@ c :> d @@ d :> c @@ m1 :> m2 @@ m2 :> m1
Symmetry == {p \in Permutations({a, b, c, d, m1, m2}) : p = Swap \/ \A x \in DOMAIN p : p[x] = x}

-----------------------------------------------------------------------------
PartsInit ==
  /\ part \in {"capture", "recovery", "prompt", "arrival"}
  /\ Init /\ (part # "recovery" => \A t \in Tabs : page[t].runtime = "absent")
  /\ Capture!Start(IF part = "capture" THEN Chats ELSE {None})
  /\ Prompt!Start(IF part = "prompt" THEN Urls ELSE {None})
  /\ Arrival!Init
RecoveryStep ==
  part = "recovery" /\ Next /\ UNCHANGED <<part, captureVars, promptVars, arrivalVars>>
CaptureStep ==
  part = "capture" /\ Capture!Next /\ UNCHANGED <<part, vars, promptVars, arrivalVars>>
PromptStep ==
  part = "prompt" /\ Prompt!Next /\ UNCHANGED <<part, vars, captureVars, arrivalVars>>
ArrivalStep ==
  part = "arrival" /\ Arrival!Next /\ UNCHANGED <<part, vars, captureVars, promptVars>>
PartsSpec ==
  PartsInit /\ [][RecoveryStep \/ CaptureStep \/ PromptStep \/ ArrivalStep]_
                  <<part, vars, captureVars, promptVars, arrivalVars>>

-----------------------------------------------------------------------------
\* What is archived was settled text, read under the consent that still holds
\* and filed under its own chat, and a purged source does not come back
\* (SettledTextOnly, FiledUnderItsChat, PurgedStaysPurged,
\* ReadUnderPresentConsent of Capture).
CaptureIsFaithful ==
  /\ [](/\ Capture!TypeOK /\ Capture!SettledTextOnly /\ Capture!FiledUnderItsChat
        /\ Capture!PurgedStaysPurged)
  /\ Capture!ReadUnderPresentConsent

\* What a press is answered is true of the draft, and its text enters only the
\* conversation it was pressed for (FailedIsUntouched, HeldIsEmpty,
\* InsertedIsExact, RightConversation of PromptInsertion).
AnswersAreTrue ==
  /\ [](Prompt!TypeOK /\ Prompt!FailedIsUntouched /\ Prompt!HeldIsEmpty)
  /\ Prompt!InsertedIsExact /\ Prompt!RightConversation

\* An intent is given to one document, and "opened" is said of the item that
\* is shown (GivenOnce, OpenedIsShown of ArchiveArrival).
ArrivalIsExact == [](Arrival!TypeOK /\ Arrival!GivenOnce) /\ Arrival!OpenedIsShown
=============================================================================
