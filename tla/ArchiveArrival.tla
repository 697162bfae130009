---------------------------- MODULE ArchiveArrival ----------------------------
(***************************************************************************)
(* background/archive-arrival.js and ui/archive-arrival.js: a prompt       *)
(* surface asks for a history item to be opened in the archive page.  The  *)
(* worker queues the requests, finds or creates the one archive tab of the *)
(* window and leaves an intent for it; the page claims the intent, asks    *)
(* for it to be qualified while it navigates, and reports the result.      *)
(* Surfaces leave, the archive tab reloads, navigates away or closes, the  *)
(* searched data changes, the worker restarts: each between any two steps. *)
(***************************************************************************)
EXTENDS Naturals, Sequences

CONSTANTS Intents,         \* presses of "open in PAIA", each from a surface of its own
          Docs,            \* bound: documents the archive tab shows one after the other, 1..n
          MaxDisturbances, \* bound: what the user and the browser do meanwhile
          Timer,           \* whether the time limit of an intent may run out
          None

VARIABLES here,     \* per intent: its surface is still where it was
          valid,    \* per intent: what was searched has not changed
          queue,    \* the worker: intents whose issue has not ended
          stage,    \* where the issue of the first of them stands
          target,   \* per intent: the tab chosen for it, or 0
          pending,  \* per tab: the intent left for it, or None
          claim,    \* per intent: the document that claimed it, or 0
          qualified,
          answer,   \* per intent: None, "waiting", or what its surface was told
          tab,      \* the archive tab: its number, or 0
          doc,      \* its document
          home,     \* whether that document is the archive page
          page,     \* per document: where its receiver stands
          call,     \* per document: its request to the worker, or None
          told,     \* changes of surfaces and tabs the worker has not heard of
          given,    \* history: per intent, the documents it was handed to
          shown,    \* history: per document, the intent it navigated to last
          disturbances

surfaces == <<here, valid>>
worker == <<queue, stage, target, pending, claim, qualified, answer>>
browser == <<tab, doc, home, told>>
history == <<given, shown>>
vars == <<surfaces, worker, browser, page, call, history, disturbances>>

ArchiveTabs == 1..Docs
Asleep == [pc |-> "none", again |-> FALSE, intent |-> None, status |-> None]

Init ==
    /\ here = [i \in Intents |-> TRUE] /\ valid = [i \in Intents |-> TRUE]
    /\ queue = <<>> /\ stage = "check"
    /\ target = [i \in Intents |-> 0] /\ pending = [t \in ArchiveTabs |-> None]
    /\ claim = [i \in Intents |-> 0] /\ qualified = [i \in Intents |-> FALSE]
    /\ answer = [i \in Intents |-> None]
    /\ tab = 0 /\ doc = 0 /\ home = FALSE
    /\ page = [d \in 1..Docs |-> Asleep] /\ call = [d \in 1..Docs |-> None]
    /\ told = {}
    /\ given = [i \in Intents |-> {}] /\ shown = [d \in 1..Docs |-> None]
    /\ disturbances = 0

-----------------------------------------------------------------------------
Kept(i) == target[i] # 0 /\ pending[target[i]] = i

(* finish: only the entry that is still pending is answered. *)
Finish(i, status) ==
    IF Kept(i)
    THEN /\ pending' = [pending EXCEPT ![target[i]] = None]
         /\ answer' = [answer EXCEPT ![i] = status]
    ELSE UNCHANGED <<pending, answer>>

Press(i) ==
    /\ answer[i] = None
    /\ answer' = [answer EXCEPT ![i] = "waiting"]
    /\ queue' = Append(queue, i)
    /\ UNCHANGED <<surfaces, stage, target, pending, claim, qualified, browser, page, call, history,
                   disturbances>>

(* The issue of an intent, one await after the other. *)
Leave(i, status) ==
    /\ queue' = Tail(queue)
    /\ stage' = "check"
    /\ answer' = [answer EXCEPT ![i] = status]

IssueCheck ==
    /\ queue # <<>> /\ stage \in {"check", "search", "recheck"}
    /\ LET i == Head(queue) IN
         IF IF stage = "search" THEN valid[i] ELSE here[i]
         THEN /\ stage' = [check |-> "search", search |-> "recheck", recheck |-> "tab"][stage]
              /\ UNCHANGED <<queue, answer>>
         ELSE Leave(i, "refused")
    /\ UNCHANGED <<surfaces, target, pending, claim, qualified, browser, page, call, history,
                   disturbances>>

(* The one archive tab of the window is found, or created if the browser   *)
(* can: its number is that of its first document.                          *)
OpenPage(d) == page' = [page EXCEPT ![d] = [Asleep EXCEPT !.pc = "booting"]]

IssueTab ==
    /\ queue # <<>> /\ stage = "tab"
    /\ IF tab # 0 /\ home
       THEN /\ target' = [target EXCEPT ![Head(queue)] = tab]
            /\ UNCHANGED <<tab, doc, home, page>>
            /\ stage' = "bind" /\ UNCHANGED <<queue, answer>>
       ELSE \/ /\ doc < Docs
               /\ doc' = doc + 1 /\ tab' = doc + 1 /\ home' = TRUE
               /\ OpenPage(doc + 1)
               /\ target' = [target EXCEPT ![Head(queue)] = doc + 1]
               /\ stage' = "bind" /\ UNCHANGED <<queue, answer>>
            \/ Leave(Head(queue), "refused") /\ UNCHANGED <<tab, doc, home, page, target>>
    /\ UNCHANGED <<surfaces, pending, claim, qualified, told, call, history, disturbances>>

(* The last check of the surface, then the intent replaces an older one. *)
IssueBind ==
    /\ queue # <<>> /\ stage = "bind"
    /\ LET i == Head(queue)
           old == pending[target[i]]
       IN IF here[i]
          THEN /\ pending' = [pending EXCEPT ![target[i]] = i]
               /\ answer' = IF old = None THEN answer ELSE [answer EXCEPT ![old] = "cancelled"]
               /\ stage' = "show" /\ UNCHANGED queue
          ELSE Leave(i, "refused") /\ UNCHANGED pending
    /\ UNCHANGED <<surfaces, target, claim, qualified, browser, page, call, history, disturbances>>

(* The tab is brought to the front and its page is woken: a receiver that  *)
(* is busy will ask again.                                                 *)
WakeOnlyIdle(d) == page' = [page EXCEPT ![d].pc = IF @ = "idle" THEN "ask" ELSE @] \* mutant
Wake(d) == page' = [page EXCEPT ![d] =
    IF @.pc = "idle" THEN [@ EXCEPT !.pc = "ask"] ELSE [@ EXCEPT !.again = TRUE]]

IssueShow ==
    /\ queue # <<>> /\ stage = "show"
    /\ LET i == Head(queue) IN
         /\ IF tab = target[i]
            THEN /\ IF Kept(i) /\ home THEN Wake(doc) ELSE UNCHANGED page
                 /\ UNCHANGED <<pending, answer>>
            ELSE Finish(i, "unavailable") /\ UNCHANGED page
         /\ queue' = Tail(queue) /\ stage' = "check"
    /\ UNCHANGED <<surfaces, target, claim, qualified, browser, call, history, disturbances>>

Expire(i) ==
    /\ Timer /\ Kept(i)
    /\ Finish(i, "unknown")
    /\ UNCHANGED <<surfaces, queue, stage, target, claim, qualified, browser, page, call, history,
                   disturbances>>

-----------------------------------------------------------------------------
(* The receiver in a document of the archive page. *)
Alive(d) == d = doc /\ tab # 0 /\ home

Request(d, kind) == call' = [call EXCEPT ![d] = [kind |-> kind, stage |-> "sent", intent |-> page[d].intent]]
Enter(d, pc) == page' = [page EXCEPT ![d].pc = pc]

Boot(d) ==
    /\ Alive(d) /\ page[d].pc = "booting"
    /\ Enter(d, "ask")
    /\ UNCHANGED <<surfaces, worker, browser, call, history, disturbances>>

AskReady(d) ==
    /\ Alive(d) /\ page[d].pc = "ask"
    /\ page' = [page EXCEPT ![d] = [Asleep EXCEPT !.pc = "asking"]]
    /\ Request(d, "READY")
    /\ UNCHANGED <<surfaces, worker, browser, history, disturbances>>

(* arrive: the user may keep the page, or it asks for qualification. *)
Arrive(d) ==
    /\ Alive(d) /\ page[d].pc = "arriving"
    /\ \/ Enter(d, "qualifying") /\ Request(d, "QUALIFY")
       \/ page' = [page EXCEPT ![d].pc = "report", ![d].status = "cancelled"] /\ UNCHANGED call
    /\ UNCHANGED <<surfaces, worker, browser, history, disturbances>>

Navigate(d) ==
    /\ Alive(d) /\ page[d].pc = "moving"
    /\ \/ /\ page' = [page EXCEPT ![d].pc = "report", ![d].status = "opened"]
          /\ shown' = [shown EXCEPT ![d] = page[d].intent]
       \/ /\ page' = [page EXCEPT ![d].pc = "report", ![d].status = "unavailable"]
          /\ UNCHANGED shown
    /\ UNCHANGED <<surfaces, worker, browser, call, given, disturbances>>

Report(d) ==
    /\ Alive(d) /\ page[d].pc = "report"
    /\ Enter(d, "reporting") /\ Request(d, "RESULT")
    /\ UNCHANGED <<surfaces, worker, browser, history, disturbances>>

(* The loop ends unless the page was woken meanwhile. *)
Rest(p) == [p EXCEPT !.pc = IF p.again THEN "ask" ELSE "idle", !.intent = None, !.status = None]

(* An answer reaches the document if it still exists. *)
Hear(d, ok) ==
    /\ call' = [call EXCEPT ![d] = None]
    /\ page' = IF ~Alive(d) THEN page
               ELSE [page EXCEPT ![d] =
                 CASE @.pc = "asking" /\ ok -> [@ EXCEPT !.pc = "arriving", !.intent = call[d].intent]
                   [] @.pc = "qualifying" -> IF ok THEN [@ EXCEPT !.pc = "moving"]
                                             ELSE [@ EXCEPT !.pc = "report", !.status = "unavailable"]
                   [] OTHER -> Rest(@)]

-----------------------------------------------------------------------------
(* The worker's handlers: what is decided before their awaits, and after.  *)
Sent(d, kind) == call[d] # None /\ call[d].kind = kind /\ call[d].stage = "sent"
Checked(d, kind) == call[d] # None /\ call[d].kind = kind /\ call[d].stage # "sent"
Check(d, i) == call' = [call EXCEPT ![d].stage = "check", ![d].intent = i]
(* receiver: the tab of the sender still shows the archive page; nobody    *)
(* asks whether the document that sent the message is still the one in it. *)
Receiver(d) == tab # 0 /\ home /\ d >= tab

(* READY: the claim is reserved before anything is awaited. *)
HandleReady(d) ==
    /\ Sent(d, "READY")
    /\ LET i == IF Receiver(d) THEN pending[tab] ELSE None IN
         IF i # None /\ claim[i] = 0
         THEN /\ claim' = [claim EXCEPT ![i] = d]
              /\ Check(d, i) /\ UNCHANGED page
         ELSE Hear(d, FALSE) /\ UNCHANGED claim
    /\ UNCHANGED <<surfaces, queue, stage, target, pending, qualified, answer, browser, history,
                   disturbances>>

AnswerReady(d) ==
    /\ Checked(d, "READY")
    /\ LET i == call[d].intent IN
         /\ IF here[i] THEN UNCHANGED <<pending, answer>> ELSE Finish(i, "unavailable")
         /\ Hear(d, here[i] /\ Kept(i))
         /\ given' = IF here[i] /\ Kept(i) THEN [given EXCEPT ![i] = @ \cup {d}] ELSE given
    /\ UNCHANGED <<surfaces, queue, stage, target, claim, qualified, browser, shown, disturbances>>

(* QUALIFY and RESULT come only from the document that claimed it. *)
Mine(d) == LET i == call[d].intent IN Receiver(d) /\ pending[tab] = i /\ claim[i] = d

HandleQualify(d) ==
    /\ Sent(d, "QUALIFY")
    /\ IF Mine(d) /\ ~qualified[call[d].intent]
       THEN Check(d, call[d].intent) /\ UNCHANGED page
       ELSE Hear(d, FALSE)
    /\ UNCHANGED <<surfaces, worker, browser, history, disturbances>>

(* What is asked one await after the other: sourceCurrent, the search,      *)
(* sourceCurrent again, and at last targetCurrent, whose answer is followed *)
(* at once by the comparison with the intent left for the tab.              *)
Holds(d) ==
    LET i == call[d].intent IN
      CASE call[d].stage \in {"check", "recheck"} -> here[i]
        [] call[d].stage = "search" -> valid[i]
        [] call[d].stage = "target" -> Alive(d) /\ Kept(i)

CheckFurther(d) ==
    /\ Checked(d, "QUALIFY") \/ Checked(d, "RESULT")
    /\ call[d].stage # "target" /\ Holds(d)
    /\ call' = [call EXCEPT ![d].stage =
                   [check |-> "search", search |-> "recheck", recheck |-> "target"][@]]
    /\ UNCHANGED <<surfaces, worker, browser, page, history, disturbances>>

AnswerQualify(d) ==
    /\ Checked(d, "QUALIFY")
    /\ call[d].stage = "target" \/ ~Holds(d)
    /\ qualified' = [qualified EXCEPT ![call[d].intent] = @ \/ Holds(d)]
    /\ Hear(d, Holds(d))
    /\ UNCHANGED <<surfaces, queue, stage, target, pending, claim, answer, browser, history,
                   disturbances>>

ResultTrusted(d) == \* mutant
    /\ Sent(d, "RESULT")
    /\ IF Mine(d) THEN Finish(call[d].intent, page[d].status) ELSE UNCHANGED <<pending, answer>>
    /\ Hear(d, TRUE)
    /\ UNCHANGED <<surfaces, queue, stage, target, claim, qualified, browser, history, disturbances>>
HandleResult(d) ==
    /\ Sent(d, "RESULT")
    /\ LET i == call[d].intent
           opened == page[d].status = "opened"
       IN CASE Mine(d) /\ opened /\ qualified[i] ->
                 Check(d, i) /\ UNCHANGED <<page, pending, answer>>
            [] Mine(d) /\ ~opened -> Finish(i, page[d].status) /\ Hear(d, TRUE)
            [] OTHER -> Hear(d, FALSE) /\ UNCHANGED <<pending, answer>>
    /\ UNCHANGED <<surfaces, queue, stage, target, claim, qualified, browser, history, disturbances>>

AnswerResult(d) ==
    /\ Checked(d, "RESULT")
    /\ call[d].stage = "target" \/ ~Holds(d)
    /\ Finish(call[d].intent, IF Holds(d) THEN "opened" ELSE "unavailable")
    /\ Hear(d, TRUE)
    /\ UNCHANGED <<surfaces, queue, stage, target, claim, qualified, browser, history, disturbances>>

-----------------------------------------------------------------------------
(* What happens meanwhile; the worker hears of it later. *)
Disturb == disturbances < MaxDisturbances /\ disturbances' = disturbances + 1

SurfaceLeaves(i) ==
    /\ answer[i] = "waiting" /\ here[i] /\ Disturb
    /\ here' = [here EXCEPT ![i] = FALSE]
    /\ told' = told \cup {<<"surface", i>>}
    /\ UNCHANGED <<valid, worker, tab, doc, home, page, call, history>>

DataChanges ==
    /\ Disturb
    /\ valid' = [i \in Intents |-> valid[i] /\ answer[i] = None]
    /\ UNCHANGED <<here, worker, browser, page, call, history>>

Reload ==
    /\ tab # 0 /\ home /\ doc < Docs /\ Disturb
    /\ doc' = doc + 1
    /\ OpenPage(doc + 1)
    /\ told' = told \cup {<<"loading", tab>>}
    /\ UNCHANGED <<surfaces, worker, tab, home, call, history>>

Close ==
    /\ tab # 0 /\ Disturb
    /\ tab' = 0 /\ home' = FALSE
    /\ told' = told \cup {<<"gone", tab>>}
    /\ UNCHANGED <<surfaces, worker, doc, page, call, history>>

Away ==
    /\ tab # 0 /\ home /\ Disturb
    /\ home' = FALSE
    /\ told' = told \cup {<<"gone", tab>>}
    /\ UNCHANGED <<surfaces, worker, tab, doc, page, call, history>>

(* changedTab and removeTab: a reload cancels only a claimed intent whose  *)
(* document is gone.                                                       *)
Hit(e, i) ==
    \/ e[1] = "surface" /\ e[2] = i
    \/ e[1] = "gone" /\ e[2] = target[i]
    \/ e[1] = "loading" /\ e[2] = target[i] /\ claim[i] # 0 /\ ~Alive(claim[i])

Told(e) ==
    /\ e \in told
    /\ told' = told \ {e}
    /\ LET hit == {i \in Intents : Kept(i) /\ Hit(e, i)} IN
         /\ pending' = [t \in ArchiveTabs |-> IF pending[t] \in hit THEN None ELSE pending[t]]
         /\ answer' = [i \in Intents |-> IF i \in hit THEN "cancelled" ELSE answer[i]]
    /\ UNCHANGED <<surfaces, queue, stage, target, claim, qualified, tab, doc, home, page, call,
                   history, disturbances>>

(* The worker restarts: intents and handlers are forgotten, callers fail. *)
Restart ==
    /\ Disturb
    /\ queue' = <<>> /\ stage' = "check"
    /\ pending' = [t \in ArchiveTabs |-> None]
    /\ answer' = [i \in Intents |-> IF answer[i] = "waiting" THEN "lost" ELSE answer[i]]
    /\ call' = [d \in 1..Docs |-> None]
    /\ page' = [d \in 1..Docs |->
                  CASE page[d].pc = "qualifying" -> [page[d] EXCEPT !.pc = "report", !.status = "unavailable"]
                    [] page[d].pc \in {"asking", "reporting"} -> Rest(page[d])
                    [] OTHER -> page[d]]
    /\ UNCHANGED <<surfaces, target, claim, qualified, browser, history>>

-----------------------------------------------------------------------------
Issue == IssueCheck \/ IssueTab \/ IssueBind \/ IssueShow
Handle(d) == \/ HandleReady(d) \/ AnswerReady(d) \/ HandleQualify(d) \/ CheckFurther(d)
             \/ AnswerQualify(d) \/ HandleResult(d) \/ AnswerResult(d)
Receive(d) == Boot(d) \/ AskReady(d) \/ Arrive(d) \/ Navigate(d) \/ Report(d)

Next ==
    \/ Issue \/ DataChanges \/ Reload \/ Close \/ Away \/ Restart
    \/ \E i \in Intents : Press(i) \/ Expire(i) \/ SurfaceLeaves(i)
    \/ \E d \in 1..Docs : Handle(d) \/ Receive(d)
    \/ \E e \in told : Told(e)

Spec == Init /\ [][Next]_vars

(* The worker and the page run, the browser reports what happened, timers  *)
(* run out.                                                                *)
Fairness ==
    /\ WF_vars(Issue) /\ WF_vars(\E d \in 1..Docs : Handle(d) \/ Receive(d))
    /\ WF_vars(\E e \in told : Told(e)) /\ WF_vars(\E i \in Intents : Expire(i))
FairSpec == Spec /\ Fairness

-----------------------------------------------------------------------------
Answers == {None, "waiting", "refused", "cancelled", "unavailable", "unknown", "opened", "lost"}

TypeOK ==
    /\ \A i \in Intents : answer[i] \in Answers /\ target[i] \in 0..Docs /\ claim[i] \in 0..Docs
    /\ \A t \in ArchiveTabs : pending[t] # None => target[pending[t]] = t /\ answer[pending[t]] = "waiting"
    /\ \A d \in 1..Docs : call[d] # None => call[d].kind \in {"READY", "QUALIFY", "RESULT"}
    /\ tab <= doc

(* An intent holds a query and a place: it is handed to one document only, *)
(* however many pages wake, reload or ask at once.                         *)
GivenOnce == \A i \in Intents : \A d, e \in given[i] : d = e

(* A surface is told "opened" only if the page it opened still stands and  *)
(* shows that very item, not one that was pressed later.                   *)
OpenedIsShown ==
    [][\A i \in Intents : answer[i] # "opened" /\ answer'[i] = "opened" =>
         claim[i] = doc /\ Alive(doc) /\ shown[doc] = i]_vars

(* Every press is answered: the wake-up that meets a receiver which is     *)
(* still starting or busy is not lost, and when a document claims an       *)
(* intent and dies the time limit answers in its place.                    *)
EveryPressIsAnswered == \A i \in Intents : (answer[i] = "waiting") ~> (answer[i] # "waiting")
=============================================================================
