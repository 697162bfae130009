--------------------------- MODULE PromptInsertion ---------------------------
(***************************************************************************)
(* background/prompt-reuse-commands.js, content/prompt-reuse.js and        *)
(* adapter/chatgpt-composer.js: the user presses Insert in the board or in *)
(* an extension page; the worker checks the tab and sends the text to the  *)
(* page, whose adapter types it into the draft and reads the draft back.   *)
(* Nothing is retried: what is shown must be true whatever the user types, *)
(* wherever the page goes, and whichever of worker, page and message dies. *)
(* One tab; a draft is the sequence of its pieces; offsets are positions   *)
(* between them; an operation is one press.                                *)
(***************************************************************************)
EXTENDS Naturals, SequencesExt

CONSTANTS Ops,        \* presses, each used once
          Urls,
          MaxDraft,   \* bound: pieces in a draft
          MaxDisturbances, \* bound: edits, navigations, reloads, restarts, ...
          None

VARIABLES op,        \* per press: None, or where it stands and what is shown for it
          mail,      \* presses whose message is on its way to the page
          run,       \* insertions between typing and reading back
          replies,   \* answers on their way to the worker
          page,      \* the document: its url, draft, composition, adapter and hold
          consented, disturbances,
          touched    \* history: presses whose text was ever in a draft

vars == <<op, mail, run, replies, page, consented, disturbances, touched>>
quiet == <<consented, disturbances>>

Typed == "typed"
Statuses == {"inserted", "failed", "uncertain"}

(* busy is the press the adapter works on; attempted, that it ever did,    *)
(* pending, the insertions of the document, of older adapters too.         *)
FreshPage(url) == [url |-> url, draft |-> <<>>, composing |-> FALSE, busy |-> None,
                   attempted |-> FALSE, pending |-> {}, held |-> FALSE]

Start(urls) ==
    /\ op = [o \in Ops |-> None]
    /\ mail = {} /\ run = [o \in Ops |-> None] /\ replies = {}
    /\ \E url \in urls : page = FreshPage(url)
    /\ consented = TRUE /\ disturbances = 0
    /\ touched = {}

Init == Start(Urls)

Shows(o, status) == [op EXCEPT ![o].stage = "over", ![o].shown = status]
At(o, stage) == op[o] # None /\ op[o].stage = stage

-----------------------------------------------------------------------------
(* A press names the url the requester sees and a fresh operation id. *)
Press(o) ==
    /\ op[o] = None
    /\ op' = [op EXCEPT ![o] = [stage |-> "asked", url |-> page.url, shown |-> None]]
    /\ UNCHANGED <<mail, run, replies, page, quiet, touched>>

(* #insert up to the message: consent, the tab and the selection are       *)
(* current.  An error is shown as uncertain, a page that moved as failed   *)
(* to an extension page and as uncertain to the board.                     *)
Check(o) ==
    /\ At(o, "asked")
    /\ \/ consented /\ page.url = op[o].url /\ op' = [op EXCEPT ![o].stage = "checked"]
       \/ consented /\ page.url # op[o].url /\ op' = Shows(o, "failed")
       \/ op' = Shows(o, "uncertain")
    /\ UNCHANGED <<mail, run, replies, page, quiet, touched>>

Send(o) ==
    /\ At(o, "checked")
    /\ op' = [op EXCEPT ![o].stage = "sent"]
    /\ mail' = mail \cup {o}
    /\ UNCHANGED <<run, replies, page, quiet, touched>>

Reply(o, status) == [op |-> o, status |-> status]

(* The answer counts only while the two seconds last. *)
Answered(o, status) ==
    /\ replies' = replies \ {Reply(o, status)}
    /\ op' = IF At(o, "sent") THEN Shows(o, status) ELSE op
    /\ UNCHANGED <<mail, run, page, quiet, touched>>
Answer(o) == \E status \in Statuses : Reply(o, status) \in replies /\ Answered(o, status)

(* Two seconds pass, or the message channel closes. *)
NoAnswer(o) ==
    /\ At(o, "sent")
    /\ op' = Shows(o, "uncertain")
    /\ UNCHANGED <<mail, run, replies, page, quiet, touched>>

-----------------------------------------------------------------------------
(* The page. *)
ReachableAnywhere(o) == o \in Ops  \* mutant: the page does not compare urls
Reachable(o) == op[o].url = page.url

MayType(o) ==
    /\ ~page.held
    /\ page.busy = None
    /\ Reachable(o)
    /\ ~page.composing
    /\ Len(page.draft) < MaxDraft

Refuse(o) ==
    /\ o \in mail
    /\ ~MayType(o)
    /\ mail' = mail \ {o}
    /\ replies' = replies \cup {Reply(o, "failed")}
    /\ page' = IF page.held THEN page ELSE [page EXCEPT !.attempted = TRUE]
    /\ UNCHANGED <<op, run, quiet, touched>>

(* The editor accepts the text where the caret is or was, or does not. *)
Insert(o) ==
    /\ o \in mail
    /\ MayType(o)
    /\ mail' = mail \ {o}
    /\ \E i \in 1..(Len(page.draft) + 1), accepted \in BOOLEAN :
          LET expected == InsertAt(page.draft, i, o)
          IN /\ page' = [page EXCEPT !.draft = IF accepted THEN expected ELSE @,
                                     !.busy = o, !.attempted = TRUE, !.pending = @ \cup {o}]
             /\ run' = [run EXCEPT ![o] = [before |-> page.draft, expected |-> expected,
                                           accepted |-> accepted]]
             /\ touched' = IF accepted THEN touched \cup {o} ELSE touched
    /\ UNCHANGED <<op, replies, quiet>>

Outcome(o) ==
    IF Reachable(o) /\ run[o].accepted /\ page.draft = run[o].expected THEN "inserted"
    ELSE IF page.draft = run[o].before /\ ~run[o].accepted THEN "failed"
    ELSE "uncertain"

(* Thirty-two milliseconds later the draft is read back. *)
ReadBack(o) ==
    /\ run[o] # None
    /\ replies' = replies \cup {Reply(o, Outcome(o))}
    /\ run' = [run EXCEPT ![o] = None]
    /\ page' = [page EXCEPT !.pending = @ \ {o}, !.busy = IF @ = o THEN None ELSE @]
    /\ UNCHANGED <<op, mail, quiet, touched>>

-----------------------------------------------------------------------------
(* Disturbances. *)
Disturb == disturbances < MaxDisturbances /\ disturbances' = disturbances + 1

(* The user types, undoes, or sends the draft away; composes text; the     *)
(* conversation changes in place.                                          *)
Edit ==
    /\ Disturb
    /\ \/ Len(page.draft) < MaxDraft /\ page' = [page EXCEPT !.draft = Append(@, Typed)]
       \/ page.draft # <<>> /\ page' = [page EXCEPT !.draft = Front(@)]
       \/ page.draft # <<>> /\ page' = [page EXCEPT !.draft = <<>>]
       \/ page' = [page EXCEPT !.composing = ~@]
       \/ \E url \in Urls \ {page.url} : page' = [page EXCEPT !.url = url]
    /\ UNCHANGED <<op, mail, run, replies, consented, touched>>

(* A new document in the tab: what ran in the old one never answers. *)
Reload ==
    /\ Disturb
    /\ \E url \in Urls : page' = FreshPage(url)
    /\ run' = [o \in Ops |-> None]
    /\ UNCHANGED <<op, mail, replies, consented, touched>>

(* The content script is injected again: a new adapter in the same         *)
(* document; the old one's insertion still reads back.                     *)
Reinject ==
    /\ Disturb
    /\ page' = [page EXCEPT !.busy = None]
    /\ UNCHANGED <<op, mail, run, replies, consented, touched>>

(* The worker dies: the requesters' calls fail, what was sent arrives. *)
Restart ==
    /\ Disturb
    /\ op' = [o \in Ops |-> IF op[o] # None /\ op[o].stage # "over"
                            THEN [op[o] EXCEPT !.stage = "over", !.shown = "uncertain"] ELSE op[o]]
    /\ replies' = {}
    /\ UNCHANGED <<mail, run, page, consented, touched>>

Lost ==
    /\ Disturb
    /\ \/ \E o \in mail : mail' = mail \ {o} /\ UNCHANGED replies
       \/ \E r \in replies : replies' = replies \ {r} /\ UNCHANGED mail
    /\ UNCHANGED <<op, run, page, consented, touched>>

Consent ==
    /\ Disturb
    /\ consented' = ~consented
    /\ UNCHANGED <<op, mail, run, replies, page, touched>>

(* DOCUMENT_HOLD: only a document in which nothing was ever attempted. *)
Hold ==
    /\ Disturb
    /\ ~page.held /\ ~page.attempted
    /\ page' = [page EXCEPT !.held = TRUE]
    /\ UNCHANGED <<op, mail, run, replies, consented, touched>>
Release ==
    /\ page.held
    /\ page' = [page EXCEPT !.held = FALSE]
    /\ UNCHANGED <<op, mail, run, replies, quiet, touched>>

Work(o) == Check(o) \/ Send(o) \/ Answer(o) \/ NoAnswer(o)
Next ==
    \/ \E o \in Ops : Press(o) \/ Work(o) \/ Refuse(o) \/ Insert(o) \/ ReadBack(o)
    \/ Edit \/ Reload \/ Reinject \/ Restart \/ Lost \/ Consent \/ Hold \/ Release

Spec == Init /\ [][Next]_vars
Fairness == \A o \in Ops : WF_vars(Check(o)) /\ WF_vars(Send(o)) /\ WF_vars(NoAnswer(o))
FairSpec == Spec /\ Fairness

-----------------------------------------------------------------------------
TypeOK ==
    /\ \A o \in Ops : op[o] # None =>
          /\ op[o].stage \in {"asked", "checked", "sent", "over"} /\ op[o].url \in Urls
          /\ op[o].shown \in IF op[o].stage = "over" THEN Statuses ELSE {None}
    /\ mail \subseteq Ops /\ touched \subseteq Ops
    /\ page.draft \in BoundedSeq(Ops \cup {Typed}, MaxDraft)
    /\ page.pending = {o \in Ops : run[o] # None}

(* Whoever is told that the text could not be inserted may insert it again *)
(* by hand: it was in no draft and will be in none, late as the page may   *)
(* answer.                                                                 *)
FailedIsUntouched == \A o \in Ops : (op[o] # None /\ op[o].shown = "failed") =>
    /\ o \notin touched /\ o \notin mail

(* "Inserted" is said only of text that was seen in the draft, where it    *)
(* was put, with the draft around it as it was and in the conversation     *)
(* that was shown when it was pressed.                                     *)
InsertedIsExact ==
    [][\A o \in Ops : (run[o] # None /\ Reply(o, "inserted") \in replies' \ replies) =>
          /\ o \in touched /\ page.url = op[o].url
          /\ \E i \in 1..Len(page.draft) : page.draft[i] = o /\ RemoveAt(page.draft, i) = run[o].before]_vars

(* A text enters only a draft of the conversation it was pressed for,      *)
(* wherever the page went while the message was on its way.                *)
RightConversation ==
    [][\A o \in touched' \ touched : page.url = op[o].url]_vars

(* While a document is held as empty no insertion runs in it and its draft *)
(* carries no text of a press.                                             *)
HeldIsEmpty == page.held => /\ page.pending = {} /\ page.busy = None
                            /\ \A i \in DOMAIN page.draft : page.draft[i] = Typed

(* Every press gets its answer. *)
EveryPressIsAnswered == \A o \in Ops : (op[o] # None) ~> (op[o] # None /\ op[o].stage = "over")
=============================================================================
