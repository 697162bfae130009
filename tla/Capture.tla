------------------------------- MODULE Capture -------------------------------
(***************************************************************************)
(* Archiving a chat page: the content script's cycle (content/capture.js), *)
(* the page adapter's stability and identity gates                         *)
(* (adapter/chatgpt-adapter.js), the worker's admission                    *)
(* (background/service-worker.js) and the store's source operation         *)
(* (core/indexed-store.js), over one tab whose page navigates without      *)
(* loading, edits messages while they are read, is frozen and thawed, and  *)
(* whose requests and answers are late or lost.                            *)
(*                                                                         *)
(* A text is a version number.  Elapsed time is abstracted: a collection   *)
(* finds any part of the unchanged candidates old enough.                  *)
(***************************************************************************)
EXTENDS Naturals, FiniteSets, FiniteSetsExt

CONSTANTS
  Chats, Msgs,
  Owner,      \* the chat a message belongs to
  MaxText,    \* bound: edits of the messages
  MaxEpoch,   \* bound: changes of the capture setting
  MaxWire,    \* bound: requests on their way at a time
  MaxMoves,   \* bound: navigations, freezes, lost answers, updates of the extension
  None

VARIABLES
  page,      \* route, displayed chat, texts, frozen
  reader,    \* the controller and its adapter
  cycle,     \* the running cycle
  wire,      \* CAPTURE requests not handled yet
  store,     \* records, ignored sources, setting, extension version
  misled,    \* history: messages first seen while the page showed another chat
  moves

vars == <<page, reader, cycle, wire, store, misled, moves>>

Idle == [pc |-> "idle", fresh |-> TRUE, status |-> None, chat |-> None, left |-> {}, req |-> 0]

\* A fresh controller: nothing seen, nothing bound, not watching.
Installed(v) ==
  [version |-> v, stopped |-> FALSE, watching |-> FALSE, last |-> None,
   pending |-> [m \in Msgs |-> None], bound |-> [m \in Msgs |-> None]]

Start(chats) ==
  /\ \E c \in chats : page = [route |-> c, shown |-> c, text |-> [m \in Msgs |-> 0],
                              rev |-> [m \in Msgs |-> 0], frozen |-> FALSE]
  /\ reader = Installed(0)
  /\ cycle = Idle
  /\ wire = {}
  /\ store = [records |-> {}, ignored |-> {}, enabled |-> TRUE, epoch |-> 0, version |-> 0]
  /\ misled = {}
  /\ moves = 0

Init == Start(Chats)

-----------------------------------------------------------------------------
(* Adapter *)

NoPending == [m \in Msgs |-> None]
Forget(r) == [r EXCEPT !.pending = NoPending]
StopWatching(r) == Forget([r EXCEPT !.watching = FALSE])

Visible == {m \in Msgs : Owner[m] = page.shown}
\* Seen before, and under another chat: the page still shows what it left.
Stale(m) == reader.bound[m] \notin {None, page.route}

Binds(m) == m \in Visible /\ page.route # None /\ ~Stale(m)

\* collect: what is visible is bound to the route, an unchanged message that is
\* old enough is read, any other one starts to wait.  A message of another chat
\* among them, or a new route, makes all of them wait from the beginning.
Waiting == IF page.route # reader.last THEN NoPending ELSE reader.pending
Unmoved(m) == Waiting[m] # None /\ Waiting[m].rev = page.rev[m]

Collected(old) ==
  LET seen == [reader EXCEPT !.watching = TRUE, !.last = page.route,
                             !.bound = [m \in Msgs |-> IF Binds(m) THEN page.route ELSE @[m]]]
  IN  IF page.route = None \/ \E m \in Visible : Stale(m)
      THEN [reader |-> Forget(seen), left |-> {}]
      ELSE [reader |-> [seen EXCEPT !.pending = [m \in Msgs |->
              IF m \in Visible /\ ~Unmoved(m) THEN [rev |-> page.rev[m], text |-> page.text[m]] ELSE Waiting[m]]],
            left |-> {[msg |-> m, text |-> page.text[m], was |-> Waiting[m].text, at |-> store.epoch] : m \in old}]

-----------------------------------------------------------------------------
(* The cycle of the content script *)

Move == moves < MaxMoves /\ moves' = moves + 1

Alive == ~reader.stopped /\ ~page.frozen
Rest(r) == reader' = r /\ cycle' = Idle

\* One question is on its way at a time, and the next cycle starts only when
\* this one has ended; the answer is as old as the page takes to look at it.
AskStatus ==
  /\ Alive /\ cycle.pc = "idle"
  /\ cycle' = [Idle EXCEPT !.pc = "answered",
                          !.status = [enabled |-> store.enabled, epoch |-> store.epoch, version |-> store.version]]
  /\ UNCHANGED <<page, reader, wire, store, misled, moves>>

\* No answer in time, a worker that slept, or an error.
StatusLost ==
  /\ Move /\ Alive /\ cycle.pc = "idle"
  /\ reader' = StopWatching(reader)
  /\ UNCHANGED <<page, cycle, wire, store, misled>>

Superseded ==
  /\ cycle.pc = "answered" /\ ~(cycle.fresh /\ Alive)
  /\ Rest(reader)
  /\ UNCHANGED <<page, wire, store, misled, moves>>

Refused ==
  /\ cycle.pc = "answered" /\ cycle.fresh /\ Alive
  /\ \/ /\ cycle.status.version # reader.version
        /\ Rest([StopWatching(reader) EXCEPT !.stopped = TRUE])
     \/ /\ cycle.status.version = reader.version /\ ~cycle.status.enabled
        /\ Rest(StopWatching(reader))
  /\ UNCHANGED <<page, wire, store, misled, moves>>

Collect(old) ==
  /\ cycle.pc = "answered" /\ cycle.fresh /\ Alive
  /\ cycle.status.version = reader.version /\ cycle.status.enabled
  /\ old \subseteq {m \in Visible : Unmoved(m)}
  /\ reader' = Collected(old).reader
  /\ cycle' = IF Collected(old).left = {} THEN Idle
              ELSE [cycle EXCEPT !.pc = "batch", !.chat = page.route, !.left = Collected(old).left]
  /\ misled' = misled \cup (IF page.shown = page.route THEN {}
                            ELSE {m \in Visible : page.route # None /\ reader.bound[m] = None})
  /\ UNCHANGED <<page, wire, store, moves>>

FreeId == CHOOSE i \in 1 .. MaxWire + 1 : \A q \in wire : q.id # i
SameChat == page.route = cycle.chat

\* Before every batch the script looks at itself and at the page's route.
SendBatch ==
  /\ cycle.pc = "batch"
  /\ IF ~(cycle.fresh /\ Alive /\ SameChat)
     THEN Rest(Forget(reader)) /\ UNCHANGED wire
     ELSE /\ Cardinality(wire) < MaxWire
          /\ \E b \in SUBSET cycle.left \ {{}} :
               /\ wire' = wire \cup {[id |-> FreeId, chat |-> cycle.chat, epoch |-> cycle.status.epoch,
                                      version |-> reader.version, items |-> b]}
               /\ cycle' = [cycle EXCEPT !.pc = "sent", !.left = @ \ b, !.req = FreeId]
          /\ UNCHANGED reader
  /\ UNCHANGED <<page, store, misled, moves>>

NeverGivesUp == FALSE /\ UNCHANGED vars   \* mutant
\* The page gives up on an answer; the request may be handled all the same.
GiveUp ==
  /\ cycle.pc = "sent"
  /\ Rest(reader)
  /\ UNCHANGED <<page, wire, store, misled, moves>>

Receive(code) ==
  IF ~(cycle.fresh /\ Alive) THEN Rest(reader)
  ELSE CASE code = "ok" -> /\ cycle' = IF cycle.left = {} THEN Idle ELSE [cycle EXCEPT !.pc = "batch", !.req = 0]
                           /\ UNCHANGED reader
         [] code = "PAUSED" -> Rest(StopWatching(reader))
         [] code = "STALE_CAPTURE" -> Rest(Forget(reader))
         [] code = "CONTEXT_INVALIDATED" -> Rest([StopWatching(reader) EXCEPT !.stopped = TRUE])

-----------------------------------------------------------------------------
(* Worker and store *)

Source(q, x) == <<q.chat, x.msg>>
AnyEpoch(q) ==   \* mutant
  IF q.version # store.version THEN "CONTEXT_INVALIDATED" ELSE IF ~store.enabled THEN "PAUSED" ELSE "ok"
Verdict(q) ==
  CASE q.version # store.version -> "CONTEXT_INVALIDATED"
    [] q.version = store.version /\ ~store.enabled -> "PAUSED"
    [] q.version = store.version /\ store.enabled /\ q.epoch # store.epoch -> "STALE_CAPTURE"
    [] OTHER -> "ok"

\* A source that was purged is never archived again.
Admitted(q) == {x \in q.items : Source(q, x) \notin store.ignored}

Archived(q) ==
  [store EXCEPT !.records = @ \cup {[chat |-> q.chat, msg |-> x.msg, text |-> x.text] : x \in Admitted(q)}]

Handle(q) ==
  /\ wire' = wire \ {q}
  /\ store' = IF Verdict(q) = "ok" THEN Archived(q) ELSE store
  /\ \/ cycle.pc = "sent" /\ cycle.req = q.id /\ Receive(Verdict(q))
     \/ UNCHANGED <<cycle, reader>>   \* nobody waits, or the answer is lost
  /\ UNCHANGED <<page, misled, moves>>

LoseRequest(q) ==
  /\ wire' = wire \ {q}
  /\ UNCHANGED <<page, reader, cycle, store, misled, moves>>

SetEnabled(on) ==
  /\ store.epoch < MaxEpoch
  /\ store' = [store EXCEPT !.enabled = on, !.epoch = @ + 1]
  /\ UNCHANGED <<page, reader, cycle, wire, misled, moves>>

PurgeRecord(r) ==
  /\ store' = [store EXCEPT !.records = {x \in @ : x.chat # r.chat \/ x.msg # r.msg},
                            !.ignored = @ \cup {<<r.chat, r.msg>>}]
  /\ UNCHANGED <<page, reader, cycle, wire, misled, moves>>

-----------------------------------------------------------------------------
(* The page and the browser *)

\* The route changes first, the displayed messages follow.
Navigate(c) ==
  /\ Move /\ c # page.route
  /\ page' = [page EXCEPT !.route = c]
  /\ UNCHANGED <<reader, cycle, wire, store, misled>>

Render ==
  /\ page.shown # page.route
  /\ page' = [page EXCEPT !.shown = page.route]
  /\ UNCHANGED <<reader, cycle, wire, store, misled, moves>>

\* Only a watching adapter counts the change.
Edit(m) ==
  /\ m \in Visible /\ MapThenSumSet(LAMBDA o : page.text[o], Msgs) < MaxText
  /\ page' = [page EXCEPT !.text[m] = @ + 1, !.rev[m] = IF reader.watching THEN @ + 1 ELSE @]
  /\ UNCHANGED <<reader, cycle, wire, store, misled, moves>>

PageHide ==
  /\ Move /\ ~page.frozen
  /\ page' = [page EXCEPT !.frozen = TRUE]
  /\ reader' = IF reader.stopped THEN reader ELSE StopWatching(reader)
  /\ cycle' = [cycle EXCEPT !.fresh = FALSE]
  /\ UNCHANGED <<wire, store, misled>>

PageShow ==
  /\ page.frozen
  /\ page' = [page EXCEPT !.frozen = FALSE]
  /\ UNCHANGED <<reader, cycle, wire, store, misled, moves>>

Update ==
  /\ Move
  /\ store' = [store EXCEPT !.version = @ + 1]
  /\ UNCHANGED <<page, reader, cycle, wire, misled>>

\* The worker's repair replaces the runtime of the document (CaptureRecovery).
Replace ==
  /\ reader.version # store.version /\ ~page.frozen
  /\ reader' = Installed(store.version)
  /\ cycle' = Idle
  /\ UNCHANGED <<page, wire, store, misled, moves>>

Next ==
  \/ AskStatus \/ StatusLost \/ Superseded \/ Refused
  \/ \E old \in SUBSET Msgs : Collect(old)
  \/ SendBatch \/ GiveUp
  \/ \E q \in wire : Handle(q) \/ LoseRequest(q)
  \/ \E on \in BOOLEAN : SetEnabled(on)
  \/ \E r \in store.records : PurgeRecord(r)
  \/ \E c \in Chats \cup {None} : Navigate(c)
  \/ Render \/ \E m \in Msgs : Edit(m)
  \/ PageHide \/ PageShow \/ Update \/ Replace

Spec == Init /\ [][Next]_vars

-----------------------------------------------------------------------------
(* Fairness: the script's timers run, the page shows its route in the end, *)
(* and neither every question nor every request is lost.                   *)

Fairness ==
  /\ WF_vars(AskStatus) /\ WF_vars(Superseded) /\ WF_vars(Refused) /\ WF_vars(GiveUp)
  /\ WF_vars(Render)
  /\ SF_vars(Collect({m \in Visible : Unmoved(m)}))
  /\ SF_vars(SendBatch)
  /\ SF_vars(\E q \in wire : Handle(q))

FairSpec == Spec /\ Fairness

-----------------------------------------------------------------------------
(* Properties *)

Items == [msg : Msgs, text : 0 .. MaxText, was : 0 .. MaxText, at : 0 .. MaxEpoch]

TypeOK ==
  /\ page.route \in Chats \cup {None} /\ page.shown \in Chats \cup {None}
  /\ \A m \in Msgs : page.rev[m] <= page.text[m] /\ page.text[m] <= MaxText
  /\ reader.version <= store.version
  /\ reader.stopped => ~reader.watching /\ reader.pending = NoPending
  /\ cycle.pc \in {"idle", "answered", "batch", "sent"}
  /\ cycle.left \subseteq Items
  /\ Cardinality(wire) <= MaxWire
  /\ \A q, o \in wire : q.id = o.id => q = o
  /\ \A r \in store.records : r.msg \in Msgs /\ r.chat \in Chats

\* What is archived stood unchanged between two collections: a stream still
\* being written, or an edit the adapter did not watch, is not taken for the
\* settled text (watch, stopWatching, collect).
SettledTextOnly == \A q \in wire : \A x \in q.items : x.text = x.was

\* A message is filed under its own chat, although a navigation changes the
\* route before the displayed messages; except where the adapter saw it first
\* while another chat's route was shown (collect, captureBatches).
FiledUnderItsChat == \A r \in store.records : r.chat # Owner[r.msg] => r.msg \in misled

\* A purged source does not come back by a request that was on its way, a
\* retry, or a page that still shows it.
PurgedStaysPurged == \A r \in store.records : <<r.chat, r.msg>> \notin store.ignored

\* Nothing read before a pause is archived after it, even when capture is
\* enabled again before the request arrives (protectedConsent).
ReadUnderPresentConsent ==
  [][\A r \in store'.records \ store.records :
       /\ store.enabled
       /\ \E q \in wire : \E x \in q.items :
            x.msg = r.msg /\ x.text = r.text /\ q.chat = r.chat /\ x.at = store.epoch]_vars

\* The adapter saw a message of the chat under another chat's route, which left
\* the whole chat Stale until the page loads anew or its scripts are replaced.
Mistaken(chat) == \E m \in Msgs : Owner[m] = chat /\ reader.bound[m] \notin {None, chat}

Showable(m) ==
  /\ page.route = Owner[m] /\ ~page.frozen /\ store.enabled
  /\ reader.version = store.version
  /\ ~Mistaken(Owner[m])
  /\ <<Owner[m], m>> \notin store.ignored

\* A message that stays on an open page of its chat is archived there with its
\* last text, whatever was lost, paused, frozen or edited before and wherever the
\* page was in between.  Nothing is promised while its chat is Mistaken: a page
\* that returns to a chat after a collection between a change of the route and
\* the display of the next chat is refused at every collection (collect:
\* staleIdentity).
EventuallyArchived ==
  \A m \in Msgs :
    <>[]Showable(m) =>
      <>[](\E r \in store.records :
             r.chat = Owner[m] /\ r.msg = m /\ r.text = page.text[m])
=============================================================================
