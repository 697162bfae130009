------------------------- MODULE CurrentnessChannel -------------------------
(***************************************************************************)
(* Identity currentness end to end: the gateway's service and the          *)
(* extension's client over exchanges that may break, with the status       *)
(* queries whose answers the client vouches for.                           *)
(***************************************************************************)
EXTENDS CurrentnessService, CurrentnessClient

vars == <<serviceVars, clientVars, wireVars>>

\* The status service answers from the authority as it is at that moment.
StatusAnswered(c) ==
  /\ ticket[c] /\ answer[c] = NoGeneration
  /\ answer' = [answer EXCEPT ![c] = generation]
  /\ UNCHANGED <<serviceVars, transportVars, entry, ticket, lease, revoked, ended, wireVars>>

Breaks(c) == Cut(c) /\ UNCHANGED <<serviceVars, clientVars>>

Init == WireInit /\ ServiceInit /\ ClientInit

Next ==
  \/ ServiceNext /\ UNCHANGED clientVars
  \/ ClientNext /\ UNCHANGED serviceVars
  \/ \E c \in Channels : StatusAnswered(c) \/ Breaks(c)

Spec == Init /\ [][Next]_vars

Service(A) == A /\ UNCHANGED clientVars
Client(A) == A /\ UNCHANGED serviceVars

\* A client that hears nothing for three seconds closes the channel.
Silence(c) == exchange[c] = "broken" /\ ClientClose(c)

\* What is sent is delivered and what is delivered is handled, unless it is
\* lost, and losses are noticed; no timer but the one for silence is needed.
FairSpec ==
  /\ Spec
  /\ \A c \in Channels :
       /\ WF_vars(Service(NoticeInvalidation(c))) /\ WF_vars(Service(NoticeDrop(c)))
       /\ WF_vars(Client(ReadPulse(c))) /\ WF_vars(Client(ReadEnd(c)))
       /\ WF_vars(Client(Silence(c)))

\* Timers run out, and nothing else need ever happen: calls to the pool and
\* the platform's fetches settle, and those who reserve a slot use it or
\* return it.
TimedSpec ==
  /\ Spec
  /\ \A c \in Channels :
       /\ WF_vars(Service(Connect(c) \/ ConnectFails(c) \/ ConnectLate(c)))
       /\ WF_vars(Service(GiveUp(c))) /\ WF_vars(Service(EndService(c)))
       /\ WF_vars(Service(Admit(c) \/ TurnAway(c)))
       /\ WF_vars(Client(OpenReserved(c) \/ ReleaseTicket(c)))
       /\ WF_vars(Client(StartFetch(c) \/ NoFetch(c)))
       /\ WF_vars(Client(ClientClose(c))) /\ WF_vars(Client(FetchSettlesLate(c)))

-----------------------------------------------------------------------------
\* Whatever the client vouches for is current, or the news that it is not is
\* on its way: waiting on the service's connection, sent as the end of the
\* stream, or to be inferred from the loss of the connection or the exchange.
VouchedIsCurrentOrInvalidated ==
  \A c \in Channels : Vouched(c) /\ ident[c] # generation =>
    \/ phase[c] = "streaming" /\ (notified[c] \/ connection[c] = "dropped")
    \/ phase[c] = "closed" /\ \E i \in DOMAIN frames[c] : frames[c][i] = Ended
    \/ exchange[c] = "broken"

\* A client that vouches for an outdated identity stops by itself.
StaleVouchEnds ==
  \A c \in Channels : Vouched(c) /\ ident[c] # generation ~> ~Vouched(c)

\* Every attempt gives back its slots on both sides in the end.
SlotsReturn ==
  \A c \in Channels :
    []<>(stage[c] \in {"idle", "closed"} /\ c \notin clientOccupied /\ c \notin occupied)
=============================================================================
