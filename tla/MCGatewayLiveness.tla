-------------------------- MODULE MCGatewayLiveness --------------------------
(***************************************************************************)
(* What must eventually happen at the gateway: the currentness channel     *)
(* under its two fairness assumptions, and provider runs (ProviderDispatch, *)
(* with which the channel shares no state).  part says which behaviour is  *)
(* looked at; what does not move stays as it was initialised.              *)
(***************************************************************************)
EXTENDS CurrentnessChannel, TLC

CONSTANTS c, e, w   \* an owner's channel, a ticket's channel, the owner
MCOwnerOf == [x \in Channels |-> IF x = e THEN Nobody ELSE w]

CONSTANTS Ops, JobOf, Runs, OpOf, Hosts, HostOf, MaxConcurrent, Bound, Usages, NoRun
CONSTANTS a, b, u, v, h, k
MCJobOf == a :> "j" @@ b :> "j"
MCOpOf == u :> a @@ v :> b
MCHostOf == u :> h @@ v :> k

VARIABLES part, row, charge, grant, events, usage, pc, live, content, fence, sends, bill
Dispatch == INSTANCE ProviderDispatch
dispatchVars == <<row, charge, grant, events, usage, pc, live, content, fence, sends, bill>>

-----------------------------------------------------------------------------
PartsInit == part \in {"news", "timers", "dispatch"} /\ Init /\ Dispatch!Init
ChannelStep ==
  /\ part \in {"news", "timers"} /\ Next /\ UNCHANGED <<part, dispatchVars>>
  \* One channel is enough for the news, one change of the authority for the slots.
  /\ part = "news" => stage'[e] = stage[e]
  /\ part = "timers" => generation' <= 1
DispatchStep == part = "dispatch" /\ Dispatch!Next /\ UNCHANGED <<part, vars>>

News(A) == part = "news" /\ A
Timers(A) == part = "timers" /\ A

\* FairSpec and TimedSpec of CurrentnessChannel, FairSpec of ProviderDispatch,
\* each for its own part.
Fairness ==
  /\ \A x \in Channels :
       /\ WF_vars(News(Service(NoticeInvalidation(x)))) /\ WF_vars(News(Service(NoticeDrop(x))))
       /\ WF_vars(News(Client(ReadPulse(x)))) /\ WF_vars(News(Client(ReadEnd(x))))
       /\ WF_vars(News(Client(Silence(x))))
       /\ WF_vars(Timers(Service(Connect(x) \/ ConnectFails(x) \/ ConnectLate(x))))
       /\ WF_vars(Timers(Service(GiveUp(x)))) /\ WF_vars(Timers(Service(EndService(x))))
       /\ WF_vars(Timers(Service(Admit(x) \/ TurnAway(x))))
       /\ WF_vars(Timers(Client(OpenReserved(x) \/ ReleaseTicket(x))))
       /\ WF_vars(Timers(Client(StartFetch(x) \/ NoFetch(x))))
       /\ WF_vars(Timers(Client(ClientClose(x)))) /\ WF_vars(Timers(Client(FetchSettlesLate(x))))
  /\ \A r \in Runs : WF_dispatchVars(part = "dispatch" /\ Dispatch!RunStep(r))
  /\ \A o \in Ops : WF_dispatchVars(part = "dispatch" /\ Dispatch!QueryStatus(o))

PartsSpec ==
  PartsInit /\ [][ChannelStep \/ DispatchStep]_<<part, vars, dispatchVars>> /\ Fairness

-----------------------------------------------------------------------------
\* A client that vouches for an outdated identity stops by itself, when news
\* and losses are noticed (StaleVouchEnds of CurrentnessChannel).
StaleVouchIsNoticed == part = "news" => StaleVouchEnds

\* Every attempt at a channel gives back its slots on both sides, when timers
\* run out (SlotsReturn of CurrentnessChannel).
SlotsAreReturned == part = "timers" => SlotsReturn

\* A known cost is charged in the end and no run keeps the ledger locked
\* (KnownCostIsCharged, EveryRunEnds of ProviderDispatch).
CostsAreCharged == part = "dispatch" => Dispatch!KnownCostIsCharged /\ Dispatch!EveryRunEnds
=============================================================================
