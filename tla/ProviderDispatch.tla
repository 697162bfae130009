-------------------------- MODULE ProviderDispatch --------------------------
(***************************************************************************)
(* How one paid operation reaches the provider: the runner                 *)
(* (services/ai-gateway/provider-runner.mjs), its evidence publisher       *)
(* (postgres-provider-evidence.mjs), settlement and status services        *)
(* (provider-settlement.mjs, operation-status-service.mjs), cancellation   *)
(* (postgres-authority.mjs) and the grants of the declaration publisher    *)
(* (postgres-declaration-publisher.mjs).                                   *)
(*                                                                         *)
(* A run is one call of runner.run on one host.  Every transaction of the  *)
(* services locks the single ledger row first, so it is one step; its      *)
(* COMMIT may be applied with the acknowledgement lost.  The send fence    *)
(* alone is open over several steps, holding the ledger lock from its      *)
(* checks to the physical request; its connection may drop meanwhile.  A   *)
(* host may crash at any step.  The ledger is reduced to the lifecycle of  *)
(* its rows: BudgetLedger models the rest.                                 *)
(***************************************************************************)
EXTENDS Integers, FiniteSets

CONSTANTS
  Ops,            \* paid operations
  JobOf,          \* JobOf[o]: the job o is a child of
  Runs, OpOf,     \* calls of runner.run; OpOf[w]: the operation w was called for
  Hosts, HostOf,  \* processes; HostOf[w]: the one w runs in
  MaxConcurrent,  \* operations that may occupy the provider
  Bound,          \* the amount held for an operation
  Usages,         \* amounts a provider may bill
  NoRun           \* nobody holds the send fence

VARIABLES
  row,      \* row[o]: state of the ledger's row of o
  charge,   \* charge[o]: what the ledger charged
  grant,    \* grant[o]: the declaration's grant for o
  events,   \* events[o]: kinds of the immutable evidence recorded for o
  usage,    \* usage[o]: the amount in the SETTLEMENT evidence
  pc,       \* pc[w]: what run w does next
  live,     \* live[w]: w is neither aborted nor past its deadline
  content,  \* content[w]: the response w read was of the declared schema
  fence,    \* the run whose send fence holds the ledger lock
  sends,    \* sends[o]: physical requests made
  bill      \* bill[o]: what the provider billed

ledgerVars == <<row, charge>>
evidenceVars == <<events, usage>>
runVars == <<pc, live, content>>
providerVars == <<sends, bill>>
vars == <<row, charge, grant, events, usage, pc, live, content, fence, sends, bill>>

ASSUME DispatchAssumption ==
  /\ IsFiniteSet(Ops)
  /\ OpOf \in [Runs -> Ops] /\ HostOf \in [Runs -> Hosts]
  /\ NoRun \notin Runs
  /\ MaxConcurrent \in Nat \ {0}
  /\ Bound \in Nat /\ Usages \subseteq Nat

NoBill == -1
Outstanding == {"DISPATCHED", "OUTCOME_UNKNOWN"}
Finished == {"delivered", "done", "dead"}

Init ==
  /\ row = [o \in Ops |-> "ABSENT"] /\ charge = [o \in Ops |-> NoBill]
  /\ grant = [o \in Ops |-> "none"]
  /\ events = [o \in Ops |-> {}] /\ usage = [o \in Ops |-> NoBill]
  /\ pc = [w \in Runs |-> "start"] /\ live = [w \in Runs |-> TRUE]
  /\ content = [w \in Runs |-> FALSE]
  /\ fence = NoRun
  /\ sends = [o \in Ops |-> 0] /\ bill = [o \in Ops |-> NoBill]

\* A transaction on the ledger, its authority or its evidence can start.
LedgerFree == fence = NoRun

At(w, step) == pc[w] = step
Goto(w, step) == pc' = [pc EXCEPT ![w] = step]

\* The transaction is applied; w learns so, or loses the acknowledgement.
Commits(w, acknowledged, lost) == \E step \in {acknowledged, lost} : Goto(w, step)

\* Operations at the provider or on their way there: dispatched rows, and
\* reserved ones already claimed.
Occupied ==
  {o \in Ops : \/ row[o] \in Outstanding
               \/ row[o] = "RESERVED" /\ "DISPATCHED" \in events[o]}

-----------------------------------------------------------------------------
\* Grants: published once, never renewed; withdrawing also stands for expiry.

PublishGrant(o) ==
  /\ LedgerFree
  /\ grant[o] = "none"
  /\ grant' = [grant EXCEPT ![o] = "current"]
  /\ UNCHANGED <<ledgerVars, evidenceVars, runVars, fence, providerVars>>

\* Revoking an operation that was never granted leaves a tombstone.
UnlockedWithdraw(o) ==   \* mutant
  /\ grant[o] # "withdrawn"
  /\ grant' = [grant EXCEPT ![o] = "withdrawn"]
  /\ UNCHANGED <<ledgerVars, evidenceVars, runVars, fence, providerVars>>
WithdrawGrant(o) ==
  /\ LedgerFree
  /\ grant[o] # "withdrawn"
  /\ grant' = [grant EXCEPT ![o] = "withdrawn"]
  /\ UNCHANGED <<ledgerVars, evidenceVars, runVars, fence, providerVars>>

-----------------------------------------------------------------------------
\* The reservation service, called by the client.

\* BudgetLedger's Reserve, whose admission is left open here.
Reserve(o) ==
  /\ LedgerFree
  /\ grant[o] = "current"
  /\ row[o] = "ABSENT"
  /\ \A s \in Ops \ {o} : JobOf[s] = JobOf[o] => row[s] \notin Outstanding
  /\ row' = [row EXCEPT ![o] = "RESERVED"]
  /\ UNCHANGED <<charge, grant, evidenceVars, runVars, fence, providerVars>>

\* Cancelling needs no grant, only that nothing is recorded of the provider.
CancelUnlessDispatched(o) ==   \* mutant
  /\ LedgerFree
  /\ row[o] = "RESERVED"
  /\ row' = [row EXCEPT ![o] = "CANCELLED_BEFORE_DISPATCH"]
  /\ UNCHANGED <<charge, grant, evidenceVars, runVars, fence, providerVars>>
Cancel(o) ==
  /\ LedgerFree
  /\ row[o] = "RESERVED"
  /\ events[o] = {}
  /\ row' = [row EXCEPT ![o] = "CANCELLED_BEFORE_DISPATCH"]
  /\ UNCHANGED <<charge, grant, evidenceVars, runVars, fence, providerVars>>

-----------------------------------------------------------------------------
\* The runner: claim, dispatch, send.

\* publisher.claim: the operation is marked as going to the provider.
ClaimAgain(w) ==   \* mutant
  LET o == OpOf[w]
  IN  /\ At(w, "start") /\ live[w] /\ LedgerFree
      /\ grant[o] = "current" /\ row[o] \in {"RESERVED", "DISPATCHED"}
      /\ Cardinality(Occupied \ {o}) < MaxConcurrent
      /\ events' = [events EXCEPT ![o] = @ \cup {"DISPATCHED"}]
      /\ Commits(w, "claimed", "done")
      /\ UNCHANGED <<ledgerVars, grant, usage, live, content, fence, providerVars>>
Claim(w) ==
  LET o == OpOf[w]
  IN  /\ At(w, "start") /\ live[w] /\ LedgerFree
      /\ grant[o] = "current" /\ row[o] = "RESERVED"
      /\ Cardinality(Occupied) < MaxConcurrent
      /\ events[o] = {}
      /\ events' = [events EXCEPT ![o] = {"DISPATCHED"}]
      /\ Commits(w, "claimed", "done")
      /\ UNCHANGED <<ledgerVars, grant, usage, live, content, fence, providerVars>>

\* service.record of the claim: the original ledger dispatches the row, unless
\* a sibling is out.  A lost acknowledgement ends the run before any request.
RecordDispatched(w) ==
  LET o == OpOf[w]
  IN  /\ At(w, "claimed") /\ live[w] /\ LedgerFree
      /\ grant[o] = "current" /\ "DISPATCHED" \in events[o]
      /\ \/ row[o] = "RESERVED"
            /\ \A s \in Ops \ {o} : JobOf[s] = JobOf[o] => row[s] \notin Outstanding
         \/ row[o] = "DISPATCHED"
      /\ row' = [row EXCEPT ![o] = "DISPATCHED"]
      /\ Commits(w, "dispatched", "done")
      /\ UNCHANGED <<charge, grant, evidenceVars, live, content, fence, providerVars>>

\* publisher.sendOnce, up to the request: the ticket is consumed, the ledger
\* locked, and row, grant and sole evidence checked once more.
OpenFence(w) ==
  LET o == OpOf[w]
  IN  /\ At(w, "dispatched") /\ live[w] /\ LedgerFree
      /\ grant[o] = "current" /\ row[o] = "DISPATCHED" /\ events[o] = {"DISPATCHED"}
      /\ fence' = w
      /\ Goto(w, "fenced")
      /\ UNCHANGED <<ledgerVars, grant, evidenceVars, live, content, providerVars>>

\* The physical request, then the fence's COMMIT; if that is not acknowledged
\* the outcome is unknown although the provider was asked.
Send(w) ==
  /\ At(w, "fenced") /\ live[w]
  /\ sends' = [sends EXCEPT ![OpOf[w]] = @ + 1]
  /\ \/ fence = w /\ Goto(w, "awaiting")
     \/ Goto(w, "unknowing")
  /\ fence' = IF fence = w THEN NoRun ELSE fence
  /\ UNCHANGED <<ledgerVars, grant, evidenceVars, live, content, bill>>

\* The run stopped, or the checks outlived their second: no request.
CloseFence(w) ==
  /\ At(w, "fenced")
  /\ Goto(w, "unknowing")
  /\ fence' = IF fence = w THEN NoRun ELSE fence
  /\ UNCHANGED <<ledgerVars, grant, evidenceVars, live, content, providerVars>>

\* The database drops the fence's connection, and its lock, unnoticed.
LoseFence(w) ==
  /\ fence = w
  /\ fence' = NoRun
  /\ UNCHANGED <<ledgerVars, grant, evidenceVars, runVars, providerVars>>

-----------------------------------------------------------------------------
\* The provider, and the runner's reading of its response.

\* External: the provider serves the request and bills it.
ProviderBills(o) ==
  /\ sends[o] > 0 /\ bill[o] = NoBill
  /\ \E usd \in Usages : bill' = [bill EXCEPT ![o] = usd]
  /\ UNCHANGED <<ledgerVars, grant, evidenceVars, runVars, fence, sends>>

\* The response was read to its end; its usage is known and within the bound,
\* whether or not its content is of use.
ReadAnyUsage(w) ==   \* mutant
  /\ At(w, "awaiting") /\ live[w]
  /\ bill[OpOf[w]] # NoBill
  /\ \E valid \in BOOLEAN : content' = [content EXCEPT ![w] = valid]
  /\ Goto(w, "accounting")
  /\ UNCHANGED <<ledgerVars, grant, evidenceVars, live, fence, providerVars>>
ReadUsage(w) ==
  /\ At(w, "awaiting") /\ live[w]
  /\ bill[OpOf[w]] # NoBill /\ bill[OpOf[w]] <= Bound
  /\ \E valid \in BOOLEAN : content' = [content EXCEPT ![w] = valid]
  /\ Goto(w, "accounting")
  /\ UNCHANGED <<ledgerVars, grant, evidenceVars, live, fence, providerVars>>

\* Usage over the bound stops every run of the host.
ReadUsageOverCap(w) ==
  /\ At(w, "awaiting") /\ live[w]
  /\ bill[OpOf[w]] > Bound
  /\ live' = [v \in Runs |-> live[v] /\ HostOf[v] # HostOf[w]]
  /\ Goto(w, "unknowing")
  /\ UNCHANGED <<ledgerVars, grant, evidenceVars, content, fence, providerVars>>

-----------------------------------------------------------------------------
\* Accounting for what was consumed, whatever became of the grant.

\* publisher.publishUsage.
PublishUsage(w) ==
  LET o == OpOf[w]
  IN  /\ At(w, "accounting") /\ LedgerFree
      /\ "DISPATCHED" \in events[o] /\ row[o] \in Outstanding \cup {"SETTLED"}
      /\ "SETTLEMENT" \notin events[o]
      /\ events' = [events EXCEPT ![o] = @ \cup {"SETTLEMENT"}]
      /\ usage' = [usage EXCEPT ![o] = bill[o]]
      /\ Commits(w, "published", "done")
      /\ UNCHANGED <<ledgerVars, grant, live, content, fence, providerVars>>

\* The original owner's settle, from recorded evidence only.
SettleFromEvidence(o) ==
  /\ LedgerFree
  /\ {"DISPATCHED", "SETTLEMENT"} \subseteq events[o]
  /\ row[o] \in Outstanding
  /\ row' = [row EXCEPT ![o] = "SETTLED"]
  /\ charge' = [charge EXCEPT ![o] = usage[o]]

\* settlementService.settle: applied now, or found applied by a status query.
Settle(w) ==
  LET o == OpOf[w]
  IN  /\ At(w, "published")
      /\ \/ SettleFromEvidence(o)
         \/ LedgerFree /\ row[o] = "SETTLED" /\ UNCHANGED ledgerVars
      /\ Commits(w, IF content[w] THEN "settled" ELSE "done", "done")
      /\ UNCHANGED <<grant, evidenceVars, live, content, fence, providerVars>>

\* operationStatusService.query: reconciles what a lost run left behind.
StatusNeedsGrant(o) ==   \* mutant
  /\ grant[o] = "current"
  /\ SettleFromEvidence(o)
  /\ UNCHANGED <<grant, evidenceVars, runVars, fence, providerVars>>
QueryStatus(o) ==
  /\ SettleFromEvidence(o)
  /\ UNCHANGED <<grant, evidenceVars, runVars, fence, providerVars>>

\* publisher.revalidate, then the response is handed to the caller.
Deliver(w) ==
  LET o == OpOf[w]
  IN  /\ At(w, "settled") /\ live[w] /\ LedgerFree
      /\ grant[o] = "current" /\ row[o] \in {"DISPATCHED", "SETTLED"}
      /\ Goto(w, "delivered")
      /\ UNCHANGED <<ledgerVars, grant, evidenceVars, live, content, fence, providerVars>>

-----------------------------------------------------------------------------
\* Failures.

\* publisher.unknown, only for a consumed ticket that published no usage.
PublishUnknown(w) ==
  LET o == OpOf[w]
  IN  /\ At(w, "unknowing") /\ LedgerFree
      /\ grant[o] = "current" /\ row[o] \in Outstanding
      /\ "OUTCOME_UNKNOWN" \notin events[o]
      /\ events' = [events EXCEPT ![o] = @ \cup {"OUTCOME_UNKNOWN"}]
      /\ Commits(w, "noting", "done")
      /\ UNCHANGED <<ledgerVars, grant, usage, live, content, fence, providerVars>>

\* service.record of that evidence.
RecordUnknown(w) ==
  LET o == OpOf[w]
  IN  /\ At(w, "noting") /\ LedgerFree
      /\ grant[o] = "current" /\ "OUTCOME_UNKNOWN" \in events[o]
      /\ row[o] \in Outstanding
      /\ row' = [row EXCEPT ![o] = "OUTCOME_UNKNOWN"]
      /\ Goto(w, "done")
      /\ UNCHANGED <<charge, grant, evidenceVars, live, content, fence, providerVars>>

\* Where a refused or failed call of step leads: a consumed ticket's outcome is
\* recorded as unknown, unless its accounting was already attempted.
AfterFailure(step) == IF step \in {"dispatched", "awaiting"} THEN "unknowing" ELSE "done"

\* Any call may be refused or fail in the database, the network or the response.
Fail(w) ==
  /\ pc[w] \notin Finished \cup {"fenced"}
  /\ Goto(w, AfterFailure(pc[w]))
  /\ UNCHANGED <<ledgerVars, grant, evidenceVars, live, content, fence, providerVars>>

\* The run noticed it was stopped before it used its ticket.
StopBeforeSend(w) ==
  /\ At(w, "dispatched") /\ ~live[w]
  /\ Goto(w, "done")
  /\ UNCHANGED <<ledgerVars, grant, evidenceVars, live, content, fence, providerVars>>

\* The caller aborts, or the run's thirty seconds are over.
Abort(w) ==
  /\ pc[w] \notin Finished /\ live[w]
  /\ live' = [live EXCEPT ![w] = FALSE]
  /\ UNCHANGED <<ledgerVars, grant, evidenceVars, pc, content, fence, providerVars>>

\* A host dies with its tickets; the database rolls its open fence back.
Crash(h) ==
  /\ \E w \in Runs : HostOf[w] = h /\ pc[w] \notin Finished
  /\ pc' = [w \in Runs |-> IF HostOf[w] = h /\ pc[w] \notin Finished THEN "dead" ELSE pc[w]]
  /\ fence' = IF fence # NoRun /\ HostOf[fence] = h THEN NoRun ELSE fence
  /\ UNCHANGED <<ledgerVars, grant, evidenceVars, live, content, providerVars>>

-----------------------------------------------------------------------------
RunStep(w) ==
  \/ Claim(w) \/ RecordDispatched(w) \/ OpenFence(w) \/ Send(w) \/ CloseFence(w)
  \/ ReadUsage(w) \/ ReadUsageOverCap(w)
  \/ PublishUsage(w) \/ Settle(w) \/ Deliver(w)
  \/ PublishUnknown(w) \/ RecordUnknown(w)
  \/ Fail(w) \/ StopBeforeSend(w)

Next ==
  \/ \E w \in Runs : RunStep(w) \/ LoseFence(w) \/ Abort(w)
  \/ \E o \in Ops : \/ PublishGrant(o) \/ WithdrawGrant(o)
                    \/ Reserve(o) \/ Cancel(o)
                    \/ ProviderBills(o) \/ QueryStatus(o)
  \/ \E h \in Hosts : Crash(h)

Spec == Init /\ [][Next]_vars

\* Every await of a run is bounded by a timer or a database timeout, so a run
\* keeps going; clients poll the status of an operation until it is settled.
FairSpec ==
  /\ Spec
  /\ \A w \in Runs : WF_vars(RunStep(w))
  /\ \A o \in Ops : WF_vars(QueryStatus(o))

-----------------------------------------------------------------------------
RowStates == {"ABSENT", "RESERVED", "DISPATCHED", "OUTCOME_UNKNOWN", "SETTLED",
              "CANCELLED_BEFORE_DISPATCH"}
Steps == {"start", "claimed", "dispatched", "fenced", "awaiting", "accounting",
          "published", "settled", "unknowing", "noting"} \cup Finished

\* Rows, evidence, runs and the fence have their types, and only a fenced run
\* holds the fence.
TypeOK ==
  /\ row \in [Ops -> RowStates] /\ charge \in [Ops -> Nat \cup {NoBill}]
  /\ grant \in [Ops -> {"none", "current", "withdrawn"}]
  /\ events \in [Ops -> SUBSET {"DISPATCHED", "OUTCOME_UNKNOWN", "SETTLEMENT"}]
  /\ usage \in [Ops -> Nat \cup {NoBill}]
  /\ pc \in [Runs -> Steps] /\ live \in [Runs -> BOOLEAN] /\ content \in [Runs -> BOOLEAN]
  /\ fence \in Runs \cup {NoRun} /\ (fence # NoRun => pc[fence] = "fenced")
  /\ sends \in [Ops -> Nat] /\ bill \in [Ops -> Nat \cup {NoBill}]

\* However many runs an operation is called for, on whichever hosts, and
\* whatever crashes or acknowledgements are lost between them, the provider is
\* asked at most once.
SentOnce == \A o \in Ops : sends[o] <= 1

\* The ledger and the evidence never contradict each other, which would make
\* every later status query and result of the operation fail: a cancelled row
\* has no evidence, a settled one has the settlement it was charged by.
LedgerAgreesWithEvidence ==
  \A o \in Ops :
    /\ row[o] \in {"ABSENT", "CANCELLED_BEFORE_DISPATCH"} => events[o] = {}
    /\ row[o] \in Outstanding => "DISPATCHED" \in events[o]
    /\ row[o] = "SETTLED" => "SETTLEMENT" \in events[o] /\ charge[o] = usage[o]

\* No more operations are at the provider than the gateway is configured for,
\* counting claims that are not dispatched yet and outcomes that stay unknown.
WithinCapacity ==
  /\ Cardinality(Occupied) <= MaxConcurrent
  /\ Cardinality({o \in Ops : sends[o] > 0 /\ row[o] # "SETTLED"}) <= MaxConcurrent

\* The evidence of an operation never says both what it cost and that its
\* outcome is unknown.
OutcomeIsDecidedOnce ==
  \A o \in Ops : ~({"OUTCOME_UNKNOWN", "SETTLEMENT"} \subseteq events[o])

\* A response is handed out only once the ledger charged what it cost.
DeliveredIsPaid ==
  \A w \in Runs : pc[w] \in {"settled", "delivered"} =>
    row[OpOf[w]] = "SETTLED" /\ charge[OpOf[w]] = bill[OpOf[w]]

\* While the fence's connection stands, the provider is asked only under a
\* grant that is current at that instant, for a row the ledger dispatched.
SendsUnderAuthority ==
  [][\A w \in Runs : (fence = w /\ sends'[OpOf[w]] > sends[OpOf[w]]) =>
       grant[OpOf[w]] = "current" /\ row[OpOf[w]] = "DISPATCHED"]_vars

\* The gateway keeps its promise to the payer (PaidOperation).
HoldOf(o) == CASE row[o] = "ABSENT" -> "none"
               [] row[o] = "CANCELLED_BEFORE_DISPATCH" -> "released"
               [] row[o] = "SETTLED" -> "charged"
               [] OTHER -> "held"
Paid == INSTANCE PaidOperation WITH hold <- [o \in Ops |-> HoldOf(o)]
ImplementsPaidOperation == Paid!Spec

\* What the provider is known to have cost is eventually charged, although the
\* run that learned it crashed, lost its acknowledgement or its grant.
KnownCostIsCharged ==
  \A o \in Ops : "SETTLEMENT" \in events[o] ~> row[o] = "SETTLED"

\* Every run ends, so nobody keeps the ledger locked.
EveryRunEnds == \A w \in Runs : <>(pc[w] \in Finished)
=============================================================================
