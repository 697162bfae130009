------------------------- MODULE GatewayRulesProofs --------------------------
(***************************************************************************)
(* What the parts of the gateway that MCGatewayRules checks guarantee for  *)
(* every value of their constants: provider runs (ProviderDispatch), the   *)
(* room of the ledger's snapshot (SnapshotCapacity), the client's grants   *)
(* (GrantPublication). Each is proved about its own specification; they    *)
(* share no state.                                                         *)
(***************************************************************************)
EXTENDS ProviderDispatch, SnapshotCapacity, GrantPublication, FiniteSetTheorems, TLAPS

(***************************************************************************)
(* ProviderDispatch, for every set of operations, runs and hosts. IInv is  *)
(* inductive: besides the invariants themselves it says who holds the      *)
(* ticket of an operation (Tickets), when its outcome is still open        *)
(* (OpenOutcomes), and how row, evidence and bill move together            *)
(* (Payments). Every lemma has a step per action of the system.            *)
(***************************************************************************)
\* Between its claim and its end a run holds the ticket of its operation.
Ticketed == {"claimed", "dispatched", "fenced", "awaiting", "accounting", "published",
             "settled", "unknowing", "noting"}

\* An operation has one ticket, given out with its first evidence, and the
\* provider is asked by nobody before the holder leaves the fence.
Tickets ==
  /\ \A w \in Runs : pc[w] \in Ticketed => "DISPATCHED" \in events[OpOf[w]]
  /\ \A v, w \in Runs :
       pc[v] \in Ticketed /\ pc[w] \in Ticketed /\ OpOf[v] = OpOf[w] => v = w
  /\ \A w \in Runs : pc[w] \in {"claimed", "dispatched", "fenced"} => sends[OpOf[w]] = 0
  /\ \A o \in Ops : sends[o] <= 1 /\ (sends[o] > 0 => "DISPATCHED" \in events[o])

\* Until the ticket's holder publishes one, neither outcome is recorded.
OpenOutcomes ==
  /\ \A w \in Runs :
       pc[w] \in {"claimed", "dispatched", "fenced", "awaiting", "accounting", "unknowing", "noting"}
         => "SETTLEMENT" \notin events[OpOf[w]]
  /\ \A w \in Runs :
       pc[w] \in {"claimed", "dispatched", "fenced", "awaiting", "accounting", "unknowing"}
         => "OUTCOME_UNKNOWN" \notin events[OpOf[w]]
  /\ OutcomeIsDecidedOnce

\* The row of an operation in the fence or beyond stays with it until it is
\* charged, and settlement evidence carries the provider's bill.
Payments ==
  /\ \A w \in Runs : pc[w] \in {"dispatched", "fenced"} => row[OpOf[w]] = "DISPATCHED"
  /\ \A w \in Runs : pc[w] \in {"awaiting", "accounting"} => row[OpOf[w]] # "SETTLED"
  /\ \A o \in Ops : sends[o] > 0 => row[o] \in Outstanding \cup {"SETTLED"}
  /\ \A o \in Ops : bill[o] # NoBill => sends[o] > 0
  /\ \A w \in Runs : pc[w] = "accounting" => bill[OpOf[w]] # NoBill /\ bill[OpOf[w]] <= Bound
  /\ \A o \in Ops : "SETTLEMENT" \in events[o] =>
       usage[o] = bill[o] /\ bill[o] # NoBill /\ bill[o] <= Bound
  /\ \A w \in Runs : pc[w] \in {"settled", "delivered"} => row[OpOf[w]] = "SETTLED"

\* The fence is held under a grant that is current.
Fenced == fence # NoRun => grant[OpOf[fence]] = "current"

IInv == TypeOK /\ Tickets /\ LedgerAgreesWithEvidence /\ OpenOutcomes /\ Payments /\ Fenced

-----------------------------------------------------------------------------
\* Every step preserves the types.
LEMMA TypeStep == ASSUME TypeOK, [Next]_vars PROVE TypeOK'
<1>. USE DispatchAssumption, TypeOK DEF TypeOK, RowStates, Steps, Outstanding, Finished, NoBill,
     At, Goto, Commits, LedgerFree, ledgerVars, evidenceVars, runVars, providerVars
<1>1. ASSUME NEW w \in Runs, Claim(w) PROVE TypeOK'
  BY <1>1 DEF Claim
<1>2. ASSUME NEW w \in Runs, RecordDispatched(w) PROVE TypeOK'
  BY <1>2 DEF RecordDispatched
<1>3. ASSUME NEW w \in Runs, OpenFence(w) PROVE TypeOK'
  BY <1>3 DEF OpenFence
<1>4. ASSUME NEW w \in Runs, Send(w) PROVE TypeOK'
  BY <1>4 DEF Send
<1>5. ASSUME NEW w \in Runs, CloseFence(w) PROVE TypeOK'
  BY <1>5 DEF CloseFence
<1>6. ASSUME NEW w \in Runs, ReadUsage(w) PROVE TypeOK'
  BY <1>6 DEF ReadUsage
<1>7. ASSUME NEW w \in Runs, ReadUsageOverCap(w) PROVE TypeOK'
  BY <1>7 DEF ReadUsageOverCap
<1>8. ASSUME NEW w \in Runs, PublishUsage(w) PROVE TypeOK'
  BY <1>8 DEF PublishUsage
<1>9. ASSUME NEW w \in Runs, Settle(w) PROVE TypeOK'
  BY <1>9 DEF Settle, SettleFromEvidence
<1>10. ASSUME NEW w \in Runs, Deliver(w) PROVE TypeOK'
  BY <1>10 DEF Deliver
<1>11. ASSUME NEW w \in Runs, PublishUnknown(w) PROVE TypeOK'
  BY <1>11 DEF PublishUnknown
<1>12. ASSUME NEW w \in Runs, RecordUnknown(w) PROVE TypeOK'
  BY <1>12 DEF RecordUnknown
<1>13. ASSUME NEW w \in Runs, Fail(w) PROVE TypeOK'
  BY <1>13 DEF Fail, AfterFailure
<1>14. ASSUME NEW w \in Runs, StopBeforeSend(w) PROVE TypeOK'
  BY <1>14 DEF StopBeforeSend
<1>15. ASSUME NEW w \in Runs, LoseFence(w) PROVE TypeOK'
  BY <1>15 DEF LoseFence
<1>16. ASSUME NEW w \in Runs, Abort(w) PROVE TypeOK'
  BY <1>16 DEF Abort
<1>17. ASSUME NEW o \in Ops, PublishGrant(o) PROVE TypeOK'
  BY <1>17 DEF PublishGrant
<1>18. ASSUME NEW o \in Ops, WithdrawGrant(o) PROVE TypeOK'
  BY <1>18 DEF WithdrawGrant
<1>19. ASSUME NEW o \in Ops, Reserve(o) PROVE TypeOK'
  BY <1>19 DEF Reserve
<1>20. ASSUME NEW o \in Ops, Cancel(o) PROVE TypeOK'
  BY <1>20 DEF Cancel
<1>21. ASSUME NEW o \in Ops, ProviderBills(o) PROVE TypeOK'
  BY <1>21 DEF ProviderBills
<1>22. ASSUME NEW o \in Ops, QueryStatus(o) PROVE TypeOK'
  BY <1>22 DEF QueryStatus, SettleFromEvidence
<1>23. ASSUME NEW h \in Hosts, Crash(h) PROVE TypeOK'
  BY <1>23 DEF Crash
<1>24. CASE UNCHANGED vars
  BY <1>24 DEF vars
<1>. QED
  BY <1>1, <1>2, <1>3, <1>4, <1>5, <1>6, <1>7, <1>8, <1>9, <1>10, <1>11, <1>12,
     <1>13, <1>14, <1>15, <1>16, <1>17, <1>18, <1>19, <1>20, <1>21, <1>22, <1>23, <1>24 DEF Next, RunStep

\* The states the system starts in satisfy the whole invariant.
LEMMA Initially == Init => IInv
BY DispatchAssumption DEF Init, IInv, TypeOK, RowStates, Steps, Finished, NoBill, Outstanding, Tickets,
  Ticketed, LedgerAgreesWithEvidence, OpenOutcomes, OutcomeIsDecidedOnce, Payments, Fenced

\* Claims need an operation without evidence, so they give out one ticket.
LEMMA TicketStep == ASSUME TypeOK, Tickets, [Next]_vars PROVE Tickets'
<1>. USE DispatchAssumption, TypeOK, Tickets DEF TypeOK, Tickets, Ticketed, Steps, Finished, Outstanding,
     At, Goto, Commits, LedgerFree, ledgerVars, evidenceVars, runVars, providerVars
<1>1. ASSUME NEW w \in Runs, Claim(w) PROVE Tickets'
  BY <1>1 DEF Claim
<1>2. ASSUME NEW w \in Runs, RecordDispatched(w) PROVE Tickets'
  BY <1>2 DEF RecordDispatched
<1>3. ASSUME NEW w \in Runs, OpenFence(w) PROVE Tickets'
  BY <1>3 DEF OpenFence
<1>4. ASSUME NEW w \in Runs, Send(w) PROVE Tickets'
  BY <1>4 DEF Send
<1>5. ASSUME NEW w \in Runs, CloseFence(w) PROVE Tickets'
  BY <1>5 DEF CloseFence
<1>6. ASSUME NEW w \in Runs, ReadUsage(w) PROVE Tickets'
  BY <1>6 DEF ReadUsage
<1>7. ASSUME NEW w \in Runs, ReadUsageOverCap(w) PROVE Tickets'
  BY <1>7 DEF ReadUsageOverCap
<1>8. ASSUME NEW w \in Runs, PublishUsage(w) PROVE Tickets'
  BY <1>8 DEF PublishUsage
<1>9. ASSUME NEW w \in Runs, Settle(w) PROVE Tickets'
  BY <1>9 DEF Settle, SettleFromEvidence
<1>10. ASSUME NEW w \in Runs, Deliver(w) PROVE Tickets'
  BY <1>10 DEF Deliver
<1>11. ASSUME NEW w \in Runs, PublishUnknown(w) PROVE Tickets'
  BY <1>11 DEF PublishUnknown
<1>12. ASSUME NEW w \in Runs, RecordUnknown(w) PROVE Tickets'
  BY <1>12 DEF RecordUnknown
<1>13. ASSUME NEW w \in Runs, Fail(w) PROVE Tickets'
  BY <1>13 DEF Fail, AfterFailure
<1>14. ASSUME NEW w \in Runs, StopBeforeSend(w) PROVE Tickets'
  BY <1>14 DEF StopBeforeSend
<1>15. ASSUME NEW w \in Runs, LoseFence(w) PROVE Tickets'
  BY <1>15 DEF LoseFence
<1>16. ASSUME NEW w \in Runs, Abort(w) PROVE Tickets'
  BY <1>16 DEF Abort
<1>17. ASSUME NEW o \in Ops, PublishGrant(o) PROVE Tickets'
  BY <1>17 DEF PublishGrant
<1>18. ASSUME NEW o \in Ops, WithdrawGrant(o) PROVE Tickets'
  BY <1>18 DEF WithdrawGrant
<1>19. ASSUME NEW o \in Ops, Reserve(o) PROVE Tickets'
  BY <1>19 DEF Reserve
<1>20. ASSUME NEW o \in Ops, Cancel(o) PROVE Tickets'
  BY <1>20 DEF Cancel
<1>21. ASSUME NEW o \in Ops, ProviderBills(o) PROVE Tickets'
  BY <1>21 DEF ProviderBills
<1>22. ASSUME NEW o \in Ops, QueryStatus(o) PROVE Tickets'
  BY <1>22 DEF QueryStatus, SettleFromEvidence
<1>23. ASSUME NEW h \in Hosts, Crash(h) PROVE Tickets'
  BY <1>23 DEF Crash
<1>24. CASE UNCHANGED vars
  BY <1>24 DEF vars
<1>. QED
  BY <1>1, <1>2, <1>3, <1>4, <1>5, <1>6, <1>7, <1>8, <1>9, <1>10, <1>11, <1>12,
     <1>13, <1>14, <1>15, <1>16, <1>17, <1>18, <1>19, <1>20, <1>21, <1>22, <1>23, <1>24 DEF Next, RunStep

\* Row and evidence of an operation change in step.
LEMMA AgreementStep ==
  ASSUME TypeOK, LedgerAgreesWithEvidence, [Next]_vars PROVE LedgerAgreesWithEvidence'
<1>. USE DispatchAssumption, TypeOK, LedgerAgreesWithEvidence
     DEF TypeOK, LedgerAgreesWithEvidence, RowStates, Outstanding, At, Goto, Commits, LedgerFree, ledgerVars, evidenceVars, runVars, providerVars
<1>1. ASSUME NEW w \in Runs, Claim(w) PROVE LedgerAgreesWithEvidence'
  BY <1>1 DEF Claim
<1>2. ASSUME NEW w \in Runs, RecordDispatched(w) PROVE LedgerAgreesWithEvidence'
  BY <1>2 DEF RecordDispatched
<1>3. ASSUME NEW w \in Runs, OpenFence(w) PROVE LedgerAgreesWithEvidence'
  BY <1>3 DEF OpenFence
<1>4. ASSUME NEW w \in Runs, Send(w) PROVE LedgerAgreesWithEvidence'
  BY <1>4 DEF Send
<1>5. ASSUME NEW w \in Runs, CloseFence(w) PROVE LedgerAgreesWithEvidence'
  BY <1>5 DEF CloseFence
<1>6. ASSUME NEW w \in Runs, ReadUsage(w) PROVE LedgerAgreesWithEvidence'
  BY <1>6 DEF ReadUsage
<1>7. ASSUME NEW w \in Runs, ReadUsageOverCap(w) PROVE LedgerAgreesWithEvidence'
  BY <1>7 DEF ReadUsageOverCap
<1>8. ASSUME NEW w \in Runs, PublishUsage(w) PROVE LedgerAgreesWithEvidence'
  BY <1>8 DEF PublishUsage
<1>9. ASSUME NEW w \in Runs, Settle(w) PROVE LedgerAgreesWithEvidence'
  BY <1>9 DEF Settle, SettleFromEvidence
<1>10. ASSUME NEW w \in Runs, Deliver(w) PROVE LedgerAgreesWithEvidence'
  BY <1>10 DEF Deliver
<1>11. ASSUME NEW w \in Runs, PublishUnknown(w) PROVE LedgerAgreesWithEvidence'
  BY <1>11 DEF PublishUnknown
<1>12. ASSUME NEW w \in Runs, RecordUnknown(w) PROVE LedgerAgreesWithEvidence'
  BY <1>12 DEF RecordUnknown
<1>13. ASSUME NEW w \in Runs, Fail(w) PROVE LedgerAgreesWithEvidence'
  BY <1>13 DEF Fail, AfterFailure
<1>14. ASSUME NEW w \in Runs, StopBeforeSend(w) PROVE LedgerAgreesWithEvidence'
  BY <1>14 DEF StopBeforeSend
<1>15. ASSUME NEW w \in Runs, LoseFence(w) PROVE LedgerAgreesWithEvidence'
  BY <1>15 DEF LoseFence
<1>16. ASSUME NEW w \in Runs, Abort(w) PROVE LedgerAgreesWithEvidence'
  BY <1>16 DEF Abort
<1>17. ASSUME NEW o \in Ops, PublishGrant(o) PROVE LedgerAgreesWithEvidence'
  BY <1>17 DEF PublishGrant
<1>18. ASSUME NEW o \in Ops, WithdrawGrant(o) PROVE LedgerAgreesWithEvidence'
  BY <1>18 DEF WithdrawGrant
<1>19. ASSUME NEW o \in Ops, Reserve(o) PROVE LedgerAgreesWithEvidence'
  BY <1>19 DEF Reserve
<1>20. ASSUME NEW o \in Ops, Cancel(o) PROVE LedgerAgreesWithEvidence'
  BY <1>20 DEF Cancel
<1>21. ASSUME NEW o \in Ops, ProviderBills(o) PROVE LedgerAgreesWithEvidence'
  BY <1>21 DEF ProviderBills
<1>22. ASSUME NEW o \in Ops, QueryStatus(o) PROVE LedgerAgreesWithEvidence'
  BY <1>22 DEF QueryStatus, SettleFromEvidence
<1>23. ASSUME NEW h \in Hosts, Crash(h) PROVE LedgerAgreesWithEvidence'
  BY <1>23 DEF Crash
<1>24. CASE UNCHANGED vars
  BY <1>24 DEF vars
<1>. QED
  BY <1>1, <1>2, <1>3, <1>4, <1>5, <1>6, <1>7, <1>8, <1>9, <1>10, <1>11, <1>12,
     <1>13, <1>14, <1>15, <1>16, <1>17, <1>18, <1>19, <1>20, <1>21, <1>22, <1>23, <1>24 DEF Next, RunStep

\* Only the holder of the ticket records an outcome, and only one.
LEMMA OutcomeStep == ASSUME TypeOK, Tickets, OpenOutcomes, [Next]_vars PROVE OpenOutcomes'
<1>. USE DispatchAssumption, TypeOK, Tickets, OpenOutcomes
     DEF TypeOK, Tickets, Ticketed, OpenOutcomes, OutcomeIsDecidedOnce, Steps, Finished,
     At, Goto, Commits, LedgerFree, ledgerVars, evidenceVars, runVars, providerVars
<1>1. ASSUME NEW w \in Runs, Claim(w) PROVE OpenOutcomes'
  BY <1>1 DEF Claim
<1>2. ASSUME NEW w \in Runs, RecordDispatched(w) PROVE OpenOutcomes'
  BY <1>2 DEF RecordDispatched
<1>3. ASSUME NEW w \in Runs, OpenFence(w) PROVE OpenOutcomes'
  BY <1>3 DEF OpenFence
<1>4. ASSUME NEW w \in Runs, Send(w) PROVE OpenOutcomes'
  BY <1>4 DEF Send
<1>5. ASSUME NEW w \in Runs, CloseFence(w) PROVE OpenOutcomes'
  BY <1>5 DEF CloseFence
<1>6. ASSUME NEW w \in Runs, ReadUsage(w) PROVE OpenOutcomes'
  BY <1>6 DEF ReadUsage
<1>7. ASSUME NEW w \in Runs, ReadUsageOverCap(w) PROVE OpenOutcomes'
  BY <1>7 DEF ReadUsageOverCap
<1>8. ASSUME NEW w \in Runs, PublishUsage(w) PROVE OpenOutcomes'
  BY <1>8 DEF PublishUsage
<1>9. ASSUME NEW w \in Runs, Settle(w) PROVE OpenOutcomes'
  BY <1>9 DEF Settle, SettleFromEvidence
<1>10. ASSUME NEW w \in Runs, Deliver(w) PROVE OpenOutcomes'
  BY <1>10 DEF Deliver
<1>11. ASSUME NEW w \in Runs, PublishUnknown(w) PROVE OpenOutcomes'
  BY <1>11 DEF PublishUnknown
<1>12. ASSUME NEW w \in Runs, RecordUnknown(w) PROVE OpenOutcomes'
  BY <1>12 DEF RecordUnknown
<1>13. ASSUME NEW w \in Runs, Fail(w) PROVE OpenOutcomes'
  BY <1>13 DEF Fail, AfterFailure
<1>14. ASSUME NEW w \in Runs, StopBeforeSend(w) PROVE OpenOutcomes'
  BY <1>14 DEF StopBeforeSend
<1>15. ASSUME NEW w \in Runs, LoseFence(w) PROVE OpenOutcomes'
  BY <1>15 DEF LoseFence
<1>16. ASSUME NEW w \in Runs, Abort(w) PROVE OpenOutcomes'
  BY <1>16 DEF Abort
<1>17. ASSUME NEW o \in Ops, PublishGrant(o) PROVE OpenOutcomes'
  BY <1>17 DEF PublishGrant
<1>18. ASSUME NEW o \in Ops, WithdrawGrant(o) PROVE OpenOutcomes'
  BY <1>18 DEF WithdrawGrant
<1>19. ASSUME NEW o \in Ops, Reserve(o) PROVE OpenOutcomes'
  BY <1>19 DEF Reserve
<1>20. ASSUME NEW o \in Ops, Cancel(o) PROVE OpenOutcomes'
  BY <1>20 DEF Cancel
<1>21. ASSUME NEW o \in Ops, ProviderBills(o) PROVE OpenOutcomes'
  BY <1>21 DEF ProviderBills
<1>22. ASSUME NEW o \in Ops, QueryStatus(o) PROVE OpenOutcomes'
  BY <1>22 DEF QueryStatus, SettleFromEvidence
<1>23. ASSUME NEW h \in Hosts, Crash(h) PROVE OpenOutcomes'
  BY <1>23 DEF Crash
<1>24. CASE UNCHANGED vars
  BY <1>24 DEF vars
<1>. QED
  BY <1>1, <1>2, <1>3, <1>4, <1>5, <1>6, <1>7, <1>8, <1>9, <1>10, <1>11, <1>12,
     <1>13, <1>14, <1>15, <1>16, <1>17, <1>18, <1>19, <1>20, <1>21, <1>22, <1>23, <1>24 DEF Next, RunStep

\* Rows leave a ticket's holder only by the evidence it publishes.
LEMMA PaymentStep ==
  ASSUME IInv, [Next]_vars PROVE Payments'
<1>. USE DispatchAssumption, IInv
     DEF IInv, TypeOK, Tickets, Ticketed, LedgerAgreesWithEvidence, OpenOutcomes, Payments, RowStates,
     Steps, Finished, Outstanding, NoBill, At, Goto, Commits, LedgerFree, ledgerVars, evidenceVars, runVars, providerVars
<1>1. ASSUME NEW w \in Runs, Claim(w) PROVE Payments'
  BY <1>1 DEF Claim
<1>2. ASSUME NEW w \in Runs, RecordDispatched(w) PROVE Payments'
  BY <1>2 DEF RecordDispatched
<1>3. ASSUME NEW w \in Runs, OpenFence(w) PROVE Payments'
  BY <1>3 DEF OpenFence
<1>4. ASSUME NEW w \in Runs, Send(w) PROVE Payments'
  BY <1>4 DEF Send
<1>5. ASSUME NEW w \in Runs, CloseFence(w) PROVE Payments'
  BY <1>5 DEF CloseFence
<1>6. ASSUME NEW w \in Runs, ReadUsage(w) PROVE Payments'
  BY <1>6 DEF ReadUsage
<1>7. ASSUME NEW w \in Runs, ReadUsageOverCap(w) PROVE Payments'
  BY <1>7 DEF ReadUsageOverCap
<1>8. ASSUME NEW w \in Runs, PublishUsage(w) PROVE Payments'
  BY <1>8 DEF PublishUsage
<1>9. ASSUME NEW w \in Runs, Settle(w) PROVE Payments'
  BY <1>9 DEF Settle, SettleFromEvidence
<1>10. ASSUME NEW w \in Runs, Deliver(w) PROVE Payments'
  BY <1>10 DEF Deliver
<1>11. ASSUME NEW w \in Runs, PublishUnknown(w) PROVE Payments'
  BY <1>11 DEF PublishUnknown
<1>12. ASSUME NEW w \in Runs, RecordUnknown(w) PROVE Payments'
  BY <1>12 DEF RecordUnknown
<1>13. ASSUME NEW w \in Runs, Fail(w) PROVE Payments'
  BY <1>13 DEF Fail, AfterFailure
<1>14. ASSUME NEW w \in Runs, StopBeforeSend(w) PROVE Payments'
  BY <1>14 DEF StopBeforeSend
<1>15. ASSUME NEW w \in Runs, LoseFence(w) PROVE Payments'
  BY <1>15 DEF LoseFence
<1>16. ASSUME NEW w \in Runs, Abort(w) PROVE Payments'
  BY <1>16 DEF Abort
<1>17. ASSUME NEW o \in Ops, PublishGrant(o) PROVE Payments'
  BY <1>17 DEF PublishGrant
<1>18. ASSUME NEW o \in Ops, WithdrawGrant(o) PROVE Payments'
  BY <1>18 DEF WithdrawGrant
<1>19. ASSUME NEW o \in Ops, Reserve(o) PROVE Payments'
  BY <1>19 DEF Reserve
<1>20. ASSUME NEW o \in Ops, Cancel(o) PROVE Payments'
  BY <1>20 DEF Cancel
<1>21. ASSUME NEW o \in Ops, ProviderBills(o) PROVE Payments'
  BY <1>21 DEF ProviderBills
<1>22. ASSUME NEW o \in Ops, QueryStatus(o) PROVE Payments'
  BY <1>22 DEF QueryStatus, SettleFromEvidence
<1>23. ASSUME NEW h \in Hosts, Crash(h) PROVE Payments'
  BY <1>23 DEF Crash
<1>24. CASE UNCHANGED vars
  BY <1>24 DEF vars
<1>. QED
  BY <1>1, <1>2, <1>3, <1>4, <1>5, <1>6, <1>7, <1>8, <1>9, <1>10, <1>11, <1>12,
     <1>13, <1>14, <1>15, <1>16, <1>17, <1>18, <1>19, <1>20, <1>21, <1>22, <1>23, <1>24 DEF Next, RunStep

\* Grants are withdrawn under the ledger's lock, which the fence holds.
LEMMA FenceStep == ASSUME TypeOK, Fenced, [Next]_vars PROVE Fenced'
<1>. USE DispatchAssumption, TypeOK, Fenced
     DEF TypeOK, Fenced, At, Goto, Commits, LedgerFree, ledgerVars, evidenceVars, runVars, providerVars
<1>1. ASSUME NEW w \in Runs, Claim(w) PROVE Fenced'
  BY <1>1 DEF Claim
<1>2. ASSUME NEW w \in Runs, RecordDispatched(w) PROVE Fenced'
  BY <1>2 DEF RecordDispatched
<1>3. ASSUME NEW w \in Runs, OpenFence(w) PROVE Fenced'
  BY <1>3 DEF OpenFence
<1>4. ASSUME NEW w \in Runs, Send(w) PROVE Fenced'
  BY <1>4 DEF Send
<1>5. ASSUME NEW w \in Runs, CloseFence(w) PROVE Fenced'
  BY <1>5 DEF CloseFence
<1>6. ASSUME NEW w \in Runs, ReadUsage(w) PROVE Fenced'
  BY <1>6 DEF ReadUsage
<1>7. ASSUME NEW w \in Runs, ReadUsageOverCap(w) PROVE Fenced'
  BY <1>7 DEF ReadUsageOverCap
<1>8. ASSUME NEW w \in Runs, PublishUsage(w) PROVE Fenced'
  BY <1>8 DEF PublishUsage
<1>9. ASSUME NEW w \in Runs, Settle(w) PROVE Fenced'
  BY <1>9 DEF Settle, SettleFromEvidence
<1>10. ASSUME NEW w \in Runs, Deliver(w) PROVE Fenced'
  BY <1>10 DEF Deliver
<1>11. ASSUME NEW w \in Runs, PublishUnknown(w) PROVE Fenced'
  BY <1>11 DEF PublishUnknown
<1>12. ASSUME NEW w \in Runs, RecordUnknown(w) PROVE Fenced'
  BY <1>12 DEF RecordUnknown
<1>13. ASSUME NEW w \in Runs, Fail(w) PROVE Fenced'
  BY <1>13 DEF Fail, AfterFailure
<1>14. ASSUME NEW w \in Runs, StopBeforeSend(w) PROVE Fenced'
  BY <1>14 DEF StopBeforeSend
<1>15. ASSUME NEW w \in Runs, LoseFence(w) PROVE Fenced'
  BY <1>15 DEF LoseFence
<1>16. ASSUME NEW w \in Runs, Abort(w) PROVE Fenced'
  BY <1>16 DEF Abort
<1>17. ASSUME NEW o \in Ops, PublishGrant(o) PROVE Fenced'
  BY <1>17 DEF PublishGrant
<1>18. ASSUME NEW o \in Ops, WithdrawGrant(o) PROVE Fenced'
  BY <1>18 DEF WithdrawGrant
<1>19. ASSUME NEW o \in Ops, Reserve(o) PROVE Fenced'
  BY <1>19 DEF Reserve
<1>20. ASSUME NEW o \in Ops, Cancel(o) PROVE Fenced'
  BY <1>20 DEF Cancel
<1>21. ASSUME NEW o \in Ops, ProviderBills(o) PROVE Fenced'
  BY <1>21 DEF ProviderBills
<1>22. ASSUME NEW o \in Ops, QueryStatus(o) PROVE Fenced'
  BY <1>22 DEF QueryStatus, SettleFromEvidence
<1>23. ASSUME NEW h \in Hosts, Crash(h) PROVE Fenced'
  BY <1>23 DEF Crash
<1>24. CASE UNCHANGED vars
  BY <1>24 DEF vars
<1>. QED
  BY <1>1, <1>2, <1>3, <1>4, <1>5, <1>6, <1>7, <1>8, <1>9, <1>10, <1>11, <1>12,
     <1>13, <1>14, <1>15, <1>16, <1>17, <1>18, <1>19, <1>20, <1>21, <1>22, <1>23, <1>24 DEF Next, RunStep

\* The invariant holds in every reachable state.
LEMMA Inductive == Spec => []IInv
<1>1. IInv /\ [Next]_vars => IInv'
  BY TypeStep, TicketStep, AgreementStep, OutcomeStep, PaymentStep, FenceStep DEF IInv
<1>. QED  BY Initially, <1>1, PTL DEF Spec

-----------------------------------------------------------------------------
\* Rows, evidence, runs and the fence always have their types.
THEOREM DispatchTypeCorrect == Spec => []TypeOK
<1>1. IInv => TypeOK  BY DEF IInv
<1>. QED  BY Inductive, <1>1, PTL

\* The provider is asked at most once for an operation, however many runs are
\* started for it and wherever they crash.
THEOREM AtMostOneSend == Spec => []SentOnce
<1>1. IInv => SentOnce  BY DEF IInv, Tickets, SentOnce
<1>. QED  BY Inductive, <1>1, PTL

\* The ledger's rows and the recorded evidence never contradict each other.
THEOREM Agreement == Spec => []LedgerAgreesWithEvidence
<1>1. IInv => LedgerAgreesWithEvidence  BY DEF IInv
<1>. QED  BY Inductive, <1>1, PTL

\* No operation is recorded both as settled and as unknown.
THEOREM OneOutcome == Spec => []OutcomeIsDecidedOnce
<1>1. IInv => OutcomeIsDecidedOnce  BY DEF IInv, OpenOutcomes
<1>. QED  BY Inductive, <1>1, PTL

\* Whatever is delivered was charged, at the provider's bill.
THEOREM PaidBeforeDelivery == Spec => []DeliveredIsPaid
<1>1. IInv => DeliveredIsPaid
  BY DispatchAssumption DEF IInv, TypeOK, LedgerAgreesWithEvidence, Payments, DeliveredIsPaid
<1>. QED  BY Inductive, <1>1, PTL

\* While its connection stands, the fence lets a request out only under a
\* current grant and for a row the ledger dispatched.
THEOREM AuthorizedSends == Spec => SendsUnderAuthority
<1>1. ASSUME IInv, [Next]_vars
      PROVE \A w \in Runs : (fence = w /\ sends'[OpOf[w]] > sends[OpOf[w]]) =>
              grant[OpOf[w]] = "current" /\ row[OpOf[w]] = "DISPATCHED"
  BY <1>1, DispatchAssumption DEF IInv, TypeOK, Payments, Fenced
<1>2. IInv /\ [Next]_vars =>
        [\A w \in Runs : (fence = w /\ sends'[OpOf[w]] > sends[OpOf[w]]) =>
           grant[OpOf[w]] = "current" /\ row[OpOf[w]] = "DISPATCHED"]_vars
  BY <1>1
<1>. QED  BY Inductive, <1>2, PTL DEF Spec, SendsUnderAuthority

-----------------------------------------------------------------------------
\* A step makes at most one more operation occupy the provider, and only while
\* there is room.
LEMMA OccupiedStep ==
  ASSUME IInv, [Next]_vars
  PROVE  \/ Occupied' \subseteq Occupied
         \/ \E o \in Ops : /\ Occupied' \subseteq Occupied \cup {o}
                           /\ Cardinality(Occupied) < MaxConcurrent
<1>. DEFINE Goal == \/ Occupied' \subseteq Occupied
                    \/ \E o \in Ops : /\ Occupied' \subseteq Occupied \cup {o}
                                      /\ Cardinality(Occupied) < MaxConcurrent
<1>. USE DispatchAssumption, IInv DEF IInv, TypeOK, LedgerAgreesWithEvidence, OpenOutcomes, Payments,
     Outstanding, At, Goto, Commits, LedgerFree, ledgerVars, evidenceVars, runVars, providerVars
<1>1. ASSUME NEW w \in Runs, Claim(w) PROVE Goal
  BY <1>1 DEF Claim, Occupied
<1>2. ASSUME NEW w \in Runs, RecordDispatched(w) PROVE Goal
  BY <1>2 DEF RecordDispatched, Occupied
<1>3. ASSUME NEW w \in Runs, OpenFence(w) PROVE Goal
  BY <1>3 DEF OpenFence, Occupied
<1>4. ASSUME NEW w \in Runs, Send(w) PROVE Goal
  BY <1>4 DEF Send, Occupied
<1>5. ASSUME NEW w \in Runs, CloseFence(w) PROVE Goal
  BY <1>5 DEF CloseFence, Occupied
<1>6. ASSUME NEW w \in Runs, ReadUsage(w) PROVE Goal
  BY <1>6 DEF ReadUsage, Occupied
<1>7. ASSUME NEW w \in Runs, ReadUsageOverCap(w) PROVE Goal
  BY <1>7 DEF ReadUsageOverCap, Occupied
<1>8. ASSUME NEW w \in Runs, PublishUsage(w) PROVE Goal
  BY <1>8 DEF PublishUsage, Occupied
<1>9. ASSUME NEW w \in Runs, Settle(w) PROVE Goal
  BY <1>9 DEF Settle, SettleFromEvidence, Occupied
<1>10. ASSUME NEW w \in Runs, Deliver(w) PROVE Goal
  BY <1>10 DEF Deliver, Occupied
<1>11. ASSUME NEW w \in Runs, PublishUnknown(w) PROVE Goal
  BY <1>11 DEF PublishUnknown, Occupied
<1>12. ASSUME NEW w \in Runs, RecordUnknown(w) PROVE Goal
  BY <1>12 DEF RecordUnknown, Occupied
<1>13. ASSUME NEW w \in Runs, Fail(w) PROVE Goal
  BY <1>13 DEF Fail, AfterFailure, Occupied
<1>14. ASSUME NEW w \in Runs, StopBeforeSend(w) PROVE Goal
  BY <1>14 DEF StopBeforeSend, Occupied
<1>15. ASSUME NEW w \in Runs, LoseFence(w) PROVE Goal
  BY <1>15 DEF LoseFence, Occupied
<1>16. ASSUME NEW w \in Runs, Abort(w) PROVE Goal
  BY <1>16 DEF Abort, Occupied
<1>17. ASSUME NEW o \in Ops, PublishGrant(o) PROVE Goal
  BY <1>17 DEF PublishGrant, Occupied
<1>18. ASSUME NEW o \in Ops, WithdrawGrant(o) PROVE Goal
  BY <1>18 DEF WithdrawGrant, Occupied
<1>19. ASSUME NEW o \in Ops, Reserve(o) PROVE Goal
  BY <1>19 DEF Reserve, Occupied
<1>20. ASSUME NEW o \in Ops, Cancel(o) PROVE Goal
  BY <1>20 DEF Cancel, Occupied
<1>21. ASSUME NEW o \in Ops, ProviderBills(o) PROVE Goal
  BY <1>21 DEF ProviderBills, Occupied
<1>22. ASSUME NEW o \in Ops, QueryStatus(o) PROVE Goal
  BY <1>22 DEF QueryStatus, SettleFromEvidence, Occupied
<1>23. ASSUME NEW h \in Hosts, Crash(h) PROVE Goal
  BY <1>23 DEF Crash, Occupied
<1>24. CASE UNCHANGED vars
  BY <1>24 DEF vars, Occupied
<1>. QED
  BY <1>1, <1>2, <1>3, <1>4, <1>5, <1>6, <1>7, <1>8, <1>9, <1>10, <1>11, <1>12,
     <1>13, <1>14, <1>15, <1>16, <1>17, <1>18, <1>19, <1>20, <1>21, <1>22, <1>23, <1>24 DEF Next, RunStep

\* The provider is never asked for more operations than configured.
LEMMA CapacityStep ==
  ASSUME IInv, [Next]_vars, Cardinality(Occupied) <= MaxConcurrent
  PROVE  Cardinality(Occupied') <= MaxConcurrent
<1>1. IsFiniteSet(Occupied)
  BY FS_Subset, DispatchAssumption DEF Occupied
<1>2. Cardinality(Occupied) \in Nat
  BY <1>1, FS_CardinalityType
<1>3. CASE Occupied' \subseteq Occupied
  BY <1>1, <1>2, <1>3, FS_Subset, FS_CardinalityType, DispatchAssumption
<1>4. ASSUME NEW o \in Ops, Occupied' \subseteq Occupied \cup {o},
             Cardinality(Occupied) < MaxConcurrent
      PROVE  Cardinality(Occupied') <= MaxConcurrent
  <2>1. /\ IsFiniteSet(Occupied \cup {o})
        /\ Cardinality(Occupied \cup {o}) <= Cardinality(Occupied) + 1
    BY <1>1, <1>2, FS_AddElement
  <2>2. /\ Cardinality(Occupied') <= Cardinality(Occupied \cup {o})
        /\ Cardinality(Occupied') \in Nat /\ Cardinality(Occupied \cup {o}) \in Nat
    BY <1>4, <2>1, FS_Subset, FS_CardinalityType
  <2>. QED  BY <1>2, <1>4, <2>1, <2>2, DispatchAssumption
<1>. QED  BY OccupiedStep, <1>3, <1>4

\* No more operations occupy the provider than the gateway is configured for.
THEOREM CapacityKept == Spec => []WithinCapacity
<1>. DEFINE Vacancy == Cardinality(Occupied) <= MaxConcurrent
<1>1. Init => Vacancy
  <2>1. Init => Occupied = {}  BY DEF Init, Occupied, Outstanding
  <2>. QED  BY <2>1, FS_EmptySet, DispatchAssumption
<1>2. IInv /\ Vacancy /\ [Next]_vars => Vacancy'
  BY CapacityStep
<1>3. IInv /\ Vacancy => WithinCapacity
  <2>. SUFFICES ASSUME IInv, Vacancy PROVE WithinCapacity
    OBVIOUS
  <2>. DEFINE Asked == {o \in Ops : sends[o] > 0 /\ row[o] # "SETTLED"}
  <2>1. Asked \subseteq Occupied
    BY DEF IInv, Payments, Occupied
  <2>2. IsFiniteSet(Occupied)
    BY FS_Subset, DispatchAssumption DEF Occupied
  <2>3. Cardinality(Asked) <= Cardinality(Occupied)
        /\ Cardinality(Asked) \in Nat /\ Cardinality(Occupied) \in Nat
    BY <2>1, <2>2, FS_Subset, FS_CardinalityType
  <2>. QED  BY <2>3, DispatchAssumption DEF WithinCapacity
<1>. QED  BY Inductive, <1>1, <1>2, <1>3, PTL DEF Spec

-----------------------------------------------------------------------------
(***************************************************************************)
(* ProviderDispatch implements PaidOperation: each of its steps is a       *)
(* hold, a send, a bill, a release or a charge of one operation, or        *)
(* leaves the payer's view as it is.                                       *)
(***************************************************************************)

\* What a row is to the payer, before and after a step.
LEMMA HoldFacts ==
  ASSUME TypeOK, NEW o \in Ops
  PROVE  /\ row[o] = "ABSENT" => HoldOf(o) = "none"
         /\ row[o] = "CANCELLED_BEFORE_DISPATCH" => HoldOf(o) = "released"
         /\ row[o] = "SETTLED" => HoldOf(o) = "charged"
         /\ row[o] \in {"RESERVED"} \cup Outstanding => HoldOf(o) = "held"
BY DEF TypeOK, RowStates, HoldOf, Outstanding

LEMMA HoldFactsNext ==
  ASSUME TypeOK', NEW o \in Ops
  PROVE  /\ row'[o] = "ABSENT" => HoldOf(o)' = "none"
         /\ row'[o] = "CANCELLED_BEFORE_DISPATCH" => HoldOf(o)' = "released"
         /\ row'[o] = "SETTLED" => HoldOf(o)' = "charged"
         /\ row'[o] \in {"RESERVED"} \cup Outstanding => HoldOf(o)' = "held"
BY DEF TypeOK, RowStates, HoldOf, Outstanding

\* A step that keeps every row's hold keeps the view of the holds.
LEMMA SameHolds ==
  ASSUME \A o \in Ops : HoldOf(o)' = HoldOf(o)
  PROVE  [o \in Ops |-> HoldOf(o)]' = [o \in Ops |-> HoldOf(o)]
OBVIOUS

\* A step that changes one row changes one hold.
LEMMA OneHold ==
  ASSUME NEW o \in Ops, NEW hold, HoldOf(o)' = hold,
         \A p \in Ops \ {o} : HoldOf(p)' = HoldOf(p)
  PROVE  [p \in Ops |-> HoldOf(p)]' = [[p \in Ops |-> HoldOf(p)] EXCEPT ![o] = hold]
OBVIOUS

\* Nothing the payer sees changes.
View == <<[o \in Ops |-> HoldOf(o)], sends, bill, charge>>

LEMMA Stutters ==
  ASSUME UNCHANGED <<row, charge, sends, bill>> PROVE UNCHANGED View
BY DEF View, HoldOf

-----------------------------------------------------------------------------
\* The initial state is the abstract one.
LEMMA InitImplements == Init => Paid!Init
BY DEF Init, Paid!Init, HoldOf, NoBill, Paid!NoBill

\* An admitted reservation holds the money.
LEMMA ReserveImplements ==
  ASSUME IInv, IInv', NEW o \in Ops, Reserve(o) PROVE Paid!Hold(o)
<1>1. HoldOf(o) = "none" /\ HoldOf(o)' = "held"
  BY HoldFacts, HoldFactsNext DEF Reserve, IInv, TypeOK
<1>2. \A p \in Ops \ {o} : HoldOf(p)' = HoldOf(p)
  BY DEF Reserve, IInv, TypeOK, HoldOf
<1>. QED  BY <1>1, <1>2, OneHold DEF Paid!Hold, Reserve, ledgerVars, providerVars

\* A cancelled row was never sent: its evidence is empty.
LEMMA CancelImplements ==
  ASSUME IInv, IInv', NEW o \in Ops, Cancel(o) PROVE Paid!Release(o)
<1>1. HoldOf(o) = "held" /\ HoldOf(o)' = "released"
  BY HoldFacts, HoldFactsNext DEF Cancel, IInv, TypeOK
<1>2. \A p \in Ops \ {o} : HoldOf(p)' = HoldOf(p)
  BY DEF Cancel, IInv, TypeOK, HoldOf
<1>3. sends[o] = 0
  BY DEF Cancel, IInv, TypeOK, Tickets
<1>. QED  BY <1>1, <1>2, <1>3, OneHold DEF Paid!Release, Cancel, ledgerVars, providerVars

\* A request leaves the fence only for a dispatched row, never asked before.
LEMMA SendImplements ==
  ASSUME IInv, IInv', NEW w \in Runs, Send(w) PROVE Paid!Send(OpOf[w])
<1>. DEFINE o == OpOf[w]
<1>1. o \in Ops  BY DispatchAssumption
<1>2. HoldOf(o) = "held"
  BY <1>1, HoldFacts DEF Send, At, IInv, Payments, Outstanding
<1>3. sends[o] = 0
  BY <1>1 DEF Send, At, IInv, Tickets
<1>4. sends' = [sends EXCEPT ![o] = 1]
  <2>1. sends' = [sends EXCEPT ![o] = sends[o] + 1]  BY DEF Send
  <2>2. sends[o] + 1 = 1  BY <1>3
  <2>. QED  BY <2>1, <2>2
<1>5. \A p \in Ops : HoldOf(p)' = HoldOf(p)
  BY DEF Send, ledgerVars, HoldOf
<1>. QED  BY <1>1, <1>2, <1>3, <1>4, <1>5, SameHolds DEF Paid!Send, Send, ledgerVars

\* The provider bills what it was asked once.
LEMMA BillImplements ==
  ASSUME IInv, IInv', NEW o \in Ops, ProviderBills(o) PROVE Paid!Bill(o)
<1>1. sends[o] = 1  BY DEF ProviderBills, IInv, TypeOK, Tickets
<1>2. bill'[o] \in Nat /\ bill' = [bill EXCEPT ![o] = bill'[o]]
  BY DispatchAssumption DEF ProviderBills, IInv, TypeOK
<1>3. \A p \in Ops : HoldOf(p)' = HoldOf(p)
  BY DEF ProviderBills, ledgerVars, HoldOf
<1>. QED
  BY <1>1, <1>2, <1>3, SameHolds
  DEF Paid!Bill, ProviderBills, ledgerVars, NoBill, Paid!NoBill

\* Settling charges the bill the evidence carries, of an operation sent once.
LEMMA SettleImplements ==
  ASSUME IInv, IInv', NEW o \in Ops, SettleFromEvidence(o), UNCHANGED <<sends, bill>>
  PROVE  Paid!Charge(o)
<1>1. HoldOf(o) = "held" /\ HoldOf(o)' = "charged"
  BY HoldFacts, HoldFactsNext DEF SettleFromEvidence, IInv, TypeOK
<1>2. \A p \in Ops \ {o} : HoldOf(p)' = HoldOf(p)
  BY DEF SettleFromEvidence, IInv, TypeOK, HoldOf
<1>3. usage[o] = bill[o] /\ bill[o] # NoBill /\ bill[o] <= Bound
  BY DEF SettleFromEvidence, IInv, Payments
<1>4. sends[o] = 1
  BY <1>3 DEF IInv, TypeOK, Payments, Tickets
<1>. QED
  BY <1>1, <1>2, <1>3, <1>4, OneHold DEF Paid!Charge, SettleFromEvidence, NoBill, Paid!NoBill

\* Dispatching a row, or recording its outcome as unknown, keeps its hold.
LEMMA RecordImplements ==
  ASSUME IInv, IInv', NEW w \in Runs, RecordDispatched(w) \/ RecordUnknown(w)
  PROVE  UNCHANGED View
<1>. DEFINE o == OpOf[w]
<1>1. o \in Ops  BY DispatchAssumption
<1>2. HoldOf(o) = "held"
  BY <1>1, HoldFacts DEF RecordDispatched, RecordUnknown, IInv, Outstanding
<1>3. HoldOf(o)' = "held"
  BY <1>1, HoldFactsNext DEF RecordDispatched, RecordUnknown, IInv, TypeOK, Outstanding
<1>4. \A p \in Ops : HoldOf(p)' = HoldOf(p)
  BY <1>1, <1>2, <1>3 DEF RecordDispatched, RecordUnknown, IInv, TypeOK, HoldOf
<1>. QED
  BY <1>4, SameHolds DEF View, RecordDispatched, RecordUnknown, providerVars

-----------------------------------------------------------------------------
\* Every step of the system is a step of the promise, or none.
LEMMA StepImplements ==
  ASSUME IInv, IInv', [Next]_vars PROVE Paid!Next \/ UNCHANGED View
<1>1. CASE \E o \in Ops : Reserve(o) \/ Cancel(o) \/ ProviderBills(o)
  BY <1>1, ReserveImplements, CancelImplements, BillImplements DEF Paid!Next
<1>2. CASE \E o \in Ops : QueryStatus(o)
  <2>. PICK o \in Ops : QueryStatus(o)  BY <1>2
  <2>. QED  BY SettleImplements DEF QueryStatus, providerVars, Paid!Next
<1>3. CASE \E w \in Runs : Send(w)
  BY <1>3, SendImplements, DispatchAssumption DEF Paid!Next
<1>4. CASE \E w \in Runs : Settle(w)
  <2>. PICK w \in Runs : Settle(w)  BY <1>4
  <2>1. CASE SettleFromEvidence(OpOf[w])
    BY <2>1, SettleImplements, DispatchAssumption DEF Settle, providerVars, Paid!Next
  <2>2. CASE UNCHANGED ledgerVars
    BY <2>2, Stutters DEF Settle, ledgerVars, providerVars
  <2>. QED  BY <2>1, <2>2 DEF Settle
<1>5. CASE \E w \in Runs : RecordDispatched(w) \/ RecordUnknown(w)
  BY <1>5, RecordImplements
<1>6. CASE \E w \in Runs :
             \/ Claim(w) \/ OpenFence(w) \/ CloseFence(w) \/ ReadUsage(w) \/ ReadUsageOverCap(w)
             \/ PublishUsage(w) \/ Deliver(w) \/ PublishUnknown(w) \/ Fail(w) \/ StopBeforeSend(w)
             \/ LoseFence(w) \/ Abort(w)
  BY <1>6, Stutters
  DEF Claim, OpenFence, CloseFence, ReadUsage, ReadUsageOverCap, PublishUsage, Deliver,
      PublishUnknown, Fail, StopBeforeSend, LoseFence, Abort, ledgerVars, providerVars
<1>7. CASE \/ \E o \in Ops : PublishGrant(o) \/ WithdrawGrant(o)
           \/ \E h \in Hosts : Crash(h)
           \/ UNCHANGED vars
  BY <1>7, Stutters DEF PublishGrant, WithdrawGrant, Crash, vars, ledgerVars, providerVars
<1>. QED  BY <1>1, <1>2, <1>3, <1>4, <1>5, <1>6, <1>7 DEF Next, RunStep

\* The gateway implements what it promises the payer: an operation is sent at
\* most once, its hold is released only unsent, and its charge is its bill.
THEOREM Implementation == Spec => ImplementsPaidOperation
<1>1. IInv /\ IInv' /\ [Next]_vars => [Paid!Next]_View
  BY StepImplements
<1>. QED
  BY Inductive, InitImplements, <1>1, PTL DEF Spec, ImplementsPaidOperation, Paid!Spec, View

-----------------------------------------------------------------------------
(***************************************************************************)
(* SnapshotCapacity, for rows, parts and limits of every size: no outcome  *)
(* of an admitted operation is refused for want of bytes.                  *)
(*                                                                         *)
(* The argument is about sets of cells, not about numbers: what a row can  *)
(* still become only shrinks when the row is written (StepShrinks), so the *)
(* footprint never grows between two admissions, and every snapshot is a   *)
(* subset of the footprint of the snapshot before it.                      *)
(***************************************************************************)
RowOK(entry) == entry \in Rows /\ \A p \in Parts : entry.parts[p] <= PartBound[p]
TableOK(table) ==
  /\ table \in [Operations -> {Absent} \cup Rows]
  /\ \A o \in Operations : \A p \in Parts : table[o].parts[p] <= PartBound[p]

LEMMA PresentRow ==
  ASSUME NEW table, TableOK(table), NEW o \in Present(table)
  PROVE  o \in Operations /\ RowOK(table[o])
<1>1. o \in Operations /\ table[o].state # "ABSENT" BY DEF Present
<1>2. table[o] \in {Absent} \cup Rows BY <1>1 DEF TableOK
<1>3. table[o] # Absent BY <1>1 DEF Absent
<1> QED BY <1>1, <1>2, <1>3 DEF TableOK, RowOK

LEMMA PartsType == ASSUME NEW entry, RowOK(entry)
  PROVE  /\ entry.state \in States /\ entry.parts \in [Parts -> Nat]
         /\ NameBytes[entry.state] \in Nat /\ NameBytes[entry.state] <= Longest
         /\ Longest \in Nat /\ PartBound \in [Parts -> Nat]
BY SizeAssumption DEF RowOK, Rows, Longest, States

-----------------------------------------------------------------------------
\* Cells grow with the numbers they stand for.

LEMMA PartMono ==
  ASSUME NEW o, NEW a \in [Parts -> Nat], NEW b \in [Parts -> Nat],
         \A p \in Parts : a[p] <= b[p]
  PROVE  PartCells(o, a) \subseteq PartCells(o, b)
<1>1. \A p \in Parts : 1 .. a[p] \subseteq 1 .. b[p] OBVIOUS
<1>2. SUFFICES ASSUME NEW c \in PartCells(o, a) PROVE c \in PartCells(o, b) OBVIOUS
<1>3. PICK p \in Parts : c \in {o} \X {p} \X (1 .. a[p]) BY <1>2 DEF PartCells
<1>4. c \in {o} \X {p} \X (1 .. b[p]) BY <1>1, <1>3
<1> QED BY <1>4 DEF PartCells

LEMMA FixedMono ==
  ASSUME NEW o \in Operations, NEW m \in Nat, NEW n \in Nat, m <= n
  PROVE  FixedCells(o, m) \subseteq FixedCells(o, n)
<1>1. Fixed[o] \in Nat BY SizeAssumption
<1>2. 1 .. (Fixed[o] + m) \subseteq 1 .. (Fixed[o] + n) BY <1>1
<1> QED BY <1>2 DEF FixedCells

-----------------------------------------------------------------------------
\* Every cell lies in one finite box.

MaxByte == MaxFixed + Longest + ClockBytes
           + PartBound["dispatched"] + PartBound["unknown"] + PartBound["settlement"]
           + PartBound["settledAt"] + PartBound["committed"] + PartBound["resolution"]
Box == ((Operations \cup {"lastNow"}) \X (Parts \cup {"fixed"})) \X (1 .. MaxByte)
Cells == {<<c[1][1], c[1][2], c[2]>> : c \in Box}

LEMMA MaxByteBounds ==
  /\ MaxByte \in Nat /\ ClockBytes <= MaxByte
  /\ \A p \in Parts : PartBound[p] <= MaxByte
  /\ \A o \in Operations : Fixed[o] + Longest <= MaxByte
<1>1. MaxFixed \in Nat /\ ClockBytes \in Nat /\ Longest \in Nat
  BY SizeAssumption DEF Longest, States
<1>2. \A p \in Parts : PartBound[p] \in Nat BY SizeAssumption
<1>3. /\ PartBound["dispatched"] \in Nat /\ PartBound["unknown"] \in Nat
      /\ PartBound["settlement"] \in Nat /\ PartBound["settledAt"] \in Nat
      /\ PartBound["committed"] \in Nat /\ PartBound["resolution"] \in Nat
  BY <1>2 DEF Parts
<1>4. MaxByte \in Nat /\ ClockBytes <= MaxByte BY <1>1, <1>3 DEF MaxByte
<1>5. \A p \in Parts : PartBound[p] <= MaxByte BY <1>1, <1>3 DEF MaxByte, Parts
<1>6. \A o \in Operations : Fixed[o] \in Nat /\ Fixed[o] <= MaxFixed BY SizeAssumption
<1>7. \A o \in Operations : Fixed[o] + Longest <= MaxByte BY <1>1, <1>3, <1>6 DEF MaxByte
<1> QED BY <1>4, <1>5, <1>7

LEMMA CellsFinite == IsFiniteSet(Cells)
<1>1. IsFiniteSet(Operations \cup {"lastNow"}) BY SizeAssumption, FS_AddElement
<1>2. IsFiniteSet(Parts \cup {"fixed"})
  <2>1. IsFiniteSet({"fixed"}) BY FS_Singleton
  <2>2. IsFiniteSet({"fixed"} \cup {"dispatched"}) BY <2>1, FS_AddElement
  <2>3. IsFiniteSet({"fixed"} \cup {"dispatched"} \cup {"unknown"}) BY <2>2, FS_AddElement
  <2> DEFINE S == {"fixed"} \cup {"dispatched"} \cup {"unknown"}
             T == S \cup {"settlement"} \cup {"settledAt"}
  <2>4. IsFiniteSet(S) BY <2>3
  <2>5. IsFiniteSet(S \cup {"settlement"}) BY <2>4, FS_AddElement
  <2>6. IsFiniteSet(T) BY <2>5, FS_AddElement
  <2>7. IsFiniteSet(T \cup {"committed"}) BY <2>6, FS_AddElement
  <2>8. IsFiniteSet(T \cup {"committed"} \cup {"resolution"}) BY <2>7, FS_AddElement
  <2>9. Parts \cup {"fixed"} = T \cup {"committed"} \cup {"resolution"} BY DEF Parts
  <2> QED BY <2>8, <2>9
<1>3. IsFiniteSet(1 .. MaxByte) BY MaxByteBounds, FS_Interval
<1>4. IsFiniteSet((Operations \cup {"lastNow"}) \X (Parts \cup {"fixed"})) BY <1>1, <1>2, FS_Product
<1>5. IsFiniteSet(Box) BY <1>3, <1>4, FS_Product DEF Box
<1> DEFINE f == [c \in Box |-> <<c[1][1], c[1][2], c[2]>>]
<1>6. f \in Surjection(Box, Cells) BY DEF Surjection, Cells
<1> QED BY <1>5, <1>6, FS_Surjection

LEMMA InCells ==
  ASSUME NEW x \in Operations \cup {"lastNow"}, NEW y \in Parts \cup {"fixed"}, NEW i \in 1 .. MaxByte
  PROVE  <<x, y, i>> \in Cells
<1> DEFINE c == <<<<x, y>>, i>>
<1>1. c \in Box BY DEF Box
<1>2. c[1][1] = x /\ c[1][2] = y /\ c[2] = i OBVIOUS
<1> HIDE DEF c
<1> QED BY <1>1, <1>2 DEF Cells

LEMMA FixedInCells ==
  ASSUME NEW o \in Operations, NEW n \in Nat, n <= Longest
  PROVE  FixedCells(o, n) \subseteq Cells
<1>1. Fixed[o] \in Nat /\ Longest \in Nat BY SizeAssumption DEF Longest, States
<1>2. 1 .. (Fixed[o] + n) \subseteq 1 .. MaxByte BY <1>1, MaxByteBounds
<1> QED BY <1>2, InCells DEF FixedCells

LEMMA PartInCells ==
  ASSUME NEW o \in Operations, NEW a \in [Parts -> Nat], \A p \in Parts : a[p] <= PartBound[p]
  PROVE  PartCells(o, a) \subseteq Cells
<1>1. \A p \in Parts : PartBound[p] \in Nat BY SizeAssumption
<1>2. \A p \in Parts : 1 .. a[p] \subseteq 1 .. MaxByte BY <1>1, MaxByteBounds
<1> QED BY <1>2, InCells DEF PartCells

LEMMA ClockInCells == ASSUME NEW n \in Nat, n <= ClockBytes PROVE ClockCells(n) \subseteq Cells
<1>1. ClockBytes \in Nat BY SizeAssumption
<1>2. 1 .. n \subseteq 1 .. MaxByte BY <1>1, MaxByteBounds
<1> QED BY <1>2, InCells DEF ClockCells

-----------------------------------------------------------------------------
\* A row, what it can still become, and what one write makes of it.

LEMMA FutureType ==
  ASSUME NEW o \in Operations, NEW entry, RowOK(entry)
  PROVE  /\ FutureParts(o, entry) \in [Parts -> Nat]
         /\ \A p \in Parts : /\ entry.parts[p] <= FutureParts(o, entry)[p]
                              /\ FutureParts(o, entry)[p] <= PartBound[p]
         /\ FutureResultParts(entry) \in [Parts -> Nat]
         /\ \A p \in Parts : /\ entry.parts[p] <= FutureResultParts(entry)[p]
                              /\ FutureResultParts(entry)[p] <= PartBound[p]
<1>1. entry.parts \in [Parts -> Nat] /\ PartBound \in [Parts -> Nat] BY PartsType
<1>2. \A p \in Parts : entry.parts[p] <= PartBound[p] BY DEF RowOK
<1> DEFINE a == entry.parts
<1> HIDE DEF a
<1>3. a \in [Parts -> Nat] /\ \A p \in Parts : a[p] <= PartBound[p] BY <1>1, <1>2 DEF a
<1>4. FutureParts(o, entry) = [p \in Parts |-> IF p = "resolution" /\ o \notin Anchors THEN a[p] ELSE PartBound[p]]
  BY DEF FutureParts, a
<1>5. FutureResultParts(entry) = [p \in Parts |-> IF p \in {"committed", "resolution"} THEN PartBound[p] ELSE a[p]]
  BY DEF FutureResultParts, a
<1>6. /\ FutureParts(o, entry) \in [Parts -> Nat]
      /\ \A p \in Parts : a[p] <= FutureParts(o, entry)[p] /\ FutureParts(o, entry)[p] <= PartBound[p]
  BY <1>1, <1>3, <1>4
<1>7. /\ FutureResultParts(entry) \in [Parts -> Nat]
      /\ \A p \in Parts : a[p] <= FutureResultParts(entry)[p] /\ FutureResultParts(entry)[p] <= PartBound[p]
  BY <1>1, <1>3, <1>5
<1> QED BY <1>6, <1>7 DEF a

LEMMA RowIsRecoverable ==
  ASSUME NEW o \in Operations, NEW entry, RowOK(entry)
  PROVE  RowCells(o, entry) \subseteq Recoverable(o, entry) /\ Recoverable(o, entry) \subseteq Cells
<1>1. /\ entry.parts \in [Parts -> Nat] /\ NameBytes[entry.state] \in Nat
      /\ NameBytes[entry.state] <= Longest /\ Longest \in Nat
  BY PartsType
<1>2. \A p \in Parts : entry.parts[p] <= PartBound[p] BY DEF RowOK
<1>3. RowCells(o, entry) \subseteq Cells BY <1>1, <1>2, FixedInCells, PartInCells DEF RowCells
<1>4. PartCells(o, entry.parts) \subseteq PartCells(o, FutureParts(o, entry))
  BY <1>1, FutureType, PartMono
<1>5. PartCells(o, entry.parts) \subseteq PartCells(o, FutureResultParts(entry))
  BY <1>1, FutureType, PartMono
<1>6. FixedCells(o, NameBytes[entry.state]) \subseteq FixedCells(o, Longest) BY <1>1, FixedMono
<1>7. PartCells(o, FutureParts(o, entry)) \subseteq Cells BY FutureType, PartInCells
<1>8. PartCells(o, FutureResultParts(entry)) \subseteq Cells BY FutureType, PartInCells
<1>9. FixedCells(o, Longest) \subseteq Cells BY <1>1, FixedInCells
<1> QED BY <1>3, <1>4, <1>5, <1>6, <1>7, <1>8, <1>9 DEF Recoverable, FutureRowBytes, RowCells

LEMMA WriteKeepsRow ==
  ASSUME NEW o \in Operations, NEW entry, RowOK(entry), NEW n \in After(o, entry)
  PROVE  /\ RowOK(n)
         /\ entry.state \in Final => /\ AwaitsResult(o, entry) /\ n.state = entry.state
                                   /\ n.parts["resolution"] # 0
                                   /\ \A p \in Parts : p \notin {"committed", "resolution"} =>
                                         n.parts[p] = entry.parts[p]
         /\ entry.state \notin Final => n.parts["resolution"] = entry.parts["resolution"]
<1> DEFINE a == entry.parts
<1>1. /\ a \in [Parts -> Nat] /\ entry.state \in States /\ PartBound \in [Parts -> Nat]
      /\ \A p \in Parts : a[p] <= PartBound[p]
  BY PartsType DEF RowOK
<1> HIDE DEF a
<1>2. CASE n \in Recorded(entry)
  <2>1. CASE entry.state = "RESERVED" /\ n.state = "DISPATCHED"
    <3>1. PICK k \in Sizes("dispatched") :
            n = [state |-> "DISPATCHED", parts |-> [a EXCEPT !["dispatched"] = k]]
      BY <1>2, <2>1 DEF Recorded, With, a
    <3>2. k \in Nat /\ k <= PartBound["dispatched"] BY <1>1, <3>1 DEF Sizes, Parts
    <3>3. n.parts = [a EXCEPT !["dispatched"] = k] /\ n \in [state : {"DISPATCHED"}, parts : [Parts -> Nat]]
      BY <1>1, <3>1, <3>2
    <3>4. \A p \in Parts : n.parts[p] <= PartBound[p] BY <1>1, <3>2, <3>3
    <3>5. n.parts["resolution"] = a["resolution"] BY <1>1, <3>3 DEF Parts
    <3> QED BY <2>1, <3>3, <3>4, <3>5 DEF RowOK, Rows, States, Final, a
  <2>2. CASE ~(entry.state = "RESERVED" /\ n.state = "DISPATCHED")
    <3>1. /\ entry.state \in {"RESERVED", "DISPATCHED"}
          /\ \E s \in States : n = [state |-> s, parts |-> a]
      BY <1>2, <2>2 DEF Recorded, With, States, a
    <3>2. n.parts = a /\ n.state \in States /\ n \in Rows BY <1>1, <3>1 DEF Rows
    <3> QED BY <1>1, <3>1, <3>2 DEF RowOK, Final, a
  <2> QED BY <2>1, <2>2
<1>3. CASE n \in Settled(entry)
  <2>1. entry.state \in {"DISPATCHED", "OUTCOME_UNKNOWN"} BY <1>3 DEF Settled
  <2>2. CASE n.state = "SETTLED"
    <3>1. PICK k \in Sizes("settlement"), t \in Sizes("settledAt"), c \in {0} \cup Sizes("committed") :
            n = [state |-> "SETTLED",
                 parts |-> [a EXCEPT !["settlement"] = k, !["settledAt"] = t, !["committed"] = c]]
      BY <1>3, <2>1, <2>2 DEF Settled, With, a
    <3>2. /\ k \in Nat /\ k <= PartBound["settlement"] /\ t \in Nat /\ t <= PartBound["settledAt"]
          /\ c \in Nat /\ c <= PartBound["committed"]
      BY <1>1, <3>1 DEF Sizes, Parts
    <3>3. /\ n.parts = [a EXCEPT !["settlement"] = k, !["settledAt"] = t, !["committed"] = c]
          /\ n \in [state : {"SETTLED"}, parts : [Parts -> Nat]]
      BY <1>1, <3>1, <3>2
    <3>4. \A p \in Parts : n.parts[p] <= PartBound[p] BY <1>1, <3>2, <3>3
    <3>5. n.parts["resolution"] = a["resolution"] BY <1>1, <3>3 DEF Parts
    <3> QED BY <2>1, <3>3, <3>4, <3>5 DEF RowOK, Rows, States, Final, a
  <2>3. CASE n.state # "SETTLED"
    <3>1. PICK k \in Sizes("unknown") :
            n = [state |-> "OUTCOME_UNKNOWN", parts |-> [a EXCEPT !["unknown"] = k]]
      BY <1>3, <2>1, <2>3 DEF Settled, With, a
    <3>2. k \in Nat /\ k <= PartBound["unknown"] BY <1>1, <3>1 DEF Sizes, Parts
    <3>3. n.parts = [a EXCEPT !["unknown"] = k] /\ n \in [state : {"OUTCOME_UNKNOWN"}, parts : [Parts -> Nat]]
      BY <1>1, <3>1, <3>2
    <3>4. \A p \in Parts : n.parts[p] <= PartBound[p] BY <1>1, <3>2, <3>3
    <3>5. n.parts["resolution"] = a["resolution"] BY <1>1, <3>3 DEF Parts
    <3> QED BY <2>1, <3>3, <3>4, <3>5 DEF RowOK, Rows, States, Final, a
  <2> QED BY <2>2, <2>3
<1>4. CASE n \in Resolved(o, entry)
  <2>1. entry.state \in Final /\ AwaitsResult(o, entry) BY <1>4 DEF Resolved
  <2>2. PICK k \in Sizes("resolution"), c \in {0} \cup Sizes("committed") :
          n = [state |-> entry.state, parts |-> [a EXCEPT !["resolution"] = k, !["committed"] = c]]
    BY <1>4, <2>1 DEF Resolved, a
  <2>3. /\ k \in Nat /\ k # 0 /\ k <= PartBound["resolution"] /\ c \in Nat /\ c <= PartBound["committed"]
    BY <1>1, <2>2 DEF Sizes, Parts
  <2>4. /\ n.parts = [a EXCEPT !["resolution"] = k, !["committed"] = c] /\ n.state = entry.state
        /\ n \in [state : States, parts : [Parts -> Nat]]
    BY <1>1, <2>2, <2>3
  <2>5. \A p \in Parts : n.parts[p] <= PartBound[p] BY <1>1, <2>3, <2>4
  <2>6. n.parts["resolution"] = k BY <1>1, <2>4 DEF Parts
  <2>7. \A p \in Parts : p \notin {"committed", "resolution"} => n.parts[p] = a[p] BY <1>1, <2>4
  <2> QED BY <2>1, <2>3, <2>4, <2>5, <2>6, <2>7 DEF RowOK, Rows, a
<1> QED BY <1>2, <1>3, <1>4 DEF After

LEMMA StepShrinks ==
  ASSUME NEW o \in Operations, NEW entry, RowOK(entry), NEW n \in After(o, entry)
  PROVE  Recoverable(o, n) \subseteq Recoverable(o, entry)
<1>1. RowOK(n) BY WriteKeepsRow
<1>2. /\ entry.parts \in [Parts -> Nat] /\ n.parts \in [Parts -> Nat]
      /\ NameBytes[n.state] \in Nat /\ NameBytes[n.state] <= Longest /\ Longest \in Nat
      /\ PartBound \in [Parts -> Nat]
  BY <1>1, PartsType
<1>3. \A p \in Parts : n.parts[p] <= PartBound[p] BY <1>1 DEF RowOK
<1>4. CASE entry.state \notin Final
  <2>1. n.parts["resolution"] = entry.parts["resolution"] BY <1>4, WriteKeepsRow
  <2>2. Recoverable(o, entry) = FixedCells(o, Longest) \cup PartCells(o, FutureParts(o, entry))
    BY <1>4 DEF Recoverable, FutureRowBytes
  <2>3. FutureParts(o, n) = FutureParts(o, entry) BY <2>1 DEF FutureParts
  <2>4. \A p \in Parts : n.parts[p] <= FutureParts(o, n)[p] BY <1>1, FutureType
  <2>5. FixedCells(o, NameBytes[n.state]) \subseteq FixedCells(o, Longest) BY <1>2, FixedMono
  <2>6. PartCells(o, n.parts) \subseteq PartCells(o, FutureParts(o, n))
    BY <1>1, <1>2, FutureType, PartMono
  <2>7. CASE n.state \notin Final BY <2>2, <2>3, <2>7 DEF Recoverable, FutureRowBytes
  <2>8. CASE n.state \in Final /\ AwaitsResult(o, n)
    <3>1. o \in Anchors BY <2>8 DEF AwaitsResult
    <3>2. \A p \in Parts : FutureParts(o, n)[p] = PartBound[p] BY <3>1 DEF FutureParts
    <3>3. \A p \in Parts : FutureResultParts(n)[p] <= FutureParts(o, n)[p]
      BY <1>1, <3>2, FutureType
    <3>4. PartCells(o, FutureResultParts(n)) \subseteq PartCells(o, FutureParts(o, n))
      BY <1>1, <3>3, FutureType, PartMono
    <3> QED BY <2>2, <2>3, <2>5, <2>8, <3>4 DEF Recoverable
  <2>9. CASE n.state \in Final /\ ~AwaitsResult(o, n)
    BY <2>2, <2>3, <2>5, <2>6, <2>9 DEF Recoverable, RowCells
  <2> QED BY <2>7, <2>8, <2>9
<1>5. CASE entry.state \in Final
  <2>1. /\ AwaitsResult(o, entry) /\ n.state = entry.state /\ n.parts["resolution"] # 0
        /\ \A p \in Parts : p \notin {"committed", "resolution"} => n.parts[p] = entry.parts[p]
    BY <1>5, WriteKeepsRow
  <2>2. Recoverable(o, entry) = FixedCells(o, NameBytes[entry.state]) \cup PartCells(o, FutureResultParts(entry))
    BY <1>5, <2>1 DEF Recoverable
  <2>3. Recoverable(o, n) = RowCells(o, n) BY <1>5, <2>1 DEF Recoverable, AwaitsResult
  <2>4. \A p \in Parts : n.parts[p] <= FutureResultParts(entry)[p]
    BY <1>2, <1>3, <2>1 DEF FutureResultParts
  <2>5. PartCells(o, n.parts) \subseteq PartCells(o, FutureResultParts(entry))
    BY <1>2, <2>4, FutureType, PartMono
  <2> QED BY <2>1, <2>2, <2>3, <2>5 DEF RowCells
<1> QED BY <1>4, <1>5

-----------------------------------------------------------------------------
\* The whole snapshot.

LEMMA FootprintFinite ==
  ASSUME NEW table, TableOK(table)
  PROVE  Footprint(table) \subseteq Cells /\ IsFiniteSet(Footprint(table))
<1>1. \A o \in Present(table) : Recoverable(o, table[o]) \subseteq Cells
  BY PresentRow, RowIsRecoverable
<1>2. ClockBytes \in Nat BY SizeAssumption
<1>3. ClockCells(ClockBytes) \subseteq Cells BY <1>2, ClockInCells
<1>4. Footprint(table) \subseteq Cells BY <1>1, <1>3 DEF Footprint
<1> QED BY <1>4, CellsFinite, FS_Subset

LEMMA FitsBelow ==
  ASSUME NEW S, NEW T, IsFiniteSet(T), S \subseteq T, Fits(T)
  PROVE  Fits(S)
<1>1. /\ IsFiniteSet(S) /\ Cardinality(S) <= Cardinality(T) BY FS_Subset
<1>2. Cardinality(S) \in Nat /\ Cardinality(T) \in Nat BY <1>1, FS_CardinalityType
<1> QED BY <1>1, <1>2, SizeAssumption DEF Fits

LEMMA ClockGrows == ASSUME NEW m \in Nat, NEW n \in Nat, m <= n
  PROVE  ClockCells(m) \subseteq ClockCells(n)
<1>1. 1 .. m \subseteq 1 .. n OBVIOUS
<1> QED BY <1>1 DEF ClockCells

\* Every snapshot lies inside its footprint, whatever the clock says.
LEMMA EncodedInFootprint ==
  ASSUME NEW table, TableOK(table), NEW n \in Nat, n <= ClockBytes
  PROVE  Encoded(table, n) \subseteq Footprint(table)
<1>1. \A o \in Present(table) : RowCells(o, table[o]) \subseteq Recoverable(o, table[o])
  BY PresentRow, RowIsRecoverable
<1>2. ClockBytes \in Nat BY SizeAssumption
<1>3. ClockCells(n) \subseteq ClockCells(ClockBytes) BY <1>2, ClockGrows
<1> QED BY <1>1, <1>3 DEF Encoded, Footprint

\* A write about one row leaves the footprint inside the one before.
LEMMA WriteShrinks ==
  ASSUME NEW table, TableOK(table), NEW o \in Present(table), NEW entry \in After(o, table[o])
  PROVE  LET next == [table EXCEPT ![o] = entry]
         IN  TableOK(next) /\ Footprint(next) \subseteq Footprint(table)
<1> DEFINE next == [table EXCEPT ![o] = entry]
<1>1. o \in Operations /\ RowOK(table[o]) BY PresentRow
<1>2. RowOK(entry) /\ Recoverable(o, entry) \subseteq Recoverable(o, table[o])
  BY <1>1, WriteKeepsRow, StepShrinks
<1>3. table \in [Operations -> {Absent} \cup Rows] BY DEF TableOK
<1>4. /\ next \in [Operations -> {Absent} \cup Rows]
      /\ next[o] = entry
      /\ \A q \in Operations : q # o => next[q] = table[q]
  BY <1>1, <1>2, <1>3 DEF RowOK
<1>5. TableOK(next)
  <2>1. ASSUME NEW q \in Operations, NEW p \in Parts PROVE next[q].parts[p] <= PartBound[p]
    <3>1. CASE q = o BY <1>2, <1>4, <2>1, <3>1 DEF RowOK
    <3>2. CASE q # o BY <1>4, <2>1, <3>2 DEF TableOK
    <3> QED BY <3>1, <3>2
  <2> HIDE DEF next
  <2> QED BY <1>4, <2>1 DEF TableOK
<1>6. Present(next) \subseteq Present(table)
  <2> SUFFICES ASSUME NEW q \in Present(next) PROVE q \in Present(table) OBVIOUS
  <2>1. q \in Operations /\ next[q].state # "ABSENT" BY DEF Present
  <2>2. CASE q = o BY <2>2
  <2>3. CASE q # o BY <1>4, <2>1, <2>3 DEF Present
  <2> QED BY <2>2, <2>3
<1>7. \A q \in Present(next) : Recoverable(q, next[q]) \subseteq Recoverable(q, table[q])
  <2> TAKE q \in Present(next)
  <2>1. q \in Operations BY DEF Present
  <2>2. CASE q = o
    <3>1. next[q] = entry BY <1>4, <2>2
    <3>2. Recoverable(q, next[q]) = Recoverable(o, entry) BY <2>2, <3>1
    <3>3. Recoverable(q, table[q]) = Recoverable(o, table[o]) BY <2>2
    <3> HIDE DEF next
    <3> QED BY <1>2, <3>2, <3>3
  <2>3. CASE q # o
    <3>1. next[q] = table[q] BY <1>4, <2>1, <2>3
    <3> HIDE DEF next
    <3> QED BY <3>1
  <2> QED BY <2>2, <2>3
<1> HIDE DEF next
<1>8. Footprint(next) \subseteq Footprint(table) BY <1>6, <1>7 DEF Footprint
<1>9. TableOK(next) /\ Footprint(next) \subseteq Footprint(table) BY <1>5, <1>8
<1> QED BY <1>9 DEF next

-----------------------------------------------------------------------------
\* Rows and their parts stay inside the shapes the storage accepts.
THEOREM Typing == SnapshotSpec => []SnapshotTypeOK
<1>1. SnapshotInit => SnapshotTypeOK
  <2> SUFFICES ASSUME SnapshotInit PROVE SnapshotTypeOK OBVIOUS
  <2>1. rows = [o \in Operations |-> Absent] /\ clock = 1 BY DEF SnapshotInit
  <2>2. \A p \in Parts : Absent.parts[p] = 0 BY DEF Absent, Nothing
  <2>3. \A p \in Parts : PartBound[p] \in Nat BY SizeAssumption
  <2>4. \A o \in Operations : rows[o] = Absent BY <2>1
  <2>5. \A o \in Operations : \A p \in Parts : rows[o].parts[p] <= PartBound[p] BY <2>2, <2>3, <2>4
  <2>6. rows \in [Operations -> {Absent} \cup Rows] BY <2>1
  <2>7. clock \in 1 .. ClockBytes BY <2>1, SizeAssumption
  <2> QED BY <2>5, <2>6, <2>7 DEF SnapshotTypeOK
<1>2. SnapshotTypeOK /\ [SnapshotNext]_snapshotVars => SnapshotTypeOK'
  <2> SUFFICES ASSUME SnapshotTypeOK, [SnapshotNext]_snapshotVars PROVE SnapshotTypeOK' OBVIOUS
  <2>0. TableOK(rows) BY DEF SnapshotTypeOK, TableOK
  <2>1. CASE UNCHANGED snapshotVars BY <2>1 DEF snapshotVars, SnapshotTypeOK
  <2>2. ASSUME NEW o \in Operations, ReserveRow(o) PROVE SnapshotTypeOK'
    <3> DEFINE fresh == [state |-> "RESERVED", parts |-> Nothing]
    <3>1. rows' = [rows EXCEPT ![o] = fresh] BY <2>2 DEF ReserveRow
    <3>2. clock' \in 1 .. ClockBytes BY <2>2, SizeAssumption DEF ReserveRow, Tick
    <3>3. fresh \in Rows BY DEF Rows, States, Nothing
    <3>4. \A p \in Parts : fresh.parts[p] = 0 BY DEF Nothing
    <3> HIDE DEF fresh
    <3>5. rows' \in [Operations -> {Absent} \cup Rows] BY <2>0, <3>1, <3>3 DEF TableOK
    <3>6. \A p \in Parts : PartBound[p] \in Nat BY SizeAssumption
    <3>7. \A q \in Operations : rows'[q] = IF q = o THEN fresh ELSE rows[q] BY <2>0, <3>1 DEF TableOK
    <3>8. \A q \in Operations : \A p \in Parts : rows'[q].parts[p] <= PartBound[p]
      BY <2>0, <3>4, <3>6, <3>7 DEF TableOK
    <3> QED BY <3>2, <3>5, <3>8 DEF SnapshotTypeOK
  <2>3. ASSUME NEW o \in Operations, Write(o) PROVE SnapshotTypeOK'
    <3>1. o \in Present(rows) BY <2>3 DEF Write
    <3>2. PICK entry \in After(o, rows[o]) : rows' = [rows EXCEPT ![o] = entry] BY <2>3 DEF Write
    <3>3. clock' \in 1 .. ClockBytes BY <2>3, SizeAssumption DEF Write, Tick
    <3>4. TableOK([rows EXCEPT ![o] = entry]) BY <2>0, <3>1, WriteShrinks
    <3>5. TableOK(rows') BY <3>2, <3>4
    <3> QED BY <3>3, <3>5 DEF TableOK, SnapshotTypeOK
  <2> QED BY <2>1, <2>2, <2>3 DEF SnapshotNext
<1> QED BY <1>1, <1>2, PTL DEF SnapshotSpec

\* The footprint stays below the limit although only admissions check it.
THEOREM FootprintStays == SnapshotSpec => []FootprintKept
<1>1. SnapshotTypeOK /\ SnapshotInit => FootprintKept
  <2> SUFFICES ASSUME SnapshotTypeOK, SnapshotInit PROVE FootprintKept OBVIOUS
  <2>1. \A o \in Operations : rows[o].state = "ABSENT" BY DEF SnapshotInit, Absent
  <2>2. Footprint(rows) = ClockCells(ClockBytes) BY <2>1 DEF Footprint, Present
  <2> DEFINE f == [i \in 1 .. ClockBytes |-> <<"lastNow", "fixed", i>>]
  <2>3. f \in Surjection(1 .. ClockBytes, ClockCells(ClockBytes)) BY DEF Surjection, ClockCells
  <2>4. /\ IsFiniteSet(1 .. ClockBytes) /\ Cardinality(1 .. ClockBytes) = ClockBytes
        /\ ClockBytes \in Nat /\ ClockBytes <= Room /\ Room \in Nat
    BY SizeAssumption, FS_Interval
  <2>5. /\ Cardinality(ClockCells(ClockBytes)) <= ClockBytes
        /\ IsFiniteSet(ClockCells(ClockBytes))
    BY <2>3, <2>4, FS_Surjection
  <2>6. Cardinality(ClockCells(ClockBytes)) \in Nat BY <2>5, FS_CardinalityType
  <2> QED BY <2>2, <2>4, <2>5, <2>6 DEF FootprintKept, Fits
<1>2. SnapshotTypeOK /\ FootprintKept /\ [SnapshotNext]_snapshotVars => FootprintKept'
  <2> SUFFICES ASSUME SnapshotTypeOK, FootprintKept, [SnapshotNext]_snapshotVars PROVE FootprintKept' OBVIOUS
  <2>0. TableOK(rows) BY DEF SnapshotTypeOK, TableOK
  <2>1. CASE UNCHANGED snapshotVars BY <2>1 DEF snapshotVars, FootprintKept, Fits, Footprint, Present
  <2>2. ASSUME NEW o \in Operations, ReserveRow(o) PROVE FootprintKept'
    BY <2>2 DEF ReserveRow, Admits, FootprintKept
  <2>3. ASSUME NEW o \in Operations, Write(o) PROVE FootprintKept'
    <3>1. o \in Present(rows) BY <2>3 DEF Write
    <3>2. PICK entry \in After(o, rows[o]) : rows' = [rows EXCEPT ![o] = entry] BY <2>3 DEF Write
    <3>3. Footprint(rows') \subseteq Footprint(rows) BY <2>0, <3>1, <3>2, WriteShrinks
    <3>4. IsFiniteSet(Footprint(rows)) BY <2>0, FootprintFinite
    <3>5. Fits(Footprint(rows)) BY DEF FootprintKept
    <3>6. Fits(Footprint(rows')) BY <3>3, <3>4, <3>5, FitsBelow
    <3> QED BY <3>6 DEF FootprintKept
  <2> QED BY <2>1, <2>2, <2>3 DEF SnapshotNext
<1> QED BY <1>1, <1>2, Typing, PTL DEF SnapshotSpec

\* No outcome of an admitted operation is refused for want of bytes.
THEOREM OutcomesFit == SnapshotSpec => []EveryOutcomeFits
<1>1. SnapshotTypeOK /\ FootprintKept => EveryOutcomeFits
  <2> SUFFICES ASSUME SnapshotTypeOK, FootprintKept, NEW o \in Present(rows), NEW entry \in After(o, rows[o])
               PROVE  Fits(Encoded([rows EXCEPT ![o] = entry], ClockBytes))
    BY DEF EveryOutcomeFits
  <2> DEFINE next == [rows EXCEPT ![o] = entry]
  <2>1. TableOK(rows) BY DEF SnapshotTypeOK, TableOK
  <2>2. TableOK(next) /\ Footprint(next) \subseteq Footprint(rows) BY <2>1, WriteShrinks
  <2> HIDE DEF next
  <2>3. ClockBytes \in Nat BY SizeAssumption
  <2>4. Encoded(next, ClockBytes) \subseteq Footprint(rows) BY <2>2, <2>3, EncodedInFootprint
  <2>5. IsFiniteSet(Footprint(rows)) BY <2>1, FootprintFinite
  <2>6. Fits(Footprint(rows)) BY DEF FootprintKept
  <2>7. Fits(Encoded(next, ClockBytes)) BY <2>4, <2>5, <2>6, FitsBelow
  <2> QED BY <2>7 DEF next
<1> QED BY <1>1, Typing, FootprintStays, PTL

-----------------------------------------------------------------------------
(***************************************************************************)
(* GrantPublication, for every set of operations, every declaration and    *)
(* every validity. GrantInv is inductive: beside the invariants it says    *)
(* that a grant that still authorizes does not outlive its declaration     *)
(* (WithinDeclaration), which a reservation relies on and no longer sees.  *)
(***************************************************************************)
WithinDeclaration ==
  \A o \in GrantOps : authority[o] # None /\ authority[o].authorized =>
    authority[o].expires <= Expiry[authority[o].generation]

GrantInv == GrantTypeOK /\ WithinDeclaration /\ ToldIsTrue /\ ReservedInsideGrant

-----------------------------------------------------------------------------
\* The fields of the row a call writes.
LEMMA NewGrantFields ==
  ASSUME NEW o, NEW d, NEW action, NEW at
  PROVE  /\ NewGrant(o, d, action, at).generation = d
         /\ NewGrant(o, d, action, at).authorized = (action = "publish")
         /\ NewGrant(o, d, action, at).issued = at
         /\ NewGrant(o, d, action, at).expires =
              IF action = "publish"
                THEN Min2(Min2(ValidUntil(o, d, action), Expiry[d]), at + Span) ELSE at
BY DEF NewGrant

LEMMA NewGrantShape ==
  ASSUME NEW o, NEW d, NEW action, NEW at,
         d \in Declarations, at \in Times, NewGrant(o, d, action, at).expires \in Nat
  PROVE  NewGrant(o, d, action, at) \in Grants
BY DEF NewGrant, Grants

LEMMA OldGrantFields ==
  ASSUME NEW entry \in Grants, NEW b \in BOOLEAN
  PROVE  /\ [entry EXCEPT !.authorized = b] \in Grants
         /\ [entry EXCEPT !.authorized = b].generation = entry.generation
         /\ [entry EXCEPT !.authorized = b].issued = entry.issued
         /\ [entry EXCEPT !.authorized = b].expires = entry.expires
         /\ [entry EXCEPT !.authorized = b].authorized = b
BY DEF Grants

LEMMA RowWritten ==
  ASSUME GrantTypeOK, NEW o \in GrantOps, NEW d \in Declarations,
         NEW action \in {"publish", "revoke"}, NEW at \in Times, NEW publication \in Times,
         publication < PublicationUntil(o, d, action, at), MayWrite(o, d, action)
  PROVE  /\ GrantAfter(o, d, action, publication) \in Grants
         /\ GrantAfter(o, d, action, publication).generation = d
         /\ action = "revoke" => ~GrantAfter(o, d, action, publication).authorized
         /\ authority[o] # None =>
              /\ authority[o].generation = d
              /\ GrantAfter(o, d, action, publication).issued = authority[o].issued
              /\ GrantAfter(o, d, action, publication).expires = authority[o].expires
              /\ GrantAfter(o, d, action, publication).authorized => authority[o].authorized
         /\ authority[o] = None /\ GrantAfter(o, d, action, publication).authorized =>
              GrantAfter(o, d, action, publication).expires <= Expiry[d]
<1>. USE GrantAssumption
<1>1. CASE authority[o] = None
  <2>. DEFINE entry == NewGrant(o, d, action, publication)
  <2>1. GrantAfter(o, d, action, publication) = entry
    BY <1>1 DEF GrantAfter
  <2>2. /\ entry.generation = d /\ entry.authorized = (action = "publish")
        /\ entry.expires =
             IF action = "publish"
               THEN Min2(Min2(ValidUntil(o, d, action), Expiry[d]), publication + Span)
               ELSE publication
    BY NewGrantFields
  <2>. HIDE DEF entry
  <2>3. publication \in Nat /\ Expiry[d] \in Nat
    BY DEF Times
  <2>4. action = "publish" =>
          ValidUntil(o, d, action) \in Nat /\ ValidUntil(o, d, action) <= Expiry[d]
    BY <1>1, <2>3 DEF ValidUntil, Min2
  <2>5. entry.expires \in Nat /\ (action = "publish" => entry.expires <= Expiry[d])
    BY <2>2, <2>3, <2>4 DEF Min2
  <2>6. entry \in Grants
    BY <2>5, NewGrantShape DEF entry
  <2>. QED
    BY <1>1, <2>1, <2>2, <2>5, <2>6
<1>2. CASE authority[o] # None
  <2>1. authority[o] \in Grants
    BY <1>2 DEF GrantTypeOK
  <2>2. authority[o].authorized \in BOOLEAN
    BY <2>1 DEF Grants
  <2>3. PICK b \in BOOLEAN : b = (authority[o].authorized /\ action = "publish")
    BY <2>2
  <2>4. GrantAfter(o, d, action, publication) = [authority[o] EXCEPT !.authorized = b]
    BY <1>2, <2>3 DEF GrantAfter
  <2>5. authority[o].generation = d
    BY <1>2 DEF MayWrite
  <2>6. action = "revoke" => action # "publish"
    OBVIOUS
  <2>. QED
    BY <1>2, <2>1, <2>3, <2>4, <2>5, <2>6, OldGrantFields
<1>. QED
  BY <1>1, <1>2

-----------------------------------------------------------------------------
LEMMA AnswerFields ==
  ASSUME NEW o \in GrantOps, NEW decision \in {"published", "revoked"}, NEW entry \in Grants
  PROVE  LET a == [op |-> o, decision |-> decision, generation |-> entry.generation,
                   issued |-> entry.issued, expires |-> entry.expires]
         IN  /\ a \in Answers /\ a.op = o /\ a.decision = decision
             /\ a.generation = entry.generation /\ a.issued = entry.issued /\ a.expires = entry.expires
BY DEF Grants, Answers

LEMMA ExecuteKeeps ==
  ASSUME GrantInv, NEW o \in GrantOps, NEW d \in Declarations,
         NEW action \in {"publish", "revoke"}, Execute(o, d, action)
  PROVE  GrantInv'
<1>. USE GrantAssumption DEF GrantInv
<1>1. PICK at \in now .. MaxTime : \E publication \in at .. MaxTime :
        /\ publication < PublicationUntil(o, d, action, at)
        /\ authority' = [authority EXCEPT ![o] = GrantAfter(o, d, action, publication)]
        /\ Hears(o, IF action = "publish" THEN "published" ELSE "revoked",
                 GrantAfter(o, d, action, publication))
        /\ now' = publication
  BY DEF Execute
<1>2. PICK publication \in at .. MaxTime :
        /\ publication < PublicationUntil(o, d, action, at)
        /\ authority' = [authority EXCEPT ![o] = GrantAfter(o, d, action, publication)]
        /\ Hears(o, IF action = "publish" THEN "published" ELSE "revoked",
                 GrantAfter(o, d, action, publication))
        /\ now' = publication
  BY <1>1
<1>3. at \in Times /\ publication \in Times
  BY DEF GrantTypeOK, Times
<1>4. MayWrite(o, d, action) /\ UNCHANGED <<lastNow, enabled, reserved>>
  BY DEF Execute
<1>. DEFINE entry == GrantAfter(o, d, action, publication)
<1>5. /\ entry \in Grants /\ entry.generation = d
      /\ action = "revoke" => ~entry.authorized
      /\ authority[o] # None =>
           /\ authority[o].generation = d
           /\ entry.issued = authority[o].issued /\ entry.expires = authority[o].expires
           /\ entry.authorized => authority[o].authorized
      /\ authority[o] = None /\ entry.authorized => entry.expires <= Expiry[d]
  BY <1>2, <1>3, <1>4, RowWritten
<1>6. /\ authority' = [authority EXCEPT ![o] = entry] /\ now' = publication
      /\ Hears(o, IF action = "publish" THEN "published" ELSE "revoked", entry)
  BY <1>2
<1>. HIDE DEF entry
<1>7. authority'[o] = entry /\ entry # None /\ \A x \in GrantOps \ {o} : authority'[x] = authority[x]
  BY <1>5, <1>6 DEF GrantTypeOK
<1>8. PICK decision \in {"published", "revoked"} :
        /\ decision = (IF action = "publish" THEN "published" ELSE "revoked")
        /\ Hears(o, decision, entry)
  BY <1>6
<1>. DEFINE said == [op |-> o, decision |-> decision, generation |-> entry.generation,
                     issued |-> entry.issued, expires |-> entry.expires]
<1>9. told' = told \/ told' = told \cup {said}
  BY <1>8 DEF Hears
<1>10. /\ said \in Answers /\ said.op = o /\ said.decision = decision
       /\ said.generation = entry.generation /\ said.issued = entry.issued /\ said.expires = entry.expires
  BY <1>5, AnswerFields
<1>. HIDE DEF said
<1>11. GrantTypeOK'
  BY <1>3, <1>4, <1>5, <1>6, <1>9, <1>10 DEF GrantTypeOK
<1>12. WithinDeclaration'
  <2>. SUFFICES ASSUME NEW x \in GrantOps, authority'[x] # None, authority'[x].authorized
                PROVE  authority'[x].expires <= Expiry[authority'[x].generation]
    BY DEF WithinDeclaration
  <2>. QED
    BY <1>5, <1>7 DEF WithinDeclaration
<1>13. ToldIsTrue'
  <2>. SUFFICES ASSUME NEW a \in told'
                PROVE  /\ authority'[a.op] # None
                       /\ authority'[a.op].generation = a.generation
                       /\ authority'[a.op].issued = a.issued
                       /\ authority'[a.op].expires = a.expires
                       /\ a.decision = "revoked" => ~authority'[a.op].authorized
    BY DEF ToldIsTrue
  <2>1. CASE a \in told
    <3>1. /\ a.op \in GrantOps /\ authority[a.op] # None
          /\ authority[a.op].generation = a.generation
          /\ authority[a.op].issued = a.issued
          /\ authority[a.op].expires = a.expires
          /\ a.decision = "revoked" => ~authority[a.op].authorized
      BY <2>1 DEF ToldIsTrue, GrantTypeOK, Answers
    <3>2. CASE a.op = o
      BY <1>5, <1>7, <3>1, <3>2
    <3>3. CASE a.op # o
      BY <1>7, <3>1, <3>3
    <3>. QED
      BY <3>2, <3>3
  <2>2. CASE a = said
    <3>1. a.decision = "revoked" => action = "revoke"
      BY <1>8, <1>10, <2>2
    <3>. QED
      BY <1>5, <1>7, <1>10, <2>2, <3>1
  <2>. QED
    BY <1>9, <2>1, <2>2
<1>14. ReservedInsideGrant'
  <2>. SUFFICES ASSUME NEW x \in GrantOps, reserved[x] # None
                PROVE  /\ authority'[x] # None
                       /\ authority'[x].generation = reserved[x].generation
                       /\ authority'[x].issued <= reserved[x].at
                       /\ reserved[x].at < authority'[x].expires
                       /\ reserved[x].at < Expiry[reserved[x].generation]
                       /\ reserved[x].at < IdentityExpiry
    BY <1>4 DEF ReservedInsideGrant
  <2>1. /\ authority[x] # None /\ authority[x].generation = reserved[x].generation
        /\ authority[x].issued <= reserved[x].at /\ reserved[x].at < authority[x].expires
        /\ reserved[x].at < Expiry[reserved[x].generation]
        /\ reserved[x].at < IdentityExpiry
    BY DEF ReservedInsideGrant
  <2>2. CASE x = o
    BY <1>5, <1>7, <2>1, <2>2
  <2>3. CASE x # o
    BY <1>7, <2>1, <2>3
  <2>. QED
    BY <2>2, <2>3
<1>. QED
  BY <1>11, <1>12, <1>13, <1>14

\* The last moment at which the write may happen is inside everything that was
\* checked for it.
LEMMA ReserveKeeps ==
  ASSUME GrantInv, NEW o \in GrantOps, ReserveUnder(o) PROVE GrantInv'
<1>. USE GrantAssumption DEF GrantInv
<1>0. PICK at \in now .. MaxTime : \E publication \in at .. MaxTime :
        /\ publication < at + Window
        /\ HoldsUntilWritten(o, at, at + Window)
        /\ reserved' = [reserved EXCEPT
             ![o] = [generation |-> authority[o].generation, at |-> publication]]
        /\ lastNow' = publication /\ now' = publication
  BY DEF ReserveUnder
<1>1. PICK publication \in at .. MaxTime :
        /\ publication < at + Window
        /\ HoldsUntilWritten(o, at, at + Window)
        /\ reserved' = [reserved EXCEPT
             ![o] = [generation |-> authority[o].generation, at |-> publication]]
        /\ lastNow' = publication /\ now' = publication
  BY <1>0
<1>2. authority[o] \in Grants /\ authority[o] # None /\ UNCHANGED <<authority, enabled, told>>
  BY DEF ReserveUnder, GrantTypeOK
<1>. DEFINE g == authority[o].generation
            held == [generation |-> g, at |-> publication]
<1>3. at \in Times /\ publication \in Times /\ at <= publication /\ now <= at /\ now \in Nat
  BY DEF GrantTypeOK, Times
<1>4. /\ authority[o].issued \in Nat /\ authority[o].expires \in Nat
      /\ g \in Declarations /\ Expiry[g] \in Nat
  BY <1>2 DEF Grants, Times
<1>5. /\ authority[o].authorized /\ authority[o].issued <= now
      /\ at + Window - 1 < authority[o].expires /\ at + Window - 1 < IdentityExpiry
  BY <1>1 DEF ReserveUnder, HoldsUntilWritten, Authorizes, ServiceValidAt
<1>6. authority[o].expires <= Expiry[g]
  BY <1>2, <1>5 DEF WithinDeclaration
<1>7. at \in Nat /\ publication \in Nat
  BY <1>3 DEF Times
<1>8. /\ authority[o].issued <= publication /\ publication < authority[o].expires
      /\ publication < Expiry[g] /\ publication < IdentityExpiry
  BY <1>1, <1>3, <1>4, <1>5, <1>6, <1>7
<1>9. held \in Reservations /\ held.generation = g /\ held.at = publication /\ held # None
  BY <1>3, <1>4 DEF Reservations
<1>10. reserved' = [reserved EXCEPT ![o] = held] /\ lastNow' = publication /\ now' = publication
  BY <1>1
<1>. HIDE DEF held
<1>11. GrantTypeOK'
  BY <1>2, <1>3, <1>9, <1>10 DEF GrantTypeOK
<1>12. WithinDeclaration' /\ ToldIsTrue'
  BY <1>2 DEF WithinDeclaration, ToldIsTrue
<1>13. ReservedInsideGrant'
  BY <1>2, <1>8, <1>9, <1>10 DEF ReservedInsideGrant, GrantTypeOK
<1>. QED
  BY <1>11, <1>12, <1>13

LEMMA GrantInvInit == GrantInit => GrantInv
BY GrantAssumption
   DEF GrantInit, GrantInv, GrantTypeOK, WithinDeclaration, ToldIsTrue, ReservedInsideGrant, Times

LEMMA GrantInvStep == GrantInv /\ [GrantNext]_grantVars => GrantInv'
<1>. SUFFICES ASSUME GrantInv, [GrantNext]_grantVars PROVE GrantInv'
  OBVIOUS
<1>1. ASSUME NEW o \in GrantOps, ReserveUnder(o) PROVE GrantInv'
  BY <1>1, ReserveKeeps
<1>2. ASSUME NEW o \in GrantOps, NEW d \in Declarations, Publish(o, d) PROVE GrantInv'
  BY <1>2, ExecuteKeeps DEF Publish
<1>3. ASSUME NEW o \in GrantOps, NEW d \in Declarations, Revoke(o, d) PROVE GrantInv'
  BY <1>3, ExecuteKeeps DEF Revoke
<1>4. CASE SetClock \/ Switch \/ UNCHANGED grantVars
  BY <1>4 DEF SetClock, Switch, grantVars, GrantInv, GrantTypeOK, WithinDeclaration, ToldIsTrue,
              ReservedInsideGrant
<1>. QED
  BY <1>1, <1>2, <1>3, <1>4 DEF GrantNext

\* Whatever the publisher was told stays true, every reservation lies inside
\* its grant, its declaration and its identity, and what was answered as
\* revoked is never reserved.
THEOREM GrantsSafe == GrantSpec => GrantsHold
<1>1. GrantInv => GrantTypeOK /\ ToldIsTrue /\ ReservedInsideGrant
  BY DEF GrantInv
<1>2. ASSUME GrantInv, [GrantNext]_grantVars
      PROVE  [\A o \in GrantOps : (\E a \in told : a.op = o /\ a.decision = "revoked") =>
                reserved'[o] = reserved[o]]_grantVars
  <2>. SUFFICES ASSUME NEW o \in GrantOps, NEW a \in told, a.op = o, a.decision = "revoked",
                       GrantNext
                PROVE  reserved'[o] = reserved[o]
    BY <1>2
  <2>1. ~authority[o].authorized
    BY <1>2 DEF GrantInv, ToldIsTrue
  <2>2. ASSUME NEW x \in GrantOps, ReserveUnder(x) PROVE reserved'[o] = reserved[o]
    <3>1. x # o
      BY <2>1, <2>2 DEF ReserveUnder, Authorizes
    <3>. QED
      BY <1>2, <2>2, <3>1 DEF ReserveUnder, GrantInv, GrantTypeOK
  <2>. QED
    BY <2>2 DEF GrantNext, Publish, Revoke, Execute, SetClock, Switch
<1>. QED
  BY <1>1, <1>2, GrantInvInit, GrantInvStep, PTL DEF GrantSpec, GrantsHold, NothingAfterRevocation
=============================================================================
