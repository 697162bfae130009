---------------------------- MODULE BudgetLedger ----------------------------
(***************************************************************************)
(* The accounting owner of the AI gateway: AtomicReservationLedger with    *)
(* the bounded-v1 window policy (extension/core/ai-usage/                  *)
(* atomic-reservation.js, budget-window-policy.js, admission-policy.js,    *)
(* result-finalization.js).                                                *)
(*                                                                         *)
(* One durable snapshot holds a row per paid operation.  Every call runs   *)
(* inside one transaction that locks the snapshot, so a call is one step;  *)
(* a call the code refuses rolls back and is no step at all.  Every        *)
(* transaction reads a clock t that may not lie before the last one, and   *)
(* the storage stamps the snapshot with its own publication time, at most  *)
(* PublicationDelay later.                                                 *)
(***************************************************************************)
EXTENDS Integers, FiniteSets

CONSTANTS
  Requests,         \* immutable requests that callers may present
  Receipts,         \* identifiers of provider receipts and of result receipts
  NoReceipt,        \* absence of a receipt
  Times,            \* readings of the service clock
  PublicationDelay, \* longest time from the clock reading to the publication
  Zones, Tiers,     \* declared time zones; entitlement tiers
  Quotes, MaxQuote, \* reservation bounds, in micros, that the ratebook can quote
  Charges,          \* amounts, in micros, that a provider can bill
  Outcomes,         \* outcomes a settlement can attest
  Verdicts,         \* outcomes a domain result can attest
  DAY, MONTH,       \* the two rolling spans
  DayOf,            \* DayOf[zone][t]: the calendar day of t
  WindowEnd,        \* WindowEnd[tier][zone][t]: end of the eligibility window of t
  Interval,         \* Interval[tier]: shortest time between two maintenance cycles
  ResultCap, AttemptCap, FeatureDayCap, FeatureMonthCap,  \* [type][tier]
  UserDayCap, UserMonthCap,                               \* [tier]
  GlobalDayCap, GlobalMonthCap,
  RowLimit          \* rows the snapshot may hold, tombstones included

VARIABLES rows, lastNow

vars == <<rows, lastNow>>

OpNames == {r.op : r \in Requests}
Jobs == {r.job : r \in Requests}
Principals == {r.principal : r \in Requests}
Types == {"AI_MAINTENANCE", "AI_ORGANIZE", "AI_ASSIST"}

\* The facts a trusted service attests for one call.
Facts == [tier : Tiers, zone : Zones, quote : Quotes]

NoTime == -1
NoResolution == [outcome |-> "NONE", receipt |-> NoReceipt, children |-> {}]

Terminal == {"SETTLED", "CANCELLED_BEFORE_DISPATCH"}
Outstanding == {"DISPATCHED", "OUTCOME_UNKNOWN"}

ASSUME RequestAssumption ==
  /\ IsFiniteSet(Requests) /\ Requests # {} /\ Zones # {}
  /\ \A r \in Requests : /\ r.children \in Nat
                         /\ r.child \in 0 .. (r.children - 1)
                         /\ r.type \in Types
  /\ NoReceipt \notin Receipts
ASSUME ClockAssumption ==
  /\ Times \subseteq Nat /\ 0 \in Times
  /\ PublicationDelay \in Nat
  /\ DAY \in Nat /\ MONTH \in Nat /\ DAY <= MONTH
  /\ DayOf \in [Zones -> [Times -> Nat]]
  /\ \A z \in Zones : \A t, u \in Times : t <= u => DayOf[z][t] <= DayOf[z][u]
  /\ WindowEnd \in [Tiers -> [Zones -> [Times -> Nat]]]
  /\ \A tier \in Tiers, z \in Zones, t \in Times : WindowEnd[tier][z][t] > t
  /\ Interval \in [Tiers -> Nat \ {0}]
ASSUME CapAssumption ==
  /\ Tiers # {}
  /\ MaxQuote \in Nat /\ Quotes \subseteq 0 .. MaxQuote /\ Charges \subseteq Nat
  /\ Outcomes \subseteq {"VALIDATED", "FAILED", "COMMITTED"}
  /\ Verdicts \subseteq {"COMMITTED", "FAILED"}
  /\ RowLimit \in Nat
  /\ ResultCap \in [Types -> [Tiers -> Nat]]
  /\ AttemptCap \in [Types -> [Tiers -> Nat]]
  /\ FeatureDayCap \in [Types -> [Tiers -> Nat]]
  /\ FeatureMonthCap \in [Types -> [Tiers -> Nat]]
  /\ UserDayCap \in [Tiers -> Nat] /\ UserMonthCap \in [Tiers -> Nat]
  /\ GlobalDayCap \in Nat /\ GlobalMonthCap \in Nat

-----------------------------------------------------------------------------
\* The snapshot's rows and the groups the code forms of them.

Absent == "ABSENT"
EmptyRow ==
  [state |-> Absent, request |-> CHOOSE r \in Requests : TRUE, held |-> 0,
   reservedAt |-> NoTime, reservedZone |-> CHOOSE z \in Zones : TRUE,
   nextEligibilityAt |-> NoTime, opens |-> FALSE,
   dispatchedAt |-> NoTime, dispatchedZone |-> CHOOSE z \in Zones : TRUE,
   settledAt |-> NoTime, outcome |-> "NONE", receipt |-> NoReceipt, usd |-> 0,
   unknownReceipt |-> NoReceipt,
   resolution |-> NoResolution, resolvedAt |-> NoTime,
   committed |-> FALSE, committedAt |-> NoTime,
   committedZone |-> CHOOSE z \in Zones : TRUE]

Present == {o \in OpNames : rows[o].state # Absent}
\* A row that counts: a cancelled one never reached the provider.
Active == {o \in Present : rows[o].state # "CANCELLED_BEFORE_DISPATCH"}
Unsettled(o) == rows[o].state \notin Terminal
JobRows(j) == {o \in Present : rows[o].request.job = j}
UserRows(p) == {o \in Active : rows[o].request.principal = p}
FeatureRows(p, type) == {o \in UserRows(p) : rows[o].request.type = type}

\* The row of r exists and was admitted for exactly this request.
IsBound(r) == rows[r.op].state # Absent /\ rows[r.op].request = r

\* What every child of one job must agree on.
Binding(r) == <<r.job, r.principal, r.scope, r.type, r.children>>

\* The amount a row occupies: the full bound until it settles, then the spend.
Occupied(o) == IF rows[o].state = "SETTLED" THEN rows[o].usd ELSE rows[o].held

\* The sum of Occupied over S, counted in single micros.
Micros(S) == {m \in S \X (1 .. MaxQuote) : m[2] <= Occupied(m[1])}
Amount(S) == Cardinality(Micros(S))

\* A job holds a result slot: its result is committed, a child is still open,
\* or its children are so far all validated.
HoldsSlot(j) ==
  LET group == JobRows(j)
  IN  IF \E o \in group : rows[o].resolution.outcome # "NONE"
        THEN \E o \in group : rows[o].resolution.outcome = "COMMITTED"
        ELSE \/ \E o \in group : rows[o].committed \/ Unsettled(o)
             \/ /\ \E o \in group : rows[o].outcome = "VALIDATED"
                /\ \A o \in group : /\ rows[o].outcome # "FAILED"
                                    /\ rows[o].state # "CANCELLED_BEFORE_DISPATCH"

-----------------------------------------------------------------------------
\* Usage inside the rolling windows, as of clock reading t.

Recent(at, t, span) == at > t - span

\* Spend is dated by the dispatch, a row not dispatched yet by its reservation.
ChargedAt(o) == IF rows[o].dispatchedAt = NoTime THEN rows[o].reservedAt
                                                 ELSE rows[o].dispatchedAt
ChargedZone(o) == IF rows[o].dispatchedAt = NoTime THEN rows[o].reservedZone
                                                   ELSE rows[o].dispatchedZone
SameDay(zone, at, t) == DayOf[zone][at] = DayOf[zone][t]

InMoney(S, span, t) == {o \in S : Unsettled(o) \/ Recent(ChargedAt(o), t, span)}
Money(S, span, t) == Amount(InMoney(S, span, t))

Attempts(p, type, t) ==
  {o \in FeatureRows(p, type) : \/ Unsettled(o)
                                \/ Recent(ChargedAt(o), t, DAY)
                                \/ SameDay(ChargedZone(o), ChargedAt(o), t)}

CountsAsResult(j, t) ==
  /\ HoldsSlot(j)
  /\ \A o \in JobRows(j) :
       rows[o].committed =>
         \/ Recent(rows[o].committedAt, t, DAY)
         \/ SameDay(rows[o].committedZone, rows[o].committedAt, t)
JobsOf(p, type) == {r.job : r \in {q \in Requests : q.principal = p /\ q.type = type}}
Results(p, type, t) ==
  {j \in JobsOf(p, type) :
     /\ \E o \in JobRows(j) : /\ rows[o].request.principal = p
                              /\ rows[o].request.type = type
     /\ CountsAsResult(j, t)}

-----------------------------------------------------------------------------
\* Admission of a new row.

\* evaluateAdmission, the counted quotas: logical results and physical attempts.
SlotCountedOnce(r, t, f) ==   \* mutant
  LET newResult == IF JobRows(r.job) = {} THEN 1 ELSE 0
  IN  /\ Cardinality(Results(r.principal, r.type, t)) + newResult <= ResultCap[r.type][f.tier]
      /\ Cardinality(Attempts(r.principal, r.type, t)) + 1 <= AttemptCap[r.type][f.tier]
WithinQuotas(r, t, f) ==
  LET newResult == IF HoldsSlot(r.job) THEN 0 ELSE 1
  IN  /\ Cardinality(Results(r.principal, r.type, t)) + newResult <= ResultCap[r.type][f.tier]
      /\ Cardinality(Attempts(r.principal, r.type, t)) + 1 <= AttemptCap[r.type][f.tier]

\* evaluateAdmission, the money allowances of the feature, the user and the
\* service.  Token allowances have the same shape and are left out.
ServiceOnly(r, t, f) ==   \* mutant
  /\ Money(Active, DAY, t) + f.quote <= GlobalDayCap
  /\ Money(Active, MONTH, t) + f.quote <= GlobalMonthCap
WithinMoney(r, t, f) ==
  LET user == UserRows(r.principal)
      feature == FeatureRows(r.principal, r.type)
  IN  /\ Money(feature, DAY, t) + f.quote <= FeatureDayCap[r.type][f.tier]
      /\ Money(feature, MONTH, t) + f.quote <= FeatureMonthCap[r.type][f.tier]
      /\ Money(user, DAY, t) + f.quote <= UserDayCap[f.tier]
      /\ Money(user, MONTH, t) + f.quote <= UserMonthCap[f.tier]
      /\ Money(Active, DAY, t) + f.quote <= GlobalDayCap
      /\ Money(Active, MONTH, t) + f.quote <= GlobalMonthCap

Admits(r, t, f) ==
  /\ GlobalDayCap > 0 /\ GlobalMonthCap > 0
  /\ WithinQuotas(r, t, f)
  /\ WithinMoney(r, t, f)

\* The rows that opened a maintenance cycle of p: the earliest of each job, the
\* first stored where two have one date, cancelled ones included. No reading of
\* the clock is before an earlier one, so that is the row that opened its job.
CycleStarts(p) ==
  {o \in Present : rows[o].request.principal = p /\ rows[o].opens}

\* checkMaintenanceCadence: a new cycle waits out every admitted cycle, by the
\* interval of the current tier and by the deadline the cycle was given.
CancelledCyclesForgotten(r, t, f) ==   \* mutant
  \/ r.type # "AI_MAINTENANCE"
  \/ JobRows(r.job) # {}
  \/ \A o \in CycleStarts(r.principal) \cap Active :
       /\ rows[o].reservedAt + Interval[f.tier] <= t
       /\ rows[o].nextEligibilityAt <= t
CadenceOpen(r, t, f) ==
  \/ r.type # "AI_MAINTENANCE"
  \/ JobRows(r.job) # {}
  \/ \A o \in CycleStarts(r.principal) :
       /\ rows[o].reservedAt + Interval[f.tier] <= t
       /\ rows[o].nextEligibilityAt <= t

Later(a, b) == IF a >= b THEN a ELSE b
NextEligibility(t, f) == Later(t + Interval[f.tier], WindowEnd[f.tier][f.zone][t])

NewRow(r, t, f) ==
  [EmptyRow EXCEPT !.state = "RESERVED", !.request = r, !.held = f.quote,
                   !.reservedAt = t, !.reservedZone = f.zone,
                   !.nextEligibilityAt = NextEligibility(t, f),
                   !.opens = r.type = "AI_MAINTENANCE" /\ JobRows(r.job) = {}]

\* What the lifecycle calls write into a row.
InState(row, state) == [row EXCEPT !.state = state]
Dispatched(row, t, zone) ==
  [row EXCEPT !.state = "DISPATCHED", !.dispatchedAt = t, !.dispatchedZone = zone]
Unknowable(row, receipt) ==
  [row EXCEPT !.state = "OUTCOME_UNKNOWN", !.unknownReceipt = receipt]
Charged(row, t, receipt, outcome, usd) ==
  [row EXCEPT !.state = "SETTLED", !.settledAt = t, !.outcome = outcome,
              !.receipt = receipt, !.usd = usd]
Resolved(row, t, evidence) == [row EXCEPT !.resolution = evidence, !.resolvedAt = t]

\* A committed result is dated and zoned on the row that carries it.
WithResult(row, outcome, t, zone) ==
  IF outcome = "COMMITTED"
    THEN [row EXCEPT !.committed = TRUE, !.committedAt = t, !.committedZone = zone]
    ELSE row

\* Receipts spent on rows other than o, and on results.
ReceiptsOfOthers(o) ==
  {rows[s].receipt : s \in Present \ {o}} \cup {rows[s].unknownReceipt : s \in Present \ {o}}
ResultReceipts == {rows[s].resolution.receipt : s \in Present}
SettledReceipts ==   \* mutant
  {rows[s].receipt : s \in Present} \cup ResultReceipts
UsedReceipts ==
  {rows[s].receipt : s \in Present} \cup {rows[s].unknownReceipt : s \in Present}
    \cup ResultReceipts

-----------------------------------------------------------------------------
\* The stored history every transaction re-validates before it acts.

ChildrenOf(j) ==
  {<<o, IF rows[o].state = "SETTLED" THEN rows[o].receipt ELSE NoReceipt>> : o \in JobRows(j)}

Evidence(j, receipt, outcome) ==
  [outcome |-> outcome, receipt |-> receipt, children |-> ChildrenOf(j)]

\* qualifiedGroup: the job of anchor can carry a result of this outcome.
Qualified(anchor, outcome) ==
  LET r == rows[anchor].request
      group == JobRows(r.job)
  IN  /\ r.child = 0
      /\ Cardinality(group) <= r.children
      /\ \A o \in group : /\ Binding(rows[o].request) = Binding(r)
                          /\ rows[o].state \in Terminal
                          /\ rows[o].state = "SETTLED" =>
                               rows[o].outcome \in {"VALIDATED", "FAILED"}
      /\ \A o, s \in group : rows[o].request.child = rows[s].request.child => o = s
      /\ outcome = "COMMITTED" =>
           /\ Cardinality(group) = r.children
           /\ \A o \in group : rows[o].outcome = "VALIDATED"

ResultHistoryValid(t) ==
  \A o \in {s \in Present : rows[s].resolution.outcome # "NONE"} :
    LET row == rows[o]
        group == JobRows(row.request.job)
    IN  /\ Qualified(o, row.resolution.outcome)
        /\ row.resolution.children = ChildrenOf(row.request.job)
        /\ \A s \in Present : row.resolution.receipt \notin {rows[s].receipt, rows[s].unknownReceipt}
        /\ \A s \in Present \ {o} : row.resolution.receipt # rows[s].resolution.receipt
        /\ row.resolvedAt <= t
        /\ \A s \in group : /\ row.resolvedAt >= rows[s].reservedAt
                            /\ row.resolvedAt >= rows[s].settledAt
                            /\ s # o => /\ rows[s].resolution.outcome = "NONE"
                                        /\ ~rows[s].committed
        /\ row.committed = (row.resolution.outcome = "COMMITTED")
        /\ row.committedAt = (IF row.committed THEN row.resolvedAt ELSE NoTime)

WindowHistoryValid(t) ==
  \A o \in Present :
    LET row == rows[o]
    IN  /\ row.reservedAt <= t
        /\ row.nextEligibilityAt > row.reservedAt
        /\ row.state \in Outstanding \cup {"SETTLED"} =>
             /\ row.reservedAt <= row.dispatchedAt
             /\ row.dispatchedAt <= t
        /\ row.state = "SETTLED" =>
             /\ row.dispatchedAt <= row.settledAt
             /\ row.settledAt <= t
        /\ row.committed =>
             /\ row.dispatchedAt <= row.committedAt
             /\ row.committedAt <= t
             /\ "COMMITTED" \in {row.outcome, row.resolution.outcome}

HistoryValid(t) == ResultHistoryValid(t) /\ WindowHistoryValid(t)

-----------------------------------------------------------------------------
\* One transaction: the clock may not roll back, the stored history must
\* validate, and the snapshot is stamped no earlier than the clock reading. The
\* actions name their own guards first, which are cheaper to look at.
Transaction(t) ==
  /\ lastNow <= t
  /\ HistoryValid(t)
  /\ lastNow' \in {p \in Times : t <= p /\ p <= t + PublicationDelay}

Init ==
  /\ rows = [o \in OpNames |-> EmptyRow]
  /\ lastNow = 0

\* A further child of a job: its result is open, it is the same job, this
\* child is new, and no sibling is at the provider.
JoinsJob(r) ==
  \A o \in JobRows(r.job) : /\ rows[o].resolution.outcome = "NONE"
                            /\ Binding(rows[o].request) = Binding(r)
                            /\ rows[o].request.child # r.child
                            /\ rows[o].state \notin Outstanding

Reserve(r, t, f) ==
  /\ rows[r.op].state = Absent
  /\ JoinsJob(r)
  /\ Cardinality(Present) < RowLimit
  /\ CadenceOpen(r, t, f)
  /\ Admits(r, t, f)
  /\ Transaction(t)
  /\ rows' = [rows EXCEPT ![r.op] = NewRow(r, t, f)]

RecordDispatched(r, t, zone) ==
  /\ IsBound(r)
  /\ rows[r.op].state = "RESERVED"
  /\ \A o \in JobRows(r.job) \ {r.op} : rows[o].state \notin Outstanding
  /\ Transaction(t)
  /\ rows' = [rows EXCEPT ![r.op] = Dispatched(@, t, zone)]

RecordUnknown(r, t) ==
  /\ IsBound(r)
  /\ rows[r.op].state = "DISPATCHED"
  /\ Transaction(t)
  /\ rows' = [rows EXCEPT ![r.op] = InState(@, "OUTCOME_UNKNOWN")]

CancelledAfterDispatch(r, t) ==   \* mutant
  /\ IsBound(r)
  /\ rows[r.op].state \in {"RESERVED", "DISPATCHED"}
  /\ Transaction(t)
  /\ rows' = [rows EXCEPT ![r.op] = InState(@, "CANCELLED_BEFORE_DISPATCH")]
RecordCancelled(r, t) ==
  /\ IsBound(r)
  /\ rows[r.op].state = "RESERVED"
  /\ Transaction(t)
  /\ rows' = [rows EXCEPT ![r.op] = InState(@, "CANCELLED_BEFORE_DISPATCH")]

\* The provider's outcome is attested to be unknowable for now.
SettleUnknown(r, t, receipt) ==
  /\ IsBound(r)
  /\ receipt \notin ReceiptsOfOthers(r.op) \cup ResultReceipts
  /\ rows[r.op].state \in Outstanding
  /\ rows[r.op].unknownReceipt \in {NoReceipt, receipt}
  /\ Transaction(t)
  /\ rows' = [rows EXCEPT ![r.op] = Unknowable(@, receipt)]

\* The last child of a job whose other children are all validated.
SiblingsSoFarValidated(r) ==   \* mutant
  \A o \in JobRows(r.job) \ {r.op} : rows[o].state = "SETTLED" /\ rows[o].outcome = "VALIDATED"
SiblingsValidated(r) ==
  /\ Cardinality(JobRows(r.job)) = r.children
  /\ \A o \in JobRows(r.job) \ {r.op} : rows[o].state = "SETTLED" /\ rows[o].outcome = "VALIDATED"

\* A verified charge.  Only the last child may also carry the committed result.
Settle(r, t, zone, receipt, outcome, usd) ==
  /\ IsBound(r)
  /\ receipt \notin ReceiptsOfOthers(r.op) \cup ResultReceipts
  /\ rows[r.op].state \in Outstanding
  /\ usd <= rows[r.op].held
  /\ outcome = "COMMITTED" => SiblingsValidated(r)
  /\ Transaction(t)
  /\ rows' = [rows EXCEPT ![r.op] =
                 WithResult(Charged(@, t, receipt, outcome, usd), outcome, t, zone)]

\* The domain's verdict on a job, after every child's charge is final.
FinalizedAgain(r, t, zone, receipt, outcome) ==   \* mutant
  /\ IsBound(r)
  /\ Qualified(r.op, outcome)
  /\ \A o \in JobRows(r.job) : ~rows[o].committed
  /\ receipt \notin UsedReceipts
  /\ Transaction(t)
  /\ rows' = [rows EXCEPT ![r.op] =
                 WithResult(Resolved(@, t, Evidence(r.job, receipt, outcome)), outcome, t, zone)]
FinalizeResult(r, t, zone, receipt, outcome) ==
  /\ IsBound(r)
  /\ Qualified(r.op, outcome)
  /\ \A o \in JobRows(r.job) : rows[o].resolution.outcome = "NONE" /\ ~rows[o].committed
  /\ receipt \notin UsedReceipts
  /\ Transaction(t)
  /\ rows' = [rows EXCEPT ![r.op] =
                 WithResult(Resolved(@, t, Evidence(r.job, receipt, outcome)), outcome, t, zone)]

\* A call that repeats one already applied (the same reservation, lifecycle
\* fact, settlement or result) is acknowledged and only moves the clock.
Replay(r, t) ==
  /\ IsBound(r)
  /\ Transaction(t)
  /\ rows' = rows

\* One call about r at clock reading t; a holds what the trusted services may
\* attest in it.
Call(r, t, a) ==
  \/ \E f \in a.facts : Reserve(r, t, f)
  \/ \E zone \in a.zones :
       \/ RecordDispatched(r, t, zone)
       \/ \E receipt \in a.receipts :
            \/ \E outcome \in a.outcomes, usd \in a.charges :
                 Settle(r, t, zone, receipt, outcome, usd)
            \/ \E outcome \in a.verdicts : FinalizeResult(r, t, zone, receipt, outcome)
  \/ RecordUnknown(r, t)
  \/ RecordCancelled(r, t)
  \/ \E receipt \in a.receipts : SettleUnknown(r, t, receipt)
  \/ Replay(r, t)

Anything == [facts |-> Facts, zones |-> Zones, receipts |-> Receipts,
             outcomes |-> Outcomes, charges |-> Charges, verdicts |-> Verdicts]
Next == \E r \in Requests, t \in Times : Call(r, t, Anything)

Spec == Init /\ [][Next]_vars

-----------------------------------------------------------------------------
\* Types.

States == {Absent, "RESERVED", "DISPATCHED", "OUTCOME_UNKNOWN", "SETTLED",
           "CANCELLED_BEFORE_DISPATCH"}
MaybeTime == Times \cup {NoTime}
MaybeReceipt == Receipts \cup {NoReceipt}
Resolution == [outcome : {"NONE", "COMMITTED", "FAILED"}, receipt : MaybeReceipt,
               children : SUBSET (OpNames \X MaybeReceipt)]
Row == [state : States, request : Requests, held : Quotes \cup {0},
        reservedAt : MaybeTime, reservedZone : Zones, nextEligibilityAt : Nat \cup {NoTime},
        opens : BOOLEAN, dispatchedAt : MaybeTime, dispatchedZone : Zones,
        settledAt : MaybeTime, outcome : Outcomes \cup {"NONE"},
        receipt : MaybeReceipt, usd : Nat, unknownReceipt : MaybeReceipt,
        resolution : Resolution, resolvedAt : MaybeTime,
        committed : BOOLEAN, committedAt : MaybeTime, committedZone : Zones]

\* Every stored row has the shape the snapshot codec accepts, under the
\* operation id of its own request, and the clock stamp is a clock reading.
TypeOK ==
  /\ rows \in [OpNames -> Row]
  /\ lastNow \in Times
  /\ \A o \in Present : rows[o].request.op = o

-----------------------------------------------------------------------------
\* Safety.

\* No allowance is ever overrun: whatever was reserved, sent, lost or settled,
\* the money a principal, a feature or the whole service occupies inside each
\* rolling window stays within a cap that some tier grants it.  Guards the
\* releases (settle below the bound, cancel) and the re-dating of a charge
\* from its reservation to its dispatch.
BudgetNeverExceeded ==
  /\ Money(Active, DAY, lastNow) <= GlobalDayCap
  /\ Money(Active, MONTH, lastNow) <= GlobalMonthCap
  /\ \A p \in Principals :
       /\ \E tier \in Tiers : Money(UserRows(p), DAY, lastNow) <= UserDayCap[tier]
       /\ \E tier \in Tiers : Money(UserRows(p), MONTH, lastNow) <= UserMonthCap[tier]
       /\ \A type \in Types :
            /\ \E tier \in Tiers :
                 Money(FeatureRows(p, type), DAY, lastNow) <= FeatureDayCap[type][tier]
            /\ \E tier \in Tiers :
                 Money(FeatureRows(p, type), MONTH, lastNow) <= FeatureMonthCap[type][tier]

\* A principal never has more physical attempts in the rolling day and in
\* their own calendar days than some tier allows.
AttemptsWithinQuota ==
  \A p \in Principals, type \in Types :
    \E tier \in Tiers : Cardinality(Attempts(p, type, lastNow)) <= AttemptCap[type][tier]

\* Nor more logical results: a slot that a failed or cancelled child released
\* is never taken again without a new admission, and a late commit does not
\* add a result to a day that is already full.
ResultsWithinQuota ==
  \A p \in Principals, type \in Types :
    \E tier \in Tiers : Cardinality(Results(p, type, lastNow)) <= ResultCap[type][tier]

\* The service never writes a snapshot that its own validators would refuse,
\* which would close the ledger to every principal for good.
HistoryAccepted == HistoryValid(lastNow)

\* At most one child of a job is at the provider with its charge open.
OneOpenAttemptPerJob ==
  \A o, s \in Present :
    /\ rows[o].request.job = rows[s].request.job
    /\ rows[o].state \in Outstanding /\ rows[s].state \in Outstanding
    => o = s

\* The children of one job are distinct and agree on everything that binds
\* the job to its principal, scope and size.
JobsAreCoherent ==
  \A o, s \in Present :
    rows[o].request.job = rows[s].request.job =>
      /\ Binding(rows[o].request) = Binding(rows[s].request)
      /\ rows[o].request.child = rows[s].request.child => o = s

\* Whatever the tier and the history, a principal's use stays inside its
\* quotas, no job has two charges open and its children agree.
QuotasHold ==
  /\ AttemptsWithinQuota /\ ResultsWithinQuota
  /\ OneOpenAttemptPerJob /\ JobsAreCoherent

\* A provider receipt is evidence for one operation, a result receipt for one
\* job, and never both.
ReceiptsAreNotShared ==
  \A o \in Present :
    /\ {rows[o].receipt, rows[o].unknownReceipt} \cap (ReceiptsOfOthers(o) \cup ResultReceipts)
         \subseteq {NoReceipt}
    /\ \A s \in Present \ {o} :
         rows[o].resolution.receipt = rows[s].resolution.receipt
           => rows[o].resolution.receipt = NoReceipt

\* A job delivers at most one committed result, and only when every child it
\* declared is settled and none failed or was cancelled.
CommittedResultIsComplete ==
  \A o \in Present :
    rows[o].committed =>
      LET group == JobRows(rows[o].request.job)
      IN  /\ {rows[s].request.child : s \in group} = 0 .. (rows[o].request.children - 1)
          /\ \A s \in group :
               /\ rows[s].state = "SETTLED"
               /\ rows[s].outcome # "FAILED"
               /\ rows[s].committed => s = o

\* Receipts and the result they vouch for belong together.
ReceiptsAreSound == ReceiptsAreNotShared /\ CommittedResultIsComplete

\* Two maintenance cycles of a principal start at least the shortest interval
\* apart, and the later one never before the deadline the earlier was given,
\* across changes of tier and time zone, cancelled cycles included.
MaintenanceCyclesAreSpaced ==
  \A p \in Principals :
    \A o, s \in CycleStarts(p) :
      /\ rows[o].request.job # rows[s].request.job
      /\ rows[o].reservedAt <= rows[s].reservedAt
      => /\ rows[o].nextEligibilityAt <= rows[s].reservedAt
         /\ \E tier \in Tiers : rows[o].reservedAt + Interval[tier] <= rows[s].reservedAt

\* Once a job has its result, committed by a child's settlement or resolved by
\* the domain, no row of the job is added or changes its charge again.
ResultIsFinal ==
  [][\A o \in Present :
       rows[o].committed \/ rows[o].resolution.outcome # "NONE" =>
         /\ JobRows(rows[o].request.job)' = JobRows(rows[o].request.job)
         /\ \A s \in JobRows(rows[o].request.job) : rows'[s] = rows[s]]_vars

\* The hold of an operation that reached the provider is only ever exchanged
\* for a settled charge no larger; time, retries and unknown outcomes do not
\* release it, and a charge or a cancellation is never revised.
HoldIsKeptUntilSettled ==
  [][\A o \in Present :
       /\ rows[o].state \in Outstanding =>
            /\ rows'[o].state \in Outstanding \cup {"SETTLED"}
            /\ rows'[o].dispatchedAt = rows[o].dispatchedAt
            /\ Occupied(o)' <= Occupied(o)
       /\ rows[o].state \in Terminal =>
            /\ rows'[o].state = rows[o].state
            /\ rows'[o].receipt = rows[o].receipt
            /\ Occupied(o)' = Occupied(o)]_vars

=============================================================================
