------------------------- MODULE BudgetLedgerProofs --------------------------
(***************************************************************************)
(* What BudgetLedger guarantees for every set of requests, every calendar  *)
(* and every choice of caps: the shape of its rows, the holds, the         *)
(* agreement of the children of a job; then that no allowance is overrun;  *)
(* at last what it promises about jobs, receipts, quotas, maintenance      *)
(* cycles and the snapshot a call leaves.                                  *)
(***************************************************************************)
EXTENDS BudgetLedger, FiniteSetTheorems, TLAPS

LEMMA EmptyRowType == EmptyRow \in Row /\ EmptyRow.state = Absent
  BY RequestAssumption, ClockAssumption
     DEF EmptyRow, Row, Absent, States, MaybeTime, MaybeReceipt, Resolution, NoResolution, NoTime

\* The row of a new reservation.
LEMMA NewRowType ==
  ASSUME NEW r \in Requests, NEW t \in Times, NEW f \in Facts
  PROVE  /\ NewRow(r, t, f) \in Row
         /\ NewRow(r, t, f).request = r
         /\ NewRow(r, t, f).state = "RESERVED"
  <1>1. NextEligibility(t, f) \in Nat
    BY ClockAssumption DEF NextEligibility, Later, Facts
  <1>2. PICK first \in BOOLEAN : first = (r.type = "AI_MAINTENANCE" /\ JobRows(r.job) = {})
    OBVIOUS
  <1>3. /\ f.quote \in Quotes \cup {0} /\ f.zone \in Zones /\ "RESERVED" \in States
        /\ t \in MaybeTime /\ NextEligibility(t, f) \in Nat \cup {NoTime}
    BY <1>1 DEF Facts, States, MaybeTime
  <1>4. PICK empty \in Row : empty = EmptyRow
    BY EmptyRowType
  <1>5. PICK eligible \in Nat \cup {NoTime} : eligible = NextEligibility(t, f)
    BY <1>3
  <1>6. NewRow(r, t, f) =
          [empty EXCEPT !.state = "RESERVED", !.request = r, !.held = f.quote,
                        !.reservedAt = t, !.reservedZone = f.zone,
                        !.nextEligibilityAt = eligible, !.opens = first]
    BY <1>2, <1>4, <1>5, Zenon DEF NewRow
  <1>7. PICK held \in Quotes \cup {0}, zone \in Zones, state \in States, at \in MaybeTime :
          held = f.quote /\ zone = f.zone /\ state = "RESERVED" /\ at = t
    BY <1>3
  <1>8. PICK part \in Row : part = [empty EXCEPT !.state = state, !.request = r, !.held = held]
    BY Zenon DEF Row
  <1>9. PICK row \in Row : row = [part EXCEPT !.reservedAt = at, !.reservedZone = zone,
                                             !.nextEligibilityAt = eligible, !.opens = first]
    BY Zenon DEF Row
  <1>10. row.request = r /\ row.state = "RESERVED"
    BY <1>7, <1>8, <1>9, Zenon DEF Row
  <1>11. NewRow(r, t, f) = row
    BY <1>6, <1>7, <1>8, <1>9, Zenon DEF Row
  <1>12. QED
    BY <1>10, <1>11
-----------------------------------------------------------------------------
(* Type correctness. *)

LEMMA OpsOfRequests == \A r \in Requests : r.op \in OpNames
  BY DEF OpNames

\* A step that replaces the row of o by one of the row type, kept under o,
\* keeps the snapshot well typed.
LEMMA OneRowUpdate ==
  ASSUME TypeOK, NEW o \in OpNames, NEW row \in Row, row.request.op = o,
         rows' = [rows EXCEPT ![o] = row], lastNow' \in Times
  PROVE  TypeOK'
  BY DEF TypeOK, Present

\* Each row update stays in the row type and keeps the request.
LEMMA InStateType ==
  ASSUME NEW row \in Row, NEW state \in States
  PROVE  InState(row, state) \in Row /\ InState(row, state).request = row.request
  BY Zenon DEF Row, InState

LEMMA DispatchedType ==
  ASSUME NEW row \in Row, NEW t \in Times, NEW zone \in Zones
  PROVE  Dispatched(row, t, zone) \in Row /\ Dispatched(row, t, zone).request = row.request
  BY Zenon DEF Row, Dispatched, MaybeTime, States

LEMMA UnknowableType ==
  ASSUME NEW row \in Row, NEW receipt \in Receipts
  PROVE  Unknowable(row, receipt) \in Row /\ Unknowable(row, receipt).request = row.request
  BY Zenon DEF Row, Unknowable, MaybeReceipt, States

LEMMA ChargedType ==
  ASSUME NEW row \in Row, NEW t \in Times, NEW receipt \in Receipts,
         NEW outcome \in Outcomes, NEW usd \in Charges
  PROVE  /\ Charged(row, t, receipt, outcome, usd) \in Row
         /\ Charged(row, t, receipt, outcome, usd).request = row.request
  <1>1. usd \in Nat
    BY CapAssumption
  <1>2. QED
    BY <1>1, Zenon DEF Row, Charged, MaybeReceipt, MaybeTime, States

LEMMA ResolvedType ==
  ASSUME NEW row \in Row, NEW t \in Times, NEW evidence \in Resolution
  PROVE  /\ Resolved(row, t, evidence) \in Row
         /\ Resolved(row, t, evidence).request = row.request
  BY Zenon DEF Row, Resolved, MaybeTime

LEMMA WithResultType ==
  ASSUME NEW row \in Row, NEW outcome, NEW t \in Times, NEW zone \in Zones
  PROVE  /\ WithResult(row, outcome, t, zone) \in Row
         /\ WithResult(row, outcome, t, zone).request = row.request
  <1>1. [row EXCEPT !.committed = TRUE, !.committedAt = t, !.committedZone = zone] \in Row
    BY Zenon DEF Row, MaybeTime
  <1>2. [row EXCEPT !.committed = TRUE, !.committedAt = t,
                    !.committedZone = zone].request = row.request
    BY Zenon DEF Row
  <1>3. QED
    BY <1>1, <1>2 DEF WithResult

LEMMA ChildrenType ==
  ASSUME TypeOK, NEW j
  PROVE  ChildrenOf(j) \in SUBSET (OpNames \X MaybeReceipt)
  BY DEF ChildrenOf, JobRows, Present, TypeOK, Row, MaybeReceipt

LEMMA EvidenceType ==
  ASSUME TypeOK, NEW j, NEW receipt \in Receipts, NEW outcome \in Verdicts
  PROVE  Evidence(j, receipt, outcome) \in Resolution
  BY ChildrenType, CapAssumption DEF Evidence, Resolution, MaybeReceipt

\* What a bound request points at.
LEMMA BoundRow ==
  ASSUME TypeOK, NEW r \in Requests, IsBound(r)
  PROVE  r.op \in OpNames /\ rows[r.op] \in Row /\ rows[r.op].request = r
  BY OpsOfRequests DEF TypeOK, IsBound

\* The snapshot keeps its shape: TypeOK is inductive by itself.
THEOREM TypeCorrect == Spec => []TypeOK
  <1>1. Init => TypeOK
    BY EmptyRowType, ClockAssumption DEF Init, TypeOK, Present
  <1>2. TypeOK /\ [Next]_vars => TypeOK'
    <2> SUFFICES ASSUME TypeOK, [Next]_vars
                 PROVE  TypeOK'
      OBVIOUS
    <2>1. ASSUME NEW r \in Requests, NEW t \in Times, NEW f \in Facts, Reserve(r, t, f)
          PROVE  TypeOK'
      <3>1. rows' = [rows EXCEPT ![r.op] = NewRow(r, t, f)] /\ lastNow' \in Times
        BY <2>1 DEF Reserve, Transaction
      <3>2. NewRow(r, t, f) \in Row /\ NewRow(r, t, f).request = r /\ r.op \in OpNames
        BY NewRowType, OpsOfRequests
      <3>3. QED
        BY <3>1, <3>2, OneRowUpdate
    <2>2. ASSUME NEW r \in Requests, NEW t \in Times, NEW zone \in Zones,
                 RecordDispatched(r, t, zone)
          PROVE  TypeOK'
      <3>1. r.op \in OpNames /\ rows[r.op] \in Row /\ rows[r.op].request = r
        BY <2>2, BoundRow DEF RecordDispatched
      <3>2. /\ Dispatched(rows[r.op], t, zone) \in Row
            /\ Dispatched(rows[r.op], t, zone).request = r
        BY <3>1, DispatchedType
      <3>3. QED
        BY <2>2, <3>1, <3>2, OneRowUpdate DEF RecordDispatched, Transaction
    <2>3. ASSUME NEW r \in Requests, NEW t \in Times, RecordUnknown(r, t)
          PROVE  TypeOK'
      BY <2>3, BoundRow, InStateType, OneRowUpdate DEF RecordUnknown, Transaction, States
    <2>4. ASSUME NEW r \in Requests, NEW t \in Times, RecordCancelled(r, t)
          PROVE  TypeOK'
      BY <2>4, BoundRow, InStateType, OneRowUpdate DEF RecordCancelled, Transaction, States
    <2>5. ASSUME NEW r \in Requests, NEW t \in Times, NEW receipt \in Receipts,
                 SettleUnknown(r, t, receipt)
          PROVE  TypeOK'
      <3>1. r.op \in OpNames /\ rows[r.op] \in Row /\ rows[r.op].request = r
        BY <2>5, BoundRow DEF SettleUnknown
      <3>2. /\ Unknowable(rows[r.op], receipt) \in Row
            /\ Unknowable(rows[r.op], receipt).request = r
        BY <3>1, UnknowableType
      <3>3. QED
        BY <2>5, <3>1, <3>2, OneRowUpdate DEF SettleUnknown, Transaction
    <2>6. ASSUME NEW r \in Requests, NEW t \in Times, NEW zone \in Zones,
                 NEW receipt \in Receipts, NEW outcome \in Outcomes, NEW usd \in Charges,
                 Settle(r, t, zone, receipt, outcome, usd)
          PROVE  TypeOK'
      <3>1. r.op \in OpNames /\ rows[r.op] \in Row /\ rows[r.op].request = r
        BY <2>6, BoundRow DEF Settle
      <3>2. /\ WithResult(Charged(rows[r.op], t, receipt, outcome, usd), outcome, t, zone) \in Row
            /\ WithResult(Charged(rows[r.op], t, receipt, outcome, usd), outcome, t, zone).request = r
        BY <3>1, ChargedType, WithResultType
      <3>3. QED
        BY <2>6, <3>1, <3>2, OneRowUpdate DEF Settle, Transaction
    <2>7. ASSUME NEW r \in Requests, NEW t \in Times, NEW zone \in Zones,
                 NEW receipt \in Receipts, NEW outcome \in Verdicts,
                 FinalizeResult(r, t, zone, receipt, outcome)
          PROVE  TypeOK'
      <3>1. r.op \in OpNames /\ rows[r.op] \in Row /\ rows[r.op].request = r
        BY <2>7, BoundRow DEF FinalizeResult
      <3>2. /\ WithResult(Resolved(rows[r.op], t, Evidence(r.job, receipt, outcome)),
                          outcome, t, zone) \in Row
            /\ WithResult(Resolved(rows[r.op], t, Evidence(r.job, receipt, outcome)),
                          outcome, t, zone).request = r
        BY <3>1, EvidenceType, ResolvedType, WithResultType
      <3>3. QED
        BY <2>7, <3>1, <3>2, OneRowUpdate DEF FinalizeResult, Transaction
    <2>8. ASSUME NEW r \in Requests, NEW t \in Times, Replay(r, t)
          PROVE  TypeOK'
      BY <2>8 DEF Replay, Transaction, TypeOK, Present
    <2>9. CASE UNCHANGED vars
      BY <2>9 DEF vars, TypeOK, Present
    <2>10. QED
      BY <2>1, <2>2, <2>3, <2>4, <2>5, <2>6, <2>7, <2>8, <2>9 DEF Next, Call, Anything
  <1>3. QED
    BY <1>1, <1>2, PTL DEF Spec

-----------------------------------------------------------------------------
(* What each row update writes and what it leaves alone. *)

LEMMA InStateFields ==
  ASSUME NEW row \in Row, NEW state, NEW new,
         new = InState(row, state)
  PROVE  /\ new.state = state /\ new.request = row.request /\ new.held = row.held
         /\ new.reservedAt = row.reservedAt /\ new.reservedZone = row.reservedZone
         /\ new.nextEligibilityAt = row.nextEligibilityAt /\ new.opens = row.opens
         /\ new.dispatchedAt = row.dispatchedAt /\ new.dispatchedZone = row.dispatchedZone
         /\ new.settledAt = row.settledAt /\ new.outcome = row.outcome
         /\ new.receipt = row.receipt /\ new.usd = row.usd
         /\ new.unknownReceipt = row.unknownReceipt /\ new.resolution = row.resolution
         /\ new.resolvedAt = row.resolvedAt /\ new.committed = row.committed
         /\ new.committedAt = row.committedAt /\ new.committedZone = row.committedZone
  BY Zenon DEF Row, InState

LEMMA DispatchedFields ==
  ASSUME NEW row \in Row, NEW t, NEW zone, NEW new,
         new = Dispatched(row, t, zone)
  PROVE  /\ new.state = "DISPATCHED" /\ new.dispatchedAt = t /\ new.dispatchedZone = zone
         /\ new.request = row.request /\ new.held = row.held
         /\ new.reservedAt = row.reservedAt /\ new.reservedZone = row.reservedZone
         /\ new.nextEligibilityAt = row.nextEligibilityAt /\ new.opens = row.opens
         /\ new.settledAt = row.settledAt
         /\ new.outcome = row.outcome /\ new.receipt = row.receipt /\ new.usd = row.usd
         /\ new.unknownReceipt = row.unknownReceipt /\ new.resolution = row.resolution
         /\ new.resolvedAt = row.resolvedAt /\ new.committed = row.committed
         /\ new.committedAt = row.committedAt /\ new.committedZone = row.committedZone
  BY Zenon DEF Row, Dispatched

LEMMA UnknowableFields ==
  ASSUME NEW row \in Row, NEW receipt, NEW new,
         new = Unknowable(row, receipt)
  PROVE  /\ new.state = "OUTCOME_UNKNOWN" /\ new.unknownReceipt = receipt
         /\ new.request = row.request /\ new.held = row.held
         /\ new.reservedAt = row.reservedAt /\ new.reservedZone = row.reservedZone
         /\ new.nextEligibilityAt = row.nextEligibilityAt /\ new.opens = row.opens
         /\ new.dispatchedAt = row.dispatchedAt /\ new.dispatchedZone = row.dispatchedZone
         /\ new.settledAt = row.settledAt /\ new.outcome = row.outcome
         /\ new.receipt = row.receipt /\ new.usd = row.usd
         /\ new.resolution = row.resolution /\ new.resolvedAt = row.resolvedAt
         /\ new.committed = row.committed /\ new.committedAt = row.committedAt
         /\ new.committedZone = row.committedZone
  BY Zenon DEF Row, Unknowable

LEMMA ChargedFields ==
  ASSUME NEW row \in Row, NEW t, NEW receipt, NEW outcome, NEW usd, NEW new,
         new = Charged(row, t, receipt, outcome, usd)
  PROVE  /\ new.state = "SETTLED" /\ new.settledAt = t /\ new.outcome = outcome
         /\ new.receipt = receipt /\ new.usd = usd /\ new.request = row.request
         /\ new.held = row.held /\ new.reservedAt = row.reservedAt
         /\ new.reservedZone = row.reservedZone
         /\ new.nextEligibilityAt = row.nextEligibilityAt /\ new.opens = row.opens
         /\ new.dispatchedAt = row.dispatchedAt /\ new.dispatchedZone = row.dispatchedZone
         /\ new.unknownReceipt = row.unknownReceipt /\ new.resolution = row.resolution
         /\ new.resolvedAt = row.resolvedAt /\ new.committed = row.committed
         /\ new.committedAt = row.committedAt /\ new.committedZone = row.committedZone
  BY Zenon DEF Row, Charged

LEMMA ResolvedFields ==
  ASSUME NEW row \in Row, NEW t, NEW evidence, NEW new,
         new = Resolved(row, t, evidence)
  PROVE  /\ new.resolution = evidence /\ new.resolvedAt = t /\ new.request = row.request
         /\ new.held = row.held /\ new.reservedAt = row.reservedAt
         /\ new.reservedZone = row.reservedZone
         /\ new.nextEligibilityAt = row.nextEligibilityAt /\ new.opens = row.opens
         /\ new.state = row.state
         /\ new.dispatchedAt = row.dispatchedAt /\ new.dispatchedZone = row.dispatchedZone
         /\ new.settledAt = row.settledAt /\ new.outcome = row.outcome
         /\ new.receipt = row.receipt /\ new.usd = row.usd
         /\ new.unknownReceipt = row.unknownReceipt /\ new.committed = row.committed
         /\ new.committedAt = row.committedAt /\ new.committedZone = row.committedZone
  BY Zenon DEF Row, Resolved

-----------------------------------------------------------------------------
(* One step, seen from a row that is already there: the facts about a step *)
(* that every further proof uses in place of the actions.                  *)

Continues(old, new) ==
  /\ new.request = old.request /\ new.held = old.held
  /\ new.reservedAt = old.reservedAt /\ new.reservedZone = old.reservedZone
  /\ new.nextEligibilityAt = old.nextEligibilityAt /\ new.opens = old.opens
  /\ new.state # Absent
  /\ new.state = old.state =>
       /\ new.dispatchedAt = old.dispatchedAt /\ new.dispatchedZone = old.dispatchedZone
       /\ new.settledAt = old.settledAt /\ new.outcome = old.outcome
       /\ new.receipt = old.receipt /\ new.usd = old.usd
  /\ old.state \in Terminal => new.state = old.state
  /\ old.state = "RESERVED" =>
       new.state \in {"RESERVED", "DISPATCHED", "CANCELLED_BEFORE_DISPATCH"}
  /\ old.state \in Outstanding =>
       /\ new.state \in Outstanding \cup {"SETTLED"}
       /\ new.dispatchedAt = old.dispatchedAt /\ new.dispatchedZone = old.dispatchedZone
  /\ new.state = "SETTLED" /\ old.state # "SETTLED" => new.usd <= old.held

\* No call but a reservation adds a row, and none touches two rows.
Advances ==
  /\ lastNow <= lastNow' /\ lastNow' \in Times
  /\ \A o \in OpNames : \/ rows'[o] = rows[o]
                        \/ rows[o].state # Absent /\ Continues(rows[o], rows'[o])

LEMMA WithResultContinues ==
  ASSUME NEW old \in Row, NEW mid \in Row, Continues(old, mid),
         NEW outcome, NEW t, NEW zone, NEW new, new = WithResult(mid, outcome, t, zone)
  PROVE  Continues(old, new)
  <1>1. /\ new.request = mid.request /\ new.held = mid.held
        /\ new.reservedAt = mid.reservedAt /\ new.reservedZone = mid.reservedZone
        /\ new.nextEligibilityAt = mid.nextEligibilityAt /\ new.opens = mid.opens
        /\ new.state = mid.state
        /\ new.dispatchedAt = mid.dispatchedAt /\ new.dispatchedZone = mid.dispatchedZone
        /\ new.settledAt = mid.settledAt /\ new.outcome = mid.outcome
        /\ new.receipt = mid.receipt /\ new.usd = mid.usd
    BY Zenon DEF Row, WithResult
  <1>2. QED
    BY <1>1 DEF Continues

LEMMA ClockAdvances ==
  ASSUME TypeOK, NEW t \in Times, Transaction(t)
  PROVE  lastNow <= t /\ t <= lastNow' /\ lastNow <= lastNow' /\ lastNow' \in Times
  <1>1. lastNow <= t /\ t <= lastNow' /\ lastNow' \in Times
    BY DEF Transaction
  <1>2. lastNow \in Nat /\ t \in Nat /\ lastNow' \in Nat
    BY <1>1, ClockAssumption DEF TypeOK
  <1>3. QED
    BY <1>1, <1>2

LEMMA OneRowAdvances ==
  ASSUME TypeOK, NEW r \in Requests, NEW t \in Times, Transaction(t), IsBound(r), NEW new,
         rows' = [rows EXCEPT ![r.op] = new], Continues(rows[r.op], new)
  PROVE  Advances
  <1>1. lastNow <= lastNow' /\ lastNow' \in Times
    BY ClockAdvances
  <1>2. ASSUME NEW o \in OpNames
        PROVE  \/ rows'[o] = rows[o]
               \/ rows[o].state # Absent /\ Continues(rows[o], rows'[o])
    BY DEF TypeOK, IsBound
  <1>3. QED
    BY <1>1, <1>2 DEF Advances

LEMMA StepsAdvance ==
  ASSUME TypeOK, [Next]_vars,
         ~ \E r \in Requests, t \in Times, f \in Facts : Reserve(r, t, f)
  PROVE  Advances
  <1>1. ASSUME NEW r \in Requests, NEW t \in Times, NEW zone \in Zones,
               RecordDispatched(r, t, zone)
        PROVE  Advances
    <2>1. rows[r.op] \in Row /\ Transaction(t) /\ IsBound(r)
      BY <1>1, BoundRow DEF RecordDispatched
    <2>2. Continues(rows[r.op], Dispatched(rows[r.op], t, zone))
      BY <1>1, <2>1, DispatchedFields DEF RecordDispatched, Continues, Absent, Terminal, Outstanding
    <2>3. QED
      BY <1>1, <2>1, <2>2, OneRowAdvances DEF RecordDispatched
  <1>2. ASSUME NEW r \in Requests, NEW t \in Times, RecordUnknown(r, t)
        PROVE  Advances
    <2>1. rows[r.op] \in Row /\ Transaction(t) /\ IsBound(r)
      BY <1>2, BoundRow DEF RecordUnknown
    <2>2. Continues(rows[r.op], InState(rows[r.op], "OUTCOME_UNKNOWN"))
      BY <1>2, <2>1, InStateFields DEF RecordUnknown, Continues, Absent, Terminal, Outstanding
    <2>3. QED
      BY <1>2, <2>1, <2>2, OneRowAdvances DEF RecordUnknown
  <1>3. ASSUME NEW r \in Requests, NEW t \in Times, RecordCancelled(r, t)
        PROVE  Advances
    <2>1. rows[r.op] \in Row /\ Transaction(t) /\ IsBound(r)
      BY <1>3, BoundRow DEF RecordCancelled
    <2>2. Continues(rows[r.op], InState(rows[r.op], "CANCELLED_BEFORE_DISPATCH"))
      BY <1>3, <2>1, InStateFields DEF RecordCancelled, Continues, Absent, Terminal, Outstanding
    <2>3. QED
      BY <1>3, <2>1, <2>2, OneRowAdvances DEF RecordCancelled
  <1>4. ASSUME NEW r \in Requests, NEW t \in Times, NEW receipt \in Receipts,
               SettleUnknown(r, t, receipt)
        PROVE  Advances
    <2>1. rows[r.op] \in Row /\ Transaction(t) /\ IsBound(r)
      BY <1>4, BoundRow DEF SettleUnknown
    <2>2. Continues(rows[r.op], Unknowable(rows[r.op], receipt))
      BY <1>4, <2>1, UnknowableFields DEF SettleUnknown, Continues, Absent, Terminal, Outstanding
    <2>3. QED
      BY <1>4, <2>1, <2>2, OneRowAdvances DEF SettleUnknown
  <1>5. ASSUME NEW r \in Requests, NEW t \in Times, NEW zone \in Zones,
               NEW receipt \in Receipts, NEW outcome \in Outcomes, NEW usd \in Charges,
               Settle(r, t, zone, receipt, outcome, usd)
        PROVE  Advances
    <2> DEFINE charged == Charged(rows[r.op], t, receipt, outcome, usd)
               new == WithResult(charged, outcome, t, zone)
    <2>1. rows[r.op] \in Row /\ Transaction(t) /\ IsBound(r) /\ charged \in Row
      BY <1>5, BoundRow, ChargedType DEF Settle
    <2>2. Continues(rows[r.op], charged)
      BY <1>5, <2>1, ChargedFields DEF Settle, Continues, Absent, Terminal, Outstanding
    <2>3. rows' = [rows EXCEPT ![r.op] = new]
      BY <1>5 DEF Settle
    <2> HIDE DEF charged
    <2>4. Continues(rows[r.op], new)
      BY <2>1, <2>2, WithResultContinues
    <2>5. QED
      BY <2>1, <2>3, <2>4, OneRowAdvances
  <1>6. ASSUME NEW r \in Requests, NEW t \in Times, NEW zone \in Zones,
               NEW receipt \in Receipts, NEW outcome \in Verdicts,
               FinalizeResult(r, t, zone, receipt, outcome)
        PROVE  Advances
    <2> DEFINE resolved == Resolved(rows[r.op], t, Evidence(r.job, receipt, outcome))
               new == WithResult(resolved, outcome, t, zone)
    <2>1. rows[r.op] \in Row /\ Transaction(t) /\ IsBound(r) /\ resolved \in Row
      BY <1>6, BoundRow, EvidenceType, ResolvedType DEF FinalizeResult
    <2>2. Continues(rows[r.op], resolved)
      BY <1>6, <2>1, ResolvedFields DEF IsBound, Continues, Absent, Terminal, Outstanding
    <2>3. rows' = [rows EXCEPT ![r.op] = new]
      BY <1>6 DEF FinalizeResult
    <2> HIDE DEF resolved
    <2>4. Continues(rows[r.op], new)
      BY <2>1, <2>2, WithResultContinues
    <2>5. QED
      BY <2>1, <2>3, <2>4, OneRowAdvances
  <1>7. ASSUME NEW r \in Requests, NEW t \in Times, Replay(r, t)
        PROVE  Advances
    BY <1>7, ClockAdvances DEF Replay, Advances
  <1>8. CASE UNCHANGED vars
    <2>1. lastNow \in Nat
      BY ClockAssumption DEF TypeOK
    <2>2. QED
      BY <1>8, <2>1 DEF vars, Advances, TypeOK
  <1>9. QED
    BY <1>1, <1>2, <1>3, <1>4, <1>5, <1>6, <1>7, <1>8 DEF Next, Call, Anything

\* A reservation writes one row that was absent, and leaves the others alone.
LEMMA ReserveAdds ==
  ASSUME TypeOK, NEW r \in Requests, NEW t \in Times, NEW f \in Facts, Reserve(r, t, f)
  PROVE  /\ r.op \in OpNames /\ r.op \notin Present
         /\ rows'[r.op] = NewRow(r, t, f)
         /\ \A o \in OpNames \ {r.op} : rows'[o] = rows[o]
         /\ Present' = Present \cup {r.op}
  <1>1. r.op \in OpNames /\ r.op \notin Present
    BY OpsOfRequests DEF Reserve, Present
  <1>2. rows' = [rows EXCEPT ![r.op] = NewRow(r, t, f)]
    BY DEF Reserve
  <1>3. /\ rows'[r.op] = NewRow(r, t, f)
        /\ \A o \in OpNames \ {r.op} : rows'[o] = rows[o]
    BY <1>1, <1>2 DEF TypeOK
  <1>4. NewRow(r, t, f).state # Absent
    BY NewRowType DEF Absent
  <1>5. QED
    BY <1>1, <1>3, <1>4 DEF Present

\* Every step, seen from a row that is present before it.
LEMMA RowsContinue ==
  ASSUME TypeOK, [Next]_vars, NEW o \in Present
  PROVE  rows'[o] = rows[o] \/ Continues(rows[o], rows'[o])
  <1>1. CASE \E r \in Requests, t \in Times, f \in Facts : Reserve(r, t, f)
    BY <1>1, ReserveAdds DEF Present
  <1>2. CASE ~ \E r \in Requests, t \in Times, f \in Facts : Reserve(r, t, f)
    BY <1>2, StepsAdvance DEF Advances, Present
  <1>3. QED
    BY <1>1, <1>2

-----------------------------------------------------------------------------
(* The hold of an operation that reached the provider.                     *)

LEMMA RowFacts ==
  ASSUME NEW row \in Row
  PROVE  /\ row.held \in Nat /\ row.usd \in Nat
         /\ row.state \in States
  <1>1. row.held \in Quotes \cup {0}
    BY DEF Row
  <1>2. row.usd \in Nat
    BY DEF Row
  <1>3. row.state \in States
    BY DEF Row
  <1>4. Quotes \cup {0} \subseteq Nat
    BY CapAssumption
  <1>5. QED
    BY <1>1, <1>2, <1>3, <1>4

\* No step releases the hold of an operation at the provider but a settlement
\* that charges no more, and none revises a charge or a cancellation.
THEOREM HoldKept == Spec => HoldIsKeptUntilSettled
<1> DEFINE Kept ==
      \A o \in Present :
       /\ rows[o].state \in Outstanding =>
            /\ rows'[o].state \in Outstanding \cup {"SETTLED"}
            /\ rows'[o].dispatchedAt = rows[o].dispatchedAt
            /\ Occupied(o)' <= Occupied(o)
       /\ rows[o].state \in Terminal =>
            /\ rows'[o].state = rows[o].state
            /\ rows'[o].receipt = rows[o].receipt
            /\ Occupied(o)' = Occupied(o)
<1>1. ASSUME TypeOK, [Next]_vars, NEW o \in Present
      PROVE  /\ rows[o].state \in Outstanding =>
                  /\ rows'[o].state \in Outstanding \cup {"SETTLED"}
                  /\ rows'[o].dispatchedAt = rows[o].dispatchedAt
                  /\ Occupied(o)' <= Occupied(o)
             /\ rows[o].state \in Terminal =>
                  /\ rows'[o].state = rows[o].state
                  /\ rows'[o].receipt = rows[o].receipt
                  /\ Occupied(o)' = Occupied(o)
  <2>1. rows[o] \in Row
    BY <1>1 DEF TypeOK, Present
  <2>2. rows[o].held \in Nat /\ rows[o].usd \in Nat
    BY <2>1, RowFacts
  <2>3. CASE rows'[o] = rows[o]
    BY <2>2, <2>3 DEF Occupied
  <2>4. CASE Continues(rows[o], rows'[o])
    BY <2>2, <2>4 DEF Continues, Occupied, Outstanding, Terminal
  <2>5. QED
    BY <1>1, <2>3, <2>4, RowsContinue
<1>2. TypeOK /\ [Next]_vars => Kept
  BY <1>1
<1>3. QED
  BY <1>2, TypeCorrect, PTL DEF Spec, HoldIsKeptUntilSettled

-----------------------------------------------------------------------------
(* The children of a job.                                                  *)

\* A request never changes under its operation, and a reservation is bound to
\* the rows of its job by the checks of Reserve.
LEMMA CoherenceStep ==
  ASSUME TypeOK, JobsAreCoherent, [Next]_vars
  PROVE  JobsAreCoherent'
<1>1. CASE \E r \in Requests, t \in Times, f \in Facts : Reserve(r, t, f)
  <2>1. PICK r \in Requests, t \in Times, f \in Facts : Reserve(r, t, f)
    BY <1>1
  <2>2. /\ r.op \notin Present /\ Present' = Present \cup {r.op} /\ r.op \in OpNames
        /\ \A o \in Present : rows'[o].request = rows[o].request
        /\ rows'[r.op].request = r
    BY <2>1, ReserveAdds, NewRowType DEF Present
  <2>3. \A o \in Present : rows[o].request.job = r.job =>
          Binding(rows[o].request) = Binding(r) /\ rows[o].request.child # r.child
    BY <2>1 DEF Reserve, JoinsJob, JobRows
  <2>4. ASSUME NEW o \in Present', NEW s \in Present',
               rows'[o].request.job = rows'[s].request.job
        PROVE  /\ Binding(rows'[o].request) = Binding(rows'[s].request)
               /\ rows'[o].request.child = rows'[s].request.child => o = s
    <3>1. CASE o = r.op /\ s = r.op
      BY <3>1
    <3>2. CASE o = r.op /\ s # r.op
      BY <3>2, <2>2, <2>3, <2>4
    <3>3. CASE o # r.op /\ s = r.op
      BY <3>3, <2>2, <2>3, <2>4
    <3>4. CASE o # r.op /\ s # r.op
      BY <3>4, <2>2, <2>4 DEF JobsAreCoherent
    <3>5. QED
      BY <3>1, <3>2, <3>3, <3>4
  <2>5. QED
    BY <2>4 DEF JobsAreCoherent, Binding
<1>2. CASE ~ \E r \in Requests, t \in Times, f \in Facts : Reserve(r, t, f)
  <2>1. \A o \in OpNames : \/ rows'[o] = rows[o]
                           \/ rows[o].state # Absent /\ rows'[o].request = rows[o].request
    BY <1>2, StepsAdvance DEF Advances, Continues
  <2>2. \A o \in Present' : o \in Present /\ rows'[o].request = rows[o].request
    BY <2>1 DEF Present
  <2>3. QED
    BY <2>2 DEF JobsAreCoherent, Binding
<1>3. QED
  BY <1>1, <1>2

THEOREM Coherence == Spec => []JobsAreCoherent
<1>1. Init => JobsAreCoherent
  BY EmptyRowType DEF Init, JobsAreCoherent, Present
<1>2. TypeOK /\ JobsAreCoherent /\ [Next]_vars => JobsAreCoherent'
  BY CoherenceStep
<1>3. QED
  BY <1>1, <1>2, TypeCorrect, PTL DEF Spec

-----------------------------------------------------------------------------
(***************************************************************************)
(* No allowance is overrun: BudgetNeverExceeded for every set of           *)
(* requests, every choice of caps and windows, and a clock that only       *)
(* moves forward.                                                          *)
(*                                                                         *)
(* Money is counted in single micros. Every call but a reservation can     *)
(* only remove micros from a window, and a reservation adds the micros of  *)
(* one bound to what the admission check has just compared with the cap.   *)
(***************************************************************************)

\* The rows that an allowance of principals P and job types T looks at, and
\* the micros it counts at time t.
Group(P, T) == {o \in Active : rows[o].request.principal \in P /\ rows[o].request.type \in T}
Counted(P, T, span, t) == Micros(InMoney(Group(P, T), span, t))
Spent(P, T, span) == Cardinality(Counted(P, T, span, lastNow))

WithinAllowances ==
  /\ Spent(Principals, Types, DAY) <= GlobalDayCap
  /\ Spent(Principals, Types, MONTH) <= GlobalMonthCap
  /\ \A p \in Principals :
       /\ \E tier \in Tiers : Spent({p}, Types, DAY) <= UserDayCap[tier]
       /\ \E tier \in Tiers : Spent({p}, Types, MONTH) <= UserMonthCap[tier]
       /\ \A type \in Types :
            /\ \E tier \in Tiers : Spent({p}, {type}, DAY) <= FeatureDayCap[type][tier]
            /\ \E tier \in Tiers : Spent({p}, {type}, MONTH) <= FeatureMonthCap[type][tier]

LEMMA RequestOfRow ==
  ASSUME NEW row \in Row
  PROVE  row.request \in Requests
  BY DEF Row

LEMMA GroupsOfTheCode ==
  ASSUME TypeOK
  PROVE  /\ Active = Group(Principals, Types)
         /\ \A p \in Principals : /\ UserRows(p) = Group({p}, Types)
                                  /\ \A type \in Types : FeatureRows(p, type) = Group({p}, {type})
  <1>1. \A o \in Active : rows[o] \in Row
    BY DEF TypeOK, Active, Present
  <1>2. \A o \in Active : rows[o].request \in Requests
    BY <1>1, RequestOfRow
  <1>3. \A o \in Active : /\ rows[o].request.principal \in Principals
                          /\ rows[o].request.type \in Types
    BY <1>2, RequestAssumption DEF Principals
  <1>4. QED
    BY <1>3 DEF Group, UserRows, FeatureRows

LEMMA MoneyIsSpent ==
  ASSUME TypeOK, WithinAllowances
  PROVE  BudgetNeverExceeded
  BY GroupsOfTheCode
     DEF WithinAllowances, BudgetNeverExceeded, Spent, Counted, Money, Amount

LEMMA OpsAreFinite == IsFiniteSet(OpNames)
  <1> DEFINE op == [r \in Requests |-> r.op]
  <1>1. op \in Surjection(Requests, OpNames)
    BY DEF OpNames, Surjection
  <1>2. QED
    BY <1>1, RequestAssumption, FS_Surjection

LEMMA CountedIsFinite ==
  ASSUME NEW P, NEW T, NEW span, NEW t
  PROVE  IsFiniteSet(Counted(P, T, span, t))
  <1>1. IsFiniteSet(OpNames)
    BY OpsAreFinite
  <1>2. IsFiniteSet(1 .. MaxQuote)
    BY CapAssumption, FS_Interval
  <1>3. IsFiniteSet(OpNames \X (1 .. MaxQuote))
    BY <1>1, <1>2, FS_Product
  <1>4. Counted(P, T, span, t) \subseteq OpNames \X (1 .. MaxQuote)
    BY DEF Counted, Micros, InMoney, Group, Active, Present
  <1>5. QED
    BY <1>3, <1>4, FS_Subset

LEMMA RowTimes ==
  ASSUME NEW row \in Row
  PROVE  row.dispatchedAt \in Int /\ row.reservedAt \in Int
  <1>1. row.dispatchedAt \in MaybeTime
    BY DEF Row
  <1>2. row.reservedAt \in MaybeTime
    BY DEF Row
  <1>3. MaybeTime \subseteq Int
    BY ClockAssumption DEF MaybeTime, NoTime
  <1>4. QED
    BY <1>1, <1>2, <1>3

\* A row that was there before the step occupies no micro after it that it did
\* not occupy before, in any window and at any earlier time.
LEMMA NoNewMicro ==
  ASSUME TypeOK, NEW P, NEW T, NEW span \in Nat, NEW t \in Nat,
         lastNow' \in Nat, t <= lastNow',
         NEW o \in Present, rows'[o] \in Row,
         rows'[o] = rows[o] \/ Continues(rows[o], rows'[o]),
         NEW n \in Nat, <<o, n>> \in Counted(P, T, span, lastNow)'
  PROVE  <<o, n>> \in Counted(P, T, span, t)
  <1> DEFINE old == rows[o]
             new == rows'[o]
  <1>1. /\ new.state # "CANCELLED_BEFORE_DISPATCH"
        /\ new.request.principal \in P /\ new.request.type \in T
        /\ \/ new.state \notin Terminal
           \/ (IF new.dispatchedAt = NoTime THEN new.reservedAt ELSE new.dispatchedAt)
                > lastNow' - span
        /\ n <= (IF new.state = "SETTLED" THEN new.usd ELSE new.held)
        /\ n \in 1 .. MaxQuote
    BY DEF Counted, Micros, InMoney, Group, Active, Unsettled, Recent, ChargedAt, Occupied
  <1>2. old \in Row
    BY DEF TypeOK, Present
  <1>3. /\ old.held \in Nat /\ old.usd \in Nat /\ new.held \in Nat /\ new.usd \in Nat
        /\ old.dispatchedAt \in Int /\ old.reservedAt \in Int
        /\ new.dispatchedAt \in Int /\ new.reservedAt \in Int
    BY <1>2, RowFacts, RowTimes
  <1>4. old.state # Absent
    BY DEF Present
  <1> HIDE DEF old, new
  <1>5. /\ old.state # "CANCELLED_BEFORE_DISPATCH"
        /\ old.request.principal \in P /\ old.request.type \in T
        /\ \/ old.state \notin Terminal
           \/ (IF old.dispatchedAt = NoTime THEN old.reservedAt ELSE old.dispatchedAt)
                > t - span
        /\ n <= (IF old.state = "SETTLED" THEN old.usd ELSE old.held)
    <2>1. CASE new = old
      BY <1>1, <1>3, <2>1
    <2>2. CASE Continues(old, new)
      BY <1>1, <1>3, <2>2 DEF Continues, Terminal, Outstanding
    <2>3. QED
      BY <2>1, <2>2 DEF old, new
  <1>6. QED
    BY <1>1, <1>4, <1>5
       DEF old, Counted, Micros, InMoney, Group, Active, Unsettled, Recent, ChargedAt, Occupied

LEMMA ClockIsNat ==
  ASSUME TypeOK, TypeOK'
  PROVE  lastNow \in Nat /\ lastNow' \in Nat
  BY ClockAssumption DEF TypeOK

\* A counted micro belongs to a row that is present.
LEMMA MicroOfPresentRow ==
  ASSUME NEW P, NEW T, NEW span, NEW m \in Micros(InMoney(Group(P, T), span, lastNow))'
  PROVE  /\ m[1] \in Present' /\ m[2] \in Nat /\ m = <<m[1], m[2]>>
         /\ m[2] <= Occupied(m[1])'
         /\ rows'[m[1]].request.principal \in P /\ rows'[m[1]].request.type \in T
  BY DEF Micros, InMoney, Group, Active

\* What the window of a group holds after a step: nothing new, unless the step
\* reserves for a row of the group.
LEMMA OnlyReservationsSpend ==
  ASSUME TypeOK, TypeOK', [Next]_vars, NEW P, NEW T, NEW span \in Nat,
         NEW t \in Nat, t <= lastNow',
         NEW m \in Counted(P, T, span, lastNow)', m[1] \in Present
  PROVE  m \in Counted(P, T, span, t)
  <1> DEFINE o == m[1]
             n == m[2]
  <1>1. n \in Nat /\ m = <<o, n>>
    BY MicroOfPresentRow DEF Counted
  <1>2. rows'[o] \in Row
    BY DEF TypeOK, Present
  <1>3. rows'[o] = rows[o] \/ Continues(rows[o], rows'[o])
    BY RowsContinue
  <1>4. lastNow' \in Nat
    BY ClockIsNat
  <1>5. <<o, n>> \in Counted(P, T, span, lastNow)'
    BY <1>1
  <1> HIDE DEF o, n
  <1>6. o \in Present
    BY DEF o
  <1>7. <<o, n>> \in Counted(P, T, span, t)
    BY <1>1, <1>2, <1>3, <1>4, <1>5, <1>6, NoNewMicro
  <1>8. QED
    BY <1>1, <1>7

LEMMA OtherStepsSpendNothing ==
  ASSUME TypeOK, TypeOK', [Next]_vars, NEW P, NEW T, NEW span \in Nat,
         ~ \E r \in Requests, t \in Times, f \in Facts : Reserve(r, t, f)
  PROVE  Spent(P, T, span)' \in Nat /\ Spent(P, T, span)' <= Spent(P, T, span)
  <1>1. Advances
    BY StepsAdvance
  <1>2. lastNow \in Nat /\ lastNow <= lastNow'
    BY <1>1, ClockIsNat DEF Advances
  <1>3. Present' \subseteq Present
    BY <1>1 DEF Advances, Present
  <1>4. \A m \in Counted(P, T, span, lastNow)' : m \in Counted(P, T, span, lastNow)
    BY <1>2, <1>3, OnlyReservationsSpend, MicroOfPresentRow DEF Counted
  <1>5. Counted(P, T, span, lastNow)' \subseteq Counted(P, T, span, lastNow)
    BY <1>4
  <1>6. QED
    BY <1>5, CountedIsFinite, FS_Subset, FS_CardinalityType DEF Spent

\* The bound of a reservation, in micros of its row.
LEMMA BoundMicros ==
  ASSUME NEW o, NEW quote \in Nat
  PROVE  /\ IsFiniteSet({o} \X (1 .. quote))
         /\ Cardinality({o} \X (1 .. quote)) = quote
  <1>1. IsFiniteSet(1 .. quote) /\ Cardinality(1 .. quote) = quote
    BY FS_Interval
  <1>2. IsFiniteSet({o}) /\ Cardinality({o}) = 1
    BY FS_Singleton
  <1>3. QED
    BY <1>1, <1>2, FS_Product

LEMMA NewRowHolds ==
  ASSUME NEW r \in Requests, NEW t \in Times, NEW f \in Facts
  PROVE  NewRow(r, t, f).held = f.quote /\ f.quote \in Nat
  <1>1. f.quote \in Quotes
    BY DEF Facts
  <1>2. Quotes \subseteq Nat
    BY CapAssumption
  <1>3. NewRow(r, t, f).held = f.quote
    BY DEF NewRow, EmptyRow
  <1>4. QED
    BY <1>1, <1>2, <1>3

LEMMA ReservationSpends ==
  ASSUME TypeOK, TypeOK', NEW P, NEW T, NEW span \in Nat,
         NEW r \in Requests, NEW t \in Times, NEW f \in Facts, Reserve(r, t, f)
  PROVE  /\ Spent(P, T, span)' \in Nat
         /\ r.principal \in P /\ r.type \in T =>
              Spent(P, T, span)' <= Cardinality(Counted(P, T, span, t)) + f.quote
         /\ ~ (r.principal \in P /\ r.type \in T) => Spent(P, T, span)' <= Spent(P, T, span)
  <1>0. [Next]_vars
    BY DEF Next, Call, Anything
  <1>1. /\ t \in Nat /\ lastNow \in Nat /\ t <= lastNow' /\ lastNow <= lastNow'
    BY ClockAdvances, ClockIsNat, ClockAssumption DEF Reserve
  <1>2. /\ Present' = Present \cup {r.op} /\ r.op \notin Present
        /\ rows'[r.op].request = r /\ rows'[r.op].held = f.quote
        /\ rows'[r.op].state = "RESERVED" /\ f.quote \in Nat
    BY ReserveAdds, NewRowType, NewRowHolds
  <1>3. ASSUME NEW m \in Counted(P, T, span, lastNow)', m[1] = r.op
        PROVE  m \in {r.op} \X (1 .. f.quote) /\ r.principal \in P /\ r.type \in T
    <2>1. Occupied(r.op)' = f.quote
      BY <1>2 DEF Occupied
    <2>2. m \in OpNames \X (1 .. MaxQuote) /\ m[2] <= f.quote
      BY <1>3, <2>1 DEF Counted, Micros, InMoney, Group, Active, Present
    <2>3. QED
      BY <1>2, <1>3, <2>2, CapAssumption, MicroOfPresentRow DEF Counted
  <1>4. ASSUME r.principal \in P, r.type \in T
        PROVE  /\ Spent(P, T, span)' \in Nat
               /\ Spent(P, T, span)' <= Cardinality(Counted(P, T, span, t)) + f.quote
    <2>1. \A m \in Counted(P, T, span, lastNow)' :
            m \in Counted(P, T, span, t) \/ m \in {r.op} \X (1 .. f.quote)
      BY <1>0, <1>1, <1>2, <1>3, OnlyReservationsSpend, MicroOfPresentRow DEF Counted
    <2> DEFINE before == Counted(P, T, span, t)
               added == {r.op} \X (1 .. f.quote)
    <2>2. IsFiniteSet(before) /\ IsFiniteSet(added) /\ Cardinality(added) = f.quote
      BY <1>2, CountedIsFinite, BoundMicros
    <2>3. Counted(P, T, span, lastNow)' \subseteq before \cup added
      BY <2>1
    <2> HIDE DEF before, added
    <2>4. /\ IsFiniteSet(before \cup added)
          /\ Cardinality(before \cup added) <= Cardinality(before) + Cardinality(added)
      <3>1. IsFiniteSet(before \cap added)
        BY <2>2, FS_Subset
      <3>2. Cardinality(before \cap added) \in Nat /\ Cardinality(before) \in Nat
            /\ Cardinality(added) \in Nat
        BY <2>2, <3>1, FS_CardinalityType
      <3>3. QED
        BY <2>2, <3>2, FS_Union
    <2>5. Spent(P, T, span)' <= Cardinality(before \cup added)
      BY <2>3, <2>4, FS_Subset DEF Spent
    <2>6. /\ Cardinality(Counted(P, T, span, lastNow)') \in Nat
          /\ Cardinality(before \cup added) \in Nat /\ Cardinality(before) \in Nat
      BY <2>2, <2>3, <2>4, FS_Subset, FS_CardinalityType
    <2>7. QED
      BY <1>2, <2>2, <2>4, <2>5, <2>6 DEF before, Spent
  <1>5. ASSUME ~ (r.principal \in P /\ r.type \in T)
        PROVE  Spent(P, T, span)' \in Nat /\ Spent(P, T, span)' <= Spent(P, T, span)
    <2>1. \A m \in Counted(P, T, span, lastNow)' : m \in Counted(P, T, span, lastNow)
      BY <1>0, <1>1, <1>2, <1>3, <1>5, OnlyReservationsSpend, MicroOfPresentRow DEF Counted
    <2>2. Counted(P, T, span, lastNow)' \subseteq Counted(P, T, span, lastNow)
      BY <2>1
    <2>3. QED
      BY <2>2, CountedIsFinite, FS_Subset, FS_CardinalityType DEF Spent
  <1>6. QED
    BY <1>4, <1>5

\* The caps are met before the first call and after every one.
LEMMA NothingSpentAtFirst ==
  ASSUME Init, NEW P, NEW T, NEW span
  PROVE  Spent(P, T, span) = 0
  <1>1. Present = {}
    BY EmptyRowType DEF Init, Present
  <1>2. Counted(P, T, span, lastNow) = {}
    BY <1>1 DEF Counted, Micros, InMoney, Group, Active
  <1>3. QED
    BY <1>2, FS_EmptySet DEF Spent

LEMMA AllowancesAtFirst == Init => WithinAllowances
  <1>1. SUFFICES ASSUME Init PROVE WithinAllowances
    OBVIOUS
  <1>2. \A P, T, span : Spent(P, T, span) = 0
    BY <1>1, NothingSpentAtFirst
  <1>3. \A type \in Types, tier \in Tiers :
          /\ FeatureDayCap[type][tier] \in Nat /\ FeatureMonthCap[type][tier] \in Nat
          /\ UserDayCap[tier] \in Nat /\ UserMonthCap[tier] \in Nat
    BY CapAssumption
  <1>4. GlobalDayCap \in Nat /\ GlobalMonthCap \in Nat /\ Tiers # {}
        /\ \A tier \in Tiers : UserDayCap[tier] \in Nat /\ UserMonthCap[tier] \in Nat
    BY CapAssumption
  <1>5. QED
    BY <1>2, <1>3, <1>4 DEF WithinAllowances

\* What the admission check has compared with the caps, allowance by allowance.
LEMMA AdmittedAmounts ==
  ASSUME TypeOK, NEW r \in Requests, NEW t \in Times, NEW f \in Facts, Admits(r, t, f)
  PROVE  LET p == r.principal
             After(P, T, span) == Cardinality(Counted(P, T, span, t)) + f.quote
         IN  /\ After(Principals, Types, DAY) <= GlobalDayCap
             /\ After(Principals, Types, MONTH) <= GlobalMonthCap
             /\ After({p}, Types, DAY) <= UserDayCap[f.tier]
             /\ After({p}, Types, MONTH) <= UserMonthCap[f.tier]
             /\ After({p}, {r.type}, DAY) <= FeatureDayCap[r.type][f.tier]
             /\ After({p}, {r.type}, MONTH) <= FeatureMonthCap[r.type][f.tier]
  <1>1. r.principal \in Principals /\ r.type \in Types
    BY RequestAssumption DEF Principals
  <1>2. /\ Active = Group(Principals, Types)
        /\ UserRows(r.principal) = Group({r.principal}, Types)
        /\ FeatureRows(r.principal, r.type) = Group({r.principal}, {r.type})
    BY <1>1, GroupsOfTheCode
  <1>3. QED
    BY <1>2 DEF Admits, WithinMoney, Money, Amount, Counted

LEMMA SpentIsNat ==
  ASSUME NEW P, NEW T, NEW span
  PROVE  Spent(P, T, span) \in Nat
  BY CountedIsFinite, FS_CardinalityType DEF Spent

\* One allowance over one window: it stays within the cap of some tier when
\* every reservation on it was compared with the cap of its own tier.
LEMMA AllowanceKept ==
  ASSUME TypeOK, TypeOK', [Next]_vars, NEW P, NEW T, NEW span \in Nat,
         NEW caps \in [Tiers -> Nat], \E tier \in Tiers : Spent(P, T, span) <= caps[tier],
         \A r \in Requests, t \in Times, f \in Facts :
           Reserve(r, t, f) /\ r.principal \in P /\ r.type \in T =>
             Cardinality(Counted(P, T, span, t)) + f.quote <= caps[f.tier]
  PROVE  \E tier \in Tiers : Spent(P, T, span)' <= caps[tier]
<1>1. PICK tier \in Tiers : Spent(P, T, span) <= caps[tier]
  OBVIOUS
<1>2. caps[tier] \in Nat /\ Spent(P, T, span) \in Nat
  BY SpentIsNat
<1>3. CASE ~ \E r \in Requests, t \in Times, f \in Facts : Reserve(r, t, f)
  BY <1>1, <1>2, <1>3, OtherStepsSpendNothing
<1>4. ASSUME NEW r \in Requests, NEW t \in Times, NEW f \in Facts, Reserve(r, t, f)
      PROVE  \E u \in Tiers : Spent(P, T, span)' <= caps[u]
  <2>1. f.tier \in Tiers
    BY DEF Facts
  <2>2. f.quote \in Nat /\ Cardinality(Counted(P, T, span, t)) \in Nat
    BY NewRowHolds, CountedIsFinite, FS_CardinalityType
  <2>3. caps[f.tier] \in Nat
    BY <2>1
  <2>4. CASE r.principal \in P /\ r.type \in T
    <3>1. Spent(P, T, span)' <= caps[f.tier]
      BY <1>4, <2>2, <2>3, <2>4, ReservationSpends
    <3>2. QED
      BY <2>1, <3>1
  <2>5. CASE ~ (r.principal \in P /\ r.type \in T)
    BY <1>1, <1>2, <1>4, <2>5, ReservationSpends
  <2>6. QED
    BY <2>4, <2>5
<1>5. QED
  BY <1>3, <1>4

LEMMA AllowancesKept ==
  ASSUME TypeOK, TypeOK', WithinAllowances, [Next]_vars
  PROVE  WithinAllowances'
<1>1. DAY \in Nat /\ MONTH \in Nat
  BY ClockAssumption
<1>2. ASSUME NEW r \in Requests, NEW t \in Times, NEW f \in Facts, Reserve(r, t, f)
      PROVE  LET p == r.principal
                 After(P, T, span) == Cardinality(Counted(P, T, span, t)) + f.quote
             IN  /\ After(Principals, Types, DAY) <= GlobalDayCap
                 /\ After(Principals, Types, MONTH) <= GlobalMonthCap
                 /\ After({p}, Types, DAY) <= UserDayCap[f.tier]
                 /\ After({p}, Types, MONTH) <= UserMonthCap[f.tier]
                 /\ After({p}, {r.type}, DAY) <= FeatureDayCap[r.type][f.tier]
                 /\ After({p}, {r.type}, MONTH) <= FeatureMonthCap[r.type][f.tier]
  BY <1>2, AdmittedAmounts DEF Reserve
<1>3. Spent(Principals, Types, DAY)' <= GlobalDayCap
  <2> DEFINE caps == [tier \in Tiers |-> GlobalDayCap]
  <2>1. caps \in [Tiers -> Nat] /\ \A tier \in Tiers : caps[tier] = GlobalDayCap
    BY CapAssumption
  <2>2. \A f \in Facts : f.tier \in Tiers
    BY DEF Facts
  <2>3. \E tier \in Tiers : Spent(Principals, Types, DAY) <= caps[tier]
    BY <2>1, CapAssumption DEF WithinAllowances
  <2> HIDE DEF caps
  <2>4. \A r \in Requests, t \in Times, f \in Facts :
          Reserve(r, t, f) /\ r.principal \in Principals /\ r.type \in Types =>
            Cardinality(Counted(Principals, Types, DAY, t)) + f.quote <= caps[f.tier]
    BY <1>2, <2>1, <2>2
  <2>5. \E tier \in Tiers : Spent(Principals, Types, DAY)' <= caps[tier]
    BY <1>1, <2>1, <2>3, <2>4, AllowanceKept
  <2>6. QED
    BY <2>1, <2>5
<1>4. Spent(Principals, Types, MONTH)' <= GlobalMonthCap
  <2> DEFINE caps == [tier \in Tiers |-> GlobalMonthCap]
  <2>1. caps \in [Tiers -> Nat] /\ \A tier \in Tiers : caps[tier] = GlobalMonthCap
    BY CapAssumption
  <2>2. \A f \in Facts : f.tier \in Tiers
    BY DEF Facts
  <2>3. \E tier \in Tiers : Spent(Principals, Types, MONTH) <= caps[tier]
    BY <2>1, CapAssumption DEF WithinAllowances
  <2> HIDE DEF caps
  <2>4. \A r \in Requests, t \in Times, f \in Facts :
          Reserve(r, t, f) /\ r.principal \in Principals /\ r.type \in Types =>
            Cardinality(Counted(Principals, Types, MONTH, t)) + f.quote <= caps[f.tier]
    BY <1>2, <2>1, <2>2
  <2>5. \E tier \in Tiers : Spent(Principals, Types, MONTH)' <= caps[tier]
    BY <1>1, <2>1, <2>3, <2>4, AllowanceKept
  <2>6. QED
    BY <2>1, <2>5
<1>5. ASSUME NEW p \in Principals
      PROVE  /\ \E tier \in Tiers : Spent({p}, Types, DAY)' <= UserDayCap[tier]
             /\ \E tier \in Tiers : Spent({p}, Types, MONTH)' <= UserMonthCap[tier]
  <2>1. UserDayCap \in [Tiers -> Nat] /\ UserMonthCap \in [Tiers -> Nat]
    BY CapAssumption
  <2>2. /\ \E tier \in Tiers : Spent({p}, Types, DAY) <= UserDayCap[tier]
        /\ \E tier \in Tiers : Spent({p}, Types, MONTH) <= UserMonthCap[tier]
    BY DEF WithinAllowances
  <2>3. \A r : r.principal \in {p} => r.principal = p
    OBVIOUS
  <2>4. QED
    BY <1>1, <1>2, <2>1, <2>2, <2>3, AllowanceKept
<1>6. ASSUME NEW p \in Principals, NEW type \in Types
      PROVE  /\ \E tier \in Tiers : Spent({p}, {type}, DAY)' <= FeatureDayCap[type][tier]
             /\ \E tier \in Tiers : Spent({p}, {type}, MONTH)' <= FeatureMonthCap[type][tier]
  <2>1. FeatureDayCap[type] \in [Tiers -> Nat] /\ FeatureMonthCap[type] \in [Tiers -> Nat]
    BY CapAssumption
  <2>2. /\ \E tier \in Tiers : Spent({p}, {type}, DAY) <= FeatureDayCap[type][tier]
        /\ \E tier \in Tiers : Spent({p}, {type}, MONTH) <= FeatureMonthCap[type][tier]
    BY DEF WithinAllowances
  <2>3. \A r : r.principal \in {p} /\ r.type \in {type} => r.principal = p /\ r.type = type
    OBVIOUS
  <2>4. QED
    BY <1>1, <1>2, <2>1, <2>2, <2>3, AllowanceKept
<1>7. QED
  BY <1>3, <1>4, <1>5, <1>6 DEF WithinAllowances

\* BudgetNeverExceeded holds in every reachable state, whatever the caps.
THEOREM BudgetSafe == Spec => []BudgetNeverExceeded
<1>1. Init => WithinAllowances
  BY AllowancesAtFirst
<1>2. TypeOK /\ TypeOK' /\ WithinAllowances /\ [Next]_vars => WithinAllowances'
  BY AllowancesKept
<1>3. TypeOK /\ WithinAllowances => BudgetNeverExceeded
  BY MoneyIsSpent
<1>4. QED
  BY <1>1, <1>2, <1>3, TypeCorrect, PTL DEF Spec

-----------------------------------------------------------------------------
(***************************************************************************)
(* What BudgetLedger promises about jobs: their result is final and        *)
(* complete, no receipt stands for two things, the quotas hold,            *)
(* maintenance cycles are spaced, and the snapshot a call leaves is one    *)
(* the next call accepts. For every set of requests, clock and choice of   *)
(* caps.                                                                   *)
(*                                                                         *)
(* Every call but a reservation is one of three changes of a single row, a *)
(* lifecycle step, a charge or a verdict; StepKinds says so once, and the  *)
(* proofs after it look at those changes instead of at the calls.          *)
(***************************************************************************)
SameReservation(old, new) ==
  /\ new.request = old.request /\ new.held = old.held
  /\ new.reservedAt = old.reservedAt /\ new.reservedZone = old.reservedZone
  /\ new.nextEligibilityAt = old.nextEligibilityAt /\ new.opens = old.opens
SameDispatch(old, new) ==
  new.dispatchedAt = old.dispatchedAt /\ new.dispatchedZone = old.dispatchedZone
SameCharge(old, new) ==
  /\ new.settledAt = old.settledAt /\ new.outcome = old.outcome
  /\ new.receipt = old.receipt
SameVerdict(old, new) ==
  new.resolution = old.resolution /\ new.resolvedAt = old.resolvedAt
SameCommit(old, new) ==
  /\ new.committed = old.committed /\ new.committedAt = old.committedAt
  /\ new.committedZone = old.committedZone

\* A row's result is committed at t, or its commit is as before.
CommitsIf(outcome, t, old, new) ==
  IF outcome = "COMMITTED" THEN new.committed /\ new.committedAt = t ELSE SameCommit(old, new)

\* The other rows stay, the clock reading t lies between the two stamps, and
\* the stored history was valid at t.
OnlyRow(o, t) ==
  /\ lastNow <= t /\ t <= lastNow' /\ lastNow' \in Times
  /\ HistoryValid(t)
  /\ \A s \in OpNames \ {o} : rows'[s] = rows[s]

\* A dispatch, a lost or unknowable outcome, a cancellation.
LifecycleStep(o, t) ==
  LET old == rows[o]
      new == rows'[o]
  IN  /\ OnlyRow(o, t)
      /\ SameReservation(old, new) /\ SameCharge(old, new)
      /\ SameVerdict(old, new) /\ SameCommit(old, new)
      /\ old.state \in {"RESERVED"} \cup Outstanding
      /\ \/ /\ old.state = "RESERVED" /\ new.state = "DISPATCHED"
            /\ new.dispatchedAt = t
            /\ \A s \in JobRows(old.request.job) \ {o} : rows[s].state \notin Outstanding
         \/ /\ old.state \in Outstanding /\ new.state = "OUTCOME_UNKNOWN"
            /\ SameDispatch(old, new)
         \/ /\ old.state = "RESERVED" /\ new.state = "CANCELLED_BEFORE_DISPATCH"
            /\ SameDispatch(old, new)
      /\ \/ new.unknownReceipt = old.unknownReceipt
         \/ new.unknownReceipt \in Receipts \ (ReceiptsOfOthers(o) \cup ResultReceipts)

ChargeStep(o, t) ==
  LET old == rows[o]
      new == rows'[o]
  IN  /\ OnlyRow(o, t)
      /\ SameReservation(old, new) /\ SameDispatch(old, new) /\ SameVerdict(old, new)
      /\ old.state \in Outstanding /\ new.state = "SETTLED" /\ new.settledAt = t
      /\ new.outcome \in Outcomes
      /\ new.receipt \in Receipts \ (ReceiptsOfOthers(o) \cup ResultReceipts)
      /\ new.unknownReceipt = old.unknownReceipt
      /\ CommitsIf(new.outcome, t, old, new)
      /\ new.outcome = "COMMITTED" => SiblingsValidated(old.request)

VerdictStep(o, t) ==
  LET old == rows[o]
      new == rows'[o]
      job == old.request.job
  IN  /\ OnlyRow(o, t)
      /\ SameReservation(old, new) /\ SameDispatch(old, new) /\ SameCharge(old, new)
      /\ new.state = old.state /\ new.unknownReceipt = old.unknownReceipt
      /\ Qualified(o, new.resolution.outcome)
      /\ \A s \in JobRows(job) : rows[s].resolution.outcome = "NONE" /\ ~rows[s].committed
      /\ new.resolution.outcome \in Verdicts
      /\ new.resolution.receipt \in Receipts \ UsedReceipts
      /\ new.resolution.children = ChildrenOf(job)
      /\ new.resolvedAt = t
      /\ CommitsIf(new.resolution.outcome, t, old, new)

NoRow == rows' = rows /\ lastNow <= lastNow' /\ lastNow' \in Times

LEMMA WithResultFields ==
  ASSUME NEW row \in Row, NEW outcome, NEW t, NEW zone, NEW new,
         new = WithResult(row, outcome, t, zone)
  PROVE  /\ SameReservation(row, new) /\ SameDispatch(row, new) /\ SameCharge(row, new)
         /\ SameVerdict(row, new) /\ new.state = row.state
         /\ new.unknownReceipt = row.unknownReceipt
         /\ CommitsIf(outcome, t, row, new)
  <1>1. /\ new.request = row.request /\ new.held = row.held
        /\ new.reservedAt = row.reservedAt /\ new.reservedZone = row.reservedZone
        /\ new.nextEligibilityAt = row.nextEligibilityAt /\ new.opens = row.opens
        /\ new.state = row.state
        /\ new.dispatchedAt = row.dispatchedAt /\ new.dispatchedZone = row.dispatchedZone
        /\ new.settledAt = row.settledAt /\ new.outcome = row.outcome
        /\ new.receipt = row.receipt /\ new.unknownReceipt = row.unknownReceipt
        /\ new.resolution = row.resolution /\ new.resolvedAt = row.resolvedAt
    BY Zenon DEF Row, WithResult
  <1>2. CASE outcome = "COMMITTED"
    <2>1. new.committed = TRUE /\ new.committedAt = t
      BY <1>2, Zenon DEF Row, WithResult
    <2>2. QED
      BY <1>1, <1>2, <2>1 DEF CommitsIf, SameReservation, SameDispatch, SameCharge, SameVerdict
  <1>3. CASE outcome # "COMMITTED"
    <2>1. new = row
      BY <1>3 DEF WithResult
    <2>2. QED
      BY <1>1, <1>3, <2>1
         DEF CommitsIf, SameReservation, SameDispatch, SameCharge, SameVerdict, SameCommit
  <1>4. QED
    BY <1>2, <1>3

\* A new row has no charge and no result.
LEMMA NewRowFields ==
  ASSUME NEW r \in Requests, NEW t \in Times, NEW f \in Facts
  PROVE  /\ NewRow(r, t, f).state = "RESERVED" /\ NewRow(r, t, f).request = r
         /\ NewRow(r, t, f).reservedAt = t
         /\ NewRow(r, t, f).nextEligibilityAt = NextEligibility(t, f)
         /\ (NewRow(r, t, f).opens => r.type = "AI_MAINTENANCE" /\ JobRows(r.job) = {})
         /\ NewRow(r, t, f).dispatchedAt = NoTime /\ NewRow(r, t, f).settledAt = NoTime
         /\ NewRow(r, t, f).outcome = "NONE" /\ NewRow(r, t, f).receipt = NoReceipt
         /\ NewRow(r, t, f).unknownReceipt = NoReceipt
         /\ NewRow(r, t, f).resolution = NoResolution
         /\ ~NewRow(r, t, f).committed /\ NewRow(r, t, f).committedAt = NoTime
  BY Zenon DEF NewRow, EmptyRow

LEMMA EmptyRowFields ==
  /\ EmptyRow.state = Absent /\ EmptyRow.dispatchedAt = NoTime
  /\ EmptyRow.settledAt = NoTime /\ EmptyRow.outcome = "NONE" /\ EmptyRow.receipt = NoReceipt
  /\ EmptyRow.unknownReceipt = NoReceipt /\ EmptyRow.resolution = NoResolution
  /\ ~EmptyRow.committed /\ EmptyRow.committedAt = NoTime
  BY Zenon DEF EmptyRow

LEMMA BoundStep ==
  ASSUME TypeOK, NEW r \in Requests, NEW t \in Times, Transaction(t), IsBound(r), NEW new,
         rows' = [rows EXCEPT ![r.op] = new]
  PROVE  r.op \in Present /\ OnlyRow(r.op, t) /\ rows'[r.op] = new
  <1>1. lastNow <= t /\ t <= lastNow' /\ lastNow' \in Times /\ HistoryValid(t)
    BY ClockAdvances DEF Transaction
  <1>2. r.op \in OpNames /\ rows'[r.op] = new /\ \A s \in OpNames \ {r.op} : rows'[s] = rows[s]
    BY BoundRow DEF TypeOK
  <1>3. QED
    BY <1>1, <1>2 DEF OnlyRow, Present, IsBound

\* Every step is a reservation, one of the three changes of a row, or no change.
LEMMA StepKinds ==
  ASSUME TypeOK, [Next]_vars
  PROVE  \/ \E r \in Requests, t \in Times, f \in Facts : Reserve(r, t, f)
         \/ \E o \in Present, t \in Times :
              LifecycleStep(o, t) \/ ChargeStep(o, t) \/ VerdictStep(o, t)
         \/ NoRow
<1> DEFINE Goal == \E o \in Present, t \in Times :
                     LifecycleStep(o, t) \/ ChargeStep(o, t) \/ VerdictStep(o, t)
<1>1. ASSUME NEW r \in Requests, NEW t \in Times, NEW zone \in Zones,
             RecordDispatched(r, t, zone)
      PROVE  Goal
  <2>1. rows[r.op] \in Row /\ rows[r.op].request = r /\ Transaction(t) /\ IsBound(r)
    BY <1>1, BoundRow DEF RecordDispatched
  <2>2. /\ r.op \in Present /\ OnlyRow(r.op, t)
        /\ rows'[r.op] = Dispatched(rows[r.op], t, zone)
    BY <1>1, <2>1, BoundStep DEF RecordDispatched
  <2>3. LifecycleStep(r.op, t)
    BY <1>1, <2>1, <2>2, DispatchedFields
       DEF RecordDispatched, LifecycleStep, SameReservation, SameCharge, SameVerdict, SameCommit
  <2>4. QED
    BY <2>2, <2>3
<1>2. ASSUME NEW r \in Requests, NEW t \in Times, RecordUnknown(r, t)
      PROVE  Goal
  <2>1. rows[r.op] \in Row /\ rows[r.op].request = r /\ Transaction(t) /\ IsBound(r)
    BY <1>2, BoundRow DEF RecordUnknown
  <2>2. /\ r.op \in Present /\ OnlyRow(r.op, t)
        /\ rows'[r.op] = InState(rows[r.op], "OUTCOME_UNKNOWN")
    BY <1>2, <2>1, BoundStep DEF RecordUnknown
  <2>3. LifecycleStep(r.op, t)
    BY <1>2, <2>1, <2>2, InStateFields
       DEF RecordUnknown, LifecycleStep, SameReservation, SameDispatch, SameCharge, SameVerdict,
           SameCommit, Outstanding
  <2>4. QED
    BY <2>2, <2>3
<1>3. ASSUME NEW r \in Requests, NEW t \in Times, RecordCancelled(r, t)
      PROVE  Goal
  <2>1. rows[r.op] \in Row /\ rows[r.op].request = r /\ Transaction(t) /\ IsBound(r)
    BY <1>3, BoundRow DEF RecordCancelled
  <2>2. /\ r.op \in Present /\ OnlyRow(r.op, t)
        /\ rows'[r.op] = InState(rows[r.op], "CANCELLED_BEFORE_DISPATCH")
    BY <1>3, <2>1, BoundStep DEF RecordCancelled
  <2>3. LifecycleStep(r.op, t)
    BY <1>3, <2>1, <2>2, InStateFields
       DEF RecordCancelled, LifecycleStep, SameReservation, SameDispatch, SameCharge,
           SameVerdict, SameCommit, Outstanding
  <2>4. QED
    BY <2>2, <2>3
<1>4. ASSUME NEW r \in Requests, NEW t \in Times, NEW receipt \in Receipts,
             SettleUnknown(r, t, receipt)
      PROVE  Goal
  <2>1. rows[r.op] \in Row /\ rows[r.op].request = r /\ Transaction(t) /\ IsBound(r)
    BY <1>4, BoundRow DEF SettleUnknown
  <2>2. /\ r.op \in Present /\ OnlyRow(r.op, t)
        /\ rows'[r.op] = Unknowable(rows[r.op], receipt)
    BY <1>4, <2>1, BoundStep DEF SettleUnknown
  <2>3. receipt \notin ReceiptsOfOthers(r.op) \cup ResultReceipts
        /\ rows[r.op].state \in Outstanding
    BY <1>4 DEF SettleUnknown
  <2>4. LifecycleStep(r.op, t)
    BY <2>1, <2>2, <2>3, UnknowableFields
       DEF LifecycleStep, SameReservation, SameDispatch, SameCharge, SameVerdict, SameCommit
  <2>5. QED
    BY <2>2, <2>4
<1>5. ASSUME NEW r \in Requests, NEW t \in Times, NEW zone \in Zones,
             NEW receipt \in Receipts, NEW outcome \in Outcomes, NEW usd \in Charges,
             Settle(r, t, zone, receipt, outcome, usd)
      PROVE  Goal
  <2> DEFINE old == rows[r.op]
             mid == Charged(old, t, receipt, outcome, usd)
             new == WithResult(mid, outcome, t, zone)
  <2>1. old \in Row /\ old.request = r /\ Transaction(t) /\ IsBound(r) /\ mid \in Row
    BY <1>5, BoundRow, ChargedType DEF Settle
  <2>2. rows' = [rows EXCEPT ![r.op] = new]
    BY <1>5 DEF Settle
  <2>3. /\ mid.state = "SETTLED" /\ mid.settledAt = t /\ mid.outcome = outcome
        /\ mid.receipt = receipt /\ mid.unknownReceipt = old.unknownReceipt
        /\ SameReservation(old, mid) /\ SameDispatch(old, mid)
        /\ SameVerdict(old, mid) /\ SameCommit(old, mid)
    BY <2>1, ChargedFields DEF SameReservation, SameDispatch, SameVerdict, SameCommit
  <2> HIDE DEF mid
  <2>4. /\ SameReservation(mid, new) /\ SameDispatch(mid, new) /\ SameCharge(mid, new)
        /\ SameVerdict(mid, new) /\ new.state = mid.state
        /\ new.unknownReceipt = mid.unknownReceipt
        /\ CommitsIf(outcome, t, mid, new)
    BY <2>1, WithResultFields
  <2> HIDE DEF new
  <2>5. r.op \in Present /\ OnlyRow(r.op, t) /\ rows'[r.op] = new
    BY <2>1, <2>2, BoundStep
  <2>6. /\ receipt \notin ReceiptsOfOthers(r.op) \cup ResultReceipts
        /\ old.state \in Outstanding
        /\ outcome = "COMMITTED" => SiblingsValidated(r)
    BY <1>5 DEF Settle
  <2>7. ChargeStep(r.op, t)
    BY <2>1, <2>3, <2>4, <2>5, <2>6
       DEF ChargeStep, SameReservation, SameDispatch, SameCharge, SameVerdict, SameCommit, CommitsIf
  <2>8. QED
    BY <2>5, <2>7
<1>6. ASSUME NEW r \in Requests, NEW t \in Times, NEW zone \in Zones,
             NEW receipt \in Receipts, NEW outcome \in Verdicts,
             FinalizeResult(r, t, zone, receipt, outcome)
      PROVE  Goal
  <2> DEFINE old == rows[r.op]
             evidence == Evidence(r.job, receipt, outcome)
             mid == Resolved(old, t, evidence)
             new == WithResult(mid, outcome, t, zone)
  <2>1. /\ old \in Row /\ old.request = r /\ Transaction(t) /\ IsBound(r) /\ mid \in Row
        /\ evidence.outcome = outcome /\ evidence.receipt = receipt
        /\ evidence.children = ChildrenOf(r.job)
    BY <1>6, BoundRow, EvidenceType, ResolvedType DEF FinalizeResult, Evidence
  <2>2. rows' = [rows EXCEPT ![r.op] = new]
    BY <1>6 DEF FinalizeResult
  <2> HIDE DEF evidence
  <2>3. /\ mid.resolution = evidence /\ mid.resolvedAt = t /\ mid.state = old.state
        /\ mid.unknownReceipt = old.unknownReceipt
        /\ SameReservation(old, mid) /\ SameDispatch(old, mid)
        /\ SameCharge(old, mid) /\ SameCommit(old, mid)
    BY <2>1, ResolvedFields DEF SameReservation, SameDispatch, SameCharge, SameCommit
  <2> HIDE DEF mid
  <2>4. /\ SameReservation(mid, new) /\ SameDispatch(mid, new) /\ SameCharge(mid, new)
        /\ SameVerdict(mid, new) /\ new.state = mid.state
        /\ new.unknownReceipt = mid.unknownReceipt
        /\ CommitsIf(outcome, t, mid, new)
    BY <2>1, WithResultFields
  <2> HIDE DEF new
  <2>5. r.op \in Present /\ OnlyRow(r.op, t) /\ rows'[r.op] = new
    BY <2>1, <2>2, BoundStep
  <2>6. /\ Qualified(r.op, outcome) /\ receipt \notin UsedReceipts
        /\ \A s \in JobRows(r.job) : rows[s].resolution.outcome = "NONE" /\ ~rows[s].committed
    BY <1>6 DEF FinalizeResult
  <2>7. VerdictStep(r.op, t)
    BY <2>1, <2>3, <2>4, <2>5, <2>6
       DEF VerdictStep, SameReservation, SameDispatch, SameCharge, SameVerdict, SameCommit, CommitsIf
  <2>8. QED
    BY <2>5, <2>7
<1>7. ASSUME NEW r \in Requests, NEW t \in Times, Replay(r, t)
      PROVE  NoRow
  BY <1>7, ClockAdvances DEF Replay, NoRow
<1>8. CASE UNCHANGED vars
  <2>1. lastNow \in Nat /\ lastNow \in Times
    BY ClockAssumption DEF TypeOK
  <2>2. QED
    BY <1>8, <2>1 DEF vars, NoRow
<1>9. QED
  BY <1>1, <1>2, <1>3, <1>4, <1>5, <1>6, <1>7, <1>8 DEF Next, Call, Anything

-----------------------------------------------------------------------------
(* The shape of a row: what its state says about its charge and result.    *)

Shape(row) ==
  /\ row.state # Absent => row.reservedAt \in Times
  /\ row.state # "SETTLED" =>
       row.settledAt = NoTime /\ row.outcome = "NONE" /\ row.receipt = NoReceipt
  /\ row.state = "SETTLED" => row.outcome # "NONE" /\ row.receipt # NoReceipt
  /\ row.outcome = "COMMITTED" => row.committed
  /\ row.committed => row.outcome = "COMMITTED" \/ row.resolution.outcome = "COMMITTED"
  /\ ~row.committed => row.committedAt = NoTime
  /\ row.resolution.outcome = "NONE" <=> row.resolution.receipt = NoReceipt
  /\ row.resolution.outcome # "NONE" => row.state \in Terminal

Shapes == \A o \in OpNames : Shape(rows[o])

\* The job of o has its result.
Decided(o) == rows[o].committed \/ rows[o].resolution.outcome # "NONE"

LEMMA EmptyShape == Shape(EmptyRow)
  BY EmptyRowFields DEF Shape, NoResolution, Absent

LEMMA ShapesStep ==
  ASSUME TypeOK, Shapes, [Next]_vars
  PROVE  Shapes'
<1>1. ASSUME NEW r \in Requests, NEW t \in Times, NEW f \in Facts, Reserve(r, t, f)
      PROVE  Shapes'
  <2>1. /\ r.op \in OpNames /\ rows'[r.op] = NewRow(r, t, f)
        /\ \A o \in OpNames \ {r.op} : rows'[o] = rows[o]
    BY <1>1, ReserveAdds
  <2>2. Shape(NewRow(r, t, f))
    <3> DEFINE new == NewRow(r, t, f)
    <3>1. /\ new.state = "RESERVED" /\ new.reservedAt = t
          /\ new.settledAt = NoTime /\ new.outcome = "NONE" /\ new.receipt = NoReceipt
          /\ new.resolution = NoResolution
          /\ ~new.committed /\ new.committedAt = NoTime
      BY NewRowFields
    <3> HIDE DEF new
    <3>2. Shape(new)
      BY <3>1 DEF Shape, NoResolution, Absent
    <3>3. QED
      BY <3>2 DEF new
  <2>3. QED
    BY <2>1, <2>2 DEF Shapes
<1>2. ASSUME NEW o \in Present, NEW t \in Times, LifecycleStep(o, t)
      PROVE  Shapes'
  <2>1. \A s \in OpNames \ {o} : rows'[s] = rows[s]
    BY <1>2 DEF LifecycleStep, OnlyRow
  <2>2. Shape(rows[o])
    BY DEF Shapes, Present
  <2>3. Shape(rows'[o])
    BY <1>2, <2>2
       DEF LifecycleStep, SameReservation, SameCharge, SameVerdict, SameCommit, Shape, Absent,
           Outstanding, Terminal
  <2>4. QED
    BY <2>1, <2>3 DEF Shapes
<1>3. ASSUME NEW o \in Present, NEW t \in Times, ChargeStep(o, t)
      PROVE  Shapes'
  <2>1. \A s \in OpNames \ {o} : rows'[s] = rows[s]
    BY <1>3 DEF ChargeStep, OnlyRow
  <2>2. Shape(rows[o])
    BY DEF Shapes, Present
  <2>3. rows'[o].outcome # "NONE" /\ rows'[o].receipt # NoReceipt
    BY <1>3, CapAssumption, RequestAssumption DEF ChargeStep
  <2>4. Shape(rows'[o])
    BY <1>3, <2>2, <2>3
       DEF ChargeStep, SameReservation, SameDispatch, SameVerdict, SameCommit, CommitsIf, Shape,
           Absent, Outstanding, Terminal
  <2>5. QED
    BY <2>1, <2>4 DEF Shapes
<1>4. ASSUME NEW o \in Present, NEW t \in Times, VerdictStep(o, t)
      PROVE  Shapes'
  <2>1. \A s \in OpNames \ {o} : rows'[s] = rows[s]
    BY <1>4 DEF VerdictStep, OnlyRow
  <2>2. Shape(rows[o])
    BY DEF Shapes, Present
  <2>3. o \in JobRows(rows[o].request.job)
    BY DEF JobRows
  <2>4. rows[o].state \in Terminal /\ ~rows[o].committed
    BY <1>4, <2>3 DEF VerdictStep, Qualified
  <2>5. rows'[o].resolution.outcome # "NONE" /\ rows'[o].resolution.receipt # NoReceipt
    BY <1>4, CapAssumption, RequestAssumption DEF VerdictStep
  <2>6. Shape(rows'[o])
    BY <1>4, <2>2, <2>4, <2>5
       DEF VerdictStep, SameReservation, SameDispatch, SameCharge, SameCommit, CommitsIf, Shape
  <2>7. QED
    BY <2>1, <2>6 DEF Shapes
<1>5. CASE NoRow
  BY <1>5 DEF NoRow, Shapes
<1>6. QED
  BY <1>1, <1>2, <1>3, <1>4, <1>5, StepKinds

-----------------------------------------------------------------------------
(* A job that has its result takes no further change.                      *)

\* What the proofs below assume of the state before a step.
Sound ==
  /\ TypeOK /\ JobsAreCoherent /\ Shapes
  /\ HistoryAccepted /\ ReceiptsAreSound

\* Every row of a decided job is final.
LEMMA DecidedIsTerminal ==
  ASSUME Sound, NEW o \in Present, Decided(o), NEW s \in JobRows(rows[o].request.job)
  PROVE  rows[s].state \in Terminal
<1>1. CASE rows[o].committed
  <2>1. rows[s].state = "SETTLED"
    BY <1>1 DEF Sound, ReceiptsAreSound, CommittedResultIsComplete
  <2>2. QED
    BY <2>1 DEF Terminal
<1>2. CASE rows[o].resolution.outcome # "NONE"
  BY <1>2 DEF Sound, HistoryAccepted, HistoryValid, ResultHistoryValid, Qualified
<1>3. QED
  BY <1>1, <1>2 DEF Decided

\* No reservation joins a decided job.
LEMMA DecidedIsFull ==
  ASSUME Sound, NEW o \in Present, Decided(o),
         NEW r \in Requests, JoinsJob(r)
  PROVE  rows[o].request.job # r.job
<1> SUFFICES ASSUME rows[o].request.job = r.job
             PROVE  FALSE
  OBVIOUS
<1>1. o \in JobRows(r.job)
  BY DEF JobRows
<1>2. CASE rows[o].resolution.outcome # "NONE"
  BY <1>1, <1>2 DEF JoinsJob
<1>3. CASE rows[o].committed
  <2>1. {rows[s].request.child : s \in JobRows(r.job)} = 0 .. (rows[o].request.children - 1)
    BY <1>3 DEF Sound, ReceiptsAreSound, CommittedResultIsComplete
  <2>2. rows[o].request.children = r.children
    BY <1>1 DEF JoinsJob, Binding
  <2>3. r.child \in 0 .. (r.children - 1)
    BY RequestAssumption
  <2>4. QED
    BY <2>1, <2>2, <2>3 DEF JoinsJob
<1>4. QED
  BY <1>2, <1>3 DEF Decided

LEMMA DecidedJobIsStill ==
  ASSUME Sound, [Next]_vars, NEW o \in Present, Decided(o)
  PROVE  /\ JobRows(rows[o].request.job)' = JobRows(rows[o].request.job)
         /\ \A s \in JobRows(rows[o].request.job) : rows'[s] = rows[s]
         /\ rows'[o] = rows[o]
<1> DEFINE j == rows[o].request.job
<1>0. TypeOK /\ o \in OpNames /\ o \in JobRows(j)
  BY DEF Sound, Present, JobRows
<1> SUFFICES /\ {s \in Present' : rows'[s].request.job = j} = JobRows(j)
             /\ \A s \in JobRows(j) : rows'[s] = rows[s]
  BY <1>0 DEF JobRows
<1>1. ASSUME NEW r \in Requests, NEW t \in Times, NEW f \in Facts, Reserve(r, t, f)
      PROVE  /\ {s \in Present' : rows'[s].request.job = j} = JobRows(j)
             /\ \A s \in JobRows(j) : rows'[s] = rows[s]
  <2>1. r.job # j
    BY <1>1, DecidedIsFull DEF Reserve
  <2>2. /\ r.op \in OpNames /\ r.op \notin Present /\ rows'[r.op].request = r
        /\ \A s \in OpNames \ {r.op} : rows'[s] = rows[s]
        /\ Present' = Present \cup {r.op}
    BY <1>0, <1>1, ReserveAdds, NewRowType
  <2>3. \A s \in Present : rows'[s] = rows[s]
    BY <2>2 DEF Present
  <2>4. QED
    BY <2>1, <2>2, <2>3 DEF JobRows
<1>2. ASSUME NEW s \in Present, NEW t \in Times,
             LifecycleStep(s, t) \/ ChargeStep(s, t) \/ VerdictStep(s, t)
      PROVE  /\ {x \in Present' : rows'[x].request.job = j} = JobRows(j)
             /\ \A x \in JobRows(j) : rows'[x] = rows[x]
  <2>1. /\ \A x \in OpNames \ {s} : rows'[x] = rows[x]
        /\ rows'[s].request = rows[s].request
        /\ rows'[s].state # Absent
    BY <1>2 DEF LifecycleStep, ChargeStep, VerdictStep, OnlyRow, SameReservation, Present,
                Absent
  <2>2. Present' = Present
    BY <2>1 DEF Present
  <2>3. s \notin JobRows(j)
    <3>1. CASE LifecycleStep(s, t) \/ ChargeStep(s, t)
      BY <3>1, DecidedIsTerminal DEF LifecycleStep, ChargeStep, Outstanding, Terminal
    <3>2. CASE VerdictStep(s, t)
      BY <1>0, <3>2 DEF VerdictStep, Decided, JobRows
    <3>3. QED
      BY <1>2, <3>1, <3>2
  <2>4. \A x \in Present : x # s => rows'[x] = rows[x]
    BY <2>1 DEF Present
  <2>5. QED
    BY <2>1, <2>2, <2>3, <2>4 DEF JobRows
<1>3. CASE NoRow
  BY <1>3 DEF NoRow, JobRows, Present
<1>4. QED
  BY <1>0, <1>1, <1>2, <1>3, StepKinds

\* The three changes keep the rows that are there, their requests and their
\* groups, and the clock moves on.
OneRow(o, t) == LifecycleStep(o, t) \/ ChargeStep(o, t) \/ VerdictStep(o, t)

LEMMA OneRowFacts ==
  ASSUME TypeOK, NEW o \in Present, NEW t \in Times, OneRow(o, t)
  PROVE  /\ OnlyRow(o, t) /\ Present' = Present /\ o \in OpNames
         /\ \A s \in OpNames : rows'[s].request = rows[s].request
         /\ \A s \in Present \ {o} : rows'[s] = rows[s]
         /\ rows'[o].reservedAt = rows[o].reservedAt
         /\ rows'[o].nextEligibilityAt = rows[o].nextEligibilityAt
         /\ rows'[o].opens = rows[o].opens
         /\ \A j : JobRows(j)' = JobRows(j)
<1>1. OnlyRow(o, t) /\ rows'[o].request = rows[o].request /\ rows'[o].state # Absent
      /\ rows'[o].reservedAt = rows[o].reservedAt
      /\ rows'[o].nextEligibilityAt = rows[o].nextEligibilityAt
      /\ rows'[o].opens = rows[o].opens
  BY DEF OneRow, LifecycleStep, ChargeStep, VerdictStep, SameReservation, Present, Absent
<1>2. /\ o \in OpNames /\ rows[o].state # Absent
      /\ \A s \in OpNames \ {o} : rows'[s] = rows[s]
  BY <1>1 DEF OnlyRow, Present
<1>3. Present' = Present
  BY <1>1, <1>2 DEF Present
<1>4. \A s \in OpNames : rows'[s].request = rows[s].request
  BY <1>1, <1>2
<1>5. \A s \in Present \ {o} : rows'[s] = rows[s]
  BY <1>2 DEF Present
<1>6. ASSUME NEW j
      PROVE  JobRows(j)' = JobRows(j)
  <2>1. \A s \in Present : rows'[s].request = rows[s].request
    BY <1>4 DEF Present
  <2>2. QED
    BY <1>3, <2>1 DEF JobRows
<1>7. QED
  BY <1>1, <1>2, <1>3, <1>4, <1>5, <1>6

\* The changed row's job had no result yet.
LEMMA ChangedIsOpen ==
  ASSUME Sound, NEW o \in Present, NEW t \in Times, OneRow(o, t),
         NEW s \in JobRows(rows[o].request.job)
  PROVE  ~Decided(s)
<1>1. s \in Present /\ o \in JobRows(rows[s].request.job)
  BY DEF JobRows
<1>2. CASE LifecycleStep(o, t) \/ ChargeStep(o, t)
  <2>1. rows[o].state \notin Terminal
    BY <1>2 DEF LifecycleStep, ChargeStep, Outstanding, Terminal
  <2>2. QED
    BY <1>1, <2>1, DecidedIsTerminal
<1>3. CASE VerdictStep(o, t)
  BY <1>3 DEF VerdictStep, Decided
<1>4. QED
  BY <1>2, <1>3 DEF OneRow

-----------------------------------------------------------------------------
(* A committed result is complete.                                         *)

\* When a job has as many rows as it declares children, it has them all.
LEMMA EveryChild ==
  ASSUME TypeOK, JobsAreCoherent, NEW o \in Present,
         Cardinality(JobRows(rows[o].request.job)) = rows[o].request.children
  PROVE  {rows[s].request.child : s \in JobRows(rows[o].request.job)}
           = 0 .. (rows[o].request.children - 1)
<1> DEFINE group == JobRows(rows[o].request.job)
           n == rows[o].request.children
           numbers == 0 .. (n - 1)
           child == [s \in group |-> rows[s].request.child]
<1>1. \A s \in Present : rows[s] \in Row /\ rows[s].request \in Requests
  BY RequestOfRow DEF TypeOK, Present
<1>2. n \in Nat
  BY <1>1, RequestAssumption
<1>3. \A s \in group : rows[s].request.children = n
  BY DEF JobRows, JobsAreCoherent, Binding
<1>4. \A s \in group : rows[s].request.child \in numbers
  <2>1. \A r \in Requests : r.child \in 0 .. (r.children - 1)
    BY RequestAssumption
  <2>2. \A s \in group : rows[s].request \in Requests
    BY <1>1 DEF JobRows
  <2>3. QED
    BY <1>3, <2>1, <2>2
<1>5. \A s, x \in group : rows[s].request.child = rows[x].request.child => s = x
  BY DEF JobRows, JobsAreCoherent
<1>6. child \in Injection(group, numbers)
  <2>1. child \in [group -> numbers] /\ \A s \in group : child[s] = rows[s].request.child
    BY <1>4
  <2> HIDE DEF group, numbers, child
  <2>2. QED
    BY <1>5, <2>1 DEF Injection, IsInjective
<1>7. IsFiniteSet(numbers) /\ Cardinality(numbers) = n
  <2> HIDE DEF n
  <2>1. 0 \in Int /\ n - 1 \in Int /\ (IF 0 > n - 1 THEN 0 ELSE n - 1 - 0 + 1) = n
    BY <1>2
  <2>2. QED
    BY <2>1, FS_Interval
<1>8. child \in Surjection(group, numbers)
  BY <1>6, <1>7, FS_Injection
<1>9. QED
  BY <1>4, <1>8 DEF Surjection

\* The committed result of x covers its group.
Whole(x, group) ==
  /\ {rows[s].request.child : s \in group} = 0 .. (rows[x].request.children - 1)
  /\ \A s \in group :
       /\ rows[s].state = "SETTLED"
       /\ rows[s].outcome # "FAILED"
       /\ rows[s].committed => s = x

LEMMA CompleteStep ==
  ASSUME Sound, [Next]_vars
  PROVE  CommittedResultIsComplete'
<1>0. TypeOK /\ JobsAreCoherent /\ Shapes
  BY DEF Sound
<1>1. ASSUME NEW x \in Present, rows[x].committed
      PROVE  Whole(x, JobRows(rows[x].request.job))'
  <2> DEFINE group == JobRows(rows[x].request.job)
  <2>1. Whole(x, group)
    BY <1>1 DEF Sound, ReceiptsAreSound, CommittedResultIsComplete, Whole
  <2>2. /\ group' = group
        /\ \A s \in group : rows'[s] = rows[s]
        /\ rows'[x] = rows[x]
    BY <1>1, DecidedJobIsStill DEF Decided
  <2> HIDE DEF group
  <2>3. Whole(x, group)'
    BY <2>1, <2>2 DEF Whole
  <2>4. QED
    BY <2>3 DEF group
<1>2. ASSUME NEW o \in Present, NEW t \in Times, OneRow(o, t),
             ~rows[o].committed, rows'[o].committed
      PROVE  Whole(o, JobRows(rows[o].request.job))'
  <2> DEFINE group == JobRows(rows[o].request.job)
  <2>1. o \in group /\ group \subseteq Present
    BY DEF JobRows
  <2>2. /\ Cardinality(group) = rows[o].request.children
        /\ \A s \in group \ {o} : rows[s].state = "SETTLED" /\ rows[s].outcome = "VALIDATED"
        /\ rows'[o].state = "SETTLED" /\ rows'[o].outcome # "FAILED"
    <3>1. ~LifecycleStep(o, t)
      BY <1>2 DEF LifecycleStep, SameCommit
    <3>2. CASE ChargeStep(o, t)
      <4>1. rows'[o].outcome = "COMMITTED" /\ rows'[o].state = "SETTLED"
        BY <1>2, <3>2 DEF ChargeStep, CommitsIf, SameCommit
      <4>2. SiblingsValidated(rows[o].request) /\ rows[o].request.op = o
        BY <1>0, <3>2, <4>1 DEF ChargeStep, TypeOK
      <4>3. QED
        BY <4>1, <4>2 DEF SiblingsValidated
    <3>3. CASE VerdictStep(o, t)
      <4>1. /\ Qualified(o, "COMMITTED")
            /\ rows'[o].state = rows[o].state /\ rows'[o].outcome = rows[o].outcome
        BY <1>2, <3>3 DEF VerdictStep, CommitsIf, SameCommit, SameCharge
      <4>2. /\ Cardinality(group) = rows[o].request.children
            /\ \A s \in group : rows[s].outcome = "VALIDATED"
        BY <4>1 DEF Qualified
      <4>3. \A s \in group : Shape(rows[s])
        BY <1>0, <2>1 DEF Shapes, Present
      <4>4. \A s \in group : rows[s].state = "SETTLED"
        BY <4>2, <4>3 DEF Shape
      <4>5. QED
        BY <2>1, <4>1, <4>2, <4>4
    <3>4. QED
      BY <1>2, <3>1, <3>2, <3>3 DEF OneRow
  <2>3. \A s \in group : ~rows[s].committed
    BY <1>2, ChangedIsOpen DEF Decided
  <2>4. {rows[s].request.child : s \in group} = 0 .. (rows[o].request.children - 1)
    BY <1>0, <2>2, EveryChild
  <2>5. /\ group' = group
        /\ \A s \in Present : rows'[s].request = rows[s].request
        /\ \A s \in Present \ {o} : rows'[s] = rows[s]
    <3>1. /\ \A s \in OpNames : rows'[s].request = rows[s].request
          /\ \A s \in Present \ {o} : rows'[s] = rows[s]
          /\ \A j : JobRows(j)' = JobRows(j)
          /\ o \in OpNames
      BY <1>0, <1>2, OneRowFacts
    <3>2. rows'[o].request.job = rows[o].request.job
      BY <3>1
    <3>3. QED
      BY <3>1, <3>2 DEF Present
  <2> HIDE DEF group
  <2>6. {rows'[s].request.child : s \in group} = {rows[s].request.child : s \in group}
    BY <2>1, <2>5
  <2>7. \A s \in group : /\ rows'[s].state = "SETTLED"
                         /\ rows'[s].outcome # "FAILED"
                         /\ s # o => ~rows'[s].committed
    BY <2>1, <2>2, <2>3, <2>5
  <2>8. Whole(o, group)'
    BY <2>1, <2>4, <2>5, <2>6, <2>7 DEF Whole
  <2>9. QED
    BY <2>8 DEF group
<1>3. ASSUME NEW x \in Present', rows'[x].committed
      PROVE  Whole(x, JobRows(rows[x].request.job))'
  <2>1. CASE x \in Present /\ rows[x].committed
    BY <1>1, <2>1
  <2>2. CASE ~(x \in Present /\ rows[x].committed)
    <3>1. ASSUME NEW r \in Requests, NEW t \in Times, NEW f \in Facts, Reserve(r, t, f)
          PROVE  FALSE
      <4>1. /\ rows'[r.op] = NewRow(r, t, f)
            /\ \A s \in OpNames \ {r.op} : rows'[s] = rows[s]
            /\ Present' = Present \cup {r.op}
        BY <1>0, <3>1, ReserveAdds
      <4>2. ~rows'[r.op].committed
        BY <4>1, NewRowFields
      <4>3. QED
        BY <1>3, <2>2, <4>1, <4>2 DEF Present
    <3>2. ASSUME NEW o \in Present, NEW t \in Times, OneRow(o, t)
          PROVE  Whole(x, JobRows(rows[x].request.job))'
      <4>1. Present' = Present /\ \A s \in Present \ {o} : rows'[s] = rows[s]
        BY <1>0, <3>2, OneRowFacts
      <4>2. x = o /\ ~rows[o].committed /\ rows'[o].committed
        BY <1>3, <2>2, <4>1
      <4>3. QED
        BY <1>2, <3>2, <4>2
    <3>3. ~NoRow
      BY <1>3, <2>2 DEF NoRow, Present
    <3>4. QED
      BY <1>0, <3>1, <3>2, <3>3, StepKinds DEF OneRow
  <2>3. QED
    BY <2>1, <2>2
<1>4. QED
  BY <1>3 DEF CommittedResultIsComplete, Whole

-----------------------------------------------------------------------------
(* No receipt stands for two things.                                       *)

OwnReceipts(o) == {rows[o].receipt, rows[o].unknownReceipt}
ResultReceipt(o) == rows[o].resolution.receipt

\* ReceiptsAreNotShared, pair by pair.
PairsApart ==
  \A o, s \in Present :
    /\ ResultReceipt(s) \in OwnReceipts(o) => ResultReceipt(s) = NoReceipt
    /\ o # s => /\ OwnReceipts(o) \cap OwnReceipts(s) \subseteq {NoReceipt}
                /\ ResultReceipt(o) = ResultReceipt(s) => ResultReceipt(o) = NoReceipt

LEMMA PairsSayIt == ReceiptsAreNotShared <=> PairsApart
<1>1. ASSUME ReceiptsAreNotShared
      PROVE  PairsApart
  <2> SUFFICES ASSUME NEW o \in Present, NEW s \in Present
               PROVE  /\ ResultReceipt(s) \in OwnReceipts(o) => ResultReceipt(s) = NoReceipt
                      /\ o # s => /\ OwnReceipts(o) \cap OwnReceipts(s) \subseteq {NoReceipt}
                                  /\ ResultReceipt(o) = ResultReceipt(s)
                                       => ResultReceipt(o) = NoReceipt
    BY DEF PairsApart
  <2>1. OwnReceipts(o) \cap (ReceiptsOfOthers(o) \cup ResultReceipts) \subseteq {NoReceipt}
    BY <1>1 DEF ReceiptsAreNotShared, OwnReceipts
  <2>2. ResultReceipt(s) \in ResultReceipts
    BY DEF ResultReceipt, ResultReceipts
  <2>3. o # s => OwnReceipts(s) \subseteq ReceiptsOfOthers(o)
    BY DEF OwnReceipts, ReceiptsOfOthers
  <2>4. o # s /\ ResultReceipt(o) = ResultReceipt(s) => ResultReceipt(o) = NoReceipt
    BY <1>1 DEF ReceiptsAreNotShared, ResultReceipt
  <2>5. QED
    BY <2>1, <2>2, <2>3, <2>4
<1>2. ASSUME PairsApart
      PROVE  ReceiptsAreNotShared
  <2> SUFFICES ASSUME NEW o \in Present
               PROVE  /\ OwnReceipts(o) \cap (ReceiptsOfOthers(o) \cup ResultReceipts)
                           \subseteq {NoReceipt}
                      /\ \A s \in Present \ {o} :
                           ResultReceipt(o) = ResultReceipt(s) => ResultReceipt(o) = NoReceipt
    BY DEF ReceiptsAreNotShared, OwnReceipts, ResultReceipt
  <2>1. \A x \in ReceiptsOfOthers(o) : \E s \in Present \ {o} : x \in OwnReceipts(s)
    BY DEF ReceiptsOfOthers, OwnReceipts
  <2>2. \A x \in ResultReceipts : \E s \in Present : x = ResultReceipt(s)
    BY DEF ResultReceipts, ResultReceipt
  <2>3. QED
    BY <1>2, <2>1, <2>2 DEF PairsApart
<1>3. QED
  BY <1>1, <1>2

\* A change of a row takes only receipts that nothing else holds.
LEMMA FreshReceipts ==
  ASSUME NEW o \in Present, NEW t \in Times, OneRow(o, t)
  PROVE  /\ \A x \in OwnReceipts(o)' :
              \/ x \in OwnReceipts(o)
              \/ /\ \A s \in Present \ {o} : x \notin OwnReceipts(s)
                 /\ \A s \in Present : x # ResultReceipt(s)
         /\ \/ ResultReceipt(o)' = ResultReceipt(o)
            \/ /\ OwnReceipts(o)' = OwnReceipts(o)
               /\ \A s \in Present : /\ ResultReceipt(o)' \notin OwnReceipts(s)
                                     /\ ResultReceipt(o)' # ResultReceipt(s)
<1>1. \A x : x \notin ReceiptsOfOthers(o) \cup ResultReceipts =>
               /\ \A s \in Present \ {o} : x \notin OwnReceipts(s)
               /\ \A s \in Present : x # ResultReceipt(s)
  BY DEF ReceiptsOfOthers, ResultReceipts, OwnReceipts, ResultReceipt
<1>2. \A x : x \notin UsedReceipts =>
               \A s \in Present : x \notin OwnReceipts(s) /\ x # ResultReceipt(s)
  BY DEF UsedReceipts, ResultReceipts, OwnReceipts, ResultReceipt
<1>3. CASE LifecycleStep(o, t)
  BY <1>1, <1>3 DEF LifecycleStep, SameCharge, SameVerdict, OwnReceipts, ResultReceipt
<1>4. CASE ChargeStep(o, t)
  BY <1>1, <1>4 DEF ChargeStep, SameVerdict, OwnReceipts, ResultReceipt
<1>5. CASE VerdictStep(o, t)
  BY <1>2, <1>5 DEF VerdictStep, SameCharge, OwnReceipts, ResultReceipt
<1>6. QED
  BY <1>3, <1>4, <1>5 DEF OneRow

LEMMA ReceiptsStep ==
  ASSUME Sound, [Next]_vars
  PROVE  ReceiptsAreNotShared'
<1>0. TypeOK /\ PairsApart
  BY PairsSayIt DEF Sound, ReceiptsAreSound
<1>1. ASSUME NEW r \in Requests, NEW t \in Times, NEW f \in Facts, Reserve(r, t, f)
      PROVE  PairsApart'
  <2>1. /\ rows'[r.op] = NewRow(r, t, f)
        /\ \A s \in OpNames \ {r.op} : rows'[s] = rows[s]
        /\ Present' = Present \cup {r.op} /\ r.op \notin Present
    BY <1>0, <1>1, ReserveAdds
  <2>2. OwnReceipts(r.op)' = {NoReceipt} /\ ResultReceipt(r.op)' = NoReceipt
    <3>1. /\ NewRow(r, t, f).receipt = NoReceipt /\ NewRow(r, t, f).unknownReceipt = NoReceipt
          /\ NewRow(r, t, f).resolution.receipt = NoReceipt
      BY NewRowFields DEF NoResolution
    <3>2. QED
      BY <2>1, <3>1 DEF OwnReceipts, ResultReceipt
  <2>3. \A s \in Present : /\ OwnReceipts(s)' = OwnReceipts(s)
                           /\ ResultReceipt(s)' = ResultReceipt(s)
    BY <2>1 DEF OwnReceipts, ResultReceipt, Present
  <2>4. QED
    BY <1>0, <2>1, <2>2, <2>3 DEF PairsApart
<1>2. ASSUME NEW o \in Present, NEW t \in Times, OneRow(o, t)
      PROVE  PairsApart'
  <2>1. Present' = Present /\ \A s \in Present \ {o} : rows'[s] = rows[s]
    BY <1>0, <1>2, OneRowFacts
  <2>2. \A s \in Present \ {o} : /\ OwnReceipts(s)' = OwnReceipts(s)
                                 /\ ResultReceipt(s)' = ResultReceipt(s)
    BY <2>1 DEF OwnReceipts, ResultReceipt
  <2>3. /\ \A x \in OwnReceipts(o)' :
             \/ x \in OwnReceipts(o)
             \/ /\ \A s \in Present \ {o} : x \notin OwnReceipts(s)
                /\ \A s \in Present : x # ResultReceipt(s)
        /\ \/ ResultReceipt(o)' = ResultReceipt(o)
           \/ /\ OwnReceipts(o)' = OwnReceipts(o)
              /\ \A s \in Present : /\ ResultReceipt(o)' \notin OwnReceipts(s)
                                    /\ ResultReceipt(o)' # ResultReceipt(s)
    BY <1>2, FreshReceipts
  <2>4. ASSUME NEW x \in Present, NEW y \in Present
        PROVE  /\ ResultReceipt(y)' \in OwnReceipts(x)' => ResultReceipt(y)' = NoReceipt
               /\ x # y => /\ OwnReceipts(x)' \cap OwnReceipts(y)' \subseteq {NoReceipt}
                           /\ ResultReceipt(x)' = ResultReceipt(y)'
                                => ResultReceipt(x)' = NoReceipt
    <3>1. /\ ResultReceipt(y) \in OwnReceipts(x) => ResultReceipt(y) = NoReceipt
          /\ x # y => /\ OwnReceipts(x) \cap OwnReceipts(y) \subseteq {NoReceipt}
                      /\ ResultReceipt(x) = ResultReceipt(y) => ResultReceipt(x) = NoReceipt
      BY <1>0 DEF PairsApart
    <3>2. CASE x = o /\ y = o
      BY <2>3, <3>1, <3>2
    <3>3. CASE x = o /\ y # o
      BY <2>2, <2>3, <3>1, <3>3
    <3>4. CASE x # o /\ y = o
      BY <2>2, <2>3, <3>1, <3>4
    <3>5. CASE x # o /\ y # o
      BY <2>2, <3>1, <3>5
    <3>6. QED
      BY <3>2, <3>3, <3>4, <3>5
  <2>5. QED
    BY <2>1, <2>4 DEF PairsApart
<1>3. ASSUME NoRow
      PROVE  PairsApart'
  BY <1>0, <1>3 DEF NoRow, PairsApart, OwnReceipts, ResultReceipt, Present
<1>4. PairsApart'
  BY <1>0, <1>1, <1>2, <1>3, StepKinds DEF OneRow
<1>5. QED
  BY <1>4, PairsSayIt, PTL

-----------------------------------------------------------------------------
(* The snapshot a call leaves is one the next call accepts.                *)

\* What WindowHistoryValid asks of one row.
DatesOrdered(row, t) ==
  /\ row.reservedAt <= t
  /\ row.nextEligibilityAt > row.reservedAt
  /\ row.state \in Outstanding \cup {"SETTLED"} =>
       /\ row.reservedAt <= row.dispatchedAt
       /\ row.dispatchedAt <= t
  /\ row.state = "SETTLED" =>
       /\ row.dispatchedAt <= row.settledAt
       /\ row.settledAt <= t
  /\ row.committed =>
       /\ row.dispatchedAt <= row.committedAt
       /\ row.committedAt <= t
       /\ "COMMITTED" \in {row.outcome, row.resolution.outcome}

LEMMA WindowByRows ==
  /\ \A t : WindowHistoryValid(t) <=> \A o \in Present : DatesOrdered(rows[o], t)
  /\ WindowHistoryValid(lastNow)' <=> \A o \in Present' : DatesOrdered(rows'[o], lastNow')
  BY DEF WindowHistoryValid, DatesOrdered

LEMMA RowDates ==
  ASSUME NEW row \in Row
  PROVE  /\ row.reservedAt \in Int /\ row.nextEligibilityAt \in Int
         /\ row.dispatchedAt \in Int /\ row.settledAt \in Int /\ row.committedAt \in Int
         /\ row.resolvedAt \in Int
  <1>1. /\ row.reservedAt \in MaybeTime /\ row.nextEligibilityAt \in Nat \cup {NoTime}
        /\ row.dispatchedAt \in MaybeTime /\ row.settledAt \in MaybeTime
        /\ row.committedAt \in MaybeTime /\ row.resolvedAt \in MaybeTime
    BY DEF Row
  <1>2. MaybeTime \subseteq Int /\ Nat \cup {NoTime} \subseteq Int
    BY ClockAssumption DEF MaybeTime, NoTime
  <1>3. QED
    BY <1>1, <1>2

LEMMA LaterStillOrdered ==
  ASSUME NEW row \in Row, NEW t \in Int, NEW u \in Int, t <= u, DatesOrdered(row, t)
  PROVE  DatesOrdered(row, u)
  BY RowDates DEF DatesOrdered

LEMMA NewRowOrdered ==
  ASSUME NEW r \in Requests, NEW t \in Times, NEW f \in Facts
  PROVE  DatesOrdered(NewRow(r, t, f), t)
<1>1. /\ NewRow(r, t, f).state = "RESERVED" /\ NewRow(r, t, f).reservedAt = t
      /\ NewRow(r, t, f).nextEligibilityAt = NextEligibility(t, f)
      /\ ~NewRow(r, t, f).committed
  BY NewRowFields
<1>2. t \in Nat /\ NextEligibility(t, f) \in Nat /\ NextEligibility(t, f) > t
  <2>1. f.tier \in Tiers /\ f.zone \in Zones
    BY DEF Facts
  <2>2. WindowEnd[f.tier][f.zone][t] \in Nat /\ WindowEnd[f.tier][f.zone][t] > t
    BY <2>1, ClockAssumption
  <2>3. t \in Nat /\ Interval[f.tier] \in Nat \ {0}
    BY <2>1, ClockAssumption
  <2>4. QED
    BY <2>2, <2>3 DEF NextEligibility, Later
<1>3. QED
  BY <1>1, <1>2 DEF DatesOrdered, Outstanding

LEMMA TimesAreInts ==
  ASSUME TypeOK
  PROVE  lastNow \in Int /\ \A t \in Times : t \in Int
  BY ClockAssumption DEF TypeOK

LEMMA WindowStep ==
  ASSUME Sound, TypeOK', [Next]_vars
  PROVE  WindowHistoryValid(lastNow)'
<1>0. TypeOK /\ Shapes /\ WindowHistoryValid(lastNow)
  BY DEF Sound, HistoryAccepted, HistoryValid
<1>1. /\ lastNow \in Int /\ \A t \in Times : t \in Int
      /\ \A o \in Present : rows[o] \in Row
      /\ lastNow' \in Times
  BY <1>0, TimesAreInts DEF TypeOK, Present
<1>2. ASSUME NEW r \in Requests, NEW t \in Times, NEW f \in Facts, Reserve(r, t, f)
      PROVE  \A o \in Present' : DatesOrdered(rows'[o], lastNow')
  <2>1. /\ rows'[r.op] = NewRow(r, t, f)
        /\ \A s \in OpNames \ {r.op} : rows'[s] = rows[s]
        /\ Present' = Present \cup {r.op} /\ r.op \notin Present
    BY <1>0, <1>2, ReserveAdds
  <2>2. lastNow <= lastNow' /\ t <= lastNow'
    BY <1>0, <1>2, ClockAdvances DEF Reserve
  <2>3. \A o \in Present : DatesOrdered(rows[o], lastNow') /\ rows'[o] = rows[o]
    BY <1>0, <1>1, <2>1, <2>2, WindowByRows, LaterStillOrdered DEF Present
  <2>4. DatesOrdered(rows'[r.op], lastNow')
    <3>1. DatesOrdered(NewRow(r, t, f), t) /\ NewRow(r, t, f) \in Row
      BY NewRowOrdered, NewRowType
    <3>2. QED
      BY <1>1, <2>1, <2>2, <3>1, LaterStillOrdered
  <2>5. QED
    BY <2>1, <2>3, <2>4
<1>3. ASSUME NEW o \in Present, NEW t \in Times, OneRow(o, t)
      PROVE  \A s \in Present' : DatesOrdered(rows'[s], lastNow')
  <2>1. /\ OnlyRow(o, t) /\ Present' = Present
        /\ \A s \in Present \ {o} : rows'[s] = rows[s]
    BY <1>0, <1>3, OneRowFacts
  <2>2. t <= lastNow' /\ WindowHistoryValid(t)
    BY <2>1 DEF OnlyRow, HistoryValid
  <2>3. \A s \in Present : DatesOrdered(rows[s], t)
    BY <2>2, WindowByRows
  <2>4. \A s \in Present : rows'[s] \in Row
    BY <2>1 DEF TypeOK, Present
  <2>5. Shape(rows[o]) /\ ~Decided(o)
    <3>1. o \in JobRows(rows[o].request.job)
      BY DEF JobRows
    <3>2. QED
      BY <1>0, <1>3, <3>1, ChangedIsOpen DEF Shapes, Present
  <2>6. DatesOrdered(rows'[o], t)
    <3>1. CASE LifecycleStep(o, t)
      BY <1>1, <2>3, <2>5, <3>1, RowDates
         DEF LifecycleStep, SameReservation, SameDispatch, SameCharge, SameVerdict, SameCommit,
             Decided, DatesOrdered, Outstanding
    <3>2. CASE ChargeStep(o, t)
      BY <1>1, <2>3, <2>5, <3>2, RowDates
         DEF ChargeStep, SameReservation, SameDispatch, SameVerdict, SameCommit, CommitsIf,
             Decided, DatesOrdered, Outstanding
    <3>3. CASE VerdictStep(o, t)
      <4>1. rows'[o].resolution.outcome = "COMMITTED" => rows[o].state = "SETTLED"
        BY <2>5, <3>3 DEF VerdictStep, Qualified, Shape, JobRows
      <4>2. QED
        BY <1>1, <2>3, <2>5, <3>3, <4>1, RowDates
           DEF VerdictStep, SameReservation, SameDispatch, SameCharge, SameCommit, CommitsIf,
               Decided, DatesOrdered, Outstanding
    <3>4. QED
      BY <1>3, <3>1, <3>2, <3>3 DEF OneRow
  <2>7. \A s \in Present : DatesOrdered(rows'[s], t)
    BY <2>1, <2>3, <2>6
  <2>8. QED
    BY <1>1, <2>1, <2>2, <2>4, <2>7, LaterStillOrdered
<1>4. ASSUME NoRow
      PROVE  \A o \in Present' : DatesOrdered(rows'[o], lastNow')
  <2>1. rows' = rows /\ Present' = Present /\ lastNow <= lastNow'
    BY <1>4 DEF NoRow, Present
  <2>2. QED
    BY <1>0, <1>1, <2>1, WindowByRows, LaterStillOrdered
<1>5. \A o \in Present' : DatesOrdered(rows'[o], lastNow')
  BY <1>0, <1>2, <1>3, <1>4, StepKinds DEF OneRow
<1>6. QED
  BY <1>5, WindowByRows

\* What ResultHistoryValid asks of a resolved row, its receipts left aside.
Standing(o, t) ==
  LET row == rows[o]
      group == JobRows(row.request.job)
  IN  /\ Qualified(o, row.resolution.outcome)
      /\ row.resolution.children = ChildrenOf(row.request.job)
      /\ row.resolvedAt <= t
      /\ \A s \in group : /\ row.resolvedAt >= rows[s].reservedAt
                          /\ row.resolvedAt >= rows[s].settledAt
                          /\ s # o => ~Decided(s)
      /\ row.committed <=> row.resolution.outcome = "COMMITTED"
      /\ row.committedAt = (IF row.committed THEN row.resolvedAt ELSE NoTime)

LEMMA CommittedIsBoolean ==
  TypeOK => \A o \in Present : rows[o].committed \in BOOLEAN
  BY DEF TypeOK, Present, Row

LEMMA ResultByRows ==
  /\ TypeOK /\ ResultHistoryValid(lastNow) =>
       \A o \in Present : rows[o].resolution.outcome # "NONE" => Standing(o, lastNow)
  /\ TypeOK /\ Shapes /\ ReceiptsAreNotShared
       /\ (\A o \in Present : rows[o].resolution.outcome # "NONE" => Standing(o, lastNow))
     => ResultHistoryValid(lastNow)
<1>0. TypeOK => \A o \in Present :
                  (rows[o].committed = (rows[o].resolution.outcome = "COMMITTED"))
                    <=> (rows[o].committed <=> rows[o].resolution.outcome = "COMMITTED")
  BY CommittedIsBoolean, Zenon
<1>1. ASSUME TypeOK, ResultHistoryValid(lastNow), NEW o \in Present,
             rows[o].resolution.outcome # "NONE"
      PROVE  Standing(o, lastNow)
  BY <1>0, <1>1 DEF ResultHistoryValid, Standing, Decided
<1>2. ASSUME TypeOK, Shapes, ReceiptsAreNotShared, NEW o \in Present,
             rows[o].resolution.outcome # "NONE"
      PROVE  /\ \A s \in Present :
                  rows[o].resolution.receipt \notin {rows[s].receipt, rows[s].unknownReceipt}
             /\ \A s \in Present \ {o} :
                  rows[o].resolution.receipt # rows[s].resolution.receipt
  <2>1. rows[o].resolution.receipt # NoReceipt
    BY <1>2 DEF Shapes, Shape, Present
  <2>2. PairsApart
    BY <1>2, PairsSayIt
  <2>3. QED
    BY <2>1, <2>2 DEF PairsApart, OwnReceipts, ResultReceipt
<1>3. ASSUME TypeOK, Shapes, ReceiptsAreNotShared,
             \A o \in Present : rows[o].resolution.outcome # "NONE" => Standing(o, lastNow)
      PROVE  ResultHistoryValid(lastNow)
  BY <1>0, <1>2, <1>3 DEF ResultHistoryValid, Standing, Decided
<1>4. QED
  BY <1>1, <1>3

\* What is asked of a group depends on its own rows only.
LEMMA QualifiedSame ==
  ASSUME NEW o \in Present, NEW outcome, Qualified(o, outcome),
         JobRows(rows[o].request.job)' = JobRows(rows[o].request.job),
         \A s \in JobRows(rows[o].request.job) :
           /\ rows'[s].request = rows[s].request
           /\ rows'[s].state = rows[s].state /\ rows'[s].outcome = rows[s].outcome
  PROVE  Qualified(o, outcome)'
<1>1. o \in JobRows(rows[o].request.job)
  BY DEF JobRows
<1>2. rows'[o].request = rows[o].request
  BY <1>1
<1>3. QED
  BY <1>2 DEF Qualified, Binding

LEMMA ChildrenSame ==
  ASSUME NEW j, JobRows(j)' = JobRows(j),
         \A s \in JobRows(j) : /\ rows'[s].state = rows[s].state
                               /\ rows'[s].receipt = rows[s].receipt
  PROVE  ChildrenOf(j)' = ChildrenOf(j)
  BY DEF ChildrenOf

LEMMA StandingStep ==
  ASSUME Sound, TypeOK', Shapes', [Next]_vars,
         NEW o \in Present', rows'[o].resolution.outcome # "NONE"
  PROVE  Standing(o, lastNow)'
<1>0. /\ TypeOK /\ Shapes /\ ResultHistoryValid(lastNow)
      /\ lastNow \in Int /\ lastNow' \in Int /\ \A t \in Times : t \in Int
  BY TimesAreInts, ClockIsNat DEF Sound, HistoryAccepted, HistoryValid
<1>1. ASSUME o \in Present, rows[o].resolution.outcome # "NONE"
      PROVE  Standing(o, lastNow)'
  <2> DEFINE j == rows[o].request.job
             group == JobRows(j)
  <2>1. /\ group' = group
        /\ \A s \in group : rows'[s] = rows[s]
        /\ rows'[o] = rows[o]
    BY <1>1, DecidedJobIsStill DEF Decided
  <2>2. Standing(o, lastNow)
    BY <1>0, <1>1, ResultByRows
  <2>3. Qualified(o, rows[o].resolution.outcome)'
    <3>1. \A c : Qualified(o, c) => Qualified(o, c)'
      BY <1>1, <2>1, QualifiedSame
    <3>2. QED
      BY <2>1, <2>2, <3>1 DEF Standing
  <2>4. ChildrenOf(j)' = ChildrenOf(j)
    BY <2>1 DEF ChildrenOf
  <2>5. lastNow <= lastNow' /\ rows[o].resolvedAt \in Int
    <3>1. lastNow <= lastNow'
      BY <1>0, StepKinds, OneRowFacts, ClockAdvances DEF OneRow, OnlyRow, NoRow, Reserve
    <3>2. rows[o] \in Row
      BY <1>0, <1>1 DEF TypeOK, Present
    <3>3. QED
      BY <3>1, <3>2, RowDates
  <2>6. /\ rows'[o].resolvedAt <= lastNow'
        /\ rows'[o].resolution.children = ChildrenOf(j)'
        /\ \A s \in group' : /\ rows'[o].resolvedAt >= rows'[s].reservedAt
                             /\ rows'[o].resolvedAt >= rows'[s].settledAt
                             /\ s # o => ~Decided(s)'
        /\ rows'[o].committed <=> rows'[o].resolution.outcome = "COMMITTED"
        /\ rows'[o].committedAt = (IF rows'[o].committed THEN rows'[o].resolvedAt ELSE NoTime)
    BY <1>0, <2>1, <2>2, <2>4, <2>5 DEF Standing, Decided
  <2>7. QED
    BY <2>1, <2>3, <2>6 DEF Standing
<1>2. ASSUME NEW t \in Times, o \in Present, VerdictStep(o, t)
      PROVE  Standing(o, lastNow)'
  <2> DEFINE j == rows[o].request.job
             group == JobRows(j)
  <2>1. /\ OnlyRow(o, t) /\ o \in group /\ group \subseteq Present
        /\ \A s \in Present \ {o} : rows'[s] = rows[s]
        /\ rows'[o].request = rows[o].request /\ JobRows(j)' = JobRows(j)
    <3>1. o \in group /\ group \subseteq Present
      BY <1>2 DEF JobRows
    <3>2. QED
      BY <1>0, <1>2, <3>1, OneRowFacts DEF OneRow
  <2>2. /\ rows'[o].state = rows[o].state /\ SameCharge(rows[o], rows'[o])
        /\ rows'[o].reservedAt = rows[o].reservedAt
    BY <1>2 DEF VerdictStep, SameReservation
  <2>3. /\ JobRows(rows[o].request.job)' = group
        /\ \A s \in group : /\ rows'[s].request = rows[s].request
                            /\ rows'[s].state = rows[s].state
                            /\ rows'[s].outcome = rows[s].outcome
                            /\ rows'[s].receipt = rows[s].receipt
                            /\ rows'[s].reservedAt = rows[s].reservedAt
                            /\ rows'[s].settledAt = rows[s].settledAt
    BY <2>1, <2>2 DEF SameCharge
  <2>4. Qualified(o, rows[o].resolution.outcome)'
    <3>1. Qualified(o, rows'[o].resolution.outcome)
      BY <1>2 DEF VerdictStep
    <3> DEFINE outcome == rows'[o].resolution.outcome
    <3> HIDE DEF outcome
    <3>2. Qualified(o, outcome)
      BY <3>1 DEF outcome
    <3>3. \A c : Qualified(o, c) => Qualified(o, c)'
      BY <1>2, <2>3, QualifiedSame
    <3>4. QED
      BY <3>1, <3>3
  <2>5. ChildrenOf(j)' = ChildrenOf(j)
    BY <2>3 DEF ChildrenOf
  <2>6. t <= lastNow' /\ \A s \in group : rows[s].reservedAt <= t /\ rows[s].settledAt <= t
    <3>1. t <= lastNow' /\ WindowHistoryValid(t)
      BY <2>1 DEF OnlyRow, HistoryValid
    <3>2. \A s \in group : DatesOrdered(rows[s], t) /\ Shape(rows[s])
      BY <1>0, <2>1, <3>1, WindowByRows DEF Shapes, Present
    <3>3. t \in Nat /\ NoTime <= t
      BY ClockAssumption DEF NoTime
    <3>4. QED
      BY <3>1, <3>2, <3>3 DEF DatesOrdered, Shape
  <2>7. rows'[o].resolvedAt = t /\ rows'[o].resolution.children = ChildrenOf(j)
    BY <1>2 DEF VerdictStep
  <2>8. \A s \in group \ {o} : ~Decided(s)'
    BY <1>2, <2>1 DEF VerdictStep, Decided
  <2>9. /\ rows'[o].committed <=> rows'[o].resolution.outcome = "COMMITTED"
        /\ rows'[o].committedAt = (IF rows'[o].committed THEN rows'[o].resolvedAt ELSE NoTime)
    <3>1. ~rows[o].committed /\ rows[o].committedAt = NoTime
      BY <1>0, <1>2, <2>1 DEF VerdictStep, Shapes, Shape, Present
    <3>2. CASE rows'[o].resolution.outcome = "COMMITTED"
      BY <1>2, <3>2 DEF VerdictStep, CommitsIf
    <3>3. CASE rows'[o].resolution.outcome # "COMMITTED"
      BY <1>2, <3>1, <3>3 DEF VerdictStep, CommitsIf, SameCommit
    <3>4. QED
      BY <3>2, <3>3
  <2>10. QED
    BY <1>0, <2>1, <2>3, <2>4, <2>5, <2>6, <2>7, <2>8, <2>9 DEF Standing
<1>3. CASE o \in Present /\ rows[o].resolution.outcome # "NONE"
  BY <1>1, <1>3
<1>4. CASE ~(o \in Present /\ rows[o].resolution.outcome # "NONE")
  <2>1. ASSUME NEW r \in Requests, NEW t \in Times, NEW f \in Facts, Reserve(r, t, f)
        PROVE  FALSE
    <3>1. /\ rows'[r.op] = NewRow(r, t, f)
          /\ \A s \in OpNames \ {r.op} : rows'[s] = rows[s]
          /\ Present' = Present \cup {r.op}
      BY <1>0, <2>1, ReserveAdds
    <3>2. rows'[r.op].resolution.outcome = "NONE"
      BY <3>1, NewRowFields DEF NoResolution
    <3>3. QED
      BY <1>4, <3>1, <3>2 DEF Present
  <2>2. ASSUME NEW s \in Present, NEW t \in Times, OneRow(s, t)
        PROVE  Standing(o, lastNow)'
    <3>1. Present' = Present /\ \A x \in Present \ {s} : rows'[x] = rows[x]
      BY <1>0, <2>2, OneRowFacts
    <3>2. o = s /\ ~(LifecycleStep(s, t) \/ ChargeStep(s, t))
      BY <1>4, <3>1 DEF LifecycleStep, ChargeStep, SameVerdict
    <3>3. QED
      BY <1>2, <2>2, <3>2 DEF OneRow
  <2>3. ~NoRow
    BY <1>4 DEF NoRow, Present
  <2>4. QED
    BY <1>0, <2>1, <2>2, <2>3, StepKinds DEF OneRow
<1>5. QED
  BY <1>3, <1>4

-----------------------------------------------------------------------------
(* All of it together is inductive.                                        *)

LEMMA SoundAtFirst == Init => Sound
<1> SUFFICES ASSUME Init PROVE Sound
  OBVIOUS
<1>1. Present = {} /\ \A o \in OpNames : rows[o] = EmptyRow
  BY EmptyRowType DEF Init, Present
<1>2. TypeOK
  BY <1>1, EmptyRowType, ClockAssumption DEF Init, TypeOK
<1>3. Shapes
  BY <1>1, EmptyShape DEF Shapes
<1>4. JobsAreCoherent /\ HistoryAccepted
  BY <1>1 DEF JobsAreCoherent, HistoryAccepted, HistoryValid, ResultHistoryValid,
              WindowHistoryValid
<1>5. ReceiptsAreSound
  BY <1>1 DEF ReceiptsAreSound, ReceiptsAreNotShared, CommittedResultIsComplete
<1>6. QED
  BY <1>2, <1>3, <1>4, <1>5 DEF Sound

LEMMA SoundStep ==
  ASSUME Sound, TypeOK', [Next]_vars
  PROVE  Sound'
<1>0. TypeOK /\ Shapes /\ JobsAreCoherent
  BY DEF Sound
<1>1. Shapes' /\ JobsAreCoherent'
  BY <1>0, ShapesStep, CoherenceStep
<1>2. ReceiptsAreNotShared' /\ CommittedResultIsComplete'
  BY ReceiptsStep, CompleteStep
<1>3. ResultHistoryValid(lastNow)'
  <2>1. \A o \in Present' : rows'[o].resolution.outcome # "NONE" => Standing(o, lastNow)'
    BY <1>1, StandingStep
  <2>2. (TypeOK /\ Shapes /\ ReceiptsAreNotShared
          /\ (\A o \in Present : rows[o].resolution.outcome # "NONE" => Standing(o, lastNow))
         => ResultHistoryValid(lastNow))'
    BY ResultByRows, PTL
  <2>3. QED
    BY <1>1, <1>2, <2>1, <2>2
<1>4. WindowHistoryValid(lastNow)'
  BY WindowStep
<1>5. QED
  BY <1>1, <1>2, <1>3, <1>4 DEF Sound, ReceiptsAreSound, HistoryAccepted, HistoryValid

LEMMA Soundness == Spec => []Sound
<1>1. Sound /\ TypeOK' /\ [Next]_vars => Sound'
  BY SoundStep
<1>2. QED
  BY <1>1, SoundAtFirst, TypeCorrect, PTL DEF Spec

\* Whatever was reserved, sent, lost, settled or resolved, the snapshot a call
\* leaves passes the validators that the next call runs before anything else.
THEOREM HistorySafe == Spec => []HistoryAccepted
<1>1. Sound => HistoryAccepted
  BY DEF Sound
<1>2. QED
  BY <1>1, Soundness, PTL

\* A receipt is evidence for one thing, and a committed result is the only one
\* of its job and covers every child the job declared.
THEOREM ReceiptsSafe == Spec => []ReceiptsAreSound
<1>1. Sound => ReceiptsAreSound
  BY DEF Sound
<1>2. QED
  BY <1>1, Soundness, PTL

\* No call adds a row to a job that has its result, nor changes one.
THEOREM ResultStays == Spec => ResultIsFinal
<1> DEFINE Stays ==
      \A o \in Present :
        rows[o].committed \/ rows[o].resolution.outcome # "NONE" =>
          /\ JobRows(rows[o].request.job)' = JobRows(rows[o].request.job)
          /\ \A s \in JobRows(rows[o].request.job) : rows'[s] = rows[s]
<1>1. Sound /\ [Next]_vars => Stays
  BY DecidedJobIsStill DEF Decided
<1>2. QED
  BY <1>1, Soundness, PTL DEF Spec, ResultIsFinal

-----------------------------------------------------------------------------
(* Attempts: a step that is not a reservation counts nothing anew.         *)

LEMMA RowsAreOrdered ==
  ASSUME Sound, NEW o \in Present
  PROVE  /\ rows[o] \in Row /\ Shape(rows[o]) /\ DatesOrdered(rows[o], lastNow)
         /\ rows[o].state # Absent /\ o \in OpNames
  BY WindowByRows DEF Sound, TypeOK, Present, Shapes, HistoryAccepted, HistoryValid

\* A date inside the rolling day, or on the calendar day, of the later of two
\* readings is so for the earlier one, when the date lies before both.
LEMMA EarlierStillCounts ==
  ASSUME NEW zone \in Zones, NEW at \in Times, NEW t \in Times, NEW u \in Times,
         at <= t, t <= u, Recent(at, u, DAY) \/ SameDay(zone, at, u)
  PROVE  Recent(at, t, DAY) \/ SameDay(zone, at, t)
<1>1. at \in Nat /\ t \in Nat /\ u \in Nat /\ DAY \in Nat
  BY ClockAssumption
<1>2. /\ DayOf[zone][at] \in Nat /\ DayOf[zone][t] \in Nat /\ DayOf[zone][u] \in Nat
      /\ DayOf[zone][at] <= DayOf[zone][t] /\ DayOf[zone][t] <= DayOf[zone][u]
  BY ClockAssumption
<1>3. CASE Recent(at, u, DAY)
  BY <1>1, <1>3 DEF Recent
<1>4. CASE SameDay(zone, at, u)
  BY <1>2, <1>4 DEF SameDay
<1>5. QED
  BY <1>3, <1>4

\* A settled row was dispatched at a reading of the clock.
LEMMA SettledWasDispatched ==
  ASSUME NEW row \in Row, Shape(row), NEW t, DatesOrdered(row, t), row.state = "SETTLED"
  PROVE  /\ row.dispatchedAt \in Times /\ row.dispatchedAt # NoTime
         /\ row.dispatchedZone \in Zones
<1>1. row.dispatchedAt \in MaybeTime /\ row.dispatchedZone \in Zones
  BY DEF Row
<1>2. row.reservedAt \in Nat /\ row.reservedAt <= row.dispatchedAt
  BY ClockAssumption DEF Shape, DatesOrdered, Absent
<1>3. row.dispatchedAt # NoTime
  BY <1>2 DEF NoTime
<1>4. QED
  BY <1>1, <1>3 DEF MaybeTime

LEMMA AttemptStays ==
  ASSUME Sound, [Next]_vars, NEW p, NEW type, NEW t \in Times,
         lastNow <= t, t <= lastNow', lastNow' \in Times,
         NEW o \in Present, o \in Attempts(p, type, lastNow)'
  PROVE  o \in Attempts(p, type, t)
<1> DEFINE old == rows[o]
           new == rows'[o]
<1>0. old \in Row /\ Shape(old) /\ DatesOrdered(old, lastNow) /\ old.state # Absent
  BY RowsAreOrdered
<1>1. /\ new.state # "CANCELLED_BEFORE_DISPATCH"
      /\ new.request.principal = p /\ new.request.type = type
      /\ \/ new.state \notin Terminal
         \/ LET at == IF new.dispatchedAt = NoTime THEN new.reservedAt ELSE new.dispatchedAt
                zone == IF new.dispatchedAt = NoTime THEN new.reservedZone
                                                     ELSE new.dispatchedZone
            IN  Recent(at, lastNow', DAY) \/ SameDay(zone, at, lastNow')
  BY DEF Attempts, FeatureRows, UserRows, Active, Unsettled, ChargedAt, ChargedZone, SameDay
<1>2. new = old \/ Continues(old, new)
  BY RowsContinue DEF Sound
<1>3. old.request.principal = p /\ old.request.type = type
  BY <1>1, <1>2 DEF Continues
<1>4. CASE old.state \notin Terminal
  <2>1. old.state # "CANCELLED_BEFORE_DISPATCH"
    BY <1>4 DEF Terminal
  <2>2. QED
    BY <1>0, <1>3, <1>4, <2>1 DEF Attempts, FeatureRows, UserRows, Active, Unsettled
<1>5. CASE old.state \in Terminal
  <2>1. /\ new.state = old.state /\ old.state = "SETTLED"
        /\ new.dispatchedAt = old.dispatchedAt /\ new.dispatchedZone = old.dispatchedZone
    BY <1>1, <1>2, <1>5 DEF Continues, Terminal
  <2>2. old.dispatchedAt \in Times /\ old.dispatchedAt # NoTime /\ old.dispatchedZone \in Zones
    BY <1>0, <2>1, SettledWasDispatched
  <2>3. old.dispatchedAt <= t
    <3>1. old.dispatchedAt <= lastNow
      BY <1>0, <2>1 DEF DatesOrdered
    <3>2. old.dispatchedAt \in Nat /\ lastNow \in Nat /\ t \in Nat
      BY <2>2, ClockAssumption DEF Sound, TypeOK
    <3>3. QED
      BY <3>1, <3>2
  <2>4. \/ Recent(old.dispatchedAt, lastNow', DAY)
        \/ SameDay(old.dispatchedZone, old.dispatchedAt, lastNow')
    BY <1>1, <2>1, <2>2, <1>5
  <2>5. \/ Recent(old.dispatchedAt, t, DAY)
        \/ SameDay(old.dispatchedZone, old.dispatchedAt, t)
    BY <2>2, <2>3, <2>4, EarlierStillCounts
  <2>6. QED
    BY <1>0, <1>3, <2>1, <2>2, <2>5
       DEF Attempts, FeatureRows, UserRows, Active, ChargedAt, ChargedZone
<1>6. QED
  BY <1>4, <1>5

LEMMA AttemptsAreFinite ==
  ASSUME NEW p, NEW type, NEW t
  PROVE  /\ IsFiniteSet(Attempts(p, type, t)) /\ Cardinality(Attempts(p, type, t)) \in Nat
         /\ IsFiniteSet(Attempts(p, type, lastNow)')
         /\ Cardinality(Attempts(p, type, lastNow)') \in Nat
<1>1. Attempts(p, type, t) \subseteq OpNames /\ Attempts(p, type, lastNow)' \subseteq OpNames
  BY DEF Attempts, FeatureRows, UserRows, Active, Present
<1>2. QED
  BY <1>1, OpsAreFinite, FS_Subset, FS_CardinalityType

\* One element more is at most one more.
LEMMA OneMore ==
  ASSUME NEW S, NEW T, IsFiniteSet(T), NEW x, S \subseteq T \cup {x}
  PROVE  IsFiniteSet(S) /\ Cardinality(S) \in Nat /\ Cardinality(S) <= Cardinality(T) + 1
<1>1. /\ IsFiniteSet(T \cup {x}) /\ Cardinality(T) \in Nat
      /\ Cardinality(T \cup {x}) <= Cardinality(T) + 1
  BY FS_AddElement, FS_CardinalityType
<1>2. /\ IsFiniteSet(S) /\ Cardinality(S) <= Cardinality(T \cup {x})
      /\ Cardinality(S) \in Nat /\ Cardinality(T \cup {x}) \in Nat
  BY <1>1, FS_Subset, FS_CardinalityType
<1>3. QED
  BY <1>1, <1>2

\* A count that some tier's cap bounds is bounded again after a step that adds
\* nothing to it, and after a reservation that its own tier's cap admits.
LEMMA CountKept ==
  ASSUME NEW caps \in [Tiers -> Nat], NEW S, NEW T, IsFiniteSet(S),
         \E tier \in Tiers : Cardinality(S) <= caps[tier],
         T \subseteq S \/ \E tier \in Tiers : Cardinality(T) <= caps[tier]
  PROVE  \E tier \in Tiers : Cardinality(T) <= caps[tier]
<1>1. CASE T \subseteq S
  <2>1. PICK tier \in Tiers : Cardinality(S) <= caps[tier]
    OBVIOUS
  <2>2. /\ Cardinality(T) <= Cardinality(S)
        /\ Cardinality(T) \in Nat /\ Cardinality(S) \in Nat /\ caps[tier] \in Nat
    BY <1>1, FS_Subset, FS_CardinalityType
  <2>3. QED
    BY <2>1, <2>2
<1>2. QED
  BY <1>1

LEMMA AttemptsStep ==
  ASSUME Sound, TypeOK', [Next]_vars, AttemptsWithinQuota
  PROVE  AttemptsWithinQuota'
<1>0. TypeOK /\ lastNow \in Times /\ lastNow' \in Times /\ lastNow \in Nat /\ lastNow' \in Nat
      /\ \A t \in Times : t \in Nat
  BY ClockAssumption DEF Sound, TypeOK
<1> SUFFICES ASSUME NEW p \in Principals, NEW type \in Types
             PROVE  \E tier \in Tiers :
                      Cardinality(Attempts(p, type, lastNow)') <= AttemptCap[type][tier]
  BY DEF AttemptsWithinQuota
<1> DEFINE before == Attempts(p, type, lastNow)
           after == Attempts(p, type, lastNow)'
<1>1. AttemptCap[type] \in [Tiers -> Nat]
  BY CapAssumption
<1>2. \E tier \in Tiers : Cardinality(before) <= AttemptCap[type][tier]
  BY DEF AttemptsWithinQuota
<1>3. after \subseteq Present' /\ IsFiniteSet(before)
  <2>1. after \subseteq Present'
    BY DEF Attempts, FeatureRows, UserRows, Active
  <2>2. QED
    BY <2>1, AttemptsAreFinite
<1>4. ASSUME NEW r \in Requests, NEW t \in Times, NEW f \in Facts, Reserve(r, t, f)
      PROVE  after \subseteq before
               \/ \E tier \in Tiers : Cardinality(after) <= AttemptCap[type][tier]
  <2>1. /\ Present' = Present \cup {r.op} /\ rows'[r.op].request = r
        /\ lastNow <= t /\ t <= lastNow' /\ lastNow <= lastNow' /\ WithinQuotas(r, t, f)
    <3>1. /\ Present' = Present \cup {r.op} /\ rows'[r.op] = NewRow(r, t, f)
          /\ NewRow(r, t, f).request = r
      BY <1>0, <1>4, ReserveAdds, NewRowType
    <3>2. Transaction(t) /\ WithinQuotas(r, t, f)
      BY <1>4 DEF Reserve, Admits
    <3>3. QED
      BY <1>0, <3>1, <3>2, ClockAdvances
  <2>2. r.op \in after => r.principal = p /\ r.type = type
    BY <2>1 DEF Attempts, FeatureRows, UserRows
  <2>3. CASE r.principal = p /\ r.type = type
    <3>1. after \subseteq Attempts(p, type, t) \cup {r.op}
      BY <1>0, <1>3, <2>1, AttemptStays
    <3>2. Cardinality(after) <= Cardinality(Attempts(p, type, t)) + 1
          /\ Cardinality(after) \in Nat /\ Cardinality(Attempts(p, type, t)) \in Nat
      BY <3>1, AttemptsAreFinite, OneMore
    <3>3. f.tier \in Tiers /\ AttemptCap[type][f.tier] \in Nat
      BY <1>1 DEF Facts
    <3>4. Cardinality(Attempts(p, type, t)) + 1 <= AttemptCap[type][f.tier]
      BY <2>1, <2>3 DEF WithinQuotas
    <3>5. QED
      BY <3>2, <3>3, <3>4
  <2>4. CASE ~(r.principal = p /\ r.type = type)
    <3>1. \A o \in after : o \in before
      BY <1>0, <1>3, <2>1, <2>2, <2>4, AttemptStays
    <3>2. QED
      BY <3>1
  <2>5. QED
    BY <2>3, <2>4
<1>5. CASE ~ \E r \in Requests, t \in Times, f \in Facts : Reserve(r, t, f)
  <2>1. Advances
    BY <1>0, <1>5, StepsAdvance
  <2>2. Present' \subseteq Present /\ lastNow <= lastNow'
    BY <2>1 DEF Advances, Present
  <2>3. \A o \in after : o \in before
    BY <1>0, <1>3, <2>2, AttemptStays
  <2>4. after \subseteq before
    BY <2>3
  <2>5. QED
    BY <1>1, <1>2, <1>3, <2>4, CountKept
<1>6. QED
  BY <1>1, <1>2, <1>3, <1>4, <1>5, CountKept

-----------------------------------------------------------------------------
(* Results: a slot is only taken by a reservation.                         *)

\* A job whose rows a step leaves alone counts afterwards only if it did
\* before, at any reading since the last stamp.
LEMMA StillCounts ==
  ASSUME Sound, NEW j, JobRows(j)' = JobRows(j), \A s \in JobRows(j) : rows'[s] = rows[s],
         NEW t \in Times, lastNow <= t, t <= lastNow', lastNow' \in Times,
         CountsAsResult(j, lastNow)'
  PROVE  CountsAsResult(j, t)
<1>1. HoldsSlot(j)
  BY DEF CountsAsResult, HoldsSlot, Unsettled
<1>2. ASSUME NEW o \in JobRows(j), rows[o].committed
      PROVE  \/ Recent(rows[o].committedAt, t, DAY)
             \/ SameDay(rows[o].committedZone, rows[o].committedAt, t)
  <2>1. o \in Present
    BY DEF JobRows
  <2>2. rows[o] \in Row /\ Shape(rows[o]) /\ DatesOrdered(rows[o], lastNow)
        /\ rows[o].state # Absent
    BY <2>1, RowsAreOrdered
  <2>3. rows[o].state = "SETTLED"
    BY <1>2, <2>1 DEF Sound, ReceiptsAreSound, CommittedResultIsComplete, JobRows
  <2>4. /\ rows[o].committedAt \in Times /\ rows[o].committedZone \in Zones
        /\ rows[o].committedAt <= lastNow
    <3>1. rows[o].committedAt \in MaybeTime /\ rows[o].committedZone \in Zones
      BY <2>2 DEF Row
    <3>2. rows[o].dispatchedAt \in Nat
      BY <2>2, <2>3, SettledWasDispatched, ClockAssumption
    <3>3. rows[o].dispatchedAt <= rows[o].committedAt /\ rows[o].committedAt <= lastNow
      BY <1>2, <2>2 DEF DatesOrdered
    <3>4. rows[o].committedAt # NoTime
      BY <3>2, <3>3 DEF NoTime
    <3>5. QED
      BY <3>1, <3>3, <3>4 DEF MaybeTime
  <2>5. rows[o].committedAt <= t
    <3>1. rows[o].committedAt \in Nat /\ lastNow \in Nat /\ t \in Nat
      BY <2>4, ClockAssumption DEF Sound, TypeOK
    <3>2. QED
      BY <2>4, <3>1
  <2>6. \/ Recent(rows[o].committedAt, lastNow', DAY)
        \/ SameDay(rows[o].committedZone, rows[o].committedAt, lastNow')
    BY <1>2 DEF CountsAsResult, SameDay
  <2>7. QED
    BY <2>4, <2>5, <2>6, EarlierStillCounts
<1>3. QED
  BY <1>1, <1>2 DEF CountsAsResult

\* A change of a row never gives its job a slot it did not hold.
LEMMA SlotWasHeld ==
  ASSUME Sound, NEW o \in Present, NEW u \in Times, OneRow(o, u),
         HoldsSlot(rows[o].request.job)', NEW t
  PROVE  CountsAsResult(rows[o].request.job, t)
<1> DEFINE j == rows[o].request.job
           group == JobRows(j)
<1>0. TypeOK /\ Shapes
  BY DEF Sound
<1>1. o \in group /\ \A s \in group : s \in Present /\ ~Decided(s)
  BY ChangedIsOpen DEF JobRows
<1>2. HoldsSlot(j)
  <2>1. CASE LifecycleStep(o, u) \/ ChargeStep(o, u)
    <3>1. Unsettled(o)
      BY <2>1 DEF LifecycleStep, ChargeStep, Unsettled, Outstanding, Terminal
    <3>2. QED
      BY <1>1, <3>1 DEF HoldsSlot, Decided
  <2>2. CASE VerdictStep(o, u)
    <3>1. rows'[o].resolution.outcome = "COMMITTED"
      <4>1. rows'[o].resolution.outcome \in {"COMMITTED", "FAILED"}
        BY <2>2, CapAssumption DEF VerdictStep
      <4>2. /\ JobRows(j)' = group /\ rows'[o].request.job = j
            /\ \A s \in group \ {o} : rows'[s].resolution.outcome = "NONE"
        <5>1. /\ \A s \in Present \ {o} : rows'[s] = rows[s]
              /\ \A x : JobRows(x)' = JobRows(x)
              /\ rows'[o].request = rows[o].request
          BY <1>0, OneRowFacts
        <5>2. QED
          BY <1>1, <5>1 DEF Decided
      <4>3. \E s \in group : rows'[s].resolution.outcome = "COMMITTED"
        <5>1. JobRows(rows[o].request.job)' = group
          BY <4>2
        <5>2. o \in group /\ rows'[o].resolution.outcome # "NONE"
          BY <1>1, <4>1
        <5>3. QED
          BY <5>1, <5>2 DEF HoldsSlot
      <4>4. QED
        BY <4>2, <4>3
    <3>2. \A s \in group : rows[s].outcome = "VALIDATED"
      BY <2>2, <3>1 DEF VerdictStep, Qualified
    <3>3. \A s \in group : rows[s].state = "SETTLED"
      BY <1>0, <1>1, <3>2 DEF Shapes, Shape, Present
    <3>4. QED
      BY <1>1, <3>2, <3>3 DEF HoldsSlot, Decided
  <2>3. QED
    BY <2>1, <2>2 DEF OneRow
<1>3. \A s \in group : ~rows[s].committed
  BY <1>1 DEF Decided
<1>4. QED
  BY <1>2, <1>3 DEF CountsAsResult

\* A job counted after a step that is no reservation for it was counted before.
LEMMA CountedBefore ==
  ASSUME Sound, TypeOK', [Next]_vars, NEW p, NEW type, NEW t \in Times,
         lastNow <= t, t <= lastNow', lastNow' \in Times,
         NEW j \in Results(p, type, lastNow)',
         ~ \E r \in Requests, u \in Times, f \in Facts : Reserve(r, u, f) /\ r.job = j
  PROVE  j \in Results(p, type, t)
<1>0. TypeOK
  BY DEF Sound
<1>1. /\ j \in JobsOf(p, type) /\ CountsAsResult(j, lastNow)' /\ HoldsSlot(j)'
      /\ \E s \in JobRows(j)' : /\ rows'[s].request.principal = p
                                /\ rows'[s].request.type = type
  BY DEF Results, JobsOf, CountsAsResult
<1>2. ASSUME JobRows(j)' = JobRows(j), \A s \in JobRows(j) : rows'[s] = rows[s]
      PROVE  j \in Results(p, type, t)
  <2>1. CountsAsResult(j, t)
    BY <1>1, <1>2, StillCounts
  <2>2. \E s \in JobRows(j) : /\ rows[s].request.principal = p
                              /\ rows[s].request.type = type
    BY <1>1, <1>2
  <2>3. QED
    BY <1>1, <2>1, <2>2 DEF Results
<1>3. ASSUME NEW r \in Requests, NEW u \in Times, NEW f \in Facts, Reserve(r, u, f)
      PROVE  j \in Results(p, type, t)
  <2>1. /\ rows'[r.op].request = r /\ r.job # j /\ r.op \notin Present
        /\ \A s \in OpNames \ {r.op} : rows'[s] = rows[s]
        /\ Present' = Present \cup {r.op}
    BY <1>0, <1>3, ReserveAdds, NewRowType
  <2>2. \A s \in Present : rows'[s] = rows[s]
    BY <2>1 DEF Present
  <2>3. JobRows(j)' = JobRows(j)
    BY <2>1, <2>2 DEF JobRows
  <2>4. \A s \in JobRows(j) : rows'[s] = rows[s]
    BY <2>2 DEF JobRows
  <2>5. QED
    BY <1>2, <2>3, <2>4
<1>4. ASSUME NEW o \in Present, NEW u \in Times, OneRow(o, u)
      PROVE  j \in Results(p, type, t)
  <2>1. /\ \A s \in Present \ {o} : rows'[s] = rows[s]
        /\ \A x : JobRows(x)' = JobRows(x)
        /\ \A s \in OpNames : rows'[s].request = rows[s].request
    BY <1>0, <1>4, OneRowFacts
  <2>2. \A s \in JobRows(j) : s \in Present /\ s \in OpNames /\ rows[s].request.job = j
    BY DEF JobRows, Present
  <2>3. CASE rows[o].request.job # j
    <3>1. \A s \in JobRows(j) : rows'[s] = rows[s]
      BY <2>1, <2>2, <2>3
    <3>2. QED
      BY <1>2, <2>1, <3>1
  <2>4. CASE rows[o].request.job = j
    <3>1. rows'[o].request.job = rows[o].request.job
      BY <2>1 DEF Present
    <3>2. HoldsSlot(rows[o].request.job)'
      BY <1>1, <2>4, <3>1 DEF HoldsSlot, Unsettled, JobRows
    <3>3. CountsAsResult(j, t)
      BY <1>4, <2>4, <3>2, SlotWasHeld
    <3>4. \E s \in JobRows(j) : /\ rows[s].request.principal = p
                                /\ rows[s].request.type = type
      BY <1>1, <2>1, <2>2
    <3>5. QED
      BY <1>1, <3>3, <3>4 DEF Results
  <2>5. QED
    BY <2>3, <2>4
<1>5. ASSUME NoRow
      PROVE  j \in Results(p, type, t)
  <2>1. JobRows(j)' = JobRows(j) /\ \A s \in JobRows(j) : rows'[s] = rows[s]
    BY <1>5 DEF NoRow, JobRows, Present
  <2>2. QED
    BY <1>2, <2>1
<1>6. QED
  BY <1>0, <1>3, <1>4, <1>5, StepKinds DEF OneRow

LEMMA ResultsAreFinite ==
  ASSUME NEW p, NEW type, NEW t
  PROVE  IsFiniteSet(Results(p, type, t)) /\ Cardinality(Results(p, type, t)) \in Nat
<1> DEFINE job == [r \in Requests |-> r.job]
<1>1. job \in Surjection(Requests, Jobs)
  BY DEF Jobs, Surjection
<1>2. IsFiniteSet(Jobs)
  BY <1>1, RequestAssumption, FS_Surjection
<1>3. Results(p, type, t) \subseteq Jobs
  BY DEF Results, JobsOf, Jobs
<1>4. QED
  BY <1>2, <1>3, FS_Subset, FS_CardinalityType

\* A job that holds its slot when a child is reserved is counted already.
LEMMA JoinedJobCounts ==
  ASSUME Sound, NEW r \in Requests, JoinsJob(r), HoldsSlot(r.job), NEW t
  PROVE  r.job \in Results(r.principal, r.type, t)
<1>1. \E o \in JobRows(r.job) : TRUE
  BY DEF HoldsSlot
<1>2. PICK o \in JobRows(r.job) : TRUE
  BY <1>1
<1>3. rows[o].request.principal = r.principal /\ rows[o].request.type = r.type
  BY <1>2 DEF JoinsJob, Binding
<1>4. \A s \in JobRows(r.job) : ~rows[s].committed
  BY DecidedIsFull DEF JobRows, Decided
<1>5. CountsAsResult(r.job, t)
  BY <1>4 DEF CountsAsResult
<1>6. r.job \in JobsOf(r.principal, r.type)
  BY DEF JobsOf
<1>7. QED
  BY <1>2, <1>3, <1>5, <1>6 DEF Results

LEMMA ResultsStep ==
  ASSUME Sound, TypeOK', [Next]_vars, ResultsWithinQuota
  PROVE  ResultsWithinQuota'
<1>0. TypeOK /\ lastNow \in Times /\ lastNow' \in Times /\ lastNow \in Nat /\ lastNow' \in Nat
      /\ \A t \in Times : t \in Nat
  BY ClockAssumption DEF Sound, TypeOK
<1> SUFFICES ASSUME NEW p \in Principals, NEW type \in Types
             PROVE  \E tier \in Tiers :
                      Cardinality(Results(p, type, lastNow)') <= ResultCap[type][tier]
  BY DEF ResultsWithinQuota
<1> DEFINE before == Results(p, type, lastNow)
           after == Results(p, type, lastNow)'
<1>1. ResultCap[type] \in [Tiers -> Nat]
  BY CapAssumption
<1>2. \E tier \in Tiers : Cardinality(before) <= ResultCap[type][tier]
  BY DEF ResultsWithinQuota
<1>3. IsFiniteSet(before)
  BY ResultsAreFinite
<1>4. ASSUME NEW r \in Requests, NEW t \in Times, NEW f \in Facts, Reserve(r, t, f)
      PROVE  after \subseteq before
               \/ \E tier \in Tiers : Cardinality(after) <= ResultCap[type][tier]
  <2>1. /\ Present' = Present \cup {r.op} /\ rows'[r.op].request = r
        /\ \A s \in OpNames \ {r.op} : rows'[s] = rows[s]
        /\ lastNow <= t /\ t <= lastNow' /\ lastNow <= lastNow'
        /\ WithinQuotas(r, t, f) /\ JoinsJob(r)
    <3>1. /\ Present' = Present \cup {r.op} /\ rows'[r.op] = NewRow(r, t, f)
          /\ NewRow(r, t, f).request = r
          /\ \A s \in OpNames \ {r.op} : rows'[s] = rows[s]
      BY <1>0, <1>4, ReserveAdds, NewRowType
    <3>2. Transaction(t) /\ WithinQuotas(r, t, f) /\ JoinsJob(r)
      BY <1>4 DEF Reserve, Admits
    <3>3. QED
      BY <1>0, <3>1, <3>2, ClockAdvances
  <2>2. \A q \in Requests : \A u \in Times, g \in Facts : Reserve(q, u, g) => q.op = r.op /\ q.job = r.job
    <3> SUFFICES ASSUME NEW q \in Requests, NEW u \in Times, NEW g \in Facts, Reserve(q, u, g)
                 PROVE  q.op = r.op /\ q.job = r.job
      OBVIOUS
    <3>1. /\ Present' = Present \cup {q.op} /\ rows'[q.op].request = q /\ q.op \notin Present
      BY <1>0, ReserveAdds, NewRowType
    <3>2. r.op \notin Present
      BY <1>0, <1>4, ReserveAdds
    <3>3. QED
      BY <2>1, <3>1, <3>2
  <2>3. \A j \in after : j # r.job => j \in before /\ j \in Results(p, type, t)
    BY <1>0, <1>4, <2>1, <2>2, CountedBefore
  <2>4. CASE r.principal = p /\ r.type = type
    <3>1. f.tier \in Tiers /\ ResultCap[type][f.tier] \in Nat
      BY <1>1 DEF Facts
    <3>2. CASE HoldsSlot(r.job)
      <4>1. r.job \in Results(p, type, t)
        BY <2>1, <2>4, <3>2, JoinedJobCounts
      <4>2. after \subseteq Results(p, type, t)
        BY <2>3, <4>1
      <4>3. Cardinality(after) <= Cardinality(Results(p, type, t))
            /\ Cardinality(after) \in Nat /\ Cardinality(Results(p, type, t)) \in Nat
        BY <4>2, ResultsAreFinite, FS_Subset, FS_CardinalityType
      <4>4. Cardinality(Results(p, type, t)) + 0 <= ResultCap[type][f.tier]
        BY <2>1, <2>4, <3>2 DEF WithinQuotas
      <4>5. QED
        BY <3>1, <4>3, <4>4
    <3>3. CASE ~HoldsSlot(r.job)
      <4>1. after \subseteq Results(p, type, t) \cup {r.job}
        BY <2>3
      <4>2. Cardinality(after) <= Cardinality(Results(p, type, t)) + 1
            /\ Cardinality(after) \in Nat /\ Cardinality(Results(p, type, t)) \in Nat
        BY <4>1, ResultsAreFinite, OneMore
      <4>3. Cardinality(Results(p, type, t)) + 1 <= ResultCap[type][f.tier]
        BY <2>1, <2>4, <3>3 DEF WithinQuotas
      <4>4. QED
        BY <3>1, <4>2, <4>3
    <3>4. QED
      BY <3>2, <3>3
  <2>5. CASE ~(r.principal = p /\ r.type = type)
    <3>1. r.job \notin after
      <4> SUFFICES ASSUME r.job \in after
                   PROVE  FALSE
        OBVIOUS
      <4>1. PICK s \in JobRows(r.job)' : /\ rows'[s].request.principal = p
                                         /\ rows'[s].request.type = type
        BY DEF Results
      <4>2. s # r.op
        BY <2>1, <2>5, <4>1
      <4>3. s \in JobRows(r.job) /\ rows[s].request = rows'[s].request
        BY <2>1, <4>1, <4>2 DEF JobRows, Present
      <4>4. Binding(rows[s].request) = Binding(r)
        BY <2>1, <4>3 DEF JoinsJob
      <4>5. QED
        BY <2>5, <4>1, <4>3, <4>4 DEF Binding
    <3>2. QED
      BY <2>3, <3>1
  <2>6. QED
    BY <2>4, <2>5
<1>5. CASE ~ \E r \in Requests, t \in Times, f \in Facts : Reserve(r, t, f)
  <2>1. lastNow <= lastNow'
    BY <1>0, <1>5, StepsAdvance DEF Advances
  <2>2. \A j \in after : j \in before
    BY <1>0, <1>5, <2>1, CountedBefore
  <2>3. after \subseteq before
    BY <2>2
  <2>4. QED
    BY <1>1, <1>2, <1>3, <2>3, CountKept
<1>6. QED
  BY <1>1, <1>2, <1>3, <1>4, <1>5, CountKept

-----------------------------------------------------------------------------
(* At most one charge of a job is open.                                    *)

LEMMA OneOpenStep ==
  ASSUME Sound, [Next]_vars, OneOpenAttemptPerJob
  PROVE  OneOpenAttemptPerJob'
<1>0. TypeOK
  BY DEF Sound
<1>1. ASSUME NEW r \in Requests, NEW t \in Times, NEW f \in Facts, Reserve(r, t, f)
      PROVE  OneOpenAttemptPerJob'
  <2>1. /\ rows'[r.op].state = "RESERVED"
        /\ \A s \in OpNames \ {r.op} : rows'[s] = rows[s]
        /\ Present' = Present \cup {r.op}
    BY <1>0, <1>1, ReserveAdds, NewRowType
  <2>2. \A s \in Present' : rows'[s].state \in Outstanding => s \in Present /\ rows'[s] = rows[s]
    BY <2>1 DEF Outstanding, Present
  <2>3. QED
    BY <2>2 DEF OneOpenAttemptPerJob
<1>2. ASSUME NEW o \in Present, NEW t \in Times, OneRow(o, t)
      PROVE  OneOpenAttemptPerJob'
  <2>1. /\ Present' = Present
        /\ \A s \in Present \ {o} : rows'[s] = rows[s]
        /\ rows'[o].request = rows[o].request
    BY <1>0, <1>2, OneRowFacts
  <2>2. rows'[o].state \in Outstanding =>
          \/ rows[o].state \in Outstanding
          \/ \A s \in JobRows(rows[o].request.job) \ {o} : rows[s].state \notin Outstanding
    BY <1>2 DEF OneRow, LifecycleStep, ChargeStep, VerdictStep, Outstanding
  <2>3. ASSUME NEW x \in Present, NEW y \in Present,
               rows'[x].request.job = rows'[y].request.job,
               rows'[x].state \in Outstanding, rows'[y].state \in Outstanding
        PROVE  x = y
    BY <2>1, <2>2, <2>3 DEF OneOpenAttemptPerJob, JobRows
  <2>4. QED
    BY <2>1, <2>3 DEF OneOpenAttemptPerJob
<1>3. ASSUME NoRow
      PROVE  OneOpenAttemptPerJob'
  BY <1>3 DEF NoRow, OneOpenAttemptPerJob, Present
<1>4. QED
  BY <1>0, <1>1, <1>2, <1>3, StepKinds DEF OneRow

LEMMA QuotasAtFirst == Init => QuotasHold
<1> SUFFICES ASSUME Init PROVE QuotasHold
  OBVIOUS
<1>1. Present = {}
  BY EmptyRowType DEF Init, Present
<1>2. \A p, type : Attempts(p, type, lastNow) = {} /\ Results(p, type, lastNow) = {}
  BY <1>1 DEF Attempts, FeatureRows, UserRows, Active, Results, JobRows
<1>3. Cardinality({}) = 0
  BY FS_EmptySet
<1>4. \A type \in Types : \E tier \in Tiers : 0 <= AttemptCap[type][tier]
  BY CapAssumption
<1>5. \A type \in Types : \E tier \in Tiers : 0 <= ResultCap[type][tier]
  BY CapAssumption
<1>6. QED
  BY <1>1, <1>2, <1>3, <1>4, <1>5
     DEF QuotasHold, AttemptsWithinQuota, ResultsWithinQuota, OneOpenAttemptPerJob,
         JobsAreCoherent

\* Whatever the history and the changes of tier and zone, the attempts and the
\* results a principal has in the rolling day and on their own calendar days
\* stay within the caps, no job has two charges open, and the children of a job
\* agree on whose it is and of what type and size.
THEOREM QuotasSafe == Spec => []QuotasHold
<1>1. Sound /\ TypeOK' /\ [Next]_vars /\ QuotasHold => QuotasHold'
  BY AttemptsStep, ResultsStep, OneOpenStep, CoherenceStep DEF QuotasHold, Sound
<1>2. QED
  BY <1>1, QuotasAtFirst, Soundness, TypeCorrect, PTL DEF Spec

-----------------------------------------------------------------------------
(* Maintenance cycles are spaced.                                          *)

\* A step that is no reservation leaves the cycles and their dates alone.
LEMMA CyclesSame ==
  ASSUME TypeOK, Present' = Present,
         \A s \in Present : /\ rows'[s].request = rows[s].request
                            /\ rows'[s].reservedAt = rows[s].reservedAt
                            /\ rows'[s].nextEligibilityAt = rows[s].nextEligibilityAt
                            /\ rows'[s].opens = rows[s].opens,
         MaintenanceCyclesAreSpaced
  PROVE  MaintenanceCyclesAreSpaced'
<1>1. ASSUME NEW p
      PROVE  CycleStarts(p)' = CycleStarts(p)
  BY DEF CycleStarts
<1>2. \A p : CycleStarts(p) \subseteq Present
  BY DEF CycleStarts
<1>3. QED
  BY <1>1, <1>2 DEF MaintenanceCyclesAreSpaced

\* Only the first row of a job opens a cycle, and it had to wait out the others.
LEMMA CyclesStep ==
  ASSUME Sound, [Next]_vars, MaintenanceCyclesAreSpaced
  PROVE  MaintenanceCyclesAreSpaced'
<1>0. TypeOK
  BY DEF Sound
<1>1. ASSUME NEW r \in Requests, NEW t \in Times, NEW f \in Facts, Reserve(r, t, f)
      PROVE  MaintenanceCyclesAreSpaced'
  <2> DEFINE n == r.op
  <2>1. /\ rows'[n].request = r /\ rows'[n].reservedAt = t
        /\ rows'[n].nextEligibilityAt > t /\ rows'[n].nextEligibilityAt \in Int
        /\ \A s \in OpNames \ {n} : rows'[s] = rows[s]
        /\ Present' = Present \cup {n} /\ n \notin Present
        /\ t \in Int /\ lastNow <= t /\ lastNow \in Int
        /\ CadenceOpen(r, t, f) /\ f.tier \in Tiers
        /\ rows'[n].opens => r.type = "AI_MAINTENANCE" /\ JobRows(r.job) = {}
    <3>1. /\ rows'[n] = NewRow(r, t, f)
          /\ \A s \in OpNames \ {n} : rows'[s] = rows[s]
          /\ Present' = Present \cup {n} /\ n \notin Present
      BY <1>0, <1>1, ReserveAdds
    <3>2. /\ NewRow(r, t, f).request = r /\ NewRow(r, t, f).reservedAt = t
          /\ NewRow(r, t, f) \in Row
          /\ NewRow(r, t, f).opens => r.type = "AI_MAINTENANCE" /\ JobRows(r.job) = {}
      BY NewRowFields, NewRowType
    <3>3. NewRow(r, t, f).nextEligibilityAt > t /\ NewRow(r, t, f).nextEligibilityAt \in Int
      BY <3>2, NewRowOrdered, RowDates DEF DatesOrdered
    <3>4. Transaction(t) /\ CadenceOpen(r, t, f) /\ f.tier \in Tiers
      BY <1>1 DEF Reserve, Facts
    <3>5. t \in Int /\ lastNow \in Int /\ lastNow <= t
      BY <1>0, <3>4, TimesAreInts, ClockAdvances
    <3>6. QED
      BY <3>1, <3>2, <3>3, <3>4, <3>5
  <2> HIDE DEF n
  <2>2. \A s \in Present :
          /\ rows'[s] = rows[s] /\ rows[s].reservedAt \in Int /\ rows[s].reservedAt <= t
          /\ rows[s].nextEligibilityAt \in Int /\ rows[s].reservedAt < rows[s].nextEligibilityAt
    <3> SUFFICES ASSUME NEW s \in Present
                 PROVE  /\ rows'[s] = rows[s] /\ rows[s].reservedAt \in Int
                        /\ rows[s].reservedAt <= t /\ rows[s].nextEligibilityAt \in Int
                        /\ rows[s].reservedAt < rows[s].nextEligibilityAt
      OBVIOUS
    <3>1. rows[s] \in Row /\ DatesOrdered(rows[s], lastNow) /\ s \in OpNames
      BY RowsAreOrdered
    <3>2. rows[s].reservedAt \in Int /\ rows[s].nextEligibilityAt \in Int
      BY <3>1, RowDates
    <3>3. QED
      BY <2>1, <3>1, <3>2 DEF DatesOrdered
  <2>3. \A p : \A o \in CycleStarts(p)' : o # n => o \in CycleStarts(p)
    BY <2>1, <2>2 DEF CycleStarts
  <2>4. \A tier \in Tiers : Interval[tier] \in Nat
    BY ClockAssumption
  <2>5. ASSUME NEW p, NEW o \in CycleStarts(p), n \in CycleStarts(p)',
               rows[o].request.job # r.job
        PROVE  /\ rows[o].nextEligibilityAt <= t
               /\ \E tier \in Tiers : rows[o].reservedAt + Interval[tier] <= t
    <3>1. r.principal = p /\ r.type = "AI_MAINTENANCE" /\ JobRows(r.job) = {}
      BY <2>1, <2>5 DEF CycleStarts
    <3>2. QED
      BY <2>1, <2>5, <3>1 DEF CadenceOpen
  <2>6. ASSUME NEW p \in Principals, NEW o \in CycleStarts(p)', NEW s \in CycleStarts(p)',
               rows'[o].request.job # rows'[s].request.job,
               rows'[o].reservedAt <= rows'[s].reservedAt
        PROVE  /\ rows'[o].nextEligibilityAt <= rows'[s].reservedAt
               /\ \E tier \in Tiers : rows'[o].reservedAt + Interval[tier] <= rows'[s].reservedAt
    <3>1. \A x \in CycleStarts(p) : x \in Present
      BY DEF CycleStarts
    <3>2. CASE o # n /\ s # n
      <4>1. o \in CycleStarts(p) /\ s \in CycleStarts(p)
        BY <2>3, <3>2
      <4>2. rows'[o] = rows[o] /\ rows'[s] = rows[s]
        BY <2>2, <3>1, <4>1
      <4>3. QED
        BY <2>6, <4>1, <4>2 DEF MaintenanceCyclesAreSpaced
    <3>3. CASE o # n /\ s = n
      <4>1. o \in CycleStarts(p) /\ o \in Present
        BY <2>3, <3>1, <3>3
      <4>2. rows'[o] = rows[o] /\ rows[o].request.job # r.job
        BY <2>1, <2>2, <2>6, <3>3, <4>1
      <4>3. QED
        BY <2>1, <2>5, <2>6, <3>3, <4>1, <4>2
    <3>4. CASE o = n /\ s # n
      <4>1. s \in CycleStarts(p) /\ s \in Present
        BY <2>3, <3>1, <3>4
      <4>2. /\ rows'[s] = rows[s] /\ rows[s].request.job # r.job
            /\ t <= rows[s].reservedAt
        BY <2>1, <2>2, <2>6, <3>4, <4>1
      <4>3. rows[s].nextEligibilityAt <= t
        BY <2>5, <2>6, <3>4, <4>1, <4>2
      <4>4. QED
        BY <2>1, <2>2, <4>1, <4>2, <4>3
    <3>5. CASE o = n /\ s = n
      BY <2>6, <3>5
    <3>6. QED
      BY <3>2, <3>3, <3>4, <3>5
  <2>7. QED
    BY <2>6 DEF MaintenanceCyclesAreSpaced
<1>2. ASSUME NEW o \in Present, NEW t \in Times, OneRow(o, t)
      PROVE  MaintenanceCyclesAreSpaced'
  <2>1. /\ Present' = Present
        /\ \A s \in Present \ {o} : rows'[s] = rows[s]
        /\ rows'[o].request = rows[o].request
        /\ rows'[o].reservedAt = rows[o].reservedAt
        /\ rows'[o].nextEligibilityAt = rows[o].nextEligibilityAt
        /\ rows'[o].opens = rows[o].opens
    BY <1>0, <1>2, OneRowFacts
  <2>2. QED
    BY <1>0, <2>1, CyclesSame
<1>3. ASSUME NoRow
      PROVE  MaintenanceCyclesAreSpaced'
  <2>1. Present' = Present /\ rows' = rows
    BY <1>3 DEF NoRow, Present
  <2>2. QED
    BY <1>0, <2>1, CyclesSame
<1>4. QED
  BY <1>0, <1>1, <1>2, <1>3, StepKinds DEF OneRow

\* Two maintenance cycles of a principal never start closer together than the
\* shortest interval and the deadline of the earlier, whatever the tiers and
\* zones they were admitted under, and whether or not a cycle was cancelled.
THEOREM CyclesSpaced == Spec => []MaintenanceCyclesAreSpaced
<1>1. Init => MaintenanceCyclesAreSpaced
  BY EmptyRowType DEF Init, MaintenanceCyclesAreSpaced, CycleStarts, Present
<1>2. Sound /\ [Next]_vars /\ MaintenanceCyclesAreSpaced => MaintenanceCyclesAreSpaced'
  BY CyclesStep
<1>3. QED
  BY <1>1, <1>2, Soundness, PTL DEF Spec
=============================================================================
