--------------------------- MODULE SnapshotCapacity ---------------------------
(***************************************************************************)
(* Room for every outcome: the byte limit of the durable budget snapshot   *)
(* (services/ai-gateway/postgres-ledger.mjs).  A new operation is admitted *)
(* only if everything that may still have to be written about every row    *)
(* fits below the limit as well; later writes about rows that exist are    *)
(* not asked for that room a second time.                                  *)
(*                                                                         *)
(* A row is its state and the bytes of its optional parts, 0 for a part it *)
(* does not have.  Which child of a job may take which outcome is decided  *)
(* by BudgetLedger; here a row takes an outcome as soon as its own state   *)
(* allows it.                                                              *)
(***************************************************************************)
EXTENDS Naturals, FiniteSets

CONSTANTS
  Operations,  \* operations that may be reserved
  Anchors,     \* those whose request has child index zero
  Room,        \* MAX_SNAPSHOT_BYTES
  Fixed,       \* Fixed[o]: bytes of o's request, quote, pricing and window
  MaxFixed,    \* the most bytes their shapes let them have
  NameBytes,   \* NameBytes[s]: bytes of the name of state s
  PartBound,   \* PartBound[p]: the most bytes the shape lets part p have
  ClockBytes   \* bytes of the largest time

States == {"RESERVED", "DISPATCHED", "OUTCOME_UNKNOWN", "SETTLED",
           "CANCELLED_BEFORE_DISPATCH"}
Final == {"SETTLED", "CANCELLED_BEFORE_DISPATCH"}
Longest == NameBytes["CANCELLED_BEFORE_DISPATCH"]

\* dispatched: dispatchedAt, dispatchedDayId, dispatchedTimeZone.  committed:
\* resultCommitted, resultCommittedAt, resultDayId, resultTimeZone.
\* resolution: resultResolution, resultResolvedAt.
Parts == {"dispatched", "unknown", "settlement", "settledAt", "committed", "resolution"}

ASSUME SizeAssumption ==
  /\ IsFiniteSet(Operations) /\ Anchors \subseteq Operations
  /\ Room \in Nat /\ ClockBytes \in 1 .. Room
  /\ MaxFixed \in Nat /\ Fixed \in [Operations -> 0 .. MaxFixed]
  /\ NameBytes \in [States -> Nat]
  /\ \A s \in States : NameBytes[s] <= Longest
  /\ PartBound \in [Parts -> Nat \ {0}]

VARIABLES rows,   \* rows[o]: the row of o; an operation never reserved is Absent
          clock   \* bytes of lastNow

snapshotVars == <<rows, clock>>

Nothing == [p \in Parts |-> 0]
Absent == [state |-> "ABSENT", parts |-> Nothing]
Rows == [state : States, parts : [Parts -> Nat]]
Present(table) == {o \in Operations : table[o].state # "ABSENT"}

SnapshotTypeOK ==
  /\ rows \in [Operations -> {Absent} \cup Rows]
  /\ \A o \in Operations : \A p \in Parts : rows[o].parts[p] <= PartBound[p]
  /\ clock \in 1 .. ClockBytes

SnapshotInit == rows = [o \in Operations |-> Absent] /\ clock = 1

-----------------------------------------------------------------------------
\* Sizes are sets of cells, one per byte: a row's bytes are numbered part by part.

PartCells(o, parts) == UNION {{o} \X {p} \X (1 .. parts[p]) : p \in Parts}
FixedCells(o, name) == {o} \X {"fixed"} \X (1 .. (Fixed[o] + name))
RowCells(o, row) == FixedCells(o, NameBytes[row.state]) \cup PartCells(o, row.parts)

\* The largest row that o can still become: every part at its bound, the
\* resolution only on the row of child zero.
FutureParts(o, row) ==
  [p \in Parts |-> IF p = "resolution" /\ o \notin Anchors THEN row.parts[p] ELSE PartBound[p]]
FutureRowBytes(o, row) == FixedCells(o, Longest) \cup PartCells(o, FutureParts(o, row))

\* A final row that can still receive its job's result.
AwaitsResult(o, row) ==
  o \in Anchors /\ row.parts["resolution"] = 0 /\ row.parts["committed"] = 0
FutureResultParts(row) ==
  [p \in Parts |-> IF p \in {"committed", "resolution"} THEN PartBound[p] ELSE row.parts[p]]

FinalIsDone(o, row) ==   \* mutant
  IF row.state \notin Final THEN FutureRowBytes(o, row) ELSE RowCells(o, row)
Recoverable(o, row) ==
  CASE row.state \notin Final -> FutureRowBytes(o, row)
    [] row.state \in Final /\ AwaitsResult(o, row) ->
         FixedCells(o, NameBytes[row.state]) \cup PartCells(o, FutureResultParts(row))
    [] OTHER -> RowCells(o, row)

ClockCells(n) == {"lastNow"} \X {"fixed"} \X (1 .. n)
Encoded(table, n) == ClockCells(n) \cup UNION {RowCells(o, table[o]) : o \in Present(table)}
Footprint(table) ==
  ClockCells(ClockBytes) \cup UNION {Recoverable(o, table[o]) : o \in Present(table)}

Fits(cells) == Cardinality(cells) <= Room

-----------------------------------------------------------------------------
\* What one call may write about the row of o.

With(row, state, part, n) == [state |-> state, parts |-> [row.parts EXCEPT ![part] = n]]

Sizes(part) == 1 .. PartBound[part]

Recorded(row) ==
  CASE row.state = "RESERVED" ->
         {With(row, "DISPATCHED", "dispatched", n) : n \in Sizes("dispatched")}
         \cup {[state |-> "CANCELLED_BEFORE_DISPATCH", parts |-> row.parts]}
    [] row.state = "DISPATCHED" -> {[state |-> "OUTCOME_UNKNOWN", parts |-> row.parts]}
    [] OTHER -> {}

Settled(row) ==
  LET paid == {[state |-> "SETTLED",
                parts |-> [row.parts EXCEPT !["settlement"] = n, !["settledAt"] = t,
                                            !["committed"] = c]] :
               n \in Sizes("settlement"), t \in Sizes("settledAt"),
               c \in {0} \cup Sizes("committed")}
      unknown == {With(row, "OUTCOME_UNKNOWN", "unknown", n) : n \in Sizes("unknown")}
  IN  CASE row.state \in {"DISPATCHED", "OUTCOME_UNKNOWN"} ->
             paid \cup (IF row.parts["unknown"] = 0 THEN unknown ELSE {})
        [] OTHER -> {}

Resolved(o, row) ==
  IF row.state \in Final /\ AwaitsResult(o, row)
    THEN {[state |-> row.state,
           parts |-> [row.parts EXCEPT !["resolution"] = n, !["committed"] = c]] :
          n \in Sizes("resolution"), c \in {0} \cup Sizes("committed")}
    ELSE {}

After(o, row) == Recorded(row) \cup Settled(row) \cup Resolved(o, row)

-----------------------------------------------------------------------------
\* put: a snapshot with a row it did not have must fit with its footprint, any
\* other only has to fit itself.

Tick(n) == clock <= n /\ n <= ClockBytes /\ clock' = n

Admits(table) == Fits(Footprint(table))

ReserveRow(o) ==
  /\ rows[o] = Absent
  /\ \E n \in 1 .. ClockBytes : Tick(n)
  /\ LET next == [rows EXCEPT ![o] = [state |-> "RESERVED", parts |-> Nothing]]
     IN  /\ Admits(next)
         /\ Fits(Encoded(next, clock'))
         /\ rows' = next

Write(o) ==
  /\ o \in Present(rows)
  /\ \E n \in 1 .. ClockBytes : Tick(n)
  /\ \E row \in After(o, rows[o]) :
       LET next == [rows EXCEPT ![o] = row]
       IN  /\ Fits(Encoded(next, clock'))
           /\ rows' = next

SnapshotNext == \E o \in Operations : ReserveRow(o) \/ Write(o)

SnapshotSpec == SnapshotInit /\ [][SnapshotNext]_snapshotVars

-----------------------------------------------------------------------------
\* The footprint never exceeds the limit, although it is checked only when a row
\* is added (postgres-ledger.mjs, recoveryFootprint and put).
FootprintKept == Fits(Footprint(rows))

\* No outcome is ever refused for want of bytes: whatever a provider, a domain
\* or a cancellation makes of a row, with parts of any legal size and at any
\* time, the snapshot with it can still be written (postgres-ledger.mjs,
\* "lifecycle updates consume the already reserved space").
EveryOutcomeFits ==
  \A o \in Present(rows) : \A row \in After(o, rows[o]) :
    Fits(Encoded([rows EXCEPT ![o] = row], ClockBytes))
=============================================================================
