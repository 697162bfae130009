--------------------------- MODULE SmartFilterProofs ---------------------------
(***************************************************************************)
(* What SmartFilter guarantees for any number of inputs, writes, releases  *)
(* and failures.  FilterInv is inductive.  InputOK says of one input what  *)
(* its row may hold beside its text: a decision in force is the one the    *)
(* rules make of the row as it is, and what speaks for the text is in the  *)
(* row before any decision is.  BatchOK says the same of a decision that   *)
(* was computed and not yet committed, as far as it would still apply.     *)
(***************************************************************************)
EXTENDS SmartFilter, FiniteSetTheorems, TLAPS

Steps == {"off", "status", "mark", "read", "commit", "settle"}
Runners(batch) == [at : Steps, batch : {batch}, requested : BOOLEAN, failed : BOOLEAN]
RunnerShape(r) == r \in Runners(r.batch)

FilterShape ==
  /\ blocks \in [Captured -> Blocks \cup {Nothing}] /\ filterRows \in [Captured -> Rows \cup {Nothing}]
  /\ intents \subseteq Captured /\ purged \subseteq Captured
  /\ state \in [mode : {"light", "off"}, sequence : Nat, version : Releases,
                task : {"idle", "running", "failed"}]
  /\ release \in Releases
  /\ arriving \subseteq Captured \X Observed
  /\ RunnerShape(filterRunner)

InForce(row, b) == row.version = release /\ row.based = b.revision
RowOK(row, b) ==
  /\ row.version <= release /\ row.based <= b.revision /\ row.sequence <= state.sequence
  /\ row.filter => row.sequence > 0
  /\ InForce(row, b) =>
       /\ row.filter => ~row.pending
       /\ ~row.pending => (row.filter <=> DecideLight(row, b.text))

InputOK(i) ==
  /\ blocks[i] = Nothing => filterRows[i] = Nothing /\ i \notin intents
  /\ blocks[i] = Nothing /\ i \notin purged => i \notin kept \cup referenced
  /\ i \in purged => blocks[i] = Nothing
  /\ blocks[i] # Nothing =>
       /\ i \in kept => i \in intents
       /\ i \in intents => filterRows[i] # Nothing /\ filterRows[i].keep
       /\ i \in referenced => filterRows[i] # Nothing /\ filterRows[i].presence = "present"
  /\ filterRows[i] # Nothing => RowOK(filterRows[i], blocks[i])

ItemOK(i) ==
  /\ i \in Captured /\ filterRunner.batch[i].revision \in Nat /\ filterRunner.batch[i].content \in Nat
  /\ filterRunner.batch[i].filter \in BOOLEAN
  /\ filterRows[i] = Nothing => i \in purged
  /\ filterRows[i] # Nothing =>
       /\ filterRunner.batch[i].revision <= filterRows[i].revision
       /\ filterRunner.batch[i].content <= blocks[i].revision
       /\ Applies(i) => (filterRunner.batch[i].filter <=> DecideLight(filterRows[i], blocks[i].text))
BatchOK ==
  /\ ~up => filterRunner = IdleRunner
  /\ \A i \in DOMAIN filterRunner.batch : ItemOK(i)

ReadingOK ==
  reading # Nothing =>
    /\ reading \in [mode : {"light", "off"}, sequence : Nat, shown : SUBSET Captured]
    /\ reading.sequence <= state.sequence
    /\ reading.shown \subseteq PresentInputs \cup purged

FilterInv ==
  /\ FilterShape /\ BatchOK /\ ReadingOK /\ ReadingStays /\ HeldIsQuiet
  /\ \A i \in Captured : InputOK(i)
-----------------------------------------------------------------------------
\* The fields of the rows that are written.
LEMMA InitialFields ==
  ASSUME NEW b \in Blocks, release \in Releases
  PROVE  /\ InitialRow(b) \in Rows
         /\ InitialRow(b).presence = "none" /\ ~InitialRow(b).invalid
         /\ (InitialRow(b).keep <=> b.revision > 0)
         /\ InitialRow(b).revision = 0 /\ InitialRow(b).pending /\ ~InitialRow(b).filter
         /\ InitialRow(b).based = b.revision /\ InitialRow(b).version = release
         /\ InitialRow(b).sequence = 0
<1>1. b.revision \in Nat /\ 0 \in Nat /\ FALSE \in BOOLEAN /\ TRUE \in BOOLEAN
  BY DEF Blocks
<1>2. (b.revision > 0) \in BOOLEAN
  BY <1>1
<1>3. InitialRow(b) \in Rows
  BY <1>1, <1>2, Zenon DEF InitialRow, Rows
<1>. QED
  BY <1>3, Zenon DEF InitialRow

LEMMA OutdatedFields ==
  ASSUME NEW row \in Rows
  PROVE  LET new == [row EXCEPT !.pending = TRUE, !.revision = @ + 1] IN
         /\ new \in Rows /\ new.pending /\ new.revision = row.revision + 1
         /\ new.presence = row.presence /\ new.invalid = row.invalid /\ new.keep = row.keep
         /\ new.filter = row.filter /\ new.based = row.based /\ new.version = row.version
         /\ new.sequence = row.sequence
<1>. row.revision + 1 \in Nat
  BY DEF Rows
<1>. QED
  BY Zenon DEF Rows

LEMMA ProtectedFields ==
  ASSUME NEW row \in Rows
  PROVE  LET new == [row EXCEPT !.keep = TRUE, !.revision = @ + 1, !.pending = FALSE,
                                !.filter = FALSE] IN
         /\ new \in Rows /\ ~new.pending /\ ~new.filter /\ new.keep
         /\ new.revision = row.revision + 1
         /\ new.presence = row.presence /\ new.invalid = row.invalid
         /\ new.based = row.based /\ new.version = row.version /\ new.sequence = row.sequence
<1>. row.revision + 1 \in Nat
  BY DEF Rows
<1>. QED
  BY Zenon DEF Rows

LEMMA MarkedFields ==
  ASSUME NEW row \in Rows, NEW k \in BOOLEAN
  PROVE  LET new == [row EXCEPT !.keep = k] IN
         /\ new \in Rows /\ new.keep = k
         /\ new.presence = row.presence /\ new.invalid = row.invalid
         /\ new.revision = row.revision /\ new.pending = row.pending /\ new.filter = row.filter
         /\ new.based = row.based /\ new.version = row.version /\ new.sequence = row.sequence
BY Zenon DEF Rows

-----------------------------------------------------------------------------
(* What one step may do to an input: it stays as InputOK says, a row only   *)
(* goes for good, what a decision was computed from only changes together   *)
(* with a revision, and no decision of old hides more than it did.          *)
Forward(i) ==
  /\ filterRows[i].revision <= filterRows'[i].revision /\ blocks[i].revision <= blocks'[i].revision
  /\ filterRows'[i].revision = filterRows[i].revision =>
       /\ blocks'[i] = blocks[i]
       /\ filterRows'[i].presence = filterRows[i].presence
       /\ filterRows'[i].invalid = filterRows[i].invalid /\ filterRows'[i].keep = filterRows[i].keep
Shows(i) ==
  \A mode, sequence :
    blocks[i] # Nothing /\ sequence \in Nat /\ sequence <= state.sequence
      /\ Filtered(i, mode, sequence)' => Filtered(i, mode, sequence)
Moves(i) ==
  /\ InputOK(i)'
  /\ filterRows[i] # Nothing /\ filterRows'[i] = Nothing => i \in purged'
  /\ blocks[i] # Nothing /\ blocks'[i] = Nothing => i \in purged'
  /\ filterRows[i] # Nothing /\ filterRows'[i] # Nothing => Forward(i)
  /\ Shows(i)

LEMMA Numbers ==
  ASSUME FilterShape, NEW i \in Captured
  PROVE  /\ release \in Nat /\ state.sequence \in Nat
         /\ blocks[i] # Nothing => blocks[i] \in Blocks /\ blocks[i].revision \in Nat
         /\ filterRows[i] # Nothing =>
              /\ filterRows[i] \in Rows
              /\ filterRows[i].revision \in Nat /\ filterRows[i].based \in Nat /\ filterRows[i].version \in Nat
              /\ filterRows[i].sequence \in Nat
<1>1. blocks[i] # Nothing => blocks[i] \in Blocks
  BY DEF FilterShape
<1>2. filterRows[i] # Nothing => filterRows[i] \in Rows
  BY DEF FilterShape
<1>3. release \in Nat
  BY FilterAssumption DEF FilterShape
<1>4. state.sequence \in Nat
  BY DEF FilterShape
<1>5. filterRows[i] # Nothing => filterRows[i].version \in Releases
  BY <1>2 DEF Rows
<1>. QED
  BY <1>1, <1>2, <1>3, <1>4, <1>5, FilterAssumption DEF Blocks, Rows

LEMMA RowOfFields ==
  ASSUME FilterInv, NEW i \in Captured, blocks[i] # Nothing
  PROVE  /\ RowOf(i) \in Rows /\ RowOK(RowOf(i), blocks[i])
         /\ i \in intents => RowOf(i).keep
         /\ i \in referenced => RowOf(i).presence = "present"
         /\ i \in kept => i \in intents
         /\ i \notin purged
         /\ filterRows[i] # Nothing => RowOf(i) = filterRows[i]
<1>1. FilterShape /\ InputOK(i)
  BY DEF FilterInv
<1>2. CASE filterRows[i] # Nothing
  <2>1. RowOf(i) = filterRows[i] /\ filterRows[i] \in Rows
    BY <1>1, <1>2, Numbers DEF RowOf
  <2>. QED
    BY <1>1, <1>2, <2>1 DEF InputOK
<1>3. CASE filterRows[i] = Nothing
  <2>1. RowOf(i) = InitialRow(blocks[i]) /\ blocks[i] \in Blocks /\ release \in Releases
    BY <1>1, <1>3, Numbers DEF RowOf, FilterShape
  <2>2. i \notin intents /\ i \notin kept /\ i \notin referenced /\ i \notin purged
    BY <1>1, <1>3 DEF InputOK
  <2>3. /\ RowOf(i) \in Rows /\ RowOf(i).pending /\ ~RowOf(i).filter
        /\ RowOf(i).based = blocks[i].revision /\ RowOf(i).version = release
        /\ RowOf(i).sequence = 0
    BY <2>1, InitialFields
  <2>4. RowOK(RowOf(i), blocks[i])
    BY <1>1, <2>1, <2>3, Numbers DEF RowOK
  <2>. QED
    BY <1>3, <2>2, <2>3, <2>4
<1>. QED
  BY <1>2, <1>3

\* An input whose row and text a step leaves as they are, under the same or
\* newer rules and with later decisions.
LEMMA StillMoves ==
  ASSUME FilterInv, NEW i \in Captured,
         filterRows'[i] = filterRows[i], blocks'[i] = blocks[i],
         i \in intents' <=> i \in intents, i \in purged' <=> i \in purged,
         i \in kept' <=> i \in kept, i \in referenced' <=> i \in referenced,
         release' \in Nat, release <= release',
         state'.sequence \in Nat, state.sequence <= state'.sequence
  PROVE  Moves(i)
<1>1. FilterShape /\ InputOK(i)
  BY DEF FilterInv
<1>2. ASSUME filterRows[i] # Nothing PROVE RowOK(filterRows[i], blocks[i])'
  <2>1. RowOK(filterRows[i], blocks[i])
    BY <1>1, <1>2 DEF InputOK
  <2>2. /\ filterRows[i].version \in Nat /\ filterRows[i].sequence \in Nat
        /\ release \in Nat /\ state.sequence \in Nat
    BY <1>1, <1>2, Numbers
  <2>3. filterRows[i].version = release' => release' = release
    BY <2>1, <2>2 DEF RowOK
  <2>4. InForce(filterRows[i], blocks[i])' =>
          InForce(filterRows[i], blocks[i]) /\ release' = release
    BY <2>3 DEF InForce
  <2>5. /\ filterRows[i].version <= release' /\ filterRows[i].based <= blocks[i].revision
        /\ filterRows[i].sequence <= state'.sequence
        /\ filterRows[i].filter => filterRows[i].sequence > 0
    BY <2>1, <2>2 DEF RowOK
  <2>6. ASSUME InForce(filterRows[i], blocks[i])'
        PROVE  /\ filterRows[i].filter => ~filterRows[i].pending
               /\ ~filterRows[i].pending =>
                    (filterRows[i].filter <=> DecideLight(filterRows[i], blocks[i].text)')
    BY <2>1, <2>4, <2>6 DEF RowOK, DecideLight
  <2>. QED
    BY <2>5, <2>6 DEF RowOK
<1>3. InputOK(i)'
  BY <1>1, <1>2 DEF InputOK
<1>4. filterRows[i] # Nothing => Forward(i)
  BY <1>1, Numbers DEF Forward, InputOK
<1>5. Shows(i)
  <2>1. SUFFICES ASSUME NEW mode, NEW sequence, Filtered(i, mode, sequence)'
                 PROVE  Filtered(i, mode, sequence)
    BY DEF Shows
  <2>2. filterRows[i] # Nothing /\ RowOK(filterRows[i], blocks[i])
    BY <1>1, <2>1 DEF Filtered, ValidDecision, InputOK
  <2>3. /\ filterRows[i].version \in Nat /\ release \in Nat
    BY <1>1, <2>2, Numbers
  <2>4. release' = release
    BY <2>1, <2>2, <2>3 DEF Filtered, ValidDecision, RowOK
  <2>. QED
    BY <2>1, <2>4 DEF Filtered, ValidDecision
<1>. QED
  BY <1>3, <1>4, <1>5 DEF Moves

-----------------------------------------------------------------------------
\* The kinds of writes, each for the input it is about.
Others(i) ==
  /\ i \in purged' <=> i \in purged
  /\ release' = release /\ state'.sequence = state.sequence

LEMMA UpgradeMoves ==
  ASSUME FilterInv, NEW i \in Captured, blocks[i] # Nothing, NEW failed \in BOOLEAN,
         filterRows'[i] = UpgradedRow(i, failed),
         blocks'[i] = blocks[i], i \in intents' <=> i \in intents, i \in kept' <=> i \in kept,
         i \in referenced' <=> i \in referenced, Others(i)
  PROVE  Moves(i) /\ filterRows'[i] \in Rows
<1>1. FilterShape /\ InputOK(i)
  BY DEF FilterInv
<1>. DEFINE requeued == Outdated(filterRows[i], blocks[i]) \/ (failed /\ filterRows[i].pending)
<1>2. CASE filterRows[i] # Nothing /\ ~requeued
  <2>1. filterRows'[i] = filterRows[i]
    BY <1>2 DEF UpgradedRow
  <2>2. release \in Nat /\ state.sequence \in Nat /\ filterRows[i] \in Rows
    BY <1>1, <1>2, Numbers
  <2>3. release' \in Nat /\ release <= release' /\ state'.sequence \in Nat
        /\ state.sequence <= state'.sequence
    BY <2>2 DEF Others
  <2>4. i \in purged' <=> i \in purged
    BY DEF Others
  <2>. QED
    BY <2>1, <2>2, <2>3, <2>4, StillMoves
<1>3. CASE filterRows[i] # Nothing /\ requeued
  <2>1. filterRows[i] \in Rows /\ filterRows[i].revision \in Nat /\ RowOK(filterRows[i], blocks[i])
        /\ blocks[i].revision \in Nat
    BY <1>1, <1>3, Numbers DEF InputOK
  <2>2. filterRows'[i] = [filterRows[i] EXCEPT !.pending = TRUE, !.revision = @ + 1]
    BY <1>3 DEF UpgradedRow
  <2>3. /\ filterRows'[i] \in Rows /\ filterRows'[i].pending /\ filterRows'[i].revision = filterRows[i].revision + 1
        /\ filterRows'[i].presence = filterRows[i].presence /\ filterRows'[i].invalid = filterRows[i].invalid
        /\ filterRows'[i].keep = filterRows[i].keep /\ filterRows'[i].filter = filterRows[i].filter
        /\ filterRows'[i].based = filterRows[i].based /\ filterRows'[i].version = filterRows[i].version
        /\ filterRows'[i].sequence = filterRows[i].sequence
    BY <2>1, <2>2, OutdatedFields
  <2>4. filterRows[i].filter => ~InForce(filterRows[i], blocks[i])
    BY <1>3, <2>1 DEF Outdated, InForce, RowOK
  <2>5. RowOK(filterRows[i], blocks[i])'
    BY <2>1, <2>3, <2>4 DEF RowOK, InForce, Others
  <2>6. InputOK(i)'
    BY <1>1, <1>3, <2>3, <2>5, FilterAssumption DEF InputOK, Others
  <2>7. Forward(i)
    BY <2>1, <2>3 DEF Forward
  <2>8. Shows(i)
    BY <1>3, <2>3 DEF Shows, Filtered, ValidDecision, Others
  <2>. QED
    BY <1>3, <2>3, <2>6, <2>7, <2>8, FilterAssumption DEF Moves
<1>4. CASE filterRows[i] = Nothing
  <2>1. filterRows'[i] = InitialRow(blocks[i]) /\ blocks[i] \in Blocks /\ release \in Releases
    BY <1>1, <1>4, Numbers DEF FilterShape, UpgradedRow
  <2>2. RowOf(i) = filterRows'[i]
    BY <1>4, <2>1 DEF RowOf
  <2>3. RowOK(RowOf(i), blocks[i]) /\ filterRows'[i] \in Rows
    BY <2>2, RowOfFields
  <2>4. RowOK(filterRows[i], blocks[i])'
    BY <2>2, <2>3 DEF RowOK, InForce, DecideLight, Others
  <2>5. InputOK(i)'
    BY <1>1, <1>4, <2>3, <2>4 DEF InputOK, Others
  <2>6. Shows(i)
    <3>1. ~filterRows'[i].filter
      BY <2>1, InitialFields
    <3>. QED
      BY <3>1 DEF Shows, Filtered, ValidDecision
  <2>. QED
    BY <1>4, <2>3, <2>5, <2>6 DEF Moves
<1>. QED
  BY <1>2, <1>3, <1>4

\* protect: an edit or a keep.
LEMMA ProtectMoves ==
  ASSUME FilterInv, NEW i \in Captured, blocks[i] # Nothing, filterRows'[i] = Protected(i),
         blocks'[i] \in Blocks, blocks[i].revision <= blocks'[i].revision,
         i \in intents', i \in kept', i \in referenced' <=> i \in referenced, Others(i)
  PROVE  Moves(i) /\ filterRows'[i] \in Rows
<1>1. FilterShape /\ InputOK(i)
  BY DEF FilterInv
<1>2. /\ RowOf(i) \in Rows /\ RowOK(RowOf(i), blocks[i])
      /\ i \in referenced => RowOf(i).presence = "present"
      /\ i \notin purged /\ (filterRows[i] # Nothing => RowOf(i) = filterRows[i])
  BY RowOfFields
<1>. DEFINE row == RowOf(i)
<1>3. /\ filterRows'[i] \in Rows /\ ~filterRows'[i].pending /\ ~filterRows'[i].filter /\ filterRows'[i].keep
      /\ filterRows'[i].revision = row.revision + 1
      /\ filterRows'[i].presence = row.presence
      /\ filterRows'[i].based = row.based /\ filterRows'[i].version = row.version
      /\ filterRows'[i].sequence = row.sequence
  BY <1>2, ProtectedFields DEF Protected
<1>4. row.based \in Nat /\ blocks[i].revision \in Nat /\ blocks'[i].revision \in Nat
      /\ row.revision \in Nat
  BY <1>1, <1>2, Numbers DEF Rows, Blocks
<1>. HIDE DEF row
<1>5. RowOK(filterRows[i], blocks[i])'
  <2>1. filterRows'[i].version <= release' /\ filterRows'[i].sequence <= state'.sequence
    BY <1>2, <1>3 DEF RowOK, Others, row
  <2>2. filterRows'[i].based <= blocks'[i].revision
    <3>1. row.based <= blocks[i].revision
      BY <1>2 DEF RowOK, row
    <3>. QED
      BY <1>3, <1>4, <3>1
  <2>. QED
    BY <1>3, <2>1, <2>2 DEF RowOK, DecideLight
<1>6. InputOK(i)'
  BY <1>2, <1>3, <1>5, FilterAssumption DEF InputOK, Others, row
<1>7. filterRows[i] # Nothing => Forward(i)
  <2>1. filterRows[i] # Nothing => row = filterRows[i]
    BY <1>2 DEF row
  <2>2. row.revision <= row.revision + 1 /\ row.revision + 1 # row.revision
    BY <1>4
  <2>. QED
    BY <1>3, <2>1, <2>2 DEF Forward
<1>8. Shows(i)
  BY <1>3 DEF Shows, Filtered, ValidDecision
<1>. QED
  BY <1>3, <1>6, <1>7, <1>8, FilterAssumption DEF Moves

\* The merge of what was seen around a message.
LEMMA ObserveKinds ==
  ASSUME FilterInv, NEW i \in Captured, blocks[i] # Nothing, NEW p \in Observed
  PROVE  /\ Observe(i, p) \in Rows
         /\ Observe(i, p).keep = RowOf(i).keep /\ Observe(i, p).based = RowOf(i).based
         /\ Observe(i, p).version = RowOf(i).version
         /\ Observe(i, p).sequence = RowOf(i).sequence
         /\ p = "present" \/ RowOf(i).presence = "present" =>
              Observe(i, p).presence = "present"
         /\ \/ /\ Observe(i, p).revision = RowOf(i).revision + 1
               /\ Observe(i, p).pending /\ ~Observe(i, p).filter
            \/ /\ Observe(i, p).revision = RowOf(i).revision
               /\ Observe(i, p).pending = RowOf(i).pending
               /\ Observe(i, p).filter = RowOf(i).filter
               /\ Observe(i, p).presence = RowOf(i).presence
               /\ Observe(i, p).invalid = RowOf(i).invalid
<1>1. RowOf(i) \in Rows /\ (i \in intents => RowOf(i).keep)
  BY RowOfFields
<1>2. RowOf(i).keep \in BOOLEAN /\ RowOf(i).invalid \in BOOLEAN
      /\ RowOf(i).presence \in {"none", "absent", "present"}
  BY <1>1 DEF Rows
<1>3. PICK k \in BOOLEAN : k = (RowOf(i).keep \/ i \in intents)
  OBVIOUS
<1>4. k = RowOf(i).keep
  BY <1>1, <1>2, <1>3
<1>. DEFINE row == [RowOf(i) EXCEPT !.keep = k]
<1>5. /\ row \in Rows /\ row.keep = RowOf(i).keep
      /\ row.presence = RowOf(i).presence /\ row.invalid = RowOf(i).invalid
      /\ row.revision = RowOf(i).revision /\ row.pending = RowOf(i).pending
      /\ row.filter = RowOf(i).filter /\ row.based = RowOf(i).based
      /\ row.version = RowOf(i).version /\ row.sequence = RowOf(i).sequence
  BY <1>1, <1>3, <1>4, MarkedFields
<1>6. PICK m : m = Merged(row, p)
  OBVIOUS
<1>7. PICK v \in BOOLEAN : v = (p = "invalid")
  OBVIOUS
<1>. DEFINE new == [row EXCEPT !.presence = m, !.invalid = v, !.revision = @ + 1,
                               !.pending = TRUE, !.filter = FALSE]
<1>8. Observe(i, p) = IF row.presence # m \/ row.invalid # v THEN new ELSE row
  BY <1>3, <1>6, <1>7, Zenon DEF Observe
<1>. HIDE DEF row
<1>9. /\ m \in {"none", "absent", "present"}
      /\ p = "present" \/ row.presence = "present" => m = "present"
  BY <1>2, <1>5, <1>6, FilterAssumption DEF Merged, Seen
<1>10. /\ new \in Rows /\ new.presence = m /\ new.keep = row.keep
       /\ new.revision = row.revision + 1 /\ new.pending /\ ~new.filter
       /\ new.based = row.based /\ new.version = row.version /\ new.sequence = row.sequence
  <2>1. row.revision + 1 \in Nat
    BY <1>5 DEF Rows
  <2>. QED
    BY <1>5, <1>7, <1>9, <2>1, Zenon DEF new, Rows
<1>. HIDE DEF new
<1>11. CASE row.presence # m \/ row.invalid # v
  <2>1. Observe(i, p) = new
    BY <1>8, <1>11
  <2>. QED
    BY <1>5, <1>9, <1>10, <2>1
<1>12. CASE ~(row.presence # m \/ row.invalid # v)
  <2>1. Observe(i, p) = row /\ row.presence = m
    BY <1>8, <1>12
  <2>. QED
    BY <1>5, <1>9, <2>1
<1>. QED
  BY <1>11, <1>12

LEMMA ObserveMoves ==
  ASSUME FilterInv, NEW i \in Captured, blocks[i] # Nothing, NEW p \in Observed,
         filterRows'[i] = Observe(i, p), blocks'[i] = blocks[i],
         i \in intents' <=> i \in intents, i \in kept' <=> i \in kept,
         i \in referenced' => i \in referenced \/ p = "present", Others(i)
  PROVE  Moves(i) /\ filterRows'[i] \in Rows
<1>1. FilterShape /\ InputOK(i)
  BY DEF FilterInv
<1>2. /\ RowOf(i) \in Rows /\ RowOK(RowOf(i), blocks[i])
      /\ i \in intents => RowOf(i).keep
      /\ i \in referenced => RowOf(i).presence = "present"
      /\ i \in kept => i \in intents
      /\ i \notin purged /\ (filterRows[i] # Nothing => RowOf(i) = filterRows[i])
  BY RowOfFields
<1>. DEFINE row == RowOf(i)
<1>3. PICK new : new = Observe(i, p)
  OBVIOUS
<1>4. /\ new \in Rows /\ new.keep = row.keep /\ new.based = row.based
      /\ new.version = row.version /\ new.sequence = row.sequence
      /\ p = "present" \/ row.presence = "present" => new.presence = "present"
      /\ \/ new.revision = row.revision + 1 /\ new.pending /\ ~new.filter
         \/ /\ new.revision = row.revision /\ new.pending = row.pending
            /\ new.filter = row.filter /\ new.presence = row.presence
            /\ new.invalid = row.invalid
  BY <1>3, ObserveKinds
<1>5. filterRows'[i] = new /\ new # Nothing
  BY <1>3, <1>4, FilterAssumption
<1>6. row.revision \in Nat /\ row.revision <= row.revision + 1
      /\ row.revision + 1 # row.revision /\ row.revision <= row.revision
  BY <1>2 DEF Rows
<1>7. blocks[i].revision \in Nat /\ blocks[i].revision <= blocks[i].revision
  BY <1>1, Numbers
<1>. HIDE DEF row
<1>8. RowOK(filterRows[i], blocks[i])'
  BY <1>2, <1>4, <1>5 DEF RowOK, InForce, DecideLight, Others, row
<1>9. InputOK(i)'
  BY <1>2, <1>4, <1>5, <1>8 DEF InputOK, Others, row
<1>10. filterRows[i] # Nothing => Forward(i)
  BY <1>2, <1>4, <1>5, <1>6, <1>7 DEF Forward, row
<1>11. Shows(i)
  <2>1. SUFFICES ASSUME NEW mode, NEW sequence, Filtered(i, mode, sequence)',
                        sequence <= state.sequence, sequence \in Nat
                 PROVE  Filtered(i, mode, sequence)
    BY DEF Shows
  <2>2. new.filter
    BY <1>5, <2>1 DEF Filtered, ValidDecision
  <2>3. filterRows[i] # Nothing
    <3>1. ASSUME filterRows[i] = Nothing PROVE ~row.filter
      <4>1. row = InitialRow(blocks[i]) /\ blocks[i] \in Blocks /\ release \in Releases
        BY <1>1, <3>1, Numbers DEF RowOf, FilterShape, row
      <4>. QED
        BY <4>1, InitialFields
    <3>. QED
      BY <1>4, <2>2, <3>1
  <2>. QED
    BY <1>2, <1>4, <1>5, <2>1, <2>2, <2>3 DEF Filtered, ValidDecision, Others, row
<1>. QED
  BY <1>4, <1>5, <1>9, <1>10, <1>11 DEF Moves

\* A decision is committed: its number is above those of every reading.
LEMMA DecideMoves ==
  ASSUME FilterInv, NEW i \in DOMAIN filterRunner.batch, Applies(i), NEW n \in Nat,
         state.sequence < n, n <= state'.sequence,
         filterRows'[i] = Decided(i, n), blocks'[i] = blocks[i],
         i \in intents' <=> i \in intents, i \in kept' <=> i \in kept,
         i \in referenced' <=> i \in referenced, i \in purged' <=> i \in purged,
         release' = release, state'.sequence \in Nat
  PROVE  Moves(i) /\ filterRows'[i] \in Rows
<1>1. FilterShape /\ ItemOK(i) /\ i \in Captured
  BY DEF FilterInv, BatchOK, ItemOK
<1>2. InputOK(i) /\ filterRows[i] # Nothing /\ blocks[i] # Nothing
      /\ blocks[i].revision = filterRunner.batch[i].content
  BY <1>1 DEF FilterInv, Applies
<1>3. /\ filterRows[i] \in Rows /\ release \in Releases /\ release \in Nat
      /\ blocks[i].revision \in Nat /\ filterRows[i].revision \in Nat /\ state.sequence \in Nat
  BY <1>1, <1>2, Numbers DEF FilterShape
<1>4. filterRunner.batch[i].filter \in BOOLEAN
      /\ (filterRunner.batch[i].filter <=> DecideLight(filterRows[i], blocks[i].text))
  BY <1>1, <1>2 DEF ItemOK
<1>5. filterRows[i].keep \in BOOLEAN
  BY <1>3 DEF Rows
<1>6. PICK f \in BOOLEAN : f = (~filterRows[i].keep /\ filterRunner.batch[i].filter)
  OBVIOUS
<1>. DEFINE c == blocks[i].revision
<1>7. filterRows'[i] = [filterRows[i] EXCEPT !.filter = f, !.pending = FALSE, !.based = c,
                                 !.version = release, !.sequence = n]
  BY <1>2, <1>6, Zenon DEF Decided
<1>8. /\ filterRows'[i] \in Rows /\ filterRows'[i].filter = f /\ ~filterRows'[i].pending /\ filterRows'[i].based = c
      /\ filterRows'[i].version = release /\ filterRows'[i].sequence = n
      /\ filterRows'[i].presence = filterRows[i].presence /\ filterRows'[i].invalid = filterRows[i].invalid
      /\ filterRows'[i].keep = filterRows[i].keep /\ filterRows'[i].revision = filterRows[i].revision
  <2>1. c \in Nat
    BY <1>3
  <2>. HIDE DEF c
  <2>. QED
    BY <1>3, <1>6, <1>7, <2>1, Zenon DEF Rows
<1>9. DecideLight(filterRows[i], blocks[i].text)' <=> DecideLight(filterRows[i], blocks[i].text)
  BY <1>8 DEF DecideLight
<1>10. f <=> DecideLight(filterRows[i], blocks[i].text)
  BY <1>4, <1>5, <1>6 DEF DecideLight
<1>11. RowOK(filterRows[i], blocks[i])'
  <2>1. filterRows'[i].version <= release' /\ filterRows'[i].sequence <= state'.sequence
        /\ filterRows'[i].based <= blocks'[i].revision /\ filterRows'[i].sequence > 0
    BY <1>3, <1>8
  <2>2. filterRows'[i].filter <=> DecideLight(filterRows[i], blocks[i].text)'
    BY <1>8, <1>9, <1>10
  <2>. QED
    BY <1>8, <2>1, <2>2 DEF RowOK
<1>12. InputOK(i)'
  BY <1>2, <1>8, <1>11, FilterAssumption DEF InputOK
<1>13. Forward(i)
  BY <1>3, <1>8 DEF Forward
<1>14. Shows(i)
  BY <1>3, <1>8 DEF Shows, Filtered
<1>. QED
  BY <1>8, <1>12, <1>13, <1>14, FilterAssumption DEF Moves

-----------------------------------------------------------------------------
\* A capture of an input that is new, and a purge.
LEMMA CaptureMoves ==
  ASSUME FilterInv, NEW i \in Captured, blocks[i] = Nothing, i \notin purged, blocks'[i] \in Blocks,
         filterRows'[i] = filterRows[i], i \in intents' <=> i \in intents, i \in kept' <=> i \in kept,
         i \in referenced' <=> i \in referenced, i \in purged' <=> i \in purged
  PROVE  Moves(i)
<1>1. InputOK(i)
  BY DEF FilterInv
<1>2. filterRows[i] = Nothing /\ i \notin intents /\ i \notin kept /\ i \notin referenced
  BY <1>1 DEF InputOK
<1>. QED
  BY <1>2, FilterAssumption DEF Moves, InputOK, Shows

LEMMA PurgeMoves ==
  ASSUME FilterInv, NEW i \in Captured, blocks'[i] = Nothing, filterRows'[i] = Nothing,
         i \notin intents', i \in purged'
  PROVE  Moves(i)
BY DEF Moves, InputOK, Shows, Filtered, ValidDecision

-----------------------------------------------------------------------------
\* What holds of every input goes on holding of the batch and of the reading.
LEMMA BatchKeeps ==
  ASSUME FilterInv, \A i \in Captured : Moves(i), purged \subseteq purged', FilterShape',
         up' = up, filterRunner'.batch = filterRunner.batch, ~up' => filterRunner' = IdleRunner, release' = release
  PROVE  BatchOK'
<1>1. SUFFICES ASSUME NEW i \in DOMAIN filterRunner.batch PROVE ItemOK(i)'
  BY DEF BatchOK
<1>2. FilterShape /\ ItemOK(i) /\ i \in Captured /\ Moves(i)
  BY DEF FilterInv, BatchOK, ItemOK
<1>3. filterRows'[i] = Nothing => i \in purged'
  BY <1>2 DEF ItemOK, Moves
<1>4. ASSUME filterRows'[i] # Nothing
      PROVE  /\ filterRunner.batch[i].revision <= filterRows'[i].revision
             /\ filterRunner.batch[i].content <= blocks'[i].revision
             /\ Applies(i)' => (filterRunner.batch[i].filter <=> DecideLight(filterRows[i], blocks[i].text)')
  <2>1. filterRows[i] # Nothing
    <3>1. i \in purged => filterRows'[i] = Nothing
      BY <1>2 DEF Moves, InputOK
    <3>. QED
      BY <1>2, <1>4, <3>1 DEF ItemOK
  <2>2. Forward(i) /\ blocks[i] # Nothing /\ blocks'[i] # Nothing
    BY <1>2, <1>4, <2>1 DEF Moves, FilterInv, InputOK
  <2>3. /\ filterRunner.batch[i].revision \in Nat /\ filterRunner.batch[i].content \in Nat
        /\ filterRunner.batch[i].revision <= filterRows[i].revision
        /\ filterRunner.batch[i].content <= blocks[i].revision
        /\ Applies(i) => (filterRunner.batch[i].filter <=> DecideLight(filterRows[i], blocks[i].text))
    BY <1>2, <2>1 DEF ItemOK
  <2>4. /\ filterRows[i].revision \in Nat /\ blocks[i].revision \in Nat
        /\ filterRows'[i].revision \in Nat /\ blocks'[i].revision \in Nat
    <3>1. filterRows'[i] \in Rows /\ blocks'[i] \in Blocks
      BY <1>2, <1>4, <2>2 DEF FilterShape
    <3>. QED
      BY <1>2, <2>1, <2>2, <3>1, Numbers DEF Rows, Blocks
  <2>5. ASSUME Applies(i)'
        PROVE  filterRunner.batch[i].filter <=> DecideLight(filterRows[i], blocks[i].text)'
    <3>1. filterRows'[i].revision = filterRunner.batch[i].revision
      BY <2>5 DEF Applies
    <3>2. filterRows'[i].revision = filterRows[i].revision
      BY <2>2, <2>3, <2>4, <3>1 DEF Forward
    <3>3. /\ blocks'[i] = blocks[i] /\ filterRows'[i].presence = filterRows[i].presence
          /\ filterRows'[i].invalid = filterRows[i].invalid /\ filterRows'[i].keep = filterRows[i].keep
      BY <2>2, <3>2 DEF Forward
    <3>4. Applies(i)
      BY <2>1, <2>2, <2>5, <3>2, <3>3 DEF Applies
    <3>. QED
      BY <2>3, <3>3, <3>4 DEF DecideLight
  <2>6. filterRunner.batch[i].revision <= filterRows'[i].revision
        /\ filterRunner.batch[i].content <= blocks'[i].revision
    BY <2>2, <2>3, <2>4 DEF Forward
  <2>. QED
    BY <2>5, <2>6
<1>. QED
  BY <1>2, <1>3, <1>4 DEF ItemOK

LEMMA ReadingKeeps ==
  ASSUME FilterInv, \A i \in Captured : Moves(i), purged \subseteq purged', reading' = reading,
         state'.sequence \in Nat, state.sequence <= state'.sequence
  PROVE  ReadingOK' /\ ReadingStays'
<1>1. SUFFICES ASSUME reading # Nothing PROVE ReadingOK' /\ ReadingStays'
  BY DEF ReadingOK, ReadingStays
<1>2. /\ reading \in [mode : {"light", "off"}, sequence : Nat, shown : SUBSET Captured]
      /\ reading.sequence <= state.sequence /\ reading.sequence \in Nat
      /\ reading.shown \subseteq PresentInputs \cup purged /\ state.sequence \in Nat
  BY <1>1 DEF FilterInv, ReadingOK, FilterShape
<1>3. reading.sequence <= state'.sequence
  BY <1>2
<1>4. \A i \in Captured : i \in PresentInputs => i \in PresentInputs' \/ i \in purged'
  BY DEF Moves, PresentInputs
<1>5. ReadingOK'
  BY <1>2, <1>3, <1>4 DEF ReadingOK, PresentInputs
<1>6. ASSUME NEW i \in reading.shown, i \in PresentInputs'
      PROVE  ~Filtered(i, reading.mode, reading.sequence)'
  <2>1. i \in Captured /\ blocks'[i] # Nothing
    BY <1>6 DEF PresentInputs
  <2>2. i \notin purged
    BY <2>1 DEF Moves, InputOK
  <2>3. blocks[i] # Nothing
    BY <1>2, <2>2 DEF PresentInputs
  <2>4. ~Filtered(i, reading.mode, reading.sequence)
    BY <1>1, <2>1, <2>3 DEF FilterInv, ReadingStays, PresentInputs
  <2>. QED
    BY <1>2, <2>1, <2>3, <2>4 DEF Moves, Shows
<1>. QED
  BY <1>5, <1>6 DEF ReadingStays

-----------------------------------------------------------------------------
\* A write to one input, with a runner, rules and a reading that stay.
LEMMA WriteKeeps ==
  ASSUME FilterInv, FilterShape', NEW i \in Captured, Moves(i),
         \A j \in Captured \ {i} :
           /\ filterRows'[j] = filterRows[j] /\ blocks'[j] = blocks[j]
           /\ j \in intents' <=> j \in intents
           /\ j \in purged' <=> j \in purged
           /\ j \in kept' <=> j \in kept
           /\ j \in referenced' <=> j \in referenced,
         purged \subseteq purged',
         UNCHANGED <<state, up, release, filterRunner, hold, reading>>
  PROVE  FilterInv'
<1>1. release \in Nat /\ state.sequence \in Nat
  BY FilterAssumption DEF FilterInv, FilterShape
<1>2. ASSUME NEW j \in Captured, j # i PROVE Moves(j)
  <2>1. release' \in Nat /\ release <= release' /\ state'.sequence \in Nat
        /\ state.sequence <= state'.sequence
    BY <1>1
  <2>2. /\ filterRows'[j] = filterRows[j] /\ blocks'[j] = blocks[j]
        /\ j \in intents' <=> j \in intents
        /\ j \in purged' <=> j \in purged
        /\ j \in kept' <=> j \in kept
        /\ j \in referenced' <=> j \in referenced
    BY <1>2
  <2>. QED
    BY <2>1, <2>2, StillMoves
<1>3. \A j \in Captured : Moves(j)
  BY <1>2
<1>4. BatchOK'
  BY <1>3, BatchKeeps DEF FilterInv, BatchOK
<1>5. ReadingOK' /\ ReadingStays'
  BY <1>1, <1>3, ReadingKeeps
<1>6. HeldIsQuiet'
  BY DEF FilterInv, HeldIsQuiet
<1>. QED
  BY <1>3, <1>4, <1>5, <1>6 DEF FilterInv, Moves

\* A step that leaves every input alone.
Quiet ==
  /\ UNCHANGED <<blocks, filterRows, intents, purged, kept, referenced, release>>
  /\ state'.sequence = state.sequence

LEMMA QuietMoves ==
  ASSUME FilterInv, Quiet
  PROVE  /\ \A i \in Captured : Moves(i)
         /\ reading' = reading => ReadingOK' /\ ReadingStays'
<1>1. release \in Nat /\ state.sequence \in Nat
  BY FilterAssumption DEF FilterInv, FilterShape
<1>2. ASSUME NEW i \in Captured PROVE Moves(i)
  <2>1. release' \in Nat /\ release <= release' /\ state'.sequence \in Nat
        /\ state.sequence <= state'.sequence
    BY <1>1 DEF Quiet
  <2>2. /\ filterRows'[i] = filterRows[i] /\ blocks'[i] = blocks[i]
        /\ i \in intents' <=> i \in intents
        /\ i \in purged' <=> i \in purged
        /\ i \in kept' <=> i \in kept
        /\ i \in referenced' <=> i \in referenced
    BY DEF Quiet
  <2>. QED
    BY <2>1, <2>2, StillMoves
<1>3. ASSUME reading' = reading PROVE ReadingOK' /\ ReadingStays'
  BY <1>1, <1>2, <1>3, ReadingKeeps DEF Quiet
<1>. QED
  BY <1>2, <1>3

\* ... of the worker, which the reading does not notice.
LEMMA QuietKeeps ==
  ASSUME FilterInv, FilterShape', Quiet, reading' = reading, HeldIsQuiet',
         ~up' => filterRunner' = IdleRunner,
         DOMAIN filterRunner'.batch = {} \/ (filterRunner'.batch = filterRunner.batch /\ up' = up)
  PROVE  FilterInv'
<1>1. (\A i \in Captured : Moves(i)) /\ ReadingOK' /\ ReadingStays'
  BY QuietMoves
<1>2. BatchOK'
  <2>1. CASE DOMAIN filterRunner'.batch = {}
    BY <2>1 DEF BatchOK
  <2>2. CASE filterRunner'.batch = filterRunner.batch /\ up' = up
    BY <1>1, <2>2, BatchKeeps DEF Quiet
  <2>. QED
    BY <2>1, <2>2
<1>. QED
  BY <1>1, <1>2 DEF FilterInv, Moves

-----------------------------------------------------------------------------
\* What becomes of the runner.
LEMMA IdleFields ==
  /\ IdleRunner \in Runners(<<>>) /\ IdleRunner.batch = <<>> /\ IdleRunner.at = "off" /\ ~IdleRunner.failed
  /\ [IdleRunner EXCEPT !.at = "status"] \in Runners(<<>>)
  /\ [IdleRunner EXCEPT !.at = "status"].batch = <<>>
<1>1. IdleRunner \in Runners(<<>>) /\ IdleRunner.batch = <<>> /\ IdleRunner.at = "off" /\ ~IdleRunner.failed
  BY Zenon DEF IdleRunner, Runners, Steps
<1>. HIDE DEF IdleRunner
<1>. QED
  BY <1>1, Zenon DEF Runners, Steps

LEMMA RequestedFields ==
  ASSUME NEW batch, NEW r \in Runners(batch), NEW failed \in BOOLEAN
  PROVE  /\ [r EXCEPT !.requested = TRUE] \in Runners(batch)
         /\ [r EXCEPT !.requested = TRUE].at = r.at
         /\ [r EXCEPT !.requested = TRUE].failed = r.failed
         /\ [r EXCEPT !.requested = TRUE, !.failed = failed] \in Runners(batch)
         /\ [r EXCEPT !.failed = TRUE] \in Runners(batch)
BY Zenon DEF Runners

LEMMA AtFields ==
  ASSUME NEW old, NEW r \in Runners(old), NEW at \in Steps, NEW batch
  PROVE  /\ [r EXCEPT !.at = at] \in Runners(old)
         /\ [r EXCEPT !.at = at, !.batch = batch] \in Runners(batch)
BY Zenon DEF Runners

LEMMA BatchOf ==
  ASSUME NEW batch, NEW r \in Runners(batch)
  PROVE  r.batch = batch /\ RunnerShape(r)
BY DEF Runners, RunnerShape

LEMMA EndFields ==
  ASSUME NEW batch, NEW r \in Runners(batch)
  PROVE  EndOf(r) \in Runners(<<>>)
BY AtFields, IdleFields DEF EndOf, Steps
-----------------------------------------------------------------------------
\* One lemma per group of actions: first the runner and the worker, which
\* leave every input as it is.
LEMMA EmptyBatch == DOMAIN <<>> = {}
OBVIOUS

LEMMA RunnerNow ==
  ASSUME FilterInv
  PROVE  /\ filterRunner \in Runners(filterRunner.batch)
         /\ hold = "held" => filterRunner.at = "off" /\ ~filterRunner.failed
         /\ ~up => filterRunner = IdleRunner
         /\ state.mode \in {"light", "off"} /\ release \in Releases
BY DEF FilterInv, FilterShape, RunnerShape, HeldIsQuiet, BatchOK

LEMMA StateFields ==
  ASSUME FilterInv, NEW mode \in {"light", "off"}, NEW task \in {"idle", "running", "failed"},
         NEW version \in Releases
  PROVE  LET States == [mode : {"light", "off"}, sequence : Nat, version : Releases,
                        task : {"idle", "running", "failed"}] IN
         /\ [state EXCEPT !.task = task] \in States
         /\ [state EXCEPT !.task = task].sequence = state.sequence
         /\ [state EXCEPT !.mode = mode] \in States
         /\ [state EXCEPT !.mode = mode].sequence = state.sequence
         /\ [state EXCEPT !.version = version, !.task = task] \in States
         /\ [state EXCEPT !.version = version, !.task = task].sequence = state.sequence
BY Zenon DEF FilterInv, FilterShape

\* The steps of the runner but the commit.
LEMMA DrainKeeps ==
  ASSUME FilterInv, DrainFrame \/ DrainFails, AtStep(filterRunner.at) \/ DrainFails,
         filterRunner.at # "off", filterRunner' \in Runners(<<>>) \cup Runners(filterRunner.batch),
         state'.sequence = state.sequence, filterRows' = filterRows,
         state' \in [mode : {"light", "off"}, sequence : Nat, version : Releases,
                     task : {"idle", "running", "failed"}]
  PROVE  FilterInv'
<1>1. UNCHANGED <<blocks, intents, purged, kept, referenced, release, arriving, reading, up, hold>>
  BY DEF DrainFrame, DrainFails, filterHistory
<1>2. up
  BY DEF AtStep, DrainFails, Ready
<1>3. hold' # "held"
  BY <1>1, RunnerNow
<1>4. RunnerShape(filterRunner') /\ (filterRunner'.batch = <<>> \/ filterRunner'.batch = filterRunner.batch)
  BY BatchOf
<1>5. FilterShape'
  BY <1>1, <1>4 DEF FilterInv, FilterShape
<1>6. Quiet /\ HeldIsQuiet'
  BY <1>1, <1>3 DEF Quiet, HeldIsQuiet
<1>7. DOMAIN filterRunner'.batch = {} \/ (filterRunner'.batch = filterRunner.batch /\ up' = up)
  BY <1>1, <1>4, EmptyBatch
<1>. QED
  BY <1>1, <1>2, <1>5, <1>6, <1>7, QuietKeeps

LEMMA StatusKeeps == ASSUME FilterInv, Status PROVE FilterInv'
<1>1. filterRunner.at = "status" /\ AtStep("status") /\ DrainFrame /\ filterRows' = filterRows /\ state' = state
  BY DEF Status, AtStep
<1>2. filterRunner' \in Runners(<<>>) \cup Runners(filterRunner.batch)
  BY RunnerNow, AtFields, EndFields DEF Status, Steps
<1>3. state'.sequence = state.sequence
      /\ state' \in [mode : {"light", "off"}, sequence : Nat, version : Releases,
                     task : {"idle", "running", "failed"}]
  BY <1>1 DEF FilterInv, FilterShape
<1>. QED
  BY <1>1, <1>2, <1>3, DrainKeeps

LEMMA MarkKeeps == ASSUME FilterInv, Mark PROVE FilterInv'
<1>1. filterRunner.at = "mark" /\ AtStep("mark") /\ DrainFrame /\ filterRows' = filterRows
  BY DEF Mark, AtStep
<1>2. filterRunner' \in Runners(<<>>) \cup Runners(filterRunner.batch)
  BY RunnerNow, AtFields DEF Mark, Steps
<1>3. state'.sequence = state.sequence
      /\ state' \in [mode : {"light", "off"}, sequence : Nat, version : Releases,
                     task : {"idle", "running", "failed"}]
  BY RunnerNow, StateFields DEF Mark
<1>. QED
  BY <1>1, <1>2, <1>3, DrainKeeps

LEMMA SettleKeeps == ASSUME FilterInv, Settle PROVE FilterInv'
<1>1. filterRunner.at = "settle" /\ AtStep("settle") /\ DrainFrame /\ filterRows' = filterRows
  BY DEF Settle, AtStep
<1>2. filterRunner' \in Runners(<<>>) \cup Runners(filterRunner.batch)
  BY RunnerNow, EndFields DEF Settle
<1>3. state'.sequence = state.sequence
      /\ state' \in [mode : {"light", "off"}, sequence : Nat, version : Releases,
                     task : {"idle", "running", "failed"}]
  BY RunnerNow, StateFields DEF Settle
<1>. QED
  BY <1>1, <1>2, <1>3, DrainKeeps

LEMMA DrainFailsKeeps == ASSUME FilterInv, DrainFails PROVE FilterInv'
<1>1. filterRunner.at # "off" /\ filterRows' = filterRows
  BY DEF DrainFails
<1>2. filterRunner' \in Runners(<<>>) \cup Runners(filterRunner.batch)
  BY RunnerNow, RequestedFields, EndFields DEF DrainFails
<1>3. state'.sequence = state.sequence
      /\ state' \in [mode : {"light", "off"}, sequence : Nat, version : Releases,
                     task : {"idle", "running", "failed"}]
  <2>1. CASE state' = state
    BY <2>1 DEF FilterInv, FilterShape
  <2>2. CASE state' = [state EXCEPT !.task = "failed"]
    BY <2>2, RunnerNow, StateFields
  <2>. QED
    BY <2>1, <2>2 DEF DrainFails
<1>. QED
  BY <1>1, <1>2, <1>3, DrainKeeps

\* The wakes, the holds, the deaths and what only the reader writes.
LEMMA WakeKeeps == ASSUME FilterInv, WakeRunner PROVE FilterInv'
<1>1. /\ UNCHANGED <<blocks, filterRows, intents, purged, state, kept, referenced, release, arriving,
                     reading, up, hold>>
      /\ up
  BY DEF WakeRunner, store, filterHistory
<1>2. /\ filterRunner' \in Runners(<<>>) \cup Runners(filterRunner.batch)
      /\ hold = "held" => filterRunner'.at = filterRunner.at /\ filterRunner'.failed = filterRunner.failed
  <2>1. CASE hold # "none"
    BY <2>1, RunnerNow, RequestedFields DEF WakeRunner
  <2>2. CASE hold = "none"
    <3>1. PICK failed \in BOOLEAN : failed = (filterRunner.failed /\ wakeOwed # "retry")
      OBVIOUS
    <3>. QED
      BY <2>2, <3>1, RunnerNow, RequestedFields, IdleFields DEF WakeRunner
  <2>. QED
    BY <2>1, <2>2
<1>3. RunnerShape(filterRunner') /\ (filterRunner'.batch = <<>> \/ filterRunner'.batch = filterRunner.batch)
  BY <1>2, BatchOf
<1>4. FilterShape'
  BY <1>1, <1>3 DEF FilterInv, FilterShape
<1>5. Quiet /\ HeldIsQuiet'
  BY <1>1, <1>2, RunnerNow DEF Quiet, HeldIsQuiet
<1>6. DOMAIN filterRunner'.batch = {} \/ (filterRunner'.batch = filterRunner.batch /\ up' = up)
  BY <1>1, <1>3, EmptyBatch
<1>. QED
  BY <1>1, <1>4, <1>5, <1>6, QuietKeeps

LEMMA HoldKeeps ==
  ASSUME FilterInv, AskHold \/ GrantHold \/ Release \/ WorkerDies PROVE FilterInv'
<1>1. UNCHANGED <<blocks, filterRows, intents, purged, state, kept, referenced, release, reading>>
      /\ arriving' \subseteq arriving
  BY DEF AskHold, GrantHold, Release, WorkerDies, store, filterHistory
<1>2. /\ filterRunner' \in Runners(<<>>) \cup Runners(filterRunner.batch)
      /\ HeldIsQuiet' /\ (~up' => filterRunner' = IdleRunner)
      /\ filterRunner' \in Runners(<<>>) \/ (filterRunner' = filterRunner /\ up' = up)
  BY RunnerNow, IdleFields DEF AskHold, GrantHold, Release, WorkerDies, HeldIsQuiet
<1>3. RunnerShape(filterRunner')
  BY <1>2, BatchOf
<1>4. FilterShape'
  BY <1>1, <1>3 DEF FilterInv, FilterShape
<1>5. Quiet
  BY <1>1 DEF Quiet
<1>6. DOMAIN filterRunner'.batch = {} \/ (filterRunner'.batch = filterRunner.batch /\ up' = up)
  BY <1>2, EmptyBatch, BatchOf
<1>. QED
  BY <1>1, <1>2, <1>4, <1>5, <1>6, QuietKeeps

\* What leaves the inputs and the runner alone.
LEMMA AsideKeeps ==
  ASSUME FilterInv,
         \/ \E m \in {"light", "off"} : SetMode(m)
         \/ Recover \/ BeginUpgrade \/ FinishUpgrade \/ ArriveFails
  PROVE  FilterInv'
<1>1. /\ UNCHANGED <<blocks, filterRows, intents, purged, kept, referenced, release, reading, up, hold,
                     filterRunner>>
      /\ arriving' \subseteq arriving
  BY DEF SetMode, Recover, BeginUpgrade, FinishUpgrade, ArriveFails, store, filterWorker, filterHistory
<1>2. /\ state'.sequence = state.sequence
      /\ state' \in [mode : {"light", "off"}, sequence : Nat, version : Releases,
                     task : {"idle", "running", "failed"}]
  <2>1. CASE \E m \in {"light", "off"} : SetMode(m)
    BY <2>1, RunnerNow, StateFields DEF SetMode
  <2>2. CASE Recover
    BY <2>2, RunnerNow, StateFields DEF Recover
  <2>3. CASE FinishUpgrade
    BY <2>3, RunnerNow, StateFields DEF FinishUpgrade
  <2>4. CASE BeginUpgrade \/ ArriveFails
    BY <2>4 DEF BeginUpgrade, ArriveFails, store, FilterInv, FilterShape
  <2>. QED
    BY <2>1, <2>2, <2>3, <2>4
<1>3. FilterShape' /\ Quiet /\ HeldIsQuiet' /\ (~up' => filterRunner' = IdleRunner)
  BY <1>1, <1>2, RunnerNow DEF FilterInv, FilterShape, Quiet, HeldIsQuiet
<1>. QED
  BY <1>1, <1>3, QuietKeeps

\* A page of a reading adds what is not hidden from it.
LEMMA ReadPageKeeps == ASSUME FilterInv, ReadPage PROVE FilterInv'
<1>1. UNCHANGED <<blocks, filterRows, intents, purged, state, cursor, up, release, filterRunner, hold, arriving,
                  kept, referenced>>
  BY DEF ReadPage, store, filterWorker
<1>2. FilterShape' /\ Quiet /\ HeldIsQuiet'
  BY <1>1 DEF FilterInv, FilterShape, Quiet, HeldIsQuiet
<1>3. \A i \in Captured : Moves(i)
  BY <1>2, QuietMoves
<1>4. BatchOK'
  BY <1>1, <1>2, <1>3, BatchKeeps DEF FilterInv, BatchOK
<1>. DEFINE r == IF reading = Nothing
                 THEN [mode |-> state.mode, sequence |-> state.sequence, shown |-> {}] ELSE reading
            page == {i \in PresentInputs : ~Filtered(i, r.mode, r.sequence)}
            Readings == [mode : {"light", "off"}, sequence : Nat, shown : SUBSET Captured]
<1>5. reading' = [r EXCEPT !.shown = @ \cup page]
  BY DEF ReadPage
<1>6. /\ r \in Readings /\ r.sequence <= state.sequence
      /\ r.shown \subseteq PresentInputs \cup purged
      /\ \A i \in r.shown \cap PresentInputs : ~Filtered(i, r.mode, r.sequence)
  <2>1. CASE reading = Nothing
    <3>1. state.mode \in {"light", "off"} /\ state.sequence \in Nat /\ {} \in SUBSET Captured
      BY DEF FilterInv, FilterShape
    <3>2. r \in Readings /\ r.sequence = state.sequence /\ r.shown = {}
      BY <2>1, <3>1, Zenon
    <3>. QED
      BY <3>1, <3>2
  <2>2. CASE reading # Nothing
    BY <2>2 DEF FilterInv, ReadingOK, ReadingStays
  <2>. QED
    BY <2>1, <2>2
<1>7. page \subseteq PresentInputs /\ PresentInputs \subseteq Captured
  BY DEF PresentInputs
<1>. HIDE DEF r, page
<1>8. r.shown \cup page \in SUBSET Captured
  BY <1>6, <1>7
<1>9. /\ reading' \in Readings /\ reading'.mode = r.mode /\ reading'.sequence = r.sequence
      /\ reading'.shown = r.shown \cup page
  BY <1>5, <1>6, <1>8, Zenon
<1>10. ReadingOK'
  BY <1>1, <1>6, <1>7, <1>9 DEF ReadingOK, PresentInputs
<1>11. \A i \in reading'.shown \cap PresentInputs : ~Filtered(i, reading'.mode, reading'.sequence)
  BY <1>6, <1>9 DEF page
<1>12. ReadingStays'
  BY <1>1, <1>11 DEF ReadingStays, PresentInputs, Filtered, ValidDecision
<1>. QED
  BY <1>2, <1>3, <1>4, <1>10, <1>12 DEF FilterInv, Moves

\* The next worker, under the same or newer rules.
LEMMA RestartKeeps == ASSUME FilterInv, Restart PROVE FilterInv'
<1>1. /\ UNCHANGED <<blocks, filterRows, intents, purged, state, filterRunner, hold, arriving, reading, kept,
                     referenced>>
      /\ release' \in Releases /\ release' >= release /\ ~up /\ up'
  BY DEF Restart, store, filterHistory
<1>2. FilterShape' /\ HeldIsQuiet'
  BY <1>1 DEF FilterInv, FilterShape, HeldIsQuiet
<1>3. release \in Nat /\ release' \in Nat /\ state.sequence \in Nat
  BY <1>1, FilterAssumption DEF FilterInv, FilterShape
<1>4. ASSUME NEW i \in Captured PROVE Moves(i)
  <2>1. release <= release' /\ state'.sequence \in Nat /\ state.sequence <= state'.sequence
    BY <1>1, <1>3
  <2>2. /\ filterRows'[i] = filterRows[i] /\ blocks'[i] = blocks[i]
        /\ i \in intents' <=> i \in intents
        /\ i \in purged' <=> i \in purged
        /\ i \in kept' <=> i \in kept
        /\ i \in referenced' <=> i \in referenced
    BY <1>1
  <2>. QED
    BY <1>3, <2>1, <2>2, StillMoves
<1>5. ReadingOK' /\ ReadingStays'
  BY <1>1, <1>3, <1>4, ReadingKeeps
<1>6. BatchOK'
  <2>1. filterRunner'.batch = <<>>
    BY <1>1, RunnerNow, IdleFields
  <2>. QED
    BY <1>1, <2>1, EmptyBatch DEF BatchOK
<1>. QED
  BY <1>2, <1>4, <1>5, <1>6 DEF FilterInv, Moves

\* A batch is read: its items are what the rules say of the rows as they are.
LEMMA ReadKeeps == ASSUME FilterInv, Read PROVE FilterInv'
<1>1. /\ UNCHANGED <<blocks, filterRows, intents, purged, state, release, arriving, reading, kept,
                     referenced, up, hold>>
      /\ up /\ filterRunner.at # "off"
  BY DEF Read, DrainFrame, AtStep, Ready, filterHistory
<1>2. CASE filterRunner' = [filterRunner EXCEPT !.at = "settle"]
  <2>1. filterRunner' \in Runners(filterRunner.batch)
    BY <1>2, RunnerNow, AtFields DEF Steps
  <2>2. filterRunner.at = "read" /\ AtStep("read") /\ DrainFrame
    BY DEF Read, AtStep
  <2>3. state' \in [mode : {"light", "off"}, sequence : Nat, version : Releases,
                     task : {"idle", "running", "failed"}]
    BY <1>1 DEF FilterInv, FilterShape
  <2>. QED
    BY <1>1, <2>1, <2>2, <2>3, DrainKeeps
<1>3. ASSUME NEW s \in Batches,
             filterRunner' = [filterRunner EXCEPT !.at = "commit", !.batch =
               [i \in s |-> [revision |-> filterRows[i].revision, content |-> blocks[i].revision,
                             filter |-> DecideLight(filterRows[i], blocks[i].text)]]]
      PROVE  FilterInv'
  <2>. DEFINE batch == [i \in s |-> [revision |-> filterRows[i].revision, content |-> blocks[i].revision,
                                     filter |-> DecideLight(filterRows[i], blocks[i].text)]]
  <2>1. s \subseteq Pending
    BY DEF Batches
  <2>2. \A i \in s : /\ batch[i].revision = filterRows[i].revision
                     /\ batch[i].content = blocks[i].revision
                     /\ batch[i].filter = DecideLight(filterRows[i], blocks[i].text)
    OBVIOUS
  <2>3. DOMAIN batch = s
    OBVIOUS
  <2>. HIDE DEF batch
  <2>4. filterRunner' \in Runners(batch) /\ filterRunner'.batch = batch /\ RunnerShape(filterRunner')
    <3>1. filterRunner' = [filterRunner EXCEPT !.at = "commit", !.batch = batch]
      BY <1>3 DEF batch
    <3>2. filterRunner' \in Runners(batch)
      BY <3>1, RunnerNow, AtFields DEF Steps
    <3>. QED
      BY <3>2, BatchOf
  <2>5. FilterShape' /\ Quiet /\ HeldIsQuiet'
    BY <1>1, <2>4, RunnerNow DEF FilterInv, FilterShape, Quiet, HeldIsQuiet
  <2>6. ASSUME NEW i \in s PROVE ItemOK(i)'
    <3>1. i \in Captured /\ filterRows[i] # Nothing
      BY <2>1 DEF Pending
    <3>2. blocks[i] # Nothing
      BY <3>1 DEF FilterInv, InputOK
    <3>3. filterRows[i].revision \in Nat /\ blocks[i].revision \in Nat
      BY <3>1, <3>2, Numbers DEF FilterInv
    <3>4. DecideLight(filterRows[i], blocks[i].text) \in BOOLEAN
      BY DEF DecideLight
    <3>5. DecideLight(filterRows[i], blocks[i].text)' <=> DecideLight(filterRows[i], blocks[i].text)
      BY <1>1 DEF DecideLight
    <3>. QED
      BY <1>1, <2>2, <2>4, <3>1, <3>3, <3>4, <3>5 DEF ItemOK
  <2>7. BatchOK'
    BY <1>1, <2>3, <2>4, <2>6 DEF BatchOK
  <2>8. (\A i \in Captured : Moves(i)) /\ ReadingOK' /\ ReadingStays'
    BY <1>1, <2>5, QuietMoves
  <2>. QED
    BY <2>5, <2>7, <2>8 DEF FilterInv, Moves
<1>. QED
  BY <1>2, <1>3 DEF Read

-----------------------------------------------------------------------------
\* The steps that write to one input.
LEMMA UpgradeBatchKeeps == ASSUME FilterInv, UpgradeBatch PROVE FilterInv'
<1>1. PICK i \in PresentInputs \ cursor, failed \in BOOLEAN :
        filterRows' = [filterRows EXCEPT ![i] = UpgradedRow(i, failed)]
  BY DEF UpgradeBatch
<1>2. UNCHANGED <<blocks, intents, purged, state, up, release, filterRunner, hold, arriving, reading,
                  kept, referenced>>
  BY DEF UpgradeBatch, filterWorker, filterHistory
<1>3. i \in Captured /\ blocks[i] # Nothing /\ filterRows \in [Captured -> Rows \cup {Nothing}]
  BY DEF PresentInputs, FilterInv, FilterShape
<1>4. filterRows'[i] = UpgradedRow(i, failed)
  BY <1>1, <1>3
<1>5. Moves(i) /\ filterRows'[i] \in Rows
  BY <1>2, <1>3, <1>4, UpgradeMoves DEF Others
<1>6. /\ filterRows' \in [Captured -> Rows \cup {Nothing}]
      /\ \A j \in Captured \ {i} : filterRows'[j] = filterRows[j]
  BY <1>1, <1>3, <1>4, <1>5
<1>7. FilterShape'
  BY <1>2, <1>6 DEF FilterInv, FilterShape
<1>. QED
  BY <1>2, <1>3, <1>5, <1>6, <1>7, WriteKeeps

LEMMA CaptureKeeps ==
  ASSUME FilterInv, NEW i \in Captured, NEW text \in Wordings, NEW p \in Observed, Capture(i, text, p)
  PROVE  FilterInv'
<1>1. /\ UNCHANGED <<filterRows, intents, purged, state, up, release, filterRunner, hold, reading, kept,
                     referenced>>
      /\ arriving' = arriving \cup {<<i, p>>} /\ i \notin purged
  BY DEF Capture, filterHistory
<1>. DEFINE new == IF blocks[i] = Nothing THEN [text |-> text, revision |-> 0] ELSE blocks[i]
<1>2. blocks' = [blocks EXCEPT ![i] = new]
  BY DEF Capture
<1>3. blocks \in [Captured -> Blocks \cup {Nothing}] /\ FilterShape
  BY DEF FilterInv, FilterShape
<1>4. new \in Blocks
  <2>1. CASE blocks[i] = Nothing
    BY <2>1 DEF Blocks
  <2>2. CASE blocks[i] # Nothing
    BY <1>3, <2>2
  <2>. QED
    BY <2>1, <2>2
<1>5. blocks[i] # Nothing => new = blocks[i]
  OBVIOUS
<1>. HIDE DEF new
<1>6. /\ blocks' \in [Captured -> Blocks \cup {Nothing}] /\ blocks'[i] = new
      /\ \A j \in Captured \ {i} : blocks'[j] = blocks[j]
  BY <1>2, <1>3, <1>4
<1>7. Moves(i)
  <2>1. CASE blocks[i] = Nothing
    BY <1>1, <1>4, <1>6, <2>1, CaptureMoves
  <2>2. CASE blocks[i] # Nothing
    <3>1. release' \in Nat /\ release <= release' /\ state'.sequence \in Nat
          /\ state.sequence <= state'.sequence
      BY <1>1, <1>3, Numbers
    <3>2. blocks'[i] = blocks[i]
      BY <1>5, <1>6, <2>2
    <3>. QED
      BY <1>1, <3>1, <3>2, StillMoves
  <2>. QED
    BY <2>1, <2>2
<1>8. FilterShape'
  BY <1>1, <1>3, <1>6 DEF FilterShape
<1>. QED
  BY <1>1, <1>6, <1>7, <1>8, WriteKeeps

LEMMA ArriveKeeps == ASSUME FilterInv, Arrive PROVE FilterInv'
<1>1. PICK a \in arriving :
        /\ arriving' = arriving \ {a}
        /\ IF a[1] \in purged \/ blocks[a[1]] = Nothing
           THEN UNCHANGED <<filterRows, referenced>>
           ELSE /\ filterRows' = [filterRows EXCEPT ![a[1]] = Observe(a[1], a[2])]
                /\ referenced' = IF a[2] = "present" THEN referenced \cup {a[1]} ELSE referenced
  BY DEF Arrive
<1>2. UNCHANGED <<blocks, intents, purged, state, up, release, filterRunner, hold, reading, kept>>
  BY DEF Arrive
<1>3. FilterShape /\ a[1] \in Captured /\ a[2] \in Observed
  BY DEF FilterInv, FilterShape
<1>4. CASE a[1] \in purged \/ blocks[a[1]] = Nothing
  <2>1. UNCHANGED <<filterRows, referenced>>
    BY <1>1, <1>4
  <2>2. FilterShape' /\ Quiet /\ HeldIsQuiet' /\ (~up' => filterRunner' = IdleRunner)
    BY <1>1, <1>2, <1>3, <2>1, RunnerNow DEF FilterInv, FilterShape, Quiet, HeldIsQuiet
  <2>. QED
    BY <1>2, <2>2, QuietKeeps
<1>5. CASE ~(a[1] \in purged \/ blocks[a[1]] = Nothing)
  <2>. DEFINE i == a[1]
  <2>1. PICK p \in Observed : p = a[2]
    BY <1>3
  <2>2. PICK new : new = Observe(i, p)
    OBVIOUS
  <2>3. filterRows' = [filterRows EXCEPT ![i] = new] /\ blocks[i] # Nothing /\ i \in Captured
        /\ referenced' = IF p = "present" THEN referenced \cup {i} ELSE referenced
    BY <1>1, <1>3, <1>5, <2>1, <2>2
  <2>. HIDE DEF i
  <2>4. filterRows \in [Captured -> Rows \cup {Nothing}] /\ filterRows'[i] = new
    BY <1>3, <2>3 DEF FilterShape
  <2>5. Moves(i) /\ filterRows'[i] \in Rows
    BY <1>2, <2>2, <2>3, <2>4, ObserveMoves DEF Others
  <2>6. /\ filterRows' \in [Captured -> Rows \cup {Nothing}]
        /\ \A j \in Captured \ {i} : filterRows'[j] = filterRows[j]
    BY <2>3, <2>4, <2>5
  <2>7. \A j \in Captured \ {i} : j \in referenced' <=> j \in referenced
    BY <2>3
  <2>8. FilterShape'
    BY <1>1, <1>2, <1>3, <2>6 DEF FilterShape
  <2>. QED
    BY <1>2, <2>3, <2>5, <2>6, <2>7, <2>8, WriteKeeps
<1>. QED
  BY <1>4, <1>5

\* protect, with the text that an edit leaves.
LEMMA ProtectKeeps ==
  ASSUME FilterInv, NEW i \in Captured, blocks[i] # Nothing, Protect(i), NEW b \in Blocks,
         blocks' = [blocks EXCEPT ![i] = b], blocks[i].revision <= b.revision
  PROVE  FilterInv'
<1>1. UNCHANGED <<purged, state, up, release, filterRunner, hold, arriving, reading, referenced>>
  BY DEF Protect
<1>2. PICK new : new = Protected(i)
  OBVIOUS
<1>3. filterRows' = [filterRows EXCEPT ![i] = new] /\ intents' = intents \cup {i} /\ kept' = kept \cup {i}
  BY <1>2 DEF Protect
<1>4. /\ filterRows \in [Captured -> Rows \cup {Nothing}] /\ blocks \in [Captured -> Blocks \cup {Nothing}]
      /\ FilterShape
  BY DEF FilterInv, FilterShape
<1>5. filterRows'[i] = new /\ blocks'[i] = b
  BY <1>3, <1>4
<1>6. Moves(i) /\ filterRows'[i] \in Rows
  BY <1>1, <1>2, <1>3, <1>5, ProtectMoves DEF Others
<1>7. /\ filterRows' \in [Captured -> Rows \cup {Nothing}] /\ blocks' \in [Captured -> Blocks \cup {Nothing}]
      /\ \A j \in Captured \ {i} : filterRows'[j] = filterRows[j] /\ blocks'[j] = blocks[j]
  BY <1>3, <1>4, <1>5, <1>6
<1>8. \A j \in Captured \ {i} :
        /\ j \in intents' <=> j \in intents
        /\ j \in kept' <=> j \in kept
  BY <1>3
<1>9. FilterShape'
  BY <1>1, <1>3, <1>4, <1>7 DEF FilterShape
<1>. QED
  BY <1>1, <1>6, <1>7, <1>8, <1>9, WriteKeeps

LEMMA EditKeeps == ASSUME FilterInv, NEW i \in Captured, Edit(i) PROVE FilterInv'
<1>1. blocks[i] # Nothing /\ Protect(i)
  BY DEF Edit, PresentInputs
<1>2. blocks[i] \in Blocks /\ blocks[i].revision \in Nat
  BY <1>1, Numbers DEF FilterInv
<1>. DEFINE b == [text |-> Substance, revision |-> blocks[i].revision + 1]
<1>3. b \in Blocks /\ b.revision = blocks[i].revision + 1
  BY <1>2 DEF Blocks
<1>4. b = [text |-> Substance, revision |-> blocks[i].revision + 1]
  OBVIOUS
<1>5. blocks' = [blocks EXCEPT ![i] = b]
  BY DEF Edit
<1>. HIDE DEF b
<1>6. blocks[i].revision <= b.revision
  BY <1>2, <1>3
<1>. QED
  BY <1>1, <1>3, <1>5, <1>6, ProtectKeeps

LEMMA KeepKeeps == ASSUME FilterInv, NEW i \in Captured, Keep(i) PROVE FilterInv'
<1>1. blocks[i] # Nothing /\ Protect(i) /\ blocks' = blocks
  BY DEF Keep, PresentInputs
<1>2. blocks[i] \in Blocks /\ blocks[i].revision \in Nat
      /\ blocks \in [Captured -> Blocks \cup {Nothing}]
  BY <1>1, Numbers DEF FilterInv, FilterShape
<1>3. blocks' = [blocks EXCEPT ![i] = blocks[i]] /\ blocks[i].revision <= blocks[i].revision
  BY <1>1, <1>2
<1>. QED
  BY <1>1, <1>2, <1>3, ProtectKeeps

LEMMA PurgeKeeps == ASSUME FilterInv, NEW i \in Captured, PurgeInput(i) PROVE FilterInv'
<1>1. /\ UNCHANGED <<state, up, release, filterRunner, hold, arriving, reading, kept, referenced>>
      /\ blocks' = [blocks EXCEPT ![i] = Nothing] /\ filterRows' = [filterRows EXCEPT ![i] = Nothing]
      /\ intents' = intents \ {i} /\ purged' = purged \cup {i}
  BY DEF PurgeInput, filterHistory
<1>2. /\ filterRows \in [Captured -> Rows \cup {Nothing}] /\ blocks \in [Captured -> Blocks \cup {Nothing}]
      /\ FilterShape
  BY DEF FilterInv, FilterShape
<1>3. /\ filterRows' \in [Captured -> Rows \cup {Nothing}] /\ blocks' \in [Captured -> Blocks \cup {Nothing}]
      /\ filterRows'[i] = Nothing /\ blocks'[i] = Nothing
      /\ \A j \in Captured \ {i} : filterRows'[j] = filterRows[j] /\ blocks'[j] = blocks[j]
  BY <1>1, <1>2
<1>4. Moves(i)
  BY <1>1, <1>3, PurgeMoves
<1>5. FilterShape'
  BY <1>1, <1>2, <1>3 DEF FilterShape
<1>. QED
  BY <1>1, <1>3, <1>4, <1>5, WriteKeeps

-----------------------------------------------------------------------------
\* A batch is committed: each item that still applies gets a number of its
\* own above those given before.
LEMMA CommitKeeps == ASSUME FilterInv, CommitDecisions PROVE FilterInv'
<1>1. /\ UNCHANGED <<blocks, intents, purged, release, arriving, reading, kept, referenced, up,
                     hold>>
      /\ up /\ filterRunner.at = "commit" /\ AtStep("commit") /\ DrainFrame
  BY DEF CommitDecisions, DrainFrame, AtStep, Ready, filterHistory
<1>2. FilterShape /\ BatchOK /\ state.sequence \in Nat
  BY DEF FilterInv, FilterShape
<1>. DEFINE applied == {i \in DOMAIN filterRunner.batch : Applies(i)}
<1>3. CASE state.mode = "off" \/ applied = {}
  <2>1. filterRunner' = [filterRunner EXCEPT !.at = "settle", !.batch = <<>>] /\ UNCHANGED <<filterRows, state>>
    BY <1>3 DEF CommitDecisions
  <2>2. filterRunner' \in Runners(<<>>)
    BY <2>1, RunnerNow, AtFields DEF Steps
  <2>3. state' \in [mode : {"light", "off"}, sequence : Nat, version : Releases,
                     task : {"idle", "running", "failed"}]
    BY <1>2, <2>1 DEF FilterShape
  <2>. QED
    BY <1>1, <2>1, <2>2, <2>3, DrainKeeps
<1>4. CASE ~(state.mode = "off" \/ applied = {})
  <2>1. PICK order \in [applied -> 1..Cardinality(applied)] :
          filterRows' = [i \in Captured |-> IF i \in applied THEN Decided(i, state.sequence + order[i])
                                    ELSE filterRows[i]]
    BY <1>4 DEF CommitDecisions
  <2>2. state' = [state EXCEPT !.sequence = @ + Cardinality(applied)]
        /\ filterRunner' = [filterRunner EXCEPT !.at = "read", !.batch = <<>>]
    BY <1>4 DEF CommitDecisions
  <2>3. applied \subseteq Captured
    BY <1>2 DEF BatchOK, ItemOK
  <2>4. Cardinality(applied) \in Nat
    <3>. HIDE DEF applied
    <3>1. IsFiniteSet(applied)
      BY <2>3, FilterAssumption, FS_Subset
    <3>. QED
      BY <3>1, FS_CardinalityType
  <2>5. PICK count \in Nat : count = Cardinality(applied)
    BY <2>4
  <2>6. /\ state'.sequence = state.sequence + count
        /\ state' \in [mode : {"light", "off"}, sequence : Nat, version : Releases,
                       task : {"idle", "running", "failed"}]
    <3>1. state.sequence + count \in Nat
      BY <1>2, <2>5
    <3>2. state' = [state EXCEPT !.sequence = state.sequence + count]
      BY <2>2, <2>5, Zenon
    <3>. QED
      BY <1>2, <3>1, <3>2, Zenon DEF FilterShape
  <2>7. state'.sequence \in Nat /\ state.sequence <= state'.sequence
    BY <1>2, <2>5, <2>6
  <2>8. ASSUME NEW i \in applied
        PROVE  Moves(i) /\ filterRows'[i] \in Rows
    <3>1. order[i] \in Nat /\ 1 <= order[i] /\ order[i] <= count
      BY <2>5
    <3>2. PICK n \in Nat : n = state.sequence + order[i]
      BY <1>2, <3>1
    <3>3. state.sequence < n /\ n <= state'.sequence
      BY <1>2, <2>5, <2>6, <3>1, <3>2
    <3>4. filterRows'[i] = Decided(i, n)
      BY <2>1, <2>3, <3>2
    <3>5. /\ blocks'[i] = blocks[i] /\ release' = release
          /\ i \in intents' <=> i \in intents
          /\ i \in purged' <=> i \in purged
          /\ i \in kept' <=> i \in kept
          /\ i \in referenced' <=> i \in referenced
      BY <1>1
    <3>. QED
      BY <2>7, <3>3, <3>4, <3>5, DecideMoves
  <2>9. ASSUME NEW i \in Captured, i \notin applied
        PROVE  Moves(i) /\ filterRows'[i] \in Rows \cup {Nothing}
    <3>1. filterRows'[i] = filterRows[i]
      BY <2>1, <2>9
    <3>2. release \in Nat /\ release' \in Nat /\ release <= release'
      BY <1>1, <1>2, Numbers
    <3>3. /\ blocks'[i] = blocks[i]
          /\ i \in intents' <=> i \in intents
          /\ i \in purged' <=> i \in purged
          /\ i \in kept' <=> i \in kept
          /\ i \in referenced' <=> i \in referenced
      BY <1>1
    <3>. QED
      BY <1>2, <2>7, <3>1, <3>2, <3>3, StillMoves DEF FilterShape
  <2>. HIDE DEF applied
  <2>10. \A i \in Captured : Moves(i) /\ filterRows'[i] \in Rows \cup {Nothing}
    BY <2>8, <2>9
  <2>11. filterRows' \in [Captured -> Rows \cup {Nothing}]
    BY <2>1, <2>10
  <2>12. filterRunner' \in Runners(<<>>) /\ filterRunner'.batch = <<>> /\ RunnerShape(filterRunner')
    BY <2>2, RunnerNow, AtFields, BatchOf DEF Steps
  <2>13. FilterShape'
    BY <1>1, <1>2, <2>6, <2>11, <2>12 DEF FilterShape
  <2>14. BatchOK'
    BY <1>1, <2>12, EmptyBatch DEF BatchOK
  <2>15. HeldIsQuiet'
    BY <1>1, RunnerNow DEF HeldIsQuiet
  <2>16. ReadingOK' /\ ReadingStays'
    BY <1>1, <2>7, <2>10, ReadingKeeps
  <2>. QED
    BY <2>10, <2>13, <2>14, <2>15, <2>16 DEF FilterInv, Moves
<1>. QED
  BY <1>3, <1>4

-----------------------------------------------------------------------------
LEMMA FilterInvInit == FilterInit => FilterInv
<1>. SUFFICES ASSUME FilterInit PROVE FilterInv
  OBVIOUS
<1>. USE DEF FilterInit
<1>1. FilterShape
  <2>1. RunnerShape(filterRunner)
    BY IdleFields, BatchOf
  <2>. QED
    BY <2>1, FilterAssumption DEF FilterShape
<1>2. BatchOK
  BY IdleFields, EmptyBatch DEF BatchOK
<1>3. ReadingOK /\ ReadingStays /\ HeldIsQuiet
  BY DEF ReadingOK, ReadingStays, HeldIsQuiet
<1>4. \A i \in Captured : InputOK(i)
  BY DEF InputOK
<1>. QED
  BY <1>1, <1>2, <1>3, <1>4 DEF FilterInv

LEMMA FilterInvStep == FilterInv /\ [FilterNext]_filterVars => FilterInv'
<1>. SUFFICES ASSUME FilterInv, [FilterNext]_filterVars PROVE FilterInv'
  OBVIOUS
<1>1. CASE Message
  BY <1>1, CaptureKeeps, EditKeeps, KeepKeeps, PurgeKeeps, AsideKeeps, ReadPageKeeps DEF Message
<1>2. CASE Drain
  BY <1>2, StatusKeeps, MarkKeeps, ReadKeeps, CommitKeeps, SettleKeeps DEF Drain
<1>3. CASE Upgrade
  BY <1>3, AsideKeeps, UpgradeBatchKeeps DEF Upgrade
<1>4. CASE Arrive \/ ArriveFails \/ WakeRunner \/ DrainFails
  BY <1>4, ArriveKeeps, AsideKeeps, WakeKeeps, DrainFailsKeeps
<1>5. CASE AskHold \/ GrantHold \/ Release \/ WorkerDies \/ Restart
  BY <1>5, HoldKeeps, RestartKeeps
<1>6. CASE UNCHANGED filterVars
  <2>1. UNCHANGED <<blocks, filterRows, intents, purged, state, release, arriving, reading, kept,
                    referenced, up, hold, filterRunner>>
    BY <1>6 DEF filterVars, store, filterWorker, filterHistory
  <2>2. FilterShape' /\ Quiet /\ HeldIsQuiet' /\ (~up' => filterRunner' = IdleRunner)
    BY <2>1, RunnerNow DEF FilterInv, FilterShape, Quiet, HeldIsQuiet
  <2>. QED
    BY <2>1, <2>2, QuietKeeps
<1>. QED
  BY <1>1, <1>2, <1>3, <1>4, <1>5, <1>6 DEF FilterNext

LEMMA FilterInvSuffices == FilterInv => FilterIsSound
<1>. SUFFICES ASSUME FilterInv PROVE FilterIsSound
  OBVIOUS
<1>1. FilterTypeOK
  BY DEF FilterInv, FilterShape, RunnerShape, Runners, Steps, FilterTypeOK, Blocks
<1>2. HiddenIsJustified
  <2>1. SUFFICES ASSUME NEW i \in Captured, Hidden(i)
                 PROVE  /\ blocks[i].text \in Hides[release]
                        /\ i \notin kept /\ i \notin referenced
    BY DEF HiddenIsJustified
  <2>2. InputOK(i) /\ blocks[i] # Nothing /\ filterRows[i] # Nothing /\ RowOK(filterRows[i], blocks[i])
    BY <2>1 DEF FilterInv, Hidden, PresentInputs, Filtered, ValidDecision, InputOK
  <2>3. /\ filterRows[i].filter /\ ~filterRows[i].keep /\ filterRows[i].presence # "present"
        /\ InForce(filterRows[i], blocks[i]) /\ i \notin intents
    BY <2>1 DEF Hidden, Filtered, ValidDecision, InForce
  <2>4. DecideLight(filterRows[i], blocks[i].text)
    BY <2>2, <2>3 DEF RowOK
  <2>. QED
    BY <2>2, <2>3, <2>4 DEF DecideLight, InputOK
<1>3. DecisionsAreCurrent
  BY DEF FilterInv, DecisionsAreCurrent, InputOK, RowOK, InForce, PresentInputs
<1>4. PurgedLeavesNothing
  BY DEF FilterInv, FilterShape, InputOK, PurgedLeavesNothing
<1>. QED
  BY <1>1, <1>2, <1>3, <1>4 DEF FilterIsSound, FilterInv

(* The filter only hides what its rules, as they are now, hide, and nothing *)
(* the user touched or a reference was seen in; a decision in force is what *)
(* the rules say of the row as it is; a reading keeps what it has shown,    *)
(* a purge leaves nothing and a held runner is quiet                        *)
(* (smart-filter-store-owner.js, filter-runner.js).                         *)
THEOREM FilterSafe == FilterSpec => []FilterIsSound
BY FilterInvInit, FilterInvStep, FilterInvSuffices, PTL DEF FilterSpec

=============================================================================
