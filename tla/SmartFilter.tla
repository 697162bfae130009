---------------------------- MODULE SmartFilter ----------------------------
(***************************************************************************)
(* The local filter that hides mere controls ("go on") from the library:   *)
(* core/smart-filter-store-owner.js decides in two transactions, reading a *)
(* batch and committing it against revisions; core/filter-runner.js drains *)
(* the pending rows in the worker and stands still for an application that *)
(* is being selected.  A capture, an edit, a keep, a purge, a change of    *)
(* mode or a newer release of the rules comes between any two of these     *)
(* transactions, and the worker may die there.  Removed inputs are not     *)
(* modelled: they are not listed whatever is decided about them.           *)
(***************************************************************************)
EXTENDS Naturals, FiniteSets

CONSTANTS Captured,
          Wordings,  \* the kinds of text a captured input may have
          Observed, \* what a scan says of references: some of "none", "absent",
                    \* "present", "invalid"
          Substance, \* what the user writes, which no release hides
          Releases, \* the releases of the rules, a set of numbers with 1
          Hides,    \* per release, the texts it takes for mere controls
          BatchSize, \* how many rows a batch has
          Nothing,
          MaxWrites, \* bound: messages that write
          MaxFailures, \* bound: failed transactions, deaths of the worker
          MaxHolds   \* bound: holds for an application selection

VARIABLES blocks,  \* per input [text, revision], or Nothing
          filterRows, \* per input its row of filterInputs, or Nothing
          intents, \* the inputs with a row of filterIntents
          purged,  \* the inputs with a tombstone
          state,   \* the row smart-filter: [mode, sequence, version, task]
          cursor,  \* the rows an upgrade has gone over, or Nothing: active
          up,      \* whether the worker lives
          release, \* the release of the rules it runs
          filterRunner, \* [at, batch, requested, failed]
          hold,    \* "none", "waiting" or "held"
          arriving, \* captures whose second transaction is still to come: <<input, presence>>
          wakeOwed, \* the wake that follows what was answered: "none", "plain" or "retry"
          reading, \* an open reading: [mode, sequence, shown], or Nothing
          kept, referenced, \* history: protected by the user; known to carry references
          writes, failures, holds

store == <<blocks, filterRows, intents, purged, state, cursor>>
filterWorker == <<up, release, filterRunner, hold, arriving, wakeOwed>>
filterHistory == <<reading, kept, referenced>>
filterBounds == <<writes, failures, holds>>
filterVars == <<store, filterWorker, filterHistory, filterBounds>>

\* What a row of the text of an input and a row of filterInputs hold.
Blocks == [text : Wordings \cup {Substance}, revision : Nat]
Rows == [presence : {"none", "absent", "present"}, invalid : BOOLEAN, keep : BOOLEAN,
         revision : Nat, pending : BOOLEAN, filter : BOOLEAN, based : Nat, version : Releases,
         sequence : Nat]

ASSUME FilterAssumption ==
    /\ IsFiniteSet(Captured)
    /\ Observed \subseteq {"none", "absent", "present", "invalid"}
    /\ Releases \subseteq Nat /\ 1 \in Releases
    /\ Nothing \notin Blocks /\ Nothing \notin Rows

IdleRunner == [at |-> "off", batch |-> <<>>, requested |-> FALSE, failed |-> FALSE]

FilterInit ==
    /\ blocks = [i \in Captured |-> Nothing] /\ filterRows = [i \in Captured |-> Nothing]
    /\ intents = {} /\ purged = {}
    /\ state = [mode |-> "light", sequence |-> 0, version |-> 1, task |-> "idle"]
    /\ cursor = Nothing /\ up = TRUE /\ release = 1
    /\ filterRunner = IdleRunner /\ hold = "none" /\ arriving = {} /\ wakeOwed = "plain"
    /\ reading = Nothing /\ kept = {} /\ referenced = {}
    /\ writes = 0 /\ failures = 0 /\ holds = 0

-----------------------------------------------------------------------------
(* Rows and decisions. *)
PresentInputs == {i \in Captured : blocks[i] # Nothing}
Pending == {i \in Captured : filterRows[i] # Nothing /\ filterRows[i].pending}

(* planInitialFilter: an authored input is kept from the start. *)
InitialRow(b) ==
    [presence |-> "none", invalid |-> FALSE, keep |-> b.revision > 0, revision |-> 0,
     pending |-> TRUE, filter |-> FALSE, based |-> b.revision, version |-> release, sequence |-> 0]
RowOf(i) == IF filterRows[i] = Nothing THEN InitialRow(blocks[i]) ELSE filterRows[i]

(* decideLight: whatever speaks for the text keeps it visible; "keep" and  *)
(* "uncertain" are one to the reader.                                      *)
DecideLight(row, text) ==
    /\ ~row.keep /\ row.presence # "present" /\ ~row.invalid
    /\ text \in Hides[release]

(* validFilterDecision and isFiltered, with a reading's snapshot. *)
ValidDecision(i) ==
    /\ filterRows[i] # Nothing
    /\ filterRows[i].filter /\ ~filterRows[i].keep /\ ~filterRows[i].invalid /\ filterRows[i].presence # "present"
    /\ filterRows[i].based = blocks[i].revision /\ filterRows[i].version = release
Filtered(i, mode, sequence) ==
    /\ mode = "light" /\ ValidDecision(i)
    /\ filterRows[i].sequence <= sequence
    /\ i \notin intents
Hidden(i) == i \in PresentInputs /\ Filtered(i, state.mode, state.sequence)

-----------------------------------------------------------------------------
(* Every operation first finishes an upgrade (run, initializeFilter). *)
Ready == up /\ cursor = Nothing /\ state.version = release

BeginUpgrade ==
    /\ up /\ cursor = Nothing /\ state.version # release
    /\ cursor' = {}
    /\ UNCHANGED <<blocks, filterRows, intents, purged, state, filterWorker, filterHistory, filterBounds>>

Outdated(row, b) ==
    \/ row.sequence = 0 /\ ~row.keep
    \/ row.version # release
    \/ row.based # b.revision

(* A pending row may bear the mark of a task that failed (setFilterTask),  *)
(* until a commit or the user decides it.                                  *)
UpgradedRow(i, failed) ==
    IF filterRows[i] = Nothing THEN InitialRow(blocks[i])
    ELSE IF Outdated(filterRows[i], blocks[i]) \/ (failed /\ filterRows[i].pending)
         THEN [filterRows[i] EXCEPT !.pending = TRUE, !.revision = @ + 1] ELSE filterRows[i]

UpgradeBatch ==
    /\ up /\ cursor # Nothing
    /\ \E i \in PresentInputs \ cursor :
         /\ cursor' = cursor \cup {i}
         /\ \E failed \in BOOLEAN : filterRows' = [filterRows EXCEPT ![i] = UpgradedRow(i, failed)]
    /\ UNCHANGED <<blocks, intents, purged, state, filterWorker, filterHistory, filterBounds>>

FinishUpgrade ==
    /\ up /\ cursor # Nothing /\ PresentInputs \subseteq cursor
    /\ cursor' = Nothing
    /\ state' = [state EXCEPT !.version = release, !.task = "idle"]
    /\ UNCHANGED <<blocks, filterRows, intents, purged, filterWorker, filterHistory, filterBounds>>

-----------------------------------------------------------------------------
(* What the messages of the pages write; each is answered, then followed   *)
(* by scheduleFilter.                                                      *)
Write == Ready /\ writes < MaxWrites /\ writes' = writes + 1
Owe(kind) == wakeOwed' = IF wakeOwed = "retry" THEN "retry" ELSE kind

(* sourceOperation: the capture is saved first; what was seen around the   *)
(* message is merged in a transaction of its own, which may fail.          *)
Capture(i, text, presence) ==
    /\ Write /\ i \notin purged
    /\ blocks' = [blocks EXCEPT ![i] = IF @ = Nothing THEN [text |-> text, revision |-> 0] ELSE @]
    /\ arriving' = arriving \cup {<<i, presence>>}
    /\ UNCHANGED <<filterRows, intents, purged, state, cursor, up, release, filterRunner, hold, wakeOwed, filterHistory,
                   failures, holds>>

Seen(presence) == IF presence = "invalid" THEN "none" ELSE presence
(* Line 98 queues an undecided row whose metadata was unknown again: it is *)
(* pending already, since a committed decision of that kind has presence   *)
(* null (an invalid scan stores none) and the row is then left alone.      *)
Merged(row, presence) == IF row.presence = "present" THEN "present" ELSE Seen(presence)
ObserveLatest(i, presence) == \* mutant
    LET row == [RowOf(i) EXCEPT !.keep = @ \/ i \in intents] IN
    [row EXCEPT !.presence = Seen(presence), !.invalid = presence = "invalid",
                !.revision = @ + 1, !.pending = TRUE, !.filter = FALSE]
Observe(i, presence) ==
    LET row == [RowOf(i) EXCEPT !.keep = @ \/ i \in intents]
        merged == Merged(row, presence)
        changed == row.presence # merged \/ row.invalid # (presence = "invalid")
    IN IF changed
       THEN [row EXCEPT !.presence = merged, !.invalid = presence = "invalid",
                        !.revision = @ + 1, !.pending = TRUE, !.filter = FALSE]
       ELSE row

Arrive ==
    /\ Ready
    /\ \E a \in arriving :
         /\ arriving' = arriving \ {a}
         /\ IF a[1] \in purged \/ blocks[a[1]] = Nothing
            THEN UNCHANGED <<filterRows, referenced>>
            ELSE /\ filterRows' = [filterRows EXCEPT ![a[1]] = Observe(a[1], a[2])]
                 /\ referenced' = IF a[2] = "present" THEN referenced \cup {a[1]} ELSE referenced
    /\ Owe("plain")
    /\ UNCHANGED <<blocks, intents, purged, state, cursor, up, release, filterRunner, hold, reading, kept,
                   filterBounds>>

ArriveFails ==
    /\ up /\ failures < MaxFailures /\ failures' = failures + 1
    /\ \E a \in arriving : arriving' = arriving \ {a}
    /\ Owe("plain")
    /\ UNCHANGED <<store, up, release, filterRunner, hold, filterHistory, writes, holds>>

(* protect: the row and the intent of the source. *)
Protected(i) ==
    [RowOf(i) EXCEPT !.keep = TRUE, !.revision = @ + 1, !.pending = FALSE, !.filter = FALSE]

Protect(i) ==
    /\ filterRows' = [filterRows EXCEPT ![i] = Protected(i)]
    /\ intents' = intents \cup {i} /\ kept' = kept \cup {i}
    /\ Owe("plain")
    /\ UNCHANGED <<purged, state, cursor, up, release, filterRunner, hold, arriving, reading, referenced,
                   failures, holds>>

Edit(i) ==
    /\ Write /\ i \in PresentInputs
    /\ blocks' = [blocks EXCEPT ![i] = [text |-> Substance, revision |-> @.revision + 1]]
    /\ Protect(i)
Keep(i) ==
    /\ Write /\ i \in PresentInputs
    /\ Protect(i) /\ UNCHANGED blocks

(* The admission of a purge lets only untouched inputs through. *)
PurgeInput(i) ==
    /\ Write /\ i \in PresentInputs /\ blocks[i].revision = 0
    /\ blocks' = [blocks EXCEPT ![i] = Nothing] /\ filterRows' = [filterRows EXCEPT ![i] = Nothing]
    /\ intents' = intents \ {i} /\ purged' = purged \cup {i}
    /\ Owe("plain")
    /\ UNCHANGED <<state, cursor, up, release, filterRunner, hold, arriving, filterHistory, failures, holds>>

SetMode(mode) ==
    /\ Write
    /\ state' = [state EXCEPT !.mode = mode]
    /\ wakeOwed' = "retry"
    /\ UNCHANGED <<blocks, filterRows, intents, purged, cursor, up, release, filterRunner, hold, arriving,
                   filterHistory, failures, holds>>

(* recoverFilters goes over every row again. *)
Recover ==
    /\ Write
    /\ cursor' = {} /\ state' = [state EXCEPT !.task = "idle"]
    /\ wakeOwed' = "retry"
    /\ UNCHANGED <<blocks, filterRows, intents, purged, up, release, filterRunner, hold, arriving, filterHistory,
                   failures, holds>>

(* A page of a reading: the first one takes the snapshot. *)
ReadPage ==
    /\ Write
    /\ LET r == IF reading = Nothing
                THEN [mode |-> state.mode, sequence |-> state.sequence, shown |-> {}]
                ELSE reading
       IN reading' = [r EXCEPT !.shown =
                        @ \cup {i \in PresentInputs : ~Filtered(i, r.mode, r.sequence)}]
    /\ UNCHANGED <<store, filterWorker, kept, referenced, failures, holds>>

-----------------------------------------------------------------------------
(* The runner.  drain takes the steps "status", "mark", "read", "commit"   *)
(* and "settle", each a transaction of the store.                          *)
WakeRunner ==
    /\ up /\ wakeOwed # "none" /\ wakeOwed' = "none"
    /\ filterRunner' =
         IF hold # "none" THEN [filterRunner EXCEPT !.requested = TRUE]
         ELSE LET failed == filterRunner.failed /\ wakeOwed # "retry" IN
              IF filterRunner.at # "off" THEN [filterRunner EXCEPT !.requested = TRUE, !.failed = failed]
              ELSE IF failed THEN filterRunner
              ELSE [IdleRunner EXCEPT !.at = "status"]
    /\ UNCHANGED <<store, up, release, hold, arriving, filterHistory, filterBounds>>

EndForgets(r) == [r EXCEPT !.at = "off", !.batch = <<>>, !.requested = FALSE] \* mutant

(* The end of a drain; a wake that came meanwhile starts the next one. *)
EndOf(r) ==
    IF r.requested /\ ~r.failed /\ hold = "none"
    THEN [IdleRunner EXCEPT !.at = "status"]
    ELSE [r EXCEPT !.at = "off", !.batch = <<>>]

AtStep(step) == Ready /\ filterRunner.at = step
DrainFrame ==
    UNCHANGED <<blocks, intents, purged, cursor, up, release, hold, arriving, wakeOwed, filterHistory, filterBounds>>

Status ==
    /\ AtStep("status")
    /\ filterRunner' = IF state.mode = "off" THEN EndOf(filterRunner)
                 ELSE IF Pending # {} THEN [filterRunner EXCEPT !.at = "mark"]
                 ELSE IF state.task = "running" THEN [filterRunner EXCEPT !.at = "settle"]
                 ELSE EndOf(filterRunner)
    /\ DrainFrame /\ UNCHANGED <<filterRows, state>>

Mark ==
    /\ AtStep("mark")
    /\ state' = [state EXCEPT !.task = "running"]
    /\ filterRunner' = [filterRunner EXCEPT !.at = "read"]
    /\ DrainFrame /\ UNCHANGED filterRows

Batches == {s \in SUBSET Pending : Cardinality(s) = BatchSize \/ (s = Pending /\ Cardinality(s) < BatchSize)}
Read ==
    /\ AtStep("read")
    /\ \/ /\ state.mode = "off" \/ Pending = {}
          /\ filterRunner' = [filterRunner EXCEPT !.at = "settle"]
       \/ /\ state.mode = "light" /\ Pending # {}
          /\ \E s \in Batches :
               filterRunner' = [filterRunner EXCEPT !.at = "commit", !.batch =
                 [i \in s |-> [revision |-> filterRows[i].revision, content |-> blocks[i].revision,
                               filter |-> DecideLight(filterRows[i], blocks[i].text)]]]
    /\ DrainFrame /\ UNCHANGED <<filterRows, state>>

(* An item is applied only to the row and the content it was read from. *)
Applies(i) ==
    /\ filterRows[i] # Nothing /\ blocks[i] # Nothing
    /\ filterRows[i].revision = filterRunner.batch[i].revision
    /\ blocks[i].revision = filterRunner.batch[i].content

Decided(i, n) ==
    [filterRows[i] EXCEPT !.filter = ~filterRows[i].keep /\ filterRunner.batch[i].filter, !.pending = FALSE,
                    !.based = filterRunner.batch[i].content, !.version = release, !.sequence = n]

CommitDecisions ==
    /\ AtStep("commit")
    /\ LET applied == {i \in DOMAIN filterRunner.batch : Applies(i)} IN
       IF state.mode = "off" \/ applied = {}
       THEN filterRunner' = [filterRunner EXCEPT !.at = "settle", !.batch = <<>>] /\ UNCHANGED <<filterRows, state>>
       ELSE /\ \E order \in [applied -> 1..Cardinality(applied)] :
                 /\ \A i, j \in applied : order[i] = order[j] => i = j
                 /\ filterRows' = [i \in Captured |-> IF i \in applied
                                              THEN Decided(i, state.sequence + order[i])
                                              ELSE filterRows[i]]
            /\ state' = [state EXCEPT !.sequence = @ + Cardinality(applied)]
            /\ filterRunner' = [filterRunner EXCEPT !.at = "read", !.batch = <<>>]
    /\ DrainFrame

Settle ==
    /\ AtStep("settle")
    /\ state' = [state EXCEPT !.task = "idle"]
    /\ filterRunner' = EndOf(filterRunner)
    /\ DrainFrame /\ UNCHANGED filterRows

(* A transaction fails: the runner stops until it is woken with a retry,   *)
(* or a new worker has a new one.  Noting the failure may fail as well.    *)
DrainFails ==
    /\ Ready /\ filterRunner.at # "off" /\ failures < MaxFailures /\ failures' = failures + 1
    /\ filterRunner' = EndOf([filterRunner EXCEPT !.failed = TRUE])
    /\ state' \in {state, [state EXCEPT !.task = "failed"]}
    /\ UNCHANGED <<blocks, filterRows, intents, purged, cursor, up, release, hold, arriving, wakeOwed,
                   filterHistory, writes, holds>>

(* holdForApplicationSelection waits for the drain; nothing starts until   *)
(* releaseApplicationSelection.                                            *)
AskHold ==
    /\ up /\ hold = "none" /\ holds < MaxHolds /\ holds' = holds + 1
    /\ hold' = "waiting"
    /\ UNCHANGED <<store, up, release, filterRunner, arriving, wakeOwed, filterHistory, writes, failures>>

GrantHold ==
    /\ up /\ hold = "waiting" /\ filterRunner.at = "off" /\ ~filterRunner.failed
    /\ hold' = "held"
    /\ UNCHANGED <<store, up, release, filterRunner, arriving, wakeOwed, filterHistory, filterBounds>>

(* Also when the hold is refused because the runner has failed. *)
Release ==
    /\ up /\ hold # "none"
    /\ hold' = "none"
    /\ filterRunner' = IF filterRunner.at = "off" /\ filterRunner.requested /\ ~filterRunner.failed
                 THEN [IdleRunner EXCEPT !.at = "status"] ELSE filterRunner
    /\ UNCHANGED <<store, up, release, arriving, wakeOwed, filterHistory, filterBounds>>

WorkerDies ==
    /\ up /\ failures < MaxFailures /\ failures' = failures + 1
    /\ up' = FALSE
    /\ filterRunner' = IdleRunner /\ hold' = "none" /\ arriving' = {} /\ wakeOwed' = "none"
    /\ UNCHANGED <<store, release, filterHistory, writes, holds>>

(* The next worker may run newer rules, and wakes its runner itself. *)
Restart ==
    /\ ~up /\ up' = TRUE /\ wakeOwed' = "plain"
    /\ release' \in {r \in Releases : r >= release}
    /\ UNCHANGED <<store, filterRunner, hold, arriving, filterHistory, filterBounds>>

Message ==
    \/ \E i \in Captured, p \in Observed : \E x \in Wordings : Capture(i, x, p)
    \/ \E i \in Captured : Edit(i) \/ Keep(i) \/ PurgeInput(i)
    \/ \E m \in {"light", "off"} : SetMode(m)
    \/ Recover \/ ReadPage
Drain == Status \/ Mark \/ Read \/ CommitDecisions \/ Settle
Upgrade == BeginUpgrade \/ UpgradeBatch \/ FinishUpgrade

FilterNext == \/ Message \/ Arrive \/ ArriveFails \/ WakeRunner \/ Drain \/ DrainFails \/ Upgrade
        \/ AskHold \/ GrantHold \/ Release \/ WorkerDies \/ Restart

FilterSpec == FilterInit /\ [][FilterNext]_filterVars

(* Promises are settled, a hold is released, and a browser that is used    *)
(* starts the worker again.                                                *)
FilterFairness ==
    /\ WF_filterVars(Arrive) /\ WF_filterVars(WakeRunner) /\ WF_filterVars(Drain) /\ WF_filterVars(Upgrade)
    /\ WF_filterVars(Release) /\ WF_filterVars(Restart)

-----------------------------------------------------------------------------
FilterTypeOK ==
    /\ \A i \in Captured : blocks[i] # Nothing => blocks[i].text \in Wordings \cup {Substance}
    /\ intents \subseteq Captured /\ purged \subseteq Captured
    /\ state.mode \in {"light", "off"} /\ state.version \in Releases
    /\ filterRunner.at \in {"off", "status", "mark", "read", "commit", "settle"}

(* What is hidden is a mere control by the rules in force, and nothing     *)
(* speaks for it: the user did not touch it and no scan saw a reference.   *)
HiddenIsJustified ==
    \A i \in Captured : Hidden(i) =>
        /\ blocks[i].text \in Hides[release]
        /\ i \notin kept /\ i \notin referenced

(* A decision that counts is what the rules say of the row as it is now,   *)
(* not of the row that some transaction had read before.                   *)
DecisionsAreCurrent ==
    \A i \in PresentInputs : filterRows[i] # Nothing =>
        (~filterRows[i].pending /\ filterRows[i].version = release /\ filterRows[i].based = blocks[i].revision
         => (filterRows[i].filter <=> DecideLight(filterRows[i], blocks[i].text)))

(* What a reading has shown stays while it is open, whatever is decided. *)
ReadingStays ==
    reading # Nothing =>
        \A i \in reading.shown \cap PresentInputs : ~Filtered(i, reading.mode, reading.sequence)

(* A purge leaves no row behind and no late write brings one back. *)
PurgedLeavesNothing ==
    \A i \in purged : filterRows[i] = Nothing /\ blocks[i] = Nothing /\ i \notin intents

(* While an application is selected the runner writes nothing. *)
HeldIsQuiet == hold = "held" => filterRunner.at = "off" /\ ~filterRunner.failed

(* All of these. *)
FilterIsSound ==
    /\ FilterTypeOK /\ HiddenIsJustified /\ DecisionsAreCurrent
    /\ ReadingStays /\ PurgedLeavesNothing /\ HeldIsQuiet

(* In the end everything is decided, unless the filter is off or has       *)
(* failed and nobody asked for a retry; and it does not say "running".     *)
FilterWorkEnds ==
    <>[](state.mode = "light" /\ ~filterRunner.failed => Pending = {} /\ state.task # "running")
=============================================================================
