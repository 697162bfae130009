------------------------- MODULE MCExtensionLiveness -------------------------
(***************************************************************************)
(* What must eventually happen in the extension, and the safety of its     *)
(* migration (StoreMigration).  Each component is looked at by itself,     *)
(* under the fairness its own module states; part says which, and what     *)
(* does not move stays as it was initialised.                              *)
(***************************************************************************)
EXTENDS StoreMigration

CONSTANTS
  None,
  Jobs, MaxEpoch,                                        \* OrganizeJob
  Devices, Entities, MaxSeq, MaxChanges,                 \* SyncReplica
  Chats, Msgs, MaxText, MaxMoves,                     \* Capture
  ChatTabs, Groups, Grace, MaxDocs, MaxRequests, MaxHolds,   \* CaptureRecovery
  Stores, Prefs, MaxOps, MaxCrashes, MaxFaults, MaxRestores,   \* ControlPublication
  Presses, Urls, MaxDraft, MaxDisturbances,              \* PromptInsertion
  Intents, Docs,                                         \* ArchiveArrival
  Limit, Captured, Wordings, Observed, Substance, Releases, MaxWrites,   \* SmartFilter
  Inputs, Mirrors, Derived, Texts, Own, MaxEdits, MaxUses   \* EntryUpkeep
VARIABLES part,
  epoch, retired, jobs, rows, fence, flight, marker, asked, session, provs, call, handle, svc,
  final, wire, sends, effects,
  known, rep, prep, visit, resuming, published, ends,
  view, reader, cycle, captures, archive, misled, moves,
  tabs, task, sweeps, hold, admission, owed, requests, holds,
  local, revision, lease, gate, restores, restored, writes, store, todo, startup, status, wish,
  choices, acked, ops, crashes, faults,
  op, mail, run, replies, draft, consented, disturbances, touched,
  here, valid, queue, stage, target, pending, claim, qualified, answer, tab, doc, home, page,
  request, told, given, shown, turns,
  blocks, filterRows, intents, purged, state, over, up, release, filter, filterHold, arriving, wake,
  reading, kept, referenced, filterWrites, filterFaults, filterHolds,
  inputs, entryEpoch, entries, deps, events, cleanups, runner, due, evidence, used, removedSince,
  gone, handled, cleaned, edits, uses, losses

organizeVars == <<epoch, retired, jobs, rows, fence, flight, marker, asked, session, provs, call,
                  handle, svc, final, wire, sends, effects>>
replicaVars == <<known, rep, prep, visit, resuming, published, ends>>
captureVars == <<view, reader, cycle, captures, archive, misled, moves>>
repairVars == <<tabs, task, sweeps, hold, admission, owed, requests, holds>>
settingsVars == <<local, revision, lease, gate, restores, restored, writes, store, todo, startup,
                  status, wish, choices, acked, ops, crashes, faults>>
promptVars == <<op, mail, run, replies, draft, consented, disturbances, touched>>
arrivalVars == <<here, valid, queue, stage, target, pending, claim, qualified, answer, tab, doc,
                 home, page, request, told, given, shown, turns>>
filterVars == <<blocks, filterRows, intents, purged, state, over, up, release, filter, filterHold,
                arriving, wake, reading, kept, referenced, filterWrites, filterFaults, filterHolds>>
entryVars == <<inputs, entryEpoch, entries, deps, events, cleanups, runner, due, evidence, used,
               removedSince, gone, handled, cleaned, edits, uses, losses>>
libraryVars == <<filterVars, entryVars>>

-----------------------------------------------------------------------------
TwoChildren == [j \in Jobs |-> 2]
Organize == INSTANCE OrganizeJob WITH N <- TwoChildren
Replica == INSTANCE SyncReplica WITH ops <- known, crashes <- ends, MaxOps <- MaxChanges
OneChat == CHOOSE x \in Chats : TRUE
OwnerOne == [m \in Msgs |-> OneChat]
Archive ==
  INSTANCE Capture WITH page <- view, wire <- captures, store <- archive, Owner <- OwnerOne,
    MaxWire <- 1
Repair == INSTANCE CaptureRecovery WITH page <- tabs, Tabs <- ChatTabs
Settings ==
  INSTANCE ControlPublication WITH marker <- restored, flight <- writes, page <- status
Prompt == INSTANCE PromptInsertion WITH page <- draft, Ops <- Presses
Arrival ==
  INSTANCE ArchiveArrival WITH call <- request, disturbances <- turns, MaxDisturbances <- 0,
    Timer <- FALSE
HidesFirst == [r \in Releases |-> IF r = 1 THEN Wordings ELSE {}]
Filter ==
  INSTANCE SmartFilter WITH cursor <- over, filterRunner <- filter, hold <- filterHold,
    wakeOwed <- wake, writes <- filterWrites, failures <- filterFaults, holds <- filterHolds,
    Nothing <- None, BatchSize <- Limit, MaxFailures <- MaxFaults, Hides <- HidesFirst
Upkeep ==
  INSTANCE EntryUpkeep WITH epoch <- entryEpoch, jobs <- cleanups, owed <- due,
    draft <- evidence, faults <- losses

-----------------------------------------------------------------------------
PartsInit ==
  /\ part \in {"organize", "replica", "capture", "repair", "settings", "migration", "prompt",
              "arrival", "filter", "entries"}
  /\ Organize!Init /\ Replica!Init /\ Settings!Init
  /\ Archive!Start(IF part = "capture" THEN Chats ELSE {OneChat})
  /\ Repair!Init /\ (part # "repair" => \A t \in ChatTabs : tabs[t].runtime = "absent")
  /\ MigrationInit /\ Prompt!Start({CHOOSE u \in Urls : TRUE}) /\ Arrival!Init
  /\ Filter!FilterInit /\ Upkeep!Init
OrganizeStep ==
  /\ part = "organize" /\ Organize!Next
  /\ UNCHANGED <<part, replicaVars, captureVars, repairVars, settingsVars, migrationVars,
                 promptVars, arrivalVars, libraryVars>>
ReplicaStep ==
  /\ part = "replica" /\ Replica!Next
  /\ UNCHANGED <<part, organizeVars, captureVars, repairVars, settingsVars, migrationVars,
                 promptVars, arrivalVars, libraryVars>>
CaptureStep ==
  /\ part = "capture" /\ Archive!Next
  /\ UNCHANGED <<part, organizeVars, replicaVars, repairVars, settingsVars, migrationVars,
                 promptVars, arrivalVars, libraryVars>>
RepairStep ==
  /\ part = "repair" /\ Repair!Next
  /\ UNCHANGED <<part, organizeVars, replicaVars, captureVars, settingsVars, migrationVars,
                 promptVars, arrivalVars, libraryVars>>
SettingsStep ==
  /\ part = "settings" /\ Settings!Next
  /\ UNCHANGED <<part, organizeVars, replicaVars, captureVars, repairVars, migrationVars,
                 promptVars, arrivalVars, libraryVars>>
MigrationStep ==
  /\ part = "migration" /\ MigrationNext
  /\ UNCHANGED <<part, organizeVars, replicaVars, captureVars, repairVars, settingsVars, promptVars,
                 arrivalVars, libraryVars>>
PromptStep ==
  /\ part = "prompt" /\ Prompt!Next
  /\ UNCHANGED <<part, organizeVars, replicaVars, captureVars, repairVars, settingsVars,
                 migrationVars, arrivalVars, libraryVars>>
ArrivalStep ==
  /\ part = "arrival" /\ Arrival!Next
  /\ UNCHANGED <<part, organizeVars, replicaVars, captureVars, repairVars, settingsVars,
                 migrationVars, promptVars, libraryVars>>
OtherVars ==
  <<organizeVars, replicaVars, captureVars, repairVars, settingsVars, migrationVars, promptVars,
    arrivalVars>>
FilterStep == part = "filter" /\ Filter!FilterNext /\ UNCHANGED <<part, OtherVars, entryVars>>
EntryStep == part = "entries" /\ Upkeep!Next /\ UNCHANGED <<part, OtherVars, filterVars>>
PartsNext ==
  \/ OrganizeStep \/ ReplicaStep \/ CaptureStep \/ RepairStep \/ SettingsStep \/ MigrationStep
  \/ PromptStep \/ ArrivalStep \/ FilterStep \/ EntryStep

PartsSpec == PartsInit /\ [][PartsNext]_<<part, OtherVars, libraryVars>>

-----------------------------------------------------------------------------
\* What devices and runs share settles: a paid job abandoned by its run is closed
\* in the end, what was published is received by every device (RecoveryCloses of
\* OrganizeJob, Converges of SyncReplica).
SharedWorkSettles ==
  /\ part = "organize" /\ Organize!Fairness => Organize!RecoveryCloses
  /\ part = "replica" /\ Replica!Fairness => Replica!Converges

\* Open pages are followed: a message that stays on a page of its chat is archived
\* there with its last text, wherever the page was before, unless the adapter took
\* it for a message of another chat; every repair of a content runtime ends
\* (EventuallyArchived of Capture, RepairsEnd of CaptureRecovery).
PagesAreFollowed ==
  /\ part = "capture" /\ Archive!Fairness => Archive!EventuallyArchived
  /\ part = "repair" /\ Repair!Fairness => Repair!RepairsEnd

\* No lease on the settings outlives the work it was taken for, and a migration
\* ends with a database in use, whatever fails (LeasesEnd of
\* ControlPublication, MigrationEnds of StoreMigration).
StoreWorkEnds ==
  /\ part = "settings" /\ Settings!Fairness => Settings!LeasesEnd
  /\ part = "migration" /\ MigrationFairness => MigrationEnds

\* Every press, of a prompt and of "open in PAIA", is answered
\* (PromptInsertion, ArchiveArrival).
EveryPressIsAnswered ==
  /\ part = "prompt" /\ Prompt!Fairness => Prompt!EveryPressIsAnswered
  /\ part = "arrival" /\ Arrival!Fairness => Arrival!EveryPressIsAnswered

\* Every input is decided by the filter, every purge and every edit of an input
\* reaches the thoughts made of it (FilterWorkEnds of SmartFilter, UpkeepEnds of
\* EntryUpkeep).
LibraryWorkEnds ==
  /\ part = "filter" /\ Filter!FilterFairness => Filter!FilterWorkEnds
  /\ part = "entries" /\ Upkeep!Fairness => Upkeep!UpkeepEnds
=============================================================================
