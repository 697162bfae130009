------------------------------ MODULE MCStores ------------------------------
(***************************************************************************)
(* Safety of the extension's durable state where two stores must agree:    *)
(* replicas of the library and their restore from a checkpoint             *)
(* (SyncReplica, SyncRestore, whose own properties are checked), settings  *)
(* (ControlPublication) and paired hosts (ContextConnections).  Each is    *)
(* looked at by itself, part says which; what does not move stays as it    *)
(* was initialised.                                                        *)
(***************************************************************************)
EXTENDS SyncRestore, TLC

\* None, MaxOps, MaxCrashes and MaxRestores are also ControlPublication's.
CONSTANTS
  MaxRestored,                                                         \* of the part restore
  Stores, worker, Prefs, MaxFaults,                                    \* ControlPublication
  C, MaxCalls, MaxTroubles, MaxEnds                                    \* ContextConnections
VARIABLES part,
  local, revision, lease, gate, imports, marker, flight, store, todo, startup, page, wish,
  choices, acked, steps, stops, faults,
  mirror, witness, epoch, mem, ports, queue, reader, barred, heard, cut, used, calls, troubles,
  ends

settingsVars == <<local, revision, lease, gate, imports, marker, flight, store, todo, startup,
                  page, wish, choices, acked, steps, stops, faults>>
hostVars == <<mirror, witness, epoch, mem, ports, queue, reader, barred, heard, cut, used, calls,
              troubles, ends>>

-----------------------------------------------------------------------------
\* One worker at a time, and one beside a predecessor that is still alive.
Alone ==
  INSTANCE ControlPublication WITH ops <- steps, crashes <- stops, restores <- imports,
    Stores <- {worker}
Overlap ==
  INSTANCE ControlPublication WITH ops <- steps, crashes <- stops, restores <- imports,
    MaxOps <- 3, MaxRestores <- 0

Hosts ==
  INSTANCE ContextConnections WITH acked <- heard, crashes <- ends, MaxCrashes <- MaxEnds

Symmetry == Permutations(Devices) \cup Permutations(Entities)

-----------------------------------------------------------------------------
\* A core of one entity, with crashes; a core of few operations, with restores.
Prepared == {prep[d].op : d \in {o \in Devices : prep[o] # None}}
Touched == {op.ent : op \in Prepared \cup {ops[i] : i \in DOMAIN ops}}
Seals == \E d \in Devices : prep[d] = None /\ prep'[d] # None
OfOneEntity == Cardinality(Touched') <= 1
OfFewOperations == crashes' = 0 /\ (Seals => Cardinality(DOMAIN ops) < MaxRestored)

PartsInit ==
  /\ part \in {"replica", "restore", "alone", "overlap", "hosts"}
  /\ RInit
  /\ IF part = "alone" THEN Alone!Init ELSE Overlap!Init
  /\ Hosts!Init
ReplicaStep ==
  /\ part = "replica" /\ CoreStep /\ OfOneEntity
  /\ UNCHANGED <<part, settingsVars, hostVars>>
RestoreStep ==
  /\ part = "restore" /\ RNext /\ OfFewOperations
  /\ UNCHANGED <<part, settingsVars, hostVars>>
AloneStep ==
  part = "alone" /\ Alone!Next /\ UNCHANGED <<part, allVars, hostVars>>
OverlapStep ==
  part = "overlap" /\ Overlap!Next /\ UNCHANGED <<part, allVars, hostVars>>
HostStep ==
  part = "hosts" /\ Hosts!Next /\ UNCHANGED <<part, allVars, settingsVars>>
PartsSpec ==
  PartsInit /\ [][ReplicaStep \/ RestoreStep \/ AloneStep \/ OverlapStep \/ HostStep]_
                  <<part, allVars, settingsVars, hostVars>>

-----------------------------------------------------------------------------
\* Of the two places settings live in neither overtakes the other: a pause
\* holds, a write on its way keeps its lease, what was acknowledged stays, the
\* row never goes back, and no capture asked before a choice is committed after
\* it (PauseHolds, FlightIsHeld, AcknowledgedStays, NeverBackwards,
\* CaptureIsCurrent of ControlPublication).
SettingsHold ==
  /\ [](/\ Overlap!FlightIsHeld /\ Overlap!AcknowledgedStays
        /\ part = "alone" => Alone!TypeOK /\ Alone!PauseHolds)
  /\ [][/\ Overlap!NeverBackwards
        /\ part = "alone" => Alone!CaptureIsCurrent]_<<part, settingsVars>>

\* A paired host is answered only while it is granted, no generation is given
\* out twice, and nothing the user restricted returns by itself (LiveIsGranted,
\* GenerationsAreFresh, NoSilentReturn of ContextConnections).
HostsAreGranted ==
  [](Hosts!TypeOK /\ Hosts!LiveIsGranted) /\ Hosts!GenerationsAreFresh /\ Hosts!NoSilentReturn
=============================================================================
