---------------------------- MODULE MCGatewayRules ----------------------------
(***************************************************************************)
(* Safety of the gateway where it talks to a provider and of two rules of  *)
(* its database: provider runs (ProviderDispatch), the room of the         *)
(* ledger's snapshot (SnapshotCapacity), the client's grants               *)
(* (GrantPublication).  They share no state; part says which of them       *)
(* moves, the others stay as they were initialised.                        *)
(***************************************************************************)
EXTENDS ProviderDispatch, SnapshotCapacity, GrantPublication, TLC
CONSTANTS
  a, b, u, v, w, h, k,  \* operations, runs and hosts
  o1, o2, o3,           \* rows of the snapshot
  p1, p2, d1, d2        \* operations granted, declarations of different length
VARIABLE part

-----------------------------------------------------------------------------
(* Two runs of operation a on different hosts, one of b beside the second. *)
MCOpOf == [x \in Runs |-> IF x = w THEN b ELSE a]
MCHostOf == [x \in Runs |-> IF x = u THEN h ELSE k]
MCTwoJobs == a :> "i" @@ b :> "j"

-----------------------------------------------------------------------------
(* A snapshot that has room for two full rows and not for three. *)
MCFixed == [o \in {o1, o2, o3} |-> IF o = o3 THEN 2 ELSE 1]
MCNameBytes == [s \in States |-> IF s = "CANCELLED_BEFORE_DISPATCH" THEN 2 ELSE 1]
MCBound == [p \in Parts |-> IF p \in {"settlement", "resolution"} THEN 2 ELSE 1]

-----------------------------------------------------------------------------
(* Two operations, a clock of six readings that runs past every expiry. *)
MCExpiry == [d \in {d1, d2} |-> IF d = d1 THEN 3 ELSE 5]

-----------------------------------------------------------------------------
PartsInit ==
  /\ part \in {"dispatch", "room", "grants"}
  /\ Init /\ SnapshotInit /\ GrantInit
  /\ part # "grants" => now = 0
DispatchStep == part = "dispatch" /\ Next /\ UNCHANGED <<part, snapshotVars, grantVars>>
RoomStep == part = "room" /\ SnapshotNext /\ UNCHANGED <<part, vars, grantVars>>
GrantStep == part = "grants" /\ GrantNext /\ UNCHANGED <<part, vars, snapshotVars>>
PartsSpec ==
  PartsInit /\ [][DispatchStep \/ RoomStep \/ GrantStep]_<<part, vars, snapshotVars, grantVars>>
=============================================================================
