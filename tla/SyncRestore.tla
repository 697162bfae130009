----------------------------- MODULE SyncRestore -----------------------------
(***************************************************************************)
(* Checkpoints and staged restores over the synchronisation core           *)
(* (core/browser-native-sync/checkpoints.js).  A device writes a complete  *)
(* cut of its replica as immutable objects; a device stages such a cut in  *)
(* a namespace of its own, receives the operations published since on top, *)
(* and in one transaction makes the staged namespace its replica.          *)
(*                                                                         *)
(* The staging itself, object by object, is seen by nobody: it is one      *)
(* action.  The domain owners a restore calls refuse a purged entity, each *)
(* of them (prompt-journal.js:110, context-journal.js:68,                  *)
(* context-desired-journal-owner.js:51).                                   *)
(***************************************************************************)
EXTENDS SyncReplica

CONSTANTS
  MaxCuts,      \* bound: checkpoints stored
  MaxRestores   \* bound: restores that begin

ASSUME RestoreAssumption == MaxRestores \in Nat

VARIABLES
  stored,    \* the checkpoints in the shared store
  stage,     \* the restore row of each device and its staged namespace, or None
  restores

rvars == <<stored, stage, restores>>
allVars == <<vars, rvars>>

RInit == Init /\ stored = {} /\ stage = [d \in Devices |-> None] /\ restores = 0

\* The generation of a replica moved: every admission or parking of something new.
Moved(d) ==
  rep'[d].known # rep[d].known \/ rep'[d].pending # rep[d].pending

\* A live change makes a restore's base cut stale.
OutdatesRestores ==
  /\ stage' = [d \in Devices |->
                 IF stage[d] # None /\ Moved(d) THEN [stage[d] EXCEPT !.fresh = FALSE]
                 ELSE stage[d]]
  /\ UNCHANGED <<stored, restores>>

CoreStep == Next /\ OutdatesRestores

\* A complete cut, refused while an operation waits for its parents.
Cut(R) == [known |-> R.known, redacted |-> R.redacted, head |-> R.head, frontier |-> R.frontier]

BuildCheckpoint(d) ==
  /\ Cardinality(stored) < MaxCuts
  /\ rep[d].pending = {}
  /\ stored' = stored \cup {Cut(rep[d])}
  /\ UNCHANGED <<vars, stage, restores>>

\* Every item added and validated: revisions, heads and frontiers of the cut.
Restored(c, d) ==
  [EmptyReplica(d) EXCEPT !.known = c.known, !.redacted = c.redacted, !.head = c.head,
                          !.frontier = c.frontier,
                          !.seq = Largest(SeqsOf(c.known, d) \cup {0})]

\* begin reads the live cut; what is staged afterwards depends on the checkpoint alone.
StageCheckpoint(d) ==
  /\ restores < MaxRestores
  /\ restores' = restores + 1
  /\ \E c \in stored :
       stage' = [stage EXCEPT ![d] = [rep |-> Restored(c, d), fresh |-> TRUE, checked |-> TRUE]]
  /\ UNCHANGED <<vars, stored>>

\* What changes the staged namespace outdates what was validated of it.
ApplyStaged(d, i) ==
  stage' = [stage EXCEPT ![d].rep = Apply(@, ops[i]),
                         ![d].checked = @ /\ ~Advances(stage[d].rep, ops[i])]

ReconcileTail(d) ==
  /\ stage[d] # None
  /\ \/ \E i \in published : ApplyStaged(d, i)
     \/ \E i \in stage[d].rep.pending :
          ~Parks(stage[d].rep, ops[i]) /\ ApplyStaged(d, i)
  /\ UNCHANGED <<vars, stored, restores>>

TailReconciled(d) ==
  /\ stage[d] # None
  /\ stage[d].rep.pending = {}
  /\ stage' = [stage EXCEPT ![d].checked = TRUE]
  /\ UNCHANGED <<vars, stored, restores>>

-----------------------------------------------------------------------------
(* activate *)

\* Neither the live replica nor the staged one moved since it was looked at.
CutsHold(d) == stage[d].fresh /\ stage[d].checked

\* Every live head is in the staged history; a staged conflict or purge is refused.
Descends(R, r, e) == r \in R.head[e].revs \/ \E h \in R.head[e].revs : r \in ops[h].anc

TakesPurged(L, S) ==   \* mutant
  \A e \in Entities :
    /\ L.head[e].revs # {} => S.head[e].revs # {}
    /\ L.head[e].purged => S.head[e].purged
    /\ ~S.head[e].purged =>
         /\ Cardinality(S.head[e].revs) <= 1
         /\ \A r \in L.head[e].revs : Descends(S, r, e)

Replaceable(L, S) ==
  \A e \in Entities :
    /\ ~L.head[e].purged /\ ~S.head[e].purged
    /\ Cardinality(S.head[e].revs) <= 1
    /\ \A r \in L.head[e].revs : Descends(S, r, e)

Activate(d) ==
  /\ stage[d] # None /\ CutsHold(d)
  /\ rep[d].pending = {} /\ stage[d].rep.pending = {}
  /\ Replaceable(rep[d], stage[d].rep)
  /\ rep' = [rep EXCEPT ![d] = stage[d].rep]
  /\ prep' = [prep EXCEPT ![d] = IF @ = None THEN None ELSE [@ EXCEPT !.fresh = FALSE]]
  /\ stage' = [stage EXCEPT ![d] = None]
  /\ UNCHANGED <<ops, visit, resuming, published, crashes, stored, restores>>

RNext ==
  \/ CoreStep
  \/ \E d \in Devices :
       \/ BuildCheckpoint(d) \/ StageCheckpoint(d)
       \/ ReconcileTail(d) \/ TailReconciled(d) \/ Activate(d)

RSpec == RInit /\ [][RNext]_allVars

\* The core's fairness, and none of restores: nobody has to begin one.
RFairSpec ==
  /\ RSpec
  /\ \A d \in Devices :
       /\ WF_allVars(/\ \E i \in Ids \ (rep[d].known \cup rep[d].pending) : Receive(d, i)
                     /\ OutdatesRestores)
       /\ WF_allVars(/\ TryDependent(d) \/ CloseVisit(d) \/ ResumeOne(d) \/ ResumeEnds(d)
                     /\ OutdatesRestores)
       /\ WF_allVars(Publish(d) /\ OutdatesRestores)

-----------------------------------------------------------------------------
(* Properties *)

RTypeOK ==
  /\ TypeOK
  /\ \A c \in stored : c.known \subseteq DOMAIN ops
  /\ \A d \in Devices :
       stage[d] # None => /\ stage[d].rep.known \cup stage[d].rep.pending \subseteq DOMAIN ops
                          /\ stage[d].rep.redacted \subseteq stage[d].rep.known
                          /\ {stage[d].fresh, stage[d].checked} \subseteq BOOLEAN
  /\ restores \in 0 .. MaxRestores

\* A staged replica obeys the core's rules before it is made live: its heads
\* are the maximal ones of what it holds, whatever tail came on top of the
\* cut (StageCheckpoint, ReconcileTail).
StagedHeadsAreMaximal ==
  \A d \in Devices : stage[d] # None =>
    LET S == stage[d].rep
    IN  \A e \in Entities : ~S.head[e].purged => S.head[e].revs = Maximal(Of(S.known, e))

\* A committed live operation is queued, published or in a stored checkpoint.
WorkIsShared ==
  \A d \in Devices : \A i \in rep[d].known :
    i[1] = d /\ i \notin rep[d].redacted =>
      i \in rep[d].outbox \cup published \cup UNION {c.known : c \in stored}

\* What a replica holds is a function of the operations it received also where
\* replicas are replaced by staged ones: all of this, and until a restore begins
\* what was committed is queued or published, without the help of checkpoints.
RestoredIsWhole ==
  /\ RTypeOK /\ HeadsAreMaximal /\ PurgedLeavesNothing /\ FrontierIsReceipts
  /\ NothingStranded /\ RevisionsAreClosed /\ StagedHeadsAreMaximal /\ WorkIsShared
  /\ restores = 0 => NoLostUpdate

\* Making a staged replica live forgets nothing the live one knew, its own last
\* edits included (activate's base and divergence checks), and leaves a device
\* that seals no second operation under a sequence (recordReceipt).
RestoreKeepsHistory ==
  [][NothingForgotten /\ OperationsAreImmutable /\ LocalNeverConflicts]_allVars

\* What a device parked for its parents does not stay parked: they come, or a
\* purge sweeps it.
NothingStaysParked ==
  <>[](\A d \in Devices : rep[d].pending = {})
=============================================================================
