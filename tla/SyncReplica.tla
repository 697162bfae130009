----------------------------- MODULE SyncReplica -----------------------------
(***************************************************************************)
(* The browser-native synchronisation core (core/browser-native-sync/      *)
(* core.js): every installation keeps a replica of causally related        *)
(* operations on named entities, commits its own under a generation fence, *)
(* queues them for publication, receives the others' in any order and any  *)
(* number of times, and parks the ones whose parents are missing.          *)
(*                                                                         *)
(* A repository transaction is one action.  What lies between two          *)
(* transactions of a device (a prepared change, a walk over dependents) is *)
(* memory that a crash loses.  A body is not modelled: an operation is its *)
(* identity, its entity, its kind and its parents.                         *)
(***************************************************************************)
EXTENDS Naturals, FiniteSets

CONSTANTS
  Devices,
  Entities,
  MaxSeq,     \* bound: operations of one device
  MaxOps,     \* bound: operations of all devices
  MaxCrashes, \* bound: process ends, of all devices together
  None

ASSUME ReplicaAssumption == MaxSeq \in Nat /\ MaxCrashes \in Nat

Ids == Devices \X (1 .. MaxSeq)   \* operationId and revisionId of an operation

VARIABLES
  ops,        \* every operation ever committed, by identity
  rep,        \* the durable replica of each device
  prep,       \* in memory: a sealed local change, and whether its cut is current
  visit,      \* in memory: parents reconcileDependents visits, dependents left
  resuming,   \* a restarted device owes a resumePending
  published,  \* operations that reached the shared store
  crashes

vars == <<ops, rep, prep, visit, resuming, published, crashes>>

EmptyReplica(self) ==
  [own      |-> self,
   known    |-> {},   \* revision, entityRevision, receipt and sequence rows
   redacted |-> {},   \* the revision rows without their value
   head     |-> [e \in Entities |-> [revs |-> {}, purged |-> FALSE]],
   pending  |-> {},   \* pending and entityPending rows
   waiting  |-> {},   \* waiting rows, as pairs <<missing parent, dependent>>
   frontier |-> [d \in Devices |-> [upto |-> 0, above |-> {}]],
   outbox   |-> {},
   seq      |-> 0]    \* the device row of the replica's own device

Largest(S) == CHOOSE n \in S : \A m \in S : m <= n
SeqsOf(S, d) == {i[2] : i \in {j \in S : j[1] = d}}
Of(S, e) == {i \in S : ops[i].ent = e}

\* Receipts of the sequences S: ranges above a contiguous frontier.
Accept(f, S) ==
  LET have == 1 .. f.upto \cup f.above \cup S
      top  == Largest({n \in 0 .. MaxSeq : 1 .. n \subseteq have})
  IN  [upto |-> top, above |-> {s \in have : s > top}]

-----------------------------------------------------------------------------
(* applyInTransaction: what an operation does to a replica                 *)

Missing(R, op) == op.parents \ R.known

Parks(R, op) ==
  Missing(R, op) # {} /\ ~R.head[op.ent].purged /\ op.kind # "purge"

Park(R, op) ==
  [R EXCEPT !.pending = @ \cup {op.id},
            !.waiting = @ \cup (Missing(R, op) \X {op.id})]

\* The heads keep what the operation does not descend from.
ReplaceHead(R, op) ==   \* mutant
  LET h == R.head[op.ent]
  IN  IF op.kind = "purge"
      THEN [revs |-> {op.id} \cup (IF h.purged THEN h.revs ELSE {}), purged |-> TRUE]
      ELSE IF h.purged THEN h ELSE [revs |-> {op.id}, purged |-> FALSE]

NewHead(R, op) ==
  LET h     == R.head[op.ent]
      kept  == h.revs \ op.anc
      stale == \E r \in kept : op.id \in ops[r].anc
  IN  IF op.kind = "purge"
      THEN [revs |-> {op.id} \cup (IF h.purged THEN h.revs ELSE {}), purged |-> TRUE]
      ELSE IF h.purged THEN h
      ELSE [revs |-> IF stale THEN kept ELSE kept \cup {op.id}, purged |-> FALSE]

\* A purge redacts what the entity has and sweeps what it has parked.
Swept(R, op) == IF op.kind = "purge" THEN Of(R.pending, op.ent) ELSE {}

Bodies(R, op) == IF op.kind = "purge" THEN Of(R.known, op.ent) \ R.redacted ELSE {}

Admit(R, op) ==
  LET head  == NewHead(R, op)
      added == Swept(R, op) \cup {op.id}
      dead  == IF head.purged THEN Bodies(R, op) \cup added ELSE {}
  IN  [R EXCEPT !.known    = @ \cup added,
                !.redacted = @ \cup dead,
                !.head     = [@ EXCEPT ![op.ent] = head],
                !.pending  = @ \ added,
                !.frontier = [d \in Devices |-> Accept(@[d], SeqsOf(added, d))],
                !.outbox   = @ \ Bodies(R, op),
                !.seq      = Largest(SeqsOf(added, R.own) \cup {@})]

Apply(R, op) ==
  IF op.id \in R.known THEN R
  ELSE IF Parks(R, op) THEN Park(R, op)
  ELSE Admit(R, op)

\* Whether applying advances the generation that fences a prepared change.
Advances(R, op) ==
  op.id \notin R.known /\ (Parks(R, op) => op.id \notin R.pending)

-----------------------------------------------------------------------------
(* the device's calls                                                      *)

Init ==
  /\ ops = [i \in {} |-> None]
  /\ rep = [d \in Devices |-> EmptyReplica(d)]
  /\ prep = [d \in Devices |-> None]
  /\ visit = [d \in Devices |-> {}]
  /\ resuming = [d \in Devices |-> FALSE]
  /\ published = {}
  /\ crashes = 0

\* The operation a device seals from the cut it reads: its parents are all heads.
Seal(d, e, k) ==
  LET parents == rep[d].head[e].revs
  IN  [id |-> <<d, rep[d].seq + 1>>, ent |-> e, kind |-> k, parents |-> parents,
       anc |-> parents \cup UNION {ops[p].anc : p \in parents}]

Prepare(d) ==
  /\ prep[d] = None
  /\ rep[d].seq < MaxSeq
  /\ Cardinality(DOMAIN ops \cup {<<d, rep[d].seq + 1>>}) <= MaxOps
  /\ \E e \in Entities, k \in {"put", "purge"} :
       /\ ~rep[d].head[e].purged
       /\ prep' = [prep EXCEPT ![d] = [op |-> Seal(d, e, k), fresh |-> TRUE]]
  /\ UNCHANGED <<ops, rep, visit, resuming, published, crashes>>

Current(p) == p.fresh

\* A local operation is applied, queued and counted in one transaction.
Committed(R, op) == [Apply(R, op) EXCEPT !.outbox = @ \cup {op.id}]

Commit(d) ==
  /\ prep[d] # None
  /\ prep' = [prep EXCEPT ![d] = None]
  /\ LET op == prep[d].op
     IN  IF Current(prep[d])
         THEN /\ ops' = [i \in DOMAIN ops \cup {op.id} |-> IF i = op.id THEN op ELSE ops[i]]
              /\ rep' = [rep EXCEPT ![d] = Committed(@, op)]
         ELSE UNCHANGED <<ops, rep>>
  /\ UNCHANGED <<visit, resuming, published, crashes>>

Dependents(R, p) == {w[2] : w \in {x \in R.waiting : x[1] = p}}

\* reconcileDependents of p; without a waiting row there is nothing to visit.
Visit(R, p) ==
  IF Dependents(R, p) = {} THEN {} ELSE {[parent |-> p, left |-> Dependents(R, p)]}

\* Applies operation i at d, and visits what waited for it.
ApplyAt(d, i, v) ==
  LET R == Apply(rep[d], ops[i])
  IN  /\ rep' = [rep EXCEPT ![d] = R]
      /\ visit' = [visit EXCEPT ![d] = v \cup IF i \in R.known THEN Visit(R, i) ELSE {}]
      /\ prep' = [prep EXCEPT ![d] =
                    IF @ # None /\ Advances(rep[d], ops[i]) THEN [@ EXCEPT !.fresh = FALSE]
                    ELSE @]

Receive(d, i) ==
  /\ i \in published
  /\ ApplyAt(d, i, visit[d])
  /\ UNCHANGED <<ops, resuming, published, crashes>>

TryDependent(d) ==
  /\ \E v \in visit[d] : \E i \in v.left :
       LET rest == (visit[d] \ {v}) \cup {[v EXCEPT !.left = @ \ {i}]}
       IN  IF i \in rep[d].pending THEN ApplyAt(d, i, rest)
           ELSE visit' = [visit EXCEPT ![d] = rest] /\ UNCHANGED <<rep, prep>>
  /\ UNCHANGED <<ops, resuming, published, crashes>>

CloseVisit(d) ==
  /\ \E v \in visit[d] :
       /\ v.left = {}
       /\ visit' = [visit EXCEPT ![d] = @ \ {v}]
       /\ rep' = [rep EXCEPT ![d].waiting = {w \in @ : w[1] # v.parent}]
  /\ UNCHANGED <<ops, prep, resuming, published, crashes>>

\* resumePending: pass after pass over the pending rows, until one changes nothing.
ResumeOne(d) ==
  /\ resuming[d]
  /\ \E i \in rep[d].pending : ~Parks(rep[d], ops[i]) /\ ApplyAt(d, i, visit[d])
  /\ UNCHANGED <<ops, resuming, published, crashes>>

ResumeEnds(d) ==
  /\ resuming[d]
  /\ \A i \in rep[d].pending : Parks(rep[d], ops[i])
  /\ resuming' = [resuming EXCEPT ![d] = FALSE]
  /\ UNCHANGED <<ops, rep, prep, visit, published, crashes>>

\* outbox() yields no body that was redacted.
Publish(d) ==
  /\ \E i \in rep[d].outbox \ published :
       /\ i \in rep[d].redacted => ops[i].kind = "purge"
       /\ published' = published \cup {i}
  /\ UNCHANGED <<ops, rep, prep, visit, resuming, crashes>>

MayAck(d, i) == i \in rep[d].outbox \cap published

Acknowledge(d) ==
  /\ \E i \in Ids : MayAck(d, i) /\ rep' = [rep EXCEPT ![d].outbox = @ \ {i}]
  /\ UNCHANGED <<ops, prep, visit, resuming, published, crashes>>

Crash(d) ==
  /\ crashes < MaxCrashes
  /\ crashes' = crashes + 1
  /\ prep' = [prep EXCEPT ![d] = None]
  /\ visit' = [visit EXCEPT ![d] = {}]
  /\ resuming' = [resuming EXCEPT ![d] = TRUE]
  /\ UNCHANGED <<ops, rep, published>>

Next ==
  \E d \in Devices :
    \/ Prepare(d) \/ Commit(d)
    \/ \E i \in Ids : Receive(d, i)
    \/ TryDependent(d) \/ CloseVisit(d)
    \/ ResumeOne(d) \/ ResumeEnds(d)
    \/ Publish(d) \/ Acknowledge(d)
    \/ Crash(d)

Spec == Init /\ [][Next]_vars

\* The transport delivers what a device has not seen, and a device that runs
\* finishes its walks and empties its outbox.
Fairness ==
  \A d \in Devices :
    /\ WF_vars(\E i \in Ids \ (rep[d].known \cup rep[d].pending) : Receive(d, i))
    /\ WF_vars(TryDependent(d) \/ CloseVisit(d) \/ ResumeOne(d) \/ ResumeEnds(d))
    /\ WF_vars(Publish(d))

FairSpec == Spec /\ Fairness

-----------------------------------------------------------------------------
(* Types *)

Op == [id : Ids, ent : Entities, kind : {"put", "purge"},
       parents : SUBSET Ids, anc : SUBSET Ids]

Replica ==
  [own : Devices, known : SUBSET Ids, redacted : SUBSET Ids, pending : SUBSET Ids,
   head : [Entities -> [revs : SUBSET Ids, purged : BOOLEAN]],
   waiting : SUBSET (Ids \X Ids),
   frontier : [Devices -> [upto : 0 .. MaxSeq, above : SUBSET (1 .. MaxSeq)]],
   outbox : SUBSET Ids, seq : 0 .. MaxSeq]

\* Every variable stays in its range, the rows of a replica are of operations
\* that exist, and those that name another row find it.
TypeOK ==
  /\ DOMAIN ops \subseteq Ids /\ \A i \in DOMAIN ops : ops[i] \in Op /\ ops[i].id = i
  /\ rep \in [Devices -> Replica]
  /\ \A d \in Devices :
       LET R == rep[d]
       IN  /\ R.own = d
           /\ R.known \cup R.pending \cup R.outbox \subseteq DOMAIN ops
           /\ R.redacted \subseteq R.known
           /\ \A e \in Entities : R.head[e].revs \subseteq R.known
           /\ R.waiting \subseteq Ids \X (R.pending \cup R.known)
           /\ prep[d] = None \/ prep[d] \in [op : Op, fresh : BOOLEAN]
           /\ visit[d] \subseteq [parent : Ids, left : SUBSET Ids]
  /\ DOMAIN prep = Devices /\ DOMAIN visit = Devices
  /\ resuming \in [Devices -> BOOLEAN]
  /\ published \subseteq DOMAIN ops
  /\ crashes \in 0 .. MaxCrashes

-----------------------------------------------------------------------------
(* Properties *)

Maximal(S) == {i \in S : \A j \in S : i \notin ops[j].anc}
Purges(S) == {i \in S : ops[i].kind = "purge"}

\* The heads of an entity are a function of the operations received: the
\* purges, or else every operation no other one descends from.  So two
\* replicas with the same receipts agree, in whatever order they came, and no
\* concurrent edit is dropped for a later or a luckier one (NewHead).
HeadsAreMaximal ==
  \A d \in Devices, e \in Entities :
    LET mine == Of(rep[d].known, e)
    IN  rep[d].head[e] =
          IF Purges(mine) # {} THEN [revs |-> Purges(mine), purged |-> TRUE]
          ELSE [revs |-> Maximal(mine), purged |-> FALSE]

\* Once an entity is purged, no body of it is left: not in a revision, not
\* parked for a parent, not queued for publication (Admit).
PurgedLeavesNothing ==
  \A d \in Devices, e \in Entities :
    rep[d].head[e].purged =>
      /\ Of(rep[d].known, e) \subseteq rep[d].redacted
      /\ Of(rep[d].pending, e) = {}
      /\ Of(rep[d].outbox, e) \subseteq Purges(rep[d].outbox)

\* The frontier a device reports for another one claims exactly the sequences
\* it has a receipt of, gaps included (acceptSequence).
FrontierIsReceipts ==
  \A d, o \in Devices :
    LET f == rep[d].frontier[o]
    IN  /\ 1 .. f.upto \cup f.above = SeqsOf(rep[d].known, o)
        /\ f.upto + 1 \notin f.above

\* An operation parked for a parent that has come is about to be tried again:
\* a walk still has it, or the restart that lost the walk owes a resume; one
\* whose parent has not come is in the parent's waiting row.
NothingStranded ==
  \A d \in Devices : \A i \in rep[d].pending :
    /\ Missing(rep[d], ops[i]) \X {i} \subseteq rep[d].waiting
    /\ Missing(rep[d], ops[i]) = {} =>
         resuming[d] \/ \E v \in visit[d] : i \in v.left

\* What a device committed is queued or published until the entity is purged.
NoLostUpdate ==
  \A d \in Devices : \A i \in rep[d].known :
    i[1] = d /\ i \notin rep[d].redacted => i \in rep[d].outbox \cup published

\* A replica that keeps a live operation keeps everything it descends from,
\* so the walk over parents never stops at a missing row (ancestorTraversal).
RevisionsAreClosed ==
  \A d \in Devices : \A i \in rep[d].known :
    ~rep[d].head[ops[i].ent].purged => ops[i].anc \subseteq rep[d].known

\* A local commit never creates a conflict: it replaces the heads it was
\* prepared from, or is refused (commitPrepared's generation fence).
LocalNeverConflicts ==
  \A d \in Devices : rep'[d].seq # rep[d].seq =>
    \E e \in Entities : rep'[d].head[e] # rep[d].head[e]
                        /\ rep'[d].head[e].revs = {<<d, rep'[d].seq>>}

\* What a replica holds is a function of the operations it received, whatever
\* the order, the repetitions and the crashes: all of the above.
ReplicaIsWhole ==
  /\ TypeOK /\ HeadsAreMaximal /\ PurgedLeavesNothing /\ FrontierIsReceipts
  /\ NothingStranded /\ NoLostUpdate /\ RevisionsAreClosed

\* No operation a device has, its own last edits included, is forgotten.
NothingForgotten == \A d \in Devices : rep[d].known \subseteq rep'[d].known

\* A device never seals two operations under one sequence.
OperationsAreImmutable == \A i \in DOMAIN ops : ops'[i] = ops[i]

\* No step makes a replica forget an operation or seals a second one under a
\* sequence, and a local commit replaces what it was prepared from.
HistoryIsKept ==
  [][NothingForgotten /\ OperationsAreImmutable /\ LocalNeverConflicts]_vars

\* Whatever was published is in the end received everywhere, whatever the
\* order, the losses of memory and the parents that were never published.
Converges ==
  <>[](\A d \in Devices : published \subseteq rep[d].known)
=============================================================================
