------------------------------ MODULE SyncProofs ------------------------------
(***************************************************************************)
(* What SyncReplica and SyncRestore guarantee for any number of devices,   *)
(* entities, operations, crashes, checkpoints and restores, and            *)
(* SyncPublication for any number of publications, publishers and objects. *)
(*                                                                         *)
(* A replica by itself is a value: Sound(O, R) says that R is whole over   *)
(* the operations O there are, and ApplySound that it stays so when an     *)
(* operation whose parents exist is applied, whether it is admitted,       *)
(* parked or known.  The state is then sound (ReplicaInv) if each replica  *)
(* is, if what a device has of its own are all its operations (OwnSound),  *)
(* if a dependent that has all its parents is still to be visited          *)
(* (VisitsSound), and if a sealed change descends from the heads it would  *)
(* replace as long as its cut is current (PrepSound).  Only a commit adds  *)
(* an operation; it is no ancestor of any, so the other replicas stay      *)
(* sound (ReplicaKeepsSound).                                              *)
(*                                                                         *)
(* A publication row is never behind its publishers: one that is at an     *)
(* object has tried it, and one about to acknowledge is past the last and  *)
(* has read them all (Publisher).  A confirmed row was verified to its end *)
(* (PackSound), so a slower publisher that meets it passes.  A step either *)
(* leaves the queue and takes rows on (RowsGoOn, PublisherStep), or moves  *)
(* reservations and leaves the publishers behind (QueueStep).              *)
(***************************************************************************)
EXTENDS SyncRestore, SyncPublication, Integers, FiniteSetTheorems, WellFoundedInduction, TLAPS

(* The largest member of a set of sequences, and the receipts of a frontier. *)

\* Every set of numbers that is not empty has a least one.
LEMMA LeastOf ==
  ASSUME NEW T, T \subseteq Nat, T # {}
  PROVE  \E x \in T : \A y \in T : x <= y
<1>1. \E x \in T : \A y \in T : ~(<<y, x>> \in OpToRel(<, Nat))
  BY WFMin, NatLessThanWellFounded
<1>2. PICK x \in T : \A y \in T : ~(<<y, x>> \in OpToRel(<, Nat))
  BY <1>1
<1>3. \A y \in T : ~(y < x)
  BY <1>2 DEF OpToRel
<1>4. \A y \in T : x <= y
  <2> TAKE y \in T
  <2>1. x \in Int /\ y \in Int /\ ~(y < x)
    BY <1>3
  <2> QED BY <2>1
<1> QED
  BY <1>4

LEMMA LargestOf ==
  ASSUME NEW m \in Nat, NEW S, S \subseteq 0 .. m, S # {}
  PROVE  Largest(S) \in S /\ \A n \in S : n <= Largest(S)
<1> DEFINE T == {k \in Nat : \E n \in S : n = m - k}
<1>1. T \subseteq Nat /\ T # {}
  <2>1. PICK n \in S : TRUE
    OBVIOUS
  <2>2. n \in Int /\ 0 <= n /\ n <= m
    BY <2>1
  <2>3. m - n \in Nat /\ n = m - (m - n)
    BY <2>2
  <2>4. m - n \in T
    BY <2>1, <2>3
  <2> QED BY <2>4
<1>2. PICK x \in T : \A y \in T : x <= y
  <2> HIDE DEF T
  <2> QED BY <1>1, LeastOf
<1>3. PICK k \in S : k = m - x
  BY <1>2
<1>4. \A n \in S : n <= k
  <2> TAKE n \in S
  <2>1. n \in Int /\ 0 <= n /\ n <= m
    OBVIOUS
  <2>2. m - n \in Nat /\ n = m - (m - n)
    BY <2>1
  <2>3. m - n \in T
    BY <2>2
  <2>4. x <= m - n /\ x \in Nat
    BY <2>3, <1>2
  <2> QED BY <2>4, <2>1, <1>3
<1> QED
  BY <1>4, <1>3 DEF Largest

\* A frontier claims exactly the sequences of a set, gaps included.
Claims(f, S) == 1 .. f.upto \cup f.above = S /\ f.upto + 1 \notin f.above
FrontierRow == [upto : 0 .. MaxSeq, above : SUBSET (1 .. MaxSeq)]

LEMMA AcceptClaims ==
  ASSUME NEW f \in FrontierRow, NEW S, S \subseteq 1 .. MaxSeq
  PROVE  /\ Accept(f, S) \in FrontierRow
         /\ \A T : Claims(f, T) => Claims(Accept(f, S), T \cup S)
<1> DEFINE have == 1 .. f.upto \cup f.above \cup S
           good == {n \in 0 .. MaxSeq : 1 .. n \subseteq have}
           top  == Largest(good)
           over == {s \in have : s > top}
<1>1. MaxSeq \in Nat /\ f.upto \in 0 .. MaxSeq /\ f.above \subseteq 1 .. MaxSeq
  BY ReplicaAssumption DEF FrontierRow
<1>2. have \subseteq 1 .. MaxSeq
  <2>1. 1 .. f.upto \subseteq 1 .. MaxSeq
    BY <1>1
  <2> QED BY <2>1, <1>1
<1>3. 0 \in good /\ good \subseteq 0 .. MaxSeq
  BY <1>1
<1>4. top \in good /\ \A n \in good : n <= top
  <2> HIDE DEF good
  <2> QED BY <1>1, <1>3, LargestOf
<1>5. Accept(f, S) = [upto |-> top, above |-> over]
  BY DEF Accept
<1> HIDE DEF top, good
<1>6. top \in 0 .. MaxSeq /\ 1 .. top \subseteq have
  BY <1>4 DEF good
<1>7. over \subseteq 1 .. MaxSeq
  BY <1>2
<1>8. Accept(f, S) \in FrontierRow
  BY <1>5, <1>6, <1>7 DEF FrontierRow
<1>9. 1 .. top \cup over = have
  <2>1. \A s \in have : s \in 1 .. top \/ s \in over
    BY <1>2, <1>6, <1>1
  <2> QED BY <2>1, <1>6
<1>10. top + 1 \notin over
  <2> SUFFICES ASSUME top + 1 \in over PROVE FALSE
    OBVIOUS
  <2>1. top + 1 \in have /\ top + 1 \in 1 .. MaxSeq
    BY <1>7
  <2>2. 1 .. (top + 1) \subseteq have
    <3>1. \A n \in 1 .. (top + 1) : n \in 1 .. top \/ n = top + 1
      BY <1>6, <1>1
    <3> QED BY <3>1, <2>1, <1>6
  <2>3. top + 1 \in good
    BY <2>1, <2>2, <1>1 DEF good
  <2>4. top + 1 <= top
    BY <2>3, <1>4
  <2> QED BY <2>4, <1>6, <1>1
<1>11. \A T : Claims(f, T) => Claims(Accept(f, S), T \cup S)
  <2> TAKE T
  <2> HAVE Claims(f, T)
  <2>1. have = T \cup S
    BY DEF Claims
  <2> QED BY <2>1, <1>5, <1>9, <1>10 DEF Claims
<1> QED
  BY <1>8, <1>11

-----------------------------------------------------------------------------
(* What admitting an operation writes. *)

Added(R, op) == Swept(R, op) \cup {op.id}
Dead(R, op) == IF NewHead(R, op).purged THEN Bodies(R, op) \cup Added(R, op) ELSE {}

\* The fields of a replica that admits an operation, one by one.
LEMMA AdmitFields ==
  ASSUME NEW R \in Replica, NEW op \in Op
  PROVE  /\ Admit(R, op).own = R.own
         /\ Admit(R, op).known = R.known \cup Added(R, op)
         /\ Admit(R, op).redacted = R.redacted \cup Dead(R, op)
         /\ Admit(R, op).head = [R.head EXCEPT ![op.ent] = NewHead(R, op)]
         /\ Admit(R, op).pending = R.pending \ Added(R, op)
         /\ Admit(R, op).waiting = R.waiting
         /\ Admit(R, op).frontier =
              [d \in Devices |-> Accept(R.frontier[d], SeqsOf(Added(R, op), d))]
         /\ Admit(R, op).outbox = R.outbox \ Bodies(R, op)
         /\ Admit(R, op).seq = Largest(SeqsOf(Added(R, op), R.own) \cup {R.seq})
BY DEF Admit, Added, Dead, Replica

LEMMA SeqsAreSeqs ==
  ASSUME NEW S, S \subseteq Ids, NEW d
  PROVE  SeqsOf(S, d) \subseteq 1 .. MaxSeq
BY DEF SeqsOf, Ids

LEMMA NewHeadType ==
  ASSUME NEW R \in Replica, NEW op \in Op
  PROVE  NewHead(R, op) \in [revs : SUBSET Ids, purged : BOOLEAN]
<1>1. R.head[op.ent] \in [revs : SUBSET Ids, purged : BOOLEAN] /\ op.id \in Ids
  BY DEF Replica, Op
<1> QED
  BY <1>1 DEF NewHead

LEMMA AdmitType ==
  ASSUME NEW R \in Replica, NEW op \in Op
  PROVE  Admit(R, op) \in Replica
<1>0. /\ R.own \in Devices /\ R.known \subseteq Ids /\ R.redacted \subseteq Ids
      /\ R.pending \subseteq Ids /\ R.waiting \subseteq Ids \X Ids /\ R.outbox \subseteq Ids
      /\ R.head \in [Entities -> [revs : SUBSET Ids, purged : BOOLEAN]]
      /\ R.seq \in 0 .. MaxSeq /\ op.id \in Ids
      /\ R.frontier \in [Devices -> FrontierRow]
  BY DEF Replica, Op, FrontierRow
<1>1. Added(R, op) \subseteq Ids
  BY <1>0 DEF Added, Swept, Of
<1>2. Bodies(R, op) \subseteq Ids
  BY <1>0 DEF Bodies, Of
<1>3. Dead(R, op) \subseteq Ids
  BY <1>1, <1>2 DEF Dead
<1>4. [R.head EXCEPT ![op.ent] = NewHead(R, op)]
        \in [Entities -> [revs : SUBSET Ids, purged : BOOLEAN]]
  BY <1>0, NewHeadType
<1>5. \A d \in Devices : Accept(R.frontier[d], SeqsOf(Added(R, op), d)) \in FrontierRow
  <2> TAKE d \in Devices
  <2>1. R.frontier[d] \in FrontierRow
    BY <1>0
  <2>2. SeqsOf(Added(R, op), d) \subseteq 1 .. MaxSeq
    BY <1>1, SeqsAreSeqs
  <2> QED BY <2>1, <2>2, AcceptClaims
<1>6. [d \in Devices |-> Accept(R.frontier[d], SeqsOf(Added(R, op), d))]
        \in [Devices -> FrontierRow]
  BY <1>5
<1>7. Largest(SeqsOf(Added(R, op), R.own) \cup {R.seq}) \in 0 .. MaxSeq
  <2> DEFINE S == SeqsOf(Added(R, op), R.own) \cup {R.seq}
  <2>1. MaxSeq \in Nat
    BY ReplicaAssumption
  <2>2. S \subseteq 0 .. MaxSeq /\ S # {}
    <3>1. SeqsOf(Added(R, op), R.own) \subseteq 1 .. MaxSeq
      BY <1>1, SeqsAreSeqs
    <3>2. 1 .. MaxSeq \subseteq 0 .. MaxSeq
      BY <2>1
    <3> QED BY <3>1, <3>2, <1>0
  <2> HIDE DEF S
  <2>3. Largest(S) \in S
    BY <2>1, <2>2, LargestOf
  <2> QED BY <2>2, <2>3 DEF S
<1> QED
  <2> DEFINE kn == R.known \cup Added(R, op)
             re == R.redacted \cup Dead(R, op)
             pe == R.pending \ Added(R, op)
             he == [R.head EXCEPT ![op.ent] = NewHead(R, op)]
             fr == [d \in Devices |-> Accept(R.frontier[d], SeqsOf(Added(R, op), d))]
             ou == R.outbox \ Bodies(R, op)
             sq == Largest(SeqsOf(Added(R, op), R.own) \cup {R.seq})
  <2>1. Admit(R, op) = [R EXCEPT !.known = kn, !.redacted = re, !.head = he, !.pending = pe,
                                 !.frontier = fr, !.outbox = ou, !.seq = sq]
    BY DEF Admit, Added, Dead
  <2>2. kn \subseteq Ids /\ re \subseteq Ids /\ pe \subseteq Ids /\ ou \subseteq Ids
    BY <1>0, <1>1, <1>3
  <2>3. he \in [Entities -> [revs : SUBSET Ids, purged : BOOLEAN]] /\ fr \in [Devices -> FrontierRow]
        /\ sq \in 0 .. MaxSeq
    BY <1>4, <1>6, <1>7
  <2> HIDE DEF kn, re, pe, he, fr, ou, sq
  <2>4. [R EXCEPT !.known = kn, !.redacted = re, !.head = he, !.pending = pe,
                  !.frontier = fr, !.outbox = ou, !.seq = sq] \in Replica
    BY <2>2, <2>3 DEF Replica, FrontierRow
  <2> QED BY <2>1, <2>4

-----------------------------------------------------------------------------
(* A replica by itself, over the operations O there are. *)

OfIn(O, S, e) == {i \in S : O[i].ent = e}
MaximalIn(O, S) == {i \in S : \A j \in S : i \notin O[j].anc}
PurgesIn(O, S) == {i \in S : O[i].kind = "purge"}

\* What an operation descends from: puts of its entity, with all of theirs.
OpsSound(O) ==
  /\ DOMAIN O \subseteq Ids
  /\ \A i \in DOMAIN O :
       /\ O[i] \in Op /\ O[i].id = i
       /\ O[i].parents \subseteq O[i].anc /\ O[i].anc \subseteq DOMAIN O /\ i \notin O[i].anc
       /\ \A j \in O[i].anc :
            /\ O[j].anc \subseteq O[i].anc /\ O[j].ent = O[i].ent /\ O[j].kind = "put"
            /\ j \in O[i].parents \/ \E p \in O[i].parents : j \in O[p].anc

RowsSound(O, R) ==
  /\ R \in Replica
  /\ R.known \cup R.pending \subseteq DOMAIN O
  /\ R.outbox \cup R.redacted \subseteq R.known
  /\ R.pending \cap R.known = {}
  /\ \A i \in R.pending : O[i].kind = "put"
  /\ \A i \in R.known : i[1] = R.own => i[2] <= R.seq
  /\ R.seq = 0 \/ <<R.own, R.seq>> \in R.known
  /\ R.waiting \subseteq Ids \X (R.pending \cup R.known)
HeadsSound(O, R) ==
  \A e \in Entities :
    LET mine == OfIn(O, R.known, e)
    IN  R.head[e] = IF PurgesIn(O, mine) # {} THEN [revs |-> PurgesIn(O, mine), purged |-> TRUE]
                    ELSE [revs |-> MaximalIn(O, mine), purged |-> FALSE]
ClosedSound(O, R) ==
  \A i \in R.known : ~R.head[O[i].ent].purged => O[i].anc \subseteq R.known
PurgedSound(O, R) ==
  /\ \A i \in R.redacted : R.head[O[i].ent].purged
  /\ \A i \in R.known : R.head[O[i].ent].purged => i \in R.redacted
  /\ \A i \in R.pending : ~R.head[O[i].ent].purged
  /\ \A i \in R.outbox : R.head[O[i].ent].purged => O[i].kind = "purge"
FrontierSound(R) ==
  \A d \in Devices : Claims(R.frontier[d], SeqsOf(R.known, d))
ParkedSound(O, R) ==
  \A i \in R.pending : (O[i].parents \ R.known) \X {i} \subseteq R.waiting

Sound(O, R) ==
  /\ RowsSound(O, R) /\ HeadsSound(O, R) /\ ClosedSound(O, R)
  /\ PurgedSound(O, R) /\ FrontierSound(R) /\ ParkedSound(O, R)

Continues(O) == DOMAIN ops \subseteq DOMAIN O /\ \A i \in DOMAIN ops : O[i] = ops[i]

\* An operation comes that R has not, with its parents or needing none.
Admissible(O, R, op) ==
  /\ op.id \in DOMAIN O /\ O[op.id] = op
  /\ op.id \notin R.known /\ ~Parks(R, op)

LEMMA AdmitContext ==
  ASSUME NEW O, NEW R, NEW op, OpsSound(O), Continues(O), Sound(O, R),
         R.known \cup R.pending \subseteq DOMAIN ops, Admissible(O, R, op)
  PROVE  /\ op \in Op /\ R \in Replica /\ op.ent \in Entities /\ op.kind \in {"put", "purge"}
         /\ Added(R, op) = {op.id} \cup IF op.kind = "purge" THEN OfIn(O, R.pending, op.ent) ELSE {}
         /\ Bodies(R, op) = IF op.kind = "purge" THEN OfIn(O, R.known, op.ent) \ R.redacted ELSE {}
         /\ Added(R, op) \subseteq DOMAIN O
         /\ \A i \in Added(R, op) : O[i].ent = op.ent
         /\ \A i \in Added(R, op) \ {op.id} : O[i].kind = "put" /\ op.kind = "purge"
         /\ Added(R, op) \cap R.known = {}
<1>1. op \in Op
  BY DEF OpsSound, Admissible
<1>2. R \in Replica
  BY DEF Sound, RowsSound
<1>3. \A i \in R.known \cup R.pending : O[i] = ops[i]
  BY DEF Continues
<1>4. op.ent \in Entities /\ op.kind \in {"put", "purge"}
  BY <1>1 DEF Op
<1>5. Added(R, op) = {op.id} \cup IF op.kind = "purge" THEN OfIn(O, R.pending, op.ent) ELSE {}
  BY <1>3 DEF Added, Swept, Of, OfIn
<1>6. Bodies(R, op) = IF op.kind = "purge" THEN OfIn(O, R.known, op.ent) \ R.redacted ELSE {}
  BY <1>3 DEF Bodies, Of, OfIn
<1> QED
  BY <1>1, <1>2, <1>4, <1>5, <1>6 DEF Admissible, OfIn, Sound, RowsSound

\* The operation that arrives is above what it descends from and below nothing.
LEMMA AdmitHead ==
  ASSUME NEW O, NEW R, NEW op, OpsSound(O), Continues(O), Sound(O, R),
         R.known \cup R.pending \subseteq DOMAIN ops, Admissible(O, R, op)
  PROVE  LET mine == OfIn(O, R.known \cup Added(R, op), op.ent)
         IN  NewHead(R, op) =
               IF PurgesIn(O, mine) # {} THEN [revs |-> PurgesIn(O, mine), purged |-> TRUE]
               ELSE [revs |-> MaximalIn(O, mine), purged |-> FALSE]
<1> DEFINE e == op.ent
           old == OfIn(O, R.known, e)
           mine == OfIn(O, R.known \cup Added(R, op), e)
           h == R.head[e]
<1>1. /\ op \in Op /\ R \in Replica /\ e \in Entities /\ op.kind \in {"put", "purge"}
      /\ mine = old \cup Added(R, op)
      /\ op.id \in Added(R, op) /\ op.id \notin R.known
      /\ \A i \in Added(R, op) \ {op.id} : O[i].kind = "put" /\ op.kind = "purge"
      /\ O[op.id] = op
  BY AdmitContext DEF OfIn, Admissible
<1>2. h = IF PurgesIn(O, old) # {} THEN [revs |-> PurgesIn(O, old), purged |-> TRUE]
          ELSE [revs |-> MaximalIn(O, old), purged |-> FALSE]
  BY <1>1 DEF Sound, HeadsSound
<1>3. CASE op.kind = "purge"
  <2>1. PurgesIn(O, mine) = {op.id} \cup PurgesIn(O, old)
    BY <1>1, <1>3 DEF PurgesIn
  <2>2. NewHead(R, op) = [revs |-> {op.id} \cup (IF h.purged THEN h.revs ELSE {}), purged |-> TRUE]
    BY <1>3 DEF NewHead
  <2>3. (IF h.purged THEN h.revs ELSE {}) = PurgesIn(O, old)
    BY <1>2
  <2> QED BY <2>1, <2>2, <2>3
<1>4. CASE op.kind # "purge" /\ h.purged
  <2>1. mine = old \cup {op.id}
    BY <1>1, <1>4
  <2>2. PurgesIn(O, mine) = PurgesIn(O, old)
    BY <1>1, <1>4, <2>1 DEF PurgesIn
  <2>3. NewHead(R, op) = h
    BY <1>4 DEF NewHead
  <2>4. PurgesIn(O, old) # {} /\ h = [revs |-> PurgesIn(O, old), purged |-> TRUE]
    BY <1>2, <1>4
  <2> QED BY <2>2, <2>3, <2>4
<1>5. CASE op.kind # "purge" /\ ~h.purged
  <2>1. mine = old \cup {op.id}
    BY <1>1, <1>5
  <2>2. PurgesIn(O, old) = {} /\ h.revs = MaximalIn(O, old)
    BY <1>2, <1>5
  <2>3. PurgesIn(O, mine) = {}
    BY <1>1, <1>5, <2>1, <2>2 DEF PurgesIn
  <2>4. \A i \in old : O[i].anc \subseteq R.known
    BY <1>5 DEF Sound, ClosedSound, OfIn
  <2>5. \A i \in old : op.id \notin O[i].anc
    BY <2>4, <1>1
  <2>6. op.id \notin op.anc
    BY <1>1 DEF OpsSound, Admissible
  <2>7. MaximalIn(O, mine) = (h.revs \ op.anc) \cup {op.id}
    BY <2>1, <2>2, <2>5, <2>6, <1>1 DEF MaximalIn
  <2>8. \A r \in h.revs : r \in DOMAIN ops /\ O[r] = ops[r] /\ r \in old
    BY <2>2 DEF MaximalIn, OfIn, Continues
  <2>9. ~(\E r \in h.revs \ op.anc : op.id \in ops[r].anc)
    BY <2>8, <2>5
  <2>10. NewHead(R, op) = [revs |-> (h.revs \ op.anc) \cup {op.id}, purged |-> FALSE]
    BY <1>5, <2>9 DEF NewHead
  <2> QED BY <2>3, <2>7, <2>10
<1> QED
  BY <1>3, <1>4, <1>5

LEMMA AdmitHeads ==
  ASSUME NEW O, NEW R, NEW op, OpsSound(O), Continues(O), Sound(O, R),
         R.known \cup R.pending \subseteq DOMAIN ops, Admissible(O, R, op)
  PROVE  HeadsSound(O, Admit(R, op))
<1> DEFINE new == Admit(R, op)
<1>1. new.known = R.known \cup Added(R, op) /\ new.head = [R.head EXCEPT ![op.ent] = NewHead(R, op)]
      /\ op.ent \in Entities /\ DOMAIN R.head = Entities
      /\ \A i \in Added(R, op) : O[i].ent = op.ent
  <2>1. op \in Op /\ R \in Replica
    BY AdmitContext
  <2>2. DOMAIN R.head = Entities
    BY <2>1 DEF Replica
  <2>3. op.ent \in Entities /\ \A i \in Added(R, op) : O[i].ent = op.ent
    BY AdmitContext
  <2>4. new.known = R.known \cup Added(R, op) /\ new.head = [R.head EXCEPT ![op.ent] = NewHead(R, op)]
    BY <2>1, AdmitFields
  <2> QED BY <2>2, <2>3, <2>4
<1> HIDE DEF new
<1>2. ASSUME NEW e \in Entities, e # op.ent
      PROVE  OfIn(O, new.known, e) = OfIn(O, R.known, e) /\ new.head[e] = R.head[e]
  BY <1>1, <1>2 DEF OfIn
<1>3. new.head[op.ent] = NewHead(R, op)
  BY <1>1
<1>4. ASSUME NEW e \in Entities
      PROVE  LET mine == OfIn(O, new.known, e)
             IN  new.head[e] =
                   IF PurgesIn(O, mine) # {} THEN [revs |-> PurgesIn(O, mine), purged |-> TRUE]
                   ELSE [revs |-> MaximalIn(O, mine), purged |-> FALSE]
  <2>1. CASE e = op.ent
    <3>1. OfIn(O, new.known, e) = OfIn(O, R.known \cup Added(R, op), op.ent)
      BY <2>1, <1>1
    <3> QED BY <3>1, <2>1, <1>3, AdmitHead
  <2>2. CASE e # op.ent
    BY <2>2, <1>2 DEF Sound, HeadsSound
  <2> QED BY <2>1, <2>2
<1>5. HeadsSound(O, new)
  BY <1>4 DEF HeadsSound
<1> QED
  BY <1>5 DEF new

LEMMA AdmitNumbers ==
  ASSUME NEW O, NEW R, NEW op, OpsSound(O), Continues(O), Sound(O, R),
         R.known \cup R.pending \subseteq DOMAIN ops, Admissible(O, R, op)
  PROVE  /\ Admit(R, op).seq \in SeqsOf(Added(R, op), R.own) \cup {R.seq}
         /\ Admit(R, op).seq >= R.seq /\ Admit(R, op).seq \in Nat /\ R.seq \in Nat
         /\ \A i \in Added(R, op) : i[1] = R.own => i[2] <= Admit(R, op).seq
<1> DEFINE S == SeqsOf(Added(R, op), R.own) \cup {R.seq}
<1>1. op \in Op /\ R \in Replica /\ Added(R, op) \subseteq Ids
  BY AdmitContext DEF OpsSound
<1>2. Admit(R, op).seq = Largest(S)
  BY <1>1, AdmitFields
<1>3. MaxSeq \in Nat /\ R.seq \in 0 .. MaxSeq
  BY <1>1, ReplicaAssumption DEF Replica
<1>4. S \subseteq 0 .. MaxSeq /\ S # {} /\ R.seq \in S
  <2>1. SeqsOf(Added(R, op), R.own) \subseteq 1 .. MaxSeq
    BY <1>1, SeqsAreSeqs
  <2>2. 1 .. MaxSeq \subseteq 0 .. MaxSeq
    BY <1>3
  <2> QED BY <2>1, <2>2, <1>3
<1>5. \A i \in Added(R, op) : i[1] = R.own => i[2] \in S
  BY DEF SeqsOf
<1> HIDE DEF S
<1>6. Largest(S) \in S /\ \A n \in S : n <= Largest(S)
  BY <1>3, <1>4, LargestOf
<1>7. Largest(S) >= R.seq /\ Largest(S) \in Nat /\ R.seq \in Nat
  <2>1. Largest(S) \in 0 .. MaxSeq /\ R.seq <= Largest(S)
    BY <1>4, <1>6
  <2> QED BY <2>1, <1>3
<1> QED
  BY <1>2, <1>5, <1>6, <1>7 DEF S

LEMMA AdmitRows ==
  ASSUME NEW O, NEW R, NEW op, OpsSound(O), Continues(O), Sound(O, R),
         R.known \cup R.pending \subseteq DOMAIN ops, Admissible(O, R, op)
  PROVE  RowsSound(O, Admit(R, op))
<1> DEFINE new == Admit(R, op)
<1>1. op \in Op /\ R \in Replica /\ Added(R, op) \subseteq DOMAIN O
      /\ Added(R, op) \cap R.known = {} /\ new \in Replica
  BY AdmitContext, AdmitType
<1>2. /\ new.own = R.own /\ new.known = R.known \cup Added(R, op)
      /\ new.redacted = R.redacted \cup Dead(R, op) /\ new.pending = R.pending \ Added(R, op)
      /\ new.waiting = R.waiting /\ new.outbox = R.outbox \ Bodies(R, op)
  BY <1>1, AdmitFields
<1>3. \A i \in Added(R, op) : i[1] = R.own => i[2] <= new.seq
  BY AdmitNumbers
<1>4. new.seq >= R.seq /\ new.seq \in Nat /\ R.seq \in Nat
  BY AdmitNumbers
<1>5. Dead(R, op) \subseteq R.known \cup Added(R, op)
  BY DEF Dead, Bodies, Of
<1>6. /\ R.known \cup R.pending \subseteq DOMAIN O
      /\ R.outbox \cup R.redacted \subseteq R.known
      /\ R.pending \cap R.known = {}
      /\ \A i \in R.pending : O[i].kind = "put"
      /\ \A i \in R.known : i[1] = R.own => i[2] <= R.seq
      /\ R.seq = 0 \/ <<R.own, R.seq>> \in R.known
      /\ R.waiting \subseteq Ids \X (R.pending \cup R.known)
  BY DEF Sound, RowsSound
<1>7. \A i \in R.known : i[1] = R.own => i[2] \in Nat
  BY <1>1 DEF Replica, Ids
<1> HIDE DEF new
<1>8. \A i \in new.known : i[1] = new.own => i[2] <= new.seq
  <2> SUFFICES ASSUME NEW i \in new.known, i[1] = new.own PROVE i[2] <= new.seq
    OBVIOUS
  <2>1. CASE i \in Added(R, op)
    BY <2>1, <1>2, <1>3
  <2>2. CASE i \in R.known
    BY <2>2, <1>2, <1>4, <1>6, <1>7
  <2> QED BY <2>1, <2>2, <1>2
<1>9. new.waiting \subseteq Ids \X (new.pending \cup new.known)
  BY <1>2, <1>6
<1>12. new.seq = 0 \/ <<new.own, new.seq>> \in new.known
  <2>1. Admit(R, op).seq \in SeqsOf(Added(R, op), R.own) \cup {R.seq}
    BY AdmitNumbers
  <2>2. CASE new.seq = R.seq
    BY <2>2, <1>2, <1>6
  <2>3. CASE new.seq \in SeqsOf(Added(R, op), R.own)
    <3>1. PICK i \in Added(R, op) : i[1] = R.own /\ i[2] = new.seq
      BY <2>3 DEF SeqsOf
    <3>2. i \in Ids
      BY <1>1, <3>1 DEF OpsSound
    <3>3. i = <<i[1], i[2]>>
      BY <3>2 DEF Ids
    <3> QED BY <3>1, <3>3, <1>2
  <2> QED BY <2>1, <2>2, <2>3 DEF new
<1>10. new.known \cup new.pending \subseteq DOMAIN O
       /\ new.outbox \cup new.redacted \subseteq new.known /\ new.pending \cap new.known = {}
       /\ \A i \in new.pending : O[i].kind = "put"
  BY <1>1, <1>2, <1>5, <1>6
<1>11. RowsSound(O, new)
  BY <1>1, <1>8, <1>9, <1>10, <1>12 DEF RowsSound
<1> QED
  BY <1>11 DEF new

\* An entity is purged by a purge, and stays so.
LEMMA AdmitPurges ==
  ASSUME NEW O, NEW R, NEW op, OpsSound(O), Continues(O), Sound(O, R),
         R.known \cup R.pending \subseteq DOMAIN ops, Admissible(O, R, op)
  PROVE  /\ NewHead(R, op).purged <=> op.kind = "purge" \/ R.head[op.ent].purged
         /\ Admit(R, op).head[op.ent] = NewHead(R, op)
         /\ \A e \in Entities \ {op.ent} : Admit(R, op).head[e] = R.head[e]
         /\ \A i \in R.known \cup R.pending \cup Added(R, op) : O[i].ent \in Entities
<1>1. op \in Op /\ R \in Replica /\ op.ent \in Entities /\ Added(R, op) \subseteq DOMAIN O
  BY AdmitContext
<1>2. Admit(R, op).head = [R.head EXCEPT ![op.ent] = NewHead(R, op)]
  BY <1>1, AdmitFields
<1>3. DOMAIN R.head = Entities /\ R.head[op.ent].purged \in BOOLEAN
  BY <1>1 DEF Replica
<1>4. NewHead(R, op).purged <=> op.kind = "purge" \/ R.head[op.ent].purged
  <2>1. CASE op.kind = "purge"
    BY <2>1 DEF NewHead
  <2>2. CASE op.kind # "purge"
    BY <2>2, <1>3 DEF NewHead
  <2> QED BY <2>1, <2>2
<1>5. \A i \in DOMAIN O : O[i].ent \in Entities
  BY DEF OpsSound, Op
<1> QED
  BY <1>1, <1>2, <1>3, <1>4, <1>5 DEF Sound, RowsSound

LEMMA AdmitClosed ==
  ASSUME NEW O, NEW R, NEW op, OpsSound(O), Continues(O), Sound(O, R),
         R.known \cup R.pending \subseteq DOMAIN ops, Admissible(O, R, op)
  PROVE  ClosedSound(O, Admit(R, op))
<1> DEFINE new == Admit(R, op)
<1>0. op \in Op /\ R \in Replica
  BY AdmitContext
<1>1. new.known = R.known \cup Added(R, op)
  BY <1>0, AdmitFields
<1>2. /\ NewHead(R, op).purged <=> op.kind = "purge" \/ R.head[op.ent].purged
      /\ new.head[op.ent] = NewHead(R, op)
      /\ \A e \in Entities \ {op.ent} : new.head[e] = R.head[e]
      /\ \A i \in R.known \cup R.pending \cup Added(R, op) : O[i].ent \in Entities
  BY AdmitPurges
<1> HIDE DEF new
<1>3. ASSUME NEW i \in new.known, ~new.head[O[i].ent].purged
      PROVE  O[i].anc \subseteq new.known
  <2>1. CASE i \in R.known
    <3>1. ~R.head[O[i].ent].purged
      BY <1>2, <1>3, <2>1
    <3> QED BY <3>1, <2>1, <1>1 DEF Sound, ClosedSound
  <2>2. CASE i \in Added(R, op)
    <3>1. O[i].ent = op.ent /\ op.kind # "purge" /\ ~R.head[op.ent].purged
      BY <2>2, <1>2, <1>3, AdmitContext
    <3>2. i = op.id
      BY <2>2, <3>1, AdmitContext
    <3>3. op.parents \subseteq R.known
      BY <3>1 DEF Admissible, Parks, Missing
    <3>4. O[op.id] = op /\ op.id \in DOMAIN O
      BY DEF Admissible
    <3>5. ASSUME NEW j \in op.anc PROVE j \in R.known
      <4>1. j \in op.parents \/ \E p \in op.parents : j \in O[p].anc
        BY <3>4 DEF OpsSound
      <4>2. \A p \in op.parents : O[p].anc \subseteq R.known
        <5> TAKE p \in op.parents
        <5>1. p \in op.anc
          BY <3>4 DEF OpsSound
        <5>2. O[p].ent = op.ent
          BY <5>1, <3>4 DEF OpsSound
        <5> QED BY <3>1, <3>3, <5>2 DEF Sound, ClosedSound
      <4> QED BY <4>1, <4>2, <3>3
    <3> QED BY <3>2, <3>4, <3>5, <1>1
  <2> QED BY <2>1, <2>2, <1>1
<1>4. ClosedSound(O, new)
  BY <1>3 DEF ClosedSound
<1> QED
  BY <1>4 DEF new

LEMMA AdmitPurged ==
  ASSUME NEW O, NEW R, NEW op, OpsSound(O), Continues(O), Sound(O, R),
         R.known \cup R.pending \subseteq DOMAIN ops, Admissible(O, R, op)
  PROVE  PurgedSound(O, Admit(R, op))
<1> DEFINE new == Admit(R, op)
<1>1. /\ new.known = R.known \cup Added(R, op)
      /\ new.redacted = R.redacted \cup Dead(R, op) /\ new.pending = R.pending \ Added(R, op)
      /\ new.outbox = R.outbox \ Bodies(R, op)
  <2>1. op \in Op /\ R \in Replica
    BY AdmitContext
  <2> QED BY <2>1, AdmitFields
<1>2. /\ NewHead(R, op).purged <=> op.kind = "purge" \/ R.head[op.ent].purged
      /\ new.head[op.ent] = NewHead(R, op)
      /\ \A e \in Entities \ {op.ent} : new.head[e] = R.head[e]
      /\ \A i \in R.known \cup R.pending \cup Added(R, op) : O[i].ent \in Entities
  BY AdmitPurges
<1>3. /\ op.kind \in {"put", "purge"}
      /\ Added(R, op) = {op.id} \cup IF op.kind = "purge" THEN OfIn(O, R.pending, op.ent) ELSE {}
      /\ Bodies(R, op) = IF op.kind = "purge" THEN OfIn(O, R.known, op.ent) \ R.redacted ELSE {}
      /\ \A i \in Added(R, op) : O[i].ent = op.ent
  BY AdmitContext
<1>4. /\ R.outbox \cup R.redacted \subseteq R.known
      /\ R.pending \cap R.known = {} /\ \A i \in R.pending : O[i].kind = "put"
      /\ PurgedSound(O, R)
  BY DEF Sound, RowsSound
<1>5. Dead(R, op) = IF NewHead(R, op).purged THEN Bodies(R, op) \cup Added(R, op) ELSE {}
  BY DEF Dead
<1> HIDE DEF new
<1>6. \A i \in new.redacted : new.head[O[i].ent].purged
  <2> TAKE i \in new.redacted
  <2>1. CASE i \in R.redacted
    BY <2>1, <1>2, <1>4 DEF PurgedSound
  <2>2. CASE i \in Dead(R, op)
    <3>1. O[i].ent = op.ent /\ NewHead(R, op).purged
      BY <2>2, <1>3, <1>5 DEF OfIn
    <3> QED BY <3>1, <1>2
  <2> QED BY <2>1, <2>2, <1>1
<1>7. ASSUME NEW i \in new.known, new.head[O[i].ent].purged PROVE i \in new.redacted
  <2>1. CASE i \in Added(R, op)
    BY <2>1, <1>1, <1>2, <1>3, <1>5, <1>7
  <2>2. CASE i \in R.known /\ R.head[O[i].ent].purged
    BY <2>2, <1>1, <1>4 DEF PurgedSound
  <2>3. CASE i \in R.known /\ ~R.head[O[i].ent].purged
    <3>1. O[i].ent = op.ent /\ op.kind = "purge" /\ NewHead(R, op).purged
      BY <2>3, <1>2, <1>7
    <3>2. i \in R.redacted \cup Bodies(R, op)
      BY <3>1, <2>3, <1>3 DEF OfIn
    <3> QED BY <3>1, <3>2, <1>1, <1>5
  <2> QED BY <2>1, <2>2, <2>3, <1>1
<1>8. \A i \in new.pending : ~new.head[O[i].ent].purged
  <2> TAKE i \in new.pending
  <2>1. i \in R.pending /\ i \notin Added(R, op) /\ ~R.head[O[i].ent].purged
    BY <1>1, <1>4 DEF PurgedSound
  <2>2. CASE O[i].ent # op.ent
    BY <2>1, <2>2, <1>2
  <2>3. CASE O[i].ent = op.ent
    <3>1. op.kind # "purge"
      BY <2>1, <2>3, <1>3 DEF OfIn
    <3> QED BY <3>1, <2>1, <2>3, <1>2
  <2> QED BY <2>2, <2>3
<1>9. ASSUME NEW i \in new.outbox, new.head[O[i].ent].purged PROVE O[i].kind = "purge"
  <2>1. i \in R.outbox /\ i \in R.known /\ i \notin Bodies(R, op)
    BY <1>1, <1>4
  <2>2. CASE R.head[O[i].ent].purged
    BY <2>1, <2>2, <1>4 DEF PurgedSound
  <2>3. CASE ~R.head[O[i].ent].purged
    <3>1. O[i].ent = op.ent /\ op.kind = "purge"
      BY <2>1, <2>3, <1>2, <1>9
    <3>2. i \in R.redacted
      BY <3>1, <2>1, <1>3 DEF OfIn
    <3> QED BY <3>2, <2>3, <1>4 DEF PurgedSound
  <2> QED BY <2>2, <2>3
<1>10. PurgedSound(O, new)
  BY <1>6, <1>7, <1>8, <1>9 DEF PurgedSound
<1> QED
  BY <1>10 DEF new

LEMMA AdmitFrontier ==
  ASSUME NEW O, NEW R, NEW op, OpsSound(O), Continues(O), Sound(O, R),
         R.known \cup R.pending \subseteq DOMAIN ops, Admissible(O, R, op)
  PROVE  FrontierSound(Admit(R, op))
<1>1. op \in Op /\ R \in Replica /\ Added(R, op) \subseteq Ids
  BY AdmitContext DEF OpsSound
<1>2. Admit(R, op).known = R.known \cup Added(R, op)
      /\ Admit(R, op).frontier = [d \in Devices |-> Accept(R.frontier[d], SeqsOf(Added(R, op), d))]
  BY <1>1, AdmitFields
<1>3. ASSUME NEW d \in Devices
      PROVE  Claims(Admit(R, op).frontier[d], SeqsOf(Admit(R, op).known, d))
  <2>1. R.frontier[d] \in FrontierRow
    BY <1>1 DEF Replica, FrontierRow
  <2>2. Claims(R.frontier[d], SeqsOf(R.known, d))
    BY DEF Sound, FrontierSound
  <2>3. SeqsOf(Added(R, op), d) \subseteq 1 .. MaxSeq
    BY <1>1, SeqsAreSeqs
  <2>4. Claims(Accept(R.frontier[d], SeqsOf(Added(R, op), d)),
               SeqsOf(R.known, d) \cup SeqsOf(Added(R, op), d))
    BY <2>1, <2>2, <2>3, AcceptClaims
  <2>5. SeqsOf(Admit(R, op).known, d) = SeqsOf(R.known, d) \cup SeqsOf(Added(R, op), d)
    BY <1>2 DEF SeqsOf
  <2> QED BY <2>4, <2>5, <1>2
<1> QED
  BY <1>3 DEF FrontierSound

LEMMA AdmitSound ==
  ASSUME NEW O, NEW R, NEW op, OpsSound(O), Continues(O), Sound(O, R),
         R.known \cup R.pending \subseteq DOMAIN ops, Admissible(O, R, op)
  PROVE  Sound(O, Admit(R, op))
<1>1. ParkedSound(O, Admit(R, op))
  <2>1. op \in Op /\ R \in Replica
    BY AdmitContext
  <2>2. /\ Admit(R, op).known = R.known \cup Added(R, op)
        /\ Admit(R, op).pending = R.pending \ Added(R, op)
        /\ Admit(R, op).waiting = R.waiting
    BY <2>1, AdmitFields
  <2>3. ASSUME NEW i \in Admit(R, op).pending
        PROVE  (O[i].parents \ Admit(R, op).known) \X {i} \subseteq Admit(R, op).waiting
    <3>1. (O[i].parents \ R.known) \X {i} \subseteq R.waiting
      BY <2>2 DEF Sound, ParkedSound
    <3>2. O[i].parents \ Admit(R, op).known \subseteq O[i].parents \ R.known
      BY <2>2
    <3> QED BY <3>1, <3>2, <2>2
  <2> QED BY <2>3 DEF ParkedSound
<1> QED
  BY <1>1, AdmitRows, AdmitHeads, AdmitClosed, AdmitPurged, AdmitFrontier DEF Sound

-----------------------------------------------------------------------------
(* Applying an operation that exists to a replica. *)

LEMMA ParkSound ==
  ASSUME NEW R, NEW op, OpsSound(ops), Sound(ops, R), op.id \in DOMAIN ops, ops[op.id] = op,
         op.id \notin R.known, Parks(R, op)
  PROVE  /\ Sound(ops, Park(R, op))
         /\ Park(R, op).own = R.own /\ Park(R, op).known = R.known /\ Park(R, op).head = R.head
         /\ Park(R, op).redacted = R.redacted /\ Park(R, op).outbox = R.outbox
         /\ Park(R, op).seq = R.seq /\ Park(R, op).pending = R.pending \cup {op.id}
         /\ R.waiting \subseteq Park(R, op).waiting
<1> DEFINE new == Park(R, op)
<1>1. R \in Replica /\ op \in Op /\ op.parents \subseteq Ids /\ op.id \in Ids
  BY DEF Sound, RowsSound, OpsSound, Op
<1>2. op.kind = "put" /\ ~R.head[op.ent].purged
  BY <1>1 DEF Parks, Op
<1>3. /\ new.own = R.own /\ new.known = R.known /\ new.head = R.head
      /\ new.redacted = R.redacted /\ new.outbox = R.outbox
      /\ new.seq = R.seq /\ new.pending = R.pending \cup {op.id}
      /\ new.waiting = R.waiting \cup ((op.parents \ R.known) \X {op.id})
      /\ new.frontier = R.frontier
  BY <1>1 DEF Park, Missing, Replica
<1>4. new \in Replica
  <2> DEFINE pe == R.pending \cup {op.id}
             wa == R.waiting \cup (Missing(R, op) \X {op.id})
  <2>1. pe \in SUBSET Ids /\ wa \in SUBSET (Ids \X Ids)
    BY <1>1 DEF Replica, Missing
  <2>2. new = [R EXCEPT !.pending = pe, !.waiting = wa]
    BY DEF Park
  <2> HIDE DEF pe, wa, new
  <2> QED BY <2>1, <2>2, <1>1 DEF Replica
<1> HIDE DEF new
<1>5. RowsSound(ops, new)
  <2>1. RowsSound(ops, R)
    BY DEF Sound
  <2>2. new.waiting \subseteq Ids \X (new.pending \cup new.known)
    BY <2>1, <1>1, <1>3 DEF RowsSound
  <2> QED BY <2>1, <2>2, <1>2, <1>3, <1>4 DEF RowsSound
<1>6. HeadsSound(ops, new) /\ ClosedSound(ops, new) /\ FrontierSound(new)
  BY <1>3 DEF Sound, HeadsSound, ClosedSound, FrontierSound
<1>7. PurgedSound(ops, new)
  BY <1>2, <1>3 DEF Sound, PurgedSound
<1>8. ParkedSound(ops, new)
  BY <1>3 DEF Sound, ParkedSound
<1> QED
  BY <1>3, <1>5, <1>6, <1>7, <1>8 DEF Sound, new

\* What R misses of an operation.
Lacks(R, i) == ops[i].parents \ R.known

LEMMA ApplySound ==
  ASSUME NEW R, NEW i \in DOMAIN ops, OpsSound(ops), Sound(ops, R)
  PROVE  LET new == Apply(R, ops[i])
         IN  /\ Sound(ops, new) /\ new.own = R.own
             /\ R.known \subseteq new.known /\ R.redacted \subseteq new.redacted
             /\ R.waiting \subseteq new.waiting
             /\ new.outbox \subseteq R.outbox /\ R.outbox \ new.outbox \subseteq new.redacted
             /\ (\A j \in DOMAIN ops : j[1] = R.own => j \in R.known) => new.seq = R.seq
             /\ new.known \subseteq R.known \cup R.pending \cup {i}
             /\ i \in new.pending => Lacks(new, i) # {}
             /\ new.pending \subseteq R.pending \cup {i}
             /\ \A j \in new.pending \ {i} :
                  Lacks(new, j) = {} /\ Lacks(R, j) # {} => i \in new.known /\ <<i, j>> \in new.waiting
             /\ ~Advances(R, ops[i]) => new.head = R.head
<1> DEFINE op == ops[i]
           new == Apply(R, op)
<1>1. op.id = i /\ ops[op.id] = op /\ op \in Op /\ R \in Replica
  BY DEF OpsSound, Sound, RowsSound
<1>2. CASE i \in R.known
  <2>1. new = R
    BY <1>1, <1>2 DEF Apply
  <2>2. i \notin R.pending
    BY <1>2 DEF Sound, RowsSound
  <2> QED BY <2>1, <2>2
<1>3. CASE i \notin R.known /\ Parks(R, op)
  <2>1. new = Park(R, op)
    BY <1>1, <1>3 DEF Apply
  <2>2. Lacks(R, i) # {}
    BY <1>3 DEF Lacks, Parks, Missing
  <2> HIDE DEF op
  <2>3. /\ Sound(ops, new)
        /\ new.own = R.own /\ new.known = R.known /\ new.head = R.head
        /\ new.redacted = R.redacted /\ new.outbox = R.outbox
        /\ new.seq = R.seq /\ new.pending = R.pending \cup {op.id}
        /\ R.waiting \subseteq new.waiting
    BY <1>1, <1>3, <2>1, ParkSound
  <2> HIDE DEF new
  <2>4. \A j \in new.pending : Lacks(new, j) = Lacks(R, j)
    BY <2>3 DEF Lacks
  <2>5. /\ Sound(ops, new) /\ new.own = R.own
        /\ R.known \subseteq new.known /\ R.redacted \subseteq new.redacted
        /\ R.waiting \subseteq new.waiting
        /\ new.outbox \subseteq R.outbox /\ R.outbox \ new.outbox \subseteq new.redacted
        /\ new.seq = R.seq
        /\ new.known \subseteq R.known \cup R.pending \cup {i}
        /\ i \in new.pending => Lacks(new, i) # {}
        /\ new.pending \subseteq R.pending \cup {i}
        /\ \A j \in new.pending \ {i} : ~(Lacks(new, j) = {} /\ Lacks(R, j) # {})
        /\ new.head = R.head
    BY <1>1, <2>2, <2>3, <2>4
  <2> QED BY <2>5 DEF new, op
<1>4. CASE i \notin R.known /\ ~Parks(R, op)
  <2>1. new = Admit(R, op)
    BY <1>1, <1>4 DEF Apply
  <2>2. Admissible(ops, R, op) /\ Continues(ops) /\ R.known \cup R.pending \subseteq DOMAIN ops
    BY <1>1, <1>4 DEF Admissible, Continues, Sound, RowsSound
  <2> HIDE DEF op
  <2>3. Sound(ops, new)
    BY <2>1, <2>2, AdmitSound
  <2>4. /\ new.own = R.own /\ new.known = R.known \cup Added(R, op)
        /\ new.redacted = R.redacted \cup Dead(R, op) /\ new.pending = R.pending \ Added(R, op)
        /\ new.waiting = R.waiting /\ new.outbox = R.outbox \ Bodies(R, op)
    <3>1. R \in Replica /\ op \in Op
      BY <1>1
    <3> HIDE DEF new
    <3> QED BY <2>1, <3>1, AdmitFields
  <2>5. Bodies(R, op) \subseteq Dead(R, op)
    <3>1. CASE op.kind = "purge"
      <4>1. NewHead(R, op).purged
        BY <3>1 DEF NewHead
      <4> QED BY <4>1 DEF Dead
    <3>2. CASE op.kind # "purge"
      BY <3>2 DEF Bodies
    <3> QED BY <3>1, <3>2
  <2>6. /\ Added(R, op) = {op.id} \cup IF op.kind = "purge" THEN OfIn(ops, R.pending, op.ent) ELSE {}
        /\ Added(R, op) \subseteq DOMAIN ops
        /\ Added(R, op) \cap R.known = {}
    BY <2>2, AdmitContext
  <2>8. ASSUME \A j \in DOMAIN ops : j[1] = R.own => j \in R.known PROVE new.seq = R.seq
    <3>2. SeqsOf(Added(R, op), R.own) = {}
      BY <2>6, <2>8 DEF SeqsOf
    <3>1. Admit(R, op).seq \in SeqsOf(Added(R, op), R.own) \cup {R.seq}
      BY <2>2, AdmitNumbers
    <3> QED BY <3>1, <3>2, <2>1
  <2> HIDE DEF new
  <2>9. ASSUME NEW j \in new.pending \ {i}, Lacks(new, j) = {}, Lacks(R, j) # {}
        PROVE  i \in new.known /\ <<i, j>> \in new.waiting
    <3>1. j \in R.pending /\ j \notin Added(R, op) /\ j \in DOMAIN ops
      BY <2>2, <2>4
    <3>2. PICK p \in Lacks(R, j) : TRUE
      BY <2>9
    <3>3. p \in ops[j].parents /\ p \in Added(R, op)
      BY <2>4, <2>9 DEF Lacks
    <3>4. ops[p].ent = ops[j].ent
      BY <3>1, <3>3 DEF OpsSound
    <3>5. p = op.id
      <4> SUFFICES ASSUME p # op.id PROVE FALSE
        OBVIOUS
      <4>1. op.kind = "purge" /\ ops[p].ent = op.ent
        BY <3>3, <2>6 DEF OfIn
      <4>2. j \in OfIn(ops, R.pending, op.ent)
        BY <3>1, <3>4, <4>1 DEF OfIn
      <4> QED BY <4>1, <4>2, <2>6, <3>1
    <3>6. <<p, j>> \in R.waiting
      BY <3>1, <3>2 DEF Sound, ParkedSound, Lacks
    <3> QED BY <3>3, <3>5, <3>6, <1>1, <2>4
  <2>11. new.known \subseteq R.known \cup R.pending \cup {i}
    BY <1>1, <2>4, <2>6 DEF OfIn
  <2>10. i \notin new.pending /\ Advances(R, op)
    BY <1>1, <1>4, <2>4, <2>6 DEF Advances
  <2> QED BY <1>1, <2>3, <2>4, <2>5, <2>8, <2>9, <2>10, <2>11 DEF new, op
<1> QED
  BY <1>2, <1>3, <1>4

-----------------------------------------------------------------------------
(* The inductive invariant: what all devices share, and each by itself. *)

Shared ==
  /\ OpsSound(ops) /\ IsFiniteSet(DOMAIN ops)
  /\ rep \in [Devices -> Replica]
  /\ DOMAIN prep = Devices /\ DOMAIN visit = Devices
  /\ resuming \in [Devices -> BOOLEAN]
  /\ published \subseteq DOMAIN ops
  /\ crashes \in 0 .. MaxCrashes

\* A device has all it ever sealed, and shares what is not purged, in the queue,
\* in the shared store or in what is kept elsewhere.
OwnSound(d, kept) ==
  /\ rep[d].own = d
  /\ \A i \in DOMAIN ops : i[1] = d => i \in rep[d].known
  /\ \A i \in rep[d].known :
       i[1] = d /\ i \notin rep[d].redacted => i \in rep[d].outbox \cup published \cup kept
\* A parked operation that lacks nothing is about to be tried.
VisitsSound(d) ==
  /\ visit[d] \subseteq [parent : Ids, left : SUBSET Ids]
  /\ \A v \in visit[d] : v.parent \in rep[d].known
  /\ \A i \in rep[d].pending :
       Lacks(rep[d], i) = {} => resuming[d] \/ \E v \in visit[d] : i \in v.left
\* A prepared change that may still commit is what would be sealed now.
PrepSound(d) ==
  /\ prep[d] = None \/ prep[d] \in [op : Op, fresh : BOOLEAN]
  /\ prep[d] # None /\ prep[d].fresh =>
       LET op == prep[d].op
       IN  /\ rep[d].seq < MaxSeq /\ ~rep[d].head[op.ent].purged
           /\ op = Seal(d, op.ent, op.kind)

DeviceSound(d, kept) == Sound(ops, rep[d]) /\ OwnSound(d, kept) /\ VisitsSound(d) /\ PrepSound(d)
ReplicaInv(kept) == Shared /\ \A d \in Devices : DeviceSound(d, kept)

LEMMA InvIsEnough ==
  ASSUME NEW kept, ReplicaInv(kept)
  PROVE  /\ TypeOK /\ HeadsAreMaximal /\ PurgedLeavesNothing /\ FrontierIsReceipts
         /\ NothingStranded /\ RevisionsAreClosed
         /\ kept = {} => NoLostUpdate
<1> USE DEF ReplicaInv, Shared, DeviceSound
<1>0. \A d \in Devices : RowsSound(ops, rep[d])
  BY DEF Sound
<1>1. TypeOK
  <2>1. DOMAIN ops \subseteq Ids /\ \A i \in DOMAIN ops : ops[i] \in Op /\ ops[i].id = i
    BY DEF OpsSound
  <2>2. ASSUME NEW d \in Devices
        PROVE  /\ rep[d].own = d
               /\ rep[d].known \cup rep[d].pending \cup rep[d].outbox \subseteq DOMAIN ops
               /\ rep[d].redacted \subseteq rep[d].known
               /\ rep[d].waiting \subseteq Ids \X (rep[d].pending \cup rep[d].known)
    BY <1>0 DEF RowsSound, OwnSound
  <2>3. ASSUME NEW d \in Devices, NEW e \in Entities
        PROVE  rep[d].head[e].revs \subseteq rep[d].known
    <3> DEFINE mine == OfIn(ops, rep[d].known, e)
    <3>1. rep[d].head[e] = IF PurgesIn(ops, mine) # {}
                           THEN [revs |-> PurgesIn(ops, mine), purged |-> TRUE]
                           ELSE [revs |-> MaximalIn(ops, mine), purged |-> FALSE]
      BY DEF Sound, HeadsSound
    <3>2. PurgesIn(ops, mine) \subseteq rep[d].known /\ MaximalIn(ops, mine) \subseteq rep[d].known
      BY DEF PurgesIn, MaximalIn, OfIn
    <3> HIDE DEF mine
    <3> QED BY <3>1, <3>2
  <2>4. \A d \in Devices : /\ prep[d] = None \/ prep[d] \in [op : Op, fresh : BOOLEAN]
                           /\ visit[d] \subseteq [parent : Ids, left : SUBSET Ids]
    BY DEF PrepSound, VisitsSound
  <2> QED BY <2>1, <2>2, <2>3, <2>4 DEF TypeOK
<1>2. HeadsAreMaximal
  BY DEF HeadsAreMaximal, Sound, HeadsSound, Of, OfIn, Maximal, MaximalIn, Purges, PurgesIn
<1>3. PurgedLeavesNothing
  <2> SUFFICES ASSUME NEW d \in Devices, NEW e \in Entities, rep[d].head[e].purged
               PROVE  /\ Of(rep[d].known, e) \subseteq rep[d].redacted
                      /\ Of(rep[d].pending, e) = {}
                      /\ Of(rep[d].outbox, e) \subseteq Purges(rep[d].outbox)
    BY DEF PurgedLeavesNothing
  <2>1. PurgedSound(ops, rep[d])
    BY DEF Sound
  <2> QED BY <2>1 DEF PurgedSound, Of, Purges
<1>4. FrontierIsReceipts
  BY DEF FrontierIsReceipts, Sound, FrontierSound, Claims
<1>5. NothingStranded
  <2> SUFFICES ASSUME NEW d \in Devices, NEW i \in rep[d].pending
               PROVE  /\ Missing(rep[d], ops[i]) \X {i} \subseteq rep[d].waiting
                      /\ Missing(rep[d], ops[i]) = {} =>
                           resuming[d] \/ \E v \in visit[d] : i \in v.left
    BY DEF NothingStranded
  <2>1. ParkedSound(ops, rep[d])
    BY DEF Sound
  <2>2. Missing(rep[d], ops[i]) = Lacks(rep[d], i)
    BY DEF Missing, Lacks
  <2> QED BY <2>1, <2>2 DEF ParkedSound, VisitsSound, Lacks
<1>6. kept = {} => NoLostUpdate
  BY DEF NoLostUpdate, OwnSound
<1>7. RevisionsAreClosed
  BY DEF RevisionsAreClosed, Sound, ClosedSound
<1> QED
  BY <1>1, <1>2, <1>3, <1>4, <1>5, <1>6, <1>7

LEMMA InvInit == Init => ReplicaInv({})
<1> SUFFICES ASSUME Init PROVE ReplicaInv({})
  OBVIOUS
<1>1. \A d \in Devices : rep[d] = EmptyReplica(d)
  BY DEF Init
<1>2. DOMAIN ops = {} /\ OpsSound(ops) /\ IsFiniteSet(DOMAIN ops)
  BY FS_EmptySet DEF Init, OpsSound
<1>3. MaxSeq \in Nat /\ MaxCrashes \in Nat
  BY ReplicaAssumption
<1>4. \A d \in Devices : EmptyReplica(d) \in Replica
  BY <1>3 DEF EmptyReplica, Replica
<1>5. Shared
  BY <1>2, <1>3, <1>4 DEF Shared, Init
<1>6. ASSUME NEW d \in Devices PROVE DeviceSound(d, {})
  <2> DEFINE R == EmptyReplica(d)
  <2>1. /\ R.known = {} /\ R.pending = {} /\ R.redacted = {} /\ R.outbox = {} /\ R.waiting = {}
        /\ R.own = d /\ R.seq = 0 /\ R \in Replica
        /\ \A e \in Entities : R.head[e] = [revs |-> {}, purged |-> FALSE]
        /\ \A o \in Devices : R.frontier[o] = [upto |-> 0, above |-> {}]
    BY <1>4 DEF EmptyReplica
  <2> HIDE DEF R
  <2>2. RowsSound(ops, R) /\ HeadsSound(ops, R) /\ ClosedSound(ops, R) /\ PurgedSound(ops, R)
        /\ ParkedSound(ops, R)
    BY <2>1, <1>2 DEF RowsSound, HeadsSound, ClosedSound, PurgedSound, ParkedSound, OfIn, PurgesIn,
                      MaximalIn
  <2>3. FrontierSound(R)
    BY <2>1 DEF FrontierSound, Claims, SeqsOf
  <2>4. Sound(ops, rep[d])
    BY <1>1, <2>2, <2>3 DEF Sound, R
  <2>5. OwnSound(d, {}) /\ VisitsSound(d) /\ PrepSound(d)
    BY <2>1, <1>1, <1>2 DEF OwnSound, VisitsSound, PrepSound, Init, R
  <2> QED BY <2>4, <2>5 DEF DeviceSound
<1> QED
  BY <1>5, <1>6 DEF ReplicaInv

-----------------------------------------------------------------------------
(* Steps that seal nothing. *)

\* Nothing a device depends on moved, but what it owes may be published.
LEMMA DeviceStays ==
  ASSUME NEW kept, ReplicaInv(kept), NEW d \in Devices, ops' = ops, published \subseteq published',
         rep'[d] = rep[d], visit'[d] = visit[d], prep'[d] = prep[d], resuming'[d] = resuming[d]
  PROVE  DeviceSound(d, kept)'
<1>1. DeviceSound(d, kept)
  BY DEF ReplicaInv
<1>2. Sound(ops, rep[d])'
  BY <1>1 DEF DeviceSound
<1>3. OwnSound(d, kept)'
  BY <1>1 DEF DeviceSound, OwnSound
<1>4. VisitsSound(d)'
  BY <1>1 DEF DeviceSound, VisitsSound, Lacks
<1>5. PrepSound(d)'
  BY <1>1 DEF DeviceSound, PrepSound, Seal
<1> QED
  BY <1>2, <1>3, <1>4, <1>5 DEF DeviceSound

\* ApplyAt, of an operation that v's visits no longer need.
LEMMA ApplyAtSound ==
  ASSUME NEW kept, ReplicaInv(kept), NEW d \in Devices, NEW i \in DOMAIN ops, NEW v, ApplyAt(d, i, v),
         UNCHANGED <<ops, resuming, published, crashes>>,
         v \subseteq [parent : Ids, left : SUBSET Ids],
         \A w \in v : w.parent \in rep[d].known,
         \A j \in rep[d].pending \ {i} :
           Lacks(rep[d], j) = {} => resuming[d] \/ \E w \in v : j \in w.left
  PROVE  /\ ReplicaInv(kept)'
         /\ \A e \in Devices : rep[e].known \subseteq rep'[e].known /\ rep'[e].seq = rep[e].seq
<1> DEFINE R == rep[d]
           new == Apply(R, ops[i])
<1>1. Shared /\ DeviceSound(d, kept) /\ DOMAIN rep = Devices
  BY DEF ReplicaInv, Shared
<1>2. OpsSound(ops) /\ Sound(ops, R) /\ R.own = d /\ \A j \in DOMAIN ops : j[1] = R.own => j \in R.known
  BY <1>1 DEF Shared, DeviceSound, OwnSound
<1>3. /\ Sound(ops, new) /\ new.own = R.own
      /\ R.known \subseteq new.known /\ R.redacted \subseteq new.redacted
      /\ R.waiting \subseteq new.waiting
      /\ new.outbox \subseteq R.outbox /\ R.outbox \ new.outbox \subseteq new.redacted
      /\ new.seq = R.seq
      /\ i \in new.pending => Lacks(new, i) # {}
      /\ new.pending \subseteq R.pending \cup {i}
      /\ \A j \in new.pending \ {i} :
           Lacks(new, j) = {} /\ Lacks(R, j) # {} => i \in new.known /\ <<i, j>> \in new.waiting
      /\ ~Advances(R, ops[i]) => new.head = R.head
  BY <1>2, ApplySound
<1> DEFINE more == IF i \in new.known THEN Visit(new, i) ELSE {}
<1>4. rep' = [rep EXCEPT ![d] = new] /\ visit' = [visit EXCEPT ![d] = v \cup more]
      /\ prep' = [prep EXCEPT ![d] = IF @ # None /\ Advances(rep[d], ops[i])
                                      THEN [@ EXCEPT !.fresh = FALSE] ELSE @]
  BY DEF ApplyAt
<1> HIDE DEF new, R
<1>5. new \in Replica
  BY <1>3 DEF Sound, RowsSound
<1>6. Shared'
  <2>1. OpsSound(ops)'
    BY <1>2
  <2> QED BY <2>1, <1>1, <1>4, <1>5 DEF Shared
<1>7. rep'[d] = new /\ visit'[d] = v \cup more
      /\ \A e \in Devices \ {d} : rep'[e] = rep[e] /\ visit'[e] = visit[e] /\ prep'[e] = prep[e]
  BY <1>1, <1>4 DEF Shared
<1>8. OwnSound(d, kept)'
  <2>1. \A j \in new.known : j[1] = d => j \in R.known
    BY <1>2, <1>3 DEF Sound, RowsSound
  <2>2. \A j \in R.known : j[1] = d /\ j \notin R.redacted => j \in R.outbox \cup published \cup kept
    BY <1>1 DEF DeviceSound, OwnSound, R
  <2>3. \A j \in DOMAIN ops : j[1] = d => j \in new.known
    BY <1>2, <1>3
  <2>4. ASSUME NEW j \in new.known, j[1] = d, j \notin new.redacted
        PROVE  j \in new.outbox \cup published \cup kept
    BY <2>1, <2>2, <2>4, <1>3
  <2>5. ops' = ops /\ published' = published /\ rep'[d] = new /\ new.own = d
    BY <1>2, <1>3, <1>7
  <2> QED BY <2>3, <2>4, <2>5 DEF OwnSound
<1>9. VisitsSound(d)'
  <2>1. more \subseteq [parent : Ids, left : SUBSET Ids]
    <3>1. i \in Ids
      BY <1>2 DEF OpsSound
    <3>2. Dependents(new, i) \subseteq Ids
      BY <1>5 DEF Dependents, Replica
    <3> QED BY <3>1, <3>2 DEF Visit
  <2>2. \A w \in v \cup more : w.parent \in new.known
    BY <1>3 DEF Visit, R
  <2>3. ASSUME NEW j \in new.pending, Lacks(new, j) = {}
        PROVE  resuming[d] \/ \E w \in v \cup more : j \in w.left
    <3>1. j # i /\ j \in R.pending
      BY <2>3, <1>3
    <3>2. CASE Lacks(R, j) = {}
      BY <3>1, <3>2 DEF R
    <3>3. CASE Lacks(R, j) # {}
      <4>1. j \in new.pending \ {i} /\ Lacks(new, j) = {}
        BY <2>3, <3>1
      <4>2. i \in new.known /\ <<i, j>> \in new.waiting
        BY <4>1, <3>3, <1>3
      <4>3. j \in Dependents(new, i)
        <5>1. <<i, j>>[1] = i /\ <<i, j>>[2] = j
          OBVIOUS
        <5> QED BY <4>2, <5>1 DEF Dependents
      <4>4. [parent |-> i, left |-> Dependents(new, i)] \in more
        BY <4>2, <4>3 DEF Visit
      <4> QED BY <4>3, <4>4
    <3> QED BY <3>2, <3>3
  <2>4. ops' = ops /\ resuming' = resuming /\ rep'[d] = new
    BY <1>7
  <2>5. visit'[d] = v \cup more
    BY <1>7
  <2> HIDE DEF more
  <2> QED BY <2>1, <2>2, <2>3, <2>4, <2>5 DEF VisitsSound, Lacks
<1>10. PrepSound(d)'
  <2>1. PrepSound(d)
    BY <1>1 DEF DeviceSound
  <2>2. prep'[d] = IF prep[d] # None /\ Advances(rep[d], ops[i])
                   THEN [prep[d] EXCEPT !.fresh = FALSE] ELSE prep[d]
    BY <1>1, <1>4 DEF Shared
  <2>3. CASE prep[d] # None /\ Advances(rep[d], ops[i])
    <3>1. prep'[d] \in [op : Op, fresh : BOOLEAN] /\ ~prep'[d].fresh
      BY <2>1, <2>2, <2>3 DEF PrepSound
    <3> QED BY <3>1 DEF PrepSound
  <2>4. CASE prep[d] # None /\ ~Advances(rep[d], ops[i])
    <3>1. prep'[d] = prep[d] /\ rep'[d].head = rep[d].head /\ rep'[d].seq = rep[d].seq /\ ops' = ops
      BY <2>2, <2>4, <1>3, <1>7 DEF R
    <3> QED BY <3>1, <2>1 DEF PrepSound, Seal
  <2>5. CASE prep[d] = None
    BY <2>5, <2>2 DEF PrepSound
  <2> QED BY <2>3, <2>4, <2>5
<1>11. DeviceSound(d, kept)'
  <2>1. Sound(ops, rep[d])'
    BY <1>3, <1>7
  <2> QED BY <2>1, <1>8, <1>9, <1>10 DEF DeviceSound
<1>12. \A e \in Devices \ {d} : DeviceSound(e, kept)'
  <2> TAKE e \in Devices \ {d}
  <2> QED BY <1>7, DeviceStays
<1>13. \A e \in Devices : rep[e].known \subseteq rep'[e].known /\ rep'[e].seq = rep[e].seq
  BY <1>3, <1>7 DEF R
<1> QED
  BY <1>6, <1>11, <1>12, <1>13 DEF ReplicaInv

Grows == \A e \in Devices : rep[e].known \subseteq rep'[e].known /\ rep'[e].seq = rep[e].seq

LEMMA OneDevice ==
  ASSUME NEW kept, ReplicaInv(kept), NEW d \in Devices, ops' = ops, published \subseteq published',
         Shared', DeviceSound(d, kept)',
         \A e \in Devices \ {d} : /\ rep'[e] = rep[e] /\ visit'[e] = visit[e]
                                  /\ prep'[e] = prep[e] /\ resuming'[e] = resuming[e]
  PROVE  ReplicaInv(kept)'
<1>1. \A e \in Devices \ {d} : DeviceSound(e, kept)'
  <2> TAKE e \in Devices \ {d}
  <2> QED BY DeviceStays
<1> QED
  BY <1>1 DEF ReplicaInv

LEMMA ReceiveSound ==
  ASSUME NEW kept, ReplicaInv(kept), NEW d \in Devices, NEW i \in Ids, Receive(d, i)
  PROVE  ReplicaInv(kept)' /\ Grows
<1>1. i \in DOMAIN ops
  BY DEF ReplicaInv, Shared, Receive
<1>2. VisitsSound(d)
  BY DEF ReplicaInv, DeviceSound
<1>3. ApplyAt(d, i, visit[d]) /\ UNCHANGED <<ops, resuming, published, crashes>>
  BY DEF Receive
<1> QED
  BY <1>1, <1>2, <1>3, ApplyAtSound DEF VisitsSound, Grows

LEMMA ResumeOneSound ==
  ASSUME NEW kept, ReplicaInv(kept), NEW d \in Devices, ResumeOne(d)
  PROVE  ReplicaInv(kept)' /\ Grows
<1>1. PICK i \in rep[d].pending : ApplyAt(d, i, visit[d])
  BY DEF ResumeOne
<1>2. i \in DOMAIN ops
  BY DEF ReplicaInv, DeviceSound, Sound, RowsSound
<1>3. VisitsSound(d)
  BY DEF ReplicaInv, DeviceSound
<1>4. UNCHANGED <<ops, resuming, published, crashes>>
  BY DEF ResumeOne
<1> QED
  BY <1>1, <1>2, <1>3, <1>4, ApplyAtSound DEF VisitsSound, Grows

LEMMA TryDependentSound ==
  ASSUME NEW kept, ReplicaInv(kept), NEW d \in Devices, TryDependent(d)
  PROVE  ReplicaInv(kept)' /\ Grows
<1>1. VisitsSound(d) /\ DeviceSound(d, kept) /\ Shared
  BY DEF ReplicaInv, DeviceSound
<1>a. PICK v \in visit[d] : \E i \in v.left :
        LET rest == (visit[d] \ {v}) \cup {[v EXCEPT !.left = @ \ {i}]}
        IN  IF i \in rep[d].pending THEN ApplyAt(d, i, rest)
            ELSE visit' = [visit EXCEPT ![d] = rest] /\ UNCHANGED <<rep, prep>>
  BY DEF TryDependent
<1>2. PICK i \in v.left :
        LET rest == (visit[d] \ {v}) \cup {[v EXCEPT !.left = @ \ {i}]}
        IN  IF i \in rep[d].pending THEN ApplyAt(d, i, rest)
            ELSE visit' = [visit EXCEPT ![d] = rest] /\ UNCHANGED <<rep, prep>>
  BY <1>a
<1>3. UNCHANGED <<ops, resuming, published, crashes>>
  BY DEF TryDependent
<1> DEFINE less == [v EXCEPT !.left = @ \ {i}]
           rest == (visit[d] \ {v}) \cup {less}
<1>4. v \in [parent : Ids, left : SUBSET Ids] /\ v.parent \in rep[d].known
  BY <1>1 DEF VisitsSound
<1>5. less \in [parent : Ids, left : SUBSET Ids] /\ less.parent = v.parent /\ less.left = v.left \ {i}
  BY <1>4
<1> HIDE DEF less
<1>6. rest \subseteq [parent : Ids, left : SUBSET Ids] /\ \A w \in rest : w.parent \in rep[d].known
  BY <1>1, <1>4, <1>5 DEF VisitsSound
<1>7. \A j \in rep[d].pending \ {i} :
        Lacks(rep[d], j) = {} => resuming[d] \/ \E w \in rest : j \in w.left
  <2> SUFFICES ASSUME NEW j \in rep[d].pending \ {i}, Lacks(rep[d], j) = {}, ~resuming[d]
               PROVE  \E w \in rest : j \in w.left
    OBVIOUS
  <2>1. PICK w \in visit[d] : j \in w.left
    BY <1>1 DEF VisitsSound
  <2>2. CASE w = v
    BY <2>1, <2>2, <1>5
  <2>3. CASE w # v
    BY <2>1, <2>3
  <2> QED BY <2>2, <2>3
<1>8. IF i \in rep[d].pending THEN ApplyAt(d, i, rest)
      ELSE visit' = [visit EXCEPT ![d] = rest] /\ UNCHANGED <<rep, prep>>
  BY <1>2 DEF less
<1> HIDE DEF rest
<1>9. CASE i \in rep[d].pending
  <2>1. i \in DOMAIN ops
    BY <1>1, <1>9 DEF DeviceSound, Sound, RowsSound
  <2> QED BY <1>3, <1>6, <1>7, <1>8, <1>9, <2>1, ApplyAtSound DEF Grows
<1>10. CASE i \notin rep[d].pending
  <2>1. rep' = rep /\ prep' = prep /\ visit' = [visit EXCEPT ![d] = rest] /\ DOMAIN visit = Devices
    BY <1>1, <1>8, <1>10 DEF Shared
  <2>2. visit'[d] = rest /\ \A e \in Devices \ {d} : visit'[e] = visit[e]
    BY <2>1
  <2>3. VisitsSound(d)'
    BY <1>3, <1>6, <1>7, <1>10, <2>1, <2>2 DEF VisitsSound, Lacks
  <2>4. Shared'
    BY <1>1, <1>3, <2>1 DEF Shared
  <2>5. Sound(ops, rep[d])' /\ OwnSound(d, kept)' /\ PrepSound(d)'
    BY <1>1, <1>3, <2>1 DEF DeviceSound, OwnSound, PrepSound, Seal
  <2> QED BY <1>3, <2>1, <2>2, <2>3, <2>4, <2>5, OneDevice DEF DeviceSound, Grows
<1> QED
  BY <1>9, <1>10

LEMMA CloseVisitSound ==
  ASSUME NEW kept, ReplicaInv(kept), NEW d \in Devices, CloseVisit(d)
  PROVE  ReplicaInv(kept)' /\ Grows
<1>1. Shared /\ Sound(ops, rep[d]) /\ OwnSound(d, kept) /\ VisitsSound(d) /\ PrepSound(d)
      /\ rep \in [Devices -> Replica] /\ DOMAIN visit = Devices
  BY DEF ReplicaInv, DeviceSound, Shared
<1>2. PICK v \in visit[d] : /\ v.left = {} /\ visit' = [visit EXCEPT ![d] = @ \ {v}]
                           /\ rep' = [rep EXCEPT ![d].waiting = {w \in @ : w[1] # v.parent}]
  BY DEF CloseVisit
<1>3. UNCHANGED <<ops, prep, resuming, published, crashes>>
  BY DEF CloseVisit
<1> DEFINE R == rep[d]
           wa == {w \in R.waiting : w[1] # v.parent}
           new == [R EXCEPT !.waiting = wa]
<1>4. R \in Replica /\ wa \in SUBSET (Ids \X Ids) /\ wa \subseteq R.waiting
  BY <1>1 DEF Replica
<1>5. rep' = [rep EXCEPT ![d] = new]
  BY <1>2
<1> HIDE DEF wa, R
<1>6. /\ new \in Replica /\ new.own = R.own /\ new.known = R.known /\ new.redacted = R.redacted
      /\ new.head = R.head /\ new.pending = R.pending /\ new.waiting = wa
      /\ new.frontier = R.frontier /\ new.outbox = R.outbox /\ new.seq = R.seq
  BY <1>4 DEF Replica
<1> HIDE DEF new
<1>7. rep'[d] = new /\ visit'[d] = visit[d] \ {v}
      /\ \A e \in Devices \ {d} : rep'[e] = rep[e] /\ visit'[e] = visit[e]
  BY <1>1, <1>2, <1>5
<1>8. RowsSound(ops, new) /\ HeadsSound(ops, new) /\ ClosedSound(ops, new) /\ PurgedSound(ops, new)
      /\ FrontierSound(new)
  BY <1>1, <1>4, <1>6 DEF Sound, RowsSound, HeadsSound, ClosedSound, PurgedSound, FrontierSound, R
<1>9. ParkedSound(ops, new)
  <2> SUFFICES ASSUME NEW i \in R.pending, NEW p \in ops[i].parents \ R.known
               PROVE  <<p, i>> \in wa
    BY <1>6 DEF ParkedSound
  <2>1. <<p, i>> \in R.waiting
    BY <1>1 DEF Sound, ParkedSound, R
  <2>2. p # v.parent
    BY <1>1 DEF VisitsSound, R
  <2> QED BY <2>1, <2>2 DEF wa
<1>10. Sound(ops, rep[d])'
  BY <1>3, <1>7, <1>8, <1>9 DEF Sound
<1>11. OwnSound(d, kept)'
  BY <1>1, <1>3, <1>6, <1>7 DEF OwnSound, R
<1>12. VisitsSound(d)'
  BY <1>1, <1>2, <1>3, <1>6, <1>7 DEF VisitsSound, Lacks, R
<1>13. PrepSound(d)'
  <2>1. prep'[d] = prep[d] /\ rep'[d].head = rep[d].head /\ rep'[d].seq = rep[d].seq /\ ops' = ops
    BY <1>3, <1>6, <1>7 DEF R
  <2> QED BY <2>1, <1>1 DEF PrepSound, Seal
<1>14. Shared'
  BY <1>1, <1>2, <1>3, <1>5, <1>6 DEF Shared
<1>15. Grows
  BY <1>6, <1>7 DEF Grows, R
<1> QED
  BY <1>3, <1>7, <1>10, <1>11, <1>12, <1>13, <1>14, <1>15, OneDevice DEF DeviceSound

LEMMA ResumeEndsSound ==
  ASSUME NEW kept, ReplicaInv(kept), NEW d \in Devices, ResumeEnds(d)
  PROVE  ReplicaInv(kept)' /\ Grows
<1>1. Shared /\ DeviceSound(d, kept)
  BY DEF ReplicaInv
<1>2. /\ resuming' = [resuming EXCEPT ![d] = FALSE]
      /\ UNCHANGED <<ops, rep, prep, visit, published, crashes>>
  BY DEF ResumeEnds
<1>3. \A i \in rep[d].pending : Lacks(rep[d], i) # {}
  BY DEF ResumeEnds, Parks, Missing, Lacks
<1>4. Shared' /\ \A e \in Devices \ {d} : resuming'[e] = resuming[e]
  BY <1>1, <1>2 DEF Shared
<1>5. VisitsSound(d)'
  BY <1>1, <1>2, <1>3 DEF DeviceSound, VisitsSound, Lacks
<1>6. Sound(ops, rep[d])' /\ OwnSound(d, kept)' /\ PrepSound(d)'
  BY <1>1, <1>2 DEF DeviceSound, OwnSound, PrepSound, Seal
<1>7. DeviceSound(d, kept)'
  BY <1>5, <1>6 DEF DeviceSound
<1> QED
  BY <1>2, <1>4, <1>7, OneDevice DEF Grows

LEMMA PublishSound ==
  ASSUME NEW kept, ReplicaInv(kept), NEW d \in Devices, Publish(d)
  PROVE  ReplicaInv(kept)' /\ Grows
<1>1. PICK i \in rep[d].outbox \ published : published' = published \cup {i}
  BY DEF Publish
<1>2. UNCHANGED <<ops, rep, prep, visit, resuming, crashes>>
  BY DEF Publish
<1>3. i \in DOMAIN ops
  BY DEF ReplicaInv, DeviceSound, Sound, RowsSound
<1>4. Shared'
  BY <1>1, <1>2, <1>3 DEF ReplicaInv, Shared
<1>5. \A e \in Devices : DeviceSound(e, kept)'
  <2> TAKE e \in Devices
  <2> QED BY <1>1, <1>2, DeviceStays
<1> QED
  BY <1>2, <1>4, <1>5 DEF ReplicaInv, Grows

LEMMA AcknowledgeSound ==
  ASSUME NEW kept, ReplicaInv(kept), NEW d \in Devices, Acknowledge(d)
  PROVE  ReplicaInv(kept)' /\ Grows
<1>1. Shared /\ Sound(ops, rep[d]) /\ OwnSound(d, kept) /\ VisitsSound(d) /\ PrepSound(d)
      /\ rep \in [Devices -> Replica]
  BY DEF ReplicaInv, DeviceSound, Shared
<1>2. PICK i \in Ids : MayAck(d, i) /\ rep' = [rep EXCEPT ![d].outbox = @ \ {i}]
  BY DEF Acknowledge
<1>3. UNCHANGED <<ops, prep, visit, resuming, published, crashes>>
  BY DEF Acknowledge
<1> DEFINE R == rep[d]
           ou == R.outbox \ {i}
           new == [R EXCEPT !.outbox = ou]
<1>4. R \in Replica /\ ou \in SUBSET Ids /\ ou \subseteq R.outbox /\ i \in published
  BY <1>1, <1>2 DEF Replica, MayAck
<1>5. rep' = [rep EXCEPT ![d] = new] /\ \A j \in R.outbox : j # i => j \in ou
  BY <1>2
<1> HIDE DEF ou, R
<1>6. /\ new \in Replica /\ new.own = R.own /\ new.known = R.known /\ new.redacted = R.redacted
      /\ new.head = R.head /\ new.pending = R.pending /\ new.waiting = R.waiting
      /\ new.frontier = R.frontier /\ new.outbox = ou /\ new.seq = R.seq
  BY <1>4 DEF Replica
<1> HIDE DEF new
<1>7. rep'[d] = new /\ \A e \in Devices \ {d} : rep'[e] = rep[e]
  BY <1>1, <1>5
<1>8. RowsSound(ops, new) /\ HeadsSound(ops, new) /\ ClosedSound(ops, new) /\ PurgedSound(ops, new)
      /\ FrontierSound(new) /\ ParkedSound(ops, new)
  BY <1>1, <1>4, <1>6 DEF Sound, RowsSound, HeadsSound, ClosedSound, PurgedSound, FrontierSound,
                          ParkedSound, R
<1>9. Sound(ops, rep[d])'
  BY <1>3, <1>7, <1>8 DEF Sound
<1>10. OwnSound(d, kept)'
  BY <1>1, <1>3, <1>4, <1>5, <1>6, <1>7 DEF OwnSound, R
<1>11. VisitsSound(d)'
  BY <1>1, <1>3, <1>6, <1>7 DEF VisitsSound, Lacks, R
<1>12. PrepSound(d)'
  <2>1. prep'[d] = prep[d] /\ rep'[d].head = rep[d].head /\ rep'[d].seq = rep[d].seq /\ ops' = ops
    BY <1>3, <1>6, <1>7 DEF R
  <2> QED BY <2>1, <1>1 DEF PrepSound, Seal
<1>13. Shared'
  BY <1>1, <1>3, <1>5, <1>6 DEF Shared
<1>14. Grows
  BY <1>6, <1>7 DEF Grows, R
<1> QED
  BY <1>3, <1>7, <1>9, <1>10, <1>11, <1>12, <1>13, <1>14, OneDevice DEF DeviceSound

LEMMA CrashSound ==
  ASSUME NEW kept, ReplicaInv(kept), NEW d \in Devices, Crash(d)
  PROVE  ReplicaInv(kept)' /\ Grows
<1>1. Shared /\ DeviceSound(d, kept)
  BY DEF ReplicaInv
<1>2. /\ prep' = [prep EXCEPT ![d] = None] /\ visit' = [visit EXCEPT ![d] = {}]
      /\ resuming' = [resuming EXCEPT ![d] = TRUE] /\ UNCHANGED <<ops, rep, published>>
      /\ crashes < MaxCrashes /\ crashes' = crashes + 1
  BY DEF Crash
<1>3. prep'[d] = None /\ visit'[d] = {} /\ resuming'[d] = TRUE
      /\ \A e \in Devices \ {d} : prep'[e] = prep[e] /\ visit'[e] = visit[e] /\ resuming'[e] = resuming[e]
  BY <1>1, <1>2 DEF Shared
<1>4. crashes' \in 0 .. MaxCrashes
  BY <1>1, <1>2, ReplicaAssumption DEF Shared
<1>5. Shared'
  BY <1>1, <1>2, <1>4 DEF Shared
<1>6. VisitsSound(d)' /\ PrepSound(d)'
  BY <1>3 DEF VisitsSound, PrepSound
<1>7. Sound(ops, rep[d])' /\ OwnSound(d, kept)'
  BY <1>1, <1>2 DEF DeviceSound, OwnSound
<1>8. DeviceSound(d, kept)'
  BY <1>6, <1>7 DEF DeviceSound
<1> QED
  BY <1>2, <1>3, <1>5, <1>8, OneDevice DEF Grows

\* What a device seals is an operation, above all it descends from.
LEMMA SealType ==
  ASSUME NEW kept, ReplicaInv(kept), NEW d \in Devices, NEW e \in Entities, NEW k \in {"put", "purge"},
         rep[d].seq < MaxSeq
  PROVE  /\ Seal(d, e, k) \in Op /\ Seal(d, e, k).id = <<d, rep[d].seq + 1>>
         /\ Seal(d, e, k).ent = e /\ Seal(d, e, k).kind = k
         /\ Seal(d, e, k).parents = rep[d].head[e].revs
         /\ Seal(d, e, k).anc =
              rep[d].head[e].revs \cup UNION {ops[p].anc : p \in rep[d].head[e].revs}
         /\ rep[d].head[e].revs \subseteq rep[d].known
<1>1. Sound(ops, rep[d]) /\ OpsSound(ops) /\ rep[d] \in Replica
  BY DEF ReplicaInv, DeviceSound, Shared
<1>2. rep[d].seq \in 0 .. MaxSeq /\ MaxSeq \in Nat
  BY <1>1, ReplicaAssumption DEF Replica
<1>3. <<d, rep[d].seq + 1>> \in Ids
  BY <1>2 DEF Ids
<1>4. rep[d].head[e].revs \subseteq rep[d].known
  <2> DEFINE mine == OfIn(ops, rep[d].known, e)
  <2>1. rep[d].head[e] = IF PurgesIn(ops, mine) # {}
                         THEN [revs |-> PurgesIn(ops, mine), purged |-> TRUE]
                         ELSE [revs |-> MaximalIn(ops, mine), purged |-> FALSE]
    BY <1>1 DEF Sound, HeadsSound
  <2>2. PurgesIn(ops, mine) \subseteq rep[d].known /\ MaximalIn(ops, mine) \subseteq rep[d].known
    BY DEF PurgesIn, MaximalIn, OfIn
  <2> HIDE DEF mine
  <2> QED BY <2>1, <2>2
<1> DEFINE pa == rep[d].head[e].revs
           an == pa \cup UNION {ops[p].anc : p \in pa}
<1>5. \A p \in pa : p \in Ids /\ ops[p].anc \subseteq Ids
  BY <1>1, <1>4 DEF Sound, RowsSound, OpsSound
<1>6. pa \in SUBSET Ids /\ an \in SUBSET Ids
  BY <1>5
<1>7. Seal(d, e, k) = [id |-> <<d, rep[d].seq + 1>>, ent |-> e, kind |-> k,
                       parents |-> pa, anc |-> an]
  BY DEF Seal
<1> HIDE DEF pa, an
<1>8. [id |-> <<d, rep[d].seq + 1>>, ent |-> e, kind |-> k, parents |-> pa, anc |-> an] \in Op
  BY <1>3, <1>6 DEF Op
<1> QED
  BY <1>4, <1>7, <1>8 DEF pa, an

LEMMA PrepareSound ==
  ASSUME NEW kept, ReplicaInv(kept), NEW d \in Devices, Prepare(d)
  PROVE  ReplicaInv(kept)' /\ Grows
<1>1. Shared /\ DeviceSound(d, kept)
  BY DEF ReplicaInv
<1>2. UNCHANGED <<ops, rep, visit, resuming, published, crashes>> /\ rep[d].seq < MaxSeq
  BY DEF Prepare
<1>3. PICK e \in Entities, k \in {"put", "purge"} :
        /\ ~rep[d].head[e].purged
        /\ prep' = [prep EXCEPT ![d] = [op |-> Seal(d, e, k), fresh |-> TRUE]]
  BY DEF Prepare
<1>4. prep'[d] = [op |-> Seal(d, e, k), fresh |-> TRUE]
      /\ \A o \in Devices \ {d} : prep'[o] = prep[o]
  BY <1>1, <1>3 DEF Shared
<1>5. Seal(d, e, k) \in Op /\ Seal(d, e, k).ent = e /\ Seal(d, e, k).kind = k
  BY <1>2, SealType
<1>6. prep'[d] \in [op : Op, fresh : BOOLEAN]
  BY <1>4, <1>5
<1>7. PrepSound(d)'
  <2>1. Seal(d, e, k)' = Seal(d, e, k)
    BY <1>2 DEF Seal
  <2>2. prep'[d].op = Seal(d, e, k)
    BY <1>4
  <2> HIDE DEF Seal
  <2> QED BY <1>2, <1>3, <1>5, <1>6, <2>1, <2>2 DEF PrepSound
<1>8. Shared'
  BY <1>1, <1>2, <1>3 DEF Shared
<1>9. VisitsSound(d)' /\ Sound(ops, rep[d])' /\ OwnSound(d, kept)'
  BY <1>1, <1>2 DEF DeviceSound, VisitsSound, OwnSound, Lacks
<1>10. DeviceSound(d, kept)'
  BY <1>7, <1>9 DEF DeviceSound
<1> QED
  BY <1>2, <1>4, <1>8, <1>10, OneDevice DEF Grows

-----------------------------------------------------------------------------
(* A commit: the operations grow by one. *)

LEMMA ReplicaKeepsSound ==
  ASSUME NEW O, NEW R, OpsSound(ops), Sound(ops, R), Continues(O)
  PROVE  Sound(O, R)
<1>1. /\ R \in Replica /\ R.known \cup R.pending \subseteq DOMAIN ops
      /\ R.outbox \cup R.redacted \subseteq R.known
  BY DEF Sound, RowsSound
<1>2. \A i \in R.known \cup R.pending : O[i] = ops[i] /\ i \in DOMAIN O
  BY <1>1 DEF Continues
<1>3. RowsSound(O, R)
  BY <1>1, <1>2 DEF Sound, RowsSound
<1>4. HeadsSound(O, R)
  <2>1. \A e \in Entities : OfIn(O, R.known, e) = OfIn(ops, R.known, e)
    BY <1>2 DEF OfIn
  <2>2. \A e \in Entities : PurgesIn(O, OfIn(ops, R.known, e)) = PurgesIn(ops, OfIn(ops, R.known, e))
    BY <1>2 DEF OfIn, PurgesIn
  <2>3. \A e \in Entities : MaximalIn(O, OfIn(ops, R.known, e)) = MaximalIn(ops, OfIn(ops, R.known, e))
    BY <1>2 DEF OfIn, MaximalIn
  <2>4. HeadsSound(ops, R)
    BY DEF Sound
  <2> QED BY <2>1, <2>2, <2>3, <2>4 DEF HeadsSound
<1>5. ClosedSound(O, R)
  BY <1>2 DEF Sound, ClosedSound
<1>6. PurgedSound(O, R)
  BY <1>1, <1>2 DEF Sound, PurgedSound
<1>7. ParkedSound(O, R)
  BY <1>2 DEF Sound, ParkedSound
<1> QED
  BY <1>3, <1>4, <1>5, <1>6, <1>7 DEF Sound

\* Another device commits.
LEMMA DeviceKeepsSound ==
  ASSUME NEW kept, ReplicaInv(kept), NEW d \in Devices, Continues(ops'), published' = published,
         \A i \in DOMAIN ops' \ DOMAIN ops : i[1] # d,
         rep'[d] = rep[d], visit'[d] = visit[d], prep'[d] = prep[d], resuming'[d] = resuming[d]
  PROVE  DeviceSound(d, kept)'
<1>1. DeviceSound(d, kept) /\ OpsSound(ops)
  BY DEF ReplicaInv, Shared
<1>2. /\ \A i \in rep[d].known \cup rep[d].pending : i \in DOMAIN ops /\ ops'[i] = ops[i]
      /\ \A i \in DOMAIN ops' : i[1] = d => i \in DOMAIN ops
  BY <1>1 DEF DeviceSound, Sound, RowsSound, Continues
<1>3. Sound(ops, rep[d])'
  <2>1. Sound(ops', rep[d])
    BY <1>1, ReplicaKeepsSound DEF DeviceSound
  <2> QED BY <2>1
<1>4. OwnSound(d, kept)'
  BY <1>1, <1>2 DEF DeviceSound, OwnSound
<1>5. VisitsSound(d)'
  BY <1>1, <1>2 DEF DeviceSound, VisitsSound, Lacks
<1>6. PrepSound(d)'
  <2> SUFFICES ASSUME prep[d] # None, prep[d].fresh
               PROVE  LET op == prep[d].op
                      IN  rep[d].seq < MaxSeq /\ ~rep[d].head[op.ent].purged
                          /\ op = Seal(d, op.ent, op.kind)'
    BY <1>1 DEF DeviceSound, PrepSound
  <2> DEFINE op == prep[d].op
  <2>1. rep[d].seq < MaxSeq /\ ~rep[d].head[op.ent].purged /\ op = Seal(d, op.ent, op.kind)
        /\ op.ent \in Entities /\ op.kind \in {"put", "purge"}
    BY <1>1 DEF DeviceSound, PrepSound, Op
  <2>2. rep[d].head[op.ent].revs \subseteq rep[d].known
    BY <2>1, SealType
  <2>3. \A p \in rep[d].head[op.ent].revs : ops'[p] = ops[p]
    BY <2>2, <1>2
  <2>4. prep'[d].op = op
    OBVIOUS
  <2> HIDE DEF op
  <2>5. {ops'[p].anc : p \in rep[d].head[op.ent].revs} = {ops[p].anc : p \in rep[d].head[op.ent].revs}
    BY <2>3
  <2>6. Seal(d, op.ent, op.kind)' = Seal(d, op.ent, op.kind)
    BY <2>4, <2>5 DEF Seal, op
  <2> QED BY <2>1, <2>4, <2>6 DEF op
<1> QED
  BY <1>3, <1>4, <1>5, <1>6 DEF DeviceSound

\* The operation a device commits is new, and above the heads it replaces.
LEMMA CommittedOp ==
  ASSUME NEW kept, ReplicaInv(kept), NEW d \in Devices, prep[d] # None, prep[d].fresh, Commit(d)
  PROVE  LET op == prep[d].op
         IN  /\ op \in Op /\ op.id = <<d, rep[d].seq + 1>> /\ op.id \notin DOMAIN ops
             /\ op.parents = rep[d].head[op.ent].revs /\ op.parents \subseteq rep[d].known
             /\ op.parents \subseteq op.anc
             /\ ~rep[d].head[op.ent].purged
             /\ DOMAIN ops' = DOMAIN ops \cup {op.id} /\ ops'[op.id] = op /\ Continues(ops')
             /\ OpsSound(ops') /\ Admissible(ops', rep[d], op)
<1> DEFINE op == prep[d].op
           R == rep[d]
           h == R.head[op.ent].revs
<1>1. /\ OpsSound(ops) /\ Sound(ops, R) /\ OwnSound(d, kept) /\ PrepSound(d) /\ R \in Replica
  BY DEF ReplicaInv, DeviceSound, Shared
<1>2. /\ op \in Op /\ R.seq < MaxSeq /\ ~R.head[op.ent].purged
      /\ op = Seal(d, op.ent, op.kind) /\ op.ent \in Entities /\ op.kind \in {"put", "purge"}
  BY <1>1 DEF PrepSound, Op
<1>3. /\ op.id = <<d, R.seq + 1>> /\ op.parents = h
      /\ op.anc = h \cup UNION {ops[p].anc : p \in h} /\ h \subseteq R.known
  BY <1>2, SealType
<1>4. ops' = [i \in DOMAIN ops \cup {op.id} |-> IF i = op.id THEN op ELSE ops[i]]
  BY DEF Commit, Current
<1> HIDE DEF op, R
<1>5. op.id \notin DOMAIN ops
  <2> SUFFICES ASSUME op.id \in DOMAIN ops PROVE FALSE
    OBVIOUS
  <2>1. op.id \in R.known /\ op.id[1] = d /\ op.id[2] = R.seq + 1 /\ R.own = d
    BY <1>1, <1>3 DEF OwnSound, R
  <2>2. R.seq + 1 <= R.seq
    BY <2>1, <1>1 DEF Sound, RowsSound
  <2>3. R.seq \in Nat
    BY <1>1, ReplicaAssumption DEF Replica
  <2> QED BY <2>2, <2>3
<1>6. DOMAIN ops' = DOMAIN ops \cup {op.id} /\ ops'[op.id] = op
      /\ \A i \in DOMAIN ops : ops'[i] = ops[i]
  BY <1>4, <1>5
<1>7. Continues(ops')
  BY <1>6 DEF Continues
<1>8. R.known \cup R.pending \subseteq DOMAIN ops
  BY <1>1 DEF Sound, RowsSound
<1>9. \A p \in h : p \in DOMAIN ops /\ ops[p].ent = op.ent /\ ops[p].kind = "put"
  <2> DEFINE mine == OfIn(ops, R.known, op.ent)
  <2>1. R.head[op.ent] = IF PurgesIn(ops, mine) # {}
                         THEN [revs |-> PurgesIn(ops, mine), purged |-> TRUE]
                         ELSE [revs |-> MaximalIn(ops, mine), purged |-> FALSE]
    BY <1>1, <1>2 DEF Sound, HeadsSound
  <2> HIDE DEF mine
  <2>2. PurgesIn(ops, mine) = {} /\ h = MaximalIn(ops, mine)
    BY <2>1, <1>2 DEF R
  <2>3. \A p \in h : p \in mine /\ ops[p].kind # "purge"
    BY <2>2 DEF PurgesIn, MaximalIn
  <2>4. \A p \in mine : p \in DOMAIN ops /\ ops[p].ent = op.ent
    BY <1>8 DEF mine, OfIn
  <2>5. \A p \in DOMAIN ops : ops[p].kind \in {"put", "purge"}
    BY <1>1 DEF OpsSound, Op
  <2> QED BY <2>3, <2>4, <2>5
<1> HIDE DEF h
<1>10. op.anc \subseteq DOMAIN ops
  BY <1>1, <1>3, <1>9 DEF OpsSound
<1>11. \A j \in op.anc : /\ ops[j].anc \subseteq op.anc /\ ops[j].ent = op.ent /\ ops[j].kind = "put"
                         /\ j \in op.parents \/ \E p \in op.parents : j \in ops[p].anc
  <2> TAKE j \in op.anc
  <2>1. CASE j \in h
    BY <2>1, <1>3, <1>9
  <2>2. CASE \E p \in h : j \in ops[p].anc
    <3>1. PICK p \in h : j \in ops[p].anc
      BY <2>2
    <3>2. ops[j].anc \subseteq ops[p].anc /\ ops[j].ent = ops[p].ent /\ ops[j].kind = "put"
      BY <3>1, <1>1, <1>9 DEF OpsSound
    <3>3. ops[p].anc \subseteq op.anc
      BY <1>3
    <3> QED BY <3>1, <3>2, <3>3, <1>3, <1>9
  <2> QED BY <2>1, <2>2, <1>3
<1>12. OpsSound(ops')
  <2>1. DOMAIN ops' \subseteq Ids
    BY <1>1, <1>2, <1>6 DEF OpsSound, Op
  <2>2. ASSUME NEW i \in DOMAIN ops
        PROVE  /\ ops'[i] \in Op /\ ops'[i].id = i
               /\ ops'[i].parents \subseteq ops'[i].anc /\ ops'[i].anc \subseteq DOMAIN ops'
               /\ i \notin ops'[i].anc
               /\ \A j \in ops'[i].anc :
                    /\ ops'[j].anc \subseteq ops'[i].anc /\ ops'[j].ent = ops'[i].ent
                    /\ ops'[j].kind = "put"
                    /\ j \in ops'[i].parents \/ \E p \in ops'[i].parents : j \in ops'[p].anc
    <3>1. ops'[i] = ops[i] /\ ops[i].anc \subseteq DOMAIN ops /\ ops[i].parents \subseteq ops[i].anc
      BY <1>1, <1>6 DEF OpsSound
    <3>2. \A j \in ops[i].anc : ops'[j] = ops[j]
      BY <3>1, <1>6
    <3> QED BY <3>1, <3>2, <1>1, <1>6 DEF OpsSound
  <2>3. /\ ops'[op.id] \in Op /\ ops'[op.id].id = op.id
        /\ ops'[op.id].parents \subseteq ops'[op.id].anc /\ ops'[op.id].anc \subseteq DOMAIN ops'
        /\ op.id \notin ops'[op.id].anc
        /\ \A j \in ops'[op.id].anc :
             /\ ops'[j].anc \subseteq ops'[op.id].anc /\ ops'[j].ent = ops'[op.id].ent
             /\ ops'[j].kind = "put"
             /\ j \in ops'[op.id].parents \/ \E p \in ops'[op.id].parents : j \in ops'[p].anc
    <3>1. \A j \in op.anc \cup op.parents : ops'[j] = ops[j]
      BY <1>3, <1>6, <1>10
    <3> QED BY <3>1, <1>2, <1>3, <1>5, <1>6, <1>10, <1>11
  <2> QED BY <2>1, <2>2, <2>3, <1>6 DEF OpsSound
<1>13. Admissible(ops', R, op)
  BY <1>3, <1>5, <1>6, <1>8 DEF Admissible, Parks, Missing
<1> QED
  BY <1>2, <1>3, <1>5, <1>6, <1>7, <1>12, <1>13 DEF op, R, h

\* A commit of d moves the heads of an entity to the operation d sealed last.
Commits(d) == \E e \in Entities : /\ rep'[d].head[e] # rep[d].head[e]
                                 /\ rep'[d].head[e].revs = {<<d, rep'[d].seq>>}

LEMMA FreshCommitSound ==
  ASSUME NEW kept, ReplicaInv(kept), NEW d \in Devices, prep[d] # None, prep[d].fresh, Commit(d)
  PROVE  /\ ReplicaInv(kept)' /\ Commits(d) /\ Continues(ops')
         /\ rep[d].known \subseteq rep'[d].known
         /\ \A e \in Devices \ {d} : rep'[e] = rep[e]
<1> DEFINE op == prep[d].op
           R == rep[d]
           got == Admit(R, op)
           ou == got.outbox \cup {op.id}
           new == [got EXCEPT !.outbox = ou]
<1>1. Shared /\ OpsSound(ops) /\ Sound(ops, R) /\ OwnSound(d, kept) /\ VisitsSound(d) /\ R \in Replica
      /\ rep \in [Devices -> Replica] /\ R.own = d /\ DOMAIN prep = Devices
  BY DEF ReplicaInv, DeviceSound, Shared, OwnSound
<1>2. /\ op \in Op /\ op.id = <<d, R.seq + 1>> /\ op.id \notin DOMAIN ops
      /\ op.parents = R.head[op.ent].revs /\ op.parents \subseteq R.known
      /\ op.parents \subseteq op.anc
      /\ ~R.head[op.ent].purged
      /\ DOMAIN ops' = DOMAIN ops \cup {op.id} /\ ops'[op.id] = op /\ Continues(ops')
      /\ OpsSound(ops') /\ Admissible(ops', R, op)
  BY CommittedOp
<1>3. /\ UNCHANGED <<visit, resuming, published, crashes>> /\ prep' = [prep EXCEPT ![d] = None]
      /\ rep' = [rep EXCEPT ![d] = Committed(@, op)]
  BY DEF Commit, Current
<1> HIDE DEF op, R
<1>4. R.known \cup R.pending \subseteq DOMAIN ops /\ R.outbox \cup R.redacted \subseteq R.known
      /\ op.ent \in Entities
  BY <1>1, <1>2 DEF Sound, RowsSound, Op
<1>5. Sound(ops', R)
  BY <1>1, <1>2, ReplicaKeepsSound
<1>6. Sound(ops', got) /\ got \in Replica
  BY <1>2, <1>4, <1>5, AdmitSound DEF Sound, RowsSound
<1>7. Committed(R, op) = new
  <2>1. Apply(R, op) = got
    BY <1>2 DEF Apply, Admissible
  <2> HIDE DEF got
  <2> QED BY <2>1 DEF Committed
<1>8. /\ got.own = d /\ got.known = R.known \cup Added(R, op)
      /\ got.redacted = R.redacted \cup Dead(R, op) /\ got.pending = R.pending \ Added(R, op)
      /\ got.waiting = R.waiting /\ got.outbox = R.outbox \ Bodies(R, op)
  BY <1>1, <1>2, AdmitFields
<1>9. /\ NewHead(R, op).purged <=> op.kind = "purge" \/ R.head[op.ent].purged
      /\ got.head[op.ent] = NewHead(R, op)
  BY <1>2, <1>4, <1>5, AdmitPurges
<1>10. /\ Added(R, op) = {op.id} \cup IF op.kind = "purge" THEN OfIn(ops', R.pending, op.ent) ELSE {}
       /\ Added(R, op) \subseteq DOMAIN ops' /\ Added(R, op) \cap R.known = {}
       /\ op.kind \in {"put", "purge"}
  BY <1>2, <1>4, <1>5, AdmitContext
<1>11. /\ got.seq \in SeqsOf(Added(R, op), d) \cup {R.seq} /\ R.seq \in Nat /\ got.seq \in Nat
       /\ \A i \in Added(R, op) : i[1] = d => i[2] <= got.seq
  BY <1>1, <1>2, <1>4, <1>5, AdmitNumbers
<1> HIDE DEF got
<1>12. /\ new \in Replica /\ new.own = got.own /\ new.known = got.known
       /\ new.redacted = got.redacted /\ new.head = got.head /\ new.pending = got.pending
       /\ new.waiting = got.waiting /\ new.frontier = got.frontier /\ new.outbox = ou
       /\ new.seq = got.seq
  <2>1. ou \in SUBSET Ids
    BY <1>2, <1>6 DEF Op, Replica
  <2> HIDE DEF ou
  <2> QED BY <2>1, <1>6 DEF Replica
<1> HIDE DEF new
<1>13. op.id \in Added(R, op) /\ ou = got.outbox \cup {op.id}
  BY <1>10
<1>14. \A i \in Added(R, op) : i[1] = d => i = op.id
  <2> SUFFICES ASSUME NEW i \in Added(R, op), i[1] = d, i # op.id PROVE FALSE
    OBVIOUS
  <2>1. i \in DOMAIN ops /\ i \notin R.known
    BY <1>2, <1>10
  <2> QED BY <2>1, <1>1 DEF OwnSound, R
<1>15. op.id[1] = d /\ op.id[2] = R.seq + 1
  BY <1>2
<1>16. new.seq = R.seq + 1
  <2>1. got.seq = R.seq + 1 \/ got.seq = R.seq
    BY <1>11, <1>14, <1>15 DEF SeqsOf
  <2>2. R.seq + 1 <= got.seq
    BY <1>11, <1>13, <1>15
  <2> QED BY <2>1, <2>2, <1>11, <1>12
<1>17. Sound(ops', new)
  <2>1. RowsSound(ops', new)
    BY <1>6, <1>8, <1>12, <1>13 DEF Sound, RowsSound
  <2>2. HeadsSound(ops', new) /\ ClosedSound(ops', new) /\ FrontierSound(new) /\ ParkedSound(ops', new)
    BY <1>6, <1>12 DEF Sound, HeadsSound, ClosedSound, FrontierSound, ParkedSound
  <2>3. new.head[op.ent].purged => op.kind = "purge"
    BY <1>2, <1>9, <1>12
  <2>4. PurgedSound(ops', new)
    BY <1>2, <1>6, <1>12, <1>13, <2>3 DEF Sound, PurgedSound
  <2> QED BY <2>1, <2>2, <2>4 DEF Sound
<1>18. rep'[d] = new /\ visit'[d] = visit[d] /\ prep'[d] = None /\ resuming'[d] = resuming[d]
       /\ \A e \in Devices \ {d} : rep'[e] = rep[e] /\ prep'[e] = prep[e]
  BY <1>1, <1>3, <1>7 DEF R
<1>19. Shared'
  <2>1. OpsSound(ops)'
    BY <1>2
  <2>2. rep' \in [Devices -> Replica]
    BY <1>1, <1>3, <1>7, <1>12 DEF R
  <2>3. published' \subseteq DOMAIN ops'
    BY <1>1, <1>2, <1>3 DEF Shared
  <2>4. IsFiniteSet(DOMAIN ops')
    BY <1>1, <1>2, FS_AddElement DEF Shared
  <2> QED BY <1>1, <1>3, <2>1, <2>2, <2>3, <2>4 DEF Shared
<1>20. OwnSound(d, kept)'
  <2>1. \A i \in DOMAIN ops' : i[1] = d => i \in new.known
    BY <1>1, <1>2, <1>8, <1>12, <1>13 DEF OwnSound, R
  <2>2. ASSUME NEW i \in new.known, i[1] = d, i \notin new.redacted
        PROVE  i \in new.outbox \cup published \cup kept
    <3>1. CASE i \in Added(R, op)
      BY <3>1, <2>2, <1>12, <1>13, <1>14
    <3>2. CASE i \in R.known
      <4>1. i \in R.outbox \cup published \cup kept
        BY <2>2, <3>2, <1>1, <1>8, <1>12 DEF OwnSound, R
      <4>2. i \notin Bodies(R, op)
        <5>1. CASE op.kind = "purge"
          BY <5>1, <2>2, <1>8, <1>9, <1>12 DEF Dead
        <5>2. CASE op.kind # "purge"
          BY <5>2 DEF Bodies
        <5> QED BY <5>1, <5>2
      <4> QED BY <4>1, <4>2, <1>8, <1>12, <1>13
    <3> QED BY <3>1, <3>2, <2>2, <1>8, <1>12
  <2> QED BY <2>1, <2>2, <1>3, <1>8, <1>12, <1>18 DEF OwnSound
<1>21. VisitsSound(d)'
  <2>1. \A v \in visit[d] : v.parent \in new.known
    BY <1>1, <1>8, <1>12 DEF VisitsSound, R
  <2>2. ASSUME NEW j \in new.pending, ops'[j].parents \ new.known = {}
        PROVE  resuming[d] \/ \E v \in visit[d] : j \in v.left
    <3>1. j \in R.pending /\ j \notin Added(R, op) /\ j \in DOMAIN ops /\ ops'[j] = ops[j]
      BY <1>2, <1>4, <1>8, <1>12 DEF Continues
    <3>2. ASSUME NEW p \in ops[j].parents, p \notin R.known PROVE FALSE
      <4>1. p \in DOMAIN ops /\ ops[p].ent = ops[j].ent
        BY <3>1, <1>1 DEF OpsSound
      <4>2. p \in Added(R, op)
        BY <2>2, <3>1, <3>2, <1>8, <1>12
      <4>3. p # op.id
        BY <4>1, <1>2
      <4>4. op.kind = "purge" /\ ops'[p].ent = op.ent
        BY <4>2, <4>3, <1>10 DEF OfIn
      <4>5. ops'[j].ent = op.ent
        BY <4>1, <4>4, <3>1, <1>2 DEF Continues
      <4>6. j \in OfIn(ops', R.pending, op.ent)
        BY <3>1, <4>5 DEF OfIn
      <4> QED BY <4>4, <4>6, <3>1, <1>10
    <3>3. Lacks(R, j) = {}
      BY <3>2 DEF Lacks
    <3> QED BY <3>1, <3>3, <1>1 DEF VisitsSound, R
  <2> QED BY <2>1, <2>2, <1>1, <1>3, <1>18 DEF VisitsSound, Lacks
<1>22. DeviceSound(d, kept)'
  <2>1. Sound(ops, rep[d])'
    BY <1>17, <1>18
  <2>2. PrepSound(d)'
    BY <1>18 DEF PrepSound
  <2> QED BY <2>1, <2>2, <1>20, <1>21 DEF DeviceSound
<1>23. ASSUME NEW e \in Devices \ {d} PROVE DeviceSound(e, kept)'
  <2>1. \A i \in DOMAIN ops' \ DOMAIN ops : i[1] # e
    BY <1>2, <1>15
  <2> QED BY <2>1, <1>2, <1>3, <1>18, DeviceKeepsSound
<1>24. Commits(d)
  <2>1. op.kind # "purge" => R.head[op.ent].revs \ op.anc = {}
    BY <1>2
  <2>2. NewHead(R, op).revs = {op.id}
    <3>1. CASE op.kind = "purge"
      BY <3>1, <1>2 DEF NewHead
    <3>2. CASE op.kind # "purge"
      BY <3>2, <2>1, <1>2 DEF NewHead
    <3> QED BY <3>1, <3>2
  <2>3. op.id \notin R.head[op.ent].revs
    BY <1>2, <1>4
  <2>4. new.head[op.ent].revs = {<<d, new.seq>>} /\ new.head[op.ent] # R.head[op.ent]
    BY <2>2, <2>3, <1>2, <1>9, <1>12, <1>16
  <2> QED BY <2>4, <1>4, <1>18 DEF Commits, R
<1>25. R.known \subseteq new.known
  BY <1>8, <1>12
<1> QED
  BY <1>2, <1>18, <1>19, <1>22, <1>23, <1>24, <1>25 DEF ReplicaInv, R

LEMMA StaleCommitSound ==
  ASSUME NEW kept, ReplicaInv(kept), NEW d \in Devices, ~prep[d].fresh, Commit(d)
  PROVE  ReplicaInv(kept)' /\ Grows /\ UNCHANGED ops
<1>1. Shared /\ DeviceSound(d, kept) /\ DOMAIN prep = Devices
  BY DEF ReplicaInv, Shared
<1>2. UNCHANGED <<ops, rep, visit, resuming, published, crashes>> /\ prep' = [prep EXCEPT ![d] = None]
  BY DEF Commit, Current
<1>3. prep'[d] = None /\ \A e \in Devices \ {d} : prep'[e] = prep[e]
  BY <1>1, <1>2
<1>4. Shared' /\ PrepSound(d)'
  BY <1>1, <1>2, <1>3 DEF Shared, PrepSound
<1>5. Sound(ops, rep[d])' /\ OwnSound(d, kept)' /\ VisitsSound(d)'
  BY <1>1, <1>2 DEF DeviceSound, OwnSound, VisitsSound, Lacks
<1>6. DeviceSound(d, kept)'
  BY <1>4, <1>5 DEF DeviceSound
<1> QED
  BY <1>2, <1>3, <1>4, <1>6, OneDevice DEF Grows

\* What a step may do to the operations and to the sequence of a device.
StepKeeps == NothingForgotten /\ OperationsAreImmutable /\ LocalNeverConflicts

LEMMA InvNext ==
  ASSUME NEW kept
  PROVE  ReplicaInv(kept) /\ [Next]_vars => ReplicaInv(kept)' /\ StepKeeps /\ Continues(ops')
<1> SUFFICES ASSUME ReplicaInv(kept), [Next]_vars
             PROVE  ReplicaInv(kept)' /\ StepKeeps /\ Continues(ops')
  OBVIOUS
<1>1. ASSUME Grows, UNCHANGED ops PROVE StepKeeps /\ Continues(ops')
  BY <1>1 DEF StepKeeps, Grows, NothingForgotten, OperationsAreImmutable, LocalNeverConflicts,
              Continues
<1>2. ASSUME NEW d \in Devices, Commit(d)
      PROVE  ReplicaInv(kept)' /\ StepKeeps /\ Continues(ops')
  <2>1. prep[d] # None
    BY <1>2 DEF Commit
  <2>2. CASE prep[d].fresh
    <3>1. /\ ReplicaInv(kept)' /\ Commits(d) /\ Continues(ops') /\ rep[d].known \subseteq rep'[d].known
          /\ \A e \in Devices \ {d} : rep'[e] = rep[e]
      BY <1>2, <2>1, <2>2, FreshCommitSound
    <3>2. NothingForgotten
      BY <3>1 DEF NothingForgotten
    <3>3. OperationsAreImmutable
      BY <3>1 DEF OperationsAreImmutable, Continues
    <3>4. LocalNeverConflicts
      BY <3>1 DEF LocalNeverConflicts, Commits
    <3> QED BY <3>1, <3>2, <3>3, <3>4 DEF StepKeeps
  <2>3. CASE ~prep[d].fresh
    BY <1>1, <1>2, <2>3, StaleCommitSound
  <2> QED BY <2>2, <2>3
<1>3. ASSUME NEW d \in Devices, NEW i \in Ids, Receive(d, i)
      PROVE  ReplicaInv(kept)' /\ StepKeeps /\ Continues(ops')
  <2>1. UNCHANGED ops
    BY <1>3 DEF Receive
  <2> QED BY <1>1, <1>3, <2>1, ReceiveSound
<1>4. ASSUME NEW d \in Devices,
             Prepare(d) \/ TryDependent(d) \/ CloseVisit(d) \/ ResumeOne(d) \/ ResumeEnds(d)
             \/ Publish(d) \/ Acknowledge(d) \/ Crash(d)
      PROVE  ReplicaInv(kept)' /\ StepKeeps /\ Continues(ops')
  <2>1. UNCHANGED ops
    BY <1>4 DEF Prepare, TryDependent, CloseVisit, ResumeOne, ResumeEnds, Publish, Acknowledge, Crash
  <2>2. ReplicaInv(kept)' /\ Grows
    BY <1>4, PrepareSound, TryDependentSound, CloseVisitSound, ResumeOneSound, ResumeEndsSound,
       PublishSound, AcknowledgeSound, CrashSound
  <2> QED BY <1>1, <2>1, <2>2
<1>5. CASE UNCHANGED vars
  <2>1. UNCHANGED <<ops, rep, prep, visit, resuming, published, crashes>>
    BY <1>5 DEF vars
  <2>2. \A d \in Devices : DeviceSound(d, kept)'
    <3> TAKE d \in Devices
    <3> QED BY <2>1, DeviceStays
  <2>3. Shared'
    BY <2>1 DEF ReplicaInv, Shared
  <2>4. Grows
    BY <2>1 DEF Grows
  <2> QED BY <1>1, <2>1, <2>2, <2>3, <2>4 DEF ReplicaInv
<1> QED
  BY <1>2, <1>3, <1>4, <1>5 DEF Next

\* What a replica holds is a function of the operations it received, whatever
\* the order, the repetitions and the crashes: its heads are the maximal
\* operations, its frontier its receipts, a purge leaves no body, nothing
\* parked is stranded, no committed edit is lost.
THEOREM ReplicaSafe == Spec => []ReplicaIsWhole
<1>1. Init => ReplicaInv({})
  BY InvInit
<1>2. ReplicaInv({}) /\ [Next]_vars => ReplicaInv({})'
  BY InvNext
<1>3. ReplicaInv({}) => ReplicaIsWhole
  BY InvIsEnough DEF ReplicaIsWhole
<1> QED
  BY <1>1, <1>2, <1>3, PTL DEF Spec

\* No step makes a replica forget an operation or seals a second one under a
\* sequence, and a local commit replaces the heads it was prepared from.
THEOREM ReplicaHistory == Spec => HistoryIsKept
<1>1. Init => ReplicaInv({})
  BY InvInit
<1>2. ReplicaInv({}) /\ [Next]_vars => ReplicaInv({})'
  BY InvNext
<1>3. ReplicaInv({}) /\ [Next]_vars => [StepKeeps]_vars
  BY InvNext
<1>4. Spec => [][StepKeeps]_vars
  BY <1>1, <1>2, <1>3, PTL DEF Spec
<1> QED
  BY <1>4 DEF HistoryIsKept, StepKeeps


-----------------------------------------------------------------------------
(***************************************************************************)
(* SyncRestore, for any number of checkpoints and restores.  A cut is      *)
(* sound if the replica restored from it is, whichever device restores it; *)
(* a staged replica is sound like a live one, and has only what was        *)
(* published or cut.  Replacing the live one by it loses nothing because   *)
(* every operation of a live entity is a head or an ancestor of one        *)
(* (HeadCovers): where the staged heads descend from the live ones, the    *)
(* staged history has all of the live one.                                 *)
(***************************************************************************)

CutKnown == UNION {c.known : c \in stored}

CutSound(c) ==
  c.known \subseteq DOMAIN ops /\ \A d \in Devices : Sound(ops, Restored(c, d))

StageSound(d) ==
  stage[d] # None =>
    /\ restores # 0
    /\ stage[d] = [rep |-> stage[d].rep, fresh |-> stage[d].fresh, checked |-> stage[d].checked]
    /\ stage[d].fresh \in BOOLEAN /\ stage[d].checked \in BOOLEAN
    /\ Sound(ops, stage[d].rep) /\ stage[d].rep.own = d
    /\ stage[d].rep.known \cup stage[d].rep.pending \subseteq published \cup CutKnown

\* What a device shares by checkpoints alone are operations of a cut, and none
\* before a restore begins.
LiveSound ==
  \E kept : kept \subseteq CutKnown /\ (restores = 0 => kept = {}) /\ ReplicaInv(kept)

RestoreInv ==
  /\ LiveSound
  /\ restores \in 0 .. MaxRestores /\ DOMAIN stage = Devices
  /\ \A c \in stored : CutSound(c)
  /\ \A d \in Devices : StageSound(d)

-----------------------------------------------------------------------------
(* A cut and what is restored from it.                                     *)

LEMMA EmptyFilled ==
  ASSUME NEW d, NEW k, NEW r, NEW h, NEW f, NEW n, NEW h0, NEW f0
  PROVE  [[own |-> d, known |-> {}, redacted |-> {}, head |-> h0, pending |-> {}, waiting |-> {},
           frontier |-> f0, outbox |-> {}, seq |-> 0]
            EXCEPT !.known = k, !.redacted = r, !.head = h, !.frontier = f, !.seq = n] =
           [own |-> d, known |-> k, redacted |-> r, head |-> h, pending |-> {}, waiting |-> {},
            frontier |-> f, outbox |-> {}, seq |-> n]
<1> DEFINE x == [own |-> d, known |-> {}, redacted |-> {}, head |-> h0, pending |-> {}, waiting |-> {},
                 frontier |-> f0, outbox |-> {}, seq |-> 0]
           y == [own |-> d, known |-> k, redacted |-> r, head |-> h, pending |-> {}, waiting |-> {},
                 frontier |-> f, outbox |-> {}, seq |-> n]
           z == [x EXCEPT !.known = k, !.redacted = r, !.head = h, !.frontier = f, !.seq = n]
           names == {"own", "known", "redacted", "head", "pending", "waiting", "frontier", "outbox", "seq"}
<1>1. x = [s \in names |-> x[s]] /\ DOMAIN x = names
  OBVIOUS
<1>2. y = [s \in names |-> y[s]]
  OBVIOUS
<1>3. z = [s \in names |-> z[s]]
  <2> HIDE DEF x
  <2> QED BY <1>1
<1>4. \A s \in names : z[s] = y[s]
  <2>1. z.known = k /\ z.redacted = r /\ z.head = h /\ z.frontier = f /\ z.seq = n
    <3> HIDE DEF x
    <3> QED BY <1>1
  <2>2. z.own = x.own /\ z.pending = x.pending /\ z.waiting = x.waiting /\ z.outbox = x.outbox
    <3> HIDE DEF x
    <3> QED BY <1>1
  <2>3. x.own = d /\ x.pending = {} /\ x.waiting = {} /\ x.outbox = {}
    OBVIOUS
  <2> HIDE DEF z, x
  <2> QED BY <2>1, <2>2, <2>3
<1>5. z = y
  <2> HIDE DEF x, y, z
  <2> QED BY <1>2, <1>3, <1>4
<1> QED
  BY <1>5

LEMMA RestoredIs ==
  ASSUME NEW c, NEW d
  PROVE  Restored(c, d) =
           [own |-> d, known |-> c.known, redacted |-> c.redacted, head |-> c.head, pending |-> {},
            waiting |-> {}, frontier |-> c.frontier, outbox |-> {},
            seq |-> Largest(SeqsOf(c.known, d) \cup {0})]
<1> DEFINE h0 == [e \in Entities |-> [revs |-> {}, purged |-> FALSE]]
           f0 == [o \in Devices |-> [upto |-> 0, above |-> {}]]
           n  == Largest(SeqsOf(c.known, d) \cup {0})
           k  == c.known
           r  == c.redacted
           h  == c.head
           f  == c.frontier
<1>1. Restored(c, d) =
        [[own |-> d, known |-> {}, redacted |-> {}, head |-> h0, pending |-> {}, waiting |-> {},
          frontier |-> f0, outbox |-> {}, seq |-> 0]
           EXCEPT !.known = k, !.redacted = r, !.head = h, !.frontier = f, !.seq = n]
  BY Zenon DEF Restored, EmptyReplica
<1>2. SUFFICES Restored(c, d) =
        [own |-> d, known |-> k, redacted |-> r, head |-> h, pending |-> {}, waiting |-> {},
         frontier |-> f, outbox |-> {}, seq |-> n]
  OBVIOUS
<1> HIDE DEF h0, f0, n, k, r, h, f
<1> QED
  BY <1>1, EmptyFilled

\* Whoever restores a cut of a sound replica that waits for nothing gets one.
LEMMA RestoredSound ==
  ASSUME NEW R, NEW d \in Devices, OpsSound(ops), Sound(ops, R), R.pending = {}
  PROVE  Sound(ops, Restored(Cut(R), d))
<1> DEFINE top == Largest(SeqsOf(R.known, d) \cup {0})
           new == Restored(Cut(R), d)
<1>1. R \in Replica /\ R.known \subseteq DOMAIN ops /\ R.redacted \subseteq R.known /\ R.known \subseteq Ids
  BY DEF Sound, RowsSound, OpsSound
<1>2. MaxSeq \in Nat
  BY ReplicaAssumption
<1>3. /\ top \in SeqsOf(R.known, d) \cup {0}
      /\ \A n \in SeqsOf(R.known, d) \cup {0} : n <= top
      /\ top \in 0 .. MaxSeq
  <2> DEFINE S == SeqsOf(R.known, d) \cup {0}
  <2>1. SeqsOf(R.known, d) \subseteq 1 .. MaxSeq
    BY <1>1, SeqsAreSeqs
  <2>2. 1 .. MaxSeq \subseteq 0 .. MaxSeq /\ 0 \in 0 .. MaxSeq
    BY <1>2
  <2>3. S \subseteq 0 .. MaxSeq /\ S # {}
    BY <2>1, <2>2
  <2> HIDE DEF S
  <2>4. Largest(S) \in S /\ \A n \in S : n <= Largest(S)
    BY <1>2, <2>3, LargestOf
  <2> QED BY <2>3, <2>4 DEF S
<1>4. new = [own |-> d, known |-> R.known, redacted |-> R.redacted, head |-> R.head, pending |-> {},
             waiting |-> {}, frontier |-> R.frontier, outbox |-> {}, seq |-> top]
  BY RestoredIs DEF Cut
<1> HIDE DEF top, new
<1>5. new \in Replica
  BY <1>1, <1>3, <1>4 DEF Replica
<1>6. /\ new.own = d /\ new.known = R.known /\ new.redacted = R.redacted /\ new.head = R.head
      /\ new.pending = {} /\ new.waiting = {} /\ new.frontier = R.frontier /\ new.outbox = {}
      /\ new.seq = top
  BY <1>4
<1>7. \A i \in R.known : i[1] = d => i[2] <= top
  BY <1>3 DEF SeqsOf
<1>8. top = 0 \/ <<d, top>> \in R.known
  <2> SUFFICES ASSUME top # 0 PROVE <<d, top>> \in R.known
    OBVIOUS
  <2>1. PICK i \in R.known : i[1] = d /\ i[2] = top
    BY <1>3 DEF SeqsOf
  <2>2. i = <<i[1], i[2]>>
    BY <1>1, <2>1 DEF Ids
  <2> QED BY <2>1, <2>2
<1>9. RowsSound(ops, new)
  BY <1>1, <1>5, <1>6, <1>7, <1>8 DEF RowsSound
<1>10. HeadsSound(ops, new) /\ ClosedSound(ops, new) /\ PurgedSound(ops, new) /\ FrontierSound(new)
       /\ ParkedSound(ops, new)
  BY <1>6 DEF Sound, HeadsSound, ClosedSound, PurgedSound, FrontierSound, ParkedSound
<1> QED
  BY <1>9, <1>10 DEF Sound, new

\* An operation of an entity that is not purged is a head or an ancestor of one.
LEMMA HeadCovers ==
  ASSUME NEW R, OpsSound(ops), IsFiniteSet(DOMAIN ops), Sound(ops, R),
         NEW i \in R.known, ~R.head[ops[i].ent].purged
  PROVE  \E h \in R.head[ops[i].ent].revs : i = h \/ i \in ops[h].anc
<1> DEFINE T == {j \in R.known : i = j \/ i \in ops[j].anc}
           size(j) == Cardinality(ops[j].anc)
           S == {size(j) : j \in T}
           m == Cardinality(DOMAIN ops)
           mine == OfIn(ops, R.known, ops[i].ent)
<1>1. R.known \subseteq DOMAIN ops /\ i \in T /\ T \subseteq R.known
  BY DEF Sound, RowsSound
<1>2. ASSUME NEW j \in DOMAIN ops
      PROVE  /\ IsFiniteSet(ops[j].anc) /\ size(j) \in 0 .. m /\ size(j) \in Nat
             /\ ops[j] \in Op /\ j \notin ops[j].anc
             /\ \A k \in ops[j].anc : ops[k].anc \subseteq ops[j].anc /\ ops[k].ent = ops[j].ent
  <2>1. ops[j].anc \in SUBSET (DOMAIN ops)
    BY <1>2 DEF OpsSound
  <2>2. IsFiniteSet(ops[j].anc) /\ size(j) <= m
    BY <2>1, FS_Subset
  <2>3. size(j) \in Nat /\ m \in Nat
    BY <2>2, FS_CardinalityType
  <2> QED BY <1>2, <2>2, <2>3 DEF OpsSound
<1>3. S \subseteq 0 .. m /\ S # {} /\ m \in Nat
  BY <1>1, <1>2, FS_CardinalityType
<1>4. PICK h \in T : \A j \in T : size(j) <= size(h)
  <2> HIDE DEF S, m
  <2>1. Largest(S) \in S /\ \A n \in S : n <= Largest(S)
    BY <1>3, LargestOf
  <2>2. PICK h \in T : Largest(S) = size(h)
    BY <2>1 DEF S
  <2>3. \A j \in T : size(j) \in S
    BY DEF S
  <2> QED BY <2>1, <2>2, <2>3
<1> HIDE DEF S, m
<1>5. h \in DOMAIN ops /\ h \in R.known /\ (i = h \/ i \in ops[h].anc) /\ ops[h].ent = ops[i].ent
  BY <1>1, <1>2, <1>4
<1>6. ASSUME NEW k \in mine, h \in ops[k].anc PROVE FALSE
  <2>1. k \in R.known /\ k \in DOMAIN ops /\ ops[h].anc \subseteq ops[k].anc /\ h \notin ops[h].anc
    BY <1>1, <1>2, <1>5, <1>6 DEF OfIn
  <2>2. k \in T
    BY <1>5, <1>6, <2>1
  <2>3. size(h) <= size(k) /\ (size(h) = size(k) => ops[h].anc = ops[k].anc)
    BY <1>2, <2>1, FS_Subset
  <2>4. size(k) <= size(h) /\ size(k) \in Nat /\ size(h) \in Nat
    BY <1>2, <1>4, <1>5, <2>1, <2>2
  <2>5. size(h) = size(k)
    <3> HIDE DEF size
    <3> QED BY <2>3, <2>4
  <2> QED BY <2>1, <2>3, <2>5, <1>6
<1>7. h \in mine /\ h \in MaximalIn(ops, mine)
  <2>1. h \in mine
    BY <1>5 DEF OfIn
  <2> HIDE DEF mine
  <2> QED BY <2>1, <1>6 DEF MaximalIn
<1>8. R.head[ops[i].ent].revs = MaximalIn(ops, mine)
  <2>1. ops[i].ent \in Entities
    BY <1>1, <1>2 DEF Op
  <2>2. R.head[ops[i].ent] = IF PurgesIn(ops, mine) # {} THEN [revs |-> PurgesIn(ops, mine), purged |-> TRUE]
                             ELSE [revs |-> MaximalIn(ops, mine), purged |-> FALSE]
    BY <2>1 DEF Sound, HeadsSound
  <2> HIDE DEF mine
  <2> QED BY <2>2
<1> QED
  BY <1>5, <1>7, <1>8


-----------------------------------------------------------------------------
(* The steps.  What the core does keeps the cuts and the staged replicas.  *)

LEMMA KeptGrows ==
  ASSUME NEW kept, NEW more, kept \subseteq more, ReplicaInv(kept)
  PROVE  ReplicaInv(more)
BY DEF ReplicaInv, DeviceSound, OwnSound

LEMMA PublishedGrows == [Next]_vars => published \subseteq published'
BY DEF Next, vars, Prepare, Commit, Receive, TryDependent, CloseVisit, ResumeOne, ResumeEnds, Publish,
       Acknowledge, Crash

\* The rows of staged replicas that steps write.
LEMMA StageFresh ==
  ASSUME NEW r, NEW f, NEW k, NEW x
  PROVE  [[rep |-> r, fresh |-> f, checked |-> k] EXCEPT !.fresh = x] = [rep |-> r, fresh |-> x, checked |-> k]
OBVIOUS

LEMMA StageChecked ==
  ASSUME NEW r, NEW f, NEW k, NEW x
  PROVE  [[rep |-> r, fresh |-> f, checked |-> k] EXCEPT !.checked = x] = [rep |-> r, fresh |-> f, checked |-> x]
OBVIOUS

\* A staged replica whose own row is not touched, but maybe its two flags.
LEMMA StageStays ==
  ASSUME RestoreInv, NEW d \in Devices, Continues(ops'), published \subseteq published', CutKnown \subseteq CutKnown',
         stage'[d] # None =>
           /\ stage[d] # None /\ restores' # 0
           /\ stage'[d] = [rep |-> stage[d].rep, fresh |-> stage'[d].fresh, checked |-> stage'[d].checked]
           /\ stage'[d].fresh \in BOOLEAN /\ stage'[d].checked \in BOOLEAN
  PROVE  StageSound(d)'
<1> SUFFICES ASSUME stage'[d] # None
             PROVE  /\ restores' # 0
                    /\ stage'[d] = [rep |-> stage'[d].rep, fresh |-> stage'[d].fresh, checked |-> stage'[d].checked]
                    /\ stage'[d].fresh \in BOOLEAN /\ stage'[d].checked \in BOOLEAN
                    /\ Sound(ops', stage'[d].rep) /\ stage'[d].rep.own = d
                    /\ stage'[d].rep.known \cup stage'[d].rep.pending \subseteq published' \cup CutKnown'
  BY DEF StageSound
<1>1. StageSound(d) /\ OpsSound(ops)
  BY DEF RestoreInv, LiveSound, ReplicaInv, Shared
<1>2. stage'[d].rep = stage[d].rep
  OBVIOUS
<1>3. Sound(ops', stage[d].rep)
  BY <1>1, ReplicaKeepsSound DEF StageSound
<1> QED
  BY <1>1, <1>2, <1>3 DEF StageSound

\* Where the operations there are continue, what was cut stays sound.
LEMMA CutsStay ==
  ASSUME RestoreInv, Continues(ops')
  PROVE  \A c \in stored : CutSound(c)'
<1> TAKE c \in stored
<1>1. CutSound(c) /\ OpsSound(ops)
  BY DEF RestoreInv, LiveSound, ReplicaInv, Shared
<1>2. c.known \subseteq DOMAIN ops'
  BY <1>1 DEF CutSound, Continues
<1>3. \A d \in Devices : Sound(ops', Restored(c, d))
  BY <1>1, ReplicaKeepsSound DEF CutSound
<1> QED
  BY <1>2, <1>3 DEF CutSound

\* The steps that leave the core alone.
LEMMA CoreStays ==
  ASSUME RestoreInv, UNCHANGED vars, stored \subseteq stored', restores' = 0 => restores = 0
  PROVE  LiveSound' /\ StepKeeps /\ Continues(ops') /\ CutKnown \subseteq CutKnown' /\ published' = published
<1>1. PICK kept : kept \subseteq CutKnown /\ (restores = 0 => kept = {}) /\ ReplicaInv(kept)
  BY DEF RestoreInv, LiveSound
<1>2. ReplicaInv(kept)' /\ StepKeeps /\ Continues(ops')
  BY <1>1, InvNext
<1>3. CutKnown \subseteq CutKnown'
  BY DEF CutKnown
<1>4. published' = published
  BY DEF vars
<1> QED
  BY <1>1, <1>2, <1>3, <1>4 DEF LiveSound

LEMMA CoreStepSound ==
  ASSUME RestoreInv, CoreStep
  PROVE  RestoreInv' /\ StepKeeps
<1>1. PICK kept : kept \subseteq CutKnown /\ (restores = 0 => kept = {}) /\ ReplicaInv(kept)
  BY DEF RestoreInv, LiveSound
<1>2. Next /\ OutdatesRestores
  BY DEF CoreStep
<1>3. ReplicaInv(kept)' /\ StepKeeps /\ Continues(ops')
  BY <1>1, <1>2, InvNext
<1>4. stored' = stored /\ restores' = restores /\ CutKnown' = CutKnown
  BY <1>2 DEF OutdatesRestores, CutKnown
<1>5. LiveSound'
  BY <1>1, <1>3, <1>4 DEF LiveSound
<1>6. \A c \in stored' : CutSound(c)'
  BY <1>3, <1>4, CutsStay
<1>7. ASSUME NEW d \in Devices PROVE StageSound(d)'
  <2>1. stage'[d] = IF stage[d] # None /\ Moved(d) THEN [stage[d] EXCEPT !.fresh = FALSE] ELSE stage[d]
    BY <1>2 DEF OutdatesRestores
  <2>2. StageSound(d)
    BY DEF RestoreInv
  <2>3. ASSUME stage'[d] # None
        PROVE  /\ stage[d] # None /\ restores' # 0
               /\ stage'[d] = [rep |-> stage[d].rep, fresh |-> stage'[d].fresh, checked |-> stage'[d].checked]
               /\ stage'[d].fresh \in BOOLEAN /\ stage'[d].checked \in BOOLEAN
    <3>1. stage[d] # None
      BY <2>1, <2>3
    <3>2. /\ stage[d] = [rep |-> stage[d].rep, fresh |-> stage[d].fresh, checked |-> stage[d].checked]
          /\ stage[d].fresh \in BOOLEAN /\ stage[d].checked \in BOOLEAN /\ restores # 0
      BY <2>2, <3>1 DEF StageSound
    <3>3. CASE Moved(d)
      <4> DEFINE r == stage[d].rep
                 f == stage[d].fresh
                 k == stage[d].checked
                 no == FALSE
      <4>1. stage'[d] = [stage[d] EXCEPT !.fresh = no]
        BY <2>1, <3>1, <3>3
      <4>2. stage[d] = [rep |-> r, fresh |-> f, checked |-> k]
        BY <3>2
      <4>5. no \in BOOLEAN
        OBVIOUS
      <4> HIDE DEF r, f, k, no
      <4>3. stage'[d] = [rep |-> r, fresh |-> no, checked |-> k]
        BY <4>1, <4>2, StageFresh
      <4>4. stage'[d].fresh = no /\ stage'[d].checked = k
        BY <4>3
      <4>6. stage'[d] = [rep |-> r, fresh |-> stage'[d].fresh, checked |-> stage'[d].checked]
        BY <4>3, <4>4
      <4> QED BY <3>1, <3>2, <4>4, <4>5, <4>6, <1>4 DEF r, k
    <3>4. CASE ~Moved(d)
      BY <2>1, <3>1, <3>2, <3>4, <1>4
    <3> QED BY <3>3, <3>4
  <2> QED BY <1>2, <1>3, <1>4, <2>3, StageStays, PublishedGrows
<1>8. restores' \in 0 .. MaxRestores /\ DOMAIN stage' = Devices
  BY <1>2, <1>4 DEF RestoreInv, OutdatesRestores
<1> QED
  BY <1>3, <1>5, <1>6, <1>7, <1>8 DEF RestoreInv

LEMMA BuildCheckpointSound ==
  ASSUME RestoreInv, NEW o \in Devices, BuildCheckpoint(o)
  PROVE  RestoreInv' /\ StepKeeps
<1>1. /\ rep[o].pending = {} /\ stored' = stored \cup {Cut(rep[o])}
      /\ UNCHANGED vars /\ stage' = stage /\ restores' = restores
  BY DEF BuildCheckpoint
<1>2. LiveSound' /\ StepKeeps /\ Continues(ops') /\ CutKnown \subseteq CutKnown' /\ published' = published
  BY <1>1, CoreStays
<1>3. OpsSound(ops) /\ Sound(ops, rep[o]) /\ ops' = ops
  BY <1>1 DEF RestoreInv, LiveSound, ReplicaInv, Shared, DeviceSound, vars
<1>4. CutSound(Cut(rep[o]))
  <2> DEFINE c == Cut(rep[o])
  <2>1. c.known \subseteq DOMAIN ops
    BY <1>3 DEF Sound, RowsSound, Cut
  <2>2. \A d \in Devices : Sound(ops, Restored(c, d))
    BY <1>1, <1>3, RestoredSound
  <2> QED BY <2>1, <2>2 DEF CutSound
<1>5. \A c \in stored' : CutSound(c)'
  <2>1. \A c \in stored : CutSound(c)
    BY DEF RestoreInv
  <2>2. \A c : CutSound(c) => CutSound(c)'
    BY <1>3 DEF CutSound
  <2> QED BY <1>1, <1>4, <2>1, <2>2
<1>6. ASSUME NEW d \in Devices PROVE StageSound(d)'
  <2>1. StageSound(d)
    BY DEF RestoreInv
  <2> QED BY <1>1, <1>2, <2>1, StageStays DEF StageSound
<1> QED
  BY <1>1, <1>2, <1>5, <1>6 DEF RestoreInv

LEMMA StageCheckpointSound ==
  ASSUME RestoreInv, NEW o \in Devices, StageCheckpoint(o)
  PROVE  RestoreInv' /\ StepKeeps
<1>1. /\ restores < MaxRestores /\ restores' = restores + 1
      /\ UNCHANGED vars /\ stored' = stored
  BY DEF StageCheckpoint
<1>2. PICK c \in stored :
        stage' = [stage EXCEPT ![o] = [rep |-> Restored(c, o), fresh |-> TRUE, checked |-> TRUE]]
  BY DEF StageCheckpoint
<1>3. restores' \in 0 .. MaxRestores /\ restores' # 0 /\ DOMAIN stage = Devices
  BY <1>1, RestoreAssumption DEF RestoreInv
<1>4. LiveSound' /\ StepKeeps /\ Continues(ops') /\ CutKnown \subseteq CutKnown' /\ published' = published
  BY <1>1, <1>3, CoreStays
<1>5. \A x \in stored' : CutSound(x)'
  BY <1>1, <1>4, CutsStay
<1>6. StageSound(o)'
  <2> DEFINE R == Restored(c, o)
  <2>1. stage'[o] = [rep |-> R, fresh |-> TRUE, checked |-> TRUE]
    BY <1>2, <1>3
  <2>2. R.own = o /\ R.known = c.known /\ R.pending = {}
    BY RestoredIs
  <2>3. Sound(ops', R)
    <3>1. CutSound(c)'
      BY <1>1, <1>5
    <3> QED BY <3>1 DEF CutSound
  <2>4. c.known \subseteq CutKnown'
    BY <1>1 DEF CutKnown
  <2> HIDE DEF R
  <2> QED BY <1>3, <2>1, <2>2, <2>3, <2>4 DEF StageSound
<1>7. ASSUME NEW d \in Devices \ {o} PROVE StageSound(d)'
  <2>1. StageSound(d) /\ stage'[d] = stage[d]
    BY <1>2, <1>3 DEF RestoreInv
  <2> QED BY <1>3, <1>4, <2>1, StageStays DEF StageSound
<1> QED
  BY <1>2, <1>3, <1>4, <1>5, <1>6, <1>7 DEF RestoreInv

LEMMA ReconcileTailSound ==
  ASSUME RestoreInv, NEW o \in Devices, ReconcileTail(o)
  PROVE  RestoreInv' /\ StepKeeps
<1>1. stage[o] # None /\ UNCHANGED vars /\ stored' = stored /\ restores' = restores
      /\ DOMAIN stage = Devices /\ restores \in 0 .. MaxRestores
  BY DEF ReconcileTail, RestoreInv
<1>2. PICK i \in published \cup stage[o].rep.pending : ApplyStaged(o, i)
  BY DEF ReconcileTail
<1>3. LiveSound' /\ StepKeeps /\ Continues(ops') /\ CutKnown \subseteq CutKnown' /\ published' = published
  BY <1>1, CoreStays
<1>4. \A x \in stored' : CutSound(x)'
  BY <1>1, <1>3, CutsStay
<1> DEFINE R == stage[o].rep
           f == stage[o].fresh
           k == stage[o].checked
           new == Apply(R, ops[i])
           b == k /\ ~Advances(R, ops[i])
<1>5. /\ restores # 0 /\ stage[o] = [rep |-> R, fresh |-> f, checked |-> k]
      /\ f \in BOOLEAN /\ k \in BOOLEAN
      /\ Sound(ops, R) /\ R.own = o /\ R.known \cup R.pending \subseteq published \cup CutKnown
  BY <1>1 DEF RestoreInv, StageSound
<1>6. OpsSound(ops) /\ i \in DOMAIN ops /\ ops' = ops
  BY <1>1, <1>2, <1>5 DEF RestoreInv, LiveSound, ReplicaInv, Shared, Sound, RowsSound, vars
<1>7. /\ Sound(ops, new) /\ new.own = R.own
      /\ new.known \subseteq R.known \cup R.pending \cup {i}
      /\ new.pending \subseteq R.pending \cup {i}
  BY <1>5, <1>6, ApplySound
<1>8. b \in BOOLEAN
  OBVIOUS
<1>9. stage' = [stage EXCEPT ![o].rep = new, ![o].checked = b]
  BY <1>2 DEF ApplyStaged
<1>10. i \in published \cup R.pending
  OBVIOUS
<1>11. stage'[o] = [stage[o] EXCEPT !.rep = new, !.checked = b]
       /\ \A d \in Devices \ {o} : stage'[d] = stage[d]
  <2> HIDE DEF R, f, k, new, b
  <2> QED BY <1>1, <1>9
<1>12. stage'[o] = [rep |-> new, fresh |-> f, checked |-> b]
  <2> HIDE DEF R, f, k, new, b
  <2> DEFINE names == {"rep", "fresh", "checked"}
             s == stage[o]
             z == stage'[o]
             w == [rep |-> new, fresh |-> f, checked |-> b]
  <2>1. s = [n \in names |-> s[n]] /\ s.fresh = f
    <3>1. s = [rep |-> R, fresh |-> f, checked |-> k]
      BY <1>5
    <3> HIDE DEF s
    <3> QED BY <3>1
  <2>2. w = [n \in names |-> w[n]]
    OBVIOUS
  <2>3. z = [s EXCEPT !.rep = new, !.checked = b]
    BY <1>11
  <2> HIDE DEF s, z
  <2>4. z = [n \in names |-> z[n]]
    BY <2>1, <2>3
  <2>5. z.rep = new /\ z.checked = b /\ z.fresh = s.fresh
    BY <2>1, <2>3
  <2>6. w.rep = new /\ w.checked = b /\ w.fresh = f
    OBVIOUS
  <2> HIDE DEF w
  <2>7. z = w
    BY <2>1, <2>2, <2>4, <2>5, <2>6
  <2> QED BY <2>7 DEF z, w
<1>13. StageSound(o)'
  <2> HIDE DEF R, f, k, new, b
  <2>1. new.known \cup new.pending \subseteq published' \cup CutKnown'
    BY <1>3, <1>5, <1>7, <1>10
  <2>2. Sound(ops', new) /\ new.own = o /\ restores' # 0
    BY <1>1, <1>5, <1>6, <1>7
  <2>3. stage'[o].rep = new /\ stage'[o].fresh = f /\ stage'[o].checked = b
    BY <1>12
  <2>4. stage'[o] = [rep |-> stage'[o].rep, fresh |-> stage'[o].fresh, checked |-> stage'[o].checked]
    BY <1>12, <2>3
  <2> QED BY <1>5, <1>8, <2>1, <2>2, <2>3, <2>4 DEF StageSound
<1>14. ASSUME NEW d \in Devices \ {o} PROVE StageSound(d)'
  <2>1. StageSound(d) /\ stage'[d] = stage[d]
    BY <1>11 DEF RestoreInv
  <2> QED BY <1>1, <1>3, <2>1, StageStays DEF StageSound
<1>15. DOMAIN stage' = Devices
  BY <1>1, <1>9
<1> QED
  BY <1>1, <1>3, <1>4, <1>13, <1>14, <1>15 DEF RestoreInv

LEMMA TailReconciledSound ==
  ASSUME RestoreInv, NEW o \in Devices, TailReconciled(o)
  PROVE  RestoreInv' /\ StepKeeps
<1>1. /\ stage[o] # None /\ stage' = [stage EXCEPT ![o].checked = TRUE]
      /\ UNCHANGED vars /\ stored' = stored /\ restores' = restores
      /\ DOMAIN stage = Devices /\ restores \in 0 .. MaxRestores
  BY DEF TailReconciled, RestoreInv
<1>2. LiveSound' /\ StepKeeps /\ Continues(ops') /\ CutKnown \subseteq CutKnown' /\ published' = published
  BY <1>1, CoreStays
<1>3. \A x \in stored' : CutSound(x)'
  BY <1>1, <1>2, CutsStay
<1>4. StageSound(o)'
  <2> DEFINE r == stage[o].rep
             f == stage[o].fresh
             k == stage[o].checked
             yes == TRUE
  <2>1. /\ restores # 0 /\ stage[o] = [rep |-> r, fresh |-> f, checked |-> k] /\ f \in BOOLEAN
    BY <1>1 DEF RestoreInv, StageSound
  <2>2. stage'[o] = [stage[o] EXCEPT !.checked = yes] /\ yes \in BOOLEAN
    BY <1>1
  <2>3. stage'[o] = [rep |-> r, fresh |-> f, checked |-> yes]
    <3> HIDE DEF r, f, k, yes
    <3> QED BY <2>1, <2>2, StageChecked
  <2>4. stage'[o].fresh = f /\ stage'[o].checked = yes
    <3> HIDE DEF r, f, k, yes
    <3> QED BY <2>3
  <2>5. stage'[o] = [rep |-> r, fresh |-> stage'[o].fresh, checked |-> stage'[o].checked]
    <3> HIDE DEF r, f, k, yes
    <3> QED BY <2>3, <2>4
  <2> QED BY <1>1, <1>2, <2>1, <2>2, <2>4, <2>5, StageStays
<1>5. ASSUME NEW d \in Devices \ {o} PROVE StageSound(d)'
  <2>1. StageSound(d) /\ stage'[d] = stage[d]
    BY <1>1 DEF RestoreInv
  <2> QED BY <1>1, <1>2, <2>1, StageStays DEF StageSound
<1> QED
  BY <1>1, <1>2, <1>3, <1>4, <1>5 DEF RestoreInv

\* Heads that descend from the live ones make the staged history whole.
LEMMA ReplaceableLosesNothing ==
  ASSUME NEW L, NEW S, OpsSound(ops), IsFiniteSet(DOMAIN ops), Sound(ops, L), Sound(ops, S),
         Replaceable(L, S)
  PROVE  L.known \subseteq S.known
<1> SUFFICES ASSUME NEW i \in L.known PROVE i \in S.known
  OBVIOUS
<1> DEFINE e == ops[i].ent
<1>1. i \in DOMAIN ops /\ e \in Entities
  BY DEF Sound, RowsSound, OpsSound, Op
<1>2. /\ ~L.head[e].purged /\ ~S.head[e].purged
      /\ \A r \in L.head[e].revs : Descends(S, r, e)
  BY <1>1 DEF Replaceable
<1>3. PICK h \in L.head[e].revs : i = h \/ i \in ops[h].anc
  BY <1>2, HeadCovers
<1>4. \A g \in S.head[e].revs : g \in S.known /\ ops[g].ent = e
  <2> DEFINE mine == OfIn(ops, S.known, e)
  <2>1. S.head[e] = IF PurgesIn(ops, mine) # {} THEN [revs |-> PurgesIn(ops, mine), purged |-> TRUE]
                    ELSE [revs |-> MaximalIn(ops, mine), purged |-> FALSE]
    BY <1>1 DEF Sound, HeadsSound
  <2>2. S.head[e].revs \subseteq mine
    <3>1. PurgesIn(ops, mine) \subseteq mine /\ MaximalIn(ops, mine) \subseteq mine
      BY DEF PurgesIn, MaximalIn
    <3> HIDE DEF mine
    <3> QED BY <2>1, <3>1
  <2> QED BY <2>2 DEF OfIn
<1>5. ASSUME NEW k \in S.known, ops[k].ent = e
      PROVE  ops[k].anc \subseteq S.known /\ \A j \in ops[k].anc : ops[j].ent = e
  <2>1. k \in DOMAIN ops
    BY DEF Sound, RowsSound
  <2> QED BY <1>2, <1>5, <2>1 DEF Sound, ClosedSound, OpsSound
<1>6. h \in S.known /\ ops[h].ent = e
  <2>1. h \in S.head[e].revs \/ \E g \in S.head[e].revs : h \in ops[g].anc
    BY <1>2 DEF Descends
  <2> QED BY <2>1, <1>4, <1>5
<1> QED
  BY <1>3, <1>5, <1>6

LEMMA ActivateSound ==
  ASSUME RestoreInv, NEW o \in Devices, Activate(o)
  PROVE  RestoreInv' /\ StepKeeps
<1> DEFINE L == rep[o]
           S == stage[o].rep
<1>1. /\ stage[o] # None /\ S.pending = {} /\ Replaceable(L, S)
      /\ rep' = [rep EXCEPT ![o] = S]
      /\ prep' = [prep EXCEPT ![o] = IF @ = None THEN None ELSE [@ EXCEPT !.fresh = FALSE]]
      /\ stage' = [stage EXCEPT ![o] = None]
      /\ UNCHANGED <<ops, visit, resuming, published, crashes, stored, restores>>
  BY DEF Activate
<1>2. PICK K : K = CutKnown
  OBVIOUS
<1>3. PICK kept : kept \subseteq K /\ ReplicaInv(kept)
  BY <1>2 DEF RestoreInv, LiveSound
<1>4. ReplicaInv(K)
  BY <1>3, KeptGrows
<1>5. /\ restores # 0 /\ Sound(ops, S) /\ S.own = o
      /\ S.known \subseteq published \cup K
  BY <1>1, <1>2 DEF RestoreInv, StageSound
<1>6. Shared /\ DeviceSound(o, K)
  BY <1>4 DEF ReplicaInv
<1>7. /\ OpsSound(ops) /\ IsFiniteSet(DOMAIN ops) /\ Sound(ops, L) /\ L.own = o
      /\ \A i \in DOMAIN ops : i[1] = o => i \in L.known
  BY <1>6 DEF Shared, DeviceSound, OwnSound
<1>8. L.known \subseteq S.known
  BY <1>1, <1>5, <1>7, ReplaceableLosesNothing
<1>9. S \in Replica /\ L \in Replica /\ S.known \subseteq DOMAIN ops
      /\ (S.seq = 0 \/ <<o, S.seq>> \in S.known) /\ (L.seq = 0 \/ <<o, L.seq>> \in L.known)
      /\ (\A i \in S.known : i[1] = o => i[2] <= S.seq) /\ \A i \in L.known : i[1] = o => i[2] <= L.seq
  BY <1>5, <1>7 DEF Sound, RowsSound
<1>10. S.seq = L.seq
  <2>1. S.seq \in 0 .. MaxSeq /\ L.seq \in 0 .. MaxSeq /\ MaxSeq \in Nat
    BY <1>9, ReplicaAssumption DEF Replica
  <2>2. L.seq <= S.seq
    <3>1. CASE L.seq = 0
      BY <2>1, <3>1
    <3>2. CASE <<o, L.seq>> \in L.known
      <4>1. <<o, L.seq>> \in S.known /\ <<o, L.seq>>[1] = o /\ <<o, L.seq>>[2] = L.seq
        BY <3>2, <1>8
      <4> HIDE DEF S, L
      <4> QED BY <4>1, <1>9
    <3> QED BY <3>1, <3>2, <1>9
  <2>3. S.seq <= L.seq
    <3>1. CASE S.seq = 0
      BY <2>1, <3>1
    <3>2. CASE <<o, S.seq>> \in S.known
      <4>1. <<o, S.seq>> \in L.known /\ <<o, S.seq>>[1] = o /\ <<o, S.seq>>[2] = S.seq
        BY <3>2, <1>7, <1>9
      <4> HIDE DEF S, L
      <4> QED BY <4>1, <1>9
    <3> QED BY <3>1, <3>2, <1>9
  <2> HIDE DEF S, L
  <2> QED BY <2>1, <2>2, <2>3
<1>11. rep'[o] = S /\ \A d \in Devices \ {o} : rep'[d] = rep[d] /\ prep'[d] = prep[d] /\ stage'[d] = stage[d]
  <2>1. DOMAIN rep = Devices /\ DOMAIN prep = Devices /\ DOMAIN stage = Devices
    BY <1>6 DEF Shared, RestoreInv
  <2> HIDE DEF S
  <2> QED BY <1>1, <2>1
<1> HIDE DEF S, L
<1>12. Shared'
  <2>1. OpsSound(ops)' /\ IsFiniteSet(DOMAIN ops)'
    BY <1>1, <1>7
  <2>2. rep' \in [Devices -> Replica] /\ DOMAIN prep' = Devices
    BY <1>1, <1>6, <1>9 DEF Shared
  <2> QED BY <1>1, <1>6, <2>1, <2>2 DEF Shared
<1>13. DeviceSound(o, K)'
  <2>1. Sound(ops, rep[o])'
    BY <1>1, <1>5, <1>11
  <2>2. OwnSound(o, K)'
    <3>1. \A i \in DOMAIN ops : i[1] = o => i \in S.known
      BY <1>7, <1>8
    <3>2. rep'[o].own = o /\ rep'[o].known = S.known /\ ops' = ops /\ published' = published
      BY <1>1, <1>5, <1>11
    <3> QED BY <1>5, <3>1, <3>2 DEF OwnSound
  <2>3. VisitsSound(o)'
    <3>1. visit[o] \subseteq [parent : Ids, left : SUBSET Ids] /\ \A v \in visit[o] : v.parent \in S.known
      BY <1>6, <1>8 DEF DeviceSound, VisitsSound, L
    <3>2. rep'[o].known = S.known /\ rep'[o].pending = {} /\ visit' = visit
      BY <1>1, <1>11 DEF S
    <3> QED BY <3>1, <3>2 DEF VisitsSound
  <2>4. PrepSound(o)'
    <3>1. prep'[o] = IF prep[o] = None THEN None ELSE [prep[o] EXCEPT !.fresh = FALSE]
      BY <1>1, <1>6 DEF Shared
    <3>2. prep[o] = None \/ prep[o] \in [op : Op, fresh : BOOLEAN]
      BY <1>6 DEF DeviceSound, PrepSound
    <3>3. CASE prep[o] = None
      BY <3>1, <3>3 DEF PrepSound
    <3>4. CASE prep[o] # None
      <4>1. prep'[o] \in [op : Op, fresh : BOOLEAN] /\ ~prep'[o].fresh
        BY <3>1, <3>2, <3>4
      <4> QED BY <4>1 DEF PrepSound
    <3> QED BY <3>3, <3>4
  <2> QED BY <2>1, <2>2, <2>3, <2>4 DEF DeviceSound
<1>14. ReplicaInv(K)'
  BY <1>1, <1>4, <1>11, <1>12, <1>13, OneDevice
<1>15. CutKnown' = K /\ restores' # 0
  BY <1>1, <1>2, <1>5 DEF CutKnown
<1>16. LiveSound'
  BY <1>14, <1>15 DEF LiveSound
<1>17. Continues(ops') /\ published' = published
  BY <1>1 DEF Continues
<1>18. \A c \in stored' : CutSound(c)'
  BY <1>1, <1>17, CutsStay
<1>19. \A d \in Devices : StageSound(d)'
  <2> TAKE d \in Devices
  <2>1. CASE d = o
    <3>1. stage'[o] = None
      BY <1>1 DEF RestoreInv
    <3> QED BY <2>1, <3>1 DEF StageSound
  <2>2. CASE d # o
    <3>1. StageSound(d) /\ stage'[d] = stage[d] /\ CutKnown' = CutKnown
      BY <1>2, <1>11, <1>15, <2>2 DEF RestoreInv
    <3> QED BY <1>5, <1>15, <1>17, <3>1, StageStays DEF StageSound
  <2> QED BY <2>1, <2>2
<1>20. StepKeeps
  <2>1. \A d \in Devices : rep[d].known \subseteq rep'[d].known /\ rep'[d].seq = rep[d].seq
    BY <1>8, <1>10, <1>11 DEF L
  <2> QED BY <1>1, <2>1 DEF StepKeeps, NothingForgotten, OperationsAreImmutable, LocalNeverConflicts
<1>21. restores' \in 0 .. MaxRestores /\ DOMAIN stage' = Devices
  BY <1>1 DEF RestoreInv
<1> QED
  BY <1>16, <1>18, <1>19, <1>20, <1>21 DEF RestoreInv

LEMMA RestoreNext == RestoreInv /\ [RNext]_allVars => RestoreInv' /\ StepKeeps
<1> SUFFICES ASSUME RestoreInv, [RNext]_allVars PROVE RestoreInv' /\ StepKeeps
  OBVIOUS
<1>1. CASE UNCHANGED allVars
  <2>1. UNCHANGED vars /\ stored' = stored /\ stage' = stage /\ restores' = restores
    BY <1>1 DEF allVars, rvars
  <2>2. LiveSound' /\ StepKeeps /\ Continues(ops') /\ CutKnown \subseteq CutKnown' /\ published' = published
    BY <2>1, CoreStays
  <2>3. \A c \in stored' : CutSound(c)'
    BY <2>1, <2>2, CutsStay
  <2>4. \A d \in Devices : StageSound(d)'
    <3> TAKE d \in Devices
    <3>1. StageSound(d)
      BY DEF RestoreInv
    <3> QED BY <2>1, <2>2, <3>1, StageStays DEF StageSound
  <2> QED BY <2>1, <2>2, <2>3, <2>4 DEF RestoreInv
<1>2. CASE RNext
  BY <1>2, CoreStepSound, BuildCheckpointSound, StageCheckpointSound, ReconcileTailSound,
     TailReconciledSound, ActivateSound DEF RNext
<1> QED
  BY <1>1, <1>2

LEMMA RestoreInitSound == RInit => RestoreInv
<1> SUFFICES ASSUME RInit PROVE RestoreInv
  OBVIOUS
<1>1. ReplicaInv({}) /\ restores = 0 /\ stored = {} /\ stage = [d \in Devices |-> None]
  BY InvInit DEF RInit
<1>2. LiveSound
  BY <1>1 DEF LiveSound
<1>3. \A d \in Devices : StageSound(d)
  BY <1>1 DEF StageSound
<1>4. restores \in 0 .. MaxRestores
  BY <1>1, RestoreAssumption
<1> QED
  BY <1>1, <1>2, <1>3, <1>4 DEF RestoreInv

LEMMA RestoreIsEnough == RestoreInv => RestoredIsWhole
<1> SUFFICES ASSUME RestoreInv PROVE RestoredIsWhole
  OBVIOUS
<1>1. PICK kept : kept \subseteq CutKnown /\ (restores = 0 => kept = {}) /\ ReplicaInv(kept)
  BY DEF RestoreInv, LiveSound
<1>2. /\ TypeOK /\ HeadsAreMaximal /\ PurgedLeavesNothing /\ FrontierIsReceipts
      /\ NothingStranded /\ RevisionsAreClosed
      /\ restores = 0 => NoLostUpdate
  BY <1>1, InvIsEnough
<1>3. RTypeOK
  <2>1. \A c \in stored : c.known \subseteq DOMAIN ops
    BY DEF RestoreInv, CutSound
  <2>2. ASSUME NEW d \in Devices, stage[d] # None
        PROVE  /\ stage[d].rep.known \cup stage[d].rep.pending \subseteq DOMAIN ops
               /\ stage[d].rep.redacted \subseteq stage[d].rep.known
               /\ {stage[d].fresh, stage[d].checked} \subseteq BOOLEAN
    <3>1. /\ Sound(ops, stage[d].rep) /\ stage[d].fresh \in BOOLEAN /\ stage[d].checked \in BOOLEAN
      BY <2>2 DEF RestoreInv, StageSound
    <3> QED BY <3>1 DEF Sound, RowsSound
  <2> QED BY <1>2, <2>1, <2>2 DEF RTypeOK, RestoreInv
<1>4. StagedHeadsAreMaximal
  <2> SUFFICES ASSUME NEW d \in Devices, stage[d] # None, NEW e \in Entities,
                      ~stage[d].rep.head[e].purged
               PROVE  stage[d].rep.head[e].revs = Maximal(Of(stage[d].rep.known, e))
    BY DEF StagedHeadsAreMaximal
  <2>1. HeadsSound(ops, stage[d].rep)
    BY DEF RestoreInv, StageSound, Sound
  <2> DEFINE mine == OfIn(ops, stage[d].rep.known, e)
             h == stage[d].rep.head[e]
  <2>2. h = IF PurgesIn(ops, mine) # {} THEN [revs |-> PurgesIn(ops, mine), purged |-> TRUE]
            ELSE [revs |-> MaximalIn(ops, mine), purged |-> FALSE]
    BY <2>1 DEF HeadsSound
  <2>3. h.revs = MaximalIn(ops, mine)
    <3>1. ~h.purged
      OBVIOUS
    <3> HIDE DEF mine, h
    <3> QED BY <2>2, <3>1
  <2>4. MaximalIn(ops, mine) = Maximal(Of(stage[d].rep.known, e))
    BY DEF Maximal, MaximalIn, Of, OfIn
  <2> QED BY <2>3, <2>4
<1>5. WorkIsShared
  <2>1. \A d \in Devices : OwnSound(d, kept)
    BY <1>1 DEF ReplicaInv, DeviceSound
  <2> QED BY <1>1, <2>1 DEF WorkIsShared, OwnSound, CutKnown
<1> QED
  BY <1>2, <1>3, <1>4, <1>5 DEF RestoredIsWhole

\* What a replica holds is a function of the operations it received also where a
\* checkpoint is restored and takes its place: the staged replica obeys the
\* rules of the live one before it is made live, and what a device sealed is
\* queued, published or in a checkpoint.
THEOREM RestoreSafe == RSpec => []RestoredIsWhole
<1>1. RInit => RestoreInv
  BY RestoreInitSound
<1>2. RestoreInv /\ [RNext]_allVars => RestoreInv'
  BY RestoreNext
<1>3. RestoreInv => RestoredIsWhole
  BY RestoreIsEnough
<1> QED
  BY <1>1, <1>2, <1>3, PTL DEF RSpec

\* No step, the replacement of a replica by a staged one included, forgets an
\* operation or seals a second one under a sequence, and a local commit
\* replaces the heads it was prepared from.
THEOREM RestoreHistory == RSpec => RestoreKeepsHistory
<1>1. RInit => RestoreInv
  BY RestoreInitSound
<1>2. RestoreInv /\ [RNext]_allVars => RestoreInv'
  BY RestoreNext
<1>3. RestoreInv /\ [RNext]_allVars => [StepKeeps]_allVars
  BY RestoreNext
<1>4. RSpec => [][StepKeeps]_allVars
  BY <1>1, <1>2, <1>3, PTL DEF RSpec
<1> QED
  BY <1>4 DEF RestoreKeepsHistory, StepKeeps

-----------------------------------------------------------------------------
(* Publication: the inductive invariant. *)

PublisherRow ==
  [pub : Pubs, at : 1 .. Objects + 1, error : Blocked \cup {"unknown"}, reconcile : BOOLEAN,
   pc : {"attempt", "put", "verify", "verified", "finish", "failing"}]
Names == (SUBSET Packed) \X (1 .. Objects)

PublicationShape ==
  /\ queue \in [Packed -> {"absent", "free"} \cup Pubs]
  /\ redacted \in {{}, PackedBodies}
  /\ pub \in [Pubs -> PublicationRow \cup {NoRow}]
  /\ cut \in [Pubs -> SUBSET Packed] /\ DOMAIN run = Runs
  /\ DOMAIN uploaded \subseteq Names /\ overtaken \subseteq Names /\ faults \in 0 .. MaxFaults

\* What was verified is what lies before the next object: all, once confirmed.
PackSound(b) ==
  /\ b.verified = 1 .. b.next - 1 /\ b.tried \in {b.verified, 1 .. b.next}
  /\ b.state = "confirmed" => b.next = Objects + 1

\* A publisher is not ahead of the row, and has tried the object it is at; one
\* about to acknowledge has read them all.
Publisher(x, pubs, up, over) ==
  /\ x \in PublisherRow /\ pubs[x.pub] # NoRow /\ x.at <= pubs[x.pub].next
  /\ x.pc \in {"put", "verify", "verified"} => x.at \in pubs[x.pub].tried /\ x.at <= Objects
  /\ x.pc = "finish" =>
       /\ x.at = Objects + 1
       /\ \A i \in 1 .. Objects : LET y == <<pubs[x.pub].refs, i>>
                                IN  y \in over \/ (y \in DOMAIN up /\ up[y] = "good")

PublicationInv ==
  /\ PublicationShape /\ ReservationsMatch
  /\ redacted = {} => \A o \in Packed : o = PackedPurge => queue[o] = "absent"
  /\ \A p \in Pubs : pub[p] # NoRow => PackSound(pub[p]) /\ cut[p] = {}
  /\ \A r \in Runs : run[r] # NoRow => Publisher(run[r], pub, uploaded, overtaken)

\* What no step does to a row, and what it never does to the queue.
RowKeeps(b, b2) ==
  /\ b.refs \cap redacted # {} =>
       /\ b2.tried = b.tried /\ b2.verified = b.verified
       /\ b2.state = "confirmed" => b.state = "confirmed"
  /\ b.state \in {"confirmed", "retired_obsolete"} => b2 = b
  /\ b.state = "obsolete" => b2.state \in {"obsolete", "retired_obsolete"}
  /\ b.state \in Blocked \ {"obsolete"} => b2.state = b.state
QueueKeeps ==
  \A o \in Packed : queue[o] # "absent" /\ queue'[o] = "absent" =>
    \/ o \in redacted'
    \/ \E p \in Pubs : /\ queue[o] = p /\ pub'[p].state = "confirmed"
                      /\ \A i \in 1 .. Objects : Intact(Object(p, i)) \/ Object(p, i) \in overtaken
PublicationKeeps ==
  QueueKeeps /\ \A p \in Pubs : pub[p] # NoRow => RowKeeps(pub[p], pub'[p])

\* A row that goes on.
GoesOn(b, b2) ==
  /\ b2 \in PublicationRow /\ PackSound(b2) /\ RowKeeps(b, b2)
  /\ b2.refs = b.refs /\ b.tried \subseteq b2.tried /\ b.next <= b2.next

LEMMA PublicationInvInit == PublicationInit => PublicationInv
<1> SUFFICES ASSUME PublicationInit PROVE PublicationInv
  OBVIOUS
<1>1. PublicationShape
  <2>1. DOMAIN uploaded = {} /\ faults \in 0 .. MaxFaults
    BY PublicationAssumption DEF PublicationInit
  <2> QED BY <2>1 DEF PublicationInit, PublicationShape
<1>2. ReservationsMatch
  BY PublicationAssumption DEF PublicationInit, ReservationsMatch
<1> QED
  BY <1>1, <1>2 DEF PublicationInit, PublicationInv

LEMMA PublicationInvSuffices == PublicationInv => PublicationTypeOK /\ ReservationsMatch
<1> SUFFICES ASSUME PublicationInv PROVE PublicationTypeOK
  BY DEF PublicationInv
<1>1. PublicationShape /\ \A p \in Pubs : pub[p] # NoRow => pub[p] \in PublicationRow /\ PackSound(pub[p])
  BY DEF PublicationInv, PublicationShape
<1>2. ASSUME NEW p \in Pubs, pub[p] # NoRow
      PROVE  /\ pub[p].refs \subseteq Packed /\ pub[p].next \in 1 .. Objects + 1
             /\ pub[p].state \in Active \cup {"confirmed", "retired_obsolete"}
             /\ pub[p].verified = 1 .. pub[p].next - 1
             /\ pub[p].tried \in {pub[p].verified, 1 .. pub[p].next}
  BY <1>1, <1>2 DEF PackSound, PublicationRow
<1> QED
  BY <1>1, <1>2 DEF PublicationTypeOK, PublicationShape, Names

-----------------------------------------------------------------------------
(* The rows that steps write. *)

LEMMA RowStays ==
  ASSUME NEW b \in PublicationRow, PackSound(b)
  PROVE  GoesOn(b, b)
<1>1. b.next \in Nat
  BY PublicationAssumption DEF PublicationRow
<1> QED
  BY <1>1 DEF GoesOn, RowKeeps

LEMMA OpenStates ==
  /\ Open \cap Blocked = {} /\ Open \cap {"confirmed", "retired_obsolete"} = {}
  /\ Active \cap {"confirmed", "retired_obsolete"} = {} /\ "unknown" \in Open /\ "uploading" \in Open
  /\ Open \subseteq Active /\ Blocked \subseteq Active
BY DEF Open, Blocked, Active

LEMMA RowTried ==
  ASSUME NEW b \in PublicationRow, PackSound(b), b.state \in Open, b.refs \cap redacted = {},
         NEW i \in 1 .. Objects, b.next = i
  PROVE  LET b2 == [b EXCEPT !.state = "uploading", !.tried = @ \cup {i}]
         IN  GoesOn(b, b2) /\ b2.state \in Active /\ i \in b2.tried /\ b2.next = i
<1> DEFINE b2 == [b EXCEPT !.state = "uploading", !.tried = @ \cup {i}]
<1>1. /\ b2.refs = b.refs /\ b2.state = "uploading" /\ b2.next = b.next /\ b2.tried = b.tried \cup {i}
      /\ b2.verified = b.verified
  BY DEF PublicationRow
<1>2. i \in Nat /\ i \in 1 .. Objects + 1 /\ 1 .. i = (1 .. i - 1) \cup {i}
  BY PublicationAssumption
<1>3. b2 \in PublicationRow
  BY <1>2, OpenStates DEF PublicationRow
<1>4. PackSound(b2)
  <2>1. b.tried \in {1 .. i - 1, 1 .. i}
    BY DEF PackSound
  <2>2. b2.tried = 1 .. i
    BY <1>1, <1>2, <2>1
  <2> HIDE DEF b2
  <2> QED BY <1>1, <2>2 DEF PackSound
<1>5. b.state \notin {"confirmed", "retired_obsolete"} /\ b.state \notin Blocked /\ b.state # "obsolete"
  BY OpenStates DEF Blocked
<1>6. RowKeeps(b, b2)
  <2> HIDE DEF b2
  <2> QED BY <1>5 DEF RowKeeps
<1> HIDE DEF b2
<1>7. GoesOn(b, b2) /\ b2.state \in Active /\ i \in b2.tried /\ b2.next = i
  BY <1>1, <1>2, <1>3, <1>4, <1>6, OpenStates DEF GoesOn
<1> QED
  BY <1>7 DEF b2

LEMMA RowVerified ==
  ASSUME NEW b \in PublicationRow, PackSound(b), b.state \in Open, b.refs \cap redacted = {},
         NEW i \in 1 .. Objects, b.next = i, i \in b.tried
  PROVE  LET b2 == [b EXCEPT !.state = "uploading", !.next = i + 1, !.verified = @ \cup {i}]
         IN  GoesOn(b, b2) /\ b2.state \in Active /\ b2.next = i + 1
<1> DEFINE b2 == [b EXCEPT !.state = "uploading", !.next = i + 1, !.verified = @ \cup {i}]
<1>1. /\ b2.refs = b.refs /\ b2.state = "uploading" /\ b2.next = i + 1 /\ b2.tried = b.tried
      /\ b2.verified = b.verified \cup {i}
  BY DEF PublicationRow
<1>2. /\ i \in Nat /\ i + 1 \in 1 .. Objects + 1 /\ 1 .. i = (1 .. i - 1) \cup {i} /\ i + 1 - 1 = i
      /\ i \notin 1 .. i - 1
  BY PublicationAssumption
<1>3. b2 \in PublicationRow
  BY <1>2, OpenStates DEF PublicationRow
<1>4. PackSound(b2)
  <2>1. b.tried \in {1 .. i - 1, 1 .. i} /\ b.verified = 1 .. i - 1
    BY DEF PackSound
  <2>2. b2.verified = 1 .. i /\ b2.tried = 1 .. i
    BY <1>1, <1>2, <2>1
  <2> HIDE DEF b2
  <2> QED BY <1>1, <1>2, <2>2 DEF PackSound
<1>5. b.state \notin {"confirmed", "retired_obsolete"} /\ b.state \notin Blocked /\ b.state # "obsolete"
  BY OpenStates DEF Blocked
<1>6. RowKeeps(b, b2)
  <2> HIDE DEF b2
  <2> QED BY <1>5 DEF RowKeeps
<1> HIDE DEF b2
<1>7. GoesOn(b, b2) /\ b2.state \in Active /\ b2.next = i + 1
  BY <1>1, <1>2, <1>3, <1>4, <1>6, OpenStates DEF GoesOn
<1> QED
  BY <1>7 DEF b2

\* A new state alone, where the row allows it.
LEMMA RowDecided ==
  ASSUME NEW b \in PublicationRow, PackSound(b), NEW s \in Active \cup {"confirmed", "retired_obsolete"},
         \/ b.state \in Open /\ (s = "confirmed" => b.refs \cap redacted = {} /\ b.next = Objects + 1)
         \/ b.state = "obsolete" /\ s = "retired_obsolete"
  PROVE  GoesOn(b, [b EXCEPT !.state = s]) /\ [b EXCEPT !.state = s].state = s
<1> DEFINE b2 == [b EXCEPT !.state = s]
<1>1. b2 \in PublicationRow
  BY DEF PublicationRow
<1>2. /\ b2.refs = b.refs /\ b2.state = s /\ b2.next = b.next /\ b2.tried = b.tried
      /\ b2.verified = b.verified /\ b.next \in Nat
  BY PublicationAssumption DEF PublicationRow
<1> HIDE DEF b2
<1>3. PackSound(b2)
  BY <1>2 DEF PackSound
<1>4. RowKeeps(b, b2)
  BY <1>2, OpenStates DEF RowKeeps, Blocked
<1>5. GoesOn(b, b2) /\ b2.state = s
  BY <1>1, <1>2, <1>3, <1>4 DEF GoesOn
<1> QED
  BY <1>5 DEF b2

-----------------------------------------------------------------------------
(* Frames: the step of a publisher, and every other. *)

RowsGoOn ==
  /\ pub' \in [Pubs -> PublicationRow \cup {NoRow}]
  /\ \A p \in Pubs : pub[p] = NoRow => pub'[p] = NoRow
  /\ \A p \in Pubs : pub[p] # NoRow =>
       pub'[p] # NoRow /\ GoesOn(pub[p], pub'[p]) /\ (pub'[p].state \in Active <=> pub[p].state \in Active)

LEMMA RowsStay == PublicationInv /\ pub' = pub => RowsGoOn
BY RowStays DEF PublicationInv, PublicationShape, RowsGoOn

LEMMA RowWritten ==
  ASSUME PublicationInv, NEW p \in Pubs, pub[p] # NoRow, NEW b2, GoesOn(pub[p], b2),
         b2.state \in Active <=> pub[p].state \in Active, pub' = [pub EXCEPT ![p] = b2]
  PROVE  RowsGoOn /\ pub'[p] = b2
<1>1. pub \in [Pubs -> PublicationRow \cup {NoRow}] /\ b2 \in PublicationRow /\ b2 # NoRow
  BY PublicationAssumption DEF PublicationInv, PublicationShape, GoesOn
<1>2. pub'[p] = b2 /\ pub' \in [Pubs -> PublicationRow \cup {NoRow}]
      /\ \A q \in Pubs \ {p} : pub'[q] = pub[q]
  BY <1>1
<1>3. \A q \in Pubs \ {p} : pub[q] # NoRow => GoesOn(pub[q], pub'[q])
  BY <1>1, <1>2, RowStays DEF PublicationInv
<1> QED
  BY <1>1, <1>2, <1>3 DEF RowsGoOn

\* A publisher stays right while rows go on and nothing it read is lost unseen.
LEMMA PublisherStays ==
  ASSUME NEW x, Publisher(x, pub, uploaded, overtaken), PublicationShape,
         NEW up, NEW over, NEW pubs,
         \A p \in Pubs : pub[p] # NoRow => pubs[p] # NoRow /\ GoesOn(pub[p], pubs[p]),
         x.pc = "finish" =>
           \A y \in Names : y \in overtaken \/ (y \in DOMAIN uploaded /\ uploaded[y] = "good")
                            => y \in over \/ (y \in DOMAIN up /\ up[y] = "good")
  PROVE  Publisher(x, pubs, up, over)
<1> DEFINE b == pub[x.pub]
           b2 == pubs[x.pub]
<1>1. x \in PublisherRow /\ x.pub \in Pubs /\ b # NoRow /\ x.at <= b.next
  BY DEF Publisher, PublisherRow
<1>2. b2 # NoRow /\ GoesOn(b, b2) /\ b \in PublicationRow
  BY <1>1 DEF PublicationShape
<1>3. b.next \in Nat /\ b2.next \in Nat /\ x.at \in Nat /\ b.refs \in SUBSET Packed
  BY <1>1, <1>2, PublicationAssumption DEF GoesOn, PublicationRow, PublisherRow
<1>4. x.at <= b2.next /\ b2.refs = b.refs /\ b.tried \subseteq b2.tried
  <2>1. b.next <= b2.next
    BY <1>2 DEF GoesOn
  <2> HIDE DEF b, b2
  <2> QED BY <1>1, <1>2, <1>3, <2>1 DEF GoesOn
<1>5. x.pc \in {"put", "verify", "verified"} => x.at \in b2.tried /\ x.at <= Objects
  BY <1>4 DEF Publisher
<1>6. ASSUME x.pc = "finish", NEW i \in 1 .. Objects
      PROVE  <<b2.refs, i>> \in over \/ (<<b2.refs, i>> \in DOMAIN up /\ up[<<b2.refs, i>>] = "good")
  <2>1. <<b.refs, i>> \in Names
    BY <1>3 DEF Names
  <2>2. <<b.refs, i>> \in overtaken
          \/ (<<b.refs, i>> \in DOMAIN uploaded /\ uploaded[<<b.refs, i>>] = "good")
    BY <1>6 DEF Publisher
  <2> QED BY <1>4, <1>6, <2>1, <2>2
<1> QED
  BY <1>1, <1>2, <1>4, <1>5, <1>6 DEF Publisher

LEMMA PublisherStep ==
  ASSUME PublicationInv, NEW r \in Runs, NEW x, run' = [run EXCEPT ![r] = x],
         x # NoRow => Publisher(x, pub', uploaded', overtaken'),
         RowsGoOn, uploaded' = uploaded \/ \E y \in Names : PutObject(y),
         UNCHANGED <<queue, redacted, overtaken, cut, faults>>
  PROVE  PublicationInv' /\ PublicationKeeps
<1>1. PublicationShape'
  <2>1. DOMAIN run' = Runs /\ pub' \in [Pubs -> PublicationRow \cup {NoRow}]
    BY DEF PublicationInv, PublicationShape, RowsGoOn
  <2>2. DOMAIN uploaded' \subseteq Names
    BY DEF PublicationInv, PublicationShape, PutObject
  <2> QED BY <2>1, <2>2 DEF PublicationInv, PublicationShape
<1>2. ReservationsMatch'
  <2> SUFFICES ASSUME NEW o \in Packed, NEW p \in Pubs
               PROVE  (queue[o] = p <=> /\ pub'[p] # NoRow /\ o \in pub'[p].refs \ redacted
                                        /\ pub'[p].state \in Active)
    BY DEF ReservationsMatch
  <2>1. queue[o] = p <=> /\ pub[p] # NoRow /\ o \in pub[p].refs \ redacted /\ pub[p].state \in Active
    BY DEF PublicationInv, ReservationsMatch
  <2> QED BY <2>1 DEF RowsGoOn, GoesOn
<1>3. \A p \in Pubs : pub'[p] # NoRow => PackSound(pub'[p]) /\ cut'[p] = {}
  BY DEF PublicationInv, RowsGoOn, GoesOn
<1>4. \A q \in Runs : run'[q] # NoRow => Publisher(run'[q], pub', uploaded', overtaken')
  <2> TAKE q \in Runs
  <2>1. CASE q = r
    BY <2>1 DEF PublicationInv, PublicationShape
  <2>2. CASE q # r
    <3>1. run'[q] = run[q]
      BY <2>2
    <3>2. \A y : y \in DOMAIN uploaded => y \in DOMAIN uploaded' /\ uploaded'[y] = uploaded[y]
      BY DEF PutObject
    <3>3. \A p \in Pubs : pub[p] # NoRow => pub'[p] # NoRow /\ GoesOn(pub[p], pub'[p])
      BY DEF RowsGoOn
    <3> QED BY <3>1, <3>2, <3>3, PublisherStays DEF PublicationInv
  <2> QED BY <2>1, <2>2
<1>5. PublicationKeeps
  BY DEF PublicationKeeps, QueueKeeps, RowsGoOn, GoesOn
<1> QED
  BY <1>1, <1>2, <1>3, <1>4, <1>5 DEF PublicationInv

\* A publisher that only moves on, or goes.
LEMMA PublisherMoves ==
  ASSUME PublicationInv, NEW r \in Runs, NEW x, run' = [run EXCEPT ![r] = x],
         x # NoRow => Publisher(x, pub, uploaded', overtaken),
         uploaded' = uploaded \/ \E y \in Names : PutObject(y),
         UNCHANGED <<pub, queue, redacted, overtaken, cut, faults>>
  PROVE  PublicationInv' /\ PublicationKeeps
BY RowsStay, PublisherStep

LEMMA StopSound ==
  ASSUME PublicationInv, NEW r \in Runs, Stop(r),
         UNCHANGED <<pub, queue, redacted, uploaded, overtaken, cut, faults>>
  PROVE  PublicationInv' /\ PublicationKeeps
BY PublisherMoves DEF Stop

\* What is known of a publisher and its row.
LEMMA PublisherIs ==
  ASSUME PublicationInv, NEW r \in Runs, run[r] # NoRow
  PROVE  /\ run[r] \in PublisherRow /\ run[r].pub \in Pubs /\ pub[run[r].pub] # NoRow
         /\ pub[run[r].pub] \in PublicationRow /\ PackSound(pub[run[r].pub])
         /\ Publisher(run[r], pub, uploaded, overtaken) /\ run[r].at <= pub[run[r].pub].next
         /\ run[r].at \in Nat /\ pub[run[r].pub].next \in Nat /\ Objects \in Nat
<1>1. Publisher(run[r], pub, uploaded, overtaken) /\ run[r] \in PublisherRow
  BY DEF PublicationInv, Publisher
<1>2. run[r].pub \in Pubs /\ pub[run[r].pub] # NoRow /\ run[r].at \in 1 .. Objects + 1
      /\ run[r].at <= pub[run[r].pub].next
  BY <1>1 DEF Publisher, PublisherRow
<1>3. pub[run[r].pub] \in PublicationRow /\ PackSound(pub[run[r].pub])
  BY <1>2 DEF PublicationInv, PublicationShape
<1>4. Objects \in Nat /\ pub[run[r].pub].next \in 1 .. Objects + 1
  BY <1>3, PublicationAssumption DEF PublicationRow
<1> QED
  BY <1>1, <1>2, <1>3, <1>4

\* A publisher's row moved to a step that promises nothing.
LEMMA PublisherMoved ==
  ASSUME NEW x \in PublisherRow, NEW pubs, NEW up, NEW over, Publisher(x, pubs, up, over)
  PROVE  /\ \A e \in Blocked \cup {"unknown"} :
              Publisher([x EXCEPT !.pc = "failing", !.error = e], pubs, up, over)
         /\ x.pc \in {"put", "verify", "verified"} => \A c \in {"put", "verify", "verified"} :
              Publisher([x EXCEPT !.pc = c], pubs, up, over)
         /\ \A k \in 1 .. Objects + 1 : k <= pubs[x.pub].next =>
              Publisher([x EXCEPT !.pc = "attempt", !.at = k], pubs, up, over)
<1>1. ASSUME NEW e \in Blocked \cup {"unknown"}
      PROVE  Publisher([x EXCEPT !.pc = "failing", !.error = e], pubs, up, over)
  <2> DEFINE y == [x EXCEPT !.pc = "failing", !.error = e]
  <2>1. y \in PublisherRow /\ y.pub = x.pub /\ y.at = x.at /\ y.pc = "failing"
    BY DEF PublisherRow
  <2> HIDE DEF y
  <2>2. Publisher(y, pubs, up, over)
    BY <2>1 DEF Publisher
  <2> QED BY <2>2 DEF y
<1>2. ASSUME x.pc \in {"put", "verify", "verified"}, NEW c \in {"put", "verify", "verified"}
      PROVE  Publisher([x EXCEPT !.pc = c], pubs, up, over)
  <2> DEFINE y == [x EXCEPT !.pc = c]
  <2>1. y \in PublisherRow /\ y.pub = x.pub /\ y.at = x.at /\ y.pc = c
    BY DEF PublisherRow
  <2> HIDE DEF y
  <2>2. Publisher(y, pubs, up, over)
    BY <1>2, <2>1 DEF Publisher
  <2> QED BY <2>2 DEF y
<1>3. ASSUME NEW k \in 1 .. Objects + 1, k <= pubs[x.pub].next
      PROVE  Publisher([x EXCEPT !.pc = "attempt", !.at = k], pubs, up, over)
  <2> DEFINE y == [x EXCEPT !.pc = "attempt", !.at = k]
  <2>1. y \in PublisherRow /\ y.pub = x.pub /\ y.at = k /\ y.pc = "attempt"
    BY DEF PublisherRow
  <2> HIDE DEF y
  <2>2. Publisher(y, pubs, up, over)
    BY <1>3, <2>1 DEF Publisher
  <2> QED BY <2>2 DEF y
<1> QED
  BY <1>1, <1>2, <1>3

LEMMA FailSound ==
  ASSUME PublicationInv, NEW r \in Runs, run[r] # NoRow, NEW e \in Blocked \cup {"unknown"},
         FailWith(r, e), uploaded' = uploaded \/ \E y \in Names : PutObject(y),
         UNCHANGED <<pub, queue, redacted, overtaken, cut, faults>>
  PROVE  PublicationInv' /\ PublicationKeeps
<1> DEFINE x == [run[r] EXCEPT !.pc = "failing", !.error = e]
<1>1. run' = [run EXCEPT ![r] = x]
  BY DEF FailWith
<1>2. /\ run[r] \in PublisherRow
      /\ run[r].pub \in Pubs /\ pub[run[r].pub] # NoRow /\ run[r].at <= pub[run[r].pub].next
  BY PublisherIs
<1>3. Publisher(x, pub, uploaded', overtaken)
  <2>1. x \in PublisherRow /\ x.pub = run[r].pub /\ x.at = run[r].at /\ x.pc = "failing"
    BY <1>2 DEF PublisherRow
  <2> HIDE DEF x
  <2> QED BY <1>2, <2>1 DEF Publisher
<1> HIDE DEF x
<1> QED
  BY <1>1, <1>3, PublisherMoves

LEMMA StartSound ==
  ASSUME PublicationInv, NEW r \in Runs, NEW p \in Pubs, Start(r, p)
  PROVE  PublicationInv' /\ PublicationKeeps
<1> DEFINE c == IF CheckCut(p) THEN "attempt" ELSE "failing"
           x == [pub |-> p, at |-> 1, pc |-> c, error |-> "obsolete", reconcile |-> FALSE]
<1>1. run' = [run EXCEPT ![r] = x] /\ pub[p] # NoRow
      /\ UNCHANGED <<pub, queue, redacted, uploaded, overtaken, cut, faults>>
  BY DEF Start
<1>2. c \in {"attempt", "failing"}
  OBVIOUS
<1> HIDE DEF c
<1>3. x \in PublisherRow /\ x.pub = p /\ x.at = 1 /\ x.pc = c
  BY <1>2, PublicationAssumption DEF PublisherRow, Blocked
<1>4. pub[p].next \in Nat /\ 1 <= pub[p].next
  BY <1>1, PublicationAssumption DEF PublicationInv, PublicationShape, PublicationRow
<1> HIDE DEF x
<1>5. Publisher(x, pub, uploaded, overtaken)
  BY <1>1, <1>2, <1>3, <1>4 DEF Publisher
<1> QED
  BY <1>1, <1>5, PublisherMoves

\* The row is open and its bodies are there, where a step writes it.
LEMMA RowIsOpen ==
  ASSUME NEW b \in PublicationRow, b.state \notin Blocked \cup {"retired_obsolete"}, b.state # "confirmed"
  PROVE  b.state \in Open
BY DEF PublicationRow, Active

LEMMA AttemptSound ==
  ASSUME PublicationInv, NEW r \in Runs, Attempt(r)
  PROVE  PublicationInv' /\ PublicationKeeps
<1> DEFINE p == run[r].pub
           i == run[r].at
<1>1. run[r] # NoRow /\ run[r].pc = "attempt" /\ i <= Objects
      /\ UNCHANGED <<queue, redacted, uploaded, overtaken, cut, faults>>
  BY DEF Attempt
<1>2. /\ run[r] \in PublisherRow /\ p \in Pubs /\ pub[p] # NoRow /\ pub[p] \in PublicationRow
      /\ PackSound(pub[p]) /\ Publisher(run[r], pub, uploaded, overtaken) /\ i <= pub[p].next
      /\ i \in Nat /\ pub[p].next \in Nat /\ Objects \in Nat
  BY <1>1, PublisherIs
<1>3. i \in 1 .. Objects /\ i + 1 \in 1 .. Objects + 1
  BY <1>1, <1>2 DEF PublisherRow
<1>4. CASE Refused(p)
  BY <1>1, <1>4, StopSound DEF Attempt
<1>5. CASE ~Refused(p) /\ (pub[p].state = "confirmed" \/ pub[p].next > i)
  <2>1. run' = [run EXCEPT ![r].at = i + 1] /\ pub' = pub
    BY <1>5 DEF Attempt
  <2> DEFINE x == [run[r] EXCEPT !.pc = "attempt", !.at = i + 1]
  <2>2. i + 1 <= pub[p].next
    <3>1. CASE pub[p].next > i
      <4> HIDE DEF p, i
      <4> QED BY <3>1, <1>2
    <3>2. CASE pub[p].state = "confirmed"
      <4>1. pub[p].next = Objects + 1
        BY <1>2, <3>2 DEF PackSound
      <4> HIDE DEF p, i
      <4> QED BY <1>1, <1>2, <4>1
    <3> QED BY <3>1, <3>2, <1>5
  <2>3. Publisher(x, pub, uploaded, overtaken)
    BY <1>2, <1>3, <2>2, PublisherMoved
  <2>4. run' = [run EXCEPT ![r] = x]
    <3>1. [run[r] EXCEPT !.at = i + 1] = x
      BY <1>1, <1>2 DEF PublisherRow
    <3> QED BY <2>1, <3>1
  <2> HIDE DEF x
  <2> QED BY <1>1, <2>1, <2>3, <2>4, PublisherMoves
<1>6. CASE ~Refused(p) /\ ~(pub[p].state = "confirmed" \/ pub[p].next > i) /\ ~CheckCut(p)
  BY <1>1, <1>6, FailSound DEF Attempt, Blocked
<1>7. CASE ~Refused(p) /\ ~(pub[p].state = "confirmed" \/ pub[p].next > i) /\ CheckCut(p)
  <2> DEFINE b2 == [pub[p] EXCEPT !.state = "uploading", !.tried = @ \cup {i}]
             x == [run[r] EXCEPT !.pc = "put", !.reconcile = i \in pub[p].tried]
  <2>1. run' = [run EXCEPT ![r] = x] /\ pub' = [pub EXCEPT ![p] = b2]
    BY <1>2, <1>7 DEF Attempt, PublicationInv, PublicationShape
  <2>2. pub[p].state \in Open /\ pub[p].refs \cap redacted = {}
    BY <1>2, <1>7, RowIsOpen DEF Refused, CheckCut, CutIntact, HasBody
  <2>3. pub[p].next = i
    <3> HIDE DEF p, i
    <3> QED BY <1>2, <1>7
  <2>4. GoesOn(pub[p], b2) /\ b2.state \in Active /\ i \in b2.tried /\ b2.next = i
    BY <1>2, <1>3, <2>2, <2>3, RowTried
  <2>5. pub[p].state \in Active
    BY <2>2, OpenStates
  <2>6. x \in PublisherRow /\ x.pub = p /\ x.at = i /\ x.pc = "put"
    <3> DEFINE t == i \in pub[p].tried
    <3>1. t \in BOOLEAN
      OBVIOUS
    <3> HIDE DEF t
    <3>2. [run[r] EXCEPT !.pc = "put", !.reconcile = t] \in PublisherRow
      BY <1>2, <3>1 DEF PublisherRow
    <3> QED BY <1>2, <3>2 DEF t, PublisherRow
  <2> HIDE DEF b2, x
  <2>7. RowsGoOn /\ pub'[p] = b2
    BY <1>2, <2>1, <2>4, <2>5, RowWritten
  <2>8. Publisher(x, pub', uploaded', overtaken')
    <3>1. b2 # NoRow
      BY <2>4, PublicationAssumption DEF GoesOn
    <3> HIDE DEF p, i
    <3> QED BY <1>1, <1>2, <2>4, <2>6, <2>7, <3>1 DEF Publisher
  <2> QED BY <1>1, <2>1, <2>7, <2>8, PublisherStep
<1> QED
  BY <1>4, <1>5, <1>6, <1>7

\* A publisher at an object goes to the next step on it.
LEMMA GotoSound ==
  ASSUME PublicationInv, NEW r \in Runs, run[r] # NoRow, run[r].pc \in {"put", "verify", "verified"},
         NEW c \in {"put", "verify", "verified"}, Goto(r, c),
         uploaded' = uploaded \/ \E y \in Names : PutObject(y),
         UNCHANGED <<pub, queue, redacted, overtaken, cut, faults>>
  PROVE  PublicationInv' /\ PublicationKeeps
<1> DEFINE x == [run[r] EXCEPT !.pc = c]
<1>1. run' = [run EXCEPT ![r] = x]
  BY DEF Goto
<1>2. /\ run[r] \in PublisherRow /\ run[r].pub \in Pubs /\ pub[run[r].pub] # NoRow
      /\ run[r].at <= pub[run[r].pub].next /\ Publisher(run[r], pub, uploaded, overtaken)
  BY PublisherIs
<1>3. Publisher(x, pub, uploaded', overtaken)
  <2>1. x \in PublisherRow /\ x.pub = run[r].pub /\ x.at = run[r].at /\ x.pc = c
    BY <1>2 DEF PublisherRow
  <2> HIDE DEF x
  <2> QED BY <1>2, <2>1 DEF Publisher
<1> HIDE DEF x
<1> QED
  BY <1>1, <1>3, PublisherMoves

LEMMA UploadSound ==
  ASSUME PublicationInv, NEW r \in Runs, Upload(r)
  PROVE  PublicationInv' /\ PublicationKeeps
<1> DEFINE y == Object(run[r].pub, run[r].at)
<1>1. /\ run[r] # NoRow /\ run[r].pc = "put"
      /\ UNCHANGED <<pub, queue, redacted, overtaken, cut, faults>>
  BY DEF Upload
<1>2. y \in Names
  <2>1. /\ run[r] \in PublisherRow /\ run[r].pub \in Pubs /\ pub[run[r].pub] \in PublicationRow
        /\ Publisher(run[r], pub, uploaded, overtaken)
    BY <1>1, PublisherIs
  <2>2. run[r].at \in 1 .. Objects /\ pub[run[r].pub].refs \in SUBSET Packed
    <3>1. run[r].at <= Objects /\ run[r].at \in 1 .. Objects + 1
      BY <1>1, <2>1 DEF Publisher, PublisherRow
    <3> QED BY <2>1, <3>1, PublicationAssumption DEF PublicationRow
  <2> QED BY <2>2 DEF Names, Object
<1>3. uploaded' = uploaded \/ \E z \in Names : PutObject(z)
  BY <1>2 DEF Upload
<1>4. CASE \E e \in Blocked \cup {"unknown"} : FailWith(r, e)
  BY <1>1, <1>3, <1>4, FailSound
<1>5. CASE Goto(r, "verify")
  BY <1>1, <1>3, <1>5, GotoSound
<1> QED
  BY <1>4, <1>5 DEF Upload, Blocked

LEMMA ReadBackSound ==
  ASSUME PublicationInv, NEW r \in Runs, ReadBack(r)
  PROVE  PublicationInv' /\ PublicationKeeps
<1>1. /\ run[r] # NoRow /\ run[r].pc = "verify"
      /\ UNCHANGED <<pub, queue, redacted, uploaded, overtaken, cut, faults>>
  BY DEF ReadBack
<1>2. CASE \E e \in Blocked \cup {"unknown"} : FailWith(r, e)
  BY <1>1, <1>2, FailSound
<1>3. CASE Goto(r, "verified")
  BY <1>1, <1>3, GotoSound
<1>4. \A z : Damage(z) \in Blocked
  BY DEF Damage, Blocked
<1> QED
  BY <1>2, <1>3, <1>4 DEF ReadBack

LEMMA VerifiedSound ==
  ASSUME PublicationInv, NEW r \in Runs, Verified(r)
  PROVE  PublicationInv' /\ PublicationKeeps
<1> DEFINE p == run[r].pub
           i == run[r].at
           x == [run[r] EXCEPT !.pc = "attempt", !.at = i + 1]
<1>1. run[r] # NoRow /\ run[r].pc = "verified"
      /\ UNCHANGED <<queue, redacted, uploaded, overtaken, cut, faults>>
  BY DEF Verified
<1>2. /\ run[r] \in PublisherRow /\ p \in Pubs /\ pub[p] # NoRow /\ pub[p] \in PublicationRow
      /\ PackSound(pub[p]) /\ Publisher(run[r], pub, uploaded, overtaken) /\ i <= pub[p].next
      /\ i \in Nat /\ pub[p].next \in Nat /\ Objects \in Nat
  BY <1>1, PublisherIs
<1>3. i \in 1 .. Objects /\ i + 1 \in 1 .. Objects + 1 /\ i \in pub[p].tried
  <2>1. i <= Objects /\ i \in 1 .. Objects + 1 /\ i \in pub[p].tried
    BY <1>1, <1>2 DEF Publisher, PublisherRow
  <2> QED BY <2>1, <1>2
<1>4. CASE Refused(p)
  BY <1>1, <1>4, StopSound DEF Verified
<1>5. CASE ~Refused(p) /\ (pub[p].state = "confirmed" \/ pub[p].next > i)
  <2>1. run' = [run EXCEPT ![r] = x] /\ pub' = pub
    BY <1>5 DEF Verified
  <2>2. i + 1 <= pub[p].next
    <3>1. CASE pub[p].next > i
      <4> HIDE DEF p, i
      <4> QED BY <3>1, <1>2
    <3>2. CASE pub[p].state = "confirmed"
      <4>1. pub[p].next = Objects + 1
        BY <1>2, <3>2 DEF PackSound
      <4> HIDE DEF p, i
      <4> QED BY <1>3, <1>2, <4>1
    <3> QED BY <3>1, <3>2, <1>5
  <2>3. Publisher(x, pub, uploaded, overtaken)
    BY <1>2, <1>3, <2>2, PublisherMoved
  <2> HIDE DEF x
  <2> QED BY <1>1, <2>1, <2>3, PublisherMoves
<1>6. CASE ~Refused(p) /\ ~(pub[p].state = "confirmed" \/ pub[p].next > i) /\ ~CheckCut(p)
  BY <1>1, <1>6, FailSound DEF Verified, Blocked
<1>7. CASE ~Refused(p) /\ ~(pub[p].state = "confirmed" \/ pub[p].next > i) /\ CheckCut(p)
  <2> DEFINE b2 == [pub[p] EXCEPT !.state = "uploading", !.next = i + 1, !.verified = @ \cup {i}]
  <2>1. run' = [run EXCEPT ![r] = x] /\ pub' = [pub EXCEPT ![p] = b2]
    BY <1>2, <1>7 DEF Verified, PublicationInv, PublicationShape
  <2>2. pub[p].state \in Open /\ pub[p].refs \cap redacted = {}
    BY <1>2, <1>7, RowIsOpen DEF Refused, CheckCut, CutIntact, HasBody
  <2>3. pub[p].next = i
    <3> HIDE DEF p, i
    <3> QED BY <1>2, <1>7
  <2>4. GoesOn(pub[p], b2) /\ b2.state \in Active /\ b2.next = i + 1
    BY <1>2, <1>3, <2>2, <2>3, RowVerified
  <2>5. pub[p].state \in Active
    BY <2>2, OpenStates
  <2>6. x \in PublisherRow /\ x.pub = p /\ x.at = i + 1 /\ x.pc = "attempt"
    BY <1>2, <1>3 DEF PublisherRow
  <2> HIDE DEF b2, x
  <2>7. RowsGoOn /\ pub'[p] = b2
    BY <1>2, <2>1, <2>4, <2>5, RowWritten
  <2>8. Publisher(x, pub', uploaded', overtaken')
    <3>1. b2 # NoRow
      BY <2>4, PublicationAssumption DEF GoesOn
    <3> HIDE DEF p, i
    <3> QED BY <1>1, <1>2, <2>4, <2>6, <2>7, <3>1 DEF Publisher
  <2> QED BY <1>1, <2>1, <2>7, <2>8, PublisherStep
<1> QED
  BY <1>4, <1>5, <1>6, <1>7

LEMMA RecheckSound ==
  ASSUME PublicationInv, NEW r \in Runs, Recheck(r)
  PROVE  PublicationInv' /\ PublicationKeeps
<1> DEFINE p == run[r].pub
           x == [run[r] EXCEPT !.pc = "finish"]
<1>1. run[r] # NoRow /\ run[r].pc = "attempt" /\ run[r].at = Objects + 1
      /\ UNCHANGED <<queue, redacted, pub, uploaded, overtaken, cut, faults>>
  BY DEF Recheck
<1>2. /\ run[r] \in PublisherRow /\ p \in Pubs /\ pub[p] # NoRow /\ run[r].at <= pub[p].next
  BY <1>1, PublisherIs
<1>3. CASE AllReadable(p) /\ Goto(r, "finish")
  <2>1. run' = [run EXCEPT ![r] = x]
    BY <1>3 DEF Goto
  <2>2. x \in PublisherRow /\ x.pub = p /\ x.at = Objects + 1 /\ x.pc = "finish"
    BY <1>1, <1>2 DEF PublisherRow
  <2>3. \A i \in 1 .. Objects : <<pub[p].refs, i>> \in DOMAIN uploaded
                                /\ uploaded[<<pub[p].refs, i>>] = "good"
    BY <1>3 DEF AllReadable, Intact, Object
  <2> HIDE DEF x
  <2>4. Publisher(x, pub, uploaded, overtaken)
    BY <1>1, <1>2, <2>2, <2>3 DEF Publisher
  <2> QED BY <1>1, <2>1, <2>4, PublisherMoves
<1>4. CASE \E e \in Blocked \cup {"unknown"} : FailWith(r, e)
  BY <1>1, <1>4, FailSound
<1>5. \A z : Damage(z) \in Blocked
  BY DEF Damage, Blocked
<1> QED
  BY <1>3, <1>4, <1>5 DEF Recheck

LEMMA FailedSound ==
  ASSUME PublicationInv, NEW r \in Runs, Failed(r)
  PROVE  PublicationInv' /\ PublicationKeeps
<1> DEFINE p == run[r].pub
           b2 == [pub[p] EXCEPT !.state = run[r].error]
<1>1. run[r] # NoRow /\ Stop(r) /\ UNCHANGED <<queue, redacted, uploaded, overtaken, cut, faults>>
  BY DEF Failed
<1>2. /\ run[r] \in PublisherRow /\ p \in Pubs /\ pub[p] # NoRow /\ pub[p] \in PublicationRow
      /\ PackSound(pub[p])
  BY <1>1, PublisherIs
<1>3. CASE Decided(p)
  BY <1>1, <1>3, StopSound DEF Failed
<1>4. CASE ~Decided(p)
  <2>1. pub' = [pub EXCEPT ![p] = b2]
    BY <1>4 DEF Failed
  <2>2. run[r].error \in Active /\ run[r].error # "confirmed"
    BY <1>2, OpenStates DEF PublisherRow
  <2>3. pub[p].state \in Open
    BY <1>2, <1>4, RowIsOpen DEF Decided
  <2>4. GoesOn(pub[p], b2) /\ b2.state = run[r].error
    BY <1>2, <2>2, <2>3, RowDecided
  <2>5. pub[p].state \in Active
    BY <2>3, OpenStates
  <2> HIDE DEF b2
  <2>6. RowsGoOn
    BY <1>2, <2>1, <2>2, <2>4, <2>5, RowWritten
  <2> QED BY <1>1, <2>6, PublisherStep DEF Stop
<1> QED
  BY <1>3, <1>4

-----------------------------------------------------------------------------
(* The steps that move the queue, or nobody's publisher. *)

\* The publishers that stay are right about the rows that stay.
LEMMA QueueStep ==
  ASSUME PublicationInv, PublicationShape', ReservationsMatch', QueueKeeps,
         redacted' = {} => \A o \in Packed : o = PackedPurge => queue'[o] = "absent",
         \A p \in Pubs : pub[p] # NoRow => pub'[p] # NoRow /\ GoesOn(pub[p], pub'[p]),
         \A p \in Pubs : pub'[p] # NoRow => PackSound(pub'[p]) /\ cut'[p] = {},
         \A r \in Runs : run'[r] # NoRow => run'[r] = run[r],
         UNCHANGED <<uploaded, overtaken>>
  PROVE  PublicationInv' /\ PublicationKeeps
<1>1. \A r \in Runs : run'[r] # NoRow => Publisher(run'[r], pub', uploaded', overtaken')
  BY PublisherStays DEF PublicationInv
<1>2. PublicationKeeps
  BY DEF PublicationKeeps, GoesOn
<1> QED
  BY <1>1, <1>2 DEF PublicationInv

\* What is known of a row.
LEMMA RowIs ==
  ASSUME PublicationInv, NEW p \in Pubs, pub[p] # NoRow
  PROVE  pub[p] \in PublicationRow /\ PackSound(pub[p]) /\ cut[p] = {} /\ GoesOn(pub[p], pub[p])
<1>1. pub[p] \in PublicationRow /\ PackSound(pub[p]) /\ cut[p] = {}
  BY DEF PublicationInv, PublicationShape
<1> QED
  BY <1>1, RowStays

\* A publication that is over: its reservations go, and nothing else does.
LEMMA ReservationsEnd ==
  ASSUME PublicationInv, NEW p \in Pubs, pub[p] # NoRow, pub[p].state \in Active,
         NEW b2 \in PublicationRow, b2.state \notin Active, NEW v \in {"absent", "free"},
         pub' = [pub EXCEPT ![p] = b2], redacted' = redacted,
         queue' = [o \in Packed |-> IF queue[o] = p THEN v ELSE queue[o]]
  PROVE  /\ ReservationsMatch' /\ queue' \in [Packed -> {"absent", "free"} \cup Pubs]
         /\ redacted' = {} => \A o \in Packed : o = PackedPurge => queue'[o] = "absent"
         /\ pub' \in [Pubs -> PublicationRow \cup {NoRow}] /\ pub'[p] = b2
         /\ \A q \in Pubs \ {p} : pub'[q] = pub[q]
<1>1. pub \in [Pubs -> PublicationRow \cup {NoRow}] /\ queue \in [Packed -> {"absent", "free"} \cup Pubs]
  BY DEF PublicationInv, PublicationShape
<1>2. pub' \in [Pubs -> PublicationRow \cup {NoRow}] /\ pub'[p] = b2
      /\ \A q \in Pubs \ {p} : pub'[q] = pub[q]
  BY <1>1
<1>3. v \notin Pubs /\ p # "absent"
  BY PublicationAssumption
<1>4. ReservationsMatch'
  <2> SUFFICES ASSUME NEW o \in Packed, NEW q \in Pubs
               PROVE  (queue'[o] = q <=> /\ pub'[q] # NoRow /\ o \in pub'[q].refs \ redacted
                                         /\ pub'[q].state \in Active)
    BY DEF ReservationsMatch
  <2>1. queue[o] = q <=> /\ pub[q] # NoRow /\ o \in pub[q].refs \ redacted /\ pub[q].state \in Active
    BY DEF PublicationInv, ReservationsMatch
  <2>2. CASE q = p
    <3>1. queue'[o] # p
      BY <1>3
    <3> QED BY <1>2, <2>2, <3>1
  <2>3. CASE q # p
    <3>1. queue'[o] = q <=> queue[o] = q
      BY <1>3, <2>3
    <3> QED BY <1>2, <2>1, <2>3, <3>1
  <2> QED BY <2>2, <2>3
<1>5. queue' \in [Packed -> {"absent", "free"} \cup Pubs]
  BY <1>1
<1>6. redacted' = {} => \A o \in Packed : o = PackedPurge => queue'[o] = "absent"
  BY <1>3 DEF PublicationInv
<1> QED
  BY <1>2, <1>4, <1>5, <1>6

LEMMA FinishSound ==
  ASSUME PublicationInv, NEW r \in Runs, Finish(r)
  PROVE  PublicationInv' /\ PublicationKeeps
<1> DEFINE p == run[r].pub
           b2 == [pub[p] EXCEPT !.state = "confirmed"]
<1>1. run[r] # NoRow /\ run[r].pc = "finish" /\ UNCHANGED <<redacted, uploaded, overtaken, cut, faults>>
  BY DEF Finish
<1>2. /\ run[r] \in PublisherRow /\ p \in Pubs /\ pub[p] # NoRow /\ pub[p] \in PublicationRow
      /\ PackSound(pub[p]) /\ Publisher(run[r], pub, uploaded, overtaken)
      /\ run[r].at <= pub[p].next /\ pub[p].next \in Nat /\ Objects \in Nat
  BY <1>1, PublisherIs
<1>3. CASE Refused(p) \/ pub[p].state = "confirmed"
  BY <1>1, <1>3, StopSound DEF Finish
<1>4. CASE ~(Refused(p) \/ pub[p].state = "confirmed") /\ ~CheckCut(p)
  BY <1>1, <1>4, FailSound DEF Finish, Blocked
<1>5. CASE ~(Refused(p) \/ pub[p].state = "confirmed") /\ CheckCut(p)
  <2>1. /\ pub' = [pub EXCEPT ![p] = b2] /\ run' = [run EXCEPT ![r] = NoRow]
        /\ queue' = [o \in Packed |-> IF queue[o] = p THEN "absent" ELSE queue[o]]
    BY <1>5 DEF Finish, Stop, Reserved
  <2>2. pub[p].state \in Open /\ pub[p].refs \cap redacted = {}
    BY <1>2, <1>5, RowIsOpen DEF Refused, CheckCut, CutIntact, HasBody
  <2>3. pub[p].next = Objects + 1
    <3>1. run[r].at = Objects + 1 /\ pub[p].next \in 1 .. Objects + 1
      BY <1>1, <1>2 DEF Publisher, PublicationRow
    <3> HIDE DEF p
    <3> QED BY <1>2, <3>1
  <2>4. GoesOn(pub[p], b2) /\ b2.state = "confirmed"
    BY <1>2, <2>2, <2>3, RowDecided
  <2>5. pub[p].state \in Active /\ b2.state \notin Active /\ b2 \in PublicationRow /\ PackSound(b2)
    BY <2>2, <2>4, OpenStates DEF GoesOn
  <2>6. \A i \in 1 .. Objects : Intact(Object(p, i)) \/ Object(p, i) \in overtaken
    BY <1>1, <1>2 DEF Publisher, Intact, Object
  <2> HIDE DEF b2, p
  <2>7. /\ ReservationsMatch' /\ queue' \in [Packed -> {"absent", "free"} \cup Pubs]
        /\ redacted' = {} => \A o \in Packed : o = PackedPurge => queue'[o] = "absent"
        /\ pub' \in [Pubs -> PublicationRow \cup {NoRow}] /\ pub'[p] = b2
        /\ \A q \in Pubs \ {p} : pub'[q] = pub[q]
    BY <1>1, <1>2, <2>1, <2>5, ReservationsEnd
  <2>8. QueueKeeps
    BY <1>2, <2>1, <2>4, <2>6, <2>7 DEF QueueKeeps
  <2>9. PublicationShape' /\ \A q \in Runs : run'[q] # NoRow => run'[q] = run[q]
    BY <1>1, <2>1, <2>7 DEF PublicationInv, PublicationShape
  <2>10. \A q \in Pubs : pub[q] # NoRow => pub'[q] # NoRow /\ GoesOn(pub[q], pub'[q])
    BY <2>4, <2>5, <2>7, RowIs, PublicationAssumption
  <2>11. \A q \in Pubs : pub'[q] # NoRow => PackSound(pub'[q]) /\ cut'[q] = {}
    BY <1>1, <1>2, <2>5, <2>7, RowIs
  <2> QED BY <1>1, <2>7, <2>8, <2>9, <2>10, <2>11, QueueStep
<1> QED
  BY <1>3, <1>4, <1>5

LEMMA RetireSound ==
  ASSUME PublicationInv, NEW p \in Pubs, Retire(p)
  PROVE  PublicationInv' /\ PublicationKeeps
<1> DEFINE b2 == [pub[p] EXCEPT !.state = "retired_obsolete"]
<1>1. pub[p] # NoRow /\ pub[p].state = "obsolete" /\ UNCHANGED <<redacted, uploaded, overtaken, cut, run, faults>>
  BY DEF Retire
<1>2. pub[p] \in PublicationRow /\ PackSound(pub[p]) /\ pub[p].state \in Active
  BY <1>1, RowIs, OpenStates DEF Blocked
<1>3. pub' = [pub EXCEPT ![p] = b2]
  BY DEF Retire
<1>4. queue' = [o \in Packed |-> IF queue[o] = p THEN "free" ELSE queue[o]]
  <2>1. \A o \in Packed : queue[o] = p <=> o \in Survivors(p)
    BY <1>1, <1>2 DEF PublicationInv, ReservationsMatch, Survivors
  <2> QED BY <2>1 DEF Retire
<1>5. GoesOn(pub[p], b2) /\ b2.state = "retired_obsolete"
  BY <1>1, <1>2, RowDecided
<1>6. b2 \in PublicationRow /\ PackSound(b2) /\ b2.state \notin Active
  BY <1>5, OpenStates DEF GoesOn
<1> HIDE DEF b2
<1>7. /\ ReservationsMatch' /\ queue' \in [Packed -> {"absent", "free"} \cup Pubs]
      /\ redacted' = {} => \A o \in Packed : o = PackedPurge => queue'[o] = "absent"
      /\ pub' \in [Pubs -> PublicationRow \cup {NoRow}] /\ pub'[p] = b2
      /\ \A q \in Pubs \ {p} : pub'[q] = pub[q]
  BY <1>1, <1>2, <1>3, <1>4, <1>6, ReservationsEnd
<1>8. QueueKeeps
  BY <1>4 DEF QueueKeeps
<1>9. PublicationShape'
  BY <1>1, <1>7 DEF PublicationInv, PublicationShape
<1>10. \A q \in Pubs : pub[q] # NoRow => pub'[q] # NoRow /\ GoesOn(pub[q], pub'[q])
  BY <1>5, <1>6, <1>7, RowIs, PublicationAssumption
<1>11. \A q \in Pubs : pub'[q] # NoRow => PackSound(pub'[q]) /\ cut'[q] = {}
  BY <1>1, <1>6, <1>7, RowIs
<1> QED
  BY <1>1, <1>7, <1>8, <1>9, <1>10, <1>11, QueueStep

LEMMA SelectSound ==
  ASSUME PublicationInv, NEW p \in Pubs, Select(p)
  PROVE  PublicationInv' /\ PublicationKeeps
<1>1. pub[p] = NoRow /\ UNCHANGED <<queue, redacted, pub, uploaded, overtaken, run, faults>>
  BY DEF Select
<1>2. PICK S \in SUBSET Packed : cut' = [cut EXCEPT ![p] = S]
  BY DEF Select
<1>3. cut' \in [Pubs -> SUBSET Packed] /\ \A q \in Pubs \ {p} : cut'[q] = cut[q]
  BY <1>2 DEF PublicationInv, PublicationShape
<1>4. PublicationShape' /\ ReservationsMatch'
  BY <1>1, <1>3 DEF PublicationInv, PublicationShape, ReservationsMatch
<1>5. \A q \in Pubs : pub'[q] # NoRow => PackSound(pub'[q]) /\ cut'[q] = {}
  BY <1>1, <1>3, RowIs
<1>6. QueueKeeps
  BY <1>1 DEF QueueKeeps
<1>7. \A q \in Pubs : pub[q] # NoRow => pub'[q] # NoRow /\ GoesOn(pub[q], pub'[q])
  BY <1>1, RowIs
<1>8. redacted' = {} => \A o \in Packed : o = PackedPurge => queue'[o] = "absent"
  BY <1>1 DEF PublicationInv
<1> QED
  BY <1>1, <1>4, <1>5, <1>6, <1>7, <1>8, QueueStep

LEMMA ReserveSound ==
  ASSUME PublicationInv, NEW p \in Pubs, Reserve(p)
  PROVE  PublicationInv' /\ PublicationKeeps
<1> DEFINE b2 == [refs |-> cut[p], state |-> "prepared", next |-> 1, tried |-> {}, verified |-> {}]
<1>1. cut[p] # {} /\ cut' = [cut EXCEPT ![p] = {}] /\ UNCHANGED <<redacted, uploaded, overtaken, run, faults>>
  BY DEF Reserve
<1>2. pub[p] = NoRow /\ PublicationShape /\ cut[p] \in SUBSET Packed
  BY <1>1, RowIs DEF PublicationInv, PublicationShape
<1>3. cut' \in [Pubs -> SUBSET Packed] /\ cut'[p] = {} /\ \A q \in Pubs \ {p} : cut'[q] = cut[q]
  BY <1>1, <1>2 DEF PublicationShape
<1>4. CASE ~Unreserved(cut[p])
  <2>1. UNCHANGED <<queue, pub>>
    BY <1>4 DEF Reserve
  <2>2. PublicationShape' /\ ReservationsMatch'
    BY <1>1, <1>3, <2>1 DEF PublicationInv, PublicationShape, ReservationsMatch
  <2>3. \A q \in Pubs : pub'[q] # NoRow => PackSound(pub'[q]) /\ cut'[q] = {}
    BY <1>3, <2>1, RowIs
  <2>4. QueueKeeps
    BY <2>1 DEF QueueKeeps
  <2>5. \A q \in Pubs : pub[q] # NoRow => pub'[q] # NoRow /\ GoesOn(pub[q], pub'[q])
    BY <2>1, RowIs
  <2>6. redacted' = {} => \A o \in Packed : o = PackedPurge => queue'[o] = "absent"
    BY <1>1, <2>1 DEF PublicationInv
  <2> QED BY <1>1, <2>2, <2>3, <2>4, <2>5, <2>6, QueueStep
<1>5. CASE Unreserved(cut[p])
  <2>1. /\ pub' = [pub EXCEPT ![p] = b2]
        /\ queue' = [o \in Packed |-> IF o \in cut[p] THEN p ELSE queue[o]]
    BY <1>5 DEF Reserve
  <2>2. /\ b2.refs = cut[p] /\ b2.state = "prepared" /\ b2.next = 1 /\ b2.tried = {} /\ b2.verified = {}
        /\ b2 \in PublicationRow
    BY <1>2, PublicationAssumption DEF PublicationRow, Active, Open
  <2>3. PackSound(b2) /\ b2.state \in Active /\ b2 # NoRow
    <3>1. 1 .. 1 - 1 = {}
      OBVIOUS
    <3> HIDE DEF b2
    <3> QED BY <2>2, <3>1, PublicationAssumption DEF PackSound, Active, Open
  <2> HIDE DEF b2
  <2>4. /\ pub' \in [Pubs -> PublicationRow \cup {NoRow}] /\ pub'[p] = b2
        /\ \A q \in Pubs \ {p} : pub'[q] = pub[q]
    BY <1>2, <2>1, <2>2 DEF PublicationShape
  <2>5. queue' \in [Packed -> {"absent", "free"} \cup Pubs]
    BY <1>2, <2>1 DEF PublicationShape
  <2>6. \A o \in cut[p] : queue[o] = "free" /\ queue[o] # "absent" /\ o \notin redacted
    BY <1>5 DEF Unreserved, CutIntact, HasBody
  <2>7. p # "absent" /\ "free" \notin Pubs
    BY PublicationAssumption
  <2>8. ReservationsMatch'
    <3> SUFFICES ASSUME NEW o \in Packed, NEW q \in Pubs
                 PROVE  (queue'[o] = q <=> /\ pub'[q] # NoRow /\ o \in pub'[q].refs \ redacted
                                           /\ pub'[q].state \in Active)
      BY <1>1 DEF ReservationsMatch
    <3>1. queue[o] = q <=> /\ pub[q] # NoRow /\ o \in pub[q].refs \ redacted /\ pub[q].state \in Active
      BY DEF PublicationInv, ReservationsMatch
    <3>2. CASE q = p
      <4>1. queue'[o] = p <=> o \in cut[p]
        BY <1>2, <2>1, <3>1, <3>2
      <4> QED BY <2>2, <2>3, <2>4, <2>6, <3>2, <4>1
    <3>3. CASE q # p
      <4>1. queue'[o] = q <=> queue[o] = q
        BY <2>1, <2>6, <2>7, <3>3
      <4> QED BY <2>4, <3>1, <3>3, <4>1
    <3> QED BY <3>2, <3>3
  <2>9. PublicationShape'
    BY <1>1, <1>2, <1>3, <2>4, <2>5 DEF PublicationShape
  <2>10. \A q \in Pubs : pub'[q] # NoRow => PackSound(pub'[q]) /\ cut'[q] = {}
    BY <1>3, <2>3, <2>4, RowIs
  <2>11. QueueKeeps
    BY <2>1, <2>7 DEF QueueKeeps
  <2>12. \A q \in Pubs : pub[q] # NoRow => pub'[q] # NoRow /\ GoesOn(pub[q], pub'[q])
    BY <1>2, <2>4, RowIs
  <2>13. redacted' = {} => \A o \in Packed : o = PackedPurge => queue'[o] = "absent"
    BY <1>1, <2>1, <2>6 DEF PublicationInv
  <2> QED BY <1>1, <2>8, <2>9, <2>10, <2>11, <2>12, <2>13, QueueStep
<1> QED
  BY <1>4, <1>5

LEMMA PurgeEntitySound ==
  ASSUME PublicationInv, PurgeEntity
  PROVE  PublicationInv' /\ PublicationKeeps
<1>1. /\ redacted = {} /\ redacted' = PackedBodies
      /\ queue' = [o \in Packed |-> IF o \in PackedBodies THEN "absent"
                                    ELSE IF o = PackedPurge THEN "free" ELSE queue[o]]
      /\ UNCHANGED <<pub, uploaded, overtaken, cut, run, faults>>
  BY DEF PurgeEntity
<1>2. PublicationShape /\ queue \in [Packed -> {"absent", "free"} \cup Pubs]
  BY DEF PublicationInv, PublicationShape
<1>3. PublicationShape'
  <2>1. queue' \in [Packed -> {"absent", "free"} \cup Pubs]
    BY <1>1, <1>2
  <2> QED BY <1>1, <1>2, <2>1 DEF PublicationShape
<1>4. "absent" \notin Pubs /\ "free" \notin Pubs /\ redacted' # {}
  BY <1>1, PublicationAssumption
<1>5. ReservationsMatch'
  <2> SUFFICES ASSUME NEW o \in Packed, NEW q \in Pubs
               PROVE  (queue'[o] = q <=> /\ pub[q] # NoRow /\ o \in pub[q].refs \ PackedBodies
                                         /\ pub[q].state \in Active)
    BY <1>1 DEF ReservationsMatch
  <2>1. queue[o] = q <=> /\ pub[q] # NoRow /\ o \in pub[q].refs /\ pub[q].state \in Active
    BY <1>1 DEF PublicationInv, ReservationsMatch
  <2>2. CASE o \in PackedBodies
    BY <1>1, <1>4, <2>2
  <2>3. CASE o \notin PackedBodies /\ o = PackedPurge
    <3>1. queue[o] = "absent" /\ queue'[o] = "free"
      BY <1>1, <2>3 DEF PublicationInv
    <3> QED BY <1>4, <2>1, <3>1
  <2>4. CASE o \notin PackedBodies /\ o # PackedPurge
    <3>1. queue'[o] = queue[o]
      BY <1>1, <2>4
    <3> QED BY <2>1, <2>4, <3>1
  <2> QED BY <2>2, <2>3, <2>4
<1>6. QueueKeeps
  BY <1>1 DEF QueueKeeps
<1>7. \A q \in Pubs : pub'[q] # NoRow => PackSound(pub'[q]) /\ cut'[q] = {}
  BY <1>1, RowIs
<1>8. \A q \in Pubs : pub[q] # NoRow => pub'[q] # NoRow /\ GoesOn(pub[q], pub'[q])
  BY <1>1, RowIs
<1> QED
  BY <1>1, <1>3, <1>4, <1>5, <1>6, <1>7, <1>8, QueueStep

\* An object lost while somebody is about to acknowledge is remembered.
LEMMA StoreFailsSound ==
  ASSUME PublicationInv, NEW z \in DOMAIN uploaded, StoreFails(z)
  PROVE  PublicationInv' /\ PublicationKeeps
<1>1. /\ faults < MaxFaults /\ faults' = faults + 1 /\ UNCHANGED <<queue, redacted, pub, cut, run>>
      /\ overtaken' = IF \E r \in Runs : run[r] # NoRow /\ run[r].pc = "finish"
                      THEN overtaken \cup {z} ELSE overtaken
  BY DEF StoreFails
<1>2. DOMAIN uploaded' \subseteq DOMAIN uploaded
      /\ \A y \in DOMAIN uploaded : y # z => y \in DOMAIN uploaded' /\ uploaded'[y] = uploaded[y]
  BY DEF StoreFails
<1>3. PublicationShape /\ PublicationShape'
  <2>1. faults' \in 0 .. MaxFaults
    BY <1>1, PublicationAssumption DEF PublicationInv, PublicationShape
  <2> QED BY <1>1, <1>2, <2>1 DEF PublicationInv, PublicationShape
<1>4. \A q \in Pubs : pub[q] # NoRow => pub'[q] # NoRow /\ GoesOn(pub[q], pub'[q])
  BY <1>1, RowIs
<1>5. ASSUME NEW r \in Runs, run'[r] # NoRow
      PROVE  Publisher(run'[r], pub', uploaded', overtaken')
  <2>1. Publisher(run[r], pub, uploaded, overtaken) /\ run'[r] = run[r]
    BY <1>1, <1>5 DEF PublicationInv
  <2>2. run[r].pc = "finish" =>
          \A y \in Names : y \in overtaken \/ (y \in DOMAIN uploaded /\ uploaded[y] = "good")
                           => y \in overtaken' \/ (y \in DOMAIN uploaded' /\ uploaded'[y] = "good")
    BY <1>1, <1>2, <1>5, <2>1
  <2> QED BY <1>3, <1>4, <2>1, <2>2, PublisherStays
<1>6. ReservationsMatch' /\ \A q \in Pubs : pub'[q] # NoRow => PackSound(pub'[q]) /\ cut'[q] = {}
  BY <1>1, RowIs DEF PublicationInv, ReservationsMatch
<1>7. PublicationKeeps
  BY <1>1, <1>4 DEF PublicationKeeps, QueueKeeps, GoesOn
<1>8. redacted' = {} => \A o \in Packed : o = PackedPurge => queue'[o] = "absent"
  BY <1>1 DEF PublicationInv
<1> QED
  BY <1>3, <1>5, <1>6, <1>7, <1>8 DEF PublicationInv

LEMMA PublishersDieSound ==
  ASSUME PublicationInv, PublishersDie
  PROVE  PublicationInv' /\ PublicationKeeps
<1>1. /\ faults < MaxFaults /\ faults' = faults + 1 /\ UNCHANGED <<queue, redacted, pub, uploaded, overtaken>>
      /\ cut' = [p \in Pubs |-> {}] /\ run' = [r \in Runs |-> NoRow]
  BY DEF PublishersDie
<1>2. PublicationShape'
  <2>1. faults' \in 0 .. MaxFaults
    BY <1>1, PublicationAssumption DEF PublicationInv, PublicationShape
  <2> QED BY <1>1, <2>1 DEF PublicationInv, PublicationShape
<1>3. \A q \in Pubs : pub[q] # NoRow => pub'[q] # NoRow /\ GoesOn(pub[q], pub'[q])
  BY <1>1, RowIs
<1>4. \A q \in Pubs : pub'[q] # NoRow => PackSound(pub'[q]) /\ cut'[q] = {}
  BY <1>1, RowIs
<1>5. ReservationsMatch' /\ QueueKeeps
  BY <1>1 DEF PublicationInv, ReservationsMatch, QueueKeeps
<1>6. \A r \in Runs : run'[r] # NoRow => run'[r] = run[r]
  BY <1>1
<1>7. redacted' = {} => \A o \in Packed : o = PackedPurge => queue'[o] = "absent"
  BY <1>1 DEF PublicationInv
<1> QED
  BY <1>1, <1>2, <1>3, <1>4, <1>5, <1>6, <1>7, QueueStep

LEMMA PublicationInvNext == PublicationInv /\ [PublicationNext]_publicationVars => PublicationInv' /\ PublicationKeeps
<1> SUFFICES ASSUME PublicationInv, [PublicationNext]_publicationVars PROVE PublicationInv' /\ PublicationKeeps
  OBVIOUS
<1>1. CASE UNCHANGED publicationVars
  <2>1. UNCHANGED <<queue, redacted, pub, uploaded, overtaken, cut, run, faults>>
    BY <1>1 DEF publicationVars
  <2>2. PublicationShape' /\ ReservationsMatch' /\ QueueKeeps
    BY <2>1 DEF PublicationInv, PublicationShape, ReservationsMatch, QueueKeeps
  <2>3. redacted' = {} => \A o \in Packed : o = PackedPurge => queue'[o] = "absent"
    BY <2>1 DEF PublicationInv
  <2>4. \A q \in Pubs : pub[q] # NoRow =>
          pub'[q] # NoRow /\ GoesOn(pub[q], pub'[q]) /\ PackSound(pub'[q]) /\ cut'[q] = {}
    BY <2>1, RowIs
  <2> QED BY <2>1, <2>2, <2>3, <2>4, QueueStep
<1>2. CASE \E p \in Pubs : Select(p) \/ Reserve(p) \/ Retire(p)
  BY <1>2, SelectSound, ReserveSound, RetireSound
<1>3. CASE \E r \in Runs, p \in Pubs : Start(r, p)
  BY <1>3, StartSound
<1>4. CASE \E r \in Runs : Attempt(r) \/ Upload(r) \/ ReadBack(r) \/ Verified(r)
  BY <1>4, AttemptSound, UploadSound, ReadBackSound, VerifiedSound
<1>5. CASE \E r \in Runs : Recheck(r) \/ Finish(r) \/ Failed(r)
  BY <1>5, RecheckSound, FinishSound, FailedSound
<1>6. CASE PurgeEntity
  BY <1>6, PurgeEntitySound
<1>7. CASE \E z \in DOMAIN uploaded : StoreFails(z)
  BY <1>7, StoreFailsSound
<1>8. CASE PublishersDie
  BY <1>8, PublishersDieSound
<1> QED
  BY <1>1, <1>2, <1>3, <1>4, <1>5, <1>6, <1>7, <1>8 DEF PublicationNext

\* Queue and publication rows belong together, an operation leaves the queue
\* only when all that carries it was read back or its body is purged, nothing
\* purged is sent and what is over stays over, whatever dies or is lost.
THEOREM PublicationSafe == PublicationSpec => PublicationIsSafe
<1>1. PublicationInv /\ PublicationKeeps =>
        /\ (\A o \in Packed : queue[o] # "absent" /\ queue'[o] = "absent" =>
              \/ o \in redacted'
              \/ \E p \in Pubs : /\ queue[o] = p /\ pub'[p].state = "confirmed"
                                /\ \A i \in 1 .. Objects : Intact(Object(p, i)) \/ Object(p, i) \in overtaken)
        /\ (\A p \in Pubs : pub[p] # NoRow /\ pub[p].refs \cap redacted # {} =>
              /\ pub'[p].tried = pub[p].tried /\ pub'[p].verified = pub[p].verified
              /\ pub'[p].state = "confirmed" => pub[p].state = "confirmed")
        /\ (\A p \in Pubs : pub[p] # NoRow =>
              /\ pub[p].state \in {"confirmed", "retired_obsolete"} => pub'[p] = pub[p]
              /\ pub[p].state = "obsolete" => pub'[p].state \in {"obsolete", "retired_obsolete"}
              /\ pub[p].state \in Blocked \ {"obsolete"} => pub'[p].state = pub[p].state)
  BY DEF PublicationKeeps, QueueKeeps, RowKeeps
<1> QED
  BY <1>1, PublicationInvInit, PublicationInvSuffices, PublicationInvNext, PTL
  DEF PublicationSpec, PublicationIsSafe, QueueLeavesSafely, NothingPurgedIsSent, OutcomesAreFinal
==============================================================================
