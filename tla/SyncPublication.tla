--------------------------- MODULE SyncPublication ---------------------------
(***************************************************************************)
(* Publication of a replica's outbox (core/browser-native-sync/            *)
(* publications.js).  A publication reserves queued operations, uploads    *)
(* the immutable objects packed from them one after the other, verifies    *)
(* each by reading it back, and only then takes the operations off the     *)
(* queue.  Several publishers may work on one publication, operations may  *)
(* be purged at any point, the store may lose, damage or refuse, and every *)
(* publisher may die between two transactions.                             *)
(*                                                                         *)
(* An object is named by its content: the packed operations and its place  *)
(* among the objects of the pack, the last of which is the descriptor      *)
(* that refers to the others.                                              *)
(***************************************************************************)
EXTENDS Naturals, FiniteSets

CONSTANTS
  Packed,       \* operations of the replica
  PackedBodies, \* those of one entity, which may be purged
  PackedPurge,  \* the operation that purges it
  Pubs, Runs,   \* publication identities, publishers
  Objects,      \* how many objects a pack has
  MaxFaults,    \* bound: losses and damages of the store, crashes
  NoRow

\* A row of publications; what it can be in.
Blocked == {"blocked_integrity", "blocked_remote_missing", "obsolete"}
Open == {"prepared", "uploading", "unknown"}
Active == Open \cup Blocked   \* states with a publicationActive row
PublicationRow ==
  [refs : SUBSET Packed, state : Active \cup {"confirmed", "retired_obsolete"},
   next : 1 .. Objects + 1, tried : SUBSET (1 .. Objects + 1), verified : SUBSET (1 .. Objects)]

ASSUME PublicationAssumption ==
  /\ Objects \in Nat /\ MaxFaults \in Nat
  /\ PackedBodies # {} /\ Pubs \cap {"absent", "free"} = {}
  /\ NoRow \notin PublicationRow

VARIABLES
  queue,     \* outbox: "absent", "free" or the publication that reserved the row
  redacted,  \* operations whose body is purged
  pub,       \* publication rows
  uploaded,  \* shared store: "good" or "bad" objects
  overtaken, \* history: objects lost when an acknowledgement had already read them
  cut,       \* in memory: the operations a preparation selected
  run,       \* in memory: the publishers
  faults

publicationVars == <<queue, redacted, pub, uploaded, overtaken, cut, run, faults>>

Object(p, i) == <<pub[p].refs, i>>

PublicationInit ==
  /\ queue = [o \in Packed |-> IF o = PackedPurge THEN "absent" ELSE "free"]
  /\ redacted = {}
  /\ pub = [p \in Pubs |-> NoRow]
  /\ uploaded = [x \in {} |-> "good"]
  /\ overtaken = {}
  /\ cut = [p \in Pubs |-> {}]
  /\ run = [r \in Runs |-> NoRow]
  /\ faults = 0

-----------------------------------------------------------------------------
(* prepare: select, seal outside the transaction, reserve *)

HasBody(o) == o \notin redacted

\* The reserved rows still hold the bodies the blueprint was made of.
CutIntact(S) == \A o \in S : queue[o] # "absent" /\ HasBody(o)

Select(p) ==
  /\ pub[p] = NoRow /\ cut[p] = {}
  /\ \E S \in SUBSET {o \in Packed : queue[o] = "free"} \ {{}} : cut' = [cut EXCEPT ![p] = S]
  /\ UNCHANGED <<queue, redacted, pub, uploaded, overtaken, run, faults>>

Unreserved(S) == CutIntact(S) /\ \A o \in S : queue[o] = "free"

Reserve(p) ==
  /\ cut[p] # {}
  /\ cut' = [cut EXCEPT ![p] = {}]
  /\ IF Unreserved(cut[p])
     THEN /\ queue' = [o \in Packed |-> IF o \in cut[p] THEN p ELSE queue[o]]
          /\ pub' = [pub EXCEPT ![p] = [refs |-> cut[p], state |-> "prepared", next |-> 1,
                                        tried |-> {}, verified |-> {}]]
     ELSE UNCHANGED <<queue, pub>>
  /\ UNCHANGED <<redacted, uploaded, overtaken, run, faults>>

-----------------------------------------------------------------------------
(* publish *)

CheckCut(p) == CutIntact(pub[p].refs) /\ \A o \in pub[p].refs : queue[o] = p

Goto(r, pc) == run' = [run EXCEPT ![r].pc = pc]
FailWith(r, state) == run' = [run EXCEPT ![r] = [@ EXCEPT !.pc = "failing", !.error = state]]
Stop(r) == run' = [run EXCEPT ![r] = NoRow]

Start(r, p) ==
  /\ run[r] = NoRow /\ pub[p] # NoRow
  /\ pub[p].state \in Open
  /\ run' = [run EXCEPT ![r] =
               [pub |-> p, at |-> 1, pc |-> IF CheckCut(p) THEN "attempt" ELSE "failing",
                error |-> "obsolete", reconcile |-> FALSE]]
  /\ UNCHANGED <<queue, redacted, pub, uploaded, overtaken, cut, faults>>

\* What every transaction of a run looks at first (#bound).
Refused(p) == pub[p].state \in Blocked \cup {"retired_obsolete"}

\* #attempt: another publisher may have verified the object already.
Attempt(r) ==
  LET p == run[r].pub
      i == run[r].at
  IN  /\ run[r] # NoRow /\ run[r].pc = "attempt" /\ i <= Objects
      /\ IF Refused(p) THEN Stop(r) /\ UNCHANGED pub
         ELSE IF pub[p].state = "confirmed" \/ pub[p].next > i
              THEN run' = [run EXCEPT ![r].at = i + 1] /\ UNCHANGED pub
         ELSE IF ~CheckCut(p) THEN FailWith(r, "obsolete") /\ UNCHANGED pub
         ELSE /\ pub' = [pub EXCEPT ![p].state = "uploading", ![p].tried = @ \cup {i}]
              /\ run' = [run EXCEPT ![r] = [@ EXCEPT !.pc = "put",
                                                     !.reconcile = i \in pub[p].tried]]
      /\ UNCHANGED <<queue, redacted, uploaded, overtaken, cut, faults>>

PutObject(x) == uploaded' = [y \in DOMAIN uploaded \cup {x} |-> IF y \in DOMAIN uploaded THEN uploaded[y] ELSE "good"]

\* A retry looks first whether the earlier attempt arrived.  The store keeps
\* what it has; its answer, or the upload itself, may be lost.
Upload(r) ==
  LET x == Object(run[r].pub, run[r].at)
  IN  /\ run[r] # NoRow /\ run[r].pc = "put"
      /\ \/ /\ run[r].reconcile /\ x \in DOMAIN uploaded
            /\ IF uploaded[x] = "bad" THEN FailWith(r, "blocked_integrity") ELSE Goto(r, "verify")
            /\ UNCHANGED uploaded
         \/ /\ ~(run[r].reconcile /\ x \in DOMAIN uploaded)
            /\ PutObject(x)
            /\ Goto(r, "verify")
         \/ /\ PutObject(x) \/ UNCHANGED uploaded
            /\ FailWith(r, "unknown")
      /\ UNCHANGED <<queue, redacted, pub, overtaken, cut, faults>>

\* Reading the object back, then #verified.
Intact(x) == x \in DOMAIN uploaded /\ uploaded[x] = "good"
Damage(x) == IF x \in DOMAIN uploaded THEN "blocked_integrity" ELSE "blocked_remote_missing"

ReadBack(r) ==
  LET x == Object(run[r].pub, run[r].at)
  IN  /\ run[r] # NoRow /\ run[r].pc = "verify"
      /\ \/ IF Intact(x) THEN Goto(r, "verified") ELSE FailWith(r, Damage(x))
         \/ FailWith(r, "unknown")
      /\ UNCHANGED <<queue, redacted, pub, uploaded, overtaken, cut, faults>>

\* mutant: one answer verifies the whole pack
VerifiesAhead(r) ==
  /\ run[r] # NoRow /\ run[r].pc = "verified"
  /\ pub' = [pub EXCEPT ![run[r].pub].next = Objects + 1]
  /\ run' = [run EXCEPT ![r] = [@ EXCEPT !.pc = "attempt", !.at = Objects + 1]]
  /\ UNCHANGED <<queue, redacted, uploaded, overtaken, cut, faults>>
Verified(r) ==
  LET p == run[r].pub
      i == run[r].at
  IN  /\ run[r] # NoRow /\ run[r].pc = "verified"
      /\ IF Refused(p) THEN Stop(r) /\ UNCHANGED pub
         ELSE IF pub[p].state = "confirmed" \/ pub[p].next > i
              THEN /\ run' = [run EXCEPT ![r] = [@ EXCEPT !.pc = "attempt", !.at = i + 1]]
                   /\ UNCHANGED pub
         ELSE IF ~CheckCut(p) THEN FailWith(r, "obsolete") /\ UNCHANGED pub
         ELSE /\ pub' = [pub EXCEPT ![p].state = "uploading", ![p].next = i + 1,
                                    ![p].verified = @ \cup {i}]
              /\ run' = [run EXCEPT ![r] = [@ EXCEPT !.pc = "attempt", !.at = i + 1]]
      /\ UNCHANGED <<queue, redacted, uploaded, overtaken, cut, faults>>

\* The complete cut is read again: an acknowledgement must not bless what the
\* store lost since this publisher, or another one, verified it.
AllReadable(p) == \A i \in 1 .. Objects : Intact(Object(p, i))

Recheck(r) ==
  LET p == run[r].pub
  IN  /\ run[r] # NoRow /\ run[r].pc = "attempt" /\ run[r].at = Objects + 1
      /\ \/ AllReadable(p) /\ Goto(r, "finish")
         \/ ~AllReadable(p) /\ \E i \in 1 .. Objects : ~Intact(Object(p, i)) /\ FailWith(r, Damage(Object(p, i)))
         \/ FailWith(r, "unknown")
      /\ UNCHANGED <<queue, redacted, pub, uploaded, overtaken, cut, faults>>

Reserved(p) == {o \in Packed : queue[o] = p}

Finish(r) ==
  LET p == run[r].pub
  IN  /\ run[r] # NoRow /\ run[r].pc = "finish"
      /\ IF Refused(p) \/ pub[p].state = "confirmed" THEN Stop(r) /\ UNCHANGED <<queue, pub>>
         ELSE IF ~CheckCut(p) THEN FailWith(r, "obsolete") /\ UNCHANGED <<queue, pub>>
         ELSE /\ queue' = [o \in Packed |-> IF o \in Reserved(p) THEN "absent" ELSE queue[o]]
              /\ pub' = [pub EXCEPT ![p].state = "confirmed"]
              /\ Stop(r)
      /\ UNCHANGED <<redacted, uploaded, overtaken, cut, faults>>

\* #failed is a transaction of its own: the outcome may be decided by then.
OnlyConfirmed(p) == pub[p].state = "confirmed"   \* mutant
Decided(p) == pub[p].state \in Blocked \cup {"confirmed", "retired_obsolete"}

Failed(r) ==
  /\ run[r] # NoRow /\ run[r].pc = "failing"
  /\ pub' = IF Decided(run[r].pub) THEN pub
            ELSE [pub EXCEPT ![run[r].pub].state = run[r].error]
  /\ Stop(r)
  /\ UNCHANGED <<queue, redacted, uploaded, overtaken, cut, faults>>

-----------------------------------------------------------------------------
(* retireObsolete, and what the rest of the program does *)

\* The rows that survived the purge are free again.
Survivors(p) == pub[p].refs \ redacted

Retire(p) ==
  /\ pub[p] # NoRow /\ pub[p].state = "obsolete"
  /\ queue' = [o \in Packed |-> IF o \in Survivors(p) THEN "free" ELSE queue[o]]
  /\ pub' = [pub EXCEPT ![p].state = "retired_obsolete"]
  /\ UNCHANGED <<redacted, uploaded, overtaken, cut, run, faults>>

\* A local purge: the bodies go, and their rows, reserved or not.
PurgeEntity ==
  /\ redacted = {}
  /\ redacted' = PackedBodies
  /\ queue' = [o \in Packed |-> IF o \in PackedBodies THEN "absent" ELSE IF o = PackedPurge THEN "free" ELSE queue[o]]
  /\ UNCHANGED <<pub, uploaded, overtaken, cut, run, faults>>

StoreFails(x) ==
  /\ faults < MaxFaults /\ x \in DOMAIN uploaded
  /\ faults' = faults + 1
  /\ \/ uploaded' = [uploaded EXCEPT ![x] = "bad"]
     \/ uploaded' = [y \in DOMAIN uploaded \ {x} |-> uploaded[y]]
  /\ overtaken' = IF \E r \in Runs : run[r] # NoRow /\ run[r].pc = "finish" THEN overtaken \cup {x} ELSE overtaken
  /\ UNCHANGED <<queue, redacted, pub, cut, run>>

PublishersDie ==
  /\ faults < MaxFaults
  /\ faults' = faults + 1
  /\ cut' = [p \in Pubs |-> {}] /\ run' = [r \in Runs |-> NoRow]
  /\ UNCHANGED <<queue, redacted, pub, uploaded, overtaken>>

PublicationNext ==
  \/ \E p \in Pubs : Select(p) \/ Reserve(p) \/ Retire(p)
  \/ \E r \in Runs :
       \/ \E p \in Pubs : Start(r, p)
       \/ Attempt(r) \/ Upload(r) \/ ReadBack(r) \/ Verified(r)
       \/ Recheck(r) \/ Finish(r) \/ Failed(r)
  \/ PurgeEntity
  \/ \E x \in DOMAIN uploaded : StoreFails(x)
  \/ PublishersDie

PublicationSpec == PublicationInit /\ [][PublicationNext]_publicationVars

-----------------------------------------------------------------------------
(* Properties *)

PublicationTypeOK ==
  /\ queue \in [Packed -> {"absent", "free"} \cup Pubs]
  /\ redacted \in {{}, PackedBodies}
  /\ \A p \in Pubs :
       /\ cut[p] \subseteq Packed
       /\ pub[p] # NoRow =>
            /\ pub[p].refs \subseteq Packed /\ pub[p].next \in 1 .. Objects + 1
            /\ pub[p].state \in Active \cup {"confirmed", "retired_obsolete"}
            /\ pub[p].verified = 1 .. pub[p].next - 1
            /\ pub[p].tried \in {pub[p].verified, 1 .. pub[p].next}
  /\ overtaken \subseteq (SUBSET Packed) \X (1 .. Objects)
  /\ faults \in 0 .. MaxFaults

\* A row is reserved exactly while a publication that packed it is active: no
\* row is left reserved by a publication that is over, and no publication
\* lost one except to a purge (Reserve, Finish, Retire).
ReservationsMatch ==
  \A o \in Packed, p \in Pubs :
    queue[o] = p <=> /\ pub[p] # NoRow /\ o \in pub[p].refs \ redacted
                     /\ pub[p].state \in Active

\* An operation leaves the queue by a purge, or under a publication whose every
\* object the acknowledging publisher has read after its upload: neither a lost
\* answer nor what another publisher verified, before a loss or a restart,
\* takes it off (Recheck, Finish).
QueueLeavesSafely ==
  [][\A o \in Packed : queue[o] # "absent" /\ queue'[o] = "absent" =>
       \/ o \in redacted'
       \/ \E p \in Pubs : /\ queue[o] = p /\ pub'[p].state = "confirmed"
                         /\ \A i \in 1 .. Objects : Intact(Object(p, i)) \/ Object(p, i) \in overtaken]_publicationVars

\* No upload begins, and nothing is confirmed, once a packed body is purged.
NothingPurgedIsSent ==
  [][\A p \in Pubs : pub[p] # NoRow /\ pub[p].refs \cap redacted # {} =>
       /\ pub'[p].tried = pub[p].tried /\ pub'[p].verified = pub[p].verified
       /\ pub'[p].state = "confirmed" => pub[p].state = "confirmed"]_publicationVars

\* A publication that is over stays so, and a block is lifted by nobody: a
\* late answer of a slower publisher changes neither (Failed, Verified).
OutcomesAreFinal ==
  [][\A p \in Pubs : pub[p] # NoRow =>
       /\ pub[p].state \in {"confirmed", "retired_obsolete"} => pub'[p] = pub[p]
       /\ pub[p].state = "obsolete" => pub'[p].state \in {"obsolete", "retired_obsolete"}
       /\ pub[p].state \in Blocked \ {"obsolete"} => pub'[p].state = pub[p].state]_publicationVars

\* Queue and publication rows belong together, an operation leaves the queue
\* only when all that carries it was read back or its body is purged, nothing
\* purged is sent and what is over stays over.
PublicationIsSafe ==
  /\ [](PublicationTypeOK /\ ReservationsMatch)
  /\ QueueLeavesSafely /\ NothingPurgedIsSent /\ OutcomesAreFinal
=============================================================================
