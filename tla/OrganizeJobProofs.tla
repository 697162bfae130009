--------------------------- MODULE OrganizeJobProofs ---------------------------
(***************************************************************************)
(* What OrganizeJob guarantees for any number of jobs, children of a job,  *)
(* changes of authority and crashes.                                       *)
(*                                                                         *)
(* OrganizeInv is inductive.  Beside the invariants it says what a stored  *)
(* row stands for: a recorded fate is the gateway's (FinTrue), a recorded  *)
(* answer was validated and a committed child has a committed job          *)
(* (RowsFit); what recovery learned is still so at the gateway             *)
(* (HandleSound), which never changes a final fate (SettledStays); a child *)
(* without a fence was never sent (SendsSound); a job that is gone and may *)
(* be asked for again has changed nothing in the domain (EffectsSound).    *)
(*                                                                         *)
(* Frames says once what an action keeps by leaving variables alone; the   *)
(* lemma of an action then treats only what it writes.                     *)
(***************************************************************************)
EXTENDS OrganizeJob, TLAPS

Rows(j) == [Children(j) -> Row \cup {None}]

\* An operation is a job and one of its children.
LEMMA OpsAre ==
  /\ \A o \in Ops : o[1] \in Jobs /\ o[2] \in Children(o[1]) /\ o = <<o[1], o[2]>>
  /\ \A j \in Jobs : \A c \in Children(j) : <<j, c>> \in Ops
BY DEF Ops

\* None is no value of the model.
LEMMA NoneIsNothing ==
  /\ None \notin Jobs /\ None \notin Row
  /\ \A j \in Jobs : None \notin Job(j) /\ None \notin DomainReceipt(j)
BY OrganizeAssumption

LEMMA RowWith ==
  ASSUME NEW r \in Row, NEW state \in RowStates, NEW attempt \in 0 .. 1
  PROVE  [r EXCEPT !.state = state, !.attempt = attempt] \in Row
BY DEF Row

-----------------------------------------------------------------------------
(* The inductive invariant, one part per piece of state. *)

\* What is recorded of a child is what the gateway settled.
FinTrue(j, rs, state) ==
  \A c \in Children(j) : rs[c] # None /\ rs[c].fin # "none" => state[<<j, c>>] = rs[c].fin

\* What a job's rows say of it.
RowsFit(job, rs) ==
  \A c \in DOMAIN rs : rs[c] # None =>
    /\ rs[c].state \in {"RESPONSE_RECORDED", "COMMITTED"} => rs[c].fin = "validated"
    /\ rs[c].state = "COMMITTED" => job.state = "COMMITTED"
Told(job, rs) ==
  /\ IF job.receipt = None THEN job.state \notin Terminal ELSE Readable(job, rs)
  /\ job.committed <=> job.state = "COMMITTED"
  /\ RowsFit(job, rs)

JobSound(j) ==
  /\ jobs[j] \in Job(j) \cup {None} /\ rows[j] \in Rows(j)
  /\ IF jobs[j] = None THEN NoRows(j) ELSE Told(jobs[j], rows[j])
  /\ FinTrue(j, rows[j], svc)
JobsSound == DOMAIN jobs = Jobs /\ DOMAIN rows = Jobs /\ \A j \in Jobs : JobSound(j)

Base ==
  /\ epoch \in 0 .. MaxEpoch
  /\ asked \subseteq Jobs /\ retired \subseteq Jobs
  /\ fence \subseteq Ops /\ provs \subseteq Ops
  /\ flight \in [job : Jobs \cup {None}, dispatched : BOOLEAN] /\ marker \in Jobs \cup {None}
  /\ call \in [Ops -> {"none", "held", "sent"}]
  /\ svc \in [Ops -> Settled \cup {"none", "reserved", "sent", "cancelled"}]
  /\ wire \subseteq [kind : {"reserve", "execute"}, op : Ops]
  /\ sends \in [Ops -> Nat] /\ effects \in [Jobs -> Nat] /\ DOMAIN final = Jobs

RunSound ==
  session # None =>
    /\ session \in [job : {marker}, next : 1 .. N[marker] + 1,
                    phase : {"reserve", "reserving", "dispatch", "answer", "commit"}]
    /\ marker # None
    /\ session.phase = "reserving" => session.next \in Children(marker)

HandleSound ==
  handle # None =>
    /\ handle \in [job : Jobs, saved : {handle.saved}, seen : {handle.seen}, acked : {handle.acked}]
    /\ handle.acked \subseteq Children(handle.job)
    /\ handle.seen \in [Children(handle.job) -> Settled \cup {"none", "reserved", "cancelled"}]
    /\ handle.saved[1] # None
    /\ \A c \in Children(handle.job) :
         /\ handle.seen[c] \in Settled => svc[<<handle.job, c>>] = handle.seen[c]
         /\ c \in handle.acked => svc[<<handle.job, c>>] = "cancelled"

SendsSound ==
  \A o \in Ops : /\ sends[o] \in 0 .. 1
                 /\ o \notin fence => sends[o] = 0 /\ call[o] = "none"
                 /\ call[o] = "held" => sends[o] = 0

EffectsSound ==
  \A j \in Jobs :
    /\ effects[j] \in 0 .. 1
    /\ jobs[j] = None /\ j \notin retired => effects[j] = 0
    /\ j \in asked => effects[j] = 0 /\ jobs[j] = None
    /\ jobs[j] # None => (jobs[j].committed <=> effects[j] = 1)
    /\ effects[j] = 1 => \A c \in Children(j) : svc[<<j, c>>] = "validated"

OrganizeInv ==
  /\ Base /\ JobsSound /\ RunSound /\ HandleSound /\ SendsSound /\ MarkerCoversHolds
  /\ EffectsSound /\ ReportIsTrue

LEMMA InvIsEnough ==
  ASSUME OrganizeInv PROVE NoPaymentIsLost /\ SavedReceiptReadable /\ CommittedOnce /\ ReportIsTrue
<1>1. TypeOK
  <2>1. \A j \in Jobs : /\ jobs[j] \in Job(j) \cup {None}
                        /\ rows[j] \in [Children(j) -> Row \cup {None}]
                        /\ jobs[j] = None => NoRows(j)
    BY DEF OrganizeInv, JobsSound, JobSound, Rows
  <2> QED BY <2>1 DEF OrganizeInv, Base, JobsSound, RunSound, HandleSound, TypeOK
<1>2. AtMostOneSend
  BY DEF OrganizeInv, SendsSound, AtMostOneSend
<1>3. FinancialTruth
  <2> SUFFICES ASSUME NEW o \in Ops, rows[o[1]][o[2]] # None, rows[o[1]][o[2]].fin # "none"
               PROVE  svc[o] = rows[o[1]][o[2]].fin
    BY DEF FinancialTruth
  <2>1. o[1] \in Jobs /\ o[2] \in Children(o[1]) /\ o = <<o[1], o[2]>>
    BY OpsAre
  <2> QED BY <2>1 DEF OrganizeInv, JobsSound, JobSound, FinTrue
<1>4. SavedReceiptReadable
  BY DEF OrganizeInv, JobsSound, JobSound, Told, SavedReceiptReadable
<1>5. CommittedOnce
  BY DEF OrganizeInv, JobsSound, JobSound, Told, EffectsSound, CommittedOnce
<1> QED
  BY <1>1, <1>2, <1>3, <1>4, <1>5 DEF OrganizeInv, NoPaymentIsLost

-----------------------------------------------------------------------------
(* What a step leaves alone stays sound. *)

SettledStays == \A o \in Ops : svc[o] \in Settled \cup {"cancelled"} => svc'[o] = svc[o]

OutcomeStays(j) ==
  jobs[j] # None /\ jobs'[j] # None =>
    /\ jobs[j].receipt # None => jobs'[j].receipt = jobs[j].receipt /\ jobs'[j].state = jobs[j].state
    /\ \A c \in Children(j) : rows[j][c] # None /\ rows[j][c].fin # "none" => rows'[j][c].fin = rows[j][c].fin

LEMMA Frames ==
  ASSUME OrganizeInv, SettledStays
  PROVE  /\ \A j \in Jobs : jobs'[j] = jobs[j] /\ rows'[j] = rows[j] => JobSound(j)' /\ OutcomeStays(j)
         /\ UNCHANGED <<jobs, rows>> => JobsSound' /\ OutcomeIsFinal
         /\ UNCHANGED <<session, marker>> => RunSound'
         /\ UNCHANGED handle => HandleSound'
         /\ UNCHANGED <<sends, fence, call>> => SendsSound'
         /\ UNCHANGED <<marker, svc, wire>> => MarkerCoversHolds'
         /\ UNCHANGED <<effects, retired, asked>>
            /\ (\A j \in Jobs : /\ jobs'[j] = None <=> jobs[j] = None
                                /\ jobs[j] # None => jobs'[j].committed = jobs[j].committed)
            => EffectsSound'
         /\ UNCHANGED final => ReportIsTrue'
<1> USE DEF OrganizeInv
<1>1. ASSUME NEW j \in Jobs, jobs'[j] = jobs[j], rows'[j] = rows[j]
      PROVE  JobSound(j)' /\ OutcomeStays(j)
  <2>1. JobSound(j)
    BY DEF JobsSound
  <2>2. FinTrue(j, rows[j], svc)'
    <3> SUFFICES ASSUME NEW c \in Children(j), rows[j][c] # None, rows[j][c].fin # "none"
                 PROVE  svc'[<<j, c>>] = rows[j][c].fin
      BY <1>1 DEF FinTrue
    <3>1. rows[j][c] \in Row /\ <<j, c>> \in Ops
      BY <2>1, OpsAre DEF JobSound, Rows
    <3>2. rows[j][c].fin \in Settled \cup {"cancelled"}
      BY <3>1 DEF Row
    <3>3. svc[<<j, c>>] = rows[j][c].fin
      BY <2>1 DEF JobSound, FinTrue
    <3> QED BY <3>1, <3>2, <3>3 DEF SettledStays
  <2> QED BY <1>1, <2>1, <2>2 DEF JobSound, OutcomeStays, NoRows
<1>2. UNCHANGED <<jobs, rows>> => JobsSound' /\ OutcomeIsFinal
  BY <1>1 DEF JobsSound, OutcomeStays, OutcomeIsFinal
<1>3. UNCHANGED <<session, marker>> => RunSound'
  BY DEF RunSound
<1>4. UNCHANGED handle => HandleSound'
  <2> SUFFICES ASSUME handle' = handle, handle # None,
                      NEW c \in Children(handle.job)
               PROVE  /\ handle.seen[c] \in Settled => svc'[<<handle.job, c>>] = handle.seen[c]
                      /\ c \in handle.acked => svc'[<<handle.job, c>>] = "cancelled"
    BY DEF HandleSound
  <2>1. handle.job \in Jobs
    BY DEF HandleSound
  <2>2. <<handle.job, c>> \in Ops
    BY <2>1, OpsAre
  <2>3. /\ handle.seen[c] \in Settled => svc[<<handle.job, c>>] = handle.seen[c]
        /\ c \in handle.acked => svc[<<handle.job, c>>] = "cancelled"
    BY DEF HandleSound
  <2> QED BY <2>2, <2>3 DEF SettledStays
<1>5. UNCHANGED <<sends, fence, call>> => SendsSound'
  BY DEF SendsSound
<1>6. UNCHANGED <<marker, svc, wire>> => MarkerCoversHolds'
  BY DEF MarkerCoversHolds
<1>7. ASSUME UNCHANGED <<effects, retired, asked>>,
             \A j \in Jobs : /\ jobs'[j] = None <=> jobs[j] = None
                             /\ jobs[j] # None => jobs'[j].committed = jobs[j].committed
      PROVE  EffectsSound'
  <2>1. \A j \in Jobs : \A c \in Children(j) :
          svc[<<j, c>>] = "validated" => svc'[<<j, c>>] = "validated"
    BY OpsAre DEF SettledStays, Settled
  <2> QED BY <1>7, <2>1 DEF EffectsSound
<1>8. UNCHANGED final => ReportIsTrue'
  <2> SUFFICES ASSUME final' = final, NEW o \in Ops, final[o[1]] # None
               PROVE  /\ svc'[o] \in Settled \cup {"cancelled"}
                      /\ o[2] \in final[o[1]].paid <=> svc'[o] \in Settled
                      /\ final[o[1]].outcome = "COMMITTED" => svc'[o] = "validated"
    BY DEF ReportIsTrue
  <2>1. /\ svc[o] \in Settled \cup {"cancelled"}
        /\ o[2] \in final[o[1]].paid <=> svc[o] \in Settled
        /\ final[o[1]].outcome = "COMMITTED" => svc[o] = "validated"
    BY DEF ReportIsTrue
  <2> QED BY <2>1 DEF SettledStays
<1> QED
  BY <1>1, <1>2, <1>3, <1>4, <1>5, <1>6, <1>7, <1>8

-----------------------------------------------------------------------------
(* Saving a job: #putJob. *)

LEMMA PutSound ==
  ASSUME NEW j \in Jobs, NEW job \in Job(j), NEW rs \in Rows(j), MayPut(job, rs),
         job.committed <=> job.state = "COMMITTED", RowsFit(job, rs)
  PROVE  /\ Put(job, rs) \in Job(j) /\ Told(Put(job, rs), rs)
         /\ Put(job, rs).committed = job.committed /\ Put(job, rs).state = job.state
         /\ job.receipt # None => Put(job, rs).receipt = job.receipt
<1>1. DOMAIN rs = Children(j)
  BY DEF Rows
<1>2. CASE job.state \notin Terminal
  BY <1>2 DEF MayPut, Put, Told
<1>3. CASE job.state \in Terminal
  <2> DEFINE r == Receipt(job, rs)
  <2>1. \A c \in Children(j) : Child(rs[c]) \in ChildReceipt
    BY DEF Child, ChildReceipt, Rows, Row, Paid, RowStates, Terminal
  <2>2. r \in DomainReceipt(j)
    <3>1. [c \in DOMAIN rs |-> Child(rs[c])] \in [Children(j) -> ChildReceipt]
      BY <1>1, <2>1
    <3> QED BY <3>1, <1>3 DEF Receipt, DomainReceipt, Outcomes
  <2>3. r # None
    BY <2>2, NoneIsNothing
  <2>4. Put(job, rs) = [job EXCEPT !.receipt = r]
    BY <1>3 DEF Put
  <2>5. r.localState = job.state /\ \A c \in DOMAIN rs : r.children[c] = Child(rs[c])
    BY DEF Receipt
  <2>6. job.receipt # None => job.receipt = r
    BY DEF MayPut
  <2> HIDE DEF r
  <2>7. /\ Put(job, rs) \in Job(j) /\ Put(job, rs).receipt = r
        /\ Put(job, rs).committed = job.committed /\ Put(job, rs).state = job.state
    BY <2>2, <2>4 DEF Job
  <2>8. Readable(Put(job, rs), rs)
    <3>1. \A c \in DOMAIN rs : rs[c] # None => Child(rs[c]).state = rs[c].state
      BY DEF Child
    <3> QED BY <3>1, <2>5, <2>7 DEF Readable
  <2> QED BY <2>3, <2>6, <2>7, <2>8 DEF Told, RowsFit
<1> QED
  BY <1>2, <1>3

\* A receipt that stands fixes the state of the job.
LEMMA ReceiptFixes ==
  ASSUME OrganizeInv, NEW j \in Jobs, jobs[j] # None, NEW job, NEW rs,
         job.receipt = jobs[j].receipt, MayPut(job, rs)
  PROVE  /\ jobs[j].receipt # None => job.state = jobs[j].state
         /\ jobs[j].state \in Terminal <=> jobs[j].receipt # None
<1>1. Told(jobs[j], rows[j]) /\ jobs[j] \in Job(j)
  BY DEF OrganizeInv, JobsSound, JobSound
<1>2. ASSUME jobs[j].receipt # None PROVE job.state = jobs[j].state /\ jobs[j].state \in Terminal
  <2>1. jobs[j].receipt.localState = jobs[j].state
    BY <1>1, <1>2 DEF Told, Readable
  <2>2. job.receipt.localState = job.state /\ job.state \in Terminal
    BY <1>2 DEF MayPut, Receipt
  <2> QED BY <2>1, <2>2
<1> QED
  BY <1>1, <1>2 DEF Told

LEMMA PutStep ==
  ASSUME OrganizeInv, SettledStays, NEW j \in Jobs, jobs[j] # None,
         NEW job \in Job(j), NEW rs \in Rows(j), job.receipt = jobs[j].receipt,
         MayPut(job, rs), job.committed <=> job.state = "COMMITTED", RowsFit(job, rs),
         \A c \in Children(j) : rows[j][c] # None /\ rows[j][c].fin # "none" => rs[c].fin = rows[j][c].fin,
         FinTrue(j, rs, svc'),
         jobs'[j] = Put(job, rs), rows'[j] = rs
  PROVE  /\ JobSound(j)' /\ OutcomeStays(j) /\ jobs'[j] # None
         /\ jobs'[j].committed = job.committed
<1>1. /\ Put(job, rs) \in Job(j) /\ Told(Put(job, rs), rs)
      /\ Put(job, rs).committed = job.committed /\ Put(job, rs).state = job.state
      /\ job.receipt # None => Put(job, rs).receipt = job.receipt
  BY PutSound
<1>2. Put(job, rs) # None
  BY <1>1, NoneIsNothing
<1>3. jobs[j].receipt # None => job.state = jobs[j].state
  BY ReceiptFixes
<1>4. OutcomeStays(j)
  BY <1>1, <1>3 DEF OutcomeStays
<1>5. JobSound(j)'
  <2>1. FinTrue(j, rows[j], svc)'
    BY DEF FinTrue
  <2> QED BY <1>1, <1>2, <2>1 DEF JobSound
<1> QED
  BY <1>1, <1>2, <1>4, <1>5

\* A step that saves one job and its rows.
LEMMA SaveStep ==
  ASSUME OrganizeInv, UNCHANGED svc, NEW j \in Jobs, jobs[j] # None,
         NEW job \in Job(j), NEW rs \in Rows(j), job.receipt = jobs[j].receipt,
         job.committed = jobs[j].committed,
         MayPut(job, rs), job.committed <=> job.state = "COMMITTED", RowsFit(job, rs),
         \A c \in Children(j) : rows[j][c] # None /\ rows[j][c].fin # "none" => rs[c].fin = rows[j][c].fin,
         FinTrue(j, rs, svc),
         jobs' = [jobs EXCEPT ![j] = Put(job, rs)], rows' = [rows EXCEPT ![j] = rs]
  PROVE  /\ JobsSound' /\ OutcomeIsFinal
         /\ UNCHANGED <<effects, retired, asked>> => EffectsSound'
<1>1. SettledStays /\ FinTrue(j, rs, svc')
  BY DEF SettledStays, FinTrue
<1>2. DOMAIN jobs = Jobs /\ DOMAIN rows = Jobs
  BY DEF OrganizeInv, JobsSound
<1>3. jobs'[j] = Put(job, rs) /\ rows'[j] = rs
      /\ \A k \in Jobs \ {j} : jobs'[k] = jobs[k] /\ rows'[k] = rows[k]
  BY <1>2
<1>4. JobSound(j)' /\ OutcomeStays(j) /\ jobs'[j] # None /\ jobs'[j].committed = job.committed
  BY <1>1, <1>3, PutStep
<1>5. \A k \in Jobs : JobSound(k)' /\ OutcomeStays(k)
  BY <1>1, <1>3, <1>4, Frames
<1>6. JobsSound' /\ OutcomeIsFinal
  BY <1>2, <1>5 DEF JobsSound, OutcomeIsFinal, OutcomeStays
<1>7. \A k \in Jobs : /\ jobs'[k] = None <=> jobs[k] = None
                      /\ jobs[k] # None => jobs'[k].committed = jobs[k].committed
  BY <1>3, <1>4
<1> QED
  BY <1>1, <1>6, <1>7, Frames

-----------------------------------------------------------------------------
(* Steps that save no row. *)

LEMMA ChangeSound ==
  ASSUME OrganizeInv, Change
  PROVE  OrganizeInv' /\ OutcomeIsFinal
<1>1. epoch < MaxEpoch /\ epoch' = epoch + 1
      /\ UNCHANGED <<retired, jobs, rows, fence, flight, marker, asked, session, provs, call, handle,
                     svc, final, wire, sends, effects>>
  BY DEF Change, store, memory, gateway, history
<1>2. SettledStays
  BY <1>1 DEF SettledStays
<1>3. Base'
  <2>1. epoch' \in 0 .. MaxEpoch
    BY <1>1, OrganizeAssumption DEF OrganizeInv, Base
  <2> QED BY <1>1, <2>1 DEF OrganizeInv, Base
<1> QED
  BY <1>1, <1>2, <1>3, Frames DEF OrganizeInv

LEMMA ReplaceSound ==
  ASSUME OrganizeInv, Replace
  PROVE  OrganizeInv' /\ OutcomeIsFinal
<1>1. /\ epoch < MaxEpoch /\ epoch' = epoch + 1
      /\ jobs' = [j \in Jobs |-> None] /\ rows' = [j \in Jobs |-> [c \in Children(j) |-> None]]
      /\ retired' = retired \cup asked \cup {j \in Jobs : jobs[j] # None} /\ asked' = {}
      /\ UNCHANGED <<fence, flight, marker, session, provs, call, handle,
                     svc, final, wire, sends, effects>>
  BY DEF Replace, gateway, history
<1>2. SettledStays
  BY <1>1 DEF SettledStays
<1>3. Base'
  <2>1. epoch' \in 0 .. MaxEpoch
    BY <1>1, OrganizeAssumption DEF OrganizeInv, Base
  <2> QED BY <1>1, <2>1 DEF OrganizeInv, Base
<1>4. JobsSound'
  <2>1. ASSUME NEW j \in Jobs PROVE JobSound(j)'
    <3>1. jobs'[j] = None /\ rows'[j] = [c \in Children(j) |-> None]
      BY <1>1
    <3> QED BY <3>1 DEF JobSound, NoRows, FinTrue, Rows
  <2> QED BY <1>1, <2>1 DEF JobsSound
<1>5. EffectsSound'
  <2>1. \A j \in Jobs : jobs'[j] = None
    BY <1>1
  <2> QED BY <1>1, <2>1 DEF OrganizeInv, EffectsSound
<1>6. OutcomeIsFinal
  BY <1>1 DEF OutcomeIsFinal
<1> QED
  BY <1>1, <1>2, <1>3, <1>4, <1>5, <1>6, Frames DEF OrganizeInv

LEMMA AssertCanPlanSound ==
  ASSUME OrganizeInv, NEW j \in Jobs, AssertCanPlan(j)
  PROVE  OrganizeInv' /\ OutcomeIsFinal
<1>1. /\ jobs[j] = None /\ j \notin retired \cup asked /\ asked' = asked \cup {j}
      /\ UNCHANGED <<epoch, retired, jobs, rows, fence, flight, marker, session, provs, call, handle,
                     svc, final, wire, sends, effects>>
  BY DEF AssertCanPlan, store, gateway, history
<1>2. SettledStays
  BY <1>1 DEF SettledStays
<1>3. Base'
  BY <1>1 DEF OrganizeInv, Base
<1>4. EffectsSound'
  BY <1>1 DEF OrganizeInv, EffectsSound
<1> QED
  BY <1>1, <1>2, <1>3, <1>4, Frames DEF OrganizeInv

\* The topic's marker moves to another job only when the gateway holds nothing.
LEMMA PrepareSound ==
  ASSUME OrganizeInv, NEW j \in Jobs, Prepare(j)
  PROVE  OrganizeInv' /\ OutcomeIsFinal
<1>1. /\ session = None /\ Preflight /\ marker' = j
      /\ session' = [job |-> j, phase |-> "reserve", next |-> 1]
      /\ UNCHANGED <<epoch, retired, asked, jobs, rows, fence, flight, provs, call, handle,
                     svc, final, wire, sends, effects>>
  BY DEF Prepare, gateway, history
<1>2. SettledStays
  BY <1>1 DEF SettledStays
<1>3. Base'
  BY <1>1 DEF OrganizeInv, Base
<1>4. RunSound'
  <2>1. N[j] \in Nat
    BY OrganizeAssumption
  <2>2. 1 \in 1 .. N[j] + 1
    BY <2>1
  <2>3. j # None
    BY NoneIsNothing
  <2> QED BY <1>1, <2>2, <2>3 DEF RunSound
<1>5. ASSUME NEW o \in Ops PROVE svc[o] \notin {"reserved", "sent"}
  <2> SUFFICES ASSUME svc[o] \in {"reserved", "sent"} PROVE FALSE
    OBVIOUS
  <2>1. marker = o[1] /\ o[1] \in Jobs /\ o[2] \in Children(o[1]) /\ o = <<o[1], o[2]>>
    BY OpsAre DEF OrganizeInv, MarkerCoversHolds
  <2>2. Closed(o[1])
    BY <1>1, <2>1, NoneIsNothing DEF Preflight
  <2>3. rows[o[1]][o[2]] # None /\ rows[o[1]][o[2]].fin # "none"
    BY <2>1, <2>2 DEF Closed
  <2>4. rows[o[1]][o[2]] \in Row /\ svc[o] = rows[o[1]][o[2]].fin
    BY <2>1, <2>3 DEF OrganizeInv, JobsSound, JobSound, Rows, FinTrue
  <2> QED BY <2>3, <2>4 DEF Row, Settled
<1>6. ASSUME NEW m \in wire, m.kind = "reserve" PROVE svc[m.op] # "none"
  <2> SUFFICES ASSUME svc[m.op] = "none" PROVE FALSE
    OBVIOUS
  <2> DEFINE o == m.op
  <2>0. o \in Ops
    BY DEF OrganizeInv, Base
  <2>1. marker = o[1] /\ o[1] \in Jobs /\ o[2] \in Children(o[1]) /\ o = <<o[1], o[2]>>
    BY <2>0, <1>6, OpsAre DEF OrganizeInv, MarkerCoversHolds
  <2>2. Closed(o[1])
    BY <1>1, <2>1, NoneIsNothing DEF Preflight
  <2>3. rows[o[1]][o[2]] # None /\ rows[o[1]][o[2]].fin # "none"
    BY <2>1, <2>2 DEF Closed
  <2>4. svc[o] = rows[o[1]][o[2]].fin
    BY <2>1, <2>3 DEF OrganizeInv, JobsSound, JobSound, FinTrue
  <2> QED BY <2>3, <2>4
<1>7. MarkerCoversHolds'
  BY <1>1, <1>5, <1>6 DEF MarkerCoversHolds
<1>8. UNCHANGED <<jobs, rows, handle, sends, fence, call, effects, retired, asked, final>>
  BY <1>1
<1>9. JobsSound' /\ OutcomeIsFinal /\ HandleSound' /\ SendsSound' /\ EffectsSound' /\ ReportIsTrue'
  BY <1>2, <1>8, Frames
<1> QED
  BY <1>3, <1>4, <1>7, <1>9 DEF OrganizeInv

LEMMA RequestReserveSound ==
  ASSUME OrganizeInv, RequestReserve
  PROVE  OrganizeInv' /\ OutcomeIsFinal
<1>1. /\ In("reserve") /\ session.next \in Children(session.job)
      /\ wire' = wire \cup {[kind |-> "reserve", op |-> Op]}
      /\ session' = [session EXCEPT !.phase = "reserving"]
      /\ UNCHANGED <<epoch, retired, asked, jobs, rows, fence, flight, marker, provs, call, handle,
                     svc, final, sends, effects>>
  BY DEF RequestReserve, store, history
<1>2. SettledStays
  BY <1>1 DEF SettledStays
<1>3. session # None /\ RunSound /\ session.job = marker /\ marker \in Jobs
  BY <1>1 DEF In, OrganizeInv, RunSound, Base
<1>4. Op \in Ops /\ Op[1] = marker
  BY <1>1, <1>3, OpsAre DEF Op
<1> HIDE DEF Op
<1>5. Base'
  BY <1>1, <1>4 DEF OrganizeInv, Base
<1>6. RunSound'
  BY <1>1, <1>3 DEF RunSound
<1>7. MarkerCoversHolds'
  BY <1>1, <1>4 DEF OrganizeInv, MarkerCoversHolds
<1> QED
  BY <1>1, <1>2, <1>5, <1>6, <1>7, Frames DEF OrganizeInv

LEMMA ReserveAnswerSound ==
  ASSUME OrganizeInv, ReserveAnswer
  PROVE  OrganizeInv' /\ OutcomeIsFinal
<1>1. /\ In("reserving")
      /\ session' = [session EXCEPT !.phase = "reserve", !.next = @ + 1]
      /\ UNCHANGED <<epoch, retired, asked, jobs, rows, fence, flight, marker, provs, call, handle,
                     svc, final, wire, sends, effects>>
  BY DEF ReserveAnswer, store, gateway, history
<1>2. SettledStays
  BY <1>1 DEF SettledStays
<1>3. session # None /\ RunSound /\ session.phase = "reserving" /\ marker \in Jobs
  BY <1>1 DEF In, OrganizeInv, RunSound, Base
<1>4. session.next \in 1 .. N[marker] /\ N[marker] \in Nat
  BY <1>3, OrganizeAssumption DEF RunSound, Children
<1>5. session.next + 1 \in 1 .. N[marker] + 1
  BY <1>4
<1>6. RunSound'
  BY <1>1, <1>3, <1>5 DEF RunSound
<1>7. Base'
  BY <1>1 DEF OrganizeInv, Base
<1> QED
  BY <1>1, <1>2, <1>6, <1>7, Frames DEF OrganizeInv

\* The request leaves under the fence its dispatch has set.
LEMMA SendSound ==
  ASSUME OrganizeInv, NEW o \in Ops, Send(o)
  PROVE  OrganizeInv' /\ OutcomeIsFinal
<1>1. /\ call[o] = "held" /\ call' = [call EXCEPT ![o] = "sent"]
      /\ wire' = wire \cup {[kind |-> "execute", op |-> o]}
      /\ sends' = [sends EXCEPT ![o] = @ + 1]
      /\ UNCHANGED <<epoch, retired, asked, jobs, rows, fence, flight, marker, session, provs, handle,
                     svc, final, effects>>
  BY DEF Send, store
<1>2. SettledStays
  BY <1>1 DEF SettledStays
<1>3. Base'
  BY <1>1 DEF OrganizeInv, Base
<1>4. SendsSound'
  <2>1. sends[o] = 0 /\ o \in fence
    BY <1>1 DEF OrganizeInv, SendsSound
  <2>2. sends' = [sends EXCEPT ![o] = 1] /\ call' = [call EXCEPT ![o] = "sent"]
    BY <1>1, <2>1
  <2> QED BY <1>1, <2>1, <2>2 DEF OrganizeInv, SendsSound, Base
<1>5. MarkerCoversHolds'
  BY <1>1 DEF OrganizeInv, MarkerCoversHolds
<1> QED
  BY <1>1, <1>2, <1>3, <1>4, <1>5, Frames DEF OrganizeInv

LEMMA AbandonSound ==
  ASSUME OrganizeInv, Abandon
  PROVE  OrganizeInv' /\ OutcomeIsFinal
<1>1. session' = None
      /\ UNCHANGED <<epoch, retired, asked, jobs, rows, fence, flight, marker, provs, call, handle,
                     svc, final, wire, sends, effects>>
  BY DEF Abandon, store, gateway, history
<1>2. SettledStays
  BY <1>1 DEF SettledStays
<1>3. Base' /\ RunSound'
  BY <1>1 DEF OrganizeInv, Base, RunSound
<1> QED
  BY <1>1, <1>2, <1>3, Frames DEF OrganizeInv

LEMMA CrashSound ==
  ASSUME OrganizeInv, Crash
  PROVE  OrganizeInv' /\ OutcomeIsFinal
<1>1. /\ asked' = {} /\ session' = None /\ provs' = {} /\ call' = [o \in Ops |-> "none"]
      /\ handle' = None
      /\ UNCHANGED <<epoch, retired, jobs, rows, fence, flight, marker, svc, final, wire, sends, effects>>
  BY DEF Crash, store, gateway, history
<1>2. SettledStays
  BY <1>1 DEF SettledStays
<1>3. Base' /\ RunSound' /\ HandleSound'
  BY <1>1 DEF OrganizeInv, Base, RunSound, HandleSound
<1>4. SendsSound' /\ EffectsSound'
  BY <1>1 DEF OrganizeInv, SendsSound, EffectsSound
<1> QED
  BY <1>1, <1>2, <1>3, <1>4, Frames DEF OrganizeInv

LEMMA CaptureSound ==
  ASSUME OrganizeInv, Capture
  PROVE  OrganizeInv' /\ OutcomeIsFinal
<1>1. /\ marker # None /\ jobs[marker] # None
      /\ handle' = [job |-> marker, saved |-> Saved(marker),
                    seen |-> [c \in Children(marker) |-> "none"], acked |-> {}]
      /\ UNCHANGED <<epoch, retired, asked, jobs, rows, fence, flight, marker, session, provs, call,
                     svc, final, wire, sends, effects>>
  BY DEF Capture, store, gateway, history
<1>2. SettledStays
  BY <1>1 DEF SettledStays
<1>3. Base'
  BY <1>1 DEF OrganizeInv, Base
<1>4. HandleSound'
  <2> DEFINE seen == [c \in Children(marker) |-> "none"]
  <2>1. marker \in Jobs
    BY <1>1 DEF OrganizeInv, Base
  <2>2. seen \in [Children(marker) -> Settled \cup {"none", "reserved", "cancelled"}]
        /\ \A c \in Children(marker) : seen[c] \notin Settled
    BY DEF Settled
  <2>3. Saved(marker)[1] # None
    BY <1>1 DEF Saved
  <2>4. handle' = [job |-> marker, saved |-> Saved(marker), seen |-> seen, acked |-> {}]
    BY <1>1
  <2> HIDE DEF seen
  <2>5. handle'.job = marker /\ handle'.saved = Saved(marker) /\ handle'.seen = seen /\ handle'.acked = {}
    BY <2>4
  <2> QED BY <2>1, <2>2, <2>3, <2>4, <2>5 DEF HandleSound
<1> QED
  BY <1>1, <1>2, <1>3, <1>4, Frames DEF OrganizeInv

LEMMA QuerySound ==
  ASSUME OrganizeInv, NEW o \in Ops, Query(o)
  PROVE  OrganizeInv' /\ OutcomeIsFinal
<1>1. /\ handle # None /\ handle.job = o[1]
      /\ svc[o] \in {"reserved", "cancelled"} \cup Settled
      /\ handle' = [handle EXCEPT !.seen[o[2]] = svc[o]]
      /\ UNCHANGED <<epoch, retired, asked, jobs, rows, fence, flight, marker, session, provs, call,
                     svc, final, wire, sends, effects>>
  BY DEF Query, HandleCurrent, store, gateway, history
<1>2. SettledStays
  BY <1>1 DEF SettledStays
<1>3. Base'
  BY <1>1 DEF OrganizeInv, Base
<1>4. HandleSound'
  <2> DEFINE seen == [handle.seen EXCEPT ![o[2]] = svc[o]]
  <2>1. HandleSound /\ o[2] \in Children(handle.job) /\ o = <<handle.job, o[2]>>
    BY <1>1, OpsAre DEF OrganizeInv
  <2>2. seen \in [Children(handle.job) -> Settled \cup {"none", "reserved", "cancelled"}]
    BY <1>1, <2>1 DEF HandleSound
  <2>3. \A c \in Children(handle.job) : seen[c] \in Settled => svc[<<handle.job, c>>] = seen[c]
    BY <1>1, <2>1 DEF HandleSound
  <2>4. handle' = [handle EXCEPT !.seen = seen]
    BY <1>1
  <2> HIDE DEF seen
  <2>5. handle' = [job |-> handle.job, saved |-> handle.saved, seen |-> seen, acked |-> handle.acked]
    BY <1>1, <2>1, <2>4 DEF HandleSound
  <2>6. handle'.job = handle.job /\ handle'.saved = handle.saved /\ handle'.seen = seen
        /\ handle'.acked = handle.acked
    BY <2>5
  <2> QED BY <1>1, <2>1, <2>2, <2>3, <2>5, <2>6 DEF HandleSound
<1> QED
  BY <1>1, <1>2, <1>3, <1>4, Frames DEF OrganizeInv

LEMMA DropHandleSound ==
  ASSUME OrganizeInv, DropHandle
  PROVE  OrganizeInv' /\ OutcomeIsFinal
<1>1. handle' = None
      /\ UNCHANGED <<epoch, retired, asked, jobs, rows, fence, flight, marker, session, provs, call,
                     svc, final, wire, sends, effects>>
  BY DEF DropHandle, store, gateway, history
<1>2. SettledStays
  BY <1>1 DEF SettledStays
<1>3. Base' /\ HandleSound'
  BY <1>1 DEF OrganizeInv, Base, HandleSound
<1> QED
  BY <1>1, <1>2, <1>3, Frames DEF OrganizeInv

-----------------------------------------------------------------------------
(* Steps of the gateway and of the wire. *)

LEMMA DeliverReserveSound ==
  ASSUME OrganizeInv, NEW o \in Ops, DeliverReserve(o)
  PROVE  OrganizeInv' /\ OutcomeIsFinal
<1>1. /\ [kind |-> "reserve", op |-> o] \in wire
      /\ svc' = [svc EXCEPT ![o] = IF @ = "none" THEN "reserved" ELSE @]
      /\ wire' = wire \ {[kind |-> "reserve", op |-> o]}
      /\ UNCHANGED <<epoch, retired, asked, jobs, rows, fence, flight, marker, session, provs, call,
                     handle, final, sends, effects>>
  BY DEF DeliverReserve, store, memory, history
<1>2. svc \in [Ops -> Settled \cup {"none", "reserved", "sent", "cancelled"}]
  BY DEF OrganizeInv, Base
<1>3. SettledStays
  BY <1>1, <1>2 DEF SettledStays, Settled
<1>4. Base'
  BY <1>1, <1>2 DEF OrganizeInv, Base
<1>5. MarkerCoversHolds'
  <2>1. svc[o] = "none" => marker = o[1]
    <3>1. [kind |-> "reserve", op |-> o].kind = "reserve" /\ [kind |-> "reserve", op |-> o].op = o
      OBVIOUS
    <3> QED BY <1>1, <3>1 DEF OrganizeInv, MarkerCoversHolds
  <2>2. \A p \in Ops : svc'[p] = IF p = o /\ svc[o] = "none" THEN "reserved" ELSE svc[p]
    BY <1>1, <1>2
  <2>3. \A m \in wire' : m \in wire /\ m.op \in Ops
    BY <1>1 DEF OrganizeInv, Base
  <2> QED BY <1>1, <2>1, <2>2, <2>3 DEF OrganizeInv, MarkerCoversHolds
<1> QED
  BY <1>1, <1>3, <1>4, <1>5, Frames DEF OrganizeInv

LEMMA DeliverExecuteSound ==
  ASSUME OrganizeInv, NEW o \in Ops, DeliverExecute(o)
  PROVE  OrganizeInv' /\ OutcomeIsFinal
<1>1. /\ svc' = [svc EXCEPT ![o] = IF @ = "reserved" THEN "sent" ELSE @]
      /\ wire' = wire \ {[kind |-> "execute", op |-> o]}
      /\ UNCHANGED <<epoch, retired, asked, jobs, rows, fence, flight, marker, session, provs, call,
                     handle, final, sends, effects>>
  BY DEF DeliverExecute, store, memory, history
<1>2. svc \in [Ops -> Settled \cup {"none", "reserved", "sent", "cancelled"}]
  BY DEF OrganizeInv, Base
<1>3. SettledStays
  BY <1>1, <1>2 DEF SettledStays, Settled
<1>4. Base'
  BY <1>1, <1>2 DEF OrganizeInv, Base
<1>5. MarkerCoversHolds'
  <2>1. \A p \in Ops : svc'[p] = IF p = o /\ svc[o] = "reserved" THEN "sent" ELSE svc[p]
    BY <1>1, <1>2
  <2>2. \A m \in wire' : m \in wire /\ m.op \in Ops
    BY <1>1 DEF OrganizeInv, Base
  <2> QED BY <1>1, <2>1, <2>2 DEF OrganizeInv, MarkerCoversHolds
<1> QED
  BY <1>1, <1>3, <1>4, <1>5, Frames DEF OrganizeInv

LEMMA LoseSound ==
  ASSUME OrganizeInv, NEW m \in wire, Lose(m)
  PROVE  OrganizeInv' /\ OutcomeIsFinal
<1>1. /\ wire' = wire \ {m}
      /\ UNCHANGED <<epoch, retired, asked, jobs, rows, fence, flight, marker, session, provs, call,
                     handle, svc, final, sends, effects>>
  BY DEF Lose, store, memory, history
<1>2. SettledStays
  BY <1>1 DEF SettledStays
<1>3. Base' /\ MarkerCoversHolds'
  BY <1>1 DEF OrganizeInv, Base, MarkerCoversHolds
<1> QED
  BY <1>1, <1>2, <1>3, Frames DEF OrganizeInv

LEMMA SettleSound ==
  ASSUME OrganizeInv, NEW o \in Ops, NEW outcome \in Settled, SettleAtGateway(o, outcome)
  PROVE  OrganizeInv' /\ OutcomeIsFinal
<1>1. /\ svc[o] = "sent" /\ svc' = [svc EXCEPT ![o] = outcome]
      /\ UNCHANGED <<epoch, retired, asked, jobs, rows, fence, flight, marker, session, provs, call,
                     handle, final, wire, sends, effects>>
  BY DEF SettleAtGateway, store, memory, history
<1>2. svc \in [Ops -> Settled \cup {"none", "reserved", "sent", "cancelled"}]
  BY DEF OrganizeInv, Base
<1>3. SettledStays
  BY <1>1, <1>2 DEF SettledStays, Settled
<1>4. Base'
  BY <1>1, <1>2 DEF OrganizeInv, Base
<1>5. MarkerCoversHolds'
  <2>1. \A p \in Ops : svc'[p] = IF p = o THEN outcome ELSE svc[p]
    BY <1>1, <1>2
  <2>2. \A m \in wire' : m \in wire /\ m.op \in Ops
    BY <1>1 DEF OrganizeInv, Base
  <2> QED BY <1>1, <2>1, <2>2 DEF OrganizeInv, MarkerCoversHolds, Settled
<1> QED
  BY <1>1, <1>3, <1>4, <1>5, Frames DEF OrganizeInv

\* A cancellation reaches an operation no runner has claimed.
LEMMA CancelledAtGateway ==
  ASSUME OrganizeInv, NEW o \in Ops, Cancellable(o), svc' = [svc EXCEPT ![o] = "cancelled"],
         UNCHANGED <<wire, marker>>
  PROVE  /\ SettledStays /\ MarkerCoversHolds'
         /\ svc' \in [Ops -> Settled \cup {"none", "reserved", "sent", "cancelled"}]
<1>1. svc \in [Ops -> Settled \cup {"none", "reserved", "sent", "cancelled"}]
  BY DEF OrganizeInv, Base
<1>2. \A p \in Ops : svc'[p] = IF p = o THEN "cancelled" ELSE svc[p]
  BY <1>1
<1>3. SettledStays
  BY <1>1, <1>2 DEF SettledStays, Settled, Cancellable
<1>4. \A m \in wire' : m \in wire /\ m.op \in Ops
  BY DEF OrganizeInv, Base
<1>5. MarkerCoversHolds'
  BY <1>2, <1>4 DEF OrganizeInv, MarkerCoversHolds
<1> QED
  BY <1>1, <1>3, <1>5

LEMMA CancelSeenSound ==
  ASSUME OrganizeInv, NEW o \in Ops, NEW ack \in BOOLEAN, CancelSeen(o, ack)
  PROVE  OrganizeInv' /\ OutcomeIsFinal
<1>1. /\ handle # None /\ handle.job = o[1] /\ Cancellable(o)
      /\ svc' = [svc EXCEPT ![o] = "cancelled"]
      /\ handle' = IF ack THEN [handle EXCEPT !.acked = @ \cup {o[2]}] ELSE None
      /\ UNCHANGED <<epoch, retired, asked, jobs, rows, fence, flight, marker, session, provs, call,
                     final, wire, sends, effects>>
  BY DEF CancelSeen, HandleCurrent, store, history
<1>2. /\ SettledStays /\ MarkerCoversHolds'
      /\ svc' \in [Ops -> Settled \cup {"none", "reserved", "sent", "cancelled"}]
  BY <1>1, CancelledAtGateway
<1>3. Base'
  BY <1>1, <1>2 DEF OrganizeInv, Base
<1>4. HandleSound'
  <2>1. CASE ~ack
    BY <1>1, <2>1 DEF HandleSound
  <2>2. CASE ack
    <3> DEFINE acked == handle.acked \cup {o[2]}
    <3>1. HandleSound /\ o[2] \in Children(handle.job) /\ o = <<handle.job, o[2]>>
          /\ svc'[o] = "cancelled"
      BY <1>1, OpsAre DEF OrganizeInv, Base
    <3>2. acked \subseteq Children(handle.job)
      BY <1>1, <3>1 DEF HandleSound
    <3>3. handle' = [handle EXCEPT !.acked = acked]
      BY <1>1, <2>2
    <3>4. \A c \in Children(handle.job) :
            /\ handle.seen[c] \in Settled => svc'[<<handle.job, c>>] = handle.seen[c]
            /\ c \in acked => svc'[<<handle.job, c>>] = "cancelled"
      <4> TAKE c \in Children(handle.job)
      <4>1. <<handle.job, c>> \in Ops
        BY <1>1, <3>1, OpsAre
      <4>2. /\ handle.seen[c] \in Settled => svc[<<handle.job, c>>] = handle.seen[c]
            /\ c \in handle.acked => svc[<<handle.job, c>>] = "cancelled"
        BY <1>1, <3>1 DEF HandleSound
      <4> QED BY <4>1, <4>2, <3>1, <1>2 DEF SettledStays
    <3> HIDE DEF acked
    <3>5. handle' = [job |-> handle.job, saved |-> handle.saved, seen |-> handle.seen, acked |-> acked]
      BY <1>1, <3>1, <3>3 DEF HandleSound
    <3>6. handle'.job = handle.job /\ handle'.saved = handle.saved /\ handle'.seen = handle.seen
          /\ handle'.acked = acked
      BY <3>5
    <3> QED BY <1>1, <3>1, <3>2, <3>4, <3>5, <3>6 DEF HandleSound
  <2> QED BY <2>1, <2>2
<1> QED
  BY <1>1, <1>2, <1>3, <1>4, Frames DEF OrganizeInv

-----------------------------------------------------------------------------
(* Steps of the run. *)

LEMMA InitSound ==
  ASSUME Init
  PROVE  OrganizeInv
<1>1. Base
  <2>1. 0 \in 0 .. MaxEpoch
    BY OrganizeAssumption
  <2> QED BY <2>1 DEF Init, Base
<1>2. JobsSound
  <2>1. ASSUME NEW j \in Jobs PROVE JobSound(j)
    <3>1. jobs[j] = None /\ rows[j] = [c \in Children(j) |-> None]
      BY DEF Init
    <3> QED BY <3>1 DEF JobSound, NoRows, FinTrue, Rows
  <2> QED BY <2>1 DEF Init, JobsSound
<1>3. RunSound /\ HandleSound /\ SendsSound /\ MarkerCoversHolds
  BY DEF Init, RunSound, HandleSound, SendsSound, MarkerCoversHolds
<1>4. EffectsSound
  <2>1. \A j \in Jobs : effects[j] = 0 /\ jobs[j] = None /\ asked = {}
    BY DEF Init
  <2> QED BY <2>1 DEF EffectsSound
<1>5. ReportIsTrue
  BY OpsAre DEF Init, ReportIsTrue
<1> QED
  BY <1>1, <1>2, <1>3, <1>4, <1>5 DEF OrganizeInv

\* All children of the job are written at once, before any is dispatched.
LEMMA ReserveServerSound ==
  ASSUME OrganizeInv, ReserveServer
  PROVE  OrganizeInv' /\ OutcomeIsFinal
<1> DEFINE j == session.job
           rs == [c \in Children(j) |-> NewRow]
           job == [jobs[j] EXCEPT !.state = "RESERVED"]
<1>1. /\ session # None /\ jobs[j] # None /\ jobs[j].state = "PLANNED" /\ NoRows(j)
      /\ MayPut(job, rs) /\ rows' = [rows EXCEPT ![j] = rs] /\ jobs' = [jobs EXCEPT ![j] = Put(job, rs)]
      /\ provs' = provs \cup {<<j, c>> : c \in Children(j)}
      /\ session' = [job |-> j, phase |-> "dispatch", next |-> 1]
      /\ UNCHANGED <<epoch, retired, asked, fence, flight, marker, call, handle,
                     svc, final, wire, sends, effects>>
  BY DEF ReserveServer, In, gateway, history
<1>2. SettledStays
  BY <1>1 DEF SettledStays
<1>3. j = marker /\ j \in Jobs /\ j # None
  BY <1>1 DEF OrganizeInv, RunSound, Base
<1>4. jobs[j] \in Job(j) /\ Told(jobs[j], rows[j]) /\ \A c \in Children(j) : rows[j][c] = None
  BY <1>1, <1>3 DEF OrganizeInv, JobsSound, JobSound, NoRows
<1>5. job \in Job(j) /\ job.receipt = jobs[j].receipt /\ job.committed = jobs[j].committed
      /\ job.state = "RESERVED"
  BY <1>4 DEF Job, RowStates
<1>6. rs \in Rows(j) /\ RowsFit(job, rs) /\ FinTrue(j, rs, svc)
  BY DEF Rows, Row, NewRow, RowStates, RowsFit, FinTrue
<1>7. ~job.committed
  BY <1>1, <1>4, <1>5 DEF Told
<1> HIDE DEF rs, job
<1>8. JobsSound' /\ OutcomeIsFinal /\ EffectsSound'
  BY <1>1, <1>3, <1>4, <1>5, <1>6, <1>7, SaveStep
<1>9. Base'
  <2>1. \A c \in Children(j) : <<j, c>> \in Ops
    BY <1>3, OpsAre
  <2> QED BY <1>1, <2>1 DEF OrganizeInv, Base
<1>10. RunSound'
  <2>1. N[j] \in Nat
    BY <1>3, OrganizeAssumption
  <2>2. 1 \in 1 .. N[j] + 1
    BY <2>1
  <2> QED BY <1>1, <1>3, <2>2 DEF RunSound
<1> QED
  BY <1>1, <1>2, <1>8, <1>9, <1>10, Frames DEF OrganizeInv

\* The fence is set before the request: what it covers is sent by this dispatch or never.
LEMMA DispatchSound ==
  ASSUME OrganizeInv, Dispatch
  PROVE  OrganizeInv' /\ OutcomeIsFinal
<1> DEFINE j == session.job
           c == session.next
           rs == [rows[j] EXCEPT ![c].state = "DISPATCHED", ![c].attempt = 1]
           job == [jobs[j] EXCEPT !.state = "DISPATCHED"]
<1>1. /\ session # None /\ session.phase = "dispatch" /\ c \in Children(j)
      /\ jobs[j] # None /\ jobs[j].state \notin Terminal /\ rows[j][c] # None
      /\ Op \notin fence /\ MayPut(job, rs)
      /\ fence' = fence \cup {Op} /\ flight' = [flight EXCEPT !.dispatched = TRUE]
      /\ rows' = [rows EXCEPT ![j] = rs] /\ jobs' = [jobs EXCEPT ![j] = Put(job, rs)]
      /\ call' = [call EXCEPT ![Op] = "held"]
      /\ session' = [session EXCEPT !.phase = "answer"]
      /\ UNCHANGED <<epoch, retired, asked, marker, provs, handle, svc, final, wire, sends, effects>>
  BY DEF Dispatch, In, gateway, history
<1>2. SettledStays
  BY <1>1 DEF SettledStays
<1>3. j = marker /\ j \in Jobs /\ j # None /\ RunSound
  BY <1>1 DEF OrganizeInv, RunSound, Base
<1>4. jobs[j] \in Job(j) /\ rows[j] \in Rows(j) /\ Told(jobs[j], rows[j]) /\ FinTrue(j, rows[j], svc)
  BY <1>1, <1>3 DEF OrganizeInv, JobsSound, JobSound
<1>5. job \in Job(j) /\ job.receipt = jobs[j].receipt /\ job.committed = jobs[j].committed
      /\ job.state = "DISPATCHED"
  BY <1>4 DEF Job, RowStates
<1>6. rows[j][c] \in Row
  BY <1>1, <1>4 DEF Rows
<1>7. \A d \in Children(j) : rs[d] = IF d = c THEN [rows[j][c] EXCEPT !.state = "DISPATCHED", !.attempt = 1]
                                    ELSE rows[j][d]
  BY <1>1, <1>4 DEF Rows
<1>8. rs \in Rows(j)
  BY <1>1, <1>4, <1>6 DEF Rows, Row, RowStates
<1>9. ~jobs[j].committed /\ jobs[j].state # "COMMITTED"
  BY <1>1, <1>4 DEF Told, Terminal
<1> HIDE DEF rs, job
<1>10. rs[c].fin = rows[j][c].fin /\ rs[c].state = "DISPATCHED" /\ rs[c] \in Row
  <2>1. rs[c] = [rows[j][c] EXCEPT !.state = "DISPATCHED", !.attempt = 1]
    BY <1>1, <1>7
  <2>2. rs[c] \in Row
    <3>1. "DISPATCHED" \in RowStates /\ 1 \in 0 .. 1
      BY DEF RowStates
    <3>2. [rows[j][c] EXCEPT !.state = "DISPATCHED", !.attempt = 1] \in Row
      BY <1>6, <3>1, RowWith
    <3> QED BY <2>1, <3>2
  <2> QED BY <1>6, <2>1, <2>2 DEF Row
<1>11. RowsFit(job, rs) /\ FinTrue(j, rs, svc)
       /\ \A d \in Children(j) : rows[j][d] # None /\ rows[j][d].fin # "none" => rs[d].fin = rows[j][d].fin
  <2>1. DOMAIN rs = Children(j) /\ DOMAIN rows[j] = Children(j)
    BY <1>4, <1>8 DEF Rows
  <2> QED BY <1>1, <1>4, <1>7, <1>9, <1>10, <2>1 DEF RowsFit, FinTrue, Told
<1>12. JobsSound' /\ OutcomeIsFinal /\ EffectsSound'
  BY <1>1, <1>3, <1>4, <1>5, <1>8, <1>9, <1>11, SaveStep
<1>13. Op \in Ops
  BY <1>1, <1>3, OpsAre DEF Op
<1>14. sends[Op] = 0 /\ call[Op] = "none"
  BY <1>1, <1>13 DEF OrganizeInv, SendsSound
<1> HIDE DEF Op
<1>15. Base' /\ SendsSound'
  BY <1>1, <1>13, <1>14 DEF OrganizeInv, Base, SendsSound
<1>16. RunSound'
  BY <1>1, <1>3 DEF RunSound
<1> QED
  BY <1>1, <1>2, <1>12, <1>15, <1>16, Frames DEF OrganizeInv

\* A job's state is one of a job, and only a commit makes it committed.
LEMMA AggregateIs ==
  ASSUME NEW job, NEW rs, job.committed \in BOOLEAN
  PROVE  /\ Aggregate(job, rs) \in RowStates \cup {"PLANNED"}
         /\ Aggregate(job, rs) = "COMMITTED" => job.committed
BY DEF Aggregate, RowStates, Terminal

\* An answer records what the gateway settled, whatever became of the job.
LEMMA AnsweredSound ==
  ASSUME OrganizeInv, NEW o \in Ops, NEW outcome \in Settled, NEW accepted \in BOOLEAN,
         Answered(o, outcome, accepted)
  PROVE  OrganizeInv' /\ OutcomeIsFinal
<1> DEFINE j == o[1]
           c == o[2]
           r == rows[j][c]
           state == IF ~(Current(j) /\ r.state = "DISPATCHED") THEN "EXPIRED_UNCOMMITTED"
                    ELSE IF Keeps(j, outcome, accepted) THEN "RESPONSE_RECORDED"
                    ELSE IF outcome = "failed" THEN "REJECTED" ELSE "EXPIRED_UNCOMMITTED"
           rs == [rows[j] EXCEPT ![c] = [r EXCEPT !.state = state, !.fin = outcome]]
           job == [jobs[j] EXCEPT !.state = Aggregate(jobs[j], rs)]
           goesOn == state = "RESPONSE_RECORDED" /\ In("answer") /\ Op = o
<1>1. /\ svc[o] = outcome /\ jobs[j] # None /\ r # None
      /\ Paid(r) => r.fin = outcome
      /\ MayPut(job, rs) /\ rows' = [rows EXCEPT ![j] = rs] /\ jobs' = [jobs EXCEPT ![j] = Put(job, rs)]
      /\ session' = IF goesOn /\ c = N[j] THEN [session EXCEPT !.phase = "commit"]
                    ELSE IF goesOn THEN [session EXCEPT !.phase = "dispatch", !.next = @ + 1]
                    ELSE IF session # None /\ session.job = j THEN None ELSE session
      /\ call' = [call EXCEPT ![o] = "none"] /\ provs' = provs \ {o}
      /\ UNCHANGED <<epoch, retired, asked, fence, flight, marker, handle, svc, final, wire, sends, effects>>
  BY DEF Answered, gateway, history
<1>2. SettledStays
  BY <1>1 DEF SettledStays
<1>3. j \in Jobs /\ c \in Children(j) /\ o = <<j, c>>
  BY OpsAre
<1>4. jobs[j] \in Job(j) /\ rows[j] \in Rows(j) /\ Told(jobs[j], rows[j]) /\ FinTrue(j, rows[j], svc)
  BY <1>1, <1>3 DEF OrganizeInv, JobsSound, JobSound
<1>5. r \in Row
  BY <1>1, <1>3, <1>4 DEF Rows
<1>6. state \in RowStates /\ state # "COMMITTED" /\ (state = "RESPONSE_RECORDED" => outcome = "validated")
  BY DEF RowStates, Terminal, Keeps
<1>7. r.fin # "none" => r.fin = outcome
  BY <1>1, <1>3, <1>4, <1>5 DEF FinTrue, Paid, Row, Settled
<1> HIDE DEF state
<1>8. \A d \in Children(j) : rs[d] = IF d = c THEN [r EXCEPT !.state = state, !.fin = outcome] ELSE rows[j][d]
  BY <1>3, <1>4 DEF Rows
<1>9. [r EXCEPT !.state = state, !.fin = outcome] \in Row
  BY <1>5, <1>6 DEF Row
<1>10. rs \in Rows(j)
  BY <1>3, <1>4, <1>9 DEF Rows
<1>11. rs[c].fin = outcome /\ rs[c].state = state
  <2>1. rs[c] = [r EXCEPT !.state = state, !.fin = outcome]
    BY <1>3, <1>8
  <2> HIDE DEF rs
  <2> QED BY <1>5, <2>1 DEF Row
<1>12. Aggregate(jobs[j], rs) \in RowStates \cup {"PLANNED"}
       /\ (Aggregate(jobs[j], rs) = "COMMITTED" => jobs[j].committed)
  BY <1>4, AggregateIs DEF Job
<1>13. job \in Job(j) /\ job.receipt = jobs[j].receipt /\ job.committed = jobs[j].committed
       /\ job.state = Aggregate(jobs[j], rs)
  BY <1>4, <1>12 DEF Job
<1> HIDE DEF rs, job
<1>14. jobs[j].receipt # None => job.state = jobs[j].state
  BY <1>1, <1>3, <1>13, ReceiptFixes
<1>15. jobs[j].state = "COMMITTED" => jobs[j].receipt # None
  BY <1>4 DEF Told, Terminal
<1>16. job.committed <=> job.state = "COMMITTED"
  BY <1>4, <1>12, <1>13, <1>14, <1>15 DEF Told
<1>17. RowsFit(job, rs) /\ FinTrue(j, rs, svc)
       /\ \A d \in Children(j) : rows[j][d] # None /\ rows[j][d].fin # "none" => rs[d].fin = rows[j][d].fin
  <2>1. DOMAIN rs = Children(j) /\ DOMAIN rows[j] = Children(j)
    BY <1>4, <1>10 DEF Rows
  <2>2. FinTrue(j, rs, svc)
    BY <1>1, <1>3, <1>4, <1>8, <1>11 DEF FinTrue
  <2>3. \A d \in Children(j) : rows[j][d] # None /\ rows[j][d].fin # "none" => rs[d].fin = rows[j][d].fin
    BY <1>7, <1>8, <1>11
  <2>4. RowsFit(job, rs)
    BY <1>4, <1>6, <1>8, <1>11, <1>14, <1>15, <2>1 DEF RowsFit, Told
  <2> QED BY <2>2, <2>3, <2>4
<1>18. JobsSound' /\ OutcomeIsFinal /\ EffectsSound'
  BY <1>1, <1>3, <1>4, <1>10, <1>13, <1>16, <1>17, SaveStep
<1>19. Base' /\ SendsSound'
  BY <1>1 DEF OrganizeInv, Base, SendsSound
<1>20. RunSound'
  <2>1. CASE goesOn
    <3>1. session # None /\ RunSound /\ session.job = marker /\ session.next = c /\ marker = j
      BY <2>1, <1>3 DEF In, Op, OrganizeInv, RunSound
    <3>2. N[j] \in Nat /\ c \in 1 .. N[j]
      BY <1>3, OrganizeAssumption DEF Children
    <3>3. c + 1 \in 1 .. N[marker] + 1
      BY <3>1, <3>2
    <3>4. CASE c = N[j]
      <4>1. session' = [session EXCEPT !.phase = "commit"]
        BY <1>1, <2>1, <3>4
      <4> QED BY <1>1, <3>1, <4>1 DEF RunSound
    <3>5. CASE c # N[j]
      <4>1. session' = [session EXCEPT !.phase = "dispatch", !.next = c + 1]
        BY <1>1, <2>1, <3>1, <3>5
      <4> QED BY <1>1, <3>1, <3>3, <4>1 DEF RunSound
    <3> QED BY <3>4, <3>5
  <2>2. CASE ~goesOn
    <3>1. session' \in {None, session}
      BY <1>1, <2>2
    <3> QED BY <1>1, <3>1 DEF OrganizeInv, RunSound
  <2> QED BY <2>1, <2>2
<1> QED
  BY <1>1, <1>2, <1>18, <1>19, <1>20, Frames DEF OrganizeInv

\* An unknown outcome is saved only over a job whose receipt does not stand.
LEMMA UnansweredSound ==
  ASSUME OrganizeInv, NEW o \in Ops, Unanswered(o)
  PROVE  OrganizeInv' /\ OutcomeIsFinal
<1> DEFINE j == o[1]
           c == o[2]
           rs == [rows[j] EXCEPT ![c].state = "OUTCOME_UNKNOWN"]
           job == [jobs[j] EXCEPT !.state = "OUTCOME_UNKNOWN"]
           saves == jobs[j] # None /\ rows[j][c] # None /\ MayPut(job, rs)
<1>1. /\ rows' = IF saves THEN [rows EXCEPT ![j] = rs] ELSE rows
      /\ jobs' = IF saves THEN [jobs EXCEPT ![j] = Put(job, rs)] ELSE jobs
      /\ session' = IF session # None /\ session.job = j THEN None ELSE session
      /\ call' = [call EXCEPT ![o] = "none"] /\ provs' = provs \ {o}
      /\ UNCHANGED <<epoch, retired, asked, fence, flight, marker, handle, svc, final, wire, sends, effects>>
  BY DEF Unanswered, gateway, history
<1>2. SettledStays
  BY <1>1 DEF SettledStays
<1>3. j \in Jobs /\ c \in Children(j) /\ o = <<j, c>>
  BY OpsAre
<1>4. JobsSound' /\ OutcomeIsFinal /\ EffectsSound'
  <2>1. CASE ~saves
    BY <1>1, <1>2, <2>1, Frames
  <2>2. CASE saves
    <3>1. jobs[j] \in Job(j) /\ rows[j] \in Rows(j) /\ Told(jobs[j], rows[j]) /\ FinTrue(j, rows[j], svc)
      BY <2>2, <1>3 DEF OrganizeInv, JobsSound, JobSound
    <3>2. rows[j][c] \in Row
      BY <2>2, <1>3, <3>1 DEF Rows
    <3>3. \A d \in Children(j) : rs[d] = IF d = c THEN [rows[j][c] EXCEPT !.state = "OUTCOME_UNKNOWN"]
                                        ELSE rows[j][d]
      BY <1>3, <3>1 DEF Rows
    <3>4. [rows[j][c] EXCEPT !.state = "OUTCOME_UNKNOWN"] \in Row
      BY <3>2 DEF Row, RowStates
    <3>5. rs \in Rows(j)
      BY <1>3, <3>1, <3>4 DEF Rows
    <3>6. job \in Job(j) /\ job.receipt = jobs[j].receipt /\ job.committed = jobs[j].committed
          /\ job.state = "OUTCOME_UNKNOWN"
      BY <3>1 DEF Job, RowStates
    <3>7. rs[c].fin = rows[j][c].fin /\ rs[c].state = "OUTCOME_UNKNOWN"
      BY <1>3, <3>2, <3>3 DEF Row
    <3>8. rows' = [rows EXCEPT ![j] = rs] /\ jobs' = [jobs EXCEPT ![j] = Put(job, rs)] /\ MayPut(job, rs)
          /\ jobs[j] # None /\ rows[j][c] # None
      BY <1>1, <2>2
    <3> HIDE DEF rs, job, saves
    <3>9. jobs[j].receipt = None
      BY <3>6, <3>8 DEF MayPut, Terminal
    <3>10. ~jobs[j].committed /\ jobs[j].state # "COMMITTED"
      BY <3>1, <3>9 DEF Told, Terminal
    <3>11. DOMAIN rs = Children(j) /\ DOMAIN rows[j] = Children(j)
      BY <3>1, <3>5 DEF Rows
    <3>12. RowsFit(job, rs) /\ FinTrue(j, rs, svc)
           /\ \A d \in Children(j) : rows[j][d] # None /\ rows[j][d].fin # "none" => rs[d].fin = rows[j][d].fin
      BY <3>1, <3>3, <3>7, <3>8, <3>10, <3>11 DEF RowsFit, FinTrue, Told
    <3> QED BY <1>1, <1>3, <3>5, <3>6, <3>8, <3>10, <3>12, SaveStep
  <2> QED BY <2>1, <2>2
<1>5. Base' /\ SendsSound' /\ RunSound'
  BY <1>1 DEF OrganizeInv, Base, SendsSound, RunSound
<1> QED
  BY <1>1, <1>2, <1>4, <1>5, Frames DEF OrganizeInv

\* The domain changes once, for children the gateway validated.
LEMMA CommitSound ==
  ASSUME OrganizeInv, Commit
  PROVE  OrganizeInv' /\ OutcomeIsFinal
<1>1. session # None /\ session.job \in Jobs
  BY DEF Commit, In, OrganizeInv, RunSound, Base
<1>2. PICK j \in Jobs : j = session.job
  BY <1>1
<1> DEFINE rs == [c \in Children(j) |-> [rows[j][c] EXCEPT !.state = "COMMITTED"]]
           job == [jobs[j] EXCEPT !.committed = TRUE, !.state = "COMMITTED"]
<1>3. /\ session # None /\ jobs[j] # None /\ ~jobs[j].committed
      /\ \A c \in Children(j) : rows[j][c] # None /\ rows[j][c].state = "RESPONSE_RECORDED"
      /\ MayPut(job, rs) /\ rows' = [rows EXCEPT ![j] = rs] /\ jobs' = [jobs EXCEPT ![j] = Put(job, rs)]
      /\ effects' = [effects EXCEPT ![j] = @ + 1] /\ session' = None
      /\ UNCHANGED <<epoch, retired, asked, fence, flight, marker, provs, call, handle,
                     svc, final, wire, sends>>
  BY <1>2 DEF Commit, In, gateway
<1>4. SettledStays
  BY <1>3 DEF SettledStays
<1>5. jobs[j] \in Job(j) /\ rows[j] \in Rows(j) /\ Told(jobs[j], rows[j]) /\ FinTrue(j, rows[j], svc)
  BY <1>3, <1>2 DEF OrganizeInv, JobsSound, JobSound
<1>6. job \in Job(j) /\ job.receipt = jobs[j].receipt /\ job.committed = TRUE /\ job.state = "COMMITTED"
  BY <1>5 DEF Job, RowStates, Terminal
<1>7. ASSUME NEW c \in Children(j)
      PROVE  /\ rs[c] \in Row /\ rs[c].fin = "validated" /\ rows[j][c].fin = "validated"
             /\ svc[<<j, c>>] = "validated"
  <2>1. rows[j][c] \in Row
    BY <1>3, <1>5 DEF Rows
  <2>2. rows[j][c].fin = "validated"
    BY <1>3, <1>5 DEF Told, RowsFit, Rows
  <2>3. svc[<<j, c>>] = "validated"
    BY <1>3, <1>5, <2>2 DEF FinTrue
  <2>4. rs[c] = [rows[j][c] EXCEPT !.state = "COMMITTED"]
    OBVIOUS
  <2> HIDE DEF rs
  <2> QED BY <2>1, <2>2, <2>3, <2>4 DEF Row, RowStates, Terminal
<1>8. DOMAIN rs = Children(j)
  OBVIOUS
<1>9. rs \in Rows(j)
  BY <1>7 DEF Rows
<1> HIDE DEF rs, job
<1>10. RowsFit(job, rs) /\ FinTrue(j, rs, svc')
      /\ \A c \in Children(j) : rows[j][c] # None /\ rows[j][c].fin # "none" => rs[c].fin = rows[j][c].fin
  BY <1>3, <1>6, <1>7, <1>8 DEF RowsFit, FinTrue
<1>11. DOMAIN jobs = Jobs /\ DOMAIN rows = Jobs /\ effects \in [Jobs -> Nat]
  BY DEF OrganizeInv, JobsSound, Base
<1>12. jobs'[j] = Put(job, rs) /\ rows'[j] = rs
       /\ \A k \in Jobs \ {j} : jobs'[k] = jobs[k] /\ rows'[k] = rows[k]
  BY <1>3, <1>2, <1>11
<1>13. JobSound(j)' /\ OutcomeStays(j) /\ jobs'[j] # None /\ jobs'[j].committed = job.committed
  BY <1>3, <1>4, <1>2, <1>6, <1>9, <1>10, <1>12, PutStep
<1>14. \A k \in Jobs : JobSound(k)' /\ OutcomeStays(k)
  BY <1>4, <1>12, <1>13, Frames
<1>15. JobsSound' /\ OutcomeIsFinal
  BY <1>3, <1>11, <1>14 DEF JobsSound, OutcomeIsFinal, OutcomeStays
<1>16. EffectsSound'
  <2>1. effects[j] = 0 /\ j \notin asked
    BY <1>3, <1>2 DEF OrganizeInv, EffectsSound
  <2>2. \A k \in Jobs : effects'[k] = IF k = j THEN 1 ELSE effects[k]
    BY <1>3, <1>2, <1>11, <2>1
  <2> QED BY <1>3, <1>6, <1>7, <1>12, <1>13, <2>1, <2>2 DEF OrganizeInv, EffectsSound
<1>17. Base' /\ RunSound'
  BY <1>3, <1>2 DEF OrganizeInv, Base, RunSound
<1> QED
  BY <1>3, <1>4, <1>15, <1>16, <1>17, Frames DEF OrganizeInv

-----------------------------------------------------------------------------
(* Stopping. *)

\* A cancellation keeps the financial evidence of every child.
LEMMA CancelSound ==
  ASSUME OrganizeInv, NEW j \in Jobs, Cancel(j)
  PROVE  OrganizeInv' /\ OutcomeIsFinal
<1> DEFINE After(r) == IF r = None THEN None
                       ELSE IF r.attempt = 0 THEN [r EXCEPT !.state = "CANCELLED_BEFORE_DISPATCH"]
                       ELSE IF r.state \in {"DISPATCHED", "OUTCOME_UNKNOWN"} THEN [r EXCEPT !.state = "OUTCOME_UNKNOWN"]
                       ELSE IF r.state # "COMMITTED" THEN [r EXCEPT !.state = "EXPIRED_UNCOMMITTED"] ELSE r
           rs == [c \in Children(j) |-> After(rows[j][c])]
           tried == {c \in Children(j) : rs[c] # None /\ rs[c].attempt > 0}
           state == IF \E c \in tried : rs[c].state = "OUTCOME_UNKNOWN" THEN "OUTCOME_UNKNOWN"
                    ELSE IF tried # {} THEN "EXPIRED_UNCOMMITTED" ELSE "CANCELLED_BEFORE_DISPATCH"
           job == [jobs[j] EXCEPT !.cancelled = TRUE, !.state = state]
<1>1. /\ jobs[j] # None /\ jobs[j].state \notin Terminal
      /\ MayPut(job, rs) /\ rows' = [rows EXCEPT ![j] = rs] /\ jobs' = [jobs EXCEPT ![j] = Put(job, rs)]
      /\ session' = IF session # None /\ session.job = j /\ session.phase # "commit" THEN None ELSE session
      /\ UNCHANGED <<epoch, retired, asked, fence, flight, marker, provs, call, handle,
                     svc, final, wire, sends, effects>>
  BY DEF Cancel, gateway, history
<1>2. SettledStays
  BY <1>1 DEF SettledStays
<1>3. jobs[j] \in Job(j) /\ rows[j] \in Rows(j) /\ Told(jobs[j], rows[j]) /\ FinTrue(j, rows[j], svc)
  BY <1>1 DEF OrganizeInv, JobsSound, JobSound
<1>4. state \in RowStates /\ state # "COMMITTED"
  BY DEF RowStates, Terminal
<1> HIDE DEF state
<1>5. job \in Job(j) /\ job.receipt = jobs[j].receipt /\ job.committed = jobs[j].committed
      /\ job.state = state
  BY <1>3, <1>4 DEF Job
<1>6. ~jobs[j].committed /\ jobs[j].state # "COMMITTED"
  BY <1>1, <1>3 DEF Told, Terminal
<1>7. ASSUME NEW c \in Children(j), rs[c] # None
      PROVE  /\ rows[j][c] # None /\ rs[c] \in Row /\ rs[c].fin = rows[j][c].fin
             /\ rs[c].state \notin {"RESPONSE_RECORDED", "COMMITTED"}
  <2>1. rows[j][c] # None /\ rows[j][c] \in Row
    BY <1>3, <1>7 DEF Rows
  <2>2. rows[j][c].state # "COMMITTED"
    BY <1>3, <1>6, <2>1 DEF Told, RowsFit, Rows
  <2>3. PICK s \in {"CANCELLED_BEFORE_DISPATCH", "OUTCOME_UNKNOWN", "EXPIRED_UNCOMMITTED"} :
          rs[c] = [rows[j][c] EXCEPT !.state = s]
    BY <2>1, <2>2
  <2>4. s \in RowStates
    BY DEF RowStates, Terminal
  <2> HIDE DEF rs
  <2> QED BY <2>1, <2>3, <2>4 DEF Row
<1>8. DOMAIN rs = Children(j) /\ \A c \in Children(j) : rows[j][c] # None => rs[c] # None
  <2>1. ASSUME NEW c \in Children(j), rows[j][c] # None PROVE rs[c] # None
    <3>1. rows[j][c] \in Row
      BY <1>3, <2>1 DEF Rows
    <3>2. \/ rs[c] = rows[j][c] \/ \E s \in RowStates : rs[c] = [rows[j][c] EXCEPT !.state = s]
      BY <2>1 DEF RowStates, Terminal
    <3> HIDE DEF rs
    <3>3. \A s \in RowStates : [rows[j][c] EXCEPT !.state = s] \in Row
      BY <3>1 DEF Row
    <3> QED BY <3>1, <3>2, <3>3, NoneIsNothing
  <2> QED BY <2>1
<1>9. rs \in Rows(j)
  <2>1. \A c \in Children(j) : rs[c] \in Row \cup {None}
    BY <1>7
  <2> QED BY <2>1 DEF Rows
<1> HIDE DEF rs, job
<1>10. RowsFit(job, rs) /\ FinTrue(j, rs, svc)
       /\ \A c \in Children(j) : rows[j][c] # None /\ rows[j][c].fin # "none" => rs[c].fin = rows[j][c].fin
  BY <1>3, <1>7, <1>8 DEF RowsFit, FinTrue
<1>11. JobsSound' /\ OutcomeIsFinal /\ EffectsSound'
  BY <1>1, <1>4, <1>5, <1>6, <1>9, <1>10, SaveStep
<1>12. Base' /\ RunSound'
  BY <1>1 DEF OrganizeInv, Base, RunSound
<1> QED
  BY <1>1, <1>2, <1>11, <1>12, Frames DEF OrganizeInv

\* A hold is recorded as released only when the gateway has cancelled it.
LEMMA ReleaseUnsentSound ==
  ASSUME OrganizeInv, NEW o \in Ops, NEW ack \in BOOLEAN, ReleaseUnsent(o, ack)
  PROVE  OrganizeInv' /\ OutcomeIsFinal
<1> DEFINE j == o[1]
           c == o[2]
           r == rows[j][c]
           rs == [rows[j] EXCEPT ![c].fin = "cancelled"]
<1>1. /\ Cancellable(o) /\ r # None /\ r.state = "CANCELLED_BEFORE_DISPATCH" /\ ~Released(r)
      /\ svc' = [svc EXCEPT ![o] = "cancelled"]
      /\ rows' = IF ack THEN [rows EXCEPT ![o[1]][o[2]].fin = "cancelled"] ELSE rows
      /\ provs' = IF ack THEN provs \ {o} ELSE provs
      /\ UNCHANGED <<epoch, retired, asked, jobs, fence, flight, marker, session, call, handle,
                     final, wire, sends, effects>>
  BY DEF ReleaseUnsent, history
<1>2. /\ SettledStays /\ MarkerCoversHolds'
      /\ svc' \in [Ops -> Settled \cup {"none", "reserved", "sent", "cancelled"}]
  BY <1>1, CancelledAtGateway
<1>3. Base'
  BY <1>1, <1>2 DEF OrganizeInv, Base
<1>4. j \in Jobs /\ c \in Children(j) /\ o = <<j, c>>
  BY OpsAre
<1>5. JobsSound' /\ OutcomeIsFinal
  <2>1. CASE ~ack
    BY <1>1, <1>2, <2>1, Frames
  <2>2. CASE ack
    <3>1. jobs[j] \in Job(j) \cup {None} /\ rows[j] \in Rows(j) /\ FinTrue(j, rows[j], svc)
          /\ DOMAIN jobs = Jobs /\ DOMAIN rows = Jobs
      BY <1>4 DEF OrganizeInv, JobsSound, JobSound
    <3>2. jobs[j] # None /\ Told(jobs[j], rows[j])
      BY <1>1, <1>4 DEF OrganizeInv, JobsSound, JobSound, NoRows
    <3>3. r \in Row
      BY <1>1, <1>4, <3>1 DEF Rows
    <3>4. r.fin = "none"
      BY <1>1, <1>4, <3>1, <3>3 DEF FinTrue, Cancellable, Released, Row, Settled
    <3>5. \A d \in Children(j) : rs[d] = IF d = c THEN [r EXCEPT !.fin = "cancelled"] ELSE rows[j][d]
      BY <1>4, <3>1 DEF Rows
    <3>6. [r EXCEPT !.fin = "cancelled"] \in Row
      BY <3>3 DEF Row
    <3>7. rs \in Rows(j)
      BY <1>4, <3>1, <3>6 DEF Rows
    <3>8. rows'[j] = rs /\ \A k \in Jobs \ {j} : rows'[k] = rows[k]
      BY <1>1, <1>4, <2>2, <3>1
    <3> HIDE DEF rs
    <3>9. rs[c].state = r.state /\ rs[c].fin = "cancelled" /\ rs[c] # None
      BY <1>4, <3>3, <3>5, <3>6, NoneIsNothing DEF Row
    <3>10. DOMAIN rs = Children(j) /\ DOMAIN rows[j] = Children(j)
      BY <3>1, <3>7 DEF Rows
    <3>11. Child(rs[c]) = Child(r)
      BY <1>1, <3>4, <3>9 DEF Child, Paid, Settled
    <3>12. Readable(jobs[j], rows[j]) => Readable(jobs[j], rs)
      BY <1>1, <3>5, <3>9, <3>10, <3>11 DEF Readable
    <3>13. Told(jobs[j], rs)
      BY <1>1, <3>2, <3>5, <3>9, <3>10, <3>12 DEF Told, RowsFit
    <3>14. FinTrue(j, rs, svc')
      <4> SUFFICES ASSUME NEW d \in Children(j), rs[d] # None, rs[d].fin # "none"
                   PROVE  svc'[<<j, d>>] = rs[d].fin
        BY DEF FinTrue
      <4>1. CASE d = c
        BY <1>1, <1>4, <3>9, <4>1 DEF OrganizeInv, Base
      <4>2. CASE d # c
        <5>1. rs[d] = rows[j][d] /\ svc[<<j, d>>] = rows[j][d].fin /\ rows[j][d] \in Row
          BY <3>1, <3>5, <4>2 DEF FinTrue, Rows
        <5>2. <<j, d>> \in Ops /\ rows[j][d].fin \in Settled \cup {"cancelled"}
          BY <1>4, <5>1, OpsAre DEF Row
        <5> QED BY <1>2, <5>1, <5>2 DEF SettledStays
      <4> QED BY <4>1, <4>2
    <3>15. JobSound(j)' /\ OutcomeStays(j)
      <4>1. FinTrue(j, rows[j], svc)'
        BY <3>8, <3>14 DEF FinTrue
      <4> QED BY <1>1, <3>1, <3>2, <3>4, <3>5, <3>7, <3>8, <3>13, <4>1 DEF JobSound, OutcomeStays
    <3>16. \A k \in Jobs : JobSound(k)' /\ OutcomeStays(k)
      BY <1>1, <1>2, <3>8, <3>15, Frames
    <3>17. DOMAIN rows' = Jobs
      BY <1>1, <2>2, <3>1
    <3> QED BY <1>1, <3>1, <3>16, <3>17 DEF JobsSound, OutcomeIsFinal, OutcomeStays
  <2> QED BY <2>1, <2>2
<1> QED
  BY <1>1, <1>2, <1>3, <1>5, Frames DEF OrganizeInv

-----------------------------------------------------------------------------
(* Steps that change neither the state nor the receipt of a job. *)

LEMMA TouchStep ==
  ASSUME OrganizeInv, SettledStays, NEW j \in Jobs, jobs[j] # None, NEW job \in Job(j),
         job.state = jobs[j].state, job.committed = jobs[j].committed, job.receipt = jobs[j].receipt,
         jobs' = [jobs EXCEPT ![j] = job], UNCHANGED <<rows, effects, retired, asked>>
  PROVE  JobsSound' /\ OutcomeIsFinal /\ EffectsSound'
<1>1. DOMAIN jobs = Jobs /\ DOMAIN rows = Jobs /\ JobSound(j)
  BY DEF OrganizeInv, JobsSound
<1>2. jobs'[j] = job /\ rows'[j] = rows[j]
      /\ \A k \in Jobs \ {j} : jobs'[k] = jobs[k] /\ rows'[k] = rows[k]
  BY <1>1
<1>3. job # None
  BY NoneIsNothing
<1>4. FinTrue(j, rows[j], svc)'
  <2> SUFFICES ASSUME NEW c \in Children(j), rows[j][c] # None, rows[j][c].fin # "none"
               PROVE  svc'[<<j, c>>] = rows[j][c].fin
    BY <1>2 DEF FinTrue
  <2>1. rows[j][c] \in Row /\ <<j, c>> \in Ops
    BY <1>1, OpsAre DEF JobSound, Rows
  <2>2. rows[j][c].fin \in Settled \cup {"cancelled"} /\ svc[<<j, c>>] = rows[j][c].fin
    BY <1>1, <2>1 DEF Row, JobSound, FinTrue
  <2> QED BY <2>1, <2>2 DEF SettledStays
<1>5. JobSound(j)' /\ OutcomeStays(j)
  <2>1. Told(job, rows[j])
    BY <1>1 DEF JobSound, Told, Readable, RowsFit
  <2> QED BY <1>1, <1>2, <1>3, <1>4, <2>1 DEF JobSound, OutcomeStays
<1>6. \A k \in Jobs : JobSound(k)' /\ OutcomeStays(k)
  BY <1>2, <1>5, Frames
<1>7. DOMAIN jobs' = Jobs /\ DOMAIN rows' = Jobs
  BY <1>1
<1>8. JobsSound' /\ OutcomeIsFinal
  BY <1>6, <1>7 DEF JobsSound, OutcomeIsFinal, OutcomeStays
<1>9. \A k \in Jobs : /\ jobs'[k] = None <=> jobs[k] = None
                      /\ jobs[k] # None => jobs'[k].committed = jobs[k].committed
  BY <1>2, <1>3
<1> QED
  BY <1>8, <1>9, Frames

LEMMA ReplanSound ==
  ASSUME OrganizeInv, NEW j \in Jobs, Replan(j)
  PROVE  OrganizeInv' /\ OutcomeIsFinal
<1> DEFINE job == [jobs[j] EXCEPT !.auth = epoch]
<1>1. /\ jobs[j] # None /\ jobs' = [jobs EXCEPT ![j] = job]
      /\ UNCHANGED <<epoch, retired, rows, fence, flight, marker, asked, session, provs, call, handle,
                     svc, final, wire, sends, effects>>
  BY DEF Replan, memory, gateway, history
<1>2. SettledStays
  BY <1>1 DEF SettledStays
<1>3. jobs[j] \in Job(j) /\ epoch \in 0 .. MaxEpoch
  BY <1>1 DEF OrganizeInv, JobsSound, JobSound, Base
<1>4. job \in Job(j) /\ job.state = jobs[j].state /\ job.committed = jobs[j].committed
      /\ job.receipt = jobs[j].receipt
  BY <1>3 DEF Job
<1> HIDE DEF job
<1>5. JobsSound' /\ OutcomeIsFinal /\ EffectsSound'
  BY <1>1, <1>2, <1>4, TouchStep
<1>6. Base'
  BY <1>1 DEF OrganizeInv, Base
<1> QED
  BY <1>1, <1>2, <1>5, <1>6, Frames DEF OrganizeInv

LEMMA SaveReportSound ==
  ASSUME OrganizeInv, NEW j \in Jobs, SaveReport(j)
  PROVE  OrganizeInv' /\ OutcomeIsFinal
<1> DEFINE report == [evidence |-> Evidence(jobs[j], rows[j]), ack |-> FALSE]
           job == [jobs[j] EXCEPT !.report = report]
<1>1. /\ jobs[j] # None /\ jobs[j].receipt # None /\ jobs' = [jobs EXCEPT ![j] = job]
      /\ UNCHANGED <<epoch, retired, rows, fence, flight, marker, asked, session, provs, call, handle,
                     svc, final, wire, sends, effects>>
  BY DEF SaveReport, EvidenceAvailable, memory, gateway, history
<1>2. SettledStays
  BY <1>1 DEF SettledStays
<1>3. jobs[j] \in Job(j) /\ rows[j] \in Rows(j)
  BY <1>1 DEF OrganizeInv, JobsSound, JobSound
<1>4. report \in ResultReport(j)
  <2>1. jobs[j].receipt \in DomainReceipt(j)
    BY <1>1, <1>3 DEF Job
  <2>2. {c \in DOMAIN rows[j] : Paid(rows[j][c])} \in SUBSET Children(j)
    BY <1>3 DEF Rows
  <2> QED BY <2>1, <2>2 DEF ResultReport, Evidence, DomainReceipt
<1> HIDE DEF report
<1>5. job \in Job(j) /\ job.state = jobs[j].state /\ job.committed = jobs[j].committed
      /\ job.receipt = jobs[j].receipt
  BY <1>3, <1>4 DEF Job
<1> HIDE DEF job
<1>6. JobsSound' /\ OutcomeIsFinal /\ EffectsSound'
  BY <1>1, <1>2, <1>5, TouchStep
<1>7. Base'
  BY <1>1 DEF OrganizeInv, Base
<1> QED
  BY <1>1, <1>2, <1>6, <1>7, Frames DEF OrganizeInv

\* The report is sent over evidence that is the gateway's own.
LEMMA SendReportSound ==
  ASSUME OrganizeInv, NEW j \in Jobs, NEW ack \in BOOLEAN, SendReport(j, ack)
  PROVE  OrganizeInv' /\ OutcomeIsFinal
<1> DEFINE report == [jobs[j].report EXCEPT !.ack = TRUE]
           job == [jobs[j] EXCEPT !.report = report]
<1>1. /\ jobs[j] # None /\ jobs[j].report # None
      /\ EvidenceAvailable(jobs[j], rows[j]) /\ Evidence(jobs[j], rows[j]) = jobs[j].report.evidence
      /\ final' = [final EXCEPT ![j] = Evidence(jobs[j], rows[j])]
      /\ jobs' = IF ack THEN [jobs EXCEPT ![j] = job] ELSE jobs
      /\ UNCHANGED <<epoch, retired, rows, fence, flight, marker, asked, session, provs, call, handle,
                     svc, wire, sends, effects>>
  BY DEF SendReport, memory, history
<1>2. SettledStays
  BY <1>1 DEF SettledStays
<1>3. jobs[j] \in Job(j) /\ rows[j] \in Rows(j) /\ FinTrue(j, rows[j], svc)
  BY <1>1 DEF OrganizeInv, JobsSound, JobSound
<1>4. report \in ResultReport(j)
  <2>1. jobs[j].report \in ResultReport(j)
    BY <1>1, <1>3 DEF Job
  <2> QED BY <2>1 DEF ResultReport
<1> HIDE DEF report
<1>5. job \in Job(j) /\ job.state = jobs[j].state /\ job.committed = jobs[j].committed
      /\ job.receipt = jobs[j].receipt
  BY <1>3, <1>4 DEF Job
<1> HIDE DEF job
<1>6. JobsSound' /\ OutcomeIsFinal /\ EffectsSound'
  <2>1. CASE ack
    BY <1>1, <1>2, <1>5, <2>1, TouchStep
  <2>2. CASE ~ack
    BY <1>1, <1>2, <2>2, Frames
  <2> QED BY <2>1, <2>2
<1>7. ReportIsTrue'
  <2> SUFFICES ASSUME NEW o \in Ops, final'[o[1]] # None
               PROVE  /\ svc[o] \in Settled \cup {"cancelled"}
                      /\ o[2] \in final'[o[1]].paid <=> svc[o] \in Settled
                      /\ final'[o[1]].outcome = "COMMITTED" => svc[o] = "validated"
    BY <1>1 DEF ReportIsTrue
  <2>1. o[1] \in Jobs /\ o[2] \in Children(o[1]) /\ o = <<o[1], o[2]>> /\ DOMAIN final = Jobs
    BY OpsAre DEF OrganizeInv, Base
  <2>2. CASE o[1] # j
    BY <1>1, <2>1, <2>2 DEF OrganizeInv, ReportIsTrue
  <2>3. CASE o[1] = j
    <3> DEFINE c == o[2]
               r == rows[j][c]
    <3>1. final'[j].outcome = jobs[j].receipt.outcome
          /\ (c \in final'[j].paid <=> Paid(r))
      BY <1>1, <1>3, <2>1, <2>3 DEF Evidence, Rows
    <3>2. /\ r # None
          /\ \/ Released(r)
             \/ Paid(r) /\ (jobs[j].receipt.outcome = "COMMITTED" => r.fin = "validated")
          /\ jobs[j].receipt.outcome = "COMMITTED" => Paid(r)
      BY <1>1, <1>3, <2>1, <2>3 DEF EvidenceAvailable, Rows
    <3>3. r.fin # "none" /\ svc[o] = r.fin
      BY <1>3, <2>1, <2>3, <3>2 DEF Released, Paid, Settled, FinTrue
    <3> QED BY <2>3, <3>1, <3>2, <3>3 DEF Released, Paid, Settled
  <2> QED BY <2>2, <2>3
<1>8. Base'
  BY <1>1 DEF OrganizeInv, Base
<1> QED
  BY <1>1, <1>2, <1>6, <1>7, <1>8, Frames DEF OrganizeInv

-----------------------------------------------------------------------------
(* A new plan, which may end a stale one that was never dispatched. *)

LEMMA PlanSound ==
  ASSUME OrganizeInv, NEW j \in Jobs, Plan(j)
  PROVE  OrganizeInv' /\ OutcomeIsFinal
<1> DEFINE f == flight.job
           held == f # None /\ jobs[f] # None /\ jobs[f].state \notin Terminal
           rs == CancelledRows(rows[f])
           gone == [jobs[f] EXCEPT !.cancelled = TRUE, !.state = "CANCELLED_BEFORE_DISPATCH"]
<1>1. /\ jobs[j] = None /\ j \in asked /\ asked' = asked \ {j}
      /\ held => MayPut(gone, rs)
      /\ jobs' = IF held THEN [jobs EXCEPT ![f] = Put(gone, rs), ![j] = NewJob]
                 ELSE [jobs EXCEPT ![j] = NewJob]
      /\ rows' = IF held THEN [rows EXCEPT ![f] = rs] ELSE rows
      /\ flight' = [job |-> j, dispatched |-> FALSE]
      /\ UNCHANGED <<epoch, retired, fence, marker, session, provs, call, handle,
                     svc, final, wire, sends, effects>>
  BY DEF Plan, gateway, history
<1>2. SettledStays
  BY <1>1 DEF SettledStays
<1>3. Base'
  BY <1>1 DEF OrganizeInv, Base
<1>4. DOMAIN jobs = Jobs /\ DOMAIN rows = Jobs /\ epoch \in 0 .. MaxEpoch /\ flight.job \in Jobs \cup {None}
  BY DEF OrganizeInv, JobsSound, Base
<1>5. NewJob \in Job(j) /\ NewJob # None /\ NewJob.committed = FALSE /\ NewJob.receipt = None
      /\ NewJob.state = "PLANNED"
  <2>1. NewJob \in Job(j)
    BY <1>4 DEF NewJob, Job
  <2> QED BY <2>1, NoneIsNothing DEF NewJob
<1>6. jobs'[j] = NewJob /\ rows'[j] = rows[j]
  BY <1>1, <1>4
<1>7. JobSound(j)' /\ OutcomeStays(j)
  <2>1. JobSound(j) /\ NoRows(j)
    BY <1>1 DEF OrganizeInv, JobsSound, JobSound
  <2>2. Told(NewJob, rows[j])
    BY <1>5, <2>1 DEF Told, RowsFit, NoRows, Terminal, JobSound, Rows
  <2>3. FinTrue(j, rows[j], svc)'
    BY <1>1, <1>6, <2>1 DEF FinTrue, NoRows
  <2> QED BY <1>1, <1>5, <1>6, <2>1, <2>2, <2>3 DEF JobSound, OutcomeStays
<1>8. \A k \in Jobs \ {j} : /\ JobSound(k)' /\ OutcomeStays(k)
                            /\ jobs'[k] = None <=> jobs[k] = None
                            /\ jobs[k] # None => jobs'[k].committed = jobs[k].committed
  <2>1. CASE ~held
    <3>1. \A k \in Jobs \ {j} : jobs'[k] = jobs[k] /\ rows'[k] = rows[k]
      BY <1>1, <1>4, <2>1
    <3> QED BY <1>2, <3>1, Frames
  <2>2. CASE held
    <3>1. PICK g \in Jobs : g = flight.job
      BY <1>4, <2>2
    <3> DEFINE after == CancelledRows(rows[g])
               end == [jobs[g] EXCEPT !.cancelled = TRUE, !.state = "CANCELLED_BEFORE_DISPATCH"]
    <3>2. /\ g # j /\ jobs[g] # None /\ jobs[g].state \notin Terminal /\ MayPut(end, after)
          /\ jobs'[g] = Put(end, after) /\ rows'[g] = after
          /\ \A k \in Jobs \ {j, g} : jobs'[k] = jobs[k] /\ rows'[k] = rows[k]
      BY <1>1, <1>4, <2>2, <3>1
    <3>3. jobs[g] \in Job(g) /\ rows[g] \in Rows(g) /\ Told(jobs[g], rows[g]) /\ FinTrue(g, rows[g], svc)
      BY <3>2 DEF OrganizeInv, JobsSound, JobSound
    <3>4. end \in Job(g) /\ end.receipt = jobs[g].receipt /\ end.committed = jobs[g].committed
          /\ end.state = "CANCELLED_BEFORE_DISPATCH"
      BY <3>3 DEF Job, RowStates, Terminal
    <3>5. ~jobs[g].committed
      BY <3>2, <3>3 DEF Told, Terminal
    <3>6. DOMAIN after = Children(g) /\ DOMAIN rows[g] = Children(g)
      BY <3>3 DEF Rows, CancelledRows
    <3>7. ASSUME NEW c \in Children(g)
          PROVE  IF rows[g][c] = None THEN after[c] = None
                 ELSE after[c] \in Row /\ after[c].fin = rows[g][c].fin
                      /\ after[c].state = "CANCELLED_BEFORE_DISPATCH"
      <4>1. CASE rows[g][c] = None
        BY <3>6, <4>1 DEF CancelledRows
      <4>2. CASE rows[g][c] # None
        <5>1. rows[g][c] \in Row
          BY <3>3, <4>2 DEF Rows
        <5>2. after[c] = [rows[g][c] EXCEPT !.state = "CANCELLED_BEFORE_DISPATCH"]
          BY <3>6, <4>2 DEF CancelledRows
        <5> HIDE DEF after
        <5> QED BY <4>2, <5>1, <5>2 DEF Row, RowStates, Terminal
      <4> QED BY <4>1, <4>2
    <3> HIDE DEF after, end
    <3>8. after \in Rows(g)
      <4>1. \A c \in Children(g) : after[c] \in Row \cup {None}
        BY <3>7
      <4>2. after = [c \in Children(g) |-> after[c]]
        BY <3>6 DEF after, CancelledRows
      <4> QED BY <4>1, <4>2 DEF Rows
    <3>9. RowsFit(end, after) /\ FinTrue(g, after, svc')
          /\ \A c \in Children(g) : rows[g][c] # None /\ rows[g][c].fin # "none" => after[c].fin = rows[g][c].fin
      BY <1>1, <3>3, <3>6, <3>7 DEF RowsFit, FinTrue
    <3>10. JobSound(g)' /\ OutcomeStays(g) /\ jobs'[g] # None /\ jobs'[g].committed = end.committed
      BY <1>2, <3>2, <3>4, <3>5, <3>8, <3>9, PutStep
    <3> QED BY <1>2, <3>2, <3>4, <3>10, Frames
  <2> QED BY <2>1, <2>2
<1>9. JobsSound' /\ OutcomeIsFinal
  <2>1. DOMAIN jobs' = Jobs /\ DOMAIN rows' = Jobs
    BY <1>1, <1>4
  <2> QED BY <1>7, <1>8, <2>1 DEF JobsSound, OutcomeIsFinal, OutcomeStays
<1>10. EffectsSound'
  <2>1. effects[j] = 0
    BY <1>1 DEF OrganizeInv, EffectsSound
  <2>2. /\ asked' = asked \ {j} /\ UNCHANGED <<retired, effects, svc>>
        /\ jobs'[j] # None /\ jobs'[j].committed = FALSE
    BY <1>1, <1>5, <1>6
  <2> HIDE DEF f, held, rs, gone
  <2> SUFFICES ASSUME NEW k \in Jobs
               PROVE  /\ effects[k] \in 0 .. 1
                      /\ jobs'[k] = None /\ k \notin retired => effects[k] = 0
                      /\ k \in asked \ {j} => effects[k] = 0 /\ jobs'[k] = None
                      /\ jobs'[k] # None => (jobs'[k].committed <=> effects[k] = 1)
                      /\ effects[k] = 1 => \A c \in Children(k) : svc[<<k, c>>] = "validated"
    BY <2>2 DEF EffectsSound
  <2>3. CASE k = j
    BY <2>1, <2>2, <2>3
  <2>4. CASE k # j
    BY <1>8, <2>4 DEF OrganizeInv, EffectsSound
  <2> QED BY <2>3, <2>4
<1> QED
  BY <1>1, <1>2, <1>3, <1>9, <1>10, Frames DEF OrganizeInv

-----------------------------------------------------------------------------
(* Recovery. *)

\* Recovery records for every child what the gateway has told of it.
LEMMA ReconcileSound ==
  ASSUME OrganizeInv, Reconcile
  PROVE  OrganizeInv' /\ OutcomeIsFinal
<1>1. handle # None /\ handle.job \in Jobs /\ HandleSound /\ jobs[handle.job] # None
  BY DEF Reconcile, HandleCurrent, Saved, OrganizeInv, HandleSound
<1>2. PICK j \in Jobs : j = handle.job
  BY <1>1
<1> DEFINE job == jobs[j]
           After(c) ==
             LET r == rows[j][c]
                 old == IF r # None THEN r
                        ELSE [NewRow EXCEPT !.attempt = IF <<j, c>> \in fence THEN 1 ELSE 0]
                 settled == handle.seen[c] \in Settled
             IN [attempt |-> IF settled THEN 1 ELSE old.attempt,
                 fin |-> IF settled THEN handle.seen[c] ELSE "cancelled",
                 state |-> IF job.receipt # None THEN job.receipt.children[c].state
                           ELSE IF settled THEN "EXPIRED_UNCOMMITTED" ELSE "CANCELLED_BEFORE_DISPATCH"]
           rs == [c \in Children(j) |-> After(c)]
           state == IF \E c \in Children(j) : handle.seen[c] \in Settled
                    THEN "EXPIRED_UNCOMMITTED" ELSE "CANCELLED_BEFORE_DISPATCH"
           ended == [job EXCEPT !.cancelled = TRUE, !.state = state]
<1>3. /\ \A c \in Children(j) : Resolved(c)
      /\ job.state # "COMMITTED"
      /\ \A c \in Children(j) : rows[j][c] # None =>
           /\ Paid(rows[j][c]) => handle.seen[c] = rows[j][c].fin
           /\ Released(rows[j][c]) => handle.seen[c] \notin Settled
      /\ IF job.receipt # None THEN Readable(job, rs) ELSE MayPut(ended, rs)
      /\ rows' = [rows EXCEPT ![j] = rs]
      /\ jobs' = IF job.receipt # None THEN jobs ELSE [jobs EXCEPT ![j] = Put(ended, rs)]
      /\ handle' = None
      /\ UNCHANGED <<epoch, retired, asked, fence, flight, marker, session, provs, call,
                     svc, final, wire, sends, effects>>
  BY <1>2 DEF Reconcile, gateway, history
<1>4. SettledStays
  BY <1>3 DEF SettledStays
<1>5. job \in Job(j) /\ rows[j] \in Rows(j) /\ Told(job, rows[j]) /\ FinTrue(j, rows[j], svc)
      /\ DOMAIN jobs = Jobs /\ DOMAIN rows = Jobs
  BY <1>1, <1>2 DEF OrganizeInv, JobsSound, JobSound
<1>6. ~job.committed
  BY <1>3, <1>5 DEF Told
<1>7. Base' /\ HandleSound'
  BY <1>3 DEF OrganizeInv, Base, HandleSound
<1>8. DOMAIN rs = Children(j)
  OBVIOUS
<1>9. ASSUME NEW c \in Children(j)
      PROVE  /\ rs[c] \in Row /\ rs[c].fin \in Settled \cup {"cancelled"} /\ svc[<<j, c>>] = rs[c].fin
             /\ rs[c].fin = IF handle.seen[c] \in Settled THEN handle.seen[c] ELSE "cancelled"
             /\ rs[c].state = IF job.receipt # None THEN job.receipt.children[c].state
                              ELSE IF handle.seen[c] \in Settled THEN "EXPIRED_UNCOMMITTED"
                                   ELSE "CANCELLED_BEFORE_DISPATCH"
  <2>1. rows[j][c] \in Row \cup {None}
    BY <1>5 DEF Rows
  <2> DEFINE settled == handle.seen[c] \in Settled
             attempt == IF settled THEN 1
                        ELSE IF rows[j][c] # None THEN rows[j][c].attempt
                        ELSE IF <<j, c>> \in fence THEN 1 ELSE 0
             fin == IF settled THEN handle.seen[c] ELSE "cancelled"
             st == IF job.receipt # None THEN job.receipt.children[c].state
                   ELSE IF settled THEN "EXPIRED_UNCOMMITTED" ELSE "CANCELLED_BEFORE_DISPATCH"
  <2>2. attempt \in 0 .. 1
    BY <2>1 DEF Row
  <2>3. fin \in Settled \cup {"cancelled"}
    OBVIOUS
  <2>4. st \in RowStates
    <3>1. job.receipt # None => job.receipt.children[c].state \in RowStates
      BY <1>5 DEF Job, DomainReceipt, ChildReceipt
    <3> QED BY <3>1 DEF RowStates, Terminal
  <2>5. rs[c] = [attempt |-> attempt, fin |-> fin, state |-> st]
    BY DEF NewRow
  <2>6. svc[<<j, c>>] = fin
    <3>1. handle.seen[c] \notin Settled => c \in handle.acked
      BY <1>3 DEF Resolved
    <3> QED BY <1>1, <1>2, <3>1 DEF HandleSound
  <2> HIDE DEF rs, attempt
  <2>7. rs[c].fin = fin /\ rs[c].state = st
    BY <2>5
  <2>8. rs[c] \in Row
    BY <2>2, <2>3, <2>4, <2>5 DEF Row
  <2> QED BY <2>3, <2>6, <2>7, <2>8
<1>10. rs \in Rows(j)
  BY <1>9 DEF Rows
<1> HIDE DEF rs, After
<1>11. FinTrue(j, rs, svc)
  BY <1>9 DEF FinTrue
<1>12. \A c \in Children(j) : rows[j][c] # None /\ rows[j][c].fin # "none" => rs[c].fin = rows[j][c].fin
  <2> SUFFICES ASSUME NEW c \in Children(j), rows[j][c] # None, rows[j][c].fin # "none"
               PROVE  rs[c].fin = rows[j][c].fin
    OBVIOUS
  <2>1. rows[j][c].fin \in Settled \cup {"cancelled"}
    BY <1>5 DEF Rows, Row
  <2> QED BY <1>3, <1>9, <2>1 DEF Paid, Released
<1>13. CASE job.receipt = None
  <2>1. ended \in Job(j) /\ ended.receipt = job.receipt /\ ended.committed = job.committed
        /\ ended.state = state
    BY <1>5 DEF Job, RowStates, Terminal
  <2>2. state # "COMMITTED"
    OBVIOUS
  <2> HIDE DEF ended, state
  <2>3. RowsFit(ended, rs)
    BY <1>8, <1>9, <1>13 DEF RowsFit
  <2>4. jobs' = [jobs EXCEPT ![j] = Put(ended, rs)] /\ MayPut(ended, rs) /\ jobs[j] # None
    BY <1>1, <1>2, <1>3, <1>13
  <2>5. JobsSound' /\ OutcomeIsFinal /\ EffectsSound'
    BY <1>3, <1>6, <1>10, <1>11, <1>12, <2>1, <2>2, <2>3, <2>4, SaveStep
  <2> QED BY <1>3, <1>4, <1>7, <2>5, Frames DEF OrganizeInv
<1>14. CASE job.receipt # None
  <2>1. jobs' = jobs /\ Readable(job, rs) /\ rows'[j] = rs
        /\ \A k \in Jobs \ {j} : rows'[k] = rows[k]
    BY <1>3, <1>5, <1>14
  <2>2. RowsFit(job, rs)
    <3> SUFFICES ASSUME NEW c \in Children(j), rs[c].state \in {"RESPONSE_RECORDED", "COMMITTED"}
                 PROVE  rs[c].state # "COMMITTED" /\ rs[c].fin = "validated"
      BY <1>8 DEF RowsFit
    <3>1. rs[c].state = job.receipt.children[c].state
      BY <1>9, <1>14
    <3>2. DOMAIN rows[j] = Children(j) /\ Readable(job, rows[j])
      BY <1>5, <1>14 DEF Rows, Told
    <3>3. rows[j][c] # None /\ rows[j][c].state = rs[c].state
      <4>1. Child(None).state = "CANCELLED_BEFORE_DISPATCH"
        BY DEF Child
      <4>2. /\ rows[j][c] = None => job.receipt.children[c] = Child(None)
            /\ rows[j][c] # None => rows[j][c].state = job.receipt.children[c].state
        BY <3>2 DEF Readable
      <4> QED BY <3>1, <4>1, <4>2
    <3>4. rs[c].state # "COMMITTED" /\ rows[j][c].fin = "validated"
      BY <1>3, <1>5, <3>2, <3>3 DEF Told, RowsFit
    <3> QED BY <1>12, <3>3, <3>4
  <2>3. Told(job, rs)
    BY <1>5, <1>14, <2>1, <2>2 DEF Told
  <2>4. FinTrue(j, rows[j], svc)'
    BY <1>3, <1>11, <2>1 DEF FinTrue
  <2>5. JobSound(j)' /\ OutcomeStays(j)
    BY <1>1, <1>2, <1>5, <1>10, <1>12, <2>1, <2>3, <2>4 DEF JobSound, OutcomeStays
  <2>6. \A k \in Jobs : JobSound(k)' /\ OutcomeStays(k)
    BY <1>4, <2>1, <2>5, Frames
  <2>7. JobsSound' /\ OutcomeIsFinal
    <3>1. DOMAIN rows' = Jobs
      BY <1>3, <1>5
    <3> QED BY <1>5, <2>1, <2>6, <3>1 DEF JobsSound, OutcomeIsFinal, OutcomeStays
  <2> QED BY <1>3, <1>4, <1>7, <2>1, <2>7, Frames DEF OrganizeInv
<1> QED
  BY <1>13, <1>14

-----------------------------------------------------------------------------
LEMMA InvNext ==
  ASSUME OrganizeInv, [Next]_vars
  PROVE  OrganizeInv' /\ [OutcomeIsFinal]_vars
<1>1. CASE UNCHANGED vars
  <2>1. UNCHANGED <<epoch, retired, asked, jobs, rows, fence, flight, marker, session, provs, call, handle,
                    svc, final, wire, sends, effects>>
    BY <1>1 DEF vars, store, memory, gateway, history
  <2>2. SettledStays /\ Base'
    BY <2>1 DEF SettledStays, OrganizeInv, Base
  <2> QED BY <1>1, <2>1, <2>2, Frames DEF OrganizeInv
<1>2. CASE Next
  <2> SUFFICES OrganizeInv' /\ OutcomeIsFinal
    OBVIOUS
  <2>1. CASE Change \/ Replace
    BY <2>1, ChangeSound, ReplaceSound
  <2>2. CASE \E j \in Jobs : AssertCanPlan(j) \/ Plan(j) \/ Replan(j) \/ Prepare(j) \/ Cancel(j) \/ SaveReport(j)
    BY <2>2, AssertCanPlanSound, PlanSound, ReplanSound, PrepareSound, CancelSound, SaveReportSound
  <2>3. CASE \E j \in Jobs, ack \in BOOLEAN : SendReport(j, ack)
    BY <2>3, SendReportSound
  <2>4. CASE RequestReserve \/ ReserveAnswer \/ ReserveServer \/ Dispatch \/ Commit
    BY <2>4, RequestReserveSound, ReserveAnswerSound, ReserveServerSound, DispatchSound, CommitSound
  <2>5. CASE \E o \in Ops : Send(o) \/ Unanswered(o) \/ DeliverReserve(o) \/ DeliverExecute(o)
    BY <2>5, SendSound, UnansweredSound, DeliverReserveSound, DeliverExecuteSound
  <2>6. CASE \E o \in Ops, out \in Settled, accepted \in BOOLEAN : Answered(o, out, accepted)
    BY <2>6, AnsweredSound
  <2>7. CASE \E o \in Ops, out \in Settled : SettleAtGateway(o, out)
    BY <2>7, SettleSound
  <2>8. CASE \E o \in Ops, ack \in BOOLEAN : ReleaseUnsent(o, ack)
    BY <2>8, ReleaseUnsentSound
  <2>9. CASE Abandon \/ Crash \/ Capture \/ Reconcile \/ DropHandle
    BY <2>9, AbandonSound, CrashSound, CaptureSound, ReconcileSound, DropHandleSound
  <2>10. CASE \E o \in Ops : Query(o)
    BY <2>10, QuerySound
  <2>11. CASE \E o \in Ops, ack \in BOOLEAN : CancelSeen(o, ack)
    BY <2>11, CancelSeenSound
  <2>12. CASE \E m \in wire : Lose(m)
    BY <2>12, LoseSound
  <2> QED
    BY <1>2, <2>1, <2>2, <2>3, <2>4, <2>5, <2>6, <2>7, <2>8, <2>9, <2>10, <2>11, <2>12 DEF Next
<1> QED
  BY <1>1, <1>2

LEMMA InvAlways == Spec => []OrganizeInv
<1>1. Init => OrganizeInv
  BY InitSound
<1>2. OrganizeInv /\ [Next]_vars => OrganizeInv'
  BY InvNext
<1> QED
  BY <1>1, <1>2, PTL DEF Spec

\* No child is paid for twice, whatever the gateway holds for the topic belongs
\* to the job its marker names, and what a row says was paid is what was settled:
\* for any number of jobs and children, and any number of changes and crashes.
THEOREM PaymentsAreKept == Spec => []NoPaymentIsLost
<1>1. Spec => []OrganizeInv
  BY InvAlways
<1>2. OrganizeInv => NoPaymentIsLost
  BY InvIsEnough
<1> QED
  BY <1>1, <1>2, PTL

\* A stored receipt can always be read back over its rows, the domain changes
\* once for children that were validated, the report tells what the gateway
\* settled, and no step revises an outcome.
THEOREM ReceiptsStand == Spec => ReceiptsAreTrue
<1>1. Spec => []OrganizeInv
  BY InvAlways
<1>2. OrganizeInv => SavedReceiptReadable /\ CommittedOnce /\ ReportIsTrue
  BY InvIsEnough
<1>3. OrganizeInv /\ [Next]_vars => [OutcomeIsFinal]_vars
  BY InvNext
<1> QED
  BY <1>1, <1>2, <1>3, PTL DEF Spec, ReceiptsAreTrue
=============================================================================
