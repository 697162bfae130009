----------------------------- MODULE OrganizeJob -----------------------------
(***************************************************************************)
(* The client's side of a paid organize job: the job foundation's          *)
(* transactions over the local store (foundation.js), the service client   *)
(* that prepares, runs, recovers and reports a job for one topic           *)
(* (organize-service-client.js, local-organize-session.js), the durable    *)
(* domain receipt (domain-result-receipt.js), the library replacement that *)
(* clears part of the local store (backup-service.js), and, external, the  *)
(* gateway's state of each paid operation and the wire to it.              *)
(*                                                                         *)
(* A local transaction is one action.  A call that the code refuses is no  *)
(* step.  All jobs are of one topic, so they share its flight and marker.  *)
(***************************************************************************)
EXTENDS Naturals, FiniteSets

CONSTANTS
  Jobs,     \* jobs a user can ask for: one request key each
  N,        \* how many children a job has, one per scope of its plan
  MaxEpoch, \* bound: how often authority, sources or the library change
  None

Children(j) == 1 .. N[j]
Ops == UNION {{j} \X Children(j) : j \in Jobs}

Terminal == {"COMMITTED", "CANCELLED_BEFORE_DISPATCH", "REJECTED", "EXPIRED_UNCOMMITTED"}
Settled == {"validated", "failed"}   \* financialSettlement.outcome

\* What the store and the gateway may hold of a child and of a job.
RowStates == Terminal \cup {"RESERVED", "DISPATCHED", "RESPONSE_RECORDED", "OUTCOME_UNKNOWN"}
Outcomes == {"COMMITTED", "FAILED"}
Row == [state : RowStates, attempt : 0 .. 1, fin : Settled \cup {"none", "cancelled"}]
ChildReceipt == [state : RowStates, server : BOOLEAN, paid : BOOLEAN]
DomainReceipt(j) ==
  [localState : Terminal, outcome : Outcomes, children : [Children(j) -> ChildReceipt]]
ResultReport(j) ==
  [evidence : [outcome : Outcomes, paid : SUBSET Children(j)], ack : BOOLEAN]
Job(j) ==
  [state : RowStates \cup {"PLANNED"}, cancelled : BOOLEAN, auth : 0 .. MaxEpoch,
   committed : BOOLEAN, receipt : DomainReceipt(j) \cup {None}, report : ResultReport(j) \cup {None}]

ASSUME OrganizeAssumption ==
  /\ N \in [Jobs -> Nat \ {0}] /\ MaxEpoch \in Nat
  /\ None \notin Jobs \cup Row /\ \A j \in Jobs : None \notin Job(j) \cup DomainReceipt(j)

VARIABLES
  epoch,    \* what a job's saved authority is compared with
  retired,  \* jobs no plan names again: their key digests a restore epoch now over
  jobs,     \* organizerJobs: a row, or None
  rows,     \* organizerUsage: rows[j][c], or None
  fence,    \* meta aiu:dispatched:<child>, never cleared
  flight,   \* meta aiu:flight:<topic>: the job that owns the topic
  marker,   \* meta aiu:organize-service-preflight:v1:<topic>
  asked,    \* in memory: plans admitted by assertCanPlan, not yet written
  session,  \* in memory: the running job, or None
  provs,    \* in memory: #serverProviders
  call,     \* in memory: dispatches awaiting their answer, and if they were sent
  handle,   \* in memory: an organize recovery handle, or None
  svc,      \* gateway: the state of each operation
  final,    \* gateway: the result finalised for each job, or None
  wire,     \* requests on their way to the gateway
  sends,    \* history: execute requests the client issued, per operation
  effects   \* history: domain commits, per job

store == <<jobs, rows, fence, flight, marker>>
memory == <<asked, session, provs, call, handle>>
gateway == <<svc, final, wire>>
history == <<sends, effects>>
vars == <<epoch, retired, store, memory, gateway, history>>

NewRow == [state |-> "RESERVED", attempt |-> 0, fin |-> "none"]
NewJob == [state |-> "PLANNED", cancelled |-> FALSE, auth |-> epoch,
           committed |-> FALSE, receipt |-> None, report |-> None]

Paid(r) == r.fin \in Settled
Released(r) == r.fin = "cancelled"

-----------------------------------------------------------------------------
(* The domain receipt                                                      *)

\* AIUsageFoundation.aggregate: the job's state from its attempts'
Aggregate(job, rs) ==
  LET states == {IF rs[c] # None THEN rs[c].state
                 ELSE IF job.cancelled THEN "CANCELLED_BEFORE_DISPATCH" ELSE "PLANNED" : c \in DOMAIN rs}
      attempted == \E c \in DOMAIN rs : rs[c] # None /\ rs[c].attempt > 0
      First(s, else) == IF s \in states THEN s ELSE else
  IN First("OUTCOME_UNKNOWN", First("DISPATCHED", First("RESPONSE_RECORDED",
     First("RESERVED", First("PLANNED",
       IF job.committed THEN "COMMITTED"
       ELSE IF job.cancelled /\ attempted THEN "EXPIRED_UNCOMMITTED"
       ELSE First("EXPIRED_UNCOMMITTED", First("REJECTED", "CANCELLED_BEFORE_DISPATCH")))))))

\* domainResultReceipt: when a terminal job's children admit a receipt
Complete(job, rs) ==
  /\ \A c \in DOMAIN rs :
       IF rs[c] = None THEN job.state = "CANCELLED_BEFORE_DISPATCH" /\ job.cancelled
       ELSE /\ rs[c].state \in Terminal
            /\ IF rs[c].attempt = 0 THEN rs[c].state = "CANCELLED_BEFORE_DISPATCH"
               ELSE Paid(rs[c]) \/ (rs[c].state = "CANCELLED_BEFORE_DISPATCH" /\ Released(rs[c]))
  /\ job.state = "COMMITTED" =>
       /\ ~job.cancelled /\ job.committed
       /\ \A c \in DOMAIN rs : rs[c].state = "COMMITTED"

Child(r) == IF r = None THEN [state |-> "CANCELLED_BEFORE_DISPATCH", server |-> FALSE, paid |-> FALSE]
            ELSE [state |-> r.state, server |-> TRUE, paid |-> Paid(r)]

Receipt(job, rs) ==
  [localState |-> job.state,
   outcome |-> IF job.state = "COMMITTED" THEN "COMMITTED" ELSE "FAILED",
   children |-> [c \in DOMAIN rs |-> Child(rs[c])]]

\* #putJob: a terminal job stores its receipt; a receipt once stored must still be the one issued
MayPutAgain(job, rs) ==   \* mutant
  job.state \in Terminal => Complete(job, rs)
MayPut(job, rs) ==
  /\ job.state \in Terminal => Complete(job, rs)
  /\ job.receipt # None => job.state \in Terminal /\ job.receipt = Receipt(job, rs)
Put(job, rs) == IF job.state \in Terminal THEN [job EXCEPT !.receipt = Receipt(job, rs)] ELSE job

\* savedDomainResultReceipt: the stored receipt still matches the rows, which
\* recovery may since have enriched with financial evidence
ReadableExactly(job, rs) ==   \* mutant
  job.receipt.localState = job.state /\ \A c \in DOMAIN rs : job.receipt.children[c] = Child(rs[c])
Readable(job, rs) ==
  LET r == job.receipt IN
  /\ r.localState = job.state
  /\ \A c \in DOMAIN rs :
       LET kid == r.children[c]
           financialOnly == /\ kid.state = "CANCELLED_BEFORE_DISPATCH" /\ ~kid.server /\ ~kid.paid
                            /\ r.outcome = "FAILED" /\ rs[c].fin # "none"
       IN IF rs[c] = None THEN kid = Child(None)
          ELSE /\ rs[c].state = kid.state
               /\ financialOnly \/ kid = Child(rs[c])

\* What the gateway, asked about this job, would be told: #resultEvidence
Evidence(job, rs) == [outcome |-> job.receipt.outcome, paid |-> {c \in DOMAIN rs : Paid(rs[c])}]
EvidenceAvailable(job, rs) ==
  /\ job.receipt # None /\ Readable(job, rs)
  /\ \A c \in DOMAIN rs :
       /\ rs[c] # None
       /\ \/ rs[c].state = "CANCELLED_BEFORE_DISPATCH" /\ Released(rs[c])
          \/ Paid(rs[c]) /\ (job.receipt.outcome = "COMMITTED" => rs[c].fin = "validated")
  /\ job.receipt.outcome = "COMMITTED" => \A c \in DOMAIN rs : Paid(rs[c])

\* AIUsageFoundation.current: saved authority and sources are still those of now
Current(j) == jobs[j].auth = epoch /\ ~jobs[j].cancelled

\* organize client's preflight, organizeRecovery's closed: nothing of job j is left to resolve
Closed(j) ==
  /\ jobs[j] # None /\ jobs[j].state \in Terminal /\ jobs[j].receipt # None
  /\ \A c \in Children(j) : rows[j][c] # None /\ rows[j][c].fin # "none"

-----------------------------------------------------------------------------
Init ==
  /\ epoch = 0 /\ retired = {} /\ asked = {}
  /\ jobs = [j \in Jobs |-> None]
  /\ rows = [j \in Jobs |-> [c \in Children(j) |-> None]]
  /\ fence = {}
  /\ flight = [job |-> None, dispatched |-> FALSE]
  /\ marker = None
  /\ session = None /\ provs = {} /\ call = [o \in Ops |-> "none"] /\ handle = None
  /\ svc = [o \in Ops |-> "none"] /\ final = [j \in Jobs |-> None] /\ wire = {}
  /\ sends = [o \in Ops |-> 0] /\ effects = [j \in Jobs |-> 0]

\* Authority, consent epoch, sources or human fences move on.
Change ==
  /\ epoch < MaxEpoch
  /\ epoch' = epoch + 1
  /\ UNCHANGED <<retired, store, memory, gateway, history>>

\* BackupService.#restore, mode replace: jobs and usage rows go, meta rows of
\* this client stay, and a new restore epoch invalidates every saved authority.
Replace ==
  /\ epoch < MaxEpoch
  /\ epoch' = epoch + 1
  /\ jobs' = [j \in Jobs |-> None]
  /\ rows' = [j \in Jobs |-> [c \in Children(j) |-> None]]
  /\ retired' = retired \cup asked \cup {j \in Jobs : jobs[j] # None}
  /\ asked' = {}
  /\ UNCHANGED <<fence, flight, marker, session, provs, call, handle, gateway, history>>

Untouched(r) == r # None => r.attempt = 0 /\ r.state = "RESERVED"

\* #plan of a job already saved: rebind a never-dispatched plan to the current fences
Replan(j) ==
  /\ jobs[j] # None /\ jobs[j].auth # epoch /\ ~jobs[j].cancelled
  /\ jobs[j].state \in {"PLANNED", "RESERVED"}
  /\ \A c \in Children(j) : <<j, c>> \notin fence /\ Untouched(rows[j][c])
  /\ jobs' = [jobs EXCEPT ![j].auth = epoch]
  /\ UNCHANGED <<epoch, retired, rows, fence, flight, marker, memory, gateway, history>>

CancelledRows(rs) ==
  [c \in DOMAIN rs |-> IF rs[c] = None THEN None ELSE [rs[c] EXCEPT !.state = "CANCELLED_BEFORE_DISPATCH"]]

\* organize client's preflight, and assertCanPlan
PreflightMissing == marker # None /\ jobs[marker] # None => Closed(marker)   \* mutant
Preflight == marker # None => Closed(marker)
AssertCanPlan(j) ==
  /\ jobs[j] = None /\ j \notin retired \cup asked
  /\ Preflight
  /\ asked' = asked \cup {j}
  /\ UNCHANGED <<epoch, retired, store, session, provs, call, handle, gateway, history>>

\* #plan of a new job: it takes the topic's flight from a job that is over, or
\* from a stale one that was never dispatched, which it cancels
Plan(j) ==
  LET f == flight.job
      held == f # None /\ jobs[f] # None /\ jobs[f].state \notin Terminal
      rs == CancelledRows(rows[f])
      gone == [jobs[f] EXCEPT !.cancelled = TRUE, !.state = "CANCELLED_BEFORE_DISPATCH"]
  IN /\ jobs[j] = None /\ j \in asked
     /\ asked' = asked \ {j}
     /\ f # None /\ jobs[f] = None => ~flight.dispatched
     /\ held => /\ ~Current(f)
                /\ jobs[f].state \in {"PLANNED", "RESERVED"}
                /\ \A c \in Children(f) : rows[f][c] # None => rows[f][c].attempt = 0
                /\ MayPut(gone, rs)
     /\ jobs' = IF held THEN [jobs EXCEPT ![f] = Put(gone, rs), ![j] = NewJob]
                ELSE [jobs EXCEPT ![j] = NewJob]
     /\ rows' = IF held THEN [rows EXCEPT ![f] = rs] ELSE rows
     /\ flight' = [job |-> j, dispatched |-> FALSE]
     /\ UNCHANGED <<epoch, retired, fence, marker, session, provs, call, handle, gateway, history>>

-----------------------------------------------------------------------------
(* Preparing: one marker before the first child is reserved at the gateway *)

NoRows(j) == \A c \in Children(j) : rows[j][c] = None
\* prepare: the write of the marker, with every child's request
Prepare(j) ==
  /\ session = None
  /\ jobs[j] # None /\ jobs[j].state = "PLANNED" /\ NoRows(j) /\ Current(j)
  /\ Preflight
  /\ marker' = j
  /\ session' = [job |-> j, phase |-> "reserve", next |-> 1]
  /\ UNCHANGED <<epoch, retired, asked, jobs, rows, fence, flight, provs, call, handle, gateway, history>>

In(phase) == session # None /\ session.phase = phase
Op == <<session.job, session.next>>

\* publishDeclaration and reserveDeclaration of the next child
RequestReserve ==
  /\ In("reserve") /\ session.next \in Children(session.job)
  /\ jobs[session.job] # None /\ Current(session.job)
  /\ wire' = wire \cup {[kind |-> "reserve", op |-> Op]}
  /\ session' = [session EXCEPT !.phase = "reserving"]
  /\ UNCHANGED <<epoch, retired, asked, store, provs, call, handle, svc, final, history>>

ReserveAnswer ==
  /\ In("reserving") /\ svc[Op] = "reserved"
  /\ session' = [session EXCEPT !.phase = "reserve", !.next = @ + 1]
  /\ UNCHANGED <<epoch, retired, asked, store, provs, call, handle, gateway, history>>

\* reserveServer: all children at once, then their providers are held in memory
ReserveServer ==
  LET j == session.job
      rs == [c \in Children(j) |-> NewRow]
      job == [jobs[j] EXCEPT !.state = "RESERVED"]
  IN /\ In("reserve") /\ session.next = N[j] + 1
     /\ jobs[j] # None /\ Current(j) /\ jobs[j].state = "PLANNED" /\ ~jobs[j].committed
     /\ NoRows(j) /\ \A c \in Children(j) : <<j, c>> \notin fence
     /\ MayPut(job, rs)
     /\ rows' = [rows EXCEPT ![j] = rs]
     /\ jobs' = [jobs EXCEPT ![j] = Put(job, rs)]
     /\ provs' = provs \cup {<<j, c>> : c \in Children(j)}
     /\ session' = [job |-> j, phase |-> "dispatch", next |-> 1]
     /\ UNCHANGED <<epoch, retired, asked, fence, flight, marker, call, handle, gateway, history>>

-----------------------------------------------------------------------------
(* Dispatching                                                             *)

\* dispatch, its first transaction: the fence and the attempt before the request
Dispatch ==
  LET j == session.job
      c == session.next
      rs == [rows[j] EXCEPT ![c].state = "DISPATCHED", ![c].attempt = 1]
      job == [jobs[j] EXCEPT !.state = "DISPATCHED"]
  IN /\ In("dispatch") /\ c \in Children(j)
     /\ jobs[j] # None /\ Current(j) /\ jobs[j].state \notin Terminal
     /\ flight.job = j
     /\ rows[j][c] # None /\ rows[j][c].state = "RESERVED"
     /\ Op \in provs /\ Op \notin fence
     /\ MayPut(job, rs)
     /\ fence' = fence \cup {Op}
     /\ flight' = [flight EXCEPT !.dispatched = TRUE]
     /\ rows' = [rows EXCEPT ![j] = rs]
     /\ jobs' = [jobs EXCEPT ![j] = Put(job, rs)]
     /\ call' = [call EXCEPT ![Op] = "held"]
     /\ session' = [session EXCEPT !.phase = "answer"]
     /\ UNCHANGED <<epoch, retired, asked, marker, provs, handle, gateway, history>>

\* provider.execute after assertBeforeSend, inside the repository's write fence
Send(o) ==
  /\ call[o] = "held"
  /\ jobs[o[1]] # None /\ Current(o[1])
  /\ call' = [call EXCEPT ![o] = "sent"]
  /\ wire' = wire \cup {[kind |-> "execute", op |-> o]}
  /\ sends' = [sends EXCEPT ![o] = @ + 1]
  /\ UNCHANGED <<epoch, retired, asked, store, session, provs, handle, svc, final, effects>>

Keeps(j, outcome, accepted) == Current(j) /\ accepted /\ outcome = "validated"

\* dispatch, after the answer: what the gateway settled is recorded whatever
\* became of the job; only a live attempt of a current job keeps the content
Answered(o, outcome, accepted) ==
  LET j == o[1]
      c == o[2]
      r == rows[j][c]
      state == IF ~(Current(j) /\ r.state = "DISPATCHED") THEN "EXPIRED_UNCOMMITTED"
               ELSE IF Keeps(j, outcome, accepted) THEN "RESPONSE_RECORDED"
               ELSE IF outcome = "failed" THEN "REJECTED" ELSE "EXPIRED_UNCOMMITTED"
      rs == [rows[j] EXCEPT ![c] = [r EXCEPT !.state = state, !.fin = outcome]]
      job == [jobs[j] EXCEPT !.state = Aggregate(jobs[j], rs)]
      goesOn == state = "RESPONSE_RECORDED" /\ In("answer") /\ Op = o
  IN /\ call[o] = "sent" /\ outcome \in Settled /\ svc[o] = outcome
     /\ jobs[j] # None /\ r # None
     /\ Paid(r) => r.fin = outcome
     /\ MayPut(job, rs)
     /\ rows' = [rows EXCEPT ![j] = rs]
     /\ jobs' = [jobs EXCEPT ![j] = Put(job, rs)]
     /\ session' = IF goesOn /\ c = N[j] THEN [session EXCEPT !.phase = "commit"]
                   ELSE IF goesOn THEN [session EXCEPT !.phase = "dispatch", !.next = @ + 1]
                   ELSE IF session # None /\ session.job = j THEN None ELSE session
     /\ call' = [call EXCEPT ![o] = "none"]
     /\ provs' = provs \ {o}
     /\ UNCHANGED <<epoch, retired, asked, fence, flight, marker, handle, gateway, history>>

\* An answer the transport did not observe, a refusal, an error or a timeout:
\* markUnknown and the unobserved branch of dispatch
Unanswered(o) ==
  LET j == o[1]
      c == o[2]
      rs == [rows[j] EXCEPT ![c].state = "OUTCOME_UNKNOWN"]
      job == [jobs[j] EXCEPT !.state = "OUTCOME_UNKNOWN"]
      saves == jobs[j] # None /\ rows[j][c] # None /\ MayPut(job, rs)
  IN /\ call[o] # "none"
     /\ rows' = IF saves THEN [rows EXCEPT ![j] = rs] ELSE rows
     /\ jobs' = IF saves THEN [jobs EXCEPT ![j] = Put(job, rs)] ELSE jobs
     /\ call' = [call EXCEPT ![o] = "none"]
     /\ provs' = provs \ {o}
     /\ session' = IF session # None /\ session.job = j THEN None ELSE session
     /\ UNCHANGED <<epoch, retired, asked, fence, flight, marker, handle, gateway, history>>

\* commitOrganizeClosure, and commitFacet of a single child: the domain change,
\* its coverage, every attempt and the job in one transaction
Commit ==
  LET j == session.job
      rs == [c \in Children(j) |-> [rows[j][c] EXCEPT !.state = "COMMITTED"]]
      job == [jobs[j] EXCEPT !.committed = TRUE, !.state = "COMMITTED"]
  IN /\ In("commit")
     /\ jobs[j] # None /\ Current(j) /\ ~jobs[j].committed
     /\ \A c \in Children(j) : rows[j][c] # None /\ rows[j][c].state = "RESPONSE_RECORDED" /\ Paid(rows[j][c])
     /\ MayPut(job, rs)
     /\ rows' = [rows EXCEPT ![j] = rs]
     /\ jobs' = [jobs EXCEPT ![j] = Put(job, rs)]
     /\ effects' = [effects EXCEPT ![j] = @ + 1]
     /\ session' = None
     /\ UNCHANGED <<epoch, retired, asked, fence, flight, marker, provs, call, handle, gateway, sends>>

-----------------------------------------------------------------------------
(* Stopping                                                                *)

\* #cancelInTransaction: an attempt that may have been billed is never released
Cancel(j) ==
  LET After(r) == IF r = None THEN None
                  ELSE IF r.attempt = 0 THEN [r EXCEPT !.state = "CANCELLED_BEFORE_DISPATCH"]
                  ELSE IF r.state \in {"DISPATCHED", "OUTCOME_UNKNOWN"} THEN [r EXCEPT !.state = "OUTCOME_UNKNOWN"]
                  ELSE IF r.state # "COMMITTED" THEN [r EXCEPT !.state = "EXPIRED_UNCOMMITTED"] ELSE r
      rs == [c \in Children(j) |-> After(rows[j][c])]
      tried == {c \in Children(j) : rs[c] # None /\ rs[c].attempt > 0}
      job == [jobs[j] EXCEPT !.cancelled = TRUE,
                !.state = IF \E c \in tried : rs[c].state = "OUTCOME_UNKNOWN" THEN "OUTCOME_UNKNOWN"
                          ELSE IF tried # {} THEN "EXPIRED_UNCOMMITTED" ELSE "CANCELLED_BEFORE_DISPATCH"]
  IN /\ jobs[j] # None /\ jobs[j].state \notin Terminal
     /\ jobs[j].cancelled => job # jobs[j] \/ rs # rows[j]
     /\ MayPut(job, rs)
     /\ rows' = [rows EXCEPT ![j] = rs]
     /\ jobs' = [jobs EXCEPT ![j] = Put(job, rs)]
     /\ session' = IF session # None /\ session.job = j /\ session.phase # "commit" THEN None ELSE session
     /\ UNCHANGED <<epoch, retired, asked, fence, flight, marker, provs, call, handle, gateway, history>>

\* The gateway's RecordCancelled: only what was never claimed by a runner
Cancellable(o) == svc[o] \in {"reserved", "cancelled"}

\* cancelServer, after the cancellation: release the hold of each unsent child;
\* the acknowledgement may be lost
ReleaseUnsent(o, acknowledged) ==
  LET r == rows[o[1]][o[2]] IN
  /\ o \in provs /\ call[o] = "none" /\ Cancellable(o)
  /\ r # None /\ r.state = "CANCELLED_BEFORE_DISPATCH" /\ r.attempt = 0 /\ ~Released(r)
  /\ svc' = [svc EXCEPT ![o] = "cancelled"]
  /\ rows' = IF acknowledged THEN [rows EXCEPT ![o[1]][o[2]].fin = "cancelled"] ELSE rows
  /\ provs' = IF acknowledged THEN provs \ {o} ELSE provs
  /\ UNCHANGED <<epoch, retired, asked, jobs, fence, flight, marker, session, call, handle, final, wire, history>>

\* The run fails, or the user stops it, before any cancellation is saved.
Abandon ==
  /\ session # None /\ session.phase # "commit"
  /\ session' = None
  /\ UNCHANGED <<epoch, retired, asked, store, provs, call, handle, gateway, history>>

\* The page or the worker goes away; requests on the wire do not.
Crash ==
  /\ asked' = {} /\ session' = None /\ provs' = {} /\ call' = [o \in Ops |-> "none"] /\ handle' = None
  /\ memory' # memory
  /\ UNCHANGED <<epoch, retired, store, gateway, history>>

-----------------------------------------------------------------------------
(* Recovering the job the marker names                                     *)

Retained(j) == session # None /\ session.job = j
Saved(j) == <<jobs[j], rows[j], {o \in fence : o[1] = j}, flight, marker>>

\* organizeRecovery: #organizeRecoverySnapshot and a private handle on it
Capture ==
  /\ handle = None /\ marker # None /\ ~Retained(marker)
  /\ jobs[marker] # None /\ flight.job = marker /\ ~Closed(marker)
  /\ handle' = [job |-> marker, saved |-> Saved(marker), seen |-> [c \in Children(marker) |-> "none"], acked |-> {}]
  /\ UNCHANGED <<epoch, retired, asked, store, session, provs, call, gateway, history>>

\* #organizeRecoveryCurrent and the caller's own liveness
HandleCurrent == handle # None /\ handle.saved = Saved(handle.job) /\ ~Retained(handle.job)
Resolved(c) == handle.seen[c] \in Settled \/ c \in handle.acked

\* queryOrganizeRecovery; an operation the gateway does not know, or whose end
\* it does not know, ends the recovery
Query(o) ==
  /\ HandleCurrent /\ handle.job = o[1]
  /\ handle.seen[o[2]] = "none" /\ \A d \in 1 .. o[2] - 1 : Resolved(d)
  /\ svc[o] \in {"reserved", "cancelled"} \cup Settled
  /\ handle' = [handle EXCEPT !.seen[o[2]] = svc[o]]
  /\ UNCHANGED <<epoch, retired, asked, store, session, provs, call, gateway, history>>

\* cancelOrganizeRecovery, whose acknowledgement may be lost
CancelSeen(o, acknowledged) ==
  /\ HandleCurrent /\ handle.job = o[1]
  /\ handle.seen[o[2]] \in {"reserved", "cancelled"} /\ o[2] \notin handle.acked
  /\ Cancellable(o)
  /\ svc' = [svc EXCEPT ![o] = "cancelled"]
  /\ handle' = IF acknowledged THEN [handle EXCEPT !.acked = @ \cup {o[2]}] ELSE None
  /\ UNCHANGED <<epoch, retired, asked, store, session, provs, call, final, wire, history>>

\* reconcileOrganizeRecovery: financial truth for every child, and a terminal
\* job unless its receipt was issued before
Reconcile ==
  LET j == handle.job
      job == jobs[j]
      After(c) ==
        LET r == rows[j][c]
            old == IF r # None THEN r
                   ELSE [NewRow EXCEPT !.attempt = IF <<j, c>> \in fence THEN 1 ELSE 0]
            settled == handle.seen[c] \in Settled
        IN [attempt |-> IF settled THEN 1 ELSE old.attempt,
            fin |-> IF settled THEN handle.seen[c] ELSE "cancelled",
            state |-> IF job.receipt # None THEN job.receipt.children[c].state
                      ELSE IF settled THEN "EXPIRED_UNCOMMITTED" ELSE "CANCELLED_BEFORE_DISPATCH"]
      rs == [c \in Children(j) |-> After(c)]
      ended == [job EXCEPT !.cancelled = TRUE,
                 !.state = IF \E c \in Children(j) : handle.seen[c] \in Settled
                           THEN "EXPIRED_UNCOMMITTED" ELSE "CANCELLED_BEFORE_DISPATCH"]
  IN /\ HandleCurrent
     /\ \A c \in Children(j) : Resolved(c)
     /\ job.state # "COMMITTED" /\ (job.receipt # None => job.receipt.outcome = "FAILED")
     /\ \A c \in Children(j) : rows[j][c] # None =>
          /\ Paid(rows[j][c]) => handle.seen[c] = rows[j][c].fin
          /\ Released(rows[j][c]) => handle.seen[c] \notin Settled
     /\ IF job.receipt # None THEN Readable(job, rs) ELSE MayPut(ended, rs)
     /\ rows' = [rows EXCEPT ![j] = rs]
     /\ jobs' = IF job.receipt # None THEN jobs ELSE [jobs EXCEPT ![j] = Put(ended, rs)]
     /\ handle' = None
     /\ UNCHANGED <<epoch, retired, asked, fence, flight, marker, session, provs, call, gateway, history>>

DropHandle ==
  /\ handle # None
  /\ handle' = None
  /\ UNCHANGED <<epoch, retired, asked, store, session, provs, call, gateway, history>>

-----------------------------------------------------------------------------
(* Reporting the result                                                    *)

\* reportResult: the event is saved before it is sent
SaveReport(j) ==
  /\ jobs[j] # None /\ EvidenceAvailable(jobs[j], rows[j]) /\ jobs[j].report = None
  /\ jobs' = [jobs EXCEPT ![j].report = [evidence |-> Evidence(jobs[j], rows[j]), ack |-> FALSE]]
  /\ UNCHANGED <<epoch, retired, rows, fence, flight, marker, memory, gateway, history>>

\* its request, after a second check of the evidence; the answer may be lost
SendReport(j, acknowledged) ==
  /\ jobs[j] # None /\ jobs[j].report # None /\ ~jobs[j].report.ack
  /\ EvidenceAvailable(jobs[j], rows[j]) /\ Evidence(jobs[j], rows[j]) = jobs[j].report.evidence
  /\ final[j] \in {None, jobs[j].report.evidence}
  /\ final' = [final EXCEPT ![j] = jobs[j].report.evidence]
  /\ jobs' = IF acknowledged THEN [jobs EXCEPT ![j].report.ack = TRUE] ELSE jobs
  /\ UNCHANGED <<epoch, retired, rows, fence, flight, marker, memory, svc, wire, history>>

-----------------------------------------------------------------------------
(* The gateway, external: see ProviderDispatch for its inside              *)

DeliverReserve(o) ==
  /\ [kind |-> "reserve", op |-> o] \in wire
  /\ svc' = [svc EXCEPT ![o] = IF @ = "none" THEN "reserved" ELSE @]
  /\ wire' = wire \ {[kind |-> "reserve", op |-> o]}
  /\ UNCHANGED <<epoch, retired, store, memory, final, history>>

DeliverExecute(o) ==
  /\ [kind |-> "execute", op |-> o] \in wire
  /\ svc' = [svc EXCEPT ![o] = IF @ = "reserved" THEN "sent" ELSE @]
  /\ wire' = wire \ {[kind |-> "execute", op |-> o]}
  /\ UNCHANGED <<epoch, retired, store, memory, final, history>>

Lose(m) ==
  /\ wire' = wire \ {m}
  /\ UNCHANGED <<epoch, retired, store, memory, svc, final, history>>

SettleAtGateway(o, outcome) ==
  /\ svc[o] = "sent" /\ outcome \in Settled
  /\ svc' = [svc EXCEPT ![o] = outcome]
  /\ UNCHANGED <<epoch, retired, store, memory, final, wire, history>>

Next ==
  \/ Change \/ Replace
  \/ \E j \in Jobs : AssertCanPlan(j) \/ Plan(j) \/ Replan(j) \/ Prepare(j) \/ Cancel(j) \/ SaveReport(j)
  \/ \E j \in Jobs, ack \in BOOLEAN : SendReport(j, ack)
  \/ RequestReserve \/ ReserveAnswer \/ ReserveServer \/ Dispatch \/ Commit
  \/ \E o \in Ops : Send(o) \/ Unanswered(o) \/ DeliverReserve(o) \/ DeliverExecute(o)
  \/ \E o \in Ops, out \in Settled, accepted \in BOOLEAN : Answered(o, out, accepted)
  \/ \E o \in Ops, out \in Settled : SettleAtGateway(o, out)
  \/ \E o \in Ops, ack \in BOOLEAN : ReleaseUnsent(o, ack)
  \/ Abandon \/ Crash \/ Capture \/ Reconcile \/ DropHandle
  \/ \E o \in Ops : Query(o)
  \/ \E o \in Ops, ack \in BOOLEAN : CancelSeen(o, ack)
  \/ \E m \in wire : Lose(m)

Spec == Init /\ [][Next]_vars

\* The user keeps asking for the topic, so a recovery starts again whenever none
\* runs; each one ends, and some of them live long enough for every step.  The
\* gateway settles what it sent.
Fairness ==
  /\ WF_vars(Capture) /\ WF_vars(DropHandle) /\ SF_vars(Reconcile)
  /\ \A o \in Ops : SF_vars(Query(o)) /\ SF_vars(CancelSeen(o, TRUE))
  /\ \A o \in Ops : WF_vars(\E out \in Settled : SettleAtGateway(o, out))

FairSpec == Spec /\ Fairness

-----------------------------------------------------------------------------
(* Properties                                                              *)

\* Every variable stays in its range; a saved row always belongs to a saved
\* job, and the run that goes on is that of the job the marker names.
TypeOK ==
  /\ epoch \in 0 .. MaxEpoch
  /\ DOMAIN jobs = Jobs /\ DOMAIN rows = Jobs
  /\ \A j \in Jobs :
       /\ jobs[j] \in Job(j) \cup {None}
       /\ rows[j] \in [Children(j) -> Row \cup {None}]
       /\ jobs[j] = None => NoRows(j)
  /\ asked \subseteq Jobs /\ retired \subseteq Jobs
  /\ fence \subseteq Ops /\ provs \subseteq Ops
  /\ flight \in [job : Jobs \cup {None}, dispatched : BOOLEAN] /\ marker \in Jobs \cup {None}
  /\ session # None =>
       /\ session \in [job : {marker}, next : 1 .. N[marker] + 1,
                       phase : {"reserve", "reserving", "dispatch", "answer", "commit"}]
       /\ marker # None
  /\ handle # None =>
       /\ handle \in [job : Jobs, saved : {handle.saved}, seen : {handle.seen}, acked : {handle.acked}]
       /\ handle.acked \subseteq Children(handle.job)
       /\ handle.seen \in [Children(handle.job) -> Settled \cup {"none", "reserved", "cancelled"}]
  /\ call \in [Ops -> {"none", "held", "sent"}]
  /\ svc \in [Ops -> Settled \cup {"none", "reserved", "sent", "cancelled"}]
  /\ wire \subseteq [kind : {"reserve", "execute"}, op : Ops]
  /\ sends \in [Ops -> Nat] /\ effects \in [Jobs -> Nat]
  /\ DOMAIN final = Jobs

\* A child is sent to the provider at most once in the life of the store:
\* the fence outlives the job, a library replacement and every restart.
AtMostOneSend == \A o \in Ops : sends[o] <= 1

\* Whatever the gateway holds, or may still come to hold, for this topic
\* belongs to the job the marker names: no second job is ever prepared while
\* an operation of the first can still cost.
MarkerCoversHolds ==
  /\ \A o \in Ops : svc[o] \in {"reserved", "sent"} => marker = o[1]
  /\ \A m \in wire : m.kind = "reserve" /\ svc[m.op] = "none" => marker = m.op[1]

\* A row's financial evidence is the gateway's truth: nothing is recorded as
\* released while it may be billed, nor as settled otherwise than it was.
FinancialTruth ==
  \A o \in Ops : rows[o[1]][o[2]] # None /\ rows[o[1]][o[2]].fin # "none" => svc[o] = rows[o[1]][o[2]].fin

\* No child is paid for twice, no hold is left behind for another job to
\* double, and what the client believes was paid is what the gateway settled.
NoPaymentIsLost == TypeOK /\ AtMostOneSend /\ MarkerCoversHolds /\ FinancialTruth

\* A receipt stays readable: no later transaction leaves the rows in a state
\* the stored receipt does not describe, which would block its report forever.
SavedReceiptReadable ==
  \A j \in Jobs : jobs[j] # None /\ jobs[j].receipt # None => Readable(jobs[j], rows[j])

\* Domain changes commit at most once per job, and only when every child was
\* validated and paid at the gateway.
CommittedOnce ==
  \A j \in Jobs :
    /\ effects[j] <= 1
    /\ effects[j] = 1 => \A c \in Children(j) : svc[<<j, c>>] = "validated"
    /\ jobs[j] # None /\ jobs[j].state = "COMMITTED" => effects[j] = 1

\* What the gateway was told of a job stays true of every child there: each has
\* ended, those reported paid are those that settled, and a commitment is
\* reported only of a job whose every child was validated.
ReportIsTrue ==
  \A o \in Ops : final[o[1]] # None =>
    /\ svc[o] \in Settled \cup {"cancelled"}
    /\ o[2] \in final[o[1]].paid <=> svc[o] \in Settled
    /\ final[o[1]].outcome = "COMMITTED" => svc[o] = "validated"

\* What has ended stays ended: no late answer, timeout, cancellation or recovery
\* reopens a job with a receipt, rewrites the receipt, or takes financial
\* evidence back; only a library replacement removes them.
OutcomeIsFinal ==
  \A j \in Jobs : jobs[j] # None /\ jobs'[j] # None =>
    /\ jobs[j].receipt # None => jobs'[j].receipt = jobs[j].receipt /\ jobs'[j].state = jobs[j].state
    /\ \A c \in Children(j) : rows[j][c] # None /\ rows[j][c].fin # "none" => rows'[j][c].fin = rows[j][c].fin

\* A saved receipt can be read back, the domain is changed once per job, the
\* report tells what happened, and an outcome is never revised.
ReceiptsAreTrue ==
  [](SavedReceiptReadable /\ CommittedOnce /\ ReportIsTrue) /\ [][OutcomeIsFinal]_vars

\* A job the marker names, abandoned by its run at any point after the gateway
\* learned every child, is always closed in the end: no order of late sends,
\* lost acknowledgements, local cancellation and restarts leaves the topic blocked.
Unresolved(j) ==
  /\ marker = j /\ jobs[j] # None /\ ~Retained(j)
  /\ \A c \in Children(j) : svc[<<j, c>>] # "none"
RecoveryCloses == \A j \in Jobs : Unresolved(j) ~> (jobs[j] = None \/ Closed(j))
=============================================================================
