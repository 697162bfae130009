-------------------------- MODULE CaptureRecovery --------------------------
(***************************************************************************)
(* background/capture-recovery.js: the worker replaces stale capture       *)
(* scripts in open chat tabs without reloading them.  A repair is a loop   *)
(* of awaited browser calls - read the tab, probe the document, wait for a *)
(* runtime that is still starting, inject every script group into the      *)
(* probed document - and while it runs the tab may navigate, the same tab  *)
(* may be asked for again, by force after an update, and a selection hold  *)
(* may stop everything.  A browser call takes effect when it is answered.  *)
(***************************************************************************)
EXTENDS Naturals, FiniteSets

CONSTANTS Tabs,
          Groups,      \* script groups of the manifest, injected in order
          Grace,       \* probes of a starting runtime before it is replaced
          MaxDocs,     \* bound: documents a tab loads
          MaxRequests, \* bound: events that ask for a repair
          MaxHolds,    \* bound: holds acquired
          None

VARIABLES page,       \* what each tab shows: document, eligibility, runtime, groups it received
          task,       \* the pending repair of each tab
          sweeps,     \* repairAll calls that have not dispatched yet
          hold,       \* the selection hold
          admission,  \* the serial of admitted work
          owed,       \* history: a forced repair "asked" for, "taken" up by a pass, or "no"
          requests, holds

vars == <<page, task, sweeps, hold, admission, owed, requests, holds>>

Pages == [doc : 1..MaxDocs, allowed : BOOLEAN, got : SUBSET (1..Groups),
          runtime : {"absent", "stale", "starting", "ready"}]
Tasks == [pc : {"gate", "tab", "probe", "wait", "reprobe", "inject"}, force : BOOLEAN,
          replacing : BOOLEAN, admission : Nat, doc : 0..MaxDocs, tries : 0..Grace, group : 1..Groups]
NewTask(force) == [pc |-> "gate", force |-> force, replacing |-> FALSE, admission |-> admission,
                   doc |-> 0, tries |-> 0, group |-> 1]

Holds == [valid : BOOLEAN, ready : BOOLEAN, failed : BOOLEAN]

ASSUME RecoveryAssumption ==
    /\ Groups \in Nat \ {0} /\ Grace \in Nat /\ MaxDocs \in Nat
    /\ None \notin Tasks /\ None \notin Holds

Init ==
    /\ page \in [Tabs -> {p \in Pages : p.doc = 1 /\ p.got = {} /\ p.runtime # "ready" /\ p.allowed}]
    /\ task = [t \in Tabs |-> None]
    /\ sweeps = {}
    /\ hold = None
    /\ admission = 0
    /\ owed = [t \in Tabs |-> "no"]
    /\ requests = 0
    /\ holds = 0

(* A step of the task's code runs only while its admission lasts. *)
Admitted(serial) == hold = None /\ serial = admission
Stopped(t) == ~Admitted(task[t].admission)
Invalidated == IF hold = None THEN None ELSE [hold EXCEPT !.valid = FALSE]

AskedOnce(t, force) == IF task[t] = None THEN NewTask(force) ELSE task[t]   \* mutant
(* repair: a pending task of this admission is told to go round by force, *)
(* a tab without one gets a task. *)
Asked(t, force) ==
    IF task[t] = None THEN NewTask(force)
    ELSE [task[t] EXCEPT !.force = @ \/ (force /\ task[t].admission = admission)]
NowOwed(t, force) ==
    IF force /\ (task[t] = None \/ task[t].admission = admission) THEN "asked" ELSE owed[t]

Request(t) ==
    /\ requests < MaxRequests
    /\ requests' = requests + 1
    /\ \/ /\ hold # None
          /\ hold' = Invalidated
          /\ UNCHANGED <<task, owed>>
       \/ /\ hold = None
          /\ \E force \in BOOLEAN :
                /\ task' = [task EXCEPT ![t] = Asked(t, force)]
                /\ owed' = [owed EXCEPT ![t] = NowOwed(t, force)]
          /\ UNCHANGED hold
    /\ UNCHANGED <<page, sweeps, admission, holds>>

(* repairAll: installation and update ask by force, start-up and a new     *)
(* permission do not. *)
SweepRequest ==
    /\ requests < MaxRequests
    /\ requests' = requests + 1
    /\ \/ /\ hold # None
          /\ hold' = Invalidated
          /\ UNCHANGED sweeps
       \/ /\ hold = None
          /\ \E force \in BOOLEAN :
                sweeps' = sweeps \cup {[force |-> force, admission |-> admission, id |-> requests]}
          /\ UNCHANGED hold
    /\ UNCHANGED <<page, task, admission, owed, holds>>

(* The query's answer: every tab that was listed and is eligible is asked for. *)
SweepAnswer(s) ==
    /\ sweeps' = sweeps \ {s}
    /\ LET listed == IF Admitted(s.admission) THEN {t \in Tabs : page[t].allowed} ELSE {}
       IN /\ task' = [t \in Tabs |-> IF t \in listed THEN Asked(t, s.force) ELSE task[t]]
          /\ owed' = [t \in Tabs |-> IF t \in listed THEN NowOwed(t, s.force) ELSE owed[t]]
    /\ UNCHANGED <<page, hold, admission, requests, holds>>

(* How a repair ends: excused - interrupted, not a chat page, the document *)
(* gone - or settled, with nothing left to do. *)
Excused(t) == task' = [task EXCEPT ![t] = None] /\ owed' = [owed EXCEPT ![t] = "no"]
Settled(t) == task' = [task EXCEPT ![t] = None] /\ UNCHANGED owed
Becomes(t, k) == task' = [task EXCEPT ![t] = k]

(* The head of the loop. *)
Loop(t) ==
    IF Stopped(t) THEN Excused(t)
    ELSE LET k == task[t]
         IN /\ Becomes(t, [k EXCEPT !.pc = "tab", !.replacing = k.force, !.force = FALSE,
                                     !.tries = 0, !.group = 1])
            /\ owed' = IF k.force THEN [owed EXCEPT ![t] = "taken"] ELSE owed

(* What the repair does with a probe's answer. *)
Decide(t, k) ==
    \/ /\ ~k.replacing /\ ~k.force /\ k.tries < Grace /\ page[t].runtime = "starting"
       /\ Becomes(t, [k EXCEPT !.pc = "wait"])
       /\ UNCHANGED owed
    \/ /\ ~k.replacing /\ k.force
       /\ Loop(t)
    \/ /\ ~k.replacing /\ ~k.force /\ page[t].runtime = "ready"
       /\ Settled(t)
    \/ /\ \/ k.replacing
          \/ /\ ~k.force
             /\ page[t].runtime # "ready"
             /\ (page[t].runtime = "starting" => k.tries = Grace)
       /\ Becomes(t, [k EXCEPT !.pc = "inject", !.group = 1])
       /\ UNCHANGED owed

Gate(t) ==
    /\ task[t].pc = "gate"
    /\ Loop(t)
    /\ UNCHANGED <<page, hold>>

TabAnswer(t) ==
    /\ task[t].pc = "tab"
    /\ IF Stopped(t) \/ ~page[t].allowed THEN Excused(t)
       ELSE Becomes(t, [task[t] EXCEPT !.pc = "probe"]) /\ UNCHANGED owed
    /\ UNCHANGED <<page, hold>>

ProbeAnswer(t) ==
    /\ task[t].pc = "probe"
    /\ IF Stopped(t) \/ ~page[t].allowed THEN Excused(t)
       ELSE Decide(t, [task[t] EXCEPT !.doc = page[t].doc])
    /\ UNCHANGED <<page, hold>>

(* 250 ms later. *)
WaitOver(t) ==
    /\ task[t].pc = "wait"
    /\ \/ /\ Stopped(t)
          /\ Excused(t)
       \/ /\ ~Stopped(t) /\ task[t].force
          /\ Loop(t)
       \/ /\ ~Stopped(t) /\ ~task[t].force
          /\ Becomes(t, [task[t] EXCEPT !.pc = "reprobe"])
          /\ UNCHANGED owed
    /\ UNCHANGED <<page, hold>>

ReprobeAnswer(t) ==
    /\ task[t].pc = "reprobe"
    /\ IF Stopped(t) \/ page[t].doc # task[t].doc THEN Excused(t)
       ELSE Decide(t, [task[t] EXCEPT !.tries = @ + 1])
    /\ UNCHANGED <<page, hold>>

(* The browser runs a group in the pinned document only; if that document  *)
(* is gone the call rejects. *)
Delivered(t, k) == page[t].doc = k.doc

InjectAnswer(t) ==
    LET k == task[t]
        last == k.group = Groups
    IN  /\ k.pc = "inject"
        /\ Delivered(t, k)
        /\ page' = [page EXCEPT ![t].got = IF k.group = 1 THEN {1} ELSE @ \cup {k.group},
                                ![t].runtime = IF last THEN "starting" ELSE @]
        /\ \/ /\ ~last /\ Stopped(t)
              /\ Excused(t)
           \/ /\ ~last /\ ~Stopped(t)
              /\ Becomes(t, [k EXCEPT !.group = @ + 1])
              /\ UNCHANGED owed
           \/ /\ last /\ k.force
              /\ Loop(t)
           \/ /\ last /\ ~k.force
              /\ task' = [task EXCEPT ![t] = None]
              /\ owed' = [owed EXCEPT ![t] = IF @ = "taken" THEN "no" ELSE @]
        /\ UNCHANGED hold

(* A closed tab, a withheld permission, a document that is gone: the       *)
(* repair is given up and a hold that waits for it fails. *)
CallFails(t) ==
    /\ Excused(t)
    /\ hold' = Invalidated
    /\ UNCHANGED page

Answer(t) ==
    /\ task[t] # None
    /\ \/ Gate(t) \/ TabAnswer(t) \/ ProbeAnswer(t) \/ WaitOver(t)
       \/ ReprobeAnswer(t) \/ InjectAnswer(t) \/ CallFails(t)
    /\ UNCHANGED <<sweeps, admission, requests, holds>>

-----------------------------------------------------------------------------
(* The selection hold: it closes admission, waits until accepted work is   *)
(* over, and is spoilt by any new request, failure or deadline. *)
HoldStart ==
    /\ hold = None
    /\ holds < MaxHolds
    /\ holds' = holds + 1
    /\ hold' = [valid |-> TRUE, ready |-> FALSE, failed |-> FALSE]
    /\ admission' = admission + 1
    /\ UNCHANGED <<page, task, sweeps, owed, requests>>

Quiet == sweeps = {} /\ \A t \in Tabs : task[t] = None

HoldDrained ==
    /\ hold # None
    /\ ~hold.ready /\ ~hold.failed
    /\ hold' = IF hold.valid THEN [hold EXCEPT !.ready = TRUE] ELSE [hold EXCEPT !.failed = TRUE]
    /\ hold.valid => Quiet
    /\ UNCHANGED <<page, task, sweeps, admission, owed, requests, holds>>

HoldExpires ==
    /\ hold # None
    /\ hold.valid
    /\ hold' = [hold EXCEPT !.valid = FALSE, !.failed = ~hold.ready]
    /\ UNCHANGED <<page, task, sweeps, admission, owed, requests, holds>>

Release ==
    /\ hold # None
    /\ hold.ready \/ hold.failed
    /\ hold' = None
    /\ admission' = admission + 1
    /\ UNCHANGED <<page, task, sweeps, owed, requests, holds>>

-----------------------------------------------------------------------------
(* The tab: it navigates - the manifest's scripts start in a new chat      *)
(* document by themselves - and a starting runtime may become ready. *)
Navigate(t) ==
    /\ page[t].doc < MaxDocs
    /\ \E chat \in BOOLEAN :
          page' = [page EXCEPT ![t] = [doc |-> @.doc + 1, allowed |-> chat, got |-> {},
                                       runtime |-> IF chat THEN "starting" ELSE "absent"]]
    /\ UNCHANGED <<task, sweeps, hold, admission, owed, requests, holds>>

RuntimeReady(t) ==
    /\ page[t].runtime = "starting"
    /\ page' = [page EXCEPT ![t].runtime = "ready"]
    /\ UNCHANGED <<task, sweeps, hold, admission, owed, requests, holds>>

Next ==
    \/ \E t \in Tabs : Request(t) \/ Answer(t) \/ Navigate(t) \/ RuntimeReady(t)
    \/ SweepRequest
    \/ \E s \in sweeps : SweepAnswer(s)
    \/ HoldStart \/ HoldDrained \/ HoldExpires \/ Release

Spec == Init /\ [][Next]_vars

(* The browser answers every call, and the worker's timers run. *)
Fairness == /\ \A t \in Tabs : WF_vars(Answer(t))
            /\ WF_vars(\E s \in sweeps : SweepAnswer(s))
FairSpec == Spec /\ Fairness

-----------------------------------------------------------------------------
TypeOK ==
    /\ page \in [Tabs -> Pages]
    /\ task \in [Tabs -> Tasks \cup {None}]
    /\ \A s \in sweeps : s \in [force : BOOLEAN, admission : Nat, id : Nat]
    /\ hold \in Holds \cup {None}
    /\ admission \in Nat
    /\ owed \in [Tabs -> {"no", "asked", "taken"}]

(* An update asks every tab by force, and a task that is already running   *)
(* for the tab takes the request over.  Wherever in the loop it arrives -  *)
(* during a probe that is about to find the runtime healthy, during the    *)
(* grace period, between two groups of an unforced injection - the task    *)
(* does not end before a pass begun after the request has delivered every  *)
(* group (capture-recovery.js:94, 123, 131-135, 147). *)
ForceIsNotLost == \A t \in Tabs : task[t] = None => owed[t] = "no"

(* A tab may navigate between two groups.  No document ever receives a     *)
(* later group of a bundle without the ones before it: every world is      *)
(* pinned to the document that was probed (capture-recovery.js:136-144). *)
BundleStaysTogether ==
    \A t \in Tabs : \A g \in page[t].got : 1..g \subseteq page[t].got

(* A hold that reports itself quiet and is still valid covers all work: no *)
(* repair, no sweep and no browser call of theirs is under way, whatever   *)
(* was pending when the hold began and whatever asked since.               *)
HoldIsQuiet ==
    (hold # None /\ hold.ready /\ hold.valid) =>
        sweeps = {} /\ \A t \in Tabs : task[t] = None

(* All of these. *)
RepairsAreWhole == TypeOK /\ ForceIsNotLost /\ BundleStaysTogether /\ HoldIsQuiet

(* Every repair ends, however often it is sent round and even where a      *)
(* runtime stays at starting for ever; with ForceIsNotLost, every forced   *)
(* request is served or excused, and a hold is not kept waiting.           *)
RepairsEnd == \A t \in Tabs : (task[t] # None) ~> (task[t] = None)
=============================================================================
