------------------------ MODULE CaptureRecoveryProofs ------------------------
(***************************************************************************)
(* What CaptureRecovery guarantees for any number of tabs, script groups,  *)
(* documents, requests and holds.  A tab's page, task and debt belong      *)
(* together (TabOK): a request by force is still in the task or was taken  *)
(* over by a replacing pass, and a pass that is between two groups has     *)
(* delivered the ones before, if its document is still there.  TabOK is a  *)
(* statement about values, so that each step is one fact about the values  *)
(* it writes, and TabWritten lifts it to the state.                        *)
(***************************************************************************)
EXTENDS CaptureRecovery, TLAPS

Between(p, k) == k.pc = "inject" /\ k.group > 1 /\ p.doc = k.doc
Together(p) == \A g \in p.got : 1..g \subseteq p.got

TaskOK(p, k, o) ==
  /\ k \in Tasks
  /\ o = "asked" => k.force
  /\ o = "taken" => k.replacing
  /\ k.pc = "gate" => ~k.replacing
  /\ k.doc <= p.doc
  /\ k.pc \in {"wait", "reprobe"} => k.tries < Grace
  /\ Between(p, k) => k.group - 1 \in p.got

TabOK(p, k, o) ==
  /\ p \in Pages /\ o \in {"no", "asked", "taken"} /\ Together(p)
  /\ k = None => o = "no"
  /\ k # None => TaskOK(p, k, o)

Shape ==
  /\ page \in [Tabs -> Pages] /\ task \in [Tabs -> Tasks \cup {None}]
  /\ owed \in [Tabs -> {"no", "asked", "taken"}]
Worker ==
  /\ \A s \in sweeps : s \in [force : BOOLEAN, admission : Nat, id : Nat]
  /\ hold \in Holds \cup {None} /\ admission \in Nat /\ requests \in Nat
RepairInv ==
  /\ Shape /\ Worker /\ HoldIsQuiet
  /\ \A t \in Tabs : TabOK(page[t], task[t], owed[t])

-----------------------------------------------------------------------------
LEMMA RepairInvInit == Init => RepairInv
<1>. SUFFICES ASSUME Init PROVE RepairInv
  OBVIOUS
<1>. USE DEF Init
<1>1. Shape /\ Worker /\ HoldIsQuiet
  BY DEF Shape, Worker, HoldIsQuiet
<1>2. \A t \in Tabs : TabOK(page[t], task[t], owed[t])
  BY <1>1 DEF Shape, TabOK, Together
<1>. QED
  BY <1>1, <1>2 DEF RepairInv

LEMMA RepairInvSuffices == RepairInv => RepairsAreWhole
<1>. SUFFICES ASSUME RepairInv PROVE RepairsAreWhole
  OBVIOUS
<1>1. TypeOK
  BY DEF RepairInv, Shape, Worker, TypeOK
<1>2. ForceIsNotLost /\ BundleStaysTogether
  BY DEF RepairInv, TabOK, Together, ForceIsNotLost, BundleStaysTogether
<1>. QED
  BY <1>1, <1>2 DEF RepairInv, RepairsAreWhole

-----------------------------------------------------------------------------
(* The values a step writes. *)

LEMMA TaskInDocument ==
  ASSUME NEW k \in Tasks, NEW d \in 0..MaxDocs
  PROVE  LET new == [k EXCEPT !.doc = d]
         IN  /\ new \in Tasks /\ new.pc = k.pc /\ new.force = k.force
             /\ new.replacing = k.replacing /\ new.doc = d /\ new.group = k.group
             /\ new.tries = k.tries
BY DEF Tasks

LEMMA TaskTries ==
  ASSUME NEW k \in Tasks, NEW n \in 0..Grace
  PROVE  LET new == [k EXCEPT !.tries = n]
         IN  /\ new \in Tasks /\ new.pc = k.pc /\ new.force = k.force
             /\ new.replacing = k.replacing /\ new.doc = k.doc /\ new.group = k.group
             /\ new.tries = n
BY DEF Tasks

LEMMA TaskForced ==
  ASSUME NEW k \in Tasks, NEW f \in BOOLEAN
  PROVE  LET new == [k EXCEPT !.force = f]
         IN  /\ new \in Tasks /\ new.pc = k.pc /\ new.force = f
             /\ new.replacing = k.replacing /\ new.doc = k.doc /\ new.group = k.group
             /\ new.tries = k.tries
BY DEF Tasks

LEMMA TaskLooped ==
  ASSUME NEW k \in Tasks
  PROVE  LET new == [k EXCEPT !.pc = "tab", !.replacing = k.force, !.force = FALSE,
                              !.tries = 0, !.group = 1]
         IN  /\ new \in Tasks /\ new.pc = "tab" /\ new.force = FALSE
             /\ new.replacing = k.force /\ new.doc = k.doc
<1>. DEFINE f == k.force
            new == [k EXCEPT !.pc = "tab", !.replacing = f, !.force = FALSE, !.tries = 0, !.group = 1]
<1>1. k.force \in BOOLEAN /\ 0 \in 0..Grace /\ 1 \in 1..Groups
  BY RecoveryAssumption DEF Tasks
<1>2. f \in BOOLEAN
  BY <1>1
<1>. HIDE DEF f
<1>3. new \in Tasks
  BY <1>1, <1>2 DEF Tasks
<1>4. new.pc = "tab" /\ new.force = FALSE /\ new.replacing = f /\ new.doc = k.doc
  BY DEF Tasks
<1>. QED
  BY <1>3, <1>4 DEF f

LEMMA NewTaskFields ==
  ASSUME NEW f \in BOOLEAN, admission \in Nat
  PROVE  LET new == NewTask(f)
         IN  /\ new \in Tasks /\ new.pc = "gate" /\ new.force = f /\ ~new.replacing
             /\ new.doc = 0
BY RecoveryAssumption DEF Tasks, NewTask

-----------------------------------------------------------------------------
(* Lifting the values of one tab to the state. *)

LEMMA TabWritten ==
  ASSUME RepairInv, NEW t \in Tabs, NEW p, NEW k, NEW o, TabOK(p, k, o),
         page' = [page EXCEPT ![t] = p], task' = [task EXCEPT ![t] = k],
         owed' = [owed EXCEPT ![t] = o]
  PROVE  Shape' /\ \A s \in Tabs : TabOK(page'[s], task'[s], owed'[s])
<1>1. Shape
  BY DEF RepairInv
<1>2. \A s \in Tabs : /\ page'[s] = IF s = t THEN p ELSE page[s]
                      /\ task'[s] = IF s = t THEN k ELSE task[s]
                      /\ owed'[s] = IF s = t THEN o ELSE owed[s]
  BY <1>1 DEF Shape
<1>3. p \in Pages /\ k \in Tasks \cup {None} /\ o \in {"no", "asked", "taken"}
  BY DEF TabOK, TaskOK
<1>4. Shape'
  BY <1>1, <1>3 DEF Shape
<1>. QED
  BY <1>2, <1>4 DEF RepairInv

\* How a tab's task goes on over the page p.
Outcome(t, p) ==
  \E k, o : /\ TabOK(p, k, o)
            /\ task' = [task EXCEPT ![t] = k] /\ owed' = [owed EXCEPT ![t] = o]

LEMMA OutcomeWritten ==
  ASSUME RepairInv, NEW t \in Tabs, NEW p, page' = [page EXCEPT ![t] = p], Outcome(t, p)
  PROVE  Shape' /\ \A s \in Tabs : TabOK(page'[s], task'[s], owed'[s])
BY TabWritten DEF Outcome

LEMMA PageStays ==
  ASSUME RepairInv, NEW t \in Tabs
  PROVE  /\ page = [page EXCEPT ![t] = page[t]] /\ owed = [owed EXCEPT ![t] = owed[t]]
         /\ task = [task EXCEPT ![t] = task[t]]
BY DEF RepairInv, Shape

\* The state of a tab with a task.
LEMMA TabOf ==
  ASSUME RepairInv, NEW t \in Tabs
  PROVE  /\ page[t] \in Pages /\ Together(page[t]) /\ owed[t] \in {"no", "asked", "taken"}
         /\ task[t] = None => owed[t] = "no"
         /\ task[t] # None => TaskOK(page[t], task[t], owed[t])
BY DEF RepairInv, TabOK

LEMMA ExcusedOutcome ==
  ASSUME NEW t, NEW p \in Pages, Together(p), Excused(t)
  PROVE  Outcome(t, p)
<1>1. TabOK(p, None, "no")
  BY DEF TabOK
<1>. QED
  BY <1>1 DEF Outcome, Excused

LEMMA SettledOutcome ==
  ASSUME RepairInv, NEW t \in Tabs, NEW p \in Pages, Together(p), owed[t] = "no", Settled(t)
  PROVE  Outcome(t, p)
<1>1. TabOK(p, None, "no")
  BY DEF TabOK
<1>2. owed' = [owed EXCEPT ![t] = "no"]
  BY PageStays DEF Settled
<1>. QED
  BY <1>1, <1>2 DEF Outcome, Settled

LEMMA BecomesOutcome ==
  ASSUME RepairInv, NEW t \in Tabs, NEW p \in Pages, Together(p), NEW k, TaskOK(p, k, owed[t]),
         Becomes(t, k), UNCHANGED owed
  PROVE  Outcome(t, p)
<1>1. TabOK(p, k, owed[t])
  BY TabOf, RecoveryAssumption DEF TabOK, TaskOK
<1>2. owed' = [owed EXCEPT ![t] = owed[t]]
  BY PageStays
<1>. QED
  BY <1>1, <1>2 DEF Outcome, Becomes

\* A new pass: it takes over what was asked by force.
LEMMA LoopOutcome ==
  ASSUME RepairInv, NEW t \in Tabs, NEW p \in Pages, Together(p), p.doc = page[t].doc,
         task[t] # None, task[t].force \/ ~task[t].replacing, Loop(t)
  PROVE  Outcome(t, p)
<1>. DEFINE k == [task[t] EXCEPT !.pc = "tab", !.replacing = task[t].force, !.force = FALSE,
                                 !.tries = 0, !.group = 1]
            o == IF task[t].force THEN "taken" ELSE owed[t]
<1>1. CASE Stopped(t)
  BY <1>1, ExcusedOutcome DEF Loop
<1>2. CASE ~Stopped(t)
  <2>1. TaskOK(page[t], task[t], owed[t]) /\ owed[t] \in {"no", "asked", "taken"}
    BY TabOf
  <2>2. /\ k \in Tasks /\ k.pc = "tab" /\ k.force = FALSE /\ k.replacing = task[t].force
        /\ k.doc = task[t].doc
    BY <2>1, TaskLooped DEF TaskOK
  <2>3. task' = [task EXCEPT ![t] = k] /\ owed' = [owed EXCEPT ![t] = o]
    <3>1. /\ Becomes(t, k)
          /\ owed' = IF task[t].force THEN [owed EXCEPT ![t] = "taken"] ELSE owed
      BY <1>2 DEF Loop
    <3>2. owed = [owed EXCEPT ![t] = owed[t]]
      BY PageStays
    <3>3. CASE task[t].force
      BY <3>1, <3>3 DEF Becomes
    <3>4. CASE ~task[t].force
      BY <3>1, <3>2, <3>4 DEF Becomes
    <3>. QED BY <3>3, <3>4
  <2>. HIDE DEF k
  <2>4. TaskOK(p, k, o)
    BY <2>1, <2>2 DEF TaskOK, Between
  <2>5. TabOK(p, k, o)
    BY <2>1, <2>2, <2>4, RecoveryAssumption DEF TabOK
  <2>. QED BY <2>3, <2>5 DEF Outcome
<1>. QED
  BY <1>1, <1>2

-----------------------------------------------------------------------------
(* The answers of the browser, one by one. *)

LEMMA MovedOn ==
  ASSUME NEW p, NEW k \in Tasks, NEW o, o = "asked" => k.force, o = "taken" => k.replacing,
         k.doc <= p.doc, NEW pc \in {"probe", "wait", "reprobe"}, pc # "probe" => k.tries < Grace
  PROVE  TaskOK(p, [k EXCEPT !.pc = pc], o)
<1>. DEFINE new == [k EXCEPT !.pc = pc]
<1>1. /\ new \in Tasks /\ new.pc = pc /\ new.force = k.force /\ new.replacing = k.replacing
      /\ new.doc = k.doc /\ new.tries = k.tries
  BY DEF Tasks
<1>. HIDE DEF new
<1>2. TaskOK(p, new, o)
  BY <1>1 DEF TaskOK, Between
<1>. QED
  BY <1>2 DEF new

LEMMA InjectionStarts ==
  ASSUME NEW p, NEW k \in Tasks, NEW o, o = "asked" => k.force, o = "taken" => k.replacing,
         k.doc <= p.doc
  PROVE  TaskOK(p, [k EXCEPT !.pc = "inject", !.group = 1], o)
<1>. DEFINE new == [k EXCEPT !.pc = "inject", !.group = 1]
<1>0. 1 \in 1..Groups
  BY RecoveryAssumption
<1>1. /\ new \in Tasks /\ new.pc = "inject" /\ new.force = k.force /\ new.replacing = k.replacing
      /\ new.doc = k.doc /\ new.group = 1
  BY <1>0 DEF Tasks
<1>. HIDE DEF new
<1>2. TaskOK(p, new, o)
  BY <1>1 DEF TaskOK, Between
<1>. QED
  BY <1>2 DEF new

LEMMA DecideOutcome ==
  ASSUME RepairInv, NEW t \in Tabs, task[t] # None, NEW k \in Tasks, k.force = task[t].force,
         k.replacing = task[t].replacing, k.doc <= page[t].doc, Decide(t, k)
  PROVE  Outcome(t, page[t])
<1>1. /\ page[t] \in Pages /\ Together(page[t]) /\ TaskOK(page[t], task[t], owed[t])
      /\ owed[t] \in {"no", "asked", "taken"}
  BY TabOf
<1>2. CASE ~k.replacing /\ k.tries < Grace /\ Becomes(t, [k EXCEPT !.pc = "wait"]) /\ UNCHANGED owed
  <2>1. TaskOK(page[t], [k EXCEPT !.pc = "wait"], owed[t])
    BY <1>1, <1>2, MovedOn DEF TaskOK
  <2>. QED BY <1>1, <1>2, <2>1, BecomesOutcome
<1>3. CASE k.force /\ Loop(t)
  BY <1>1, <1>3, LoopOutcome
<1>4. CASE ~k.replacing /\ ~k.force /\ Settled(t)
  <2>1. owed[t] = "no"
    BY <1>1, <1>4 DEF TaskOK
  <2>. QED BY <1>1, <1>4, <2>1, SettledOutcome
<1>5. CASE Becomes(t, [k EXCEPT !.pc = "inject", !.group = 1]) /\ UNCHANGED owed
  <2>1. TaskOK(page[t], [k EXCEPT !.pc = "inject", !.group = 1], owed[t])
    BY <1>1, InjectionStarts DEF TaskOK
  <2>. QED BY <1>1, <1>5, <2>1, BecomesOutcome
<1>. QED
  BY <1>2, <1>3, <1>4, <1>5 DEF Decide

LEMMA InjectOutcome ==
  ASSUME RepairInv, NEW t \in Tabs, task[t] # None, InjectAnswer(t)
  PROVE  page' = [page EXCEPT ![t] = page'[t]] /\ Outcome(t, page'[t])
<1>. DEFINE k == task[t]
            got == IF k.group = 1 THEN {1} ELSE page[t].got \cup {k.group}
            runtime == IF k.group = Groups THEN "starting" ELSE page[t].runtime
            p == [page[t] EXCEPT !.got = got, !.runtime = runtime]
<1>1. /\ page[t] \in Pages /\ Together(page[t]) /\ TaskOK(page[t], k, owed[t])
      /\ owed[t] \in {"no", "asked", "taken"} /\ page \in [Tabs -> Pages]
  BY TabOf DEF RepairInv, Shape
<1>2. page' = [page EXCEPT ![t] = p] /\ k.pc = "inject" /\ page[t].doc = k.doc
  BY DEF InjectAnswer, Delivered
<1>3. k.group \in 1..Groups /\ Groups \in Nat /\ k \in Tasks
  BY <1>1, RecoveryAssumption DEF TaskOK, Tasks
<1>4. got \in SUBSET (1..Groups) /\ \A g \in got : 1..g \subseteq got
  <2>1. CASE k.group = 1
    BY <1>3, <2>1
  <2>2. CASE k.group # 1
    <3>1. k.group - 1 \in page[t].got
      BY <1>1, <1>2, <1>3, <2>2 DEF TaskOK, Between
    <3>2. 1..(k.group - 1) \subseteq page[t].got
      BY <1>1, <3>1 DEF Together
    <3>3. 1..k.group \subseteq got
      BY <1>3, <2>2, <3>2
    <3>4. page[t].got \in SUBSET (1..Groups)
      BY <1>1 DEF Pages
    <3>. QED BY <1>1, <1>3, <2>2, <3>3, <3>4 DEF Together
  <2>. QED BY <2>1, <2>2
<1>5. k.group \in got
  OBVIOUS
<1>6. runtime \in {"absent", "stale", "starting", "ready"}
  BY <1>1 DEF Pages
<1>. HIDE DEF got, runtime
<1>7. p \in Pages /\ p.doc = page[t].doc /\ p.got = got
  BY <1>1, <1>4, <1>6 DEF Pages
<1>8. page'[t] = p
  BY <1>1, <1>2
<1>9. Together(p)
  BY <1>4, <1>7 DEF Together
<1>. SUFFICES Outcome(t, p)
  BY <1>2, <1>8
<1>. HIDE DEF p
<1>10. CASE Excused(t)
  BY <1>7, <1>9, <1>10, ExcusedOutcome
<1>11. CASE k.group # Groups /\ Becomes(t, [k EXCEPT !.group = @ + 1]) /\ UNCHANGED owed
  <2>1. k.group + 1 \in 1..Groups
    BY <1>3, <1>11
  <2>2. /\ [k EXCEPT !.group = k.group + 1] \in Tasks
        /\ [k EXCEPT !.group = k.group + 1].force = k.force
        /\ [k EXCEPT !.group = k.group + 1].replacing = k.replacing
        /\ [k EXCEPT !.group = k.group + 1].pc = "inject"
        /\ [k EXCEPT !.group = k.group + 1].doc = k.doc
        /\ [k EXCEPT !.group = k.group + 1].group = k.group + 1
    BY <1>2, <1>3, <2>1 DEF Tasks
  <2>3. TaskOK(p, [k EXCEPT !.group = k.group + 1], owed[t])
    BY <1>1, <1>2, <1>3, <1>5, <1>7, <2>2 DEF TaskOK, Between
  <2>. QED BY <1>7, <1>9, <1>11, <2>3, BecomesOutcome
<1>12. CASE k.force /\ Loop(t)
  BY <1>7, <1>9, <1>12, LoopOutcome
<1>13. CASE ~k.force /\ task' = [task EXCEPT ![t] = None]
            /\ owed' = [owed EXCEPT ![t] = IF @ = "taken" THEN "no" ELSE @]
  <2>1. owed' = [owed EXCEPT ![t] = "no"]
    BY <1>1, <1>13 DEF TaskOK
  <2>2. TabOK(p, None, "no")
    BY <1>7, <1>9 DEF TabOK
  <2>. QED BY <1>13, <2>1, <2>2 DEF Outcome
<1>. QED
  BY <1>10, <1>11, <1>12, <1>13 DEF InjectAnswer

LEMMA AnswerOutcome ==
  ASSUME RepairInv, NEW t \in Tabs, Answer(t)
  PROVE  page' = [page EXCEPT ![t] = page'[t]] /\ Outcome(t, page'[t])
<1>. DEFINE k == task[t]
<1>1. /\ page[t] \in Pages /\ Together(page[t]) /\ k # None /\ TaskOK(page[t], k, owed[t])
      /\ owed[t] \in {"no", "asked", "taken"}
  BY TabOf DEF Answer
<1>2. page[t].doc \in 0..MaxDocs /\ k \in Tasks /\ k.tries \in 0..Grace /\ page[t].doc <= page[t].doc
      /\ k.doc \in 0..MaxDocs
  BY <1>1, RecoveryAssumption DEF Pages, TaskOK, Tasks
<1>3. CASE InjectAnswer(t)
  BY <1>1, <1>3, InjectOutcome
<1>4. ASSUME UNCHANGED page, Outcome(t, page[t])
      PROVE  page' = [page EXCEPT ![t] = page'[t]] /\ Outcome(t, page'[t])
  <2>1. page'[t] = page[t] /\ page = [page EXCEPT ![t] = page[t]]
    BY <1>4, PageStays
  <2>. QED BY <1>4, <2>1
<1>5. CASE Gate(t)
  <2>1. ~k.replacing /\ Loop(t) /\ UNCHANGED page
    BY <1>1, <1>5 DEF Gate, TaskOK
  <2>. QED BY <1>1, <1>4, <2>1, LoopOutcome
<1>6. CASE TabAnswer(t)
  <2>1. CASE Excused(t)
    BY <1>1, <1>4, <1>6, <2>1, ExcusedOutcome DEF TabAnswer
  <2>2. CASE Becomes(t, [k EXCEPT !.pc = "probe"]) /\ UNCHANGED owed
    <3>1. TaskOK(page[t], [k EXCEPT !.pc = "probe"], owed[t])
      BY <1>1, <1>2, MovedOn DEF TaskOK
    <3>. QED BY <1>1, <1>4, <1>6, <2>2, <3>1, BecomesOutcome DEF TabAnswer
  <2>. QED BY <1>6, <2>1, <2>2 DEF TabAnswer
<1>7. CASE ProbeAnswer(t)
  <2>1. CASE Excused(t)
    BY <1>1, <1>4, <1>7, <2>1, ExcusedOutcome DEF ProbeAnswer
  <2>2. CASE Decide(t, [k EXCEPT !.doc = page[t].doc])
    <3>1. LET new == [k EXCEPT !.doc = page[t].doc]
          IN  /\ new \in Tasks /\ new.force = k.force /\ new.replacing = k.replacing
              /\ new.doc <= page[t].doc
      BY <1>2, TaskInDocument
    <3>2. Outcome(t, page[t])
      BY <1>1, <2>2, <3>1, DecideOutcome
    <3>. QED BY <1>4, <1>7, <3>2 DEF ProbeAnswer
  <2>. QED BY <1>7, <2>1, <2>2 DEF ProbeAnswer
<1>8. CASE WaitOver(t)
  <2>1. CASE Excused(t)
    BY <1>1, <1>4, <1>8, <2>1, ExcusedOutcome DEF WaitOver
  <2>2. CASE k.force /\ Loop(t)
    BY <1>1, <1>4, <1>8, <2>2, LoopOutcome DEF WaitOver
  <2>3. CASE Becomes(t, [k EXCEPT !.pc = "reprobe"]) /\ UNCHANGED owed
    <3>1. TaskOK(page[t], [k EXCEPT !.pc = "reprobe"], owed[t])
      <4>1. k.tries < Grace
        BY <1>1, <1>8 DEF TaskOK, WaitOver
      <4>. QED BY <1>1, <1>2, <4>1, MovedOn DEF TaskOK
    <3>. QED BY <1>1, <1>4, <1>8, <2>3, <3>1, BecomesOutcome DEF WaitOver
  <2>. QED BY <1>8, <2>1, <2>2, <2>3 DEF WaitOver
<1>9. CASE ReprobeAnswer(t)
  <2>1. CASE Excused(t)
    BY <1>1, <1>4, <1>9, <2>1, ExcusedOutcome DEF ReprobeAnswer
  <2>2. CASE page[t].doc = k.doc /\ Decide(t, [k EXCEPT !.tries = @ + 1])
    <3>0. k.tries + 1 \in 0..Grace
      <4>1. k.tries < Grace
        BY <1>1, <1>9 DEF TaskOK, ReprobeAnswer
      <4>. QED BY <1>2, <4>1, RecoveryAssumption
    <3>1. LET new == [k EXCEPT !.tries = k.tries + 1]
          IN  /\ new \in Tasks /\ new.force = k.force /\ new.replacing = k.replacing
              /\ new.doc <= page[t].doc
      BY <1>2, <2>2, <3>0, TaskTries
    <3>2. Outcome(t, page[t])
      BY <1>1, <2>2, <3>1, DecideOutcome
    <3>. QED BY <1>4, <1>9, <3>2 DEF ReprobeAnswer
  <2>. QED BY <1>9, <2>1, <2>2 DEF ReprobeAnswer
<1>10. CASE CallFails(t)
  BY <1>1, <1>4, <1>10, ExcusedOutcome DEF CallFails
<1>. QED
  BY <1>3, <1>5, <1>6, <1>7, <1>8, <1>9, <1>10 DEF Answer

-----------------------------------------------------------------------------
(* A request joins the task that is pending, or starts one. *)

LEMMA AskedOK ==
  ASSUME RepairInv, NEW t \in Tabs, NEW force \in BOOLEAN
  PROVE  TabOK(page[t], Asked(t, force), NowOwed(t, force))
<1>1. /\ page[t] \in Pages /\ Together(page[t]) /\ owed[t] \in {"no", "asked", "taken"}
      /\ task[t] = None => owed[t] = "no"
      /\ task[t] # None => TaskOK(page[t], task[t], owed[t])
      /\ admission \in Nat
  BY TabOf DEF RepairInv, Worker
<1>2. NowOwed(t, force) \in {"no", "asked", "taken"}
  BY <1>1 DEF NowOwed
<1>3. CASE task[t] = None
  <2>1. LET new == NewTask(force)
        IN  new \in Tasks /\ new.pc = "gate" /\ new.force = force /\ ~new.replacing /\ new.doc = 0
    BY <1>1, NewTaskFields
  <2>2. 0 <= page[t].doc
    BY <1>1, RecoveryAssumption DEF Pages
  <2>3. NowOwed(t, force) = IF force THEN "asked" ELSE "no"
    BY <1>1, <1>3 DEF NowOwed
  <2>4. Asked(t, force) = NewTask(force)
    BY <1>3 DEF Asked
  <2>5. TaskOK(page[t], NewTask(force), NowOwed(t, force))
    BY <2>1, <2>2, <2>3 DEF TaskOK, Between
  <2>6. NewTask(force) # None
    BY <2>1, RecoveryAssumption
  <2>. QED BY <1>1, <1>2, <2>4, <2>5, <2>6 DEF TabOK
<1>4. CASE task[t] # None
  <2>. DEFINE k == task[t]
              f == k.force \/ (force /\ k.admission = admission)
              new == [k EXCEPT !.force = f]
  <2>1. k \in Tasks /\ TaskOK(page[t], k, owed[t])
    BY <1>1, <1>4 DEF TaskOK
  <2>2. f \in BOOLEAN /\ (k.force => f)
    OBVIOUS
  <2>3. NowOwed(t, force) = IF force /\ k.admission = admission THEN "asked" ELSE owed[t]
    BY <1>4 DEF NowOwed
  <2>4. Asked(t, force) = new
    BY <1>4 DEF Asked
  <2>5. NowOwed(t, force) = "asked" => f
    BY <2>1, <2>3 DEF TaskOK
  <2>. HIDE DEF f
  <2>6. /\ new \in Tasks /\ new.pc = k.pc /\ new.force = f /\ new.replacing = k.replacing
        /\ new.doc = k.doc /\ new.group = k.group /\ new.tries = k.tries
    BY <2>1, <2>2, TaskForced
  <2>. HIDE DEF new
  <2>7. TaskOK(page[t], new, NowOwed(t, force))
    BY <2>1, <2>3, <2>5, <2>6 DEF TaskOK, Between
  <2>8. new # None
    BY <2>6, RecoveryAssumption
  <2>. QED BY <1>1, <1>2, <2>4, <2>7, <2>8 DEF TabOK
<1>. QED
  BY <1>3, <1>4

LEMMA HoldSpoilt ==
  ASSUME RepairInv
  PROVE  /\ Invalidated \in Holds \cup {None}
         /\ Invalidated # None => Invalidated.valid = FALSE
BY DEF RepairInv, Worker, Invalidated, Holds

LEMMA RequestSound ==
  ASSUME RepairInv, NEW t \in Tabs, Request(t)
  PROVE  RepairInv'
<1>1. CASE hold # None
  <2>1. hold' = Invalidated /\ requests' \in Nat /\ UNCHANGED <<page, task, owed, sweeps, admission>>
    BY <1>1 DEF Request, RepairInv, Worker
  <2>2. Shape' /\ Worker' /\ HoldIsQuiet'
    BY <2>1, HoldSpoilt DEF RepairInv, Shape, Worker, HoldIsQuiet
  <2>. QED BY <2>1, <2>2 DEF RepairInv
<1>2. CASE hold = None
  <2>1. PICK force \in BOOLEAN : /\ task' = [task EXCEPT ![t] = Asked(t, force)]
                                 /\ owed' = [owed EXCEPT ![t] = NowOwed(t, force)]
    BY <1>2 DEF Request
  <2>2. requests' \in Nat /\ UNCHANGED <<page, hold, sweeps, admission>>
    BY <1>2 DEF Request, RepairInv, Worker
  <2>3. page' = [page EXCEPT ![t] = page[t]]
    BY <2>2, PageStays
  <2>4. Shape' /\ \A s \in Tabs : TabOK(page'[s], task'[s], owed'[s])
    BY <2>1, <2>3, AskedOK, TabWritten
  <2>5. Worker' /\ HoldIsQuiet'
    BY <1>2, <2>2 DEF RepairInv, Worker, HoldIsQuiet
  <2>. QED BY <2>4, <2>5 DEF RepairInv
<1>. QED
  BY <1>1, <1>2

LEMMA SweepRequestSound ==
  ASSUME RepairInv, SweepRequest
  PROVE  RepairInv'
<1>1. requests' \in Nat /\ UNCHANGED <<page, task, owed, admission>> /\ requests \in Nat /\ admission \in Nat
  BY DEF SweepRequest, RepairInv, Worker
<1>2. Worker' /\ HoldIsQuiet'
  <2>1. CASE hold # None
    BY <1>1, <2>1, HoldSpoilt DEF SweepRequest, RepairInv, Worker, HoldIsQuiet
  <2>2. CASE hold = None
    BY <1>1, <2>2 DEF SweepRequest, RepairInv, Worker, HoldIsQuiet
  <2>. QED BY <2>1, <2>2
<1>. QED
  BY <1>1, <1>2 DEF RepairInv, Shape

LEMMA SweepAnswerSound ==
  ASSUME RepairInv, NEW s \in sweeps, SweepAnswer(s)
  PROVE  RepairInv'
<1>1. PICK listed \in SUBSET Tabs :
        /\ task' = [t \in Tabs |-> IF t \in listed THEN Asked(t, s.force) ELSE task[t]]
        /\ owed' = [t \in Tabs |-> IF t \in listed THEN NowOwed(t, s.force) ELSE owed[t]]
  <2>1. CASE Admitted(s.admission)
    <3>1. {t \in Tabs : page[t].allowed} \in SUBSET Tabs
      OBVIOUS
    <3>. QED BY <2>1, <3>1 DEF SweepAnswer
  <2>2. CASE ~Admitted(s.admission)
    <3>1. {} \in SUBSET Tabs
      OBVIOUS
    <3>. QED BY <2>2, <3>1 DEF SweepAnswer
  <2>. QED BY <2>1, <2>2
<1>2. UNCHANGED <<page, hold, admission, requests>> /\ sweeps' = sweeps \ {s}
  BY DEF SweepAnswer
<1>3. s.force \in BOOLEAN
  BY DEF RepairInv, Worker
<1>4. \A t \in Tabs : TabOK(page'[t], task'[t], owed'[t])
  <2>. SUFFICES ASSUME NEW t \in Tabs PROVE TabOK(page[t], task'[t], owed'[t])
    BY <1>2
  <2>1. CASE t \in listed
    BY <1>1, <1>3, <2>1, AskedOK
  <2>2. CASE t \notin listed
    BY <1>1, <2>2 DEF RepairInv
  <2>. QED BY <2>1, <2>2
<1>5. Shape'
  <2>1. \A t \in Tabs : task'[t] \in Tasks \cup {None} /\ owed'[t] \in {"no", "asked", "taken"}
    BY <1>4 DEF TabOK, TaskOK
  <2>2. task' = [t \in Tabs |-> task'[t]] /\ owed' = [t \in Tabs |-> owed'[t]]
    BY <1>1
  <2>. QED BY <1>2, <2>1, <2>2 DEF RepairInv, Shape
<1>6. Worker' /\ HoldIsQuiet'
  BY <1>2 DEF RepairInv, Worker, HoldIsQuiet
<1>. QED
  BY <1>4, <1>5, <1>6 DEF RepairInv

-----------------------------------------------------------------------------
LEMMA AnswerSound ==
  ASSUME RepairInv, NEW t \in Tabs, Answer(t)
  PROVE  RepairInv'
<1>1. Shape' /\ \A s \in Tabs : TabOK(page'[s], task'[s], owed'[s])
  BY AnswerOutcome, OutcomeWritten
<1>2. UNCHANGED <<sweeps, admission, requests>> /\ (UNCHANGED hold \/ hold' = Invalidated)
  BY DEF Answer, Gate, TabAnswer, ProbeAnswer, WaitOver, ReprobeAnswer, InjectAnswer, CallFails
<1>3. ~(hold # None /\ hold.ready /\ hold.valid)
  BY DEF Answer, RepairInv, HoldIsQuiet
<1>4. Worker' /\ HoldIsQuiet'
  BY <1>2, <1>3, HoldSpoilt DEF RepairInv, Worker, HoldIsQuiet
<1>. QED
  BY <1>1, <1>4 DEF RepairInv

LEMMA HoldSound ==
  ASSUME RepairInv, HoldStart \/ HoldDrained \/ HoldExpires \/ Release
  PROVE  RepairInv'
<1>1. UNCHANGED <<page, task, owed, sweeps, requests>>
  BY DEF HoldStart, HoldDrained, HoldExpires, Release
<1>2. CASE HoldStart
  BY <1>1, <1>2 DEF HoldStart, RepairInv, Shape, Worker, HoldIsQuiet, Holds
<1>3. CASE HoldDrained
  BY <1>1, <1>3 DEF HoldDrained, RepairInv, Shape, Worker, HoldIsQuiet, Holds, Quiet
<1>4. CASE HoldExpires
  BY <1>1, <1>4 DEF HoldExpires, RepairInv, Shape, Worker, HoldIsQuiet, Holds
<1>5. CASE Release
  BY <1>1, <1>5 DEF Release, RepairInv, Shape, Worker, HoldIsQuiet
<1>. QED
  BY <1>2, <1>3, <1>4, <1>5

\* A document that goes takes its groups with it.
LEMMA NavigateSound ==
  ASSUME RepairInv, NEW t \in Tabs, Navigate(t)
  PROVE  RepairInv'
<1>1. PICK chat \in BOOLEAN :
        page' = [page EXCEPT ![t] = [doc |-> page[t].doc + 1, allowed |-> chat, got |-> {},
                                     runtime |-> IF chat THEN "starting" ELSE "absent"]]
  BY DEF Navigate
<1>. DEFINE p == [doc |-> page[t].doc + 1, allowed |-> chat, got |-> {},
                  runtime |-> IF chat THEN "starting" ELSE "absent"]
<1>2. page[t].doc < MaxDocs /\ UNCHANGED <<task, sweeps, hold, admission, owed, requests>>
  BY DEF Navigate
<1>3. page[t] \in Pages /\ page[t].doc \in Nat /\ MaxDocs \in Nat /\ page[t].doc + 1 \in 1..MaxDocs
  BY <1>2, TabOf, RecoveryAssumption DEF Pages
<1>4. p \in Pages /\ Together(p) /\ p.doc = page[t].doc + 1
  BY <1>3 DEF Pages, Together
<1>. HIDE DEF p
<1>5. TabOK(p, task[t], owed[t])
  <2>1. task[t] # None => task[t].doc \in Nat
    BY TabOf DEF TaskOK, Tasks
  <2>. QED BY <1>3, <1>4, <2>1, TabOf DEF TabOK, TaskOK, Between
<1>6. Shape' /\ \A s \in Tabs : TabOK(page'[s], task'[s], owed'[s])
  <2>1. page' = [page EXCEPT ![t] = p]
    BY <1>1 DEF p
  <2>2. task' = [task EXCEPT ![t] = task[t]] /\ owed' = [owed EXCEPT ![t] = owed[t]]
    BY <1>2, PageStays
  <2>. QED BY <1>5, <2>1, <2>2, TabWritten
<1>. QED
  BY <1>2, <1>6 DEF RepairInv, Worker, HoldIsQuiet

LEMMA RuntimeReadySound ==
  ASSUME RepairInv, NEW t \in Tabs, RuntimeReady(t)
  PROVE  RepairInv'
<1>. DEFINE p == [page[t] EXCEPT !.runtime = "ready"]
<1>1. page' = [page EXCEPT ![t] = p] /\ UNCHANGED <<task, sweeps, hold, admission, owed, requests>>
  BY DEF RuntimeReady
<1>2. page[t] \in Pages
  BY TabOf
<1>3. p \in Pages /\ p.doc = page[t].doc /\ p.got = page[t].got
  BY <1>2 DEF Pages
<1>. HIDE DEF p
<1>4. TabOK(p, task[t], owed[t])
  BY <1>3, TabOf DEF TabOK, TaskOK, Between, Together
<1>5. Shape' /\ \A s \in Tabs : TabOK(page'[s], task'[s], owed'[s])
  <2>1. task' = [task EXCEPT ![t] = task[t]] /\ owed' = [owed EXCEPT ![t] = owed[t]]
    BY <1>1, PageStays
  <2>. QED BY <1>1, <1>4, <2>1, TabWritten
<1>. QED
  BY <1>1, <1>5 DEF RepairInv, Worker, HoldIsQuiet

LEMMA RepairInvNext == RepairInv /\ [Next]_vars => RepairInv'
<1>. SUFFICES ASSUME RepairInv, [Next]_vars PROVE RepairInv'
  OBVIOUS
<1>1. CASE UNCHANGED vars
  BY <1>1 DEF vars, RepairInv, Shape, Worker, HoldIsQuiet
<1>2. ASSUME NEW t \in Tabs, Request(t) \/ Answer(t) \/ Navigate(t) \/ RuntimeReady(t) PROVE RepairInv'
  BY <1>2, RequestSound, AnswerSound, NavigateSound, RuntimeReadySound
<1>3. CASE SweepRequest
  BY <1>3, SweepRequestSound
<1>4. ASSUME NEW s \in sweeps, SweepAnswer(s) PROVE RepairInv'
  BY <1>4, SweepAnswerSound
<1>5. CASE HoldStart \/ HoldDrained \/ HoldExpires \/ Release
  BY <1>5, HoldSound
<1>. QED
  BY <1>1, <1>2, <1>3, <1>4, <1>5 DEF Next

\* A forced request is served by a pass begun after it, no document receives a
\* torn bundle and a hold that says quiet is, for any number of tabs, script
\* groups, documents, requests and holds.
THEOREM RepairsStayWhole == Spec => []RepairsAreWhole
<1>1. Spec => []RepairInv
  BY RepairInvInit, RepairInvNext, PTL DEF Spec
<1>. QED
  BY <1>1, RepairInvSuffices, PTL
=============================================================================
