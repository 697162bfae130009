---------------------------- MODULE ImportLedger ----------------------------
(***************************************************************************)
(* core/import/ledger.js: an official export is imported in batches.  All  *)
(* batches are checked first, which gathers the evidence of the whole file *)
(* about each source, then committed one by one, each in one transaction.  *)
(* The page that drives an import may close, retry, pause, or be replaced  *)
(* by another page; the worker may restart and forget every grant; sources *)
(* are captured live and purged for good meanwhile; two files overlap.     *)
(* A row is abstracted to its source, its text and the time it states.     *)
(***************************************************************************)
EXTENDS Naturals, SequencesExt

CONSTANTS Tasks, Pages, Sources,
          Texts,          \* numbers: texts in the order of the random ids of their records
          Files,          \* the set of files, each a sequence of batches of rows
          MaxDisturbances, \* bound: restarts, closed pages, late pauses, purges, captures, consent changes
          None

NoTime == 0
Times == 0..2
Snapshots == Sources \X Texts

VARIABLES task,      \* the import tasks
          batch,     \* per task and sequence: None, or whether it is committed, and its receipt
          evidence,  \* per task and source: what the file states about its time
          grant,     \* the worker's memory: which page drives a task
          pausing,   \* the tasks with a pause under way that has outlived its grant
          records,   \* the library: per snapshot its official time, or None
          ledger,    \* per source: the agreed official time and whether it is contested
          purged,    \* tombstones of sources deleted for good
          consented,
          disturbances

vars == <<task, batch, evidence, grant, pausing, records, ledger, purged, consented, disturbances>>
library == <<records, ledger, purged, consented>>

Rows(f, k) == {f[k][j] : j \in 1..Len(f[k])}
MaxBatches == Max({Len(f) : f \in Files})

Terminal == {"completed", "partial", "cancelled"}
Phases == {"checking", "ready", "importing", "paused"} \cup Terminal

Init ==
    /\ task = [t \in Tasks |-> None]
    /\ batch = [t \in Tasks |-> [k \in 1..MaxBatches |-> None]]
    /\ evidence = [t \in Tasks |-> [s \in Sources |-> None]]
    /\ grant = [t \in Tasks |-> None]
    /\ pausing = {}
    /\ records = [x \in Snapshots |-> None]
    /\ ledger = [s \in Sources |-> [time |-> NoTime, conflict |-> FALSE]]
    /\ purged = {}
    /\ consented = TRUE
    /\ disturbances = 0

Authorized(t, page) == task[t] # None /\ grant[t] = page

-----------------------------------------------------------------------------
Disturb == disturbances < MaxDisturbances /\ disturbances' = disturbances + 1

(* begin: a new task, or an old one whose file was opened again; the grant *)
(* of every other page ends.  A page that has asked to pause may have been  *)
(* let through with it already: then that pause comes late. *)
Begin(t, page) ==
    /\ consented
    /\ \/ /\ task[t] = None
          /\ \E f \in Files :
                task' = [task EXCEPT ![t] = [file |-> f, phase |-> "checking", resume |-> "checking",
                                             checked |-> 0, committed |-> 0, added |-> 0, issues |-> 0]]
       \/ /\ task[t] # None /\ task[t].phase # "cancelled"
          /\ task' = [task EXCEPT ![t].phase = IF @ = "paused" THEN task[t].resume ELSE @]
    /\ grant' = [grant EXCEPT ![t] = page]
    /\ \/ UNCHANGED <<pausing, disturbances>>
       \/ Disturb /\ grant[t] # None /\ pausing' = pausing \cup {t}
    /\ UNCHANGED <<batch, evidence, library>>

(* A row whose source was deleted for good is passed over. *)
Taken(r) == r.source \notin purged

(* The evidence about a source after another row of the file. *)
Evidence(old, time) ==
    IF old = None THEN [time |-> time, conflict |-> FALSE]
    ELSE [time |-> IF old.time = NoTime THEN time ELSE old.time,
          conflict |-> old.conflict \/ (time # NoTime /\ old.time # NoTime /\ time # old.time)]
Checked(old, rows, s) ==
    LET stated == {r.time : r \in {r \in rows : r.source = s}} \ {NoTime}
    IN IF \A r \in rows : r.source # s THEN old
       ELSE FoldSet(LAMBDA time, e : Evidence(e, time), Evidence(old, NoTime), stated)

(* preflight: the next batch, once; a repeated call changes nothing. *)
Preflight(t, page) ==
    LET k == task[t].checked + 1
    IN  /\ Authorized(t, page)
        /\ task[t].phase = "checking"
        /\ k <= Len(task[t].file)
        /\ LET rows == {r \in Rows(task[t].file, k) : Taken(r)}
           IN evidence' = [evidence EXCEPT ![t] = [s \in Sources |-> Checked(@[s], rows, s)]]
        /\ batch' = [batch EXCEPT ![t][k] = [committed |-> FALSE, added |-> 0, issues |-> 0]]
        /\ task' = [task EXCEPT ![t].checked = k]
        /\ UNCHANGED <<grant, pausing, library, disturbances>>

(* ready: the page has sent the whole file. *)
Ready(t, page) ==
    /\ Authorized(t, page)
    /\ task[t].phase = "checking"
    /\ task[t].checked = Len(task[t].file)
    /\ task' = [task EXCEPT ![t].phase = "ready"]
    /\ UNCHANGED <<batch, evidence, grant, pausing, library, disturbances>>

(* applyOfficialTime: the first stated time holds, a different one contests *)
(* it; a record that has a time keeps it, one without takes the agreed one  *)
(* unless the loop, which meets the records in the order of their ids and  *)
(* the new one last, has met the disagreement before it. *)
Agreed(old, proof) ==
    [time |-> IF old.time = NoTime THEN proof.time ELSE old.time,
     conflict |-> \/ old.conflict \/ proof.conflict
                  \/ (proof.time # NoTime /\ old.time # NoTime /\ old.time # proof.time)]
Earlier(y, x, new) == y[1] = x[1] /\ (y[2] < x[2] \/ (new # y /\ new = x))
RowCommitted(st, r, t) ==
    LET x == <<r.source, r.text>>
        new == IF st.records[x] = None THEN x ELSE None
        recs == [st.records EXCEPT ![x] = IF @ = None THEN NoTime ELSE @]
        next == Agreed(st.ledger[r.source], evidence[t][r.source])
        contesting == {y \in Snapshots : y[1] = r.source /\ next.time # NoTime
                                          /\ recs[y] \notin {None, NoTime, next.time}}
        timed == {y \in Snapshots : y[1] = r.source /\ recs[y] = NoTime /\ ~next.conflict
                                     /\ ~\E z \in contesting : Earlier(z, y, new)}
    IN [records |-> [y \in Snapshots |-> IF y \in timed THEN next.time ELSE recs[y]],
        ledger |-> [st.ledger EXCEPT ![r.source] = [next EXCEPT !.conflict = @ \/ contesting # {}]],
        added |-> st.added + (IF new = None THEN 0 ELSE 1),
        issues |-> st.issues + (IF next.conflict \/ contesting # {} THEN 1 ELSE 0)]

Committed(st, rows, t) ==
    FoldLeft(LAMBDA acc, r : IF Taken(r) THEN RowCommitted(acc, r, t) ELSE acc, st, rows)

CommitEarly(t, k) ==  \* mutant: committing while the file is still being checked
    /\ task[t].phase \in {"checking", "ready", "importing", "completed", "partial"}
    /\ batch[t][k] # None /\ ~batch[t][k].committed
    /\ k = task[t].committed + 1

(* commit: one batch in one transaction, in order; a batch that has its    *)
(* receipt is answered with it. *)
MayCommit(t, k) ==
    /\ task[t].phase \in {"ready", "importing", "completed", "partial"}
    /\ batch[t][k] # None /\ ~batch[t][k].committed
    /\ k = task[t].committed + 1

Commit(t, page) ==
    \E k \in 1..MaxBatches :
        /\ Authorized(t, page)
        /\ MayCommit(t, k)
        /\ consented
        /\ \A r \in Rows(task[t].file, k) : Taken(r) => evidence[t][r.source] # None
        /\ LET done == Committed([records |-> records, ledger |-> ledger, added |-> 0, issues |-> 0],
                                 task[t].file[k], t)
           IN /\ records' = done.records
              /\ ledger' = done.ledger
              /\ task' = [task EXCEPT ![t].phase = "importing", ![t].committed = @ + 1,
                                      ![t].added = @ + done.added, ![t].issues = @ + done.issues]
              /\ batch' = [batch EXCEPT ![t][k] = [committed |-> TRUE, added |-> done.added, issues |-> done.issues]]
        /\ UNCHANGED <<evidence, grant, pausing, purged, consented, disturbances>>

Paused(t) == task' = [task EXCEPT ![t] = IF @.phase \in Terminal \cup {"paused"} THEN @
                                         ELSE [@ EXCEPT !.resume = task[t].phase, !.phase = "paused"]]

Pause(t, page) ==
    /\ Authorized(t, page)
    /\ Paused(t)
    /\ grant' = [grant EXCEPT ![t] = None]
    /\ UNCHANGED <<batch, evidence, pausing, library, disturbances>>

LatePause(t) ==
    /\ t \in pausing
    /\ Paused(t)
    /\ pausing' = pausing \ {t}
    /\ UNCHANGED <<batch, evidence, grant, library, disturbances>>

(* cancel needs no grant. *)
Cancel(t) ==
    /\ task[t] # None
    /\ task' = [task EXCEPT ![t].phase = IF @ \in Terminal THEN @ ELSE "cancelled"]
    /\ grant' = [grant EXCEPT ![t] = None]
    /\ UNCHANGED <<batch, evidence, pausing, library, disturbances>>

Complete(t, page) ==
    /\ Authorized(t, page)
    /\ task[t].phase \in {"ready", "importing", "completed", "partial"}
    /\ task[t].committed = task[t].checked
    /\ task' = [task EXCEPT ![t].phase = IF task[t].issues > 0 THEN "partial" ELSE "completed"]
    /\ grant' = [grant EXCEPT ![t] = None]
    /\ UNCHANGED <<batch, evidence, pausing, library, disturbances>>

-----------------------------------------------------------------------------
(* A grant ends after half an hour, with its page, or with the worker. *)
GrantEnds ==
    /\ Disturb
    /\ \/ grant' = [t \in Tasks |-> None] /\ pausing' = {}
       \/ /\ \E page \in Pages : grant' = [t \in Tasks |-> IF grant[t] = page THEN None ELSE grant[t]]
          /\ UNCHANGED pausing
    /\ UNCHANGED <<task, batch, evidence, library>>

(* The live page captures a message, with a time of its own or without. *)
Capture(s, text) ==
    /\ Disturb
    /\ consented /\ s \notin purged
    /\ records[<<s, text>>] = None
    /\ \E time \in Times : records' = [records EXCEPT ![<<s, text>>] = time]
    /\ UNCHANGED <<task, batch, evidence, grant, pausing, ledger, purged, consented>>

Purge(s) ==
    /\ Disturb
    /\ \E text \in Texts : records[<<s, text>>] # None
    /\ records' = [x \in Snapshots |-> IF x[1] = s THEN None ELSE records[x]]
    /\ ledger' = [ledger EXCEPT ![s] = [time |-> NoTime, conflict |-> FALSE]]
    /\ purged' = purged \cup {s}
    /\ evidence' = [t \in Tasks |-> [evidence[t] EXCEPT ![s] = None]]
    /\ UNCHANGED <<task, batch, grant, pausing, consented>>

SetConsent ==
    /\ Disturb
    /\ consented' = ~consented
    /\ UNCHANGED <<task, batch, evidence, grant, pausing, records, ledger, purged>>

Next ==
    \/ \E t \in Tasks, page \in Pages :
          \/ Begin(t, page) \/ Preflight(t, page) \/ Ready(t, page) \/ Commit(t, page)
          \/ Pause(t, page) \/ Complete(t, page)
    \/ \E t \in Tasks : LatePause(t) \/ Cancel(t)
    \/ GrantEnds
    \/ \E s \in Sources : Purge(s) \/ \E text \in Texts : Capture(s, text)
    \/ SetConsent

Spec == Init /\ [][Next]_vars

-----------------------------------------------------------------------------
TypeOK ==
    /\ \A t \in Tasks : task[t] # None =>
          /\ task[t].file \in Files
          /\ task[t].phase \in Phases /\ task[t].resume \in Phases \ {"paused"}
          /\ task[t].committed \in 0..task[t].checked /\ task[t].checked \in 0..Len(task[t].file)
    /\ grant \in [Tasks -> Pages \cup {None}]
    /\ pausing \subseteq Tasks
    /\ records \in [Snapshots -> Times \cup {None}]
    /\ purged \subseteq Sources

RowsOf(f) == UNION {Rows(f, k) : k \in 1..Len(f)}
Stated(f, s) == {r.time : r \in {r \in RowsOf(f) : r.source = s}} \ {NoTime}

(* A source that was deleted for good does not come back, although its     *)
(* batch was checked, its evidence gathered, before it was deleted, or the *)
(* file is opened afresh.                                                  *)
PurgedStaysPurged == \A x \in Snapshots : x[1] \in purged => records[x] = None

(* A finished import has brought in every row of its file: whatever was    *)
(* retried, paused or taken over by another page, each snapshot is in the  *)
(* library or deleted since.  If it calls itself completed rather than     *)
(* partial, the file did not contradict itself about any source it kept.   *)
FinishedMeansAll ==
    \A t \in Tasks : task[t] # None /\ task[t].phase \in {"completed", "partial"} =>
        /\ \A r \in RowsOf(task[t].file) : r.source \in purged \/ records[<<r.source, r.text>>] # None
        /\ task[t].phase = "completed" =>
              \A s \in Sources \ purged : Cardinality(Stated(task[t].file, s)) <= 1

(* No record takes its official time from a file that contradicts itself   *)
(* about the source, in whatever batch the contradiction stands: a time    *)
(* that is written by an import is the only one some imported file states. *)
TimesAreAgreed ==
    [][\A x \in Snapshots :
          (task' # task /\ records'[x] \in Times \ {NoTime} /\ records[x] # records'[x]) =>
             /\ records[x] \in {None, NoTime}
             /\ \E t \in Tasks : task[t] # None /\ Stated(task[t].file, x[1]) = {records'[x]}]_vars

(* The counts shown for a task are those of its receipts, each batch once. *)
CountsMatchReceipts ==
    \A t \in Tasks : task[t] # None =>
        LET done == {k \in 1..MaxBatches : batch[t][k] # None /\ batch[t][k].committed}
        IN /\ done = 1..task[t].committed
           /\ task[t].added = FoldSet(LAMBDA k, n : n + batch[t][k].added, 0, done)
           /\ task[t].issues = FoldSet(LAMBDA k, n : n + batch[t][k].issues, 0, done)

(* A task that is over adds nothing any more, whoever still holds a grant  *)
(* or repeats a call. *)
OverIsOver ==
    [][\A t \in Tasks : (task[t] # None /\ task[t].phase \in Terminal) =>
          task'[t].phase = task[t].phase /\ task'[t].committed = task[t].committed /\ batch'[t] = batch[t]]_vars
=============================================================================
