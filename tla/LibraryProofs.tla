----------------------------- MODULE LibraryProofs -----------------------------
(***************************************************************************)
(* What the local library guarantees for any number of rows, edits,        *)
(* failures and deaths of the worker: its migration (StoreMigration), the  *)
(* upkeep of the thoughts made of its inputs (EntryUpkeep), and the move   *)
(* of the application to a published copy of it (GenerationSelection).     *)
(* MigrationInv is inductive: beside the invariants it says what the       *)
(* worker may rely on at each point of its program (Worker), what each     *)
(* phase promises to the worker that comes next (Phases), and that a seal  *)
(* under way can only name this database, since there is never another.    *)
(* UpkeepInv is inductive: what an entry's row, its dependencies and the   *)
(* history of its making say of each other (Made), that a mirror has the   *)
(* text of its input or an invalidation will still come to it, past the    *)
(* cursor and past the batch that was read (Agrees, Waits), and how far    *)
(* the cleanup of a purged input is (Cleaning).                            *)
(* SelectionInv is inductive: which of the two libraries takes ordinary    *)
(* writes and what each receipt implies of the other (OneLibrary), for     *)
(* which lease a row is in flight (LeaseHolds, SaveHolds), that what a     *)
(* worker read still stands or can be seen not to (SourceRead,             *)
(* TargetRead), and that one worker at most is past its reservation and a  *)
(* row sent never goes with another still to send (OneChosen, SentOnce).   *)
(***************************************************************************)
EXTENDS StoreMigration, EntryUpkeep, GenerationSelection, TLAPS, FiniteSetTheorems, WellFoundedInduction

-----------------------------------------------------------------------------
(* The migration. *)

MigrationShape ==
  /\ phase \in {"none", "copying", "verified", "active"}
  /\ pc \in {"idle", "back up", "copy", "compare", "verified", "sealing", "sealed", "loaded", "stuck"}
  /\ backup \in BOOLEAN /\ control \in BOOLEAN /\ opened \in BOOLEAN

OneDatabase ==
  /\ id \in {0, 1} /\ localRow \in {Old, id} /\ seals \subseteq {id}
  /\ phase = "none" => id = 0 /\ localRow = Old /\ seals = {}
  /\ phase # "none" => id = 1

Phases ==
  /\ phase \in {"copying", "verified"} => backup
  /\ phase = "verified" => Same

Worker ==
  /\ pc = "back up" => phase = "none"
  /\ pc \in {"copy", "compare"} => phase = "copying"
  /\ pc \in {"verified", "sealing", "sealed"} => phase = "verified"
  /\ pc = "sealed" => localRow = id
  /\ pc = "loaded" => phase = "active"

MigrationInv == MigrationShape /\ MigrationIsSafe /\ OneDatabase /\ Phases /\ Worker
LEMMA MigrationInvInit == MigrationInit => MigrationInv
<1>. SUFFICES ASSUME MigrationInit PROVE MigrationInv
  OBVIOUS
<1>. USE MigrationAssumption DEF MigrationInit, Old, All
<1>1. MigrationShape /\ OneDatabase /\ Phases /\ Worker
  BY DEF MigrationShape, OneDatabase, Phases, Worker
<1>2. MigrationTypeOK
  BY DEF MigrationTypeOK
<1>3. NothingIsLost /\ ActiveIsWhole /\ CursorIsCovered
  BY DEF NothingIsLost, ActiveIsWhole, CursorIsCovered
<1>. QED
  BY <1>1, <1>2, <1>3 DEF MigrationInv, MigrationIsSafe

LEMMA BackUpWrites ==
  ASSUME BackUp, id = 0
  PROVE  /\ phase' = "copying" /\ id' = 1 /\ copyCursor' = 0 /\ backup' /\ pc' = "copy"
         /\ UNCHANGED <<localRow, seals, chunks, opened, control>>
<1>1. id' = id + 1
  BY DEF BackUp
<1>2. id' = 1
  BY <1>1
<1>3. backup'
  BY DEF BackUp
<1>4. phase' = "copying" /\ copyCursor' = 0 /\ pc' = "copy"
      /\ UNCHANGED <<localRow, seals, chunks, opened, control>>
  BY DEF BackUp
<1>. QED
  BY <1>2, <1>3, <1>4

\* The type invariant, when the database is the first one.
FirstShape ==
  /\ id = 1 /\ phase # "none" /\ localRow \in {0, 1} /\ seals \subseteq {1}
  /\ copyCursor \in 0..Chunks /\ chunks \subseteq 1..Chunks

LEMMA FirstDatabase == FirstShape => MigrationTypeOK
<1>. SUFFICES ASSUME FirstShape PROVE MigrationTypeOK
  OBVIOUS
<1>. USE DEF FirstShape
<1>1. phase = "none" <=> id = 0
  OBVIOUS
<1>2. localRow \in 0..id /\ seals \subseteq 1..id
  OBVIOUS
<1>. QED
  BY <1>1, <1>2 DEF MigrationTypeOK, All

LEMMA MigrationInvStep == MigrationInv /\ [MigrationNext]_migrationVars => MigrationInv'
<1>. SUFFICES ASSUME MigrationInv, [MigrationNext]_migrationVars PROVE MigrationInv'
  OBVIOUS
<1>. USE MigrationAssumption
     DEF MigrationInv, MigrationShape, MigrationIsSafe, OneDatabase, Phases, Worker, MigrationTypeOK,
         NothingIsLost, ActiveIsWhole, CursorIsCovered, Old, All, Same, database
<1>1. ASSUME Start PROVE MigrationInv'
  BY <1>1 DEF Start
<1>2. ASSUME BackUp PROVE MigrationInv'
  <2>1. phase = "none" /\ id = 0 /\ localRow = 0 /\ seals = {} /\ chunks \subseteq 1..Chunks
        /\ opened \in BOOLEAN /\ control \in BOOLEAN
    BY <1>2 DEF BackUp
  <2>2. /\ phase' = "copying" /\ id' = 1 /\ copyCursor' = 0 /\ backup' /\ pc' = "copy"
        /\ localRow' = 0 /\ seals' = {} /\ chunks' = chunks /\ opened' = opened /\ control' = control
    BY <1>2, <2>1, BackUpWrites
  <2>. HIDE DEF MigrationInv
  <2>3. MigrationShape' /\ OneDatabase' /\ Phases' /\ Worker'
    BY <2>1, <2>2
  <2>4. MigrationTypeOK'
    BY <2>1, <2>2
  <2>5. NothingIsLost' /\ ActiveIsWhole' /\ CursorIsCovered'
    BY <2>1, <2>2
  <2>. QED
    BY <2>3, <2>4, <2>5 DEF MigrationInv
<1>3. ASSUME Copy PROVE MigrationInv'
  BY <1>3 DEF Copy
<1>4. ASSUME CopyControl PROVE MigrationInv'
  BY <1>4 DEF CopyControl
<1>5. ASSUME Verify PROVE MigrationInv'
  BY <1>5 DEF Verify
<1>6. ASSUME Seal PROVE MigrationInv'
  <2>1. UNCHANGED <<localRow, phase, id, copyCursor, chunks, control, backup, opened>>
        /\ phase = "verified" /\ Same /\ seals' = {id} /\ pc' = "sealing" /\ id = 1
    BY <1>6 DEF Seal
  <2>2. MigrationShape' /\ OneDatabase' /\ Phases' /\ Worker'
    BY <2>1
  <2>3. MigrationTypeOK'
    <3>1. FirstShape'
      BY <2>1 DEF FirstShape
    <3>2. FirstShape' => MigrationTypeOK'
      BY FirstDatabase, PTL
    <3>. QED
      BY <3>1, <3>2
  <2>. QED
    BY <2>1, <2>2, <2>3
<1>7. ASSUME NEW n \in seals, Land(n) PROVE MigrationInv'
  <2>1. /\ UNCHANGED <<phase, id, copyCursor, chunks, control, backup, opened>>
        /\ id = 1 /\ phase # "none" /\ localRow' = id /\ seals' = {}
        /\ pc' = pc \/ (pc = "sealing" /\ pc' = "sealed")
    BY <1>7 DEF Land
  <2>2. MigrationShape' /\ OneDatabase' /\ Phases' /\ Worker'
    BY <2>1
  <2>3. MigrationTypeOK'
    <3>1. FirstShape'
      BY <2>1 DEF FirstShape
    <3>2. FirstShape' => MigrationTypeOK'
      BY FirstDatabase, PTL
    <3>. QED
      BY <3>1, <3>2
  <2>4. NothingIsLost' /\ ActiveIsWhole' /\ CursorIsCovered'
    BY <2>1
  <2>. QED
    BY <2>2, <2>3, <2>4
<1>8. ASSUME Activate PROVE MigrationInv'
  BY <1>8 DEF Activate
<1>9. ASSUME Again PROVE MigrationInv'
  BY <1>9 DEF Again
<1>10. ASSUME Fail PROVE MigrationInv'
  BY <1>10 DEF Fail
<1>11. ASSUME Reset PROVE MigrationInv'
  <2>1. MigrationShape' /\ OneDatabase' /\ Phases' /\ Worker'
    BY <1>11 DEF Reset
  <2>2. MigrationTypeOK'
    BY <1>11 DEF Reset
  <2>3. NothingIsLost' /\ ActiveIsWhole' /\ CursorIsCovered'
    BY <1>11 DEF Reset
  <2>. QED
    BY <2>1, <2>2, <2>3
<1>12. CASE UNCHANGED migrationVars
  BY <1>12 DEF migrationVars
<1>. QED
  BY <1>1, <1>2, <1>3, <1>4, <1>5, <1>6, <1>7, <1>8, <1>9, <1>10, <1>11, <1>12 DEF MigrationNext, Work

\* Something holds the whole library at every moment, a database in use is
\* whole and named by the sealed row, and no restart skips a chunk.
THEOREM MigrationSafe == MigrationSpec => []MigrationIsSafe
<1>1. MigrationInv => MigrationIsSafe
  BY DEF MigrationInv
<1>. QED
  BY <1>1, MigrationInvInit, MigrationInvStep, PTL DEF MigrationSpec

-----------------------------------------------------------------------------
(* The values of the variables. *)
InputRows == [text : Writings, rev : Nat, out : BOOLEAN, removedAt : Nat, purged : BOOLEAN]
Invalidations ==
  [input : Inputs, reason : {"input_removed", "source_updated", "source_purged"},
   named : BOOLEAN, sequence : Nat, cursor : Nat]
CleanJobs == [source : Inputs, stage : {"thoughts", "others", "over"}]
Reads ==
  [event : Invalidations, page : UNION {[s -> Dependencies] : s \in SUBSET Entries},
   last : BOOLEAN, present : BOOLEAN, rev : Nat, text : Writings]
Runners ==
  [at : {"off", "purge", "read", "commit"}, busy : BOOLEAN, read : Reads \cup {None},
   requested : BOOLEAN, failed : BOOLEAN]
Known == UNION {[s -> Writings] : s \in SUBSET Inputs}

Shape ==
  /\ inputs \in [Inputs -> InputRows] /\ epoch \in Nat
  /\ entries \in [Entries -> EntryRows \cup {None}]
  /\ deps \in [Entries -> [Inputs -> Dependencies \cup {None}]]
  /\ events \in Seq(Invalidations) /\ jobs \in Seq(CleanJobs) /\ runner \in Runners
  /\ used \in [Entries -> Known \cup {None}] /\ removedSince \in [Entries -> SUBSET Inputs]

Sequenced ==
  /\ \A i \in Inputs : inputs[i].removedAt <= epoch
  /\ \A n \in 1 .. Len(events) : events[n].sequence <= epoch

\* What an entry's row, its dependencies and the history of its making say of
\* each other.  Once a source is purged nobody's hand can be in the entry any
\* more; a derived entry is current only while nothing it rests on was dropped,
\* and active by itself only while something is left.
Made(e, row, dep, u, removed, ins, now) ==
  /\ u = None => row = None /\ removed = {} /\ \A i \in Inputs : dep[i] = None
  /\ row # None =>
       /\ u # None /\ row.sources = DOMAIN u
       /\ e \in Derived => row.of = None
       /\ row.of # None => row.sources = {row.of} /\ (dep[row.of] # None \/ ins[row.of].purged)
       /\ \A i \in row.sources : ins[i].purged => ~row.human
       /\ e \in Derived /\ row.fresh = "current" =>
            \A i \in row.sources : ins[i].purged \/ dep[i] # None
       /\ e \in Derived /\ ~row.human /\ row.life = "active" =>
            (\E i \in row.sources : ins[i].purged) \/ (\E i \in Inputs : dep[i] # None)
  /\ \A i \in Inputs : dep[i] # None =>
       /\ u # None /\ i \in DOMAIN u /\ dep[i].eligible <= now
       /\ e \in Derived => dep[i].text = u[i] /\ (i \in removed => ins[i].removedAt > dep[i].eligible)
MadeAll ==
  \A e \in Entries : Made(e, entries[e], deps[e], used[e], removedSince[e], inputs, epoch)

\* The n-th invalidation will still come to entry e of input i: its cursor is
\* before e, and a batch of it that was read has e, or ends before it.
Waits(e, i, n, evs, at, read) ==
  /\ evs[n].input = i /\ e > evs[n].cursor
  /\ n = 1 /\ at = "commit" =>
       e \in DOMAIN read.page \/ (~read.last /\ \A x \in DOMAIN read.page : x < e)

\* A mirror has the text of its input, or an invalidation will come to it.
Agrees(e, row, ins, evs, at, read) ==
  row # None /\ row.of # None =>
    (~ins[row.of].purged /\ row.life \in {"active", "removed"} =>
      \/ ~ins[row.of].out /\ row.body = ins[row.of].text
      \/ \E n \in 1 .. Len(evs) : Waits(e, row.of, n, evs, at, read))
AgreesAll == \A e \in Entries : Agrees(e, entries[e], inputs, events, runner.at, runner.read)

\* A batch under way is one of the first invalidation.
Reading ==
  runner.at = "commit" =>
    /\ runner.read \in Reads /\ events # <<>> /\ Head(events) = runner.read.event
    /\ runner.read.last \/ DOMAIN runner.read.page # {}

\* Evidence is of an entry that was never made; what has the revision that was
\* read has the text that was read.
Drafted ==
  draft # None =>
    /\ draft.entry \in Entries /\ used[draft.entry] = None
    /\ draft.epoch \in Nat /\ draft.epoch <= epoch
    /\ draft.evidence \in UNION {[s -> [text : Writings, rev : Nat]] : s \in SUBSET Inputs}
    /\ DOMAIN draft.evidence # {}
    /\ draft.entry \in Mirrors => \E i \in Inputs : DOMAIN draft.evidence = {i}
    /\ \A i \in DOMAIN draft.evidence :
         /\ draft.evidence[i].rev <= inputs[i].rev
         /\ draft.evidence[i].rev = inputs[i].rev => draft.evidence[i].text = inputs[i].text

\* How far the cleanup of an input is.
Freed(i, es) == \A e \in Entries : es[e] # None => i \notin es[e].sources
Cleared(i, ds) == \A e \in Entries : ds[e][i] = None
Cleaning ==
  /\ \A n \in 1 .. Len(jobs) :
       /\ inputs[jobs[n].source].purged
       /\ jobs[n].stage # "thoughts" => Freed(jobs[n].source, entries)
       /\ jobs[n].stage = "over" => Cleared(jobs[n].source, deps)
  /\ cleaned \subseteq Inputs
  /\ \A i \in cleaned : inputs[i].purged /\ Freed(i, entries) /\ Cleared(i, deps)

UpkeepInv ==
  Shape /\ Sequenced /\ MadeAll /\ AgreesAll /\ Reading /\ Drafted /\ Cleaning

-----------------------------------------------------------------------------
(* Numbers: the last of a batch, and the batch itself. *)

LEMMA LastOf ==
  ASSUME NEW S \in SUBSET Nat, IsFiniteSet(S), S # {}
  PROVE  \E m \in S : \A x \in S : x <= m
<1>. DEFINE Bad == {T \in SUBSET S : T # {} /\ ~(\E m \in T : \A x \in T : x <= m)}
<1>1. SUFFICES ASSUME S \in Bad PROVE FALSE
  OBVIOUS
<1>2. Bad \subseteq FiniteSubsetsOf(S)
  BY FS_Subset DEF FiniteSubsetsOf
<1>3. PICK T \in Bad : \A U \in Bad : <<U, T>> \notin StrictSubsetOrdering(S)
  <2>. HIDE DEF Bad
  <2>. QED BY <1>1, <1>2, FS_StrictSubsetOrderingWellFounded, WFMin
<1>4. PICK t \in T : TRUE
  OBVIOUS
<1>. DEFINE U == T \ {t}
<1>5. U \notin Bad
  <2>1. <<U, T>> \in StrictSubsetOrdering(S)
    BY DEF StrictSubsetOrdering
  <2>. QED BY <2>1, <1>3
<1>6. CASE U = {}
  BY <1>4, <1>6
<1>7. CASE U # {}
  <2>1. PICK m \in U : \A x \in U : x <= m
    BY <1>5, <1>7
  <2>2. \A x \in T : x = t \/ x <= m
    BY <2>1
  <2>. m \in Nat /\ t \in Nat
    BY <1>4, <2>1
  <2>3. CASE m <= t
    BY <2>2, <2>3, <1>4
  <2>4. CASE t <= m
    BY <2>1, <2>2, <2>4
  <2>. QED BY <2>3, <2>4
<1>. QED BY <1>6, <1>7

\* What FirstOf takes is nothing but the first rows, and something if there is any.
LEMMA FirstOfIs ==
  ASSUME NEW all \in SUBSET Entries
  PROVE  /\ FirstOf(all) \subseteq all
         /\ \A e \in all \ FirstOf(all) : \A x \in FirstOf(all) : x < e
         /\ all # {} => FirstOf(all) # {}
<1>. USE EntryAssumption
<1>. DEFINE Below(e) == {x \in all : x < e}
<1>1. \A e \in all : IsFiniteSet(Below(e)) /\ Cardinality(Below(e)) \in Nat
  BY FS_Subset, FS_CardinalityType
<1>2. \A e, x \in all : e <= x => Cardinality(Below(e)) <= Cardinality(Below(x))
  <2>. SUFFICES ASSUME NEW e \in all, NEW x \in all, e <= x
       PROVE  Cardinality(Below(e)) <= Cardinality(Below(x))
    OBVIOUS
  <2>1. Below(e) \in SUBSET Below(x)
    OBVIOUS
  <2>. QED BY <2>1, <1>1, FS_Subset
<1>3. FirstOf(all) = {e \in all : Cardinality(Below(e)) < Limit}
  BY DEF FirstOf
<1>. HIDE DEF Below
<1>4. \A e \in all \ FirstOf(all) : \A x \in FirstOf(all) : x < e
  <2>. SUFFICES ASSUME NEW e \in all \ FirstOf(all), NEW x \in FirstOf(all), ~(x < e)
       PROVE  FALSE
    OBVIOUS
  <2>1. e \in Nat /\ x \in Nat /\ e <= x /\ x \in all
    BY <1>3
  <2>2. Cardinality(Below(e)) <= Cardinality(Below(x)) /\ Cardinality(Below(x)) < Limit
        /\ ~(Cardinality(Below(e)) < Limit)
    BY <2>1, <1>2, <1>3
  <2>. QED BY <2>1, <2>2, <1>1
<1>5. ASSUME all # {} PROVE FirstOf(all) # {}
  <2>. all \subseteq Nat
    OBVIOUS
  <2>0. PICK k \in all : \A x \in all : x <= k
    BY <1>5, LastOf, FS_Subset
  <2>. DEFINE Back == {k - x : x \in all}
  <2>4. Back \in SUBSET Nat /\ Back # {} /\ \A b \in Back : b <= k
    BY <1>5, <2>0
  <2>5. PICK b \in Back : \A c \in Back : c <= b
    <3>. HIDE DEF Back
    <3>. QED BY <2>0, <2>4, LastOf, FS_BoundedSetOfNaturals
  <2>1. PICK m \in all : \A x \in all : m <= x
    <3>1. PICK m \in all : b = k - m
      OBVIOUS
    <3>2. \A x \in all : k - x <= k - m
      BY <2>5, <3>1
    <3>. QED BY <2>0, <3>1, <3>2
  <2>2. Below(m) = {}
    BY <2>1 DEF Below
  <2>3. Cardinality(Below(m)) = 0
    BY <2>2, FS_EmptySet
  <2>. QED BY <1>3, <2>1, <2>3
<1>. QED BY <1>3, <1>4, <1>5

-----------------------------------------------------------------------------
(* Rows, and what a change of them keeps. *)

LEMMA NoneIsNoRow ==
  /\ None \notin Inputs /\ None \notin EntryRows /\ None \notin Dependencies
  /\ \A k \in Known : k # None
BY EntryAssumption DEF Known

LEMMA UnboundIs ==
  ASSUME NEW row \in EntryRows
  PROVE  /\ Unbound(row) \in EntryRows
         /\ Unbound(row).of = None /\ Unbound(row).body = row.body /\ Unbound(row).life = row.life
         /\ Unbound(row).fresh = row.fresh /\ Unbound(row).human = row.human
         /\ Unbound(row).sources = row.sources
BY DEF Unbound, EntryRows

LEMMA LinkedIs ==
  ASSUME NEW row \in EntryRows, NEW text \in Writings, NEW rev \in Nat, NEW named \in BOOLEAN
  PROVE  /\ Linked(row, text, rev, named) \in EntryRows
         /\ Linked(row, text, rev, named).of = row.of /\ Linked(row, text, rev, named).body = text
         /\ Linked(row, text, rev, named).sources = row.sources
BY DEF Linked, EntryRows

\* What any action may do to an entry that is there: it keeps its sources, is
\* not bound to anything else, and a hand is laid on it only while all of its
\* sources are there; a derived one gets neither current nor active again.
Keeps(e, row, row2, ins) ==
  row2 # None =>
    /\ row # None /\ row2.sources = row.sources /\ row2.of \in {row.of, None}
    /\ row2.human => row.human \/ \A i \in row.sources : ~ins[i].purged
    /\ e \in Derived =>
         /\ row2.fresh = "current" => row.fresh = "current"
         /\ ~row2.human /\ row2.life = "active" => ~row.human /\ row.life = "active"

\* What any action may do to the rest of what Made speaks of.
Change(e, row, row2, dep, dep2, u, removed, removed2, ins, ins2, now, now2) ==
  /\ row \in EntryRows \cup {None} /\ row2 \in EntryRows \cup {None}
  /\ dep \in [Inputs -> Dependencies \cup {None}]
  /\ removed \in SUBSET Inputs /\ removed2 \in SUBSET Inputs
  /\ ins \in [Inputs -> InputRows] /\ ins2 \in [Inputs -> InputRows]
  /\ now \in Nat /\ now2 \in Nat /\ now <= now2
  /\ Keeps(e, row, row2, ins2)
  /\ \A i \in Inputs : ins[i].removedAt <= ins2[i].removedAt /\ (ins[i].purged => ins2[i].purged)
  /\ row2 # None => \A i \in row2.sources : ins2[i].purged /\ ~ins[i].purged => ~row2.human
  /\ u = None => removed2 = {}
  /\ \A i \in removed2 : i \in removed \/ now < ins2[i].removedAt
  /\ \A i \in Inputs : dep2[i] = dep[i] \/ (dep2[i] = None /\ ins2[i].purged)

LEMMA MadeKept ==
  ASSUME NEW e \in Entries, NEW row, NEW row2, NEW dep, NEW dep2, NEW u, NEW removed, NEW removed2,
         NEW ins, NEW ins2, NEW now, NEW now2,
         Change(e, row, row2, dep, dep2, u, removed, removed2, ins, ins2, now, now2),
         Made(e, row, dep, u, removed, ins, now)
  PROVE  Made(e, row2, dep2, u, removed2, ins2, now2)
<1>. row \in EntryRows \cup {None} /\ row2 \in EntryRows \cup {None}
  BY DEF Change
<1>. dep \in [Inputs -> Dependencies \cup {None}]
  BY DEF Change
<1>. removed \in SUBSET Inputs /\ removed2 \in SUBSET Inputs
  BY DEF Change
<1>. ins \in [Inputs -> InputRows] /\ ins2 \in [Inputs -> InputRows]
  BY DEF Change
<1>. now \in Nat /\ now2 \in Nat /\ now <= now2
  BY DEF Change
<1>. Keeps(e, row, row2, ins2)
  BY DEF Change
<1>. \A i \in Inputs : ins[i].removedAt <= ins2[i].removedAt /\ (ins[i].purged => ins2[i].purged)
  BY DEF Change
<1>. row2 # None => \A i \in row2.sources : ins2[i].purged /\ ~ins[i].purged => ~row2.human
  BY DEF Change
<1>. u = None => removed2 = {}
  BY DEF Change
<1>. \A i \in removed2 : i \in removed \/ now < ins2[i].removedAt
  BY DEF Change
<1>. \A i \in Inputs : dep2[i] = dep[i] \/ (dep2[i] = None /\ ins2[i].purged)
  BY DEF Change
<1>. DEFINE Known2(i) ==
       /\ u # None /\ i \in DOMAIN u /\ dep2[i].eligible <= now2
       /\ e \in Derived => dep2[i].text = u[i]
                           /\ (i \in removed2 => ins2[i].removedAt > dep2[i].eligible)
<1>1. u = None => row2 = None /\ removed2 = {} /\ \A i \in Inputs : dep2[i] = None
  BY DEF Made, Keeps
<1>2. ASSUME NEW i \in Inputs, dep2[i] # None PROVE Known2(i)
  <2>1. dep2[i] = dep[i] /\ dep[i] \in Dependencies
    BY <1>2
  <2>2. u # None /\ i \in DOMAIN u /\ dep[i].eligible <= now
        /\ (e \in Derived => dep[i].text = u[i]
              /\ (i \in removed => ins[i].removedAt > dep[i].eligible))
    BY <1>2, <2>1 DEF Made
  <2>3. dep[i].eligible \in Nat /\ ins[i].removedAt \in Nat /\ ins2[i].removedAt \in Nat
        /\ ins[i].removedAt <= ins2[i].removedAt
    BY <2>1 DEF Dependencies, InputRows
  <2>4. i \in removed2 => i \in removed \/ now < ins2[i].removedAt
    OBVIOUS
  <2>. QED BY <2>1, <2>2, <2>3, <2>4
<1>3. ASSUME row2 # None
      PROVE  /\ u # None /\ row2.sources = DOMAIN u
             /\ e \in Derived => row2.of = None
             /\ row2.of # None => row2.sources = {row2.of}
                                  /\ (dep2[row2.of] # None \/ ins2[row2.of].purged)
             /\ \A i \in row2.sources : ins2[i].purged => ~row2.human
             /\ e \in Derived /\ row2.fresh = "current" =>
                  \A i \in row2.sources : ins2[i].purged \/ dep2[i] # None
             /\ e \in Derived /\ ~row2.human /\ row2.life = "active" =>
                  (\E i \in row2.sources : ins2[i].purged) \/ (\E i \in Inputs : dep2[i] # None)
  <2>1. /\ row # None /\ row2.sources = row.sources /\ row2.of \in {row.of, None}
        /\ row2.human => row.human \/ \A i \in row.sources : ~ins2[i].purged
        /\ e \in Derived =>
             /\ row2.fresh = "current" => row.fresh = "current"
             /\ ~row2.human /\ row2.life = "active" => ~row.human /\ row.life = "active"
    BY <1>3 DEF Keeps
  <2>2. row \in EntryRows /\ row2 \in EntryRows /\ row.sources \subseteq Inputs
        /\ row2.of \in Inputs \cup {None} /\ row.of \in Inputs \cup {None}
    BY <1>3, <2>1 DEF EntryRows
  <2>3. /\ u # None /\ row.sources = DOMAIN u
        /\ e \in Derived => row.of = None
        /\ row.of # None => row.sources = {row.of} /\ (dep[row.of] # None \/ ins[row.of].purged)
        /\ \A i \in row.sources : ins[i].purged => ~row.human
        /\ e \in Derived /\ row.fresh = "current" =>
             \A i \in row.sources : ins[i].purged \/ dep[i] # None
        /\ e \in Derived /\ ~row.human /\ row.life = "active" =>
             (\E i \in row.sources : ins[i].purged) \/ (\E i \in Inputs : dep[i] # None)
    BY <2>1 DEF Made
  <2>4. row2.of # None => dep2[row2.of] # None \/ ins2[row2.of].purged
    BY <2>1, <2>2, <2>3
  <2>5. \A i \in row2.sources : ins2[i].purged => ~row2.human
    BY <1>3, <2>1, <2>2, <2>3
  <2>6. e \in Derived /\ row2.fresh = "current" =>
          \A i \in row2.sources : ins2[i].purged \/ dep2[i] # None
    BY <2>1, <2>2, <2>3
  <2>7. \A i \in Inputs : dep[i] # None => i \in row.sources
    BY <2>3 DEF Made
  <2>8. e \in Derived /\ ~row2.human /\ row2.life = "active" =>
          (\E i \in row2.sources : ins2[i].purged) \/ (\E i \in Inputs : dep2[i] # None)
    <3>. SUFFICES ASSUME e \in Derived, ~row2.human, row2.life = "active"
         PROVE  (\E i \in row2.sources : ins2[i].purged) \/ (\E i \in Inputs : dep2[i] # None)
      OBVIOUS
    <3>1. CASE \E i \in row.sources : ins[i].purged
      BY <3>1, <2>1, <2>2
    <3>2. CASE \E i \in Inputs : dep[i] # None
      BY <3>2, <2>1, <2>7
    <3>. QED BY <3>1, <3>2, <2>1, <2>3
  <2>. QED BY <2>1, <2>3, <2>4, <2>5, <2>6, <2>8
<1>. QED BY <1>1, <1>2, <1>3 DEF Made

\* An entry that keeps its text keeps what it waits for, whatever is appended.
Waiting(row, row2, ins, ins2, evs, evs2, at, at2, read, read2) ==
  /\ row2 # None /\ row2.of # None =>
       /\ row # None /\ row2.of = row.of /\ row2.body = row.body
       /\ row2.life \in {"active", "removed"} => row.life \in {"active", "removed"}
       /\ \/ ins2[row.of].purged
          \/ /\ ins2[row.of].out = ins[row.of].out /\ ins2[row.of].purged = ins[row.of].purged
             /\ ins2[row.of].text = ins[row.of].text
  /\ evs \in Seq(Invalidations)
  /\ evs2 = evs \/ \E x \in Invalidations : evs2 = Append(evs, x)
  /\ at2 = "commit" => at = "commit" /\ read2 = read

LEMMA AgreesKept ==
  ASSUME NEW e, NEW row, NEW row2, NEW ins, NEW ins2, NEW evs, NEW evs2, NEW at, NEW at2,
         NEW read, NEW read2,
         Waiting(row, row2, ins, ins2, evs, evs2, at, at2, read, read2),
         Agrees(e, row, ins, evs, at, read)
  PROVE  Agrees(e, row2, ins2, evs2, at2, read2)
<1>. SUFFICES ASSUME row2 # None, row2.of # None, ~ins2[row2.of].purged,
                     row2.life \in {"active", "removed"},
                     ~(~ins2[row2.of].out /\ row2.body = ins2[row2.of].text)
              PROVE  \E n \in 1 .. Len(evs2) : Waits(e, row2.of, n, evs2, at2, read2)
  BY DEF Agrees
<1>1. PICK n \in 1 .. Len(evs) : Waits(e, row.of, n, evs, at, read)
  BY DEF Agrees, Waiting
<1>2. n \in 1 .. Len(evs2) /\ evs2[n] = evs[n] /\ row2.of = row.of
  BY DEF Waiting
<1>3. at2 = "commit" => at = "commit" /\ read2 = read
  BY DEF Waiting
<1>. QED BY <1>1, <1>2, <1>3 DEF Waits

-----------------------------------------------------------------------------
(* What several actions leave as it was. *)

LEMMA ItemsAre ==
  ASSUME Shape
  PROVE  /\ \A n \in 1 .. Len(jobs) : jobs[n] \in CleanJobs /\ jobs[n].source \in Inputs
         /\ \A n \in 1 .. Len(events) :
              events[n] \in Invalidations /\ events[n].input \in Inputs /\ events[n].sequence \in Nat
<1>1. jobs \in Seq(CleanJobs) /\ events \in Seq(Invalidations)
  BY DEF Shape
<1>2. /\ \A n \in 1 .. Len(jobs) : jobs[n] \in CleanJobs
      /\ \A n \in 1 .. Len(events) : events[n] \in Invalidations
  BY <1>1
<1>. QED BY <1>2 DEF CleanJobs, Invalidations

LEMMA EditedIs ==
  ASSUME NEW old \in InputRows, NEW text \in Writings, NEW rev \in Nat, NEW out \in BOOLEAN,
         NEW at \in Nat
  PROVE  /\ Edited(old, text, rev, out, at) \in InputRows
         /\ Edited(old, text, rev, out, at).text = text /\ Edited(old, text, rev, out, at).rev = rev
         /\ Edited(old, text, rev, out, at).out = out
         /\ Edited(old, text, rev, out, at).purged = old.purged
         /\ out => Edited(old, text, rev, out, at).removedAt = at
         /\ ~out => Edited(old, text, rev, out, at).removedAt = old.removedAt
BY DEF Edited, InputRows

LEMMA CleaningKept ==
  ASSUME Shape, Cleaning, jobs' = jobs, cleaned' = cleaned,
         \A i \in Inputs : inputs[i].purged => inputs'[i].purged,
         \A e \in Entries : entries'[e] # None => \A i \in entries'[e].sources :
           inputs[i].purged => entries[e] # None /\ i \in entries[e].sources,
         \A e \in Entries : \A i \in Inputs :
           inputs[i].purged /\ deps[e][i] = None => deps'[e][i] = None
  PROVE  Cleaning'
<1>1. \A i \in Inputs : inputs[i].purged /\ Freed(i, entries) => Freed(i, entries')
  BY DEF Freed
<1>2. \A i \in Inputs : inputs[i].purged /\ Cleared(i, deps) => Cleared(i, deps')
  BY DEF Cleared
<1>3. \A n \in 1 .. Len(jobs) : jobs[n].source \in Inputs
  BY ItemsAre
<1>4. ASSUME NEW n \in 1 .. Len(jobs)
      PROVE  /\ inputs'[jobs[n].source].purged
             /\ jobs[n].stage # "thoughts" => Freed(jobs[n].source, entries')
             /\ jobs[n].stage = "over" => Cleared(jobs[n].source, deps')
  BY <1>1, <1>2, <1>3 DEF Cleaning
<1>5. \A i \in cleaned : inputs'[i].purged /\ Freed(i, entries') /\ Cleared(i, deps')
  BY <1>1, <1>2 DEF Cleaning
<1>6. (cleaned \subseteq Inputs)'
  BY DEF Cleaning
<1>. QED BY <1>4, <1>5, <1>6 DEF Cleaning, Freed, Cleared

LEMMA DraftedKept ==
  ASSUME Shape, Shape', Drafted, draft' = draft, used' = used, epoch <= epoch',
         \A i \in Inputs : inputs[i].rev <= inputs'[i].rev
           /\ (inputs'[i].rev = inputs[i].rev => inputs'[i].text = inputs[i].text)
  PROVE  Drafted'
<1>1. CASE draft = None
  BY <1>1 DEF Drafted
<1>2. CASE draft # None
  <2>1. /\ draft.entry \in Entries /\ used[draft.entry] = None
        /\ draft.epoch \in Nat /\ draft.epoch <= epoch
        /\ draft.evidence \in UNION {[s -> [text : Writings, rev : Nat]] : s \in SUBSET Inputs}
        /\ DOMAIN draft.evidence # {}
        /\ draft.entry \in Mirrors => \E i \in Inputs : DOMAIN draft.evidence = {i}
        /\ \A i \in DOMAIN draft.evidence :
             /\ draft.evidence[i].rev <= inputs[i].rev
             /\ draft.evidence[i].rev = inputs[i].rev => draft.evidence[i].text = inputs[i].text
    BY <1>2 DEF Drafted
  <2>2. draft.epoch <= epoch'
    BY <2>1 DEF Shape
  <2>3. \A i \in DOMAIN draft.evidence :
          i \in Inputs /\ draft.evidence[i].rev \in Nat
    BY <2>1
  <2>4. \A i \in Inputs : inputs[i].rev \in Nat /\ inputs'[i].rev \in Nat
    BY DEF Shape, InputRows
  <2>5. \A i \in DOMAIN draft.evidence :
          /\ draft.evidence[i].rev <= inputs'[i].rev
          /\ draft.evidence[i].rev = inputs'[i].rev => draft.evidence[i].text = inputs'[i].text
    BY <2>1, <2>3, <2>4
  <2>. QED BY <2>1, <2>2, <2>5 DEF Drafted
<1>. QED BY <1>1, <1>2

\* Steps of the worker that write nothing of the library.
LEMMA QuietStep ==
  ASSUME UpkeepInv, inputs' = inputs, epoch' = epoch, entries' = entries, deps' = deps,
         events' = events, jobs' = jobs, used' = used, removedSince' = removedSince,
         cleaned' = cleaned, runner' \in Runners, Drafted',
         runner'.at = "commit" => runner.at = "commit" /\ runner'.read = runner.read
  PROVE  UpkeepInv'
<1>1. Shape' /\ Sequenced' /\ MadeAll'
  BY DEF UpkeepInv, Shape, Sequenced, MadeAll
<1>2. Reading'
  BY DEF UpkeepInv, Reading
<1>3. AgreesAll'
  <2>. SUFFICES ASSUME NEW e \in Entries
       PROVE  Agrees(e, entries[e], inputs, events, runner'.at, runner'.read)
    BY DEF AgreesAll
  <2>1. Agrees(e, entries[e], inputs, events, runner.at, runner.read) /\ events \in Seq(Invalidations)
    BY DEF UpkeepInv, AgreesAll, Shape
  <2>2. Waiting(entries[e], entries[e], inputs, inputs, events, events, runner.at, runner'.at,
                runner.read, runner'.read)
    BY <2>1 DEF Waiting
  <2>. QED BY <2>1, <2>2, AgreesKept
<1>4. Cleaning'
  BY CleaningKept DEF UpkeepInv
<1>. QED BY <1>1, <1>2, <1>3, <1>4 DEF UpkeepInv

-----------------------------------------------------------------------------
(* Edits of an input. *)

LEMMA InputEdited ==
  ASSUME UpkeepInv, NEW i \in Inputs, NEW text \in Writings, NEW out \in BOOLEAN,
         ~inputs[i].purged, NEW named \in BOOLEAN, AfterInputEdit(i, text, out, named),
         deps' = deps, jobs' = jobs, runner' = runner, draft' = draft, used' = used,
         cleaned' = cleaned
  PROVE  UpkeepInv'
<1>. Shape /\ Sequenced /\ MadeAll /\ AgreesAll /\ Reading /\ Drafted /\ Cleaning
  BY DEF UpkeepInv
<1>1. inputs[i] \in InputRows /\ epoch \in Nat /\ inputs[i].rev \in Nat
      /\ inputs[i].removedAt \in Nat /\ inputs[i].removedAt <= epoch
  BY DEF Shape, InputRows, Sequenced
<1>2. PICK rev \in Nat : /\ rev = NextRev(i, text) /\ rev \in {inputs[i].rev, inputs[i].rev + 1}
                         /\ text # inputs[i].text => rev = inputs[i].rev + 1
  BY <1>1 DEF NextRev
<1>18. PICK row \in InputRows :
         /\ row = Edited(inputs[i], text, rev, out, epoch + 1) /\ row.text = text /\ row.rev = rev
         /\ row.purged = inputs[i].purged
         /\ out => row.removedAt = epoch + 1
         /\ ~out => row.removedAt = inputs[i].removedAt
  <2>1. PICK at \in Nat : at = epoch + 1
    BY <1>1
  <2>2. PICK old \in InputRows : old = inputs[i]
    BY <1>1
  <2>3. PICK row : row = Edited(old, text, rev, out, at)
    OBVIOUS
  <2>4. /\ row \in InputRows /\ row.text = text /\ row.rev = rev /\ row.purged = old.purged
        /\ out => row.removedAt = at
        /\ ~out => row.removedAt = old.removedAt
    BY <2>3, EditedIs
  <2>. QED BY <2>1, <2>2, <2>3, <2>4
<1>3. /\ inputs' = [inputs EXCEPT ![i] = row] /\ epoch' = epoch + 1
      /\ entries' = IF out THEN entries ELSE Propagated(i, text, rev, named)
      /\ events' = Append(events, Invalidation(i, IF out THEN "input_removed" ELSE "source_updated", named))
      /\ removedSince' = [e \in Entries |->
            IF out /\ used[e] # None /\ i \in DOMAIN used[e]
            THEN removedSince[e] \cup {i} ELSE removedSince[e]]
  BY <1>2, <1>18 DEF AfterInputEdit
<1>4. \A j \in Inputs : inputs'[j] = IF j = i THEN row ELSE inputs[j]
  BY <1>3 DEF Shape
<1>5. /\ inputs' \in [Inputs -> InputRows] /\ epoch' \in Nat
      /\ \A j \in Inputs : /\ inputs[j].purged = inputs'[j].purged
                           /\ inputs[j].removedAt <= inputs'[j].removedAt
                           /\ inputs'[j].removedAt <= epoch'
                           /\ inputs[j].rev <= inputs'[j].rev
                           /\ inputs'[j].rev = inputs[j].rev => inputs'[j].text = inputs[j].text
  <2>1. \A j \in Inputs : inputs[j] \in InputRows /\ inputs[j].removedAt <= epoch
    BY DEF Shape, Sequenced
  <2>2. inputs' \in [Inputs -> InputRows]
    BY <1>18, <1>3 DEF Shape
  <2>5. \A j \in Inputs : inputs[j].rev \in Nat /\ inputs[j].removedAt \in Nat
    BY <2>1 DEF InputRows
  <2>. QED BY <1>1, <1>18, <1>3, <1>2, <1>4, <2>1, <2>2, <2>5
<1>6. Invalidation(i, IF out THEN "input_removed" ELSE "source_updated", named) \in Invalidations
  BY <1>1 DEF Invalidation, Invalidations
<1>7. /\ events' \in Seq(Invalidations) /\ Len(events') = Len(events) + 1
      /\ events'[Len(events) + 1].input = i /\ events'[Len(events) + 1].cursor = 0
      /\ events'[Len(events) + 1].sequence = epoch + 1
      /\ \A n \in 1 .. Len(events) : events'[n] = events[n]
      /\ events # <<>> => Head(events') = Head(events)
  BY <1>3, <1>6 DEF Shape, Invalidation
<1>8. removedSince' \in [Entries -> SUBSET Inputs]
      /\ \A e \in Entries : /\ used[e] = None => removedSince'[e] = removedSince[e]
                            /\ \A j \in removedSince'[e] :
                                 j \in removedSince[e] \/ epoch < inputs'[j].removedAt
  <2>0. inputs'[i] = row
    BY <1>4
  <2>3. out => inputs'[i].removedAt = epoch + 1
    BY <1>18, <2>0, Zenon
  <2>1. out => epoch < inputs'[i].removedAt
    BY <1>1, <2>3
  <2>2. removedSince' \in [Entries -> SUBSET Inputs]
    BY <1>3 DEF Shape
  <2>. QED BY <1>3, <2>1, <2>2
\* The rows: those of the input's mirrors, which are no derived ones.
<1>9. ASSUME NEW e \in Entries
      PROVE  /\ entries'[e] \in EntryRows \cup {None}
             /\ Keeps(e, entries[e], entries'[e], inputs')
             /\ Agrees(e, entries'[e], inputs', events', runner.at, runner.read)
  <2>1. entries[e] \in EntryRows \cup {None}
    BY DEF Shape
  <2>2. Agrees(e, entries[e], inputs, events, runner.at, runner.read)
        /\ Made(e, entries[e], deps[e], used[e], removedSince[e], inputs, epoch)
    BY DEF AgreesAll, MadeAll
  <2>3. ASSUME entries'[e] # None, entries'[e].of = i
        PROVE  Agrees(e, entries'[e], inputs', events', runner.at, runner.read)
    <3>1. Waits(e, i, Len(events) + 1, events', runner.at, runner.read)
      <4>1. e > 0
        BY EntryAssumption
      <4>2. runner.at = "commit" => Len(events) # 0
        BY DEF Reading, Shape
      <4>. QED BY <1>7, <4>1, <4>2 DEF Waits
    <3>2. Len(events) + 1 \in 1 .. Len(events')
      BY <1>7 DEF Shape
    <3>. QED BY <2>3, <3>1, <3>2 DEF Agrees
  <2>4. CASE entries'[e] = entries[e]
    <3>1. Keeps(e, entries[e], entries'[e], inputs')
      BY <2>4 DEF Keeps
    <3>2. Agrees(e, entries'[e], inputs', events', runner.at, runner.read)
      <4>1. CASE entries[e] # None /\ entries[e].of = i
        BY <2>3, <2>4, <4>1
      <4>2. CASE ~(entries[e] # None /\ entries[e].of = i)
        <5>1. entries[e] # None /\ entries[e].of # None => entries[e].of \in Inputs
          BY <2>1 DEF EntryRows
        <5>2. events \in Seq(Invalidations) /\ (\E x \in Invalidations : events' = Append(events, x))
          BY <1>3, <1>6 DEF Shape
        <5>3. entries'[e] # None /\ entries'[e].of # None =>
                inputs'[entries[e].of] = inputs[entries[e].of]
          BY <1>4, <2>4, <4>2, <5>1
        <5>4. Waiting(entries[e], entries'[e], inputs, inputs', events, events', runner.at, runner.at,
                      runner.read, runner.read)
          BY <1>7, <2>4, <5>2, <5>3 DEF Waiting
        <5>. QED BY <2>2, <5>4, AgreesKept
      <4>. QED BY <4>1, <4>2
    <3>. QED BY <2>1, <2>4, <3>1, <3>2
  <2>5. CASE entries'[e] # entries[e]
    <3>1. ~out /\ entries[e] # None /\ entries[e].of = i
          /\ entries'[e] \in {Linked(entries[e], text, rev, named), Unbound(entries[e])}
      BY <1>3, <2>5 DEF Propagated
    <3>2. entries[e] \in EntryRows
      BY <2>1, <3>1
    <3>3. entries'[e] \in EntryRows /\ entries'[e].sources = entries[e].sources
          /\ entries'[e].of \in {entries[e].of, None}
      BY <1>1, <3>1, <3>2, UnboundIs, LinkedIs
    <3>4. e \notin Derived /\ entries[e].sources = {i}
      BY <2>2, <3>1, NoneIsNoRow DEF Made
    <3>5. Keeps(e, entries[e], entries'[e], inputs')
      BY <3>1, <3>3, <3>4, <1>5 DEF Keeps
    <3>6. Agrees(e, entries'[e], inputs', events', runner.at, runner.read)
      BY <2>3, <3>1, <3>3 DEF Agrees
    <3>. QED BY <3>3, <3>5, <3>6
  <2>. QED BY <2>4, <2>5
<1>10. entries' \in [Entries -> EntryRows \cup {None}]
  <2>1. entries' = [e \in Entries |-> entries'[e]]
    BY <1>3 DEF Propagated, Shape
  <2>. QED BY <1>9, <2>1
<1>11. Shape'
  BY <1>5, <1>7, <1>8, <1>10 DEF Shape
<1>12. Sequenced'
  <2>1. \A n \in 1 .. Len(events') : n \in 1 .. Len(events) \/ n = Len(events) + 1
    BY <1>7 DEF Shape
  <2>2. \A n \in 1 .. Len(events) : events[n].sequence \in Nat /\ events[n].sequence <= epoch
    BY ItemsAre DEF Sequenced
  <2>. QED BY <1>1, <1>3, <1>5, <1>7, <2>1, <2>2 DEF Sequenced
<1>13. MadeAll'
  <2>. SUFFICES ASSUME NEW e \in Entries
       PROVE  Made(e, entries'[e], deps[e], used[e], removedSince'[e], inputs', epoch')
    BY DEF MadeAll
  <2>1. /\ Made(e, entries[e], deps[e], used[e], removedSince[e], inputs, epoch)
        /\ entries[e] \in EntryRows \cup {None} /\ deps[e] \in [Inputs -> Dependencies \cup {None}]
        /\ removedSince[e] \in SUBSET Inputs /\ removedSince'[e] \in SUBSET Inputs
        /\ inputs \in [Inputs -> InputRows] /\ epoch \in Nat /\ epoch <= epoch'
    BY <1>3, <1>8 DEF MadeAll, Shape
  <2>2. used[e] = None => removedSince'[e] = {}
    BY <2>1, <1>8 DEF Made
  <2>3. entries'[e] # None => entries'[e].sources \subseteq Inputs
    BY <1>9 DEF EntryRows
  <2>4. \A j \in Inputs : inputs[j].removedAt <= inputs'[j].removedAt
                          /\ (inputs[j].purged => inputs'[j].purged)
    BY <1>5
  <2>5. entries'[e] # None =>
          \A j \in entries'[e].sources : inputs'[j].purged /\ ~inputs[j].purged => ~entries'[e].human
    BY <1>5, <2>3
  <2>6. /\ inputs' \in [Inputs -> InputRows] /\ epoch' \in Nat
        /\ entries'[e] \in EntryRows \cup {None} /\ Keeps(e, entries[e], entries'[e], inputs')
        /\ \A j \in removedSince'[e] : j \in removedSince[e] \/ epoch < inputs'[j].removedAt
    BY <1>5, <1>8, <1>9
  <2>7. Change(e, entries[e], entries'[e], deps[e], deps[e], used[e], removedSince[e],
               removedSince'[e], inputs, inputs', epoch, epoch')
    <3>1. Keeps(e, entries[e], entries'[e], inputs') /\ epoch <= epoch'
          /\ (used[e] = None => removedSince'[e] = {})
      BY <2>1, <2>2, <2>6
    <3>2. \A j \in Inputs : deps[e][j] = deps[e][j] \/ (deps[e][j] = None /\ inputs'[j].purged)
      OBVIOUS
    <3>3. entries[e] \in EntryRows \cup {None} /\ entries'[e] \in EntryRows \cup {None}
      BY <2>1, <2>6
    <3>4. deps[e] \in [Inputs -> Dependencies \cup {None}]
          /\ removedSince[e] \in SUBSET Inputs /\ removedSince'[e] \in SUBSET Inputs
      BY <2>1
    <3>5. inputs \in [Inputs -> InputRows] /\ inputs' \in [Inputs -> InputRows]
      BY <2>1, <2>6
    <3>6. epoch \in Nat /\ epoch' \in Nat
      BY <2>1, <2>6
    <3>7. \A j \in Inputs : inputs[j].removedAt <= inputs'[j].removedAt /\ (inputs[j].purged => inputs'[j].purged)
      BY <2>4
    <3>8. \A j \in removedSince'[e] : j \in removedSince[e] \/ epoch < inputs'[j].removedAt
      BY <2>6
    <3>. QED BY ONLY <2>5, <3>1, <3>2, <3>3, <3>4, <3>5, <3>6, <3>7, <3>8, Zenon DEF Change
  <2>. QED BY <2>1, <2>7, MadeKept
<1>14. AgreesAll'
  BY <1>9 DEF AgreesAll
<1>15. Reading'
  BY <1>7 DEF Reading
<1>16. Drafted'
  BY <1>1, <1>3, <1>5, <1>11, DraftedKept
<1>17. Cleaning'
  <2>1. \A e \in Entries : entries'[e] # None =>
          entries[e] # None /\ entries'[e].sources = entries[e].sources
    BY <1>9 DEF Keeps
  <2>. QED BY <2>1, <1>5, CleaningKept
<1>. QED BY <1>11, <1>12, <1>13, <1>14, <1>15, <1>16, <1>17 DEF UpkeepInv

-----------------------------------------------------------------------------
(* Writes of the user: of an entry, and the purge of an input. *)

LEMMA EntryWritten ==
  ASSUME UpkeepInv, NEW e \in Entries, NEW row2 \in EntryRows, entries[e] # None,
         entries' = [entries EXCEPT ![e] = row2],
         Keeps(e, entries[e], row2, inputs),
         row2.of # None =>
           /\ row2.of = entries[e].of /\ row2.body = entries[e].body
           /\ row2.life \in {"active", "removed"} => entries[e].life \in {"active", "removed"},
         inputs' = inputs, epoch' = epoch, deps' = deps, events' = events, jobs' = jobs,
         runner' = runner, draft' = draft, used' = used, removedSince' = removedSince,
         cleaned' = cleaned
  PROVE  UpkeepInv'
<1>. Shape /\ Sequenced /\ MadeAll /\ AgreesAll /\ Reading /\ Drafted /\ Cleaning
  BY DEF UpkeepInv
<1>1. /\ entries' \in [Entries -> EntryRows \cup {None}]
      /\ \A x \in Entries : entries'[x] = IF x = e THEN row2 ELSE entries[x]
  BY DEF Shape
<1>2. Shape' /\ Sequenced' /\ Reading'
  BY <1>1 DEF Shape, Sequenced, Reading
<1>3. ASSUME NEW x \in Entries
      PROVE  /\ Keeps(x, entries[x], entries'[x], inputs)
             /\ Agrees(x, entries'[x], inputs, events, runner.at, runner.read)
  <2>1. Agrees(x, entries[x], inputs, events, runner.at, runner.read)
    BY DEF AgreesAll
  <2>2. CASE x = e
    <3>1. entries'[x] = row2
      BY <1>1, <2>2
    <3>2. Waiting(entries[x], row2, inputs, inputs, events, events, runner.at, runner.at,
                  runner.read, runner.read)
      BY <2>2 DEF Waiting, Shape
    <3>. QED BY <2>1, <2>2, <3>1, <3>2, AgreesKept
  <2>3. CASE x # e
    BY <1>1, <2>1, <2>3 DEF Keeps
  <2>. QED BY <2>2, <2>3
<1>4. MadeAll'
  <2>. SUFFICES ASSUME NEW x \in Entries
       PROVE  Made(x, entries'[x], deps[x], used[x], removedSince[x], inputs, epoch)
    BY DEF MadeAll
  <2>1. Made(x, entries[x], deps[x], used[x], removedSince[x], inputs, epoch)
    BY DEF MadeAll
  <2>2. /\ entries[x] \in EntryRows \cup {None} /\ entries'[x] \in EntryRows \cup {None}
        /\ deps[x] \in [Inputs -> Dependencies \cup {None}] /\ removedSince[x] \in SUBSET Inputs
        /\ inputs \in [Inputs -> InputRows] /\ epoch \in Nat /\ epoch <= epoch
    BY <1>1 DEF Shape
  <2>3. \A i \in Inputs : inputs[i].removedAt <= inputs[i].removedAt
    BY <2>2 DEF InputRows
  <2>4. used[x] = None => removedSince[x] = {}
    BY <2>1 DEF Made
  <2>5. Change(x, entries[x], entries'[x], deps[x], deps[x], used[x], removedSince[x],
               removedSince[x], inputs, inputs, epoch, epoch)
    BY <1>3, <2>2, <2>3, <2>4 DEF Change
  <2>. QED BY <2>1, <2>5, MadeKept
<1>5. AgreesAll'
  BY <1>3 DEF AgreesAll
<1>6. Drafted'
  BY DEF Drafted
<1>7. Cleaning'
  <2>1. \A x \in Entries : entries'[x] # None =>
          entries[x] # None /\ entries'[x].sources = entries[x].sources
    BY <1>3 DEF Keeps
  <2>. QED BY <2>1, CleaningKept
<1>. QED BY <1>2, <1>4, <1>5, <1>6, <1>7 DEF UpkeepInv

LEMMA EditInputKeeps ==
  ASSUME UpkeepInv, NEW i \in Inputs, NEW x \in Texts, NEW out \in BOOLEAN, NEW named \in BOOLEAN,
         EditInput(i, x, out, named)
  PROVE  UpkeepInv'
BY InputEdited DEF EditInput, Writings

\* A source is there: none of an entry's sources is purged.
LEMMA PresentSources ==
  ASSUME UpkeepInv, NEW e \in Entries, entries[e] # None
  PROVE  /\ entries[e] \in EntryRows
         /\ SourcePresent(e) => \A i \in entries[e].sources : ~inputs[i].purged
         /\ e \in Derived => entries[e].of = None
         /\ entries[e].of # None => entries[e].of \in Inputs /\ entries[e].sources = {entries[e].of}
<1>1. entries[e] \in EntryRows /\ Made(e, entries[e], deps[e], used[e], removedSince[e], inputs, epoch)
  BY DEF UpkeepInv, Shape, MadeAll
<1>2. entries[e].of \in Inputs \cup {None}
  BY <1>1 DEF EntryRows
<1>. QED BY <1>1, <1>2 DEF SourcePresent, Made

LEMMA EditEntryKeeps ==
  ASSUME UpkeepInv, NEW e \in Entries, EditEntry(e)
  PROVE  UpkeepInv'
<1>1. /\ entries[e] # None /\ entries[e].life = "active" /\ SourcePresent(e)
      /\ deps' = deps /\ jobs' = jobs /\ runner' = runner /\ draft' = draft /\ used' = used
      /\ cleaned' = cleaned
  BY DEF EditEntry
<1>2. CASE Bound(e) /\ AfterInputEdit(entries[e].of, Own, FALSE, TRUE)
  <2>1. entries[e].of \in Inputs /\ ~inputs[entries[e].of].purged
    BY <1>1, <1>2, PresentSources DEF Bound, Present
  <2>2. Own \in Writings /\ FALSE \in BOOLEAN
    BY DEF Writings
  <2>. QED BY <1>1, <1>2, <2>1, <2>2, InputEdited
<1>3. CASE /\ entries' = [entries EXCEPT ![e] = [Unbound(@) EXCEPT !.body = Own, !.human = TRUE]]
           /\ inputs' = inputs /\ epoch' = epoch /\ events' = events /\ removedSince' = removedSince
  <2>. DEFINE yes == TRUE
  <2>. HIDE DEF yes
  <2>1. entries[e] \in EntryRows /\ \A i \in entries[e].sources : ~inputs[i].purged
    BY <1>1, PresentSources
  <2>2. PICK row2 : row2 = [Unbound(entries[e]) EXCEPT !.body = Own, !.human = yes]
    OBVIOUS
  <2>6. PICK free \in EntryRows :
          /\ free = Unbound(entries[e]) /\ free.of = None /\ free.sources = entries[e].sources
          /\ free.fresh = entries[e].fresh
    BY <2>1, UnboundIs
  <2>7. yes \in BOOLEAN /\ row2 = [free EXCEPT !.body = Own, !.human = yes]
    BY <2>2, <2>6 DEF yes
  <2>3. /\ row2 \in EntryRows /\ row2.of = None /\ row2.sources = entries[e].sources
        /\ row2.human = yes /\ row2.fresh = entries[e].fresh
    BY <2>6, <2>7 DEF EntryRows, Writings
  <2>4. Keeps(e, entries[e], row2, inputs)
    BY <1>1, <2>1, <2>3 DEF Keeps, yes
  <2>5. entries' = [entries EXCEPT ![e] = row2]
    BY <1>3, <2>2 DEF yes
  <2>. QED BY <1>1, <1>3, <2>3, <2>4, <2>5, EntryWritten
<1>. QED BY <1>2, <1>3 DEF EditEntry

LEMMA RemoveEntryKeeps ==
  ASSUME UpkeepInv, NEW e \in Entries, RemoveEntry(e)
  PROVE  UpkeepInv'
<1>1. /\ entries[e] # None /\ entries[e].life = "active"
      /\ entries' = [entries EXCEPT ![e] = [Classified(e) EXCEPT !.life = "removed"]]
      /\ inputs' = inputs /\ epoch' = epoch /\ deps' = deps /\ events' = events /\ jobs' = jobs
      /\ runner' = runner /\ draft' = draft /\ used' = used /\ removedSince' = removedSince
      /\ cleaned' = cleaned
  BY DEF RemoveEntry
<1>2. entries[e] \in EntryRows /\ (Bound(e) => entries[e].of \in Inputs)
  BY <1>1, PresentSources DEF Bound
<1>3. /\ Classified(e) \in EntryRows /\ Classified(e).sources = entries[e].sources
      /\ Classified(e).of \in {None, entries[e].of} /\ Classified(e).body = entries[e].body
      /\ Classified(e).fresh = entries[e].fresh /\ Classified(e).human = entries[e].human
  <2>1. CASE Bound(e)
    <3>1. inputs[entries[e].of].rev \in Nat
      BY <1>2, <2>1 DEF UpkeepInv, Shape, InputRows
    <3>2. Classified(e) = [entries[e] EXCEPT !.bindRev = inputs[entries[e].of].rev]
      BY <2>1 DEF Classified
    <3>. QED BY <1>2, <3>1, <3>2 DEF EntryRows
  <2>2. CASE ~Bound(e)
    BY <1>2, <2>2, UnboundIs DEF Classified
  <2>. QED BY <2>1, <2>2
<1>4. PICK row2 : row2 = [Classified(e) EXCEPT !.life = "removed"]
  OBVIOUS
<1>5. /\ row2 \in EntryRows /\ row2.of = Classified(e).of /\ row2.body = Classified(e).body
      /\ row2.life = "removed" /\ row2.sources = Classified(e).sources
      /\ row2.fresh = Classified(e).fresh /\ row2.human = Classified(e).human
  BY <1>3, <1>4 DEF EntryRows
<1>6. Keeps(e, entries[e], row2, inputs)
  BY <1>1, <1>3, <1>5 DEF Keeps
<1>. QED BY <1>1, <1>3, <1>4, <1>5, <1>6, EntryWritten

LEMMA RestoreEntryKeeps ==
  ASSUME UpkeepInv, NEW e \in Entries, RestoreEntry(e)
  PROVE  UpkeepInv'
<1>1. /\ entries[e] # None /\ entries[e].life = "removed" /\ SourcePresent(e)
      /\ entries' = [entries EXCEPT ![e] = [@ EXCEPT !.life = "active", !.human = TRUE]]
      /\ inputs' = inputs /\ epoch' = epoch /\ deps' = deps /\ events' = events /\ jobs' = jobs
      /\ runner' = runner /\ draft' = draft /\ used' = used /\ removedSince' = removedSince
      /\ cleaned' = cleaned
  BY DEF RestoreEntry
<1>. DEFINE yes == TRUE
<1>. HIDE DEF yes
<1>2. entries[e] \in EntryRows /\ \A i \in entries[e].sources : ~inputs[i].purged
  BY <1>1, PresentSources
<1>3. PICK row2 : row2 = [entries[e] EXCEPT !.life = "active", !.human = yes]
  OBVIOUS
<1>4. /\ row2 \in EntryRows /\ row2.of = entries[e].of /\ row2.body = entries[e].body
      /\ row2.sources = entries[e].sources /\ row2.human = yes /\ row2.fresh = entries[e].fresh
  BY <1>2, <1>3 DEF EntryRows, yes
<1>5. Keeps(e, entries[e], row2, inputs)
  BY <1>1, <1>2, <1>4 DEF Keeps, yes
<1>6. entries' = [entries EXCEPT ![e] = row2]
  BY <1>1, <1>3 DEF yes
<1>. QED BY <1>1, <1>4, <1>5, <1>6, EntryWritten

LEMMA PurgeKeeps ==
  ASSUME UpkeepInv, NEW i \in Inputs, Purge(i)
  PROVE  UpkeepInv'
<1>. DEFINE event == [Invalidation(i, "source_purged", FALSE) EXCEPT !.sequence = epoch + 2]
            job == [source |-> i, stage |-> "thoughts"]
<1>. Shape /\ Sequenced /\ MadeAll /\ AgreesAll /\ Reading /\ Drafted /\ Cleaning
  BY DEF UpkeepInv
<1>1. /\ Purgeable(i) /\ inputs' = [inputs EXCEPT ![i].purged = TRUE] /\ jobs' = Append(jobs, job)
      /\ epoch' = epoch + 2 /\ events' = Append(events, event)
      /\ entries' = entries /\ deps' = deps /\ runner' = runner /\ draft' = draft /\ used' = used
      /\ removedSince' = removedSince /\ cleaned' = cleaned
  BY DEF Purge, history
<1>2. job \in CleanJobs /\ epoch \in Nat
  BY DEF CleanJobs, Shape
<1>3. event \in Invalidations /\ event.sequence = epoch + 2
  <2>. DEFINE no == FALSE
  <2>1. event = [Invalidation(i, "source_purged", no) EXCEPT !.sequence = epoch + 2]
    OBVIOUS
  <2>2. no \in BOOLEAN
    OBVIOUS
  <2>. HIDE DEF no, event
  <2>. QED BY <1>2, <2>1, <2>2 DEF Invalidation, Invalidations
<1>4. /\ inputs' \in [Inputs -> InputRows]
      /\ \A j \in Inputs : j # i => inputs'[j] = inputs[j]
      /\ inputs'[i].purged
      /\ inputs'[i].removedAt = inputs[i].removedAt /\ inputs'[i].rev = inputs[i].rev
      /\ inputs'[i].text = inputs[i].text
  <2>. DEFINE yes == TRUE
  <2>. HIDE DEF yes
  <2>1. PICK row : row = [inputs[i] EXCEPT !.purged = yes]
    OBVIOUS
  <2>2. inputs[i] \in InputRows
    BY DEF Shape
  <2>3. /\ row \in InputRows /\ row.purged = yes /\ row.removedAt = inputs[i].removedAt
        /\ row.rev = inputs[i].rev /\ row.text = inputs[i].text
    BY <2>1, <2>2 DEF InputRows, yes
  <2>4. inputs' = [inputs EXCEPT ![i] = row]
    BY <1>1, <2>1 DEF yes
  <2>5. inputs' \in [Inputs -> InputRows] /\ inputs'[i] = row
        /\ \A j \in Inputs : j # i => inputs'[j] = inputs[j]
    BY <2>3, <2>4 DEF Shape
  <2>. QED BY <2>3, <2>5 DEF yes
<1>. HIDE DEF event, job
<1>5. /\ events' \in Seq(Invalidations) /\ Len(events') = Len(events) + 1
      /\ events'[Len(events) + 1] = event /\ events' # <<>>
      /\ \A n \in 1 .. Len(events) : events'[n] = events[n]
      /\ events # <<>> => Head(events') = Head(events)
  BY <1>1, <1>3 DEF Shape
<1>6. jobs' \in Seq(CleanJobs) /\ Len(jobs') = Len(jobs) + 1 /\ jobs'[Len(jobs) + 1] = job
      /\ \A n \in 1 .. Len(jobs) : jobs'[n] = jobs[n]
  BY <1>1, <1>2 DEF Shape
<1>7. Shape'
  BY <1>1, <1>2, <1>4, <1>5, <1>6 DEF Shape
<1>8. Sequenced'
  <2>1. \A n \in 1 .. Len(events') : n \in 1 .. Len(events) \/ n = Len(events) + 1
    BY <1>5 DEF Shape
  <2>2. \A n \in 1 .. Len(events) : events[n].sequence \in Nat /\ events[n].sequence <= epoch
    BY ItemsAre DEF Sequenced
  <2>3. \A n \in 1 .. Len(events') : events'[n].sequence <= epoch'
    BY <1>1, <1>2, <1>3, <1>5, <2>1, <2>2
  <2>4. \A j \in Inputs : inputs[j].removedAt \in Nat /\ inputs[j].removedAt <= epoch
                          /\ inputs'[j].removedAt = inputs[j].removedAt
    BY <1>4 DEF Shape, InputRows, Sequenced
  <2>5. \A j \in Inputs : inputs'[j].removedAt <= epoch'
    BY <1>1, <1>2, <2>4
  <2>. QED BY <2>3, <2>5 DEF Sequenced
<1>9. MadeAll'
  <2>. SUFFICES ASSUME NEW e \in Entries
       PROVE  Made(e, entries[e], deps[e], used[e], removedSince[e], inputs', epoch')
    BY <1>1 DEF MadeAll
  <2>1. Made(e, entries[e], deps[e], used[e], removedSince[e], inputs, epoch)
    BY DEF MadeAll
  <2>2. /\ entries[e] \in EntryRows \cup {None}
        /\ deps[e] \in [Inputs -> Dependencies \cup {None}] /\ removedSince[e] \in SUBSET Inputs
        /\ inputs \in [Inputs -> InputRows] /\ epoch \in Nat /\ epoch' \in Nat /\ epoch <= epoch'
    BY <1>1, <1>2 DEF Shape
  <2>3. \A j \in Inputs : inputs[j].removedAt <= inputs'[j].removedAt
                          /\ (inputs[j].purged => inputs'[j].purged)
    <3>1. \A j \in Inputs : inputs[j].removedAt \in Nat
      BY <2>2 DEF InputRows
    <3>. QED BY <1>4, <3>1
  <2>4. entries[e] # None =>
          \A j \in entries[e].sources : inputs'[j].purged /\ ~inputs[j].purged => ~entries[e].human
    <3>1. entries[e] # None => entries[e].sources \subseteq Inputs
      BY <2>2 DEF EntryRows
    <3>2. entries[e] # None /\ i \in entries[e].sources => ~entries[e].human
      BY <1>1 DEF Purgeable
    <3>. QED BY <1>4, <3>1, <3>2
  <2>5. used[e] = None => removedSince[e] = {}
    BY <2>1 DEF Made
  <2>6. Keeps(e, entries[e], entries[e], inputs')
    BY DEF Keeps
  <2>7. Change(e, entries[e], entries[e], deps[e], deps[e], used[e], removedSince[e],
               removedSince[e], inputs, inputs', epoch, epoch')
    BY <1>4, <2>2, <2>3, <2>4, <2>5, <2>6 DEF Change
  <2>. QED BY <2>1, <2>7, MadeKept
<1>10. AgreesAll'
  <2>. SUFFICES ASSUME NEW e \in Entries
       PROVE  Agrees(e, entries[e], inputs', events', runner.at, runner.read)
    BY <1>1 DEF AgreesAll
  <2>1. Agrees(e, entries[e], inputs, events, runner.at, runner.read)
    BY DEF AgreesAll
  <2>2. entries[e] # None /\ entries[e].of # None => entries[e].of \in Inputs
    BY DEF Shape, EntryRows
  <2>3. Waiting(entries[e], entries[e], inputs, inputs', events, events', runner.at, runner.at,
                runner.read, runner.read)
    BY <1>1, <1>3, <1>4, <2>2 DEF Waiting, Shape
  <2>. QED BY <2>1, <2>3, AgreesKept
<1>11. Reading'
  BY <1>1, <1>5 DEF Reading
<1>12. Drafted'
  <2>1. \A j \in Inputs : inputs[j].rev <= inputs'[j].rev /\ inputs'[j].text = inputs[j].text
    <3>1. \A j \in Inputs : inputs[j].rev \in Nat
      BY DEF Shape, InputRows
    <3>. QED BY <1>4, <3>1
  <2>2. epoch <= epoch'
    BY <1>1, <1>2
  <2>. QED BY <1>1, <1>7, <2>1, <2>2, DraftedKept
<1>13. Cleaning'
  <2>1. \A j \in Inputs : inputs[j].purged => inputs'[j].purged
    BY <1>4
  <2>2. \A n \in 1 .. Len(jobs) : jobs[n].source \in Inputs
    BY ItemsAre
  <2>4. \A n \in 1 .. Len(jobs') : n \in 1 .. Len(jobs) \/ n = Len(jobs) + 1
    BY <1>6 DEF Shape
  <2>5. job.source = i /\ job.stage = "thoughts"
    BY DEF job
  <2>6. ASSUME NEW n \in 1 .. Len(jobs')
        PROVE  /\ inputs'[jobs'[n].source].purged
               /\ jobs'[n].stage # "thoughts" => Freed(jobs'[n].source, entries')
               /\ jobs'[n].stage = "over" => Cleared(jobs'[n].source, deps')
    <3>1. CASE n \in 1 .. Len(jobs)
      <4>1. jobs'[n] = jobs[n]
        BY <1>6, <3>1
      <4>. QED BY <1>1, <4>1, <3>1, <2>1, <2>2 DEF Cleaning
    <3>2. CASE n = Len(jobs) + 1
      BY <1>4, <1>6, <2>5, <3>2
    <3>. QED BY <2>4, <3>1, <3>2
  <2>7. \A j \in cleaned : inputs'[j].purged /\ Freed(j, entries') /\ Cleared(j, deps')
    BY <1>1, <2>1 DEF Cleaning
  <2>. QED BY <1>1, <2>6, <2>7 DEF Cleaning
<1>. QED BY <1>7, <1>8, <1>9, <1>10, <1>11, <1>12, <1>13 DEF UpkeepInv

-----------------------------------------------------------------------------
(* An entry is made. *)

LEMMA ReadEvidenceKeeps ==
  ASSUME UpkeepInv, NEW e \in Entries, NEW chosen \in SUBSET Inputs, ReadEvidence(e, chosen)
  PROVE  UpkeepInv'
<1>. DEFINE ev == [i \in chosen |-> [text |-> inputs[i].text, rev |-> inputs[i].rev]]
<1>1. /\ used[e] = None /\ chosen # {} /\ (e \in Mirrors => Cardinality(chosen) = 1)
      /\ draft' = [entry |-> e, epoch |-> epoch, evidence |-> ev]
      /\ inputs' = inputs /\ epoch' = epoch /\ entries' = entries /\ deps' = deps /\ events' = events
      /\ jobs' = jobs /\ runner' = runner /\ used' = used /\ removedSince' = removedSince
      /\ cleaned' = cleaned
  BY DEF ReadEvidence, rows, history
<1>2. runner' \in Runners /\ epoch \in Nat /\ \A i \in Inputs : inputs[i].text \in Writings /\ inputs[i].rev \in Nat
  BY <1>1 DEF UpkeepInv, Shape, InputRows
<1>3. ev \in [chosen -> [text : Writings, rev : Nat]]
      /\ \A i \in chosen : ev[i].text = inputs[i].text /\ ev[i].rev = inputs[i].rev
  BY <1>2
<1>4. e \in Mirrors => \E i \in Inputs : chosen = {i}
  BY <1>1, FS_Subset, FS_Singleton, EntryAssumption
<1>. HIDE DEF ev
<1>5. draft'.entry = e /\ draft'.epoch = epoch /\ draft'.evidence = ev /\ DOMAIN ev = chosen
  BY <1>1, <1>3
<1>6. Drafted'
  BY <1>1, <1>2, <1>3, <1>4, <1>5 DEF Drafted
<1>. QED BY <1>1, <1>2, <1>6, QuietStep

LEMMA CreateEntryKeeps ==
  ASSUME UpkeepInv, CreateEntry
  PROVE  UpkeepInv'
<1>. Shape /\ Sequenced /\ MadeAll /\ AgreesAll /\ Reading /\ Drafted /\ Cleaning
  BY DEF UpkeepInv
<1>1. PICK e, ev, now : e = draft.entry /\ ev = draft.evidence /\ now = draft.epoch
  OBVIOUS
<1>2. /\ e \in Entries /\ used[e] = None /\ now \in Nat /\ now <= epoch
      /\ ev \in UNION {[s -> [text : Writings, rev : Nat]] : s \in SUBSET Inputs} /\ DOMAIN ev # {}
      /\ e \in Mirrors => \E i \in Inputs : DOMAIN ev = {i}
      /\ \A i \in DOMAIN ev : ev[i].rev = inputs[i].rev => ev[i].text = inputs[i].text
  BY <1>1 DEF Drafted, CreateEntry
<1>3. /\ DOMAIN ev \subseteq Inputs
      /\ \A i \in DOMAIN ev : ev[i].text \in Writings /\ ev[i].rev \in Nat
  BY <1>2
<1>4. \A i \in DOMAIN ev : ~inputs[i].out /\ ~inputs[i].purged /\ ev[i].text = inputs[i].text
  BY <1>1, <1>2 DEF CreateEntry, EvidenceHolds, Present
<1>5. PICK i \in DOMAIN ev : i = CHOOSE x \in DOMAIN ev : TRUE
  BY <1>2
<1>. DEFINE no == FALSE
            yes == TRUE
<1>. HIDE DEF no, yes
<1>6. PICK row : row =
        [life |-> "active", body |-> IF e \in Mirrors THEN ev[i].text ELSE "derived",
         of |-> IF e \in Mirrors THEN i ELSE None, bindRev |-> IF e \in Mirrors THEN ev[i].rev ELSE 0,
         born |-> ev[i].rev, fresh |-> "current", whole |-> "complete", human |-> no,
         sources |-> DOMAIN ev]
  OBVIOUS
<1>7. PICK dep : dep = [j \in Inputs |->
        IF j \in DOMAIN ev
        THEN [text |-> ev[j].text, based |-> ev[j].rev, eligible |-> now, valid |-> yes]
        ELSE None]
  OBVIOUS
<1>8. PICK u : u = [j \in DOMAIN ev |-> ev[j].text]
  OBVIOUS
<1>9. /\ entries' = [entries EXCEPT ![e] = row] /\ deps' = [deps EXCEPT ![e] = dep]
      /\ used' = [used EXCEPT ![e] = u] /\ draft' = None
      /\ inputs' = inputs /\ epoch' = epoch /\ events' = events /\ jobs' = jobs /\ runner' = runner
      /\ removedSince' = removedSince /\ cleaned' = cleaned
  <2>1. entries' = [entries EXCEPT ![e] = row]
    BY <1>1, <1>5, <1>6 DEF CreateEntry, no
  <2>2. deps' = [deps EXCEPT ![e] = dep]
    BY <1>1, <1>7 DEF CreateEntry, yes
  <2>3. used' = [used EXCEPT ![e] = u] /\ draft' = None
    BY <1>1, <1>8 DEF CreateEntry
  <2>4. /\ inputs' = inputs /\ epoch' = epoch /\ events' = events /\ jobs' = jobs /\ runner' = runner
        /\ removedSince' = removedSince /\ cleaned' = cleaned
    BY DEF CreateEntry
  <2>. QED BY <2>1, <2>2, <2>3, <2>4
<1>10. /\ row \in EntryRows /\ row.sources = DOMAIN ev /\ row.human = no
       /\ e \in Mirrors => row.of = i /\ row.body = ev[i].text
       /\ e \notin Mirrors => row.of = None
  <2>1. no \in BOOLEAN
    BY DEF no
  <2>. QED BY <1>3, <1>5, <1>6, <2>1 DEF EntryRows, Writings
<1>11. /\ dep \in [Inputs -> Dependencies \cup {None}]
       /\ \A j \in Inputs : j \notin DOMAIN ev => dep[j] = None
       /\ \A j \in DOMAIN ev : dep[j] # None /\ dep[j].text = ev[j].text /\ dep[j].eligible = now
  <2>1. yes \in BOOLEAN
    BY DEF yes
  <2>2. \A j \in DOMAIN ev :
          dep[j] = [text |-> ev[j].text, based |-> ev[j].rev, eligible |-> now, valid |-> yes]
    BY <1>3, <1>7
  <2>3. ASSUME NEW j \in DOMAIN ev
        PROVE  dep[j] \in Dependencies /\ dep[j].text = ev[j].text /\ dep[j].eligible = now
    <3>1. PICK x, n : x = ev[j].text /\ n = ev[j].rev
      OBVIOUS
    <3>2. x \in Writings /\ n \in Nat /\ now \in Nat
      BY <1>2, <1>3, <3>1
    <3>3. dep[j] = [text |-> x, based |-> n, eligible |-> now, valid |-> yes]
      BY <2>2, <3>1
    <3>. QED BY ONLY <2>1, <3>1, <3>2, <3>3 DEF Dependencies
  <2>4. \A j \in Inputs : j \notin DOMAIN ev => dep[j] = None
    BY <1>7
  <2>5. dep = [j \in Inputs |-> dep[j]]
    BY <1>7
  <2>. QED BY <2>3, <2>4, <2>5, NoneIsNoRow
<1>12. u \in Known /\ u # None /\ DOMAIN u = DOMAIN ev /\ \A j \in DOMAIN ev : u[j] = ev[j].text
  BY <1>3, <1>8, NoneIsNoRow DEF Known
<1>13. Shape'
  BY <1>2, <1>9, <1>10, <1>11, <1>12 DEF Shape
<1>14. /\ entries'[e] = row /\ deps'[e] = dep /\ used'[e] = u
       /\ \A x \in Entries : x # e => /\ entries'[x] = entries[x] /\ deps'[x] = deps[x]
                                      /\ used'[x] = used[x]
  BY <1>2, <1>9 DEF Shape
<1>15. removedSince[e] = {} /\ entries[e] = None
  BY <1>2 DEF MadeAll, Made
<1>16. MadeAll'
  <2>. SUFFICES ASSUME NEW x \in Entries
       PROVE  Made(x, entries'[x], deps'[x], used'[x], removedSince[x], inputs, epoch)
    BY <1>9 DEF MadeAll
  <2>1. CASE x # e
    BY <1>14, <2>1 DEF MadeAll
  <2>2. CASE x = e
    <3>1. e \in Mirrors => row.sources = {i} /\ dep[i] # None
      BY <1>2, <1>5, <1>10, <1>11
    <3>2. e \in Derived => e \notin Mirrors
      BY EntryAssumption
    <3>3. /\ row # None /\ \A j \in row.sources : ~inputs[j].purged /\ dep[j] # None
          /\ \E j \in Inputs : dep[j] # None
      BY <1>3, <1>4, <1>5, <1>10, <1>11, NoneIsNoRow
    <3>4. /\ row.sources = DOMAIN u /\ (e \in Derived => row.of = None)
          /\ (row.of # None => row.sources = {row.of} /\ dep[row.of] # None)
      BY <1>10, <1>12, <3>1, <3>2
    <3>5. \A j \in Inputs : dep[j] # None =>
            j \in DOMAIN u /\ dep[j].eligible <= epoch /\ dep[j].text = u[j]
      BY <1>2, <1>11, <1>12
    <3>6. Made(e, row, dep, u, {}, inputs, epoch)
      BY <1>12, <3>3, <3>4, <3>5 DEF Made
    <3>. QED BY <1>14, <1>15, <2>2, <3>6
  <2>. QED BY <2>1, <2>2
<1>17. AgreesAll'
  <2>. SUFFICES ASSUME NEW x \in Entries
       PROVE  Agrees(x, entries'[x], inputs, events, runner.at, runner.read)
    BY <1>9 DEF AgreesAll
  <2>1. CASE x # e
    BY <1>14, <2>1 DEF AgreesAll
  <2>2. CASE x = e
    BY <1>4, <1>5, <1>10, <1>14, <2>2 DEF Agrees
  <2>. QED BY <2>1, <2>2
<1>18. Sequenced' /\ Reading' /\ Drafted'
  BY <1>9 DEF Sequenced, Reading, Drafted
<1>19. Cleaning'
  <2>1. ASSUME NEW x \in Entries, entries'[x] # None, NEW j \in entries'[x].sources, inputs[j].purged
        PROVE  entries[x] # None /\ j \in entries[x].sources
    BY <1>4, <1>10, <1>14, <2>1
  <2>2. ASSUME NEW x \in Entries, NEW j \in Inputs, inputs[j].purged, deps[x][j] = None
        PROVE  deps'[x][j] = None
    BY <1>4, <1>11, <1>14, <2>2
  <2>. QED BY <1>9, <2>1, <2>2, CleaningKept
<1>. QED BY <1>13, <1>16, <1>17, <1>18, <1>19 DEF UpkeepInv

LEMMA DropDraftKeeps == UpkeepInv /\ DropDraft => UpkeepInv'
<1>. SUFFICES ASSUME UpkeepInv, DropDraft PROVE UpkeepInv'
  OBVIOUS
<1>1. runner' \in Runners
  BY DEF DropDraft, UpkeepInv, Shape
<1>2. Drafted'
  BY DEF DropDraft, Drafted
<1>. QED BY <1>1, <1>2, QuietStep DEF DropDraft, rows, history

-----------------------------------------------------------------------------
(* The runner comes and goes. *)

LEMMA RunnersAre ==
  /\ Idle \in Runners /\ Idle.at = "off"
  /\ [Idle EXCEPT !.at = "purge"] \in Runners /\ [Idle EXCEPT !.at = "purge"].at = "purge"
  /\ \A r \in Runners : /\ [r EXCEPT !.requested = TRUE] \in Runners
                        /\ [r EXCEPT !.requested = TRUE].at = r.at
                        /\ [r EXCEPT !.requested = TRUE].read = r.read
                        /\ [r EXCEPT !.failed = FALSE] \in Runners
                        /\ [r EXCEPT !.failed = FALSE].at = r.at
                        /\ [r EXCEPT !.failed = FALSE].read = r.read
                        /\ GoesOn(r) \in Runners /\ GoesOn(r).at = "purge"
  /\ [Idle EXCEPT !.failed = TRUE] \in Runners /\ [Idle EXCEPT !.failed = TRUE].at = "off"
BY DEF Runners, Idle, GoesOn

LEMMA RunnerStepsKeep ==
  ASSUME UpkeepInv, Wake \/ RunnerFails \/ Retry \/ Die
  PROVE  UpkeepInv'
<1>1. runner \in Runners /\ Drafted
  BY DEF UpkeepInv, Shape
<1>2. /\ inputs' = inputs /\ epoch' = epoch /\ entries' = entries /\ deps' = deps /\ events' = events
      /\ jobs' = jobs /\ used' = used /\ removedSince' = removedSince /\ cleaned' = cleaned
  BY DEF Wake, RunnerFails, Retry, Die, rows, history
<1>3. draft' = draft \/ draft' = None
  BY DEF Wake, RunnerFails, Retry, Die
<1>4. Drafted'
  BY <1>1, <1>2, <1>3 DEF Drafted
<1>5. runner' \in Runners /\ (runner'.at = "commit" => runner.at = "commit" /\ runner'.read = runner.read)
  <2>1. CASE Wake
    BY <1>1, <2>1, RunnersAre DEF Wake
  <2>2. CASE RunnerFails
    BY <2>2, RunnersAre DEF RunnerFails
  <2>3. CASE Retry
    BY <1>1, <2>3, RunnersAre DEF Retry
  <2>4. CASE Die
    BY <2>4, RunnersAre DEF Die
  <2>. QED BY <2>1, <2>2, <2>3, <2>4
<1>. QED BY <1>2, <1>4, <1>5, QuietStep

-----------------------------------------------------------------------------
(* The first state. *)

LEMMA InitIsSound == Init => UpkeepInv
<1>. SUFFICES ASSUME Init PROVE UpkeepInv
  OBVIOUS
<1>1. PICK text \in Texts : text = CHOOSE x \in Texts : TRUE
  BY EntryAssumption
<1>. DEFINE no == FALSE
<1>. HIDE DEF no
<1>2. PICK row : row = [text |-> text, rev |-> 0, out |-> no, removedAt |-> 0, purged |-> no]
  OBVIOUS
<1>3. row \in InputRows /\ row.removedAt = 0
  <2>1. no \in BOOLEAN /\ text \in Writings
    BY DEF no, Writings
  <2>. QED BY ONLY <1>2, <2>1 DEF InputRows
<1>4. inputs = [i \in Inputs |-> row]
  BY <1>1, <1>2 DEF Init, no
<1>5. /\ epoch = 0 /\ events = <<>> /\ jobs = <<>> /\ entries = [e \in Entries |-> None]
      /\ deps = [e \in Entries |-> [i \in Inputs |-> None]] /\ runner = Idle /\ draft = None
      /\ used = [e \in Entries |-> None] /\ removedSince = [e \in Entries |-> {}] /\ cleaned = {}
  BY DEF Init
<1>6. Shape
  <2>1. runner \in Runners
    BY <1>5, RunnersAre
  <2>. QED BY <1>3, <1>4, <1>5, <2>1 DEF Shape
<1>7. Sequenced
  BY <1>3, <1>4, <1>5 DEF Sequenced
<1>8. MadeAll
  BY <1>5 DEF MadeAll, Made
<1>9. AgreesAll
  BY <1>5 DEF AgreesAll, Agrees
<1>10. Reading /\ Drafted /\ Cleaning
  BY <1>5, RunnersAre DEF Reading, Drafted, Cleaning
<1>. QED BY <1>6, <1>7, <1>8, <1>9, <1>10 DEF UpkeepInv

-----------------------------------------------------------------------------
(* A batch of the cleanup. *)

LEMMA CleanJobsAre ==
  ASSUME Shape, jobs # <<>>, NEW full \in BOOLEAN
  PROVE  LET job == Head(jobs) left == CleanJob(job, full) IN
         /\ job \in CleanJobs /\ job = jobs[1] /\ 1 \in 1 .. Len(jobs) /\ left \in Seq(CleanJobs)
         /\ \A n \in 1 .. Len(left) :
              \/ \E k \in 1 .. Len(jobs) : left[n] = jobs[k]
              \/ /\ ~full /\ left[n].source = job.source
                 /\ \/ job.stage = "thoughts" /\ left[n].stage = "others"
                    \/ job.stage = "others" /\ left[n].stage = "over"
<1>. DEFINE job == Head(jobs)
            left == CleanJob(job, full)
            next(stage) == <<[job EXCEPT !.stage = stage]>> \o Tail(jobs)
<1>1. jobs \in Seq(CleanJobs) /\ job \in CleanJobs /\ job = jobs[1] /\ 1 \in 1 .. Len(jobs)
      /\ Tail(jobs) \in Seq(CleanJobs) /\ Len(Tail(jobs)) = Len(jobs) - 1 /\ Len(jobs) \in Nat
      /\ \A n \in 1 .. Len(Tail(jobs)) : Tail(jobs)[n] = jobs[n + 1]
  BY DEF Shape
<1>2. ASSUME NEW stage \in {"others", "over"}
      PROVE  /\ next(stage) \in Seq(CleanJobs) /\ Len(next(stage)) = Len(jobs)
             /\ next(stage)[1].source = job.source /\ next(stage)[1].stage = stage
             /\ \A n \in 1 .. Len(jobs) : n # 1 => next(stage)[n] = jobs[n]
  <2>1. PICK x : x = [job EXCEPT !.stage = stage]
    OBVIOUS
  <2>2. x \in CleanJobs /\ x.source = job.source /\ x.stage = stage
    BY <1>1, <2>1 DEF CleanJobs
  <2>3. next(stage) = <<x>> \o Tail(jobs)
    BY <2>1
  <2>. HIDE DEF next, job
  <2>4. <<x>> \in Seq(CleanJobs) /\ Len(<<x>>) = 1
    BY <2>2
  <2>5. next(stage) \in Seq(CleanJobs) /\ Len(next(stage)) = Len(jobs) /\ next(stage)[1] = x
    BY <1>1, <2>3, <2>4
  <2>6. \A n \in 1 .. Len(jobs) : n # 1 => next(stage)[n] = Tail(jobs)[n - 1]
    BY <1>1, <2>3, <2>4
  <2>7. \A n \in 1 .. Len(jobs) : n # 1 => n - 1 \in 1 .. Len(Tail(jobs)) /\ (n - 1) + 1 = n
    BY <1>1
  <2>8. \A n \in 1 .. Len(jobs) : n # 1 => next(stage)[n] = jobs[n]
    BY <1>1, <2>6, <2>7
  <2>. QED BY <2>2, <2>5, <2>8
<1>3. job.stage \in {"thoughts", "others", "over"}
  BY <1>1 DEF CleanJobs
<1>4. CASE full
  BY <1>1, <1>4 DEF CleanJob
<1>5. CASE ~full /\ job.stage = "thoughts"
  <2>1. PICK x : x = next("others") /\ x = CleanJob(Head(jobs), full)
    BY <1>5 DEF CleanJob
  <2>2. /\ x \in Seq(CleanJobs) /\ Len(x) = Len(jobs) /\ x[1].source = job.source
        /\ x[1].stage = "others" /\ \A n \in 1 .. Len(jobs) : n # 1 => x[n] = jobs[n]
    BY <1>2, <2>1
  <2>. QED BY <1>1, <1>5, <2>1, <2>2
<1>6. CASE ~full /\ job.stage = "others"
  <2>1. PICK x : x = next("over") /\ x = CleanJob(Head(jobs), full)
    BY <1>6 DEF CleanJob
  <2>2. /\ x \in Seq(CleanJobs) /\ Len(x) = Len(jobs) /\ x[1].source = job.source
        /\ x[1].stage = "over" /\ \A n \in 1 .. Len(jobs) : n # 1 => x[n] = jobs[n]
    BY <1>2, <2>1
  <2>. QED BY <1>1, <1>6, <2>1, <2>2
<1>7. CASE ~full /\ job.stage = "over"
  <2>1. left = Tail(jobs)
    BY <1>7 DEF CleanJob
  <2>2. \A n \in 1 .. Len(left) : n + 1 \in 1 .. Len(jobs) /\ left[n] = jobs[n + 1]
    BY <1>1, <2>1
  <2>. QED BY <1>1, <2>1, <2>2
<1>. QED BY <1>3, <1>4, <1>5, <1>6, <1>7

LEMMA CleanKeeps == UpkeepInv /\ Clean => UpkeepInv'
<1>. SUFFICES ASSUME UpkeepInv, Clean PROVE UpkeepInv'
  OBVIOUS
<1>. Shape /\ Sequenced /\ MadeAll /\ AgreesAll /\ Reading /\ Drafted /\ Cleaning
  BY DEF UpkeepInv
<1>1. /\ inputs' = inputs /\ epoch' = epoch /\ events' = events /\ draft' = draft /\ used' = used
      /\ removedSince' = removedSince
      /\ runner' = [runner EXCEPT !.at = "read", !.busy = jobs # <<>>]
  BY DEF Clean
<1>2. runner' \in Runners /\ runner'.at = "read"
  <2>1. PICK b \in BOOLEAN : b = (jobs # <<>>)
    OBVIOUS
  <2>2. runner' = [runner EXCEPT !.at = "read", !.busy = b] /\ runner \in Runners
    BY <1>1, <2>1 DEF Shape
  <2>. QED BY <2>2 DEF Runners
<1>3. CASE jobs = <<>>
  <2>1. entries' = entries /\ deps' = deps /\ jobs' = jobs /\ cleaned' = cleaned
    BY <1>3 DEF Clean, CleanBatch
  <2>2. Drafted'
    BY <1>1 DEF Drafted
  <2>. QED BY <1>1, <1>2, <2>1, <2>2, QuietStep
<1>4. CASE jobs # <<>>
  <2>1. PICK job, source : job = Head(jobs) /\ source = job.source
    OBVIOUS
  <2>2. CleanBatch
    BY <1>4 DEF Clean
  <2>3. PICK holders : holders = {e \in Entries :
            IF job.stage = "thoughts" THEN entries[e] # None /\ source \in entries[e].sources
            ELSE deps[e][source] # None}
    OBVIOUS
  <2>4. PICK s \in IF job.stage = "over" THEN {{}} ELSE Batch(holders) :
          /\ entries' = IF job.stage # "thoughts" THEN entries
                        ELSE [e \in Entries |-> IF e \in s THEN None ELSE entries[e]]
          /\ deps' = IF job.stage # "others" THEN deps
                     ELSE [e \in Entries |->
                            IF e \in s THEN [deps[e] EXCEPT ![source] = None] ELSE deps[e]]
          /\ jobs' = CleanJob(job, job.stage # "over" /\ Cardinality(s) = Limit)
    BY <2>1, <2>2, <2>3 DEF CleanBatch
  <2>5. cleaned' = IF job.stage = "over" THEN cleaned \cup {source} ELSE cleaned
    BY <2>1, <2>2 DEF CleanBatch
  <2>6. PICK full \in BOOLEAN : full = (job.stage # "over" /\ Cardinality(s) = Limit)
    OBVIOUS
  <2>7. /\ job \in CleanJobs /\ job = jobs[1] /\ 1 \in 1 .. Len(jobs) /\ jobs' \in Seq(CleanJobs)
        /\ \A n \in 1 .. Len(jobs') :
             \/ \E k \in 1 .. Len(jobs) : jobs'[n] = jobs[k]
             \/ /\ ~full /\ jobs'[n].source = source
                /\ \/ job.stage = "thoughts" /\ jobs'[n].stage = "others"
                   \/ job.stage = "others" /\ jobs'[n].stage = "over"
    <3>1. jobs' = CleanJob(Head(jobs), full)
      BY <2>1, <2>4, <2>6
    <3>. QED BY <1>4, <2>1, <3>1, CleanJobsAre
  <2>8. /\ source \in Inputs /\ inputs[source].purged
        /\ job.stage # "thoughts" => Freed(source, entries)
        /\ job.stage = "over" => Cleared(source, deps)
    <3>1. source \in Inputs
      BY <2>1, <2>7 DEF CleanJobs
    <3>. QED BY <2>1, <2>7, <3>1 DEF Cleaning
  <2>9. job.stage \in {"thoughts", "others", "over"}
    BY <2>7 DEF CleanJobs
  <2>10. ~full /\ job.stage # "over" => s = holders
    BY <2>4, <2>6 DEF Batch
  \* What is left of the rows.
  <2>11. \A e \in Entries : entries'[e] = entries[e] \/ entries'[e] = None
    BY <2>4
  <2>12. \A e \in Entries : \A i \in Inputs :
           deps'[e][i] = deps[e][i] \/ (deps'[e][i] = None /\ i = source)
    BY <2>4 DEF Shape
  <2>13. ~full /\ job.stage = "thoughts" => Freed(source, entries')
    BY <2>3, <2>4, <2>10 DEF Freed
  <2>14. ~full /\ job.stage = "others" => Cleared(source, deps')
    BY <2>3, <2>4, <2>8, <2>10 DEF Cleared, Shape
  <2>15. \A i \in Inputs : Freed(i, entries) => Freed(i, entries')
    BY <2>11 DEF Freed
  <2>16. \A i \in Inputs : Cleared(i, deps) => Cleared(i, deps')
    BY <2>12 DEF Cleared
  <2>17. Shape'
    <3>1. entries' \in [Entries -> EntryRows \cup {None}]
      BY <2>4 DEF Shape
    <3>2. deps' \in [Entries -> [Inputs -> Dependencies \cup {None}]]
      <4>1. \A e \in Entries : [deps[e] EXCEPT ![source] = None] \in [Inputs -> Dependencies \cup {None}]
        BY DEF Shape
      <4>. QED BY <2>4, <4>1 DEF Shape
    <3>. QED BY <1>1, <1>2, <2>7, <3>1, <3>2 DEF Shape
  <2>18. MadeAll'
    <3>. SUFFICES ASSUME NEW e \in Entries
         PROVE  Made(e, entries'[e], deps'[e], used[e], removedSince[e], inputs, epoch)
      BY <1>1 DEF MadeAll
    <3>1. Made(e, entries[e], deps[e], used[e], removedSince[e], inputs, epoch)
      BY DEF MadeAll
    <3>2. /\ entries[e] \in EntryRows \cup {None} /\ entries'[e] \in EntryRows \cup {None}
          /\ deps[e] \in [Inputs -> Dependencies \cup {None}] /\ removedSince[e] \in SUBSET Inputs
          /\ inputs \in [Inputs -> InputRows] /\ epoch \in Nat /\ epoch <= epoch
      BY <2>17 DEF Shape
    <3>3. \A i \in Inputs : inputs[i].removedAt <= inputs[i].removedAt
      BY <3>2 DEF InputRows
    <3>4. used[e] = None => removedSince[e] = {}
      BY <3>1 DEF Made
    <3>5. Keeps(e, entries[e], entries'[e], inputs)
      BY <2>11 DEF Keeps
    <3>6. \A i \in Inputs : deps'[e][i] = deps[e][i] \/ (deps'[e][i] = None /\ inputs[i].purged)
      BY <2>8, <2>12
    <3>7. Change(e, entries[e], entries'[e], deps[e], deps'[e], used[e], removedSince[e],
                 removedSince[e], inputs, inputs, epoch, epoch)
      BY <3>2, <3>3, <3>4, <3>5, <3>6 DEF Change
    <3>. QED BY <3>1, <3>7, MadeKept
  <2>19. AgreesAll'
    <3>. SUFFICES ASSUME NEW e \in Entries
         PROVE  Agrees(e, entries'[e], inputs, events, runner'.at, runner'.read)
      BY <1>1 DEF AgreesAll
    <3>1. Agrees(e, entries[e], inputs, events, runner.at, runner.read)
      BY DEF AgreesAll
    <3>2. Waiting(entries[e], entries'[e], inputs, inputs, events, events, runner.at, runner'.at,
                  runner.read, runner'.read)
      BY <1>2, <2>11 DEF Waiting, Shape
    <3>. QED BY <3>1, <3>2, AgreesKept
  <2>20. Sequenced' /\ Reading' /\ Drafted'
    BY <1>1, <1>2 DEF Sequenced, Reading, Drafted
  <2>21. Cleaning'
    <3>1. ASSUME NEW n \in 1 .. Len(jobs')
          PROVE  /\ inputs[jobs'[n].source].purged
                 /\ jobs'[n].stage # "thoughts" => Freed(jobs'[n].source, entries')
                 /\ jobs'[n].stage = "over" => Cleared(jobs'[n].source, deps')
      <4>1. CASE \E k \in 1 .. Len(jobs) : jobs'[n] = jobs[k]
        <5>1. PICK k \in 1 .. Len(jobs) : jobs'[n] = jobs[k]
          BY <4>1
        <5>2. jobs[k].source \in Inputs
          BY ItemsAre
        <5>3. /\ inputs[jobs[k].source].purged
              /\ jobs[k].stage # "thoughts" => Freed(jobs[k].source, entries)
              /\ jobs[k].stage = "over" => Cleared(jobs[k].source, deps)
          BY DEF Cleaning
        <5>. QED BY <5>1, <5>2, <5>3, <2>15, <2>16
      <4>2. CASE /\ ~full /\ jobs'[n].source = source
                 /\ job.stage = "thoughts" /\ jobs'[n].stage = "others"
        BY <2>8, <2>13, <4>2
      <4>3. CASE /\ ~full /\ jobs'[n].source = source
                 /\ job.stage = "others" /\ jobs'[n].stage = "over"
        BY <2>8, <2>14, <2>15, <4>3
      <4>. QED BY <2>7, <4>1, <4>2, <4>3
    <3>2. \A i \in cleaned' : inputs[i].purged /\ Freed(i, entries') /\ Cleared(i, deps')
      <4>1. \A i \in cleaned : i \in Inputs /\ inputs[i].purged /\ Freed(i, entries) /\ Cleared(i, deps)
        BY DEF Cleaning
      <4>. QED BY <2>5, <2>8, <2>15, <2>16, <4>1
    <3>3. cleaned' \subseteq Inputs
      BY <2>5, <2>8 DEF Cleaning
    <3>. QED BY <1>1, <3>1, <3>2, <3>3 DEF Cleaning
  <2>. QED BY <2>17, <2>18, <2>19, <2>20, <2>21 DEF UpkeepInv
<1>. QED BY <1>3, <1>4

-----------------------------------------------------------------------------
(* A batch of an invalidation: what is read. *)

LEMMA ReadBatchKeeps == UpkeepInv /\ ReadBatch => UpkeepInv'
<1>. SUFFICES ASSUME UpkeepInv, ReadBatch PROVE UpkeepInv'
  OBVIOUS
<1>. Shape /\ Sequenced /\ MadeAll /\ AgreesAll /\ Reading /\ Drafted /\ Cleaning
  BY DEF UpkeepInv
<1>1. /\ inputs' = inputs /\ epoch' = epoch /\ entries' = entries /\ deps' = deps /\ events' = events
      /\ jobs' = jobs /\ used' = used /\ removedSince' = removedSince /\ cleaned' = cleaned
      /\ draft' = draft /\ runner.at = "read" /\ runner \in Runners
  BY DEF ReadBatch, rows, history, Shape
<1>2. Drafted'
  BY <1>1 DEF Drafted
<1>3. CASE events = <<>>
  <2>1. runner' \in {GoesOn(runner), [Idle EXCEPT !.at = "purge"], Idle}
    BY <1>3 DEF ReadBatch, Ended
  <2>2. runner' \in Runners /\ runner'.at # "commit"
    BY <1>1, <2>1, RunnersAre
  <2>. QED BY <1>1, <1>2, <2>2, QuietStep
<1>4. CASE events # <<>>
  <2>1. PICK event, i, page, all :
          event = Head(events) /\ i = event.input /\ all = After(event) /\ page = FirstOf(all)
    OBVIOUS
  <2>2. event \in Invalidations /\ event = events[1] /\ 1 \in 1 .. Len(events) /\ i \in Inputs
    <3>1. events \in Seq(Invalidations)
      BY DEF Shape
    <3>2. Head(events) = events[1] /\ 1 \in 1 .. Len(events)
      BY <1>4, <3>1
    <3>. QED BY <2>1, <3>2, ItemsAre
  <2>3. all = {e \in Entries : e > event.cursor /\ deps[e][i] # None}
    BY <2>1 DEF After
  <2>4. /\ page \subseteq all /\ (all # {} => page # {})
        /\ \A e \in all \ page : \A x \in page : x < e
    BY <2>1, <2>3, FirstOfIs
  <2>5. PICK last \in BOOLEAN, present \in BOOLEAN : last = (page = all) /\ present = Present(i)
    BY DEF Present
  <2>6. PICK got : got = [e \in page |-> deps[e][i]]
    OBVIOUS
  <2>7. got \in [page -> Dependencies] /\ DOMAIN got = page /\ page \in SUBSET Entries
    BY <2>2, <2>3, <2>4, <2>6 DEF Shape
  <2>8. PICK read : read = [event |-> event, page |-> got, last |-> last, present |-> present,
                            rev |-> inputs[i].rev, text |-> inputs[i].text]
    OBVIOUS
  <2>9. runner' = [runner EXCEPT !.at = "commit", !.read = read]
    BY <1>4, <2>1, <2>5, <2>6, <2>8 DEF ReadBatch
  <2>10. read \in Reads /\ read.event = event /\ read.page = got /\ read.last = last
    <3>1. inputs[i].rev \in Nat /\ inputs[i].text \in Writings
      BY <2>2 DEF Shape, InputRows
    <3>2. got \in UNION {[s -> Dependencies] : s \in SUBSET Entries}
      BY <2>7
    <3>. QED BY <2>2, <2>5, <2>8, <3>1, <3>2 DEF Reads
  <2>11. runner' \in Runners /\ runner'.at = "commit" /\ runner'.read = read
    BY <1>1, <2>9, <2>10 DEF Runners
  <2>12. Shape' /\ Sequenced' /\ MadeAll'
    BY <1>1, <2>11 DEF Shape, Sequenced, MadeAll
  <2>13. Reading'
    <3>1. last \/ page # {}
      BY <2>4, <2>5
    <3>. QED BY <1>1, <1>4, <2>1, <2>7, <2>10, <2>11, <3>1 DEF Reading
  <2>14. AgreesAll'
    <3>. SUFFICES ASSUME NEW e \in Entries
         PROVE  Agrees(e, entries[e], inputs, events, "commit", read)
      BY <1>1, <2>11 DEF AgreesAll
    <3>. SUFFICES ASSUME entries[e] # None, entries[e].of # None, ~inputs[entries[e].of].purged,
                         NEW n \in 1 .. Len(events),
                         Waits(e, entries[e].of, n, events, runner.at, runner.read)
         PROVE  Waits(e, entries[e].of, n, events, "commit", read)
      BY DEF Agrees, AgreesAll
    <3>1. deps[e][entries[e].of] # None
      BY DEF MadeAll, Made
    <3>2. events[n].input = entries[e].of /\ e > events[n].cursor
      BY DEF Waits
    <3>3. ASSUME n = 1
          PROVE  e \in DOMAIN read.page \/ (~read.last /\ \A x \in DOMAIN read.page : x < e)
      <4>1. e \in all
        BY <2>1, <2>2, <2>3, <3>1, <3>2, <3>3
      <4>. QED BY <2>4, <2>5, <2>7, <2>10, <4>1
    <3>. QED BY <3>2, <3>3 DEF Waits
  <2>15. Cleaning'
    BY <1>1, CleaningKept
  <2>. QED BY <1>2, <2>12, <2>13, <2>14, <2>15 DEF UpkeepInv
<1>. QED BY <1>3, <1>4

-----------------------------------------------------------------------------
(* A batch of an invalidation: what is written. *)

\* The row: it keeps its sources and its input; only a row that is bound to the
\* input gets a text, the text of an input that is there.
RowWritten(e, i, row, row2) ==
  /\ row2 \in EntryRows /\ row2.of = row.of /\ row2.sources = row.sources
  /\ Shared(e, i) /\ Present(i) => row2.body = inputs[i].text
  /\ Shared(e, i) /\ ~Present(i) => row2.life = "invalidated"
  /\ ~(Shared(e, i) /\ Present(i)) => row2.human = row.human
  /\ ~Shared(e, i) =>
       /\ row2.body = row.body /\ (row2.life # "invalidated" => row2.life = row.life)
       /\ row2.fresh = "current" => row.fresh = "current" /\ ~Missing(e, i)
       /\ row2.life = "active" /\ ~row2.human =>
            row.life = "active" /\ (Missing(e, i) => OthersValid(e, i))

LEMMA RefreshedIs ==
  ASSUME NEW e \in Entries, NEW i \in Inputs, entries[e] \in EntryRows, inputs[i] \in InputRows,
         runner.read.event.named \in BOOLEAN
  PROVE  RowWritten(e, i, entries[e], Refreshed(e, i))
<1>. DEFINE row == entries[e]
<1>1. row \in EntryRows /\ inputs[i].text \in Writings /\ inputs[i].rev \in Nat
  BY DEF InputRows
<1>2. PICK row2 : row2 = Refreshed(e, i)
  OBVIOUS
<1>3. CASE Shared(e, i) /\ Present(i)
  <2>1. row2 = Linked(row, inputs[i].text, inputs[i].rev, runner.read.event.named)
    BY <1>2, <1>3 DEF Refreshed
  <2>2. row2 \in EntryRows /\ row2.of = row.of /\ row2.sources = row.sources /\ row2.body = inputs[i].text
    BY <1>1, <2>1, LinkedIs
  <2>. QED BY <1>2, <1>3, <2>2 DEF RowWritten
<1>4. CASE Shared(e, i) /\ ~Present(i)
  <2>1. row2 = [row EXCEPT !.fresh = "stale", !.whole = "detached", !.life = "invalidated"]
    BY <1>2, <1>4 DEF Refreshed
  <2>2. /\ row2 \in EntryRows /\ row2.of = row.of /\ row2.sources = row.sources
        /\ row2.life = "invalidated" /\ row2.human = row.human
    BY <1>1, <2>1 DEF EntryRows
  <2>. QED BY <1>2, <1>4, <2>2 DEF RowWritten
<1>5. CASE ~Shared(e, i) /\ Missing(e, i)
  <2>1. PICK whole \in {"detached", "partial"} :
          whole = IF ~OthersValid(e, i) THEN "detached" ELSE "partial"
    OBVIOUS
  <2>2. PICK life : life = IF ~OthersValid(e, i) /\ ~row.human /\ row.life = "active"
                           THEN "invalidated" ELSE row.life
    OBVIOUS
  <2>3. row2 = [row EXCEPT !.fresh = "stale", !.whole = whole, !.life = life]
    BY <1>2, <1>5, <2>1, <2>2 DEF Refreshed
  <2>4. life \in {"active", "removed", "invalidated"} /\ (life # "invalidated" => life = row.life)
    BY <1>1, <2>2 DEF EntryRows
  <2>5. /\ row2 \in EntryRows /\ row2.of = row.of /\ row2.sources = row.sources /\ row2.fresh = "stale"
        /\ row2.life = life /\ row2.human = row.human /\ row2.body = row.body
    BY <1>1, <2>3, <2>4 DEF EntryRows
  <2>6. life = "active" /\ ~row.human => row.life = "active" /\ OthersValid(e, i)
    BY <2>2
  <2>. QED BY <1>2, <1>5, <2>4, <2>5, <2>6 DEF RowWritten
<1>6. CASE ~Shared(e, i) /\ ~Missing(e, i)
  <2>1. row2 \in {row, [row EXCEPT !.fresh = "stale"]}
    BY <1>2, <1>6 DEF Refreshed
  <2>2. /\ row2 \in EntryRows /\ row2.of = row.of /\ row2.sources = row.sources
        /\ row2.fresh \in {row.fresh, "stale"}
        /\ row2.life = row.life /\ row2.human = row.human /\ row2.body = row.body
    BY <1>1, <2>1 DEF EntryRows
  <2>. QED BY <1>2, <1>6, <2>2 DEF RowWritten
<1>. QED BY <1>3, <1>4, <1>5, <1>6

\* The dependency: it is dropped only when the source is missing, and what is
\* not bound to the input keeps the text it was made from.
DepWritten(e, i, dep, dep2, sequence) ==
  /\ dep2 \in Dependencies \cup {None}
  /\ dep2 = None => ~Shared(e, i) /\ Missing(e, i)
  /\ dep2 # None => dep2.eligible \in {dep.eligible, sequence}
  /\ dep2 # None /\ ~Shared(e, i) => dep2.eligible = dep.eligible /\ dep2.text = dep.text

LEMMA RefreshedDepIs ==
  ASSUME NEW e \in Entries, NEW i \in Inputs, deps[e][i] \in Dependencies, inputs[i] \in InputRows,
         runner.read \in Reads
  PROVE  DepWritten(e, i, deps[e][i], RefreshedDep(e, i), runner.read.event.sequence)
<1>. DEFINE dep == deps[e][i]
            yes == TRUE
            no == FALSE
<1>. HIDE DEF yes, no
<1>1. dep \in Dependencies /\ inputs[i].rev \in Nat /\ runner.read.text \in Writings
      /\ runner.read.event.sequence \in Nat /\ yes \in BOOLEAN /\ no \in BOOLEAN
  BY DEF InputRows, Reads, Invalidations, yes, no
<1>2. PICK dep2 : dep2 = RefreshedDep(e, i)
  OBVIOUS
<1>3. CASE Shared(e, i) /\ Present(i)
  <2>1. PICK text, based, eligible :
          text = runner.read.text /\ based = inputs[i].rev /\ eligible = runner.read.event.sequence
    OBVIOUS
  <2>2. dep2 = [text |-> text, based |-> based, eligible |-> eligible, valid |-> yes]
    BY <1>2, <1>3, <2>1 DEF RefreshedDep, yes
  <2>3. dep2 \in Dependencies /\ dep2.eligible = eligible
    BY <1>1, <2>1, <2>2 DEF Dependencies
  <2>. QED BY <1>2, <1>3, <2>1, <2>3, NoneIsNoRow DEF DepWritten
<1>4. CASE Shared(e, i) /\ ~Present(i)
  <2>1. dep2 = [dep EXCEPT !.valid = no]
    BY <1>2, <1>4 DEF RefreshedDep, no
  <2>2. dep2 \in Dependencies /\ dep2.eligible = dep.eligible
    BY <1>1, <2>1 DEF Dependencies
  <2>. QED BY <1>2, <1>4, <2>2, NoneIsNoRow DEF DepWritten
<1>5. CASE ~Shared(e, i) /\ Missing(e, i)
  <2>1. dep2 = None
    BY <1>2, <1>5 DEF RefreshedDep
  <2>. QED BY <1>2, <1>5, <2>1 DEF DepWritten
<1>6. CASE ~Shared(e, i) /\ ~Missing(e, i)
  <2>1. PICK b \in BOOLEAN : b = ~Changed(e, i)
    BY DEF Changed
  <2>2. dep2 = [dep EXCEPT !.valid = b]
    BY <1>2, <1>6, <2>1 DEF RefreshedDep
  <2>3. dep2 \in Dependencies /\ dep2.eligible = dep.eligible /\ dep2.text = dep.text
    BY <1>1, <2>1, <2>2 DEF Dependencies
  <2>. QED BY <1>2, <1>6, <2>3, NoneIsNoRow DEF DepWritten
<1>. QED BY <1>3, <1>4, <1>5, <1>6

LEMMA PlacedBefore ==
  ASSUME NEW S, NEW s \in Seq(S), NEW x \in S
  PROVE  /\ <<x>> \o s \in Seq(S) /\ Len(<<x>> \o s) = Len(s) + 1 /\ (<<x>> \o s)[1] = x
         /\ \A n \in 1 .. Len(s) : (<<x>> \o s)[n + 1] = s[n]
<1>1. <<x>> \in Seq(S) /\ Len(<<x>>) = 1 /\ <<x>>[1] = x
  OBVIOUS
<1>. QED BY <1>1

\* What is left of the invalidations when the first of them was worked on.
Remaining(evs, left, last, cursor) ==
  /\ left \in Seq(Invalidations)
  /\ \A n \in 1 .. Len(left) : \E m \in 1 .. Len(evs) : left[n].sequence = evs[m].sequence
  /\ \A m \in 1 .. Len(evs) : m # 1 => \E n \in 1 .. Len(left) : left[n] = evs[m]
  /\ ~last => 1 \in 1 .. Len(left) /\ left[1].input = evs[1].input /\ left[1].cursor = cursor

LEMMA EventsLeft ==
  ASSUME NEW evs \in Seq(Invalidations), evs # <<>>, NEW cursor \in Nat, NEW left,
         NEW last \in BOOLEAN,
         left = IF last THEN Tail(evs) ELSE <<[Head(evs) EXCEPT !.cursor = cursor]>> \o Tail(evs)
  PROVE  Remaining(evs, left, last, cursor)
<1>1. PICK rest, first : rest = Tail(evs) /\ first = Head(evs)
  OBVIOUS
<1>2. first \in Invalidations /\ first = evs[1] /\ 1 \in 1 .. Len(evs)
      /\ rest \in Seq(Invalidations) /\ Len(rest) = Len(evs) - 1 /\ Len(evs) \in Nat
      /\ \A n \in 1 .. Len(rest) : rest[n] = evs[n + 1]
  BY <1>1
<1>3. /\ \A n \in 1 .. Len(rest) : n + 1 \in 1 .. Len(evs) /\ rest[n] = evs[n + 1]
      /\ \A m \in 1 .. Len(evs) : m # 1 => m - 1 \in 1 .. Len(rest) /\ rest[m - 1] = evs[m]
  <2>. Len(rest) \in Nat
    BY <1>2
  <2>1. \A n \in 1 .. Len(rest) : n + 1 \in 1 .. Len(evs) /\ rest[n] = evs[n + 1]
    BY <1>2
  <2>2. \A m \in 1 .. Len(evs) : m # 1 => m - 1 \in 1 .. Len(rest) /\ (m - 1) + 1 = m
    BY <1>2
  <2>. QED BY <2>1, <2>2
<1>4. CASE last
  <2>1. left = rest
    BY <1>1, <1>4
  <2>2. \A n \in 1 .. Len(left) : \E m \in 1 .. Len(evs) : left[n].sequence = evs[m].sequence
    BY <1>3, <2>1
  <2>3. \A m \in 1 .. Len(evs) : m # 1 => \E n \in 1 .. Len(left) : left[n] = evs[m]
    BY <1>3, <2>1
  <2>. QED BY <1>2, <1>4, <2>1, <2>2, <2>3 DEF Remaining
<1>5. CASE ~last
  <2>1. PICK x : x = [first EXCEPT !.cursor = cursor]
    OBVIOUS
  <2>2. /\ x \in Invalidations /\ x.sequence = evs[1].sequence /\ x.input = evs[1].input
        /\ x.cursor = cursor
    BY <1>2, <2>1 DEF Invalidations
  <2>3. left = <<x>> \o rest
    BY <1>1, <1>5, <2>1
  <2>4. /\ left \in Seq(Invalidations) /\ Len(left) = Len(rest) + 1 /\ left[1] = x
        /\ \A n \in 1 .. Len(rest) : left[n + 1] = rest[n]
    BY <1>2, <2>2, <2>3, PlacedBefore
  <2>5. Len(left) = Len(evs) /\ 1 \in 1 .. Len(left)
    BY <1>2, <2>4
  <2>6. \A m \in 1 .. Len(evs) : m # 1 => left[m] = evs[m]
    <3>1. \A m \in 1 .. Len(evs) : m # 1 => left[(m - 1) + 1] = evs[m] /\ (m - 1) + 1 = m
      BY <1>2, <1>3, <2>4
    <3>. QED BY <3>1
  <2>7. \A n \in 1 .. Len(left) : n \in 1 .. Len(evs) /\ left[n].sequence = evs[n].sequence
    BY <2>2, <2>4, <2>5, <2>6
  <2>8. \A m \in 1 .. Len(evs) : m # 1 => m \in 1 .. Len(left) /\ left[m] = evs[m]
    BY <2>5, <2>6
  <2>9. \A m \in 1 .. Len(evs) : m # 1 => \E n \in 1 .. Len(left) : left[n] = evs[m]
    BY <2>8
  <2>10. \A n \in 1 .. Len(left) : \E m \in 1 .. Len(evs) : left[n].sequence = evs[m].sequence
    BY <2>7
  <2>11. 1 \in 1 .. Len(left) /\ left[1].input = evs[1].input /\ left[1].cursor = cursor
    BY <2>2, <2>4, <2>5
  <2>. QED BY <2>4, <2>9, <2>10, <2>11 DEF Remaining
<1>. QED BY <1>4, <1>5

LEMMA CommitKeeps == UpkeepInv /\ Commit => UpkeepInv'
<1>. SUFFICES ASSUME UpkeepInv, Commit PROVE UpkeepInv'
  OBVIOUS
<1>. Shape /\ Sequenced /\ MadeAll /\ AgreesAll /\ Reading /\ Drafted /\ Cleaning
  BY DEF UpkeepInv
<1>1. /\ inputs' = inputs /\ epoch' = epoch /\ jobs' = jobs /\ used' = used
      /\ removedSince' = removedSince /\ cleaned' = cleaned /\ draft' = draft
      /\ runner.at = "commit" /\ runner' = GoesOn(runner)
  BY DEF Commit, history
<1>2. runner' \in Runners /\ runner'.at = "purge"
  BY <1>1, RunnersAre DEF Shape
<1>3. Drafted'
  BY <1>1 DEF Drafted
<1>4. CASE ~StillRead
  <2>1. entries' = entries /\ deps' = deps /\ events' = events
    BY <1>4 DEF Commit
  <2>. QED BY <1>1, <1>2, <1>3, <2>1, QuietStep
<1>5. CASE StillRead
  <2>1. PICK read, event, i, got, page :
          /\ read = runner.read /\ event = read.event /\ i = event.input /\ got = DOMAIN read.page
          /\ page = {e \in got : deps[e][i] # None}
    OBVIOUS
  <2>2. CommitBatch
    BY <1>5 DEF Commit
  <2>3. /\ entries' = [e \in Entries |->
              IF e \in page /\ entries[e] # None THEN Refreshed(e, i) ELSE entries[e]]
        /\ deps' = [e \in Entries |->
              IF e \in page THEN [deps[e] EXCEPT ![i] = RefreshedDep(e, i)] ELSE deps[e]]
    BY <2>1, <2>2 DEF CommitBatch
  <2>4. /\ read \in Reads /\ events # <<>> /\ Head(events) = event /\ (read.last \/ got # {})
        /\ events \in Seq(Invalidations)
    BY <1>1, <2>1 DEF Reading, Shape
  <2>5. /\ event \in Invalidations /\ i \in Inputs /\ event.sequence \in Nat
        /\ event.sequence <= epoch /\ events[1] = event /\ 1 \in 1 .. Len(events)
    <3>1. events[1] = event /\ 1 \in 1 .. Len(events)
      BY <2>4
    <3>2. event \in Invalidations /\ i \in Inputs /\ event.sequence \in Nat
      BY <2>1, <3>1, ItemsAre
    <3>3. events[1].sequence <= epoch
      BY <3>1 DEF Sequenced
    <3>. QED BY <3>1, <3>2, <3>3
  <2>6. got \in SUBSET Entries /\ page \subseteq Entries /\ read.last \in BOOLEAN
    BY <2>1, <2>4 DEF Reads
  <2>7. PICK cursor \in Nat :
          /\ events' = IF read.last THEN Tail(events)
                       ELSE <<[Head(events) EXCEPT !.cursor = cursor]>> \o Tail(events)
          /\ ~read.last => \A x \in got : x <= cursor
          /\ ~read.last => cursor \in got
    <3>1. events' = IF read.last THEN Tail(events)
                    ELSE <<[event EXCEPT !.cursor = CHOOSE e \in got : \A x \in got : x <= e]>>
                           \o Tail(events)
      BY <2>1, <2>2 DEF CommitBatch
    <3>2. CASE read.last
      BY <3>1, <3>2
    <3>3. CASE ~read.last
      <4>1. got # {} /\ got \in SUBSET Nat /\ IsFiniteSet(got)
        BY <2>4, <2>6, <3>3, EntryAssumption, FS_Subset
      <4>2. \E m \in got : \A x \in got : x <= m
        BY <4>1, LastOf
      <4>3. PICK m : m = CHOOSE e \in got : \A x \in got : x <= e
        OBVIOUS
      <4>4. m \in got /\ \A x \in got : x <= m
        BY <4>2, <4>3
      <4>. QED BY <2>4, <3>1, <3>3, <4>1, <4>3, <4>4
    <3>. QED BY <3>2, <3>3
  <2>8. /\ events' \in Seq(Invalidations)
        /\ \A n \in 1 .. Len(events') : \E m \in 1 .. Len(events) : events'[n].sequence = events[m].sequence
        /\ \A m \in 1 .. Len(events) : m # 1 => \E n \in 1 .. Len(events') : events'[n] = events[m]
        /\ ~read.last => 1 \in 1 .. Len(events') /\ events'[1].input = i /\ events'[1].cursor = cursor
    <3>1. PICK last, left : last = read.last /\ left = events' /\ last \in BOOLEAN
      BY <2>6
    <3>2. left = IF last THEN Tail(events)
                 ELSE <<[Head(events) EXCEPT !.cursor = cursor]>> \o Tail(events)
      BY <2>7, <3>1
    <3>3. Remaining(events, left, last, cursor)
      BY <2>4, <3>1, <3>2, EventsLeft
    <3>. QED BY <2>1, <2>5, <3>1, <3>3 DEF Remaining
  \* An entry of the batch.
  <2>9. ASSUME NEW e \in page
        PROVE  /\ e \in Entries /\ deps[e][i] \in Dependencies /\ inputs[i] \in InputRows
               /\ deps'[e] = [deps[e] EXCEPT ![i] = RefreshedDep(e, i)]
               /\ entries[e] # None => entries'[e] = Refreshed(e, i)
               /\ entries[e] = None => entries'[e] = None
    <3>1. e \in Entries /\ deps[e][i] # None
      BY <2>1, <2>6
    <3>2. deps[e][i] \in Dependencies /\ inputs[i] \in InputRows
      BY <2>5, <3>1 DEF Shape
    <3>. QED BY <2>3, <3>1, <3>2
  <2>10. ASSUME NEW e \in Entries, e \notin page
         PROVE  entries'[e] = entries[e] /\ deps'[e] = deps[e]
    BY <2>3, <2>10
  <2>11. ASSUME NEW e \in page
         PROVE  /\ deps'[e] \in [Inputs -> Dependencies \cup {None}]
                /\ DepWritten(e, i, deps[e][i], deps'[e][i], event.sequence)
                /\ \A j \in Inputs : j # i => deps'[e][j] = deps[e][j]
    <3>1. DepWritten(e, i, deps[e][i], RefreshedDep(e, i), event.sequence)
      BY <2>1, <2>4, <2>5, <2>9, RefreshedDepIs
    <3>2. RefreshedDep(e, i) \in Dependencies \cup {None}
      BY <3>1 DEF DepWritten
    <3>3. deps[e] \in [Inputs -> Dependencies \cup {None}]
      BY <2>9 DEF Shape
    <3>. QED BY <2>5, <2>9, <3>1, <3>2, <3>3
  <2>12. ASSUME NEW e \in page, entries[e] # None
         PROVE  /\ entries[e] \in EntryRows /\ RowWritten(e, i, entries[e], entries'[e])
                /\ entries'[e] \in EntryRows /\ entries'[e] # None
    <3>1. entries[e] \in EntryRows /\ entries'[e] = Refreshed(e, i) /\ inputs[i] \in InputRows
      BY <2>9, <2>12 DEF Shape
    <3>2. RowWritten(e, i, entries[e], entries'[e])
      <4>1. runner.read.event.named \in BOOLEAN
        BY <2>1, <2>5 DEF Invalidations
      <4>. QED BY <2>5, <2>9, <3>1, <4>1, RefreshedIs
    <3>3. entries'[e] \in EntryRows
      BY <3>2 DEF RowWritten
    <3>. QED BY <3>1, <3>2, <3>3, NoneIsNoRow
  <2>13. Shape'
    <3>1. \A e \in Entries : entries'[e] \in EntryRows \cup {None}
      BY <2>9, <2>10, <2>12 DEF Shape
    <3>2. \A e \in Entries : deps'[e] \in [Inputs -> Dependencies \cup {None}]
      BY <2>10, <2>11 DEF Shape
    <3>3. entries' \in [Entries -> EntryRows \cup {None}]
          /\ deps' \in [Entries -> [Inputs -> Dependencies \cup {None}]]
      BY <2>3, <3>1, <3>2
    <3>. QED BY <1>1, <1>2, <2>8, <3>3 DEF Shape
  <2>14. MadeAll'
    <3>. SUFFICES ASSUME NEW e \in Entries
         PROVE  Made(e, entries'[e], deps'[e], used[e], removedSince[e], inputs, epoch)
      BY <1>1 DEF MadeAll
    <3>1. Made(e, entries[e], deps[e], used[e], removedSince[e], inputs, epoch)
      BY DEF MadeAll
    <3>2. CASE e \notin page
      BY <2>10, <3>1, <3>2
    <3>3. CASE e \in page
      <4>1. deps[e][i] # None /\ used[e] # None /\ i \in DOMAIN used[e]
        BY <2>1, <2>5, <3>1, <3>3 DEF Made
      <4>2. /\ deps'[e][i] = None => ~Shared(e, i) /\ Missing(e, i)
            /\ deps'[e][i] # None => deps'[e][i].eligible \in {deps[e][i].eligible, event.sequence}
            /\ deps'[e][i] # None /\ ~Shared(e, i) =>
                 deps'[e][i].eligible = deps[e][i].eligible /\ deps'[e][i].text = deps[e][i].text
        BY <2>11, <3>3 DEF DepWritten
      <4>3. e \in Derived => ~Shared(e, i)
        BY <2>5, <3>1, NoneIsNoRow DEF Made, Shared
      <4>4. ASSUME NEW j \in Inputs, deps'[e][j] # None
            PROVE  /\ j \in DOMAIN used[e] /\ deps'[e][j].eligible <= epoch
                   /\ e \in Derived =>
                        /\ deps'[e][j].text = used[e][j]
                        /\ j \in removedSince[e] => inputs[j].removedAt > deps'[e][j].eligible
        <5>1. CASE j # i
          BY <2>11, <3>1, <3>3, <4>4, <5>1 DEF Made
        <5>2. CASE j = i
          <6>1. /\ deps[e][i].eligible <= epoch
                /\ e \in Derived =>
                     /\ deps[e][i].text = used[e][i]
                     /\ i \in removedSince[e] => inputs[i].removedAt > deps[e][i].eligible
            BY <2>5, <3>1, <4>1 DEF Made
          <6>. QED BY <2>5, <4>1, <4>2, <4>3, <4>4, <5>2, <6>1
        <5>. QED BY <5>1, <5>2
      <4>5. ASSUME entries'[e] # None
            PROVE  /\ entries'[e].sources = DOMAIN used[e]
                   /\ e \in Derived => entries'[e].of = None
                   /\ entries'[e].of # None =>
                        /\ entries'[e].sources = {entries'[e].of}
                        /\ deps'[e][entries'[e].of] # None \/ inputs[entries'[e].of].purged
                   /\ \A j \in entries'[e].sources : inputs[j].purged => ~entries'[e].human
                   /\ e \in Derived /\ entries'[e].fresh = "current" =>
                        \A j \in entries'[e].sources : inputs[j].purged \/ deps'[e][j] # None
                   /\ e \in Derived /\ ~entries'[e].human /\ entries'[e].life = "active" =>
                        \/ \E j \in entries'[e].sources : inputs[j].purged
                        \/ \E j \in Inputs : deps'[e][j] # None
        <5>1. entries[e] # None
          BY <2>9, <3>3, <4>5
        <5>2. PICK row, row2 : row = entries[e] /\ row2 = entries'[e]
          OBVIOUS
        <5>3. /\ row \in EntryRows /\ row2 \in EntryRows /\ row.sources \subseteq Inputs
              /\ row.of \in Inputs \cup {None}
          BY <2>12, <3>3, <5>1, <5>2 DEF EntryRows
        <5>4. /\ row.sources = DOMAIN used[e]
              /\ e \in Derived => row.of = None
              /\ row.of # None => row.sources = {row.of} /\ (deps[e][row.of] # None \/ inputs[row.of].purged)
              /\ \A j \in row.sources : inputs[j].purged => ~row.human
              /\ e \in Derived /\ row.fresh = "current" =>
                   \A j \in row.sources : inputs[j].purged \/ deps[e][j] # None
          BY <3>1, <5>1, <5>2 DEF Made
        <5>5. /\ row2.of = row.of /\ row2.sources = row.sources
              /\ ~(Shared(e, i) /\ Present(i)) => row2.human = row.human
              /\ ~Shared(e, i) =>
                   /\ row2.fresh = "current" => row.fresh = "current" /\ ~Missing(e, i)
                   /\ row2.life = "active" /\ ~row2.human =>
                        row.life = "active" /\ (Missing(e, i) => OthersValid(e, i))
          BY <2>12, <3>3, <5>1, <5>2 DEF RowWritten
        <5>6. Shared(e, i) => row.of = i
          BY <5>2 DEF Shared
        <5>7. row2.of # None => deps'[e][row2.of] # None \/ inputs[row2.of].purged
          <6>1. CASE row.of = i
            BY <4>2, <5>1, <5>2, <5>5, <6>1 DEF Shared
          <6>2. CASE row.of # i
            BY <2>11, <3>3, <5>3, <5>4, <5>5, <6>2
          <6>. QED BY <6>1, <6>2
        <5>8. \A j \in row2.sources : inputs[j].purged => ~row2.human
          <6>1. CASE Shared(e, i) /\ Present(i)
            BY <2>5, <5>4, <5>5, <5>6, <6>1, NoneIsNoRow DEF Present
          <6>2. CASE ~(Shared(e, i) /\ Present(i))
            BY <5>4, <5>5, <6>2
          <6>. QED BY <6>1, <6>2
        <5>9. ASSUME e \in Derived, row2.fresh = "current", NEW j \in row2.sources
              PROVE  inputs[j].purged \/ deps'[e][j] # None
          <6>1. CASE j = i
            BY <4>2, <4>3, <5>5, <5>9, <6>1
          <6>2. CASE j # i
            BY <2>11, <3>3, <4>3, <5>3, <5>4, <5>5, <5>9, <6>2
          <6>. QED BY <6>1, <6>2
        <5>10. ASSUME e \in Derived, ~row2.human, row2.life = "active"
               PROVE  \E j \in Inputs : deps'[e][j] # None
          <6>1. CASE Missing(e, i)
            <7>1. PICK j \in Evidence(e) \ {i} : TRUE
              BY <4>3, <5>5, <5>10, <6>1 DEF OthersValid
            <7>. QED BY <2>11, <3>3, <7>1 DEF Evidence
          <6>2. CASE ~Missing(e, i)
            BY <2>5, <4>2, <6>2
          <6>. QED BY <6>1, <6>2
        <5>. QED BY <5>2, <5>4, <5>5, <5>7, <5>8, <5>9, <5>10
      <4>. QED BY <4>1, <4>4, <4>5 DEF Made
    <3>. QED BY <3>2, <3>3
  <2>15. AgreesAll'
    <3>. SUFFICES ASSUME NEW e \in Entries, NEW k, k = entries'[e].of, entries'[e] # None, k # None,
                         ~inputs[k].purged, entries'[e].life \in {"active", "removed"},
                         ~(~inputs[k].out /\ entries'[e].body = inputs[k].text)
         PROVE  \E n \in 1 .. Len(events') : Waits(e, k, n, events', "purge", runner'.read)
      BY <1>1, <1>2 DEF AgreesAll, Agrees
    <3>1. entries[e] # None
      BY <2>9, <2>10
    <3>2. e \in page => entries[e].of # i
      <4>. SUFFICES ASSUME e \in page, entries[e].of = i PROVE FALSE
        OBVIOUS
      <4>1. Shared(e, i)
        BY <3>1 DEF Shared
      <4>2. /\ entries'[e].of = i
            /\ Present(i) => entries'[e].body = inputs[i].text
            /\ ~Present(i) => entries'[e].life = "invalidated"
        BY <2>12, <3>1, <4>1 DEF RowWritten
      <4>. QED BY <4>2 DEF Present
    <3>3. /\ entries[e].of = k /\ entries'[e].body = entries[e].body
          /\ entries[e].life \in {"active", "removed"}
      <4>1. CASE e \in page
        <5>1. ~Shared(e, i)
          BY <3>2, <4>1 DEF Shared
        <5>2. /\ entries'[e].of = entries[e].of /\ entries'[e].body = entries[e].body
              /\ entries'[e].life # "invalidated" => entries'[e].life = entries[e].life
          BY <2>12, <3>1, <4>1, <5>1 DEF RowWritten
        <5>. QED BY <5>2
      <4>2. CASE e \notin page
        BY <2>10, <4>2
      <4>. QED BY <4>1, <4>2
    <3>4. PICK n \in 1 .. Len(events) : Waits(e, k, n, events, runner.at, runner.read)
      BY <3>1, <3>3 DEF AgreesAll, Agrees
    <3>5. events[n].input = k /\ e > events[n].cursor
      BY <3>4 DEF Waits
    <3>6. CASE n # 1
      <4>1. PICK m \in 1 .. Len(events') : events'[m] = events[n]
        BY <2>8, <3>6
      <4>2. Waits(e, k, m, events', "purge", runner'.read)
        BY <3>5, <4>1 DEF Waits
      <4>. QED BY <4>2
    <3>7. CASE n = 1
      <4>1. k = i
        BY <2>1, <2>5, <3>5, <3>7
      <4>2. e \notin page
        BY <3>2, <3>3, <4>1
      <4>3. deps[e][i] # None
        BY <3>1, <3>3, <4>1 DEF MadeAll, Made
      <4>4. e \notin got
        BY <2>1, <4>2, <4>3
      <4>5. ~read.last /\ \A x \in got : x < e
        BY <1>1, <2>1, <3>4, <3>7, <4>4 DEF Waits
      <4>6. 1 \in 1 .. Len(events') /\ events'[1].input = i /\ events'[1].cursor = cursor /\ e > cursor
        BY <2>7, <2>8, <4>5
      <4>7. Waits(e, k, 1, events', "purge", runner'.read)
        BY <4>1, <4>6 DEF Waits
      <4>. QED BY <4>6, <4>7
    <3>. QED BY <3>6, <3>7
  <2>16. Sequenced'
    <3>1. \A n \in 1 .. Len(events') : events'[n].sequence <= epoch
      BY <2>8 DEF Sequenced
    <3>. QED BY <1>1, <3>1 DEF Sequenced
  <2>17. Reading'
    BY <1>2 DEF Reading
  <2>18. Cleaning'
    <3>1. ASSUME NEW e \in Entries, entries'[e] # None
          PROVE  entries[e] # None /\ entries'[e].sources = entries[e].sources
      <4>1. entries[e] # None
        BY <2>9, <2>10, <3>1
      <4>2. CASE e \in page
        BY <2>12, <4>1, <4>2 DEF RowWritten
      <4>3. CASE e \notin page
        BY <2>10, <4>1, <4>3
      <4>. QED BY <4>1, <4>2, <4>3
    <3>2. ASSUME NEW e \in Entries, NEW j \in Inputs, deps[e][j] = None
          PROVE  deps'[e][j] = None
      BY <2>1, <2>10, <2>11, <3>2
    <3>. QED BY <1>1, <3>1, <3>2, CleaningKept
  <2>. QED BY <1>3, <2>13, <2>14, <2>15, <2>16, <2>17, <2>18 DEF UpkeepInv
<1>. QED BY <1>4, <1>5

-----------------------------------------------------------------------------
(* The invariant says what is shown. *)

LEMMA DerivedShown ==
  ASSUME UpkeepInv, NEW e \in There \cap Derived
  PROVE  /\ Shown(e).life = "active" => SourcePresent(e) \/ entries[e].human
         /\ Shown(e).fresh = "current" => SourcePresent(e)
         /\ SourcePresent(e) =>
              LET good == {i \in Evidence(e) : Eligible(e, i, None)} IN
              /\ Shown(e).fresh = "current" =>
                   /\ entries[e].fresh = "current" /\ good = Evidence(e)
                   /\ \A i \in good : inputs[i].text = deps[e][i].text
              /\ Shown(e).life = "active" =>
                   /\ entries[e].life = "active"
                   /\ good # {} \/ Evidence(e) = {} \/ entries[e].human
<1>1. /\ e \in Entries /\ entries[e] \in EntryRows /\ entries[e].of = None
      /\ entries[e].human \in BOOLEAN
  <2>1. e \in Entries /\ entries[e] # None /\ e \in Derived
    BY DEF There
  <2>2. Made(e, entries[e], deps[e], used[e], removedSince[e], inputs, epoch)
    BY <2>1 DEF UpkeepInv, MadeAll
  <2>3. entries[e].of = None
    BY <2>1, <2>2 DEF Made
  <2>4. entries[e] \in EntryRows
    BY <2>1 DEF UpkeepInv, Shape
  <2>5. entries[e].human \in BOOLEAN
    BY <2>4 DEF EntryRows
  <2>. QED BY <2>1, <2>3, <2>4, <2>5
<1>2. CASE ~SourcePresent(e)
  <2>1. PICK shown : shown = [body |-> None, fresh |-> "stale", bound |-> FALSE,
             life |-> IF entries[e].human THEN entries[e].life ELSE "invalidated"]
    OBVIOUS
  <2>2. Shown(e) = shown
    BY <1>2, <2>1 DEF Shown
  <2>3. shown.fresh = "stale" /\ shown.life = IF entries[e].human THEN entries[e].life ELSE "invalidated"
    BY <2>1
  <2>. QED BY <1>2, <2>2, <2>3
<1>3. CASE SourcePresent(e)
  <2>1. PICK row, good : row = Unbound(entries[e]) /\ good = {i \in Evidence(e) : Eligible(e, i, None)}
    OBVIOUS
  <2>2. /\ row.of = None /\ row.life = entries[e].life /\ row.fresh = entries[e].fresh
        /\ row.human = entries[e].human
    BY <1>1, <2>1, UnboundIs
  <2>3. Classified(e) = row
    BY <1>1, <2>1 DEF Classified, Bound
  <2>4. PICK life, fresh :
          /\ fresh = IF good = Evidence(e) /\ \A i \in good : ~Differs(e, i, row)
                     THEN row.fresh ELSE "stale"
          /\ life = IF good = {} /\ Evidence(e) # {} /\ ~row.human /\ row.life = "active"
                    THEN "invalidated" ELSE row.life
    OBVIOUS
  <2>5. Shown(e) = [body |-> row.body, bound |-> row.of # None, fresh |-> fresh, life |-> life]
    BY <1>3, <2>1, <2>2, <2>3, <2>4 DEF Shown
  <2>6. Shown(e).fresh = fresh /\ Shown(e).life = life
    BY <2>5
  <2>7. \A i \in good : ~Differs(e, i, row) => inputs[i].text = deps[e][i].text
    BY <2>1, <2>2, NoneIsNoRow DEF Differs, Evidence
  <2>8. fresh = "current" =>
          /\ entries[e].fresh = "current" /\ good = Evidence(e)
          /\ \A i \in good : inputs[i].text = deps[e][i].text
    BY <2>2, <2>4, <2>7
  <2>9. life = "active" =>
          entries[e].life = "active" /\ (good # {} \/ Evidence(e) = {} \/ entries[e].human)
    BY <2>2, <2>4
  <2>. QED BY <1>3, <2>1, <2>6, <2>8, <2>9
<1>. QED BY <1>2, <1>3

LEMMA InvariantShows == UpkeepInv => EntriesAreSound
<1>. SUFFICES ASSUME UpkeepInv PROVE EntriesAreSound
  OBVIOUS
<1>. Shape /\ Sequenced /\ MadeAll /\ AgreesAll /\ Cleaning
  BY DEF UpkeepInv
<1>1. \A e \in There : e \in Entries /\ entries[e] \in EntryRows /\ entries[e] # None
                       /\ entries[e].sources \subseteq Inputs /\ entries[e].of \in Inputs \cup {None}
  BY DEF There, Shape, EntryRows
<1>2. \A e \in There : used[e] # None /\ entries[e].sources = DOMAIN used[e]
  BY <1>1 DEF MadeAll, Made
<1>3. \A i \in Inputs : inputs[i].removedAt \in Nat
  BY DEF Shape, InputRows
<1>4. ASSUME NEW e \in There \cap Derived, NEW i \in Inputs, deps[e][i] # None, Eligible(e, i, None)
      PROVE  Present(i) /\ i \in DOMAIN used[e] /\ i \notin removedSince[e]
             /\ deps[e][i].text = used[e][i]
  <2>1. deps[e][i].eligible \in Nat
    BY <1>1, <1>4 DEF Shape, Dependencies
  <2>2. /\ i \in DOMAIN used[e] /\ deps[e][i].text = used[e][i]
        /\ i \in removedSince[e] => inputs[i].removedAt > deps[e][i].eligible
    BY <1>1, <1>4 DEF MadeAll, Made
  <2>3. Present(i) /\ inputs[i].removedAt <= deps[e][i].eligible
    BY <1>4, NoneIsNoRow DEF Eligible
  <2>. QED BY <1>3, <2>1, <2>2, <2>3
<1>5. TypeOK
  <2>1. ASSUME NEW e \in Entries
        PROVE  /\ entries[e] # None =>
                    /\ entries[e].life \in {"active", "removed", "invalidated"}
                    /\ entries[e].body \in Writings \cup {"derived"}
                    /\ entries[e].of \in Inputs \cup {None} /\ entries[e].sources \subseteq Inputs
               /\ Evidence(e) \subseteq Inputs /\ removedSince[e] \subseteq Inputs
    BY DEF Shape, EntryRows, Evidence
  <2>2. \A n \in 1 .. Len(events) : events[n].input \in Inputs /\ events[n].sequence <= epoch
    BY ItemsAre DEF Sequenced
  <2>3. runner.at \in {"off", "purge", "read", "commit"}
    BY DEF Shape, Runners
  <2>. QED BY <2>1, <2>2, <2>3 DEF TypeOK
<1>6. ShownIsTrue
  <2>. SUFFICES ASSUME NEW e \in There \cap Derived, Shown(e).life = "active",
                       Shown(e).fresh = "current", NEW i \in DOMAIN used[e]
       PROVE  Present(i) /\ inputs[i].text = used[e][i] /\ i \notin removedSince[e]
    BY DEF ShownIsTrue
  <2>1. i \in entries[e].sources /\ i \in Inputs
    BY <1>1, <1>2
  <2>2. SourcePresent(e) /\ entries[e].fresh = "current"
        /\ {j \in Evidence(e) : Eligible(e, j, None)} = Evidence(e)
        /\ \A j \in Evidence(e) : inputs[j].text = deps[e][j].text
    BY DerivedShown
  <2>3. ~inputs[i].purged
    BY <2>1, <2>2 DEF SourcePresent
  <2>4. deps[e][i] # None
    BY <1>1, <2>1, <2>2, <2>3 DEF MadeAll, Made
  <2>5. i \in Evidence(e) /\ Eligible(e, i, None)
    BY <2>1, <2>2, <2>4 DEF Evidence
  <2>. QED BY <1>4, <2>1, <2>2, <2>4, <2>5
<1>7. RemovalIsRemembered
  <2>. SUFFICES ASSUME NEW e \in There \cap Derived, Shown(e).life = "active", ~entries[e].human
       PROVE  ~(DOMAIN used[e] \subseteq removedSince[e])
    BY DEF RemovalIsRemembered
  <2>1. SourcePresent(e) /\ entries[e].life = "active"
        /\ ({j \in Evidence(e) : Eligible(e, j, None)} # {} \/ Evidence(e) = {})
    BY DerivedShown
  <2>2. Evidence(e) # {}
    BY <1>1, <2>1 DEF MadeAll, Made, SourcePresent, Evidence
  <2>3. PICK i \in Evidence(e) : Eligible(e, i, None)
    BY <2>1, <2>2
  <2>. QED BY <1>4, <2>3 DEF Evidence
<1>8. MirrorsAgree
  <2>. SUFFICES ASSUME NEW e \in There, NEW i, i = entries[e].of, i # None,
                       entries[e].life = "active", ~inputs[i].purged,
                       \A n \in 1 .. Len(events) : events[n].input # i
       PROVE  Present(i) /\ entries[e].body = inputs[i].text
    BY DEF MirrorsAgree
  <2>1. \A n \in 1 .. Len(events) : ~Waits(e, i, n, events, runner.at, runner.read)
    BY DEF Waits
  <2>2. ~inputs[i].out /\ entries[e].body = inputs[i].text
    BY <1>1, <2>1 DEF AgreesAll, Agrees
  <2>. QED BY <2>2 DEF Present
<1>9. PurgedIsGone
  <2>1. ASSUME NEW i \in Inputs, inputs[i].purged, NEW e \in There, i \in DOMAIN used[e]
        PROVE  Shown(e).body = None /\ Shown(e).life # "active"
    <3>1. i \in entries[e].sources /\ ~entries[e].human
      BY <1>1, <1>2, <2>1 DEF MadeAll, Made
    <3>2. ~SourcePresent(e)
      BY <2>1, <3>1 DEF SourcePresent
    <3>3. PICK shown : shown = [body |-> None, fresh |-> "stale", bound |-> FALSE, life |-> "invalidated"]
      OBVIOUS
    <3>4. Shown(e) = shown
      BY <3>1, <3>2, <3>3 DEF Shown
    <3>. QED BY <3>3, <3>4
  <2>2. ASSUME NEW i \in Inputs, i \in cleaned
        PROVE  \A e \in Entries : deps[e][i] = None /\ (e \in There => i \notin entries[e].sources)
    BY <2>2 DEF Cleaning, Cleared, Freed, There
  <2>. QED BY <2>1, <2>2 DEF PurgedIsGone
<1>. QED BY <1>5, <1>6, <1>7, <1>8, <1>9 DEF EntriesAreSound

LEMMA StepKeepsUpkeep == UpkeepInv /\ [Next]_vars => UpkeepInv'
<1>. SUFFICES ASSUME UpkeepInv, [Next]_vars PROVE UpkeepInv'
  OBVIOUS
<1>1. CASE Use
  <2>1. ASSUME NEW i \in Inputs, Purge(i) PROVE UpkeepInv'
    BY <2>1, PurgeKeeps
  <2>2. ASSUME NEW i \in Inputs, NEW x \in Texts, NEW out \in BOOLEAN, NEW named \in BOOLEAN,
         EditInput(i, x, out, named)
        PROVE  UpkeepInv'
    BY <2>2, EditInputKeeps
  <2>3. ASSUME NEW e \in Entries, EditEntry(e) \/ RemoveEntry(e) \/ RestoreEntry(e)
        PROVE  UpkeepInv'
    BY <2>3, EditEntryKeeps, RemoveEntryKeeps, RestoreEntryKeeps
  <2>4. ASSUME NEW e \in Entries, NEW s \in SUBSET Inputs, ReadEvidence(e, s)
        PROVE  UpkeepInv'
    BY <2>4, ReadEvidenceKeeps
  <2>. QED BY <1>1, <2>1, <2>2, <2>3, <2>4, CreateEntryKeeps, DropDraftKeeps DEF Use
<1>2. CASE Run \/ RunnerFails \/ Retry \/ Die
  BY <1>2, CleanKeeps, ReadBatchKeeps, CommitKeeps, RunnerStepsKeep DEF Run
<1>3. CASE UNCHANGED vars
  <2>1. /\ inputs' = inputs /\ epoch' = epoch /\ entries' = entries /\ deps' = deps
        /\ events' = events /\ jobs' = jobs /\ runner' = runner /\ draft' = draft /\ used' = used
        /\ removedSince' = removedSince /\ cleaned' = cleaned
    BY <1>3 DEF vars, rows, worker, history
  <2>2. runner' \in Runners /\ Drafted'
    BY <2>1 DEF UpkeepInv, Shape, Drafted
  <2>. QED BY <2>1, <2>2, QuietStep
<1>. QED BY <1>1, <1>2, <1>3 DEF Next

\* What the library shows of its thoughts is sound: nothing is shown as current
\* that an edit or a removal of its inputs has overtaken, what was removed or
\* purged is not shown, and a mirror has its input's text or an invalidation
\* will come to it.
THEOREM EntriesSafe == Spec => []EntriesAreSound
<1>. QED BY InitIsSound, StepKeepsUpkeep, InvariantShows, PTL DEF Spec

-----------------------------------------------------------------------------
(* The selection of a copy. *)

Source == lib["source"]
Target == lib["target"]

(* The source was told that a row is on its way; the copy is in use. *)
Moving == Source.marker # NoRecord /\ Source.marker.phase \in {"dispatched", "selected"}
Moved == /\ Source.marker # NoRecord /\ Source.marker.phase = "selected"
         /\ local.db = "target" /\ Target.marker = NoRecord

SelPhases == {"none", "cut", "paired", "read", "prepared", "admitted", "marked", "both", "ready",
              "reserved", "dispatched", "checked", "sent", "seen", "selected", "cleaned"}
SavePhases == {"idle", "recover", "reserved", "prepared", "sent"}
Choosing == {"reserved", "dispatched", "checked", "sent", "seen", "selected"}
Selections == [pc : SelPhases, op : Nat,
               cut : LibraryRows \union {NoRecord}, source : LibraryRows \union {NoRecord},
               target : LibraryRows \union {NoRecord},
               before : ControlRows \union {NoRecord}, after : ControlRows \union {NoRecord}]
Saves == [pc : SavePhases, lease : Leases \union {NoRecord}]

SelectionShape ==
  /\ local \in ControlRows /\ inFlight \subseteq ControlRows
  /\ lib \in [Libraries -> LibraryRows]
  /\ open \in [Workers -> Libraries \union {"off", "refused"}]
  /\ sel \in [Workers -> Selections] /\ save \in [Workers -> Saves]
  /\ libraryEdits \in Nat /\ ops \in Nat /\ sent \in Nat /\ told \in BOOLEAN

(* What a worker has in hand at each point of its program. *)
InHand(w) ==
  /\ open[w] \notin Libraries => sel[w].pc = "none" /\ save[w].pc = "idle"
  /\ sel[w].pc # "none" => sel[w].before \in ControlRows /\ sel[w].before.db = "source"
  /\ sel[w].pc \notin {"none", "cut", "paired"} =>
        sel[w].source \in LibraryRows /\ sel[w].target \in LibraryRows
  /\ sel[w].pc \in {"cut", "paired", "read"} => sel[w].cut \in LibraryRows
  /\ sel[w].pc \in {"ready", "cleaned"} \union Choosing =>
        sel[w].after \in ControlRows /\ sel[w].after.db = "target"
  /\ save[w].pc \in {"reserved", "prepared", "sent"} => save[w].lease \in Leases

(* Of the two libraries one takes ordinary writes. *)
OneLibrary ==
  /\ Source.marker # NoRecord => Source.lease = NoRecord /\ Source.has \subseteq Target.has
  /\ Moving => Moved \/ (Target.marker # NoRecord /\ Target.marker.phase = "dispatched")
  /\ Target.marker # NoRecord /\ Target.marker.phase = "dispatched" => Target.lease # NoRecord
  /\ Target.lease # NoRecord =>
        Moved \/ (Target.marker # NoRecord /\ Target.marker.phase = "dispatched")
  /\ local.db = "target" => Moving
  /\ Source.marker # NoRecord /\ Source.marker.phase = "selected" => local.db = "target"
  /\ \A w \in Workers : open[w] = "target" => Moved
  /\ \A w \in Workers : sel[w].pc = "cleaned" => Moved
  /\ told => Moved

(* A lease and the row it was taken for. *)
LeaseHolds ==
  /\ \A l \in Libraries : lib[l].lease # NoRecord =>
        /\ lib[l].lease.rev <= lib[l].rev
        /\ lib[l].lease.after \in {NoRecord, [db |-> l, rev |-> lib[l].lease.rev]}
        /\ lib[l].lease.after = NoRecord /\ local.db = l => local.rev < lib[l].lease.rev
  /\ local.rev <= lib[local.db].rev
  /\ \A row \in inFlight :
        /\ lib[row.db].lease # NoRecord /\ lib[row.db].lease.after = row
        /\ row # local
        /\ row.db = "target" => Moving

SaveHolds(w) ==
  /\ save[w].pc \in {"reserved", "prepared", "sent"} => save[w].lease.rev <= lib[open[w]].rev
  /\ save[w].pc = "reserved" => save[w].lease.after = NoRecord
  /\ save[w].pc = "prepared" =>
        /\ lib[open[w]].lease = save[w].lease
        /\ save[w].lease.after = [db |-> open[w], rev |-> save[w].lease.rev]
        /\ save[w].lease.after \notin inFlight /\ save[w].lease.after # local
Saving(w) == save[w].pc \in {"reserved", "prepared", "sent"}
OneSaver ==
  \A v, w \in Workers : v # w /\ Saving(v) /\ Saving(w) /\ open[v] = open[w] =>
      save[v].lease.rev # save[w].lease.rev

(* What was read is what is there, or the library has moved on. *)
SourceRead(w) ==
  /\ sel[w].pc \in {"cut", "paired"} =>
        sel[w].cut.rev <= Source.rev /\ (Source.lease # NoRecord => sel[w].cut.rev < Source.rev)
  /\ sel[w].pc = "read" =>
        /\ sel[w].cut.rev <= sel[w].source.rev /\ sel[w].source.rev <= Source.rev
        /\ sel[w].source.lease # NoRecord => sel[w].cut.rev < sel[w].source.rev
        /\ sel[w].source.has \subseteq Source.has
        /\ sel[w].source.marker # NoRecord /\ sel[w].source.marker.phase # "prepared" => Moving
  /\ sel[w].pc \in {"prepared", "admitted"} =>
        /\ sel[w].source.lease = NoRecord /\ sel[w].source.has \subseteq Target.has
        /\ sel[w].source.marker # NoRecord => sel[w].source.marker.phase = "prepared"
TargetRead(w) ==
  /\ sel[w].pc \in {"read", "prepared", "admitted", "marked"} =>
        sel[w].target.gate <= Target.gate /\ (sel[w].target.gate = Target.gate => sel[w].target = Target)
  /\ sel[w].pc = "read" =>
        (sel[w].target.lease # NoRecord => Target.lease # NoRecord \/ Moved)
  /\ sel[w].pc \in {"prepared", "admitted", "marked"} =>
        sel[w].target.lease = NoRecord /\ (Moved => sel[w].target.gate < Target.gate)

(* The worker whose row it is. *)
Chosen(w) ==
  /\ sel[w].pc \in Choosing =>
        /\ Target.marker # NoRecord /\ Target.marker.phase = "dispatched"
        /\ Target.lease # NoRecord /\ Target.lease.after = sel[w].after
  /\ sel[w].pc \in {"dispatched", "checked", "sent", "seen"} => Moving
  /\ sel[w].pc = "selected" => Source.marker # NoRecord /\ Source.marker.phase = "selected"
  /\ sel[w].pc \in {"seen", "selected"} => local = sel[w].after /\ sel[w].after \notin inFlight
OneChosen ==
  \A v, w \in Workers : sel[v].pc \in Choosing /\ sel[w].pc \in Choosing => v = w
SentOnce ==
  /\ sent <= 1
  /\ sent = 1 => Moving /\ \A w \in Workers : sel[w].pc \notin {"reserved", "dispatched", "checked"}
  /\ local.db = "target" => sent = 1
  /\ \A row \in inFlight : row.db = "target" => sent = 1

PerWorker == \A w \in Workers :
     InHand(w) /\ SaveHolds(w) /\ SourceRead(w) /\ TargetRead(w) /\ Chosen(w)
SelectionInv ==
  /\ SelectionShape /\ OneLibrary /\ LeaseHolds /\ PerWorker
  /\ OneSaver /\ OneChosen /\ SentOnce


LEMMA SelectionInvInit == SelectionInit => SelectionInv
<1>. SUFFICES ASSUME SelectionInit PROVE SelectionInv
  OBVIOUS
<1>. USE SelectionAssumption DEF SelectionInit, NoSelection, NoSave
<1>1. SelectionShape
  BY DEF SelectionShape, ControlRows, LibraryRows, Libraries, Selections, SelPhases, Saves, SavePhases
<1>2. OneLibrary /\ LeaseHolds
  BY DEF OneLibrary, LeaseHolds, Source, Target, Moving, Moved, Libraries
<1>3. PerWorker /\ OneSaver
  BY DEF PerWorker, OneSaver, Saving, InHand, SaveHolds, SourceRead, TargetRead, Chosen, Choosing, Libraries
<1>4. OneChosen /\ SentOnce
  BY DEF OneChosen, SentOnce, Choosing
<1>. QED
  BY <1>1, <1>2, <1>3, <1>4 DEF SelectionInv

-----------------------------------------------------------------------------
(* What a write leaves, field by field. *)
LEMMA Written ==
  ASSUME lib \in [Libraries -> LibraryRows], NEW l \in Libraries, NEW r \in LibraryRows, Write(l, r)
  PROVE  /\ lib' \in [Libraries -> LibraryRows]
         /\ lib'[l].has = r.has /\ lib'[l].rev = r.rev
         /\ lib'[l].lease = r.lease /\ lib'[l].marker = r.marker
         /\ l = "target" => lib'[l].gate = r.gate + 1
         /\ \A k \in Libraries \ {l} : lib'[k] = lib[k]
<1>. DEFINE q == [r EXCEPT !.gate = IF l = "target" THEN @ + 1 ELSE @]
<1>1. lib' = [lib EXCEPT ![l] = q]
  BY DEF Write
<1>2. q \in LibraryRows /\ q.has = r.has /\ q.rev = r.rev /\ q.lease = r.lease /\ q.marker = r.marker
  BY DEF LibraryRows
<1>3. l = "target" => q.gate = r.gate + 1
  BY DEF LibraryRows
<1>. HIDE DEF q
<1>. QED
  BY <1>1, <1>2, <1>3

(* The ways a library's row is changed. *)
LEMMA RowKept ==
  ASSUME NEW r \in LibraryRows
  PROVE  /\ r.has \in SUBSET (0..MaxLibraryEdits) /\ r.rev \in Nat /\ r.gate \in Nat
         /\ r.lease \in Leases \union {NoRecord} /\ r.marker \in Receipts \union {NoRecord}
         /\ \A h \in SUBSET (0..MaxLibraryEdits) :
               LET q == [r EXCEPT !.has = h]
               IN  /\ q \in LibraryRows /\ q.has = h /\ q.rev = r.rev /\ q.gate = r.gate
                   /\ q.lease = r.lease /\ q.marker = r.marker
         /\ \A e \in Leases \union {NoRecord} :
               LET q == [r EXCEPT !.lease = e]
               IN  /\ q \in LibraryRows /\ q.has = r.has /\ q.rev = r.rev /\ q.gate = r.gate
                   /\ q.lease = e /\ q.marker = r.marker
         /\ \A m \in Receipts \union {NoRecord} :
               LET q == [r EXCEPT !.marker = m]
               IN  /\ q \in LibraryRows /\ q.has = r.has /\ q.rev = r.rev /\ q.gate = r.gate
                   /\ q.lease = r.lease /\ q.marker = m
  BY DEF LibraryRows

LEMMA SelectionKept ==
  ASSUME NEW r \in Selections
  PROVE  /\ \A p \in SelPhases :
               LET q == [r EXCEPT !.pc = p]
               IN  /\ q \in Selections /\ q.pc = p /\ q.op = r.op /\ q.cut = r.cut /\ q.source = r.source
                   /\ q.target = r.target /\ q.before = r.before /\ q.after = r.after
  BY DEF Selections

-----------------------------------------------------------------------------
(* Libraries only move on: no edit goes, no revision comes back, and a     *)
(* write of the copy shows in its count.                                   *)
Onward ==
  /\ Source.rev <= Source'.rev
  /\ Source'.lease # NoRecord => Source.lease # NoRecord \/ Source.rev < Source'.rev
  /\ Source.has \subseteq Source'.has /\ Target.has \subseteq Target'.has
  /\ Target' = Target \/ Target.gate < Target'.gate
  /\ Target.lease # NoRecord \/ Moved => Target'.lease # NoRecord \/ Moved'
  /\ Moving => Moving'
  /\ Moved' => Moved \/ Target.gate < Target'.gate

LEMMA ReadsKept ==
  ASSUME SelectionShape, SelectionShape', NEW w \in Workers, InHand(w), sel'[w] = sel[w], Onward,
         SourceRead(w), TargetRead(w)
  PROVE  SourceRead(w)' /\ TargetRead(w)'
<1>1. /\ Source \in LibraryRows /\ Target \in LibraryRows /\ Source' \in LibraryRows /\ Target' \in LibraryRows
  BY DEF SelectionShape, Source, Target, Libraries
<1>2. /\ Source.rev \in Nat /\ Source'.rev \in Nat /\ Target.gate \in Nat /\ Target'.gate \in Nat
  BY <1>1 DEF LibraryRows
<1>3. sel[w].pc \in {"cut", "paired", "read"} => sel[w].cut.rev \in Nat
  BY DEF InHand, LibraryRows
<1>4. sel[w].pc \in {"read", "prepared", "admitted", "marked"} => sel[w].source.rev \in Nat /\ sel[w].target.gate \in Nat
  BY DEF InHand, LibraryRows
<1>5. SourceRead(w)'
  <2>1. CASE sel[w].pc \in {"cut", "paired"}
    BY <1>2, <1>3, <2>1 DEF SourceRead, Onward
  <2>2. CASE sel[w].pc = "read"
    BY <1>2, <1>3, <1>4, <2>2 DEF SourceRead, Onward
  <2>3. CASE sel[w].pc \notin {"cut", "paired", "read"}
    BY <2>3 DEF SourceRead, Onward
  <2>. QED
    BY <2>1, <2>2, <2>3
<1>6. TargetRead(w)'
  <2>1. CASE sel[w].pc \in {"read", "prepared", "admitted", "marked"}
    BY <1>2, <1>4, <2>1 DEF TargetRead, Onward
  <2>2. CASE sel[w].pc \notin {"read", "prepared", "admitted", "marked"}
    BY <2>2 DEF TargetRead
  <2>. QED
    BY <2>1, <2>2
<1>. QED
  BY <1>5, <1>6

-----------------------------------------------------------------------------
(* A step of the selection that only moves its worker on. *)
Alone(w) ==
  /\ UNCHANGED <<local, lib, inFlight, open, save, libraryEdits, sent>>
  /\ ops' \in Nat /\ told' \in BOOLEAN /\ (told' => told \/ Moved)

LEMMA OtherworkersStay ==
  ASSUME NEW w \in Workers, NEW v \in Workers, sel'[v] = sel[v], Alone(w),
         InHand(v), SaveHolds(v), SourceRead(v), TargetRead(v), Chosen(v)
  PROVE  (InHand(v) /\ SaveHolds(v) /\ SourceRead(v) /\ TargetRead(v) /\ Chosen(v))'
  BY DEF Alone, InHand, SaveHolds, SourceRead, TargetRead, Chosen, Source, Target, Moving, Moved

LEMMA AloneStep ==
  ASSUME SelectionInv, NEW w \in Workers, Alone(w),
         NEW r \in Selections, sel' = [sel EXCEPT ![w] = r],
         InHand(w)', SourceRead(w)', TargetRead(w)', Chosen(w)',
         r.pc = "cleaned" => Moved,
         r.pc \in Choosing => sel[w].pc \in Choosing,
         r.pc \in {"reserved", "dispatched", "checked"} => sel[w].pc \in {"reserved", "dispatched", "checked"}
  PROVE  SelectionInv'
<1>. USE DEF Alone
<1>1. sel'[w] = r /\ \A v \in Workers \ {w} : sel'[v] = sel[v]
  BY DEF SelectionInv, SelectionShape
<1>2. SelectionShape'
  BY DEF SelectionInv, SelectionShape
<1>3. /\ Source' = Source /\ Target' = Target /\ Moving' = Moving /\ Moved' = Moved
  BY DEF Source, Target, Moving, Moved
<1>4. OneLibrary'
  BY <1>1, <1>3 DEF SelectionInv, OneLibrary
<1>5. LeaseHolds' /\ OneSaver'
  BY <1>3 DEF SelectionInv, LeaseHolds, OneSaver, Saving
<1>6. PerWorker'
  <2>. SUFFICES ASSUME NEW v \in Workers
                PROVE  (InHand(v) /\ SaveHolds(v) /\ SourceRead(v) /\ TargetRead(v) /\ Chosen(v))'
    BY DEF PerWorker
  <2>1. CASE v = w
    BY <2>1 DEF SelectionInv, PerWorker, SaveHolds
  <2>2. CASE v # w
    BY <1>1, <2>2, OtherworkersStay DEF SelectionInv, PerWorker
  <2>. QED
    BY <2>1, <2>2
<1>7. OneChosen'
  BY <1>1 DEF SelectionInv, OneChosen
<1>8. SentOnce'
  BY <1>1, <1>3 DEF SelectionInv, SentOnce
<1>. QED
  BY <1>2, <1>4, <1>5, <1>6, <1>7, <1>8 DEF SelectionInv

LEMMA CutSourceInv ==
  ASSUME SelectionInv, NEW w \in Workers, CutSource(w)
  PROVE  SelectionInv'
<1>. DEFINE r == [NoSelection EXCEPT !.pc = "cut", !.op = ops + 1, !.cut = lib["source"], !.before = local]
<1>1. /\ sel' = [sel EXCEPT ![w] = r] /\ Alone(w) /\ Source.lease = NoRecord /\ open[w] = "source"
  BY DEF CutSource, Go, Alone, LeaseFree, Source, outcome, SelectionInv, SelectionShape
<1>0. Source \in LibraryRows /\ local \in ControlRows /\ ops + 1 \in Nat
  BY DEF SelectionInv, SelectionShape, Source, Libraries
<1>2. r \in Selections /\ r.pc = "cut" /\ r.cut = Source /\ r.before = local
  <2>1. NoSelection \in Selections
    BY DEF Selections, SelPhases, NoSelection
  <2>. QED
    BY <1>0, <2>1 DEF Selections, SelPhases, Source
<1>3. Source.marker = NoRecord /\ local \in ControlRows
  BY DEF CutSource, Source, SelectionInv, SelectionShape
<1>. HIDE DEF r
<1>4. local.db = "source"
  BY <1>3 DEF SelectionInv, OneLibrary, Moving, ControlRows, Libraries
<1>5. sel'[w] = r /\ open' = open /\ save' = save /\ Source' = Source
  BY <1>1 DEF SelectionInv, SelectionShape, Alone, Source
<1>6. InHand(w)' /\ SourceRead(w)'
  BY <1>0, <1>1, <1>2, <1>3, <1>4, <1>5 DEF InHand, SourceRead, Libraries, Choosing, LibraryRows, SelectionInv, PerWorker
<1>7. TargetRead(w)' /\ Chosen(w)'
  BY <1>2, <1>5 DEF TargetRead, Chosen, Choosing
<1>. QED
  BY <1>1, <1>2, <1>6, <1>7, AloneStep DEF Choosing

(* A worker that goes on to the next point with what it has. *)
Carried(w, p) ==
  /\ sel'[w].pc = p /\ sel'[w].cut = sel[w].cut /\ sel'[w].source = sel[w].source
  /\ sel'[w].target = sel[w].target /\ sel'[w].before = sel[w].before /\ sel'[w].after = sel[w].after
  /\ Source' = Source /\ Target' = Target /\ Moving' = Moving /\ Moved' = Moved
  /\ local' = local /\ inFlight' = inFlight /\ open'[w] = open[w] /\ save'[w] = save[w]

LEMMA SteppedOn ==
  ASSUME SelectionInv, NEW w \in Workers, NEW p \in SelPhases, Step(w, p), Alone(w)
  PROVE  /\ Carried(w, p)
         /\ [sel[w] EXCEPT !.pc = p] \in Selections
         /\ sel' = [sel EXCEPT ![w] = [sel[w] EXCEPT !.pc = p]]
         /\ [sel[w] EXCEPT !.pc = p].pc = p
         /\ InHand(w) /\ SaveHolds(w) /\ SourceRead(w) /\ TargetRead(w) /\ Chosen(w)
<1>1. sel[w] \in Selections /\ SelectionShape
  BY DEF SelectionInv, SelectionShape
<1>2. sel' = [sel EXCEPT ![w] = [sel[w] EXCEPT !.pc = p]] /\ sel'[w] = [sel[w] EXCEPT !.pc = p]
  BY DEF Step, Go, SelectionInv, SelectionShape
<1>3. Source' = Source /\ Target' = Target /\ Moving' = Moving /\ Moved' = Moved
  BY DEF Alone, Source, Target, Moving, Moved
<1>4. InHand(w) /\ SaveHolds(w) /\ SourceRead(w) /\ TargetRead(w) /\ Chosen(w)
  BY DEF SelectionInv, PerWorker
<1>. DEFINE q == [sel[w] EXCEPT !.pc = p]
<1>5. /\ q \in Selections /\ q.pc = p /\ q.cut = sel[w].cut /\ q.source = sel[w].source
      /\ q.target = sel[w].target /\ q.before = sel[w].before /\ q.after = sel[w].after
  BY <1>1, SelectionKept
<1>6. local' = local /\ inFlight' = inFlight /\ open'[w] = open[w] /\ save'[w] = save[w]
  BY DEF Alone
<1>. QED
  BY <1>1, <1>2, <1>3, <1>4, <1>5, <1>6 DEF Carried

LEMMA SteppedInv ==
  ASSUME SelectionInv, NEW w \in Workers, NEW p \in SelPhases \ {"cleaned"}, Step(w, p), Alone(w),
         InHand(w)', SourceRead(w)', TargetRead(w)', Chosen(w)',
         p \in Choosing => sel[w].pc \in Choosing,
         p \in {"reserved", "dispatched", "checked"} => sel[w].pc \in {"reserved", "dispatched", "checked"}
  PROVE  SelectionInv'
<1>. DEFINE q == [sel[w] EXCEPT !.pc = p]
<1>1. q \in Selections /\ sel' = [sel EXCEPT ![w] = q] /\ q.pc = p
  BY SteppedOn
<1>. HIDE DEF q
<1>. QED
  BY <1>1, AloneStep

LEMMA NobodySelects ==
  ASSUME SelectionInv, NEW w \in Workers, Alone(w), sel' = [sel EXCEPT ![w] = NoSelection]
  PROVE  SelectionInv'
<1>1. NoSelection \in Selections /\ NoSelection.pc = "none"
  BY DEF NoSelection, Selections, SelPhases
<1>2. sel'[w].pc = "none" /\ open' = open /\ save' = save
  BY <1>1 DEF SelectionInv, SelectionShape, Alone
<1>3. InHand(w)
  BY DEF SelectionInv, PerWorker
<1>4. InHand(w)' /\ SourceRead(w)' /\ TargetRead(w)' /\ Chosen(w)'
  BY <1>2, <1>3 DEF InHand, SourceRead, TargetRead, Chosen, Choosing
<1>. QED
  BY <1>1, <1>4, AloneStep DEF Choosing

(* Steps that only ask whether the cut still stands. *)
LEMMA AskingInv ==
  ASSUME SelectionInv, NEW w \in Workers, CutTarget(w) \/ Admit(w) \/ RecheckRow(w)
  PROVE  SelectionInv'
<1>1. CASE CutTarget(w)
  <2>1. Step(w, "paired") /\ Alone(w) /\ sel[w].pc = "cut" /\ open[w] \in Libraries
    BY <1>1 DEF CutTarget, At, Alone, outcome, counters, SelectionInv, SelectionShape
  <2>2. /\ Carried(w, "paired") /\ InHand(w) /\ SourceRead(w) /\ TargetRead(w) /\ Chosen(w)
    BY <2>1, SteppedOn DEF SelPhases
  <2>3. InHand(w)' /\ SourceRead(w)' /\ TargetRead(w)' /\ Chosen(w)'
    BY <2>1, <2>2 DEF Carried, InHand, SourceRead, TargetRead, Chosen, Choosing
  <2>. QED
    BY <2>1, <2>3, SteppedInv DEF Choosing, SelPhases
<1>2. CASE Admit(w)
  <2>1. Step(w, "admitted") /\ Alone(w) /\ sel[w].pc = "prepared" /\ open[w] \in Libraries
    BY <1>2 DEF Admit, At, Alone, outcome, counters, SelectionInv, SelectionShape
  <2>2. /\ Carried(w, "admitted") /\ InHand(w) /\ SourceRead(w) /\ TargetRead(w) /\ Chosen(w)
    BY <2>1, SteppedOn DEF SelPhases
  <2>3. InHand(w)' /\ SourceRead(w)' /\ TargetRead(w)' /\ Chosen(w)'
    BY <2>1, <2>2 DEF Carried, InHand, SourceRead, TargetRead, Chosen, Choosing
  <2>. QED
    BY <2>1, <2>3, SteppedInv DEF Choosing, SelPhases
<1>3. CASE RecheckRow(w)
  <2>1. Step(w, "checked") /\ Alone(w) /\ sel[w].pc = "dispatched" /\ open[w] \in Libraries
    BY <1>3 DEF RecheckRow, At, Alone, outcome, counters, SelectionInv, SelectionShape
  <2>2. /\ Carried(w, "checked") /\ InHand(w) /\ SourceRead(w) /\ TargetRead(w) /\ Chosen(w)
    BY <2>1, SteppedOn DEF SelPhases
  <2>3. InHand(w)' /\ SourceRead(w)' /\ TargetRead(w)' /\ Chosen(w)'
    BY <2>1, <2>2 DEF Carried, InHand, SourceRead, TargetRead, Chosen, Choosing
  <2>. QED
    BY <2>1, <2>3, SteppedInv DEF Choosing, SelPhases
<1>. QED
  BY <1>1, <1>2, <1>3

LEMMA ReadRowsInv ==
  ASSUME SelectionInv, NEW w \in Workers, ReadRows(w)
  PROVE  SelectionInv'
<1>. DEFINE r == [sel[w] EXCEPT !.pc = "read", !.source = lib["source"], !.target = lib["target"]]
<1>1. /\ sel' = [sel EXCEPT ![w] = r] /\ Alone(w) /\ sel[w].pc = "paired" /\ open[w] \in Libraries
      /\ sel[w] \in Selections /\ InHand(w) /\ SourceRead(w)
  BY DEF ReadRows, Go, At, Alone, outcome, counters, SelectionInv, SelectionShape, PerWorker
<1>2. Source \in LibraryRows /\ Target \in LibraryRows
  BY DEF SelectionInv, SelectionShape, Source, Target, Libraries
<1>3. /\ r \in Selections /\ r.pc = "read" /\ r.source = Source /\ r.target = Target
      /\ r.cut = sel[w].cut /\ r.before = sel[w].before
  BY <1>1, <1>2 DEF Selections, SelPhases, Source, Target
<1>. HIDE DEF r
<1>4. /\ sel'[w] = r /\ open' = open /\ save' = save /\ Source' = Source /\ Target' = Target
      /\ Moving' = Moving /\ Moved' = Moved
  BY <1>1 DEF SelectionInv, SelectionShape, Alone, Source, Target, Moving, Moved
<1>5. Source.marker # NoRecord => Source.marker.phase \in ReceiptPhases
  BY <1>2 DEF LibraryRows, Receipts
<1>6. InHand(w)' /\ Chosen(w)'
  BY <1>1, <1>2, <1>3, <1>4 DEF InHand, Chosen, Choosing
<1>7. SourceRead(w)'
  BY <1>1, <1>2, <1>3, <1>4, <1>5 DEF SourceRead, InHand, LibraryRows, Moving, ReceiptPhases
<1>8. TargetRead(w)'
  BY <1>2, <1>3, <1>4 DEF TargetRead, LibraryRows
<1>. QED
  BY <1>1, <1>3, <1>6, <1>7, <1>8, AloneStep DEF Choosing

LEMMA PreparedInv ==
  ASSUME SelectionInv, NEW w \in Workers, Prepared(w)
  PROVE  SelectionInv'
<1>1. Step(w, "prepared") /\ Alone(w) /\ sel[w].pc = "read" /\ open[w] \in Libraries
  BY DEF Prepared, At, Alone, outcome, counters, SelectionInv, SelectionShape
<1>2. /\ local = sel[w].before /\ Source.lease = NoRecord /\ Source.rev = sel[w].cut.rev
      /\ Source.has = sel[w].cut.has /\ Target.lease = NoRecord /\ Target.has = sel[w].cut.has
  BY DEF Prepared, CutHolds, LeaseFree, Source, Target
<1>3. InHand(w) /\ SourceRead(w) /\ TargetRead(w) /\ OneLibrary
  BY DEF SelectionInv, PerWorker
<1>4. local.db = "source"
  BY <1>1, <1>2, <1>3 DEF InHand
<1>5. ~ Moved /\ ~ Moving
  BY <1>2, <1>3, <1>4 DEF OneLibrary, Moved
<1>6. /\ sel[w].source.lease = NoRecord /\ sel[w].source.has \subseteq Target.has
      /\ sel[w].source.marker # NoRecord => sel[w].source.marker.phase = "prepared"
  <2>1. sel[w].source.rev \in Nat /\ sel[w].cut.rev \in Nat
    BY <1>1, <1>3 DEF InHand, LibraryRows
  <2>. QED
    BY <2>1, <1>1, <1>2, <1>3, <1>5 DEF SourceRead
<1>7. sel[w].target.lease = NoRecord
  BY <1>1, <1>2, <1>3, <1>5 DEF TargetRead
<1>8. Carried(w, "prepared") /\ Chosen(w)
  BY <1>1, SteppedOn DEF SelPhases
<1>9. InHand(w)' /\ SourceRead(w)' /\ Chosen(w)'
  BY <1>1, <1>3, <1>6, <1>8 DEF Carried, InHand, SourceRead, Chosen, Choosing
<1>10. TargetRead(w)'
  BY <1>1, <1>3, <1>5, <1>7, <1>8 DEF Carried, TargetRead
<1>. QED
  BY <1>1, <1>9, <1>10, SteppedInv DEF Choosing, SelPhases

LEMMA ReadyInv ==
  ASSUME SelectionInv, NEW w \in Workers, Ready(w)
  PROVE  SelectionInv'
<1>. DEFINE row == [db |-> "target", rev |-> lib["target"].rev + 1]
            r == [sel[w] EXCEPT !.pc = "ready", !.after = row]
<1>1. /\ sel' = [sel EXCEPT ![w] = r] /\ Alone(w) /\ sel[w].pc = "both" /\ open[w] \in Libraries
      /\ sel[w] \in Selections /\ InHand(w)
  BY DEF Ready, Go, At, Alone, outcome, counters, SelectionInv, SelectionShape, PerWorker
<1>2. lib["target"].rev \in Nat
  BY DEF SelectionInv, SelectionShape, LibraryRows, Libraries
<1>3. row \in ControlRows /\ row.db = "target"
  BY <1>2 DEF ControlRows, Libraries
<1>. HIDE DEF row
<1>4. /\ r \in Selections /\ r.pc = "ready" /\ r.after = row
      /\ r.before = sel[w].before /\ r.source = sel[w].source /\ r.target = sel[w].target
  BY <1>1, <1>3 DEF Selections, SelPhases
<1>. HIDE DEF r
<1>5. sel'[w] = r /\ open' = open /\ save' = save
  BY <1>1 DEF SelectionInv, SelectionShape, Alone
<1>6. InHand(w)' /\ SourceRead(w)' /\ TargetRead(w)' /\ Chosen(w)'
  BY <1>1, <1>3, <1>4, <1>5 DEF InHand, SourceRead, TargetRead, Chosen, Choosing
<1>. QED
  BY <1>1, <1>4, <1>6, AloneStep DEF Choosing

LEMMA ObserveInv ==
  ASSUME SelectionInv, NEW w \in Workers, Observe(w)
  PROVE  SelectionInv'
<1>1. Alone(w) /\ sel[w].pc = "sent" /\ open[w] \in Libraries /\ sel[w].after \notin inFlight
  BY DEF Observe, At, Alone, outcome, counters, SelectionInv, SelectionShape
<1>2. CASE local = sel[w].after
  <2>1. Step(w, "seen")
    BY <1>2 DEF Observe
  <2>2. Carried(w, "seen") /\ InHand(w) /\ SourceRead(w) /\ TargetRead(w) /\ Chosen(w)
    BY <1>1, <2>1, SteppedOn DEF SelPhases
  <2>3. InHand(w)' /\ SourceRead(w)' /\ TargetRead(w)' /\ Chosen(w)'
    BY <1>1, <1>2, <2>2 DEF Carried, InHand, SourceRead, TargetRead, Chosen, Choosing
  <2>. QED
    BY <1>1, <2>1, <2>3, SteppedInv DEF Choosing, SelPhases
<1>3. CASE local # sel[w].after
  BY <1>1, <1>3, NobodySelects DEF Observe, Go
<1>. QED
  BY <1>2, <1>3

LEMMA LeavingInv ==
  ASSUME SelectionInv, NEW w \in Workers, GiveUp(w) \/ FinishSelection(w) \/ CancelReview(w)
  PROVE  SelectionInv'
<1>1. CASE GiveUp(w)
  <2>1. Alone(w) /\ sel' = [sel EXCEPT ![w] = NoSelection]
    BY <1>1 DEF GiveUp, Go, Alone, outcome, counters, SelectionInv, SelectionShape
  <2>. QED
    BY <2>1, NobodySelects
<1>2. CASE FinishSelection(w)
  <2>1. Moved
    BY <1>2 DEF FinishSelection, At, SelectionInv, OneLibrary
  <2>2. Alone(w) /\ sel' = [sel EXCEPT ![w] = NoSelection]
    BY <1>2, <2>1 DEF FinishSelection, Go, Alone, outcome, counters, SelectionInv, SelectionShape
  <2>. QED
    BY <2>2, NobodySelects
<1>3. CASE CancelReview(w) /\ SourceReceipt = NoRecord
  <2>1. Alone(w) /\ sel' = [sel EXCEPT ![w] = NoSelection]
    BY <1>3 DEF CancelReview, Alone, outcome, counters, SelectionInv, SelectionShape
  <2>. QED
    BY <2>1, NobodySelects
<1>4. CASE CancelReview(w) /\ SourceReceipt # NoRecord
  <2>1. UNCHANGED <<local, lib, inFlight, open, sel, save, libraryEdits, ops, sent, told>>
    BY <1>4 DEF CancelReview, outcome, counters
  <2>. QED
    BY <2>1 DEF SelectionInv, SelectionShape, OneLibrary, LeaseHolds, PerWorker, OneSaver, OneChosen,
       SentOnce, InHand, SaveHolds, SourceRead, TargetRead, Chosen, Source, Target, Moving, Moved, Saving
<1>. QED
  BY <1>1, <1>2, <1>3, <1>4

-----------------------------------------------------------------------------
(* The ordinary work, in the library that admits it. *)
Ordinarily ==
  /\ UNCHANGED <<local, open, sel, ops, sent, told>>
  /\ libraryEdits' \in Nat /\ save' \in [Workers -> Saves] /\ inFlight' \subseteq ControlRows

LEMMA WhereAdmitted ==
  ASSUME SelectionInv, NEW w \in Workers, open[w] \in Libraries, Admitted(open[w])
  PROVE  /\ lib[open[w]] \in LibraryRows
         /\ open[w] = "source" => ~ Moving /\ ~ Moved /\ Source.marker = NoRecord /\ lib[open[w]] = Source
         /\ open[w] = "target" => Moved /\ Moving /\ Target.marker = NoRecord /\ lib[open[w]] = Target
  BY DEF SelectionInv, SelectionShape, OneLibrary, Admitted, Source, Target, Moving, Moved, Libraries

LEMMA OrdinaryWrite ==
  ASSUME SelectionInv, NEW w \in Workers, open[w] \in Libraries, Admitted(open[w]), Ordinarily,
         NEW r \in LibraryRows, Write(open[w], r), UNCHANGED inFlight,
         r.marker = lib[open[w]].marker, r.gate = lib[open[w]].gate,
         lib[open[w]].has \subseteq r.has, lib[open[w]].rev <= r.rev,
         r.lease # NoRecord => lib[open[w]].lease # NoRecord \/ lib[open[w]].rev < r.rev
  PROVE  /\ SelectionShape' /\ OneLibrary' /\ OneChosen' /\ SentOnce'
         /\ \A v \in Workers : SourceRead(v)' /\ TargetRead(v)' /\ Chosen(v)'
         /\ (Moving' <=> Moving)
<1>. DEFINE l == open[w]
<1>. USE DEF Ordinarily
<1>1. /\ lib' \in [Libraries -> LibraryRows] /\ lib'[l].has = r.has /\ lib'[l].rev = r.rev
      /\ lib'[l].lease = r.lease /\ lib'[l].marker = r.marker /\ (l = "target" => lib'[l].gate = r.gate + 1)
      /\ \A k \in Libraries \ {l} : lib'[k] = lib[k]
  BY Written DEF SelectionInv, SelectionShape
<1>2. SelectionShape /\ SelectionShape' /\ OneLibrary
  BY <1>1 DEF SelectionInv, SelectionShape
<1>3. /\ Source \in LibraryRows /\ Target \in LibraryRows
      /\ Source.rev \in Nat /\ Target.gate \in Nat /\ Source'.rev \in Nat /\ Target'.gate \in Nat
  BY <1>2 DEF SelectionShape, Source, Target, Libraries, LibraryRows
<1>4. CASE l = "source"
  <2>1. /\ Source.marker = NoRecord /\ ~ Moving /\ ~ Moved /\ Target' = Target /\ Source'.marker = NoRecord
        /\ Source'.rev = r.rev /\ Source'.lease = r.lease /\ Source'.has = r.has
    BY <1>1, <1>4, WhereAdmitted DEF Source, Target, Libraries
  <2>2. ~ Moving' /\ ~ Moved'
    BY <2>1 DEF Moving, Moved
  <2>3. Onward
    BY <1>3, <1>4, <2>1, <2>2 DEF Onward, Source
  <2>4. OneLibrary'
    BY <1>2, <2>1, <2>2 DEF OneLibrary
  <2>5. \A v \in Workers : Chosen(v)'
    BY <2>1, <2>2 DEF SelectionInv, PerWorker, Chosen
  <2>6. OneChosen' /\ SentOnce'
    BY <2>1, <2>2 DEF SelectionInv, OneChosen, SentOnce
  <2>7. ASSUME NEW v \in Workers PROVE SourceRead(v)' /\ TargetRead(v)'
    <3>1. InHand(v) /\ SourceRead(v) /\ TargetRead(v) /\ sel'[v] = sel[v]
      BY DEF SelectionInv, PerWorker
    <3>. QED
      BY <1>2, <2>3, <3>1, ReadsKept
  <2>. QED
    BY <1>2, <2>1, <2>2, <2>4, <2>5, <2>6, <2>7
<1>5. CASE l = "target"
  <2>1. /\ Target.marker = NoRecord /\ Moving /\ Moved /\ Source' = Source /\ Target'.marker = NoRecord
        /\ Target.has \subseteq Target'.has /\ Target'.gate = Target.gate + 1
    BY <1>1, <1>5, WhereAdmitted DEF Source, Target, Libraries
  <2>2. Moving' /\ Moved'
    BY <2>1 DEF Moving, Moved
  <2>3. Onward
    BY <1>3, <2>1, <2>2 DEF Onward
  <2>4. OneLibrary'
    BY <1>2, <2>1, <2>2 DEF OneLibrary
  <2>5. \A v \in Workers : Chosen(v)'
    BY <2>1, <2>2 DEF SelectionInv, PerWorker, Chosen
  <2>6. OneChosen' /\ SentOnce'
    BY <2>1, <2>2 DEF SelectionInv, OneChosen, SentOnce
  <2>7. ASSUME NEW v \in Workers PROVE SourceRead(v)' /\ TargetRead(v)'
    <3>1. InHand(v) /\ SourceRead(v) /\ TargetRead(v) /\ sel'[v] = sel[v]
      BY DEF SelectionInv, PerWorker
    <3>. QED
      BY <1>2, <2>3, <3>1, ReadsKept
  <2>. QED
    BY <1>2, <2>1, <2>2, <2>4, <2>5, <2>6, <2>7
<1>. QED
  BY <1>4, <1>5 DEF Libraries

LEMMA EditInv ==
  ASSUME SelectionInv, NEW w \in Workers, Edit(w)
  PROVE  SelectionInv'
<1>. DEFINE l == open[w]
            h == lib[l].has \union {libraryEdits}
            r == [lib[l] EXCEPT !.has = h]
<1>1. /\ l \in Libraries /\ Admitted(l) /\ Write(l, r) /\ UNCHANGED <<inFlight, save>> /\ Ordinarily
  BY DEF Edit, Ordinarily, outcome, SelectionInv, SelectionShape
<1>2. lib[l] \in LibraryRows /\ h \in SUBSET (0..MaxLibraryEdits)
  BY SelectionAssumption DEF Edit, SelectionInv, SelectionShape, LibraryRows
<1>3. /\ r \in LibraryRows /\ r.has = h /\ r.rev = lib[l].rev /\ r.gate = lib[l].gate
      /\ r.lease = lib[l].lease /\ r.marker = lib[l].marker /\ r.rev \in Nat
  BY <1>2, RowKept
<1>. HIDE DEF r
<1>4. /\ SelectionShape' /\ OneLibrary' /\ OneChosen' /\ SentOnce' /\ (Moving' <=> Moving)
      /\ \A v \in Workers : SourceRead(v)' /\ TargetRead(v)' /\ Chosen(v)'
  BY <1>1, <1>3, OrdinaryWrite
<1>5. /\ \A k \in Libraries : lib'[k].lease = lib[k].lease /\ lib'[k].rev = lib[k].rev
  BY <1>1, <1>3, Written DEF SelectionInv, SelectionShape
<1>6. LeaseHolds'
  BY <1>1, <1>4, <1>5 DEF SelectionInv, SelectionShape, LeaseHolds, Ordinarily, ControlRows
<1>7. OneSaver' /\ \A v \in Workers : InHand(v)'
  BY <1>1 DEF SelectionInv, PerWorker, OneSaver, Saving, InHand, Ordinarily
<1>8. \A v \in Workers : SaveHolds(v)'
  BY <1>1, <1>5 DEF SelectionInv, PerWorker, InHand, SaveHolds, Ordinarily
<1>. QED
  BY <1>4, <1>6, <1>7, <1>8 DEF SelectionInv, PerWorker

LEMMA ReserveSaveInv ==
  ASSUME SelectionInv, NEW w \in Workers, ReserveSave(w)
  PROVE  SelectionInv'
<1>. DEFINE l == open[w]
            lease == [rev |-> lib[l].rev + 1, before |-> local, after |-> NoRecord]
            n == lib[l].rev + 1
            r == [lib[l] EXCEPT !.rev = n, !.lease = lease]
            s == [pc |-> "reserved", lease |-> lease]
<1>1. /\ l \in Libraries /\ Admitted(l) /\ lib[l].lease = NoRecord /\ Write(l, r)
      /\ save' = [save EXCEPT ![w] = s] /\ save[w].pc = "idle"
      /\ UNCHANGED <<inFlight, local, open, sel, ops, sent, told, libraryEdits>>
  BY DEF ReserveSave, outcome
<1>2. lib[l] \in LibraryRows /\ lib[l].rev \in Nat /\ local \in ControlRows
  BY <1>1 DEF SelectionInv, SelectionShape, LibraryRows
<1>3. lease \in Leases /\ lease.rev = lib[l].rev + 1 /\ lease.after = NoRecord /\ lease # NoRecord
  BY <1>2, SelectionAssumption DEF Leases
<1>0. n \in Nat /\ n = lib[l].rev + 1
  BY <1>2
<1>. HIDE DEF lease, n
<1>4. /\ r \in LibraryRows /\ r.has = lib[l].has /\ r.rev = lib[l].rev + 1 /\ r.gate = lib[l].gate
      /\ r.lease = lease /\ r.marker = lib[l].marker
  BY <1>0, <1>2, <1>3 DEF LibraryRows
<1>5. s \in Saves /\ s.pc = "reserved" /\ s.lease = lease
  BY <1>3 DEF Saves, SavePhases
<1>. HIDE DEF r, s
<1>6. Ordinarily /\ save'[w] = s /\ \A v \in Workers \ {w} : save'[v] = save[v]
  BY <1>1, <1>5 DEF Ordinarily, SelectionInv, SelectionShape
<1>7. /\ SelectionShape' /\ OneLibrary' /\ OneChosen' /\ SentOnce' /\ (Moving' <=> Moving)
      /\ \A v \in Workers : SourceRead(v)' /\ TargetRead(v)' /\ Chosen(v)'
  BY <1>1, <1>2, <1>4, <1>6, OrdinaryWrite
<1>8. /\ lib'[l].lease = lease /\ lib'[l].rev = lib[l].rev + 1
      /\ \A k \in Libraries \ {l} : lib'[k] = lib[k]
  BY <1>1, <1>4, Written DEF SelectionInv, SelectionShape
<1>9. LeaseHolds'
  <2>1. \A row \in inFlight : row.db # l
    BY <1>1 DEF SelectionInv, LeaseHolds
  <2>2. local.db = l => local.rev <= lib[l].rev /\ local.rev \in Nat
    BY <1>2 DEF SelectionInv, LeaseHolds, ControlRows
  <2>3. \A row \in inFlight : row.db \in Libraries
    BY DEF SelectionInv, SelectionShape, ControlRows
  <2>4. local.db \in Libraries
    BY <1>2 DEF ControlRows
  <2>. QED
    BY <1>1, <1>2, <1>3, <1>7, <1>8, <2>1, <2>2, <2>3, <2>4 DEF SelectionInv, LeaseHolds
<1>10. OneSaver'
  <2>1. \A v \in Workers : Saving(v) => save[v].lease.rev \in Nat
    BY DEF SelectionInv, PerWorker, InHand, Saving, Leases
  <2>2. \A v \in Workers : Saving(v) /\ open[v] = l => save[v].lease.rev <= lib[l].rev
    BY DEF SelectionInv, PerWorker, SaveHolds, Saving
  <2>3. lease.rev \in Nat
    BY <1>3 DEF Leases
  <2>4. \A v \in Workers : v # w /\ Saving(v) /\ open[v] = l => save[v].lease.rev # lease.rev
    BY <1>2, <1>3, <2>1, <2>2, <2>3
  <2>. QED
    BY <1>1, <1>5, <1>6, <2>4 DEF SelectionInv, OneSaver, Saving
<1>11. \A v \in Workers : InHand(v)'
  BY <1>1, <1>3, <1>5, <1>6 DEF SelectionInv, PerWorker, InHand
<1>12. \A v \in Workers : SaveHolds(v)'
  <2>. SUFFICES ASSUME NEW v \in Workers PROVE SaveHolds(v)'
    OBVIOUS
  <2>1. CASE v = w
    BY <1>1, <1>2, <1>3, <1>5, <1>6, <1>8, <2>1 DEF SaveHolds
  <2>2. CASE v # w /\ open[v] = l
    BY <1>1, <1>2, <1>6, <1>8, <2>2, SelectionAssumption DEF SelectionInv, PerWorker, InHand, SaveHolds, Leases
  <2>3. CASE v # w /\ open[v] # l
    BY <1>1, <1>6, <1>8, <2>3 DEF SelectionInv, PerWorker, InHand, SaveHolds
  <2>. QED
    BY <2>1, <2>2, <2>3
<1>. QED
  BY <1>7, <1>9, <1>10, <1>11, <1>12 DEF SelectionInv, PerWorker

(* What is left to show of a save that writes its library's lease. *)
LEMMA LeaseWrite ==
  ASSUME SelectionInv, NEW w \in Workers, open[w] \in Libraries, Admitted(open[w]), UNCHANGED inFlight,
         NEW e \in Leases \union {NoRecord}, NEW s \in Saves, Write(open[w], [lib[open[w]] EXCEPT !.lease = e]),
         e # NoRecord => lib[open[w]].lease # NoRecord,
         UNCHANGED <<local, open, sel, ops, sent, told, libraryEdits>>, save' = [save EXCEPT ![w] = s]
  PROVE  /\ SelectionShape' /\ OneLibrary' /\ OneChosen' /\ SentOnce' /\ (Moving' <=> Moving)
         /\ \A v \in Workers : SourceRead(v)' /\ TargetRead(v)' /\ Chosen(v)'
         /\ lib'[open[w]].lease = e /\ \A k \in Libraries \ {open[w]} : lib'[k] = lib[k]
         /\ \A k \in Libraries : lib'[k].rev = lib[k].rev /\ lib[k].rev \in Nat
         /\ save'[w] = s /\ \A v \in Workers \ {w} : save'[v] = save[v]
<1>. DEFINE l == open[w]
            r == [lib[l] EXCEPT !.lease = e]
<1>1. lib[l] \in LibraryRows /\ lib[l].rev \in Nat
  BY DEF SelectionInv, SelectionShape, LibraryRows
<1>2. /\ r \in LibraryRows /\ r.has = lib[l].has /\ r.rev = lib[l].rev /\ r.gate = lib[l].gate
      /\ r.lease = e /\ r.marker = lib[l].marker
  BY <1>1, RowKept
<1>3. Write(l, r)
  OBVIOUS
<1>. HIDE DEF r
<1>4. Ordinarily /\ save'[w] = s /\ \A v \in Workers \ {w} : save'[v] = save[v]
  BY DEF Ordinarily, SelectionInv, SelectionShape
<1>5. /\ SelectionShape' /\ OneLibrary' /\ OneChosen' /\ SentOnce' /\ (Moving' <=> Moving)
      /\ \A v \in Workers : SourceRead(v)' /\ TargetRead(v)' /\ Chosen(v)'
  BY <1>1, <1>2, <1>3, <1>4, OrdinaryWrite
<1>6. /\ lib'[l].lease = e /\ lib'[l].rev = lib[l].rev /\ \A k \in Libraries \ {l} : lib'[k] = lib[k]
  BY <1>2, <1>3, Written DEF SelectionInv, SelectionShape
<1>7. \A k \in Libraries : lib[k].rev \in Nat
  BY DEF SelectionInv, SelectionShape, LibraryRows
<1>. QED
  BY <1>4, <1>5, <1>6, <1>7

(* Nobody else is about to write in the library whose lease is this save's. *)
LEMMA OneHolder ==
  ASSUME SelectionInv, NEW v \in Workers, NEW w \in Workers, v # w, open[v] = open[w],
         Saving(w), lib[open[w]].lease = save[w].lease
  PROVE  save[v].pc # "prepared"
<1>. SUFFICES ASSUME save[v].pc = "prepared" PROVE FALSE
  OBVIOUS
<1>1. SaveHolds(v) /\ OneSaver
  BY DEF SelectionInv, PerWorker
<1>2. save[v].lease = save[w].lease
  BY <1>1 DEF SaveHolds
<1>. QED
  BY <1>1, <1>2 DEF OneSaver, Saving

LEMMA PrepareSaveInv ==
  ASSUME SelectionInv, NEW w \in Workers, PrepareSave(w)
  PROVE  SelectionInv'
<1>. DEFINE l == open[w]
            row == [db |-> l, rev |-> save[w].lease.rev]
            full == [save[w].lease EXCEPT !.after = row]
            s == [pc |-> "prepared", lease |-> full]
<1>1. /\ Admitted(l) /\ lib[l].lease = save[w].lease /\ Write(l, [lib[l] EXCEPT !.lease = full])
      /\ save' = [save EXCEPT ![w] = s] /\ save[w].pc = "reserved"
      /\ UNCHANGED <<inFlight, local, open, sel, ops, sent, told, libraryEdits>>
  BY DEF PrepareSave, outcome, counters
<1>2. /\ l \in Libraries /\ save[w].lease \in Leases /\ save[w].lease.rev \in Nat
      /\ save[w].lease.after = NoRecord /\ save[w].lease.rev <= lib[l].rev /\ save[w].lease # NoRecord
  BY <1>1, SelectionAssumption DEF SelectionInv, PerWorker, InHand, SaveHolds, Leases
<1>3. row \in ControlRows /\ row.db = l /\ row.rev = save[w].lease.rev /\ row # NoRecord
  BY <1>2, SelectionAssumption DEF ControlRows
<1>. HIDE DEF row
<1>4. full \in Leases /\ full.after = row /\ full.rev = save[w].lease.rev /\ full # NoRecord
  BY <1>2, <1>3, SelectionAssumption DEF Leases
<1>. HIDE DEF full
<1>5. s \in Saves /\ s.pc = "prepared" /\ s.lease = full
  BY <1>4 DEF Saves, SavePhases
<1>. HIDE DEF s
<1>6. /\ SelectionShape' /\ OneLibrary' /\ OneChosen' /\ SentOnce' /\ (Moving' <=> Moving)
      /\ \A v \in Workers : SourceRead(v)' /\ TargetRead(v)' /\ Chosen(v)'
      /\ lib'[l].lease = full /\ \A k \in Libraries \ {l} : lib'[k] = lib[k]
      /\ \A k \in Libraries : lib'[k].rev = lib[k].rev /\ lib[k].rev \in Nat
      /\ save'[w] = s /\ \A v \in Workers \ {w} : save'[v] = save[v]
  BY <1>1, <1>2, <1>4, <1>5, LeaseWrite
<1>7. \A other \in inFlight : other.db # l
  BY <1>1, <1>2, SelectionAssumption DEF SelectionInv, SelectionShape, LeaseHolds
<1>8. local # row
  BY <1>1, <1>2, <1>3 DEF SelectionInv, SelectionShape, LeaseHolds, ControlRows
<1>9. row = [db |-> l, rev |-> full.rev]
  BY <1>4 DEF row
<1>10. LeaseHolds'
  <2>1. \A k \in Libraries : lib'[k].lease # NoRecord =>
          /\ lib'[k].lease.rev <= lib'[k].rev
          /\ lib'[k].lease.after \in {NoRecord, [db |-> k, rev |-> lib'[k].lease.rev]}
          /\ lib'[k].lease.after = NoRecord /\ local.db = k => local.rev < lib'[k].lease.rev
    <3>. SUFFICES ASSUME NEW k \in Libraries, lib'[k].lease # NoRecord
                  PROVE  /\ lib'[k].lease.rev <= lib'[k].rev
                         /\ lib'[k].lease.after \in {NoRecord, [db |-> k, rev |-> lib'[k].lease.rev]}
                         /\ lib'[k].lease.after = NoRecord /\ local.db = k => local.rev < lib'[k].lease.rev
      OBVIOUS
    <3>1. CASE k = l
      BY <1>2, <1>3, <1>4, <1>6, <1>9, <3>1
    <3>2. CASE k # l
      BY <1>6, <3>2 DEF SelectionInv, LeaseHolds
    <3>. QED
      BY <3>1, <3>2
  <2>2. \A other \in inFlight : other.db \in Libraries
    BY DEF SelectionInv, SelectionShape, ControlRows
  <2>3. local.db \in Libraries
    BY DEF SelectionInv, SelectionShape, ControlRows
  <2>. QED
    BY <1>1, <1>6, <1>7, <2>1, <2>2, <2>3 DEF SelectionInv, LeaseHolds
<1>11. OneSaver'
  BY <1>1, <1>4, <1>5, <1>6 DEF SelectionInv, OneSaver, Saving
<1>12. \A v \in Workers : InHand(v)'
  BY <1>1, <1>2, <1>4, <1>5, <1>6 DEF SelectionInv, PerWorker, InHand
<1>13. \A v \in Workers : SaveHolds(v)'
  <2>. SUFFICES ASSUME NEW v \in Workers PROVE SaveHolds(v)'
    OBVIOUS
  <2>1. CASE v = w
    BY <1>1, <1>2, <1>3, <1>4, <1>5, <1>6, <1>7, <1>8, <1>9, <2>1 DEF SaveHolds
  <2>2. CASE v # w /\ open[v] = l
    BY <1>1, <1>2, <1>6, <2>2, OneHolder DEF SelectionInv, PerWorker, SaveHolds, Saving
  <2>3. CASE v # w /\ open[v] # l
    BY <1>1, <1>6, <2>3 DEF SelectionInv, PerWorker, InHand, SaveHolds
  <2>. QED
    BY <2>1, <2>2, <2>3
<1>. QED
  BY <1>6, <1>10, <1>11, <1>12, <1>13 DEF SelectionInv, PerWorker

(* A lease given back, by the save it was for or by the startup that judged it. *)
LEMMA LeaseGoes ==
  ASSUME SelectionInv, NEW w \in Workers, open[w] \in Libraries, Admitted(open[w]), UNCHANGED inFlight,
         Write(open[w], [lib[open[w]] EXCEPT !.lease = NoRecord]),
         \A row \in inFlight : row.db # open[w],
         \A v \in Workers \ {w} : open[v] = open[w] => save[v].pc # "prepared",
         UNCHANGED <<local, open, sel, ops, sent, told, libraryEdits>>, save' = [save EXCEPT ![w] = NoSave]
  PROVE  SelectionInv'
<1>. DEFINE l == open[w]
<1>1. NoSave \in Saves /\ NoSave.pc = "idle"
  BY DEF NoSave, Saves, SavePhases
<1>2. /\ SelectionShape' /\ OneLibrary' /\ OneChosen' /\ SentOnce' /\ (Moving' <=> Moving)
      /\ \A v \in Workers : SourceRead(v)' /\ TargetRead(v)' /\ Chosen(v)'
      /\ lib'[l].lease = NoRecord /\ \A k \in Libraries \ {l} : lib'[k] = lib[k]
      /\ \A k \in Libraries : lib'[k].rev = lib[k].rev /\ lib[k].rev \in Nat
      /\ save'[w] = NoSave /\ \A v \in Workers \ {w} : save'[v] = save[v]
  BY <1>1, LeaseWrite
<1>3. LeaseHolds'
  <2>1. \A other \in inFlight : other.db \in Libraries
    BY DEF SelectionInv, SelectionShape, ControlRows
  <2>2. local.db \in Libraries
    BY DEF SelectionInv, SelectionShape, ControlRows
  <2>. QED
    BY <1>2, <2>1, <2>2 DEF SelectionInv, LeaseHolds
<1>4. OneSaver'
  BY <1>1, <1>2 DEF SelectionInv, OneSaver, Saving
<1>5. \A v \in Workers : InHand(v)'
  BY <1>1, <1>2 DEF SelectionInv, PerWorker, InHand
<1>6. \A v \in Workers : SaveHolds(v)'
  BY <1>1, <1>2 DEF SelectionInv, PerWorker, InHand, SaveHolds
<1>. QED
  BY <1>2, <1>3, <1>4, <1>5, <1>6 DEF SelectionInv, PerWorker

LEMMA ReleaseSaveInv ==
  ASSUME SelectionInv, NEW w \in Workers, ReleaseSave(w)
  PROVE  SelectionInv'
<1>. DEFINE l == open[w]
<1>1. /\ Admitted(l) /\ lib[l].lease = save[w].lease /\ Write(l, [lib[l] EXCEPT !.lease = NoRecord])
      /\ save' = [save EXCEPT ![w] = NoSave] /\ save[w].pc = "sent" /\ save[w].lease.after \notin inFlight
      /\ UNCHANGED <<inFlight, local, open, sel, ops, sent, told, libraryEdits>>
  BY DEF ReleaseSave, outcome, counters
<1>2. l \in Libraries
  BY <1>1 DEF SelectionInv, PerWorker, InHand
<1>3. \A row \in inFlight : row.db # l
  BY <1>1 DEF SelectionInv, LeaseHolds
<1>4. \A v \in Workers \ {w} : open[v] = l => save[v].pc # "prepared"
  BY <1>1, OneHolder DEF Saving
<1>. QED
  BY <1>1, <1>2, <1>3, <1>4, LeaseGoes

(* A save that ends, or the startup's look at a lease it cannot judge. *)
LEMMA SaveEnds ==
  ASSUME SelectionInv, NEW w \in Workers, save' = [save EXCEPT ![w] = NoSave],
         UNCHANGED <<local, lib, inFlight, open, sel, libraryEdits, ops, sent, told>>
  PROVE  SelectionInv'
<1>1. NoSave \in Saves /\ NoSave.pc = "idle"
  BY DEF NoSave, Saves, SavePhases
<1>2. save'[w] = NoSave /\ \A v \in Workers \ {w} : save'[v] = save[v]
  BY DEF SelectionInv, SelectionShape
<1>3. SelectionShape'
  BY <1>1 DEF SelectionInv, SelectionShape
<1>4. OneLibrary' /\ LeaseHolds' /\ OneChosen' /\ SentOnce'
  BY DEF SelectionInv, OneLibrary, LeaseHolds, OneChosen, SentOnce, Source, Target, Moving, Moved
<1>5. OneSaver'
  BY <1>1, <1>2 DEF SelectionInv, OneSaver, Saving
<1>6. \A v \in Workers : InHand(v)' /\ SaveHolds(v)'
  <2>. SUFFICES ASSUME NEW v \in Workers PROVE InHand(v)' /\ SaveHolds(v)'
    OBVIOUS
  <2>1. InHand(v) /\ SaveHolds(v)
    BY DEF SelectionInv, PerWorker
  <2>2. CASE v = w
    BY <1>1, <1>2, <2>1, <2>2 DEF InHand, SaveHolds
  <2>3. CASE v # w
    BY <1>2, <2>1, <2>3 DEF InHand, SaveHolds
  <2>. QED
    BY <2>2, <2>3
<1>7. \A v \in Workers : SourceRead(v)' /\ TargetRead(v)' /\ Chosen(v)'
  BY DEF SelectionInv, PerWorker, SourceRead, TargetRead, Chosen, Source, Target, Moving, Moved
<1>. QED
  BY <1>3, <1>4, <1>5, <1>6, <1>7 DEF SelectionInv, PerWorker

LEMMA DroppedInv ==
  ASSUME SelectionInv, NEW w \in Workers, Dropped(w)
  PROVE  SelectionInv'
  BY SaveEnds DEF Dropped, outcome, counters

LEMMA RecoverSaveInv ==
  ASSUME SelectionInv, NEW w \in Workers, RecoverSave(w)
  PROVE  SelectionInv'
<1>. DEFINE l == open[w]
<1>1. /\ save[w].pc = "recover" /\ save' = [save EXCEPT ![w] = NoSave]
      /\ UNCHANGED <<inFlight, local, open, sel, ops, sent, told, libraryEdits>>
  BY DEF RecoverSave, outcome, counters
<1>2. l \in Libraries
  BY <1>1 DEF SelectionInv, PerWorker, InHand
<1>3. CASE lib[l].lease # NoRecord /\ Provable(l) /\ Admitted(l)
  <2>1. Write(l, [lib[l] EXCEPT !.lease = NoRecord])
    BY <1>3 DEF RecoverSave
  <2>2. \A row \in inFlight : row.db # l
    BY <1>3, SelectionAssumption DEF Provable, SelectionInv, SelectionShape, LeaseHolds
  <2>3. \A v \in Workers \ {w} : open[v] = l => save[v].pc # "prepared"
    <3>. SUFFICES ASSUME NEW v \in Workers \ {w}, open[v] = l, save[v].pc = "prepared"
                  PROVE  FALSE
      OBVIOUS
    <3>1. /\ lib[l].lease = save[v].lease /\ save[v].lease.after # local /\ save[v].lease.rev \in Nat
          /\ save[v].lease.after = [db |-> l, rev |-> save[v].lease.rev]
      BY DEF SelectionInv, PerWorker, SaveHolds, InHand, Leases
    <3>2. save[v].lease.after # NoRecord
      BY <1>2, <3>1, SelectionAssumption DEF ControlRows
    <3>. QED
      BY <1>3, <3>1, <3>2 DEF Provable
  <2>. QED
    BY <1>1, <1>2, <1>3, <2>1, <2>2, <2>3, LeaseGoes
<1>4. CASE ~ (lib[l].lease # NoRecord /\ Provable(l) /\ Admitted(l))
  <2>1. UNCHANGED lib
    BY <1>4 DEF RecoverSave
  <2>. QED
    BY <1>1, <2>1, SaveEnds
<1>. QED
  BY <1>3, <1>4

LEMMA SendSaveInv ==
  ASSUME SelectionInv, NEW w \in Workers, SendSave(w)
  PROVE  SelectionInv'
<1>. DEFINE l == open[w]
            row == save[w].lease.after
            s == [save[w] EXCEPT !.pc = "sent"]
<1>1. /\ save[w].pc = "prepared" /\ save' = [save EXCEPT ![w] = s] /\ inFlight' = inFlight \union {row}
      /\ UNCHANGED <<local, lib, open, sel, ops, sent, told, libraryEdits>>
  BY DEF SendSave, outcome, counters, SelectionInv, SelectionShape
<1>2. /\ l \in Libraries /\ save[w] \in Saves /\ save[w].lease \in Leases /\ save[w].lease # NoRecord
      /\ lib[l].lease = save[w].lease /\ row = [db |-> l, rev |-> save[w].lease.rev]
      /\ row # local /\ save[w].lease.rev \in Nat
  BY <1>1, SelectionAssumption DEF SelectionInv, SelectionShape, PerWorker, InHand, SaveHolds, Leases
<1>3. row \in ControlRows /\ row.db = l /\ row.rev = save[w].lease.rev /\ lib[l].lease.after = row
  BY <1>2 DEF ControlRows
<1>. HIDE DEF row
<1>4. s \in Saves /\ s.pc = "sent" /\ s.lease = save[w].lease
  BY <1>2 DEF Saves, SavePhases
<1>. HIDE DEF s
<1>5. save'[w] = s /\ \A v \in Workers \ {w} : save'[v] = save[v]
  BY <1>1, <1>4 DEF SelectionInv, SelectionShape
<1>6. /\ Source' = Source /\ Target' = Target /\ (Moving' <=> Moving) /\ (Moved' <=> Moved)
  BY <1>1 DEF Source, Target, Moving, Moved
<1>7. l = "target" => Moved /\ Moving
  BY DEF SelectionInv, OneLibrary, Moved, Moving
<1>8. l = "source" => ~ Moving
  BY <1>2 DEF SelectionInv, OneLibrary, Moving, Source
<1>9. SelectionShape'
  BY <1>1, <1>3, <1>4 DEF SelectionInv, SelectionShape
<1>10. OneLibrary' /\ OneChosen'
  BY <1>1, <1>6 DEF SelectionInv, OneLibrary, OneChosen
<1>17. SentOnce'
  BY <1>1, <1>3, <1>6, <1>7 DEF SelectionInv, SentOnce, Moved
<1>11. LeaseHolds'
  <2>1. lib[row.db].lease # NoRecord /\ lib[row.db].lease.after = row /\ row # local
    BY <1>2, <1>3
  <2>. QED
    BY <1>1, <1>3, <1>6, <1>7, <2>1 DEF SelectionInv, LeaseHolds
<1>12. OneSaver'
  BY <1>1, <1>4, <1>5 DEF SelectionInv, OneSaver, Saving
<1>13. \A v \in Workers : InHand(v)'
  BY <1>1, <1>2, <1>4, <1>5 DEF SelectionInv, PerWorker, InHand
<1>14. \A v \in Workers : SaveHolds(v)'
  <2>. SUFFICES ASSUME NEW v \in Workers PROVE SaveHolds(v)'
    OBVIOUS
  <2>1. CASE v = w
    BY <1>1, <1>4, <1>5, <2>1 DEF SelectionInv, PerWorker, SaveHolds
  <2>2. CASE v # w /\ open[v] = l
    BY <1>1, <1>2, <1>5, <2>2, OneHolder DEF SelectionInv, PerWorker, SaveHolds, Saving
  <2>3. CASE v # w /\ open[v] # l
    <3>1. SaveHolds(v)
      BY DEF SelectionInv, PerWorker
    <3>2. save[v].pc = "prepared" => save[v].lease.after.db = open[v]
      BY <3>1 DEF SaveHolds
    <3>. QED
      BY <1>1, <1>3, <1>5, <2>3, <3>1, <3>2 DEF SaveHolds
  <2>. QED
    BY <2>1, <2>2, <2>3
<1>15. \A v \in Workers : SourceRead(v)' /\ TargetRead(v)'
  BY <1>1, <1>6 DEF SelectionInv, PerWorker, SourceRead, TargetRead
<1>16. \A v \in Workers : Chosen(v)'
  <2>1. \A v \in Workers : sel[v].pc \notin {"seen", "selected"}
    BY <1>2, <1>7, <1>8 DEF SelectionInv, PerWorker, Chosen, Choosing, Moving, Moved, Libraries
  <2>. QED
    BY <1>1, <1>6, <2>1 DEF SelectionInv, PerWorker, Chosen
<1>. QED
  BY <1>9, <1>10, <1>11, <1>12, <1>13, <1>14, <1>15, <1>16, <1>17 DEF SelectionInv, PerWorker

-----------------------------------------------------------------------------
(* The receipts. *)
LEMMA ReceiptMade ==
  ASSUME SelectionInv, NEW w \in Workers, NEW p \in ReceiptPhases, sel[w].target \in LibraryRows,
         NEW a \in ControlRows \union {NoRecord}
  PROVE  LET m == [op |-> sel[w].op, phase |-> p, after |-> a, gate |-> sel[w].target.gate]
         IN  m \in Receipts /\ m.phase = p /\ m # NoRecord
<1>1. sel[w].op \in Nat /\ sel[w].target.gate \in Nat
  BY DEF SelectionInv, SelectionShape, Selections, LibraryRows
<1>. QED
  BY <1>1, SelectionAssumption DEF Receipts

LEMMA ReceiptOfWorker ==
  ASSUME SelectionInv, NEW w \in Workers, NEW p \in ReceiptPhases,
         sel[w].pc \notin {"none", "cut", "paired"}
  PROVE  /\ Marker(w, p) \in Receipts /\ Marker(w, p).phase = p /\ Marker(w, p) # NoRecord
         /\ LET m == MarkerOf([sel[w] EXCEPT !.after = NoRecord], p)
            IN  m \in Receipts /\ m.phase = p /\ m # NoRecord
<1>1. sel[w].target \in LibraryRows /\ sel[w].after \in ControlRows \union {NoRecord} /\ sel[w] \in Selections
  BY DEF SelectionInv, PerWorker, InHand, SelectionShape, Selections
<1>2. Marker(w, p) \in Receipts /\ Marker(w, p).phase = p /\ Marker(w, p) # NoRecord
  BY <1>1, ReceiptMade DEF Marker
<1>. DEFINE r == [sel[w] EXCEPT !.after = NoRecord]
<1>3. r.op = sel[w].op /\ r.after = NoRecord /\ r.target = sel[w].target
  BY <1>1 DEF Selections
<1>. HIDE DEF r
<1>4. MarkerOf(r, p) = [op |-> sel[w].op, phase |-> p, after |-> NoRecord, gate |-> sel[w].target.gate]
  BY <1>3 DEF MarkerOf
<1>5. MarkerOf(r, p) \in Receipts /\ MarkerOf(r, p).phase = p /\ MarkerOf(r, p) # NoRecord
  BY <1>1, <1>4, ReceiptMade
<1>. QED
  BY <1>2, <1>5 DEF r

(* What writing a receipt leaves alone. *)
Moves(w, p) ==
  /\ sel'[w].pc = p /\ sel'[w].source = sel[w].source /\ sel'[w].target = sel[w].target
  /\ sel'[w].before = sel[w].before /\ sel'[w].after = sel[w].after
  /\ \A v \in Workers \ {w} : sel'[v] = sel[v]

LEMMA MovesOn ==
  ASSUME SelectionInv, NEW w \in Workers, NEW p \in SelPhases, Step(w, p)
  PROVE  Moves(w, p) /\ sel' \in [Workers -> Selections]
<1>1. sel[w] \in Selections /\ sel \in [Workers -> Selections]
  BY DEF SelectionInv, SelectionShape
<1>. DEFINE q == [sel[w] EXCEPT !.pc = p]
<1>2. /\ q \in Selections /\ q.pc = p /\ q.source = sel[w].source /\ q.target = sel[w].target
      /\ q.before = sel[w].before /\ q.after = sel[w].after
  BY <1>1, SelectionKept
<1>3. sel' = [sel EXCEPT ![w] = q]
  BY DEF Step, Go
<1>. HIDE DEF q
<1>. QED
  BY <1>1, <1>2, <1>3 DEF Moves

LEMMA ReceiptWrite ==
  ASSUME SelectionInv, NEW w \in Workers, NEW p \in SelPhases, NEW l \in Libraries, NEW m \in Receipts,
         Write(l, [lib[l] EXCEPT !.marker = m]), Step(w, p), Moving => Moving',
         UNCHANGED <<local, inFlight, open, save, libraryEdits, ops, sent, told>>
  PROVE  /\ SelectionShape' /\ LeaseHolds' /\ OneSaver' /\ (\A v \in Workers : SaveHolds(v)')
         /\ Moves(w, p) /\ \A v \in Workers \ {w} : InHand(v)'
         /\ lib'[l].has = lib[l].has /\ lib'[l].rev = lib[l].rev /\ lib'[l].lease = lib[l].lease
         /\ lib'[l].marker = m /\ (l = "target" => lib'[l].gate = lib[l].gate + 1)
         /\ \A k \in Libraries \ {l} : lib'[k] = lib[k]
<1>1. lib[l] \in LibraryRows
  BY DEF SelectionInv, SelectionShape
<1>. DEFINE r == [lib[l] EXCEPT !.marker = m]
<1>2. /\ r \in LibraryRows /\ r.has = lib[l].has /\ r.rev = lib[l].rev /\ r.gate = lib[l].gate
      /\ r.lease = lib[l].lease /\ r.marker = m /\ Write(l, r)
  BY <1>1, RowKept
<1>. HIDE DEF r
<1>3. /\ lib' \in [Libraries -> LibraryRows] /\ lib'[l].has = lib[l].has /\ lib'[l].rev = lib[l].rev
      /\ lib'[l].lease = lib[l].lease /\ lib'[l].marker = m /\ (l = "target" => lib'[l].gate = lib[l].gate + 1)
      /\ \A k \in Libraries \ {l} : lib'[k] = lib[k]
  BY <1>2, Written DEF SelectionInv, SelectionShape
<1>4. Moves(w, p) /\ sel' \in [Workers -> Selections]
  BY MovesOn
<1>5. \A k \in Libraries : lib'[k].rev = lib[k].rev /\ lib'[k].lease = lib[k].lease
  BY <1>3
<1>6. SelectionShape'
  BY <1>3, <1>4 DEF SelectionInv, SelectionShape
<1>7. LeaseHolds'
  <2>1. local.db \in Libraries /\ \A row \in inFlight : row.db \in Libraries
    BY DEF SelectionInv, SelectionShape, ControlRows
  <2>. QED
    BY <1>5, <2>1 DEF SelectionInv, LeaseHolds
<1>8. OneSaver'
  BY DEF SelectionInv, OneSaver, Saving
<1>9. \A v \in Workers : SaveHolds(v)'
  BY <1>5 DEF SelectionInv, PerWorker, InHand, SaveHolds
<1>10. \A v \in Workers \ {w} : InHand(v)'
  BY <1>4 DEF SelectionInv, PerWorker, InHand, Moves
<1>. QED
  BY <1>3, <1>4, <1>6, <1>7, <1>8, <1>9, <1>10

(* What the other workers read, where the libraries only moved on. *)
LEMMA OthersRead ==
  ASSUME SelectionInv, SelectionShape', NEW w \in Workers, NEW p, Moves(w, p), Onward
  PROVE  \A v \in Workers \ {w} : SourceRead(v)' /\ TargetRead(v)'
<1>. SUFFICES ASSUME NEW v \in Workers \ {w} PROVE SourceRead(v)' /\ TargetRead(v)'
  OBVIOUS
<1>1. sel'[v] = sel[v]
  BY DEF Moves
<1>2. SelectionShape /\ InHand(v) /\ SourceRead(v) /\ TargetRead(v)
  BY DEF SelectionInv, PerWorker
<1>. QED
  BY <1>1, <1>2, ReadsKept

LEMMA Gates ==
  ASSUME SelectionInv
  PROVE  /\ Target.gate \in Nat /\ Source.rev \in Nat /\ Source \in LibraryRows /\ Target \in LibraryRows
         /\ local \in ControlRows /\ local.db \in Libraries
  BY DEF SelectionInv, SelectionShape, Source, Target, Libraries, LibraryRows, ControlRows

LEMMA MarkSourceInv ==
  ASSUME SelectionInv, NEW w \in Workers, MarkSource(w)
  PROVE  SelectionInv'
<1>. DEFINE m == Marker(w, "prepared")
<1>1. /\ sel[w].pc = "admitted" /\ Source = sel[w].source /\ Step(w, "marked")
      /\ Write("source", [lib["source"] EXCEPT !.marker = m])
      /\ UNCHANGED <<local, inFlight, open, save, libraryEdits, ops, sent, told>>
  BY DEF MarkSource, At, outcome, counters, Source
<1>2. m \in Receipts /\ m.phase = "prepared" /\ m # NoRecord
  BY <1>1, ReceiptOfWorker DEF ReceiptPhases
<1>. HIDE DEF m
<1>3. InHand(w) /\ SourceRead(w) /\ TargetRead(w) /\ OneLibrary
  BY DEF SelectionInv, PerWorker
<1>4. /\ Source.lease = NoRecord /\ Source.has \subseteq Target.has /\ ~ Moving /\ ~ Moved
      /\ Source.marker # NoRecord => Source.marker.phase = "prepared"
  BY <1>1, <1>3 DEF SourceRead, Moving, Moved
<1>5. /\ SelectionShape' /\ LeaseHolds' /\ OneSaver' /\ (\A v \in Workers : SaveHolds(v)')
      /\ Moves(w, "marked") /\ \A v \in Workers \ {w} : InHand(v)'
      /\ Source'.has = Source.has /\ Source'.rev = Source.rev /\ Source'.lease = Source.lease
      /\ Source'.marker = m /\ Target' = Target
  BY <1>1, <1>2, <1>4, ReceiptWrite DEF SelPhases, Libraries, Source, Target
<1>6. ~ Moving' /\ ~ Moved' /\ local.db = "source"
  BY <1>2, <1>3, <1>4, <1>5, Gates DEF Moving, Moved, OneLibrary, Libraries
<1>7. Onward
  BY <1>4, <1>5, <1>6, Gates DEF Onward
<1>8. OneLibrary'
  BY <1>1, <1>2, <1>3, <1>4, <1>5, <1>6 DEF OneLibrary, Moves
<1>9. InHand(w)' /\ SourceRead(w)' /\ TargetRead(w)'
  BY <1>1, <1>3, <1>4, <1>5, <1>6 DEF InHand, SourceRead, TargetRead, Moves, Choosing
<1>10. \A v \in Workers : Chosen(v)'
  <2>. SUFFICES ASSUME NEW v \in Workers PROVE Chosen(v)'
    OBVIOUS
  <2>1. Chosen(v)
    BY DEF SelectionInv, PerWorker
  <2>2. CASE v = w
    BY <1>5, <2>2 DEF Chosen, Moves, Choosing
  <2>3. CASE v # w
    BY <1>1, <1>4, <1>5, <1>6, <2>1, <2>3 DEF Chosen, Moves, Choosing
  <2>. QED
    BY <2>2, <2>3
<1>11. OneChosen' /\ SentOnce'
  BY <1>1, <1>4, <1>5, <1>6 DEF SelectionInv, OneChosen, SentOnce, Moves, Choosing
<1>. QED
  BY <1>5, <1>7, <1>8, <1>9, <1>10, <1>11, OthersRead DEF SelectionInv, PerWorker

LEMMA MarkTargetInv ==
  ASSUME SelectionInv, NEW w \in Workers, MarkTarget(w)
  PROVE  SelectionInv'
<1>. DEFINE m == Marker(w, "prepared")
<1>1. /\ sel[w].pc = "marked" /\ Target = sel[w].target /\ Step(w, "both")
      /\ Write("target", [lib["target"] EXCEPT !.marker = m])
      /\ UNCHANGED <<local, inFlight, open, save, libraryEdits, ops, sent, told>>
  BY DEF MarkTarget, At, outcome, counters, Target
<1>2. m \in Receipts /\ m.phase = "prepared" /\ m # NoRecord
  BY <1>1, ReceiptOfWorker DEF ReceiptPhases
<1>. HIDE DEF m
<1>3. InHand(w) /\ TargetRead(w) /\ OneLibrary
  BY DEF SelectionInv, PerWorker
<1>4. Target.lease = NoRecord /\ ~ Moved
  BY <1>1, <1>3, Gates DEF TargetRead
<1>5. ~ Moving
  BY <1>3, <1>4 DEF OneLibrary
<1>6. /\ SelectionShape' /\ LeaseHolds' /\ OneSaver' /\ (\A v \in Workers : SaveHolds(v)')
      /\ Moves(w, "both") /\ \A v \in Workers \ {w} : InHand(v)'
      /\ Target'.has = Target.has /\ Target'.rev = Target.rev /\ Target'.lease = Target.lease
      /\ Target'.marker = m /\ Target'.gate = Target.gate + 1 /\ Source' = Source
  BY <1>1, <1>2, <1>5, ReceiptWrite DEF SelPhases, Libraries, Source, Target
<1>7. ~ Moving' /\ ~ Moved' /\ local.db = "source"
  BY <1>2, <1>3, <1>5, <1>6, Gates DEF Moving, Moved, OneLibrary, Libraries
<1>8. Onward
  BY <1>4, <1>5, <1>6, <1>7, Gates DEF Onward
<1>9. OneLibrary'
  BY <1>1, <1>2, <1>3, <1>4, <1>6, <1>7 DEF OneLibrary, Moves
<1>10. InHand(w)' /\ SourceRead(w)' /\ TargetRead(w)'
  BY <1>1, <1>3, <1>6 DEF InHand, SourceRead, TargetRead, Moves, Choosing
<1>11. \A v \in Workers : sel[v].pc \notin Choosing
  BY <1>4 DEF SelectionInv, PerWorker, Chosen
<1>12. \A v \in Workers : sel'[v].pc \notin Choosing
  BY <1>6, <1>11 DEF Moves, Choosing
<1>13. (\A v \in Workers : Chosen(v)') /\ OneChosen'
  BY <1>12 DEF Chosen, OneChosen, Choosing
<1>14. SentOnce'
  BY <1>1, <1>5, <1>7, <1>12 DEF SelectionInv, SentOnce, Choosing
<1>. QED
  BY <1>6, <1>8, <1>9, <1>10, <1>13, <1>14, OthersRead DEF SelectionInv, PerWorker

LEMMA DispatchSourceInv ==
  ASSUME SelectionInv, NEW w \in Workers, DispatchSource(w)
  PROVE  SelectionInv'
<1>. DEFINE m == Marker(w, "dispatched")
<1>1. /\ sel[w].pc = "reserved" /\ Step(w, "dispatched")
      /\ Source.marker = MarkerOf([sel[w] EXCEPT !.after = NoRecord], "prepared")
      /\ Write("source", [lib["source"] EXCEPT !.marker = m])
      /\ UNCHANGED <<local, inFlight, open, save, libraryEdits, ops, sent, told>>
  BY DEF DispatchSource, At, outcome, counters, Source
<1>2. /\ m \in Receipts /\ m.phase = "dispatched" /\ m # NoRecord
      /\ Source.marker # NoRecord /\ Source.marker.phase = "prepared"
  BY <1>1, ReceiptOfWorker DEF ReceiptPhases
<1>. HIDE DEF m
<1>3. InHand(w) /\ Chosen(w) /\ OneLibrary
  BY DEF SelectionInv, PerWorker
<1>4. ~ Moving /\ ~ Moved
  BY <1>2 DEF Moving, Moved
<1>5. /\ SelectionShape' /\ LeaseHolds' /\ OneSaver' /\ (\A v \in Workers : SaveHolds(v)')
      /\ Moves(w, "dispatched") /\ \A v \in Workers \ {w} : InHand(v)'
      /\ Source'.has = Source.has /\ Source'.rev = Source.rev /\ Source'.lease = Source.lease
      /\ Source'.marker = m /\ Target' = Target
  BY <1>1, <1>2, <1>4, ReceiptWrite DEF SelPhases, Libraries, Source, Target
<1>6. Moving' /\ ~ Moved' /\ local.db = "source"
  BY <1>2, <1>3, <1>4, <1>5, Gates DEF Moving, Moved, OneLibrary, Libraries
<1>7. Onward
  BY <1>4, <1>5, <1>6, Gates DEF Onward
<1>8. /\ Target.marker # NoRecord /\ Target.marker.phase = "dispatched"
      /\ Target.lease # NoRecord /\ Target.lease.after = sel[w].after
  BY <1>1, <1>3 DEF Chosen, Choosing
<1>9. OneLibrary'
  BY <1>1, <1>2, <1>3, <1>4, <1>5, <1>6, <1>8 DEF OneLibrary, Moves
<1>10. InHand(w)' /\ SourceRead(w)' /\ TargetRead(w)' /\ Chosen(w)'
  BY <1>1, <1>3, <1>5, <1>6, <1>8 DEF InHand, SourceRead, TargetRead, Chosen, Moves, Choosing
<1>11. \A v \in Workers \ {w} : sel'[v].pc \notin Choosing
  BY <1>1, <1>5 DEF SelectionInv, OneChosen, Moves, Choosing
<1>12. (\A v \in Workers \ {w} : Chosen(v)') /\ OneChosen'
  BY <1>11 DEF Chosen, OneChosen, Choosing
<1>13. SentOnce'
  BY <1>1, <1>4, <1>6 DEF SelectionInv, SentOnce
<1>. QED
  BY <1>5, <1>7, <1>9, <1>10, <1>12, <1>13, OthersRead DEF SelectionInv, PerWorker

LEMMA SelectSourceInv ==
  ASSUME SelectionInv, NEW w \in Workers, SelectSource(w)
  PROVE  SelectionInv'
<1>. DEFINE m == Marker(w, "selected")
<1>1. /\ sel[w].pc = "seen" /\ Step(w, "selected") /\ Source.marker = Marker(w, "dispatched")
      /\ Write("source", [lib["source"] EXCEPT !.marker = m])
      /\ UNCHANGED <<local, inFlight, open, save, libraryEdits, ops, sent, told>>
  BY DEF SelectSource, At, Mine, outcome, counters, Source
<1>2. /\ m \in Receipts /\ m.phase = "selected" /\ m # NoRecord
      /\ Source.marker # NoRecord /\ Source.marker.phase = "dispatched"
  BY <1>1, ReceiptOfWorker DEF ReceiptPhases
<1>. HIDE DEF m
<1>3. InHand(w) /\ Chosen(w) /\ OneLibrary
  BY DEF SelectionInv, PerWorker
<1>4. Moving /\ ~ Moved
  BY <1>2 DEF Moving, Moved
<1>5. Source' = lib'["source"] /\ lib'["source"].marker = m
  <2>. DEFINE r == [lib["source"] EXCEPT !.marker = m]
  <2>1. lib["source"] \in LibraryRows /\ lib \in [Libraries -> LibraryRows] /\ "source" \in Libraries
    BY DEF SelectionInv, SelectionShape, Libraries
  <2>2. r \in LibraryRows /\ r.marker = m /\ Write("source", r)
    BY <1>1, <1>2, <2>1, RowKept
  <2>. HIDE DEF r
  <2>. QED
    BY <2>1, <2>2, Written DEF Source
<1>6. Moving'
  BY <1>2, <1>5 DEF Moving
<1>7. /\ SelectionShape' /\ LeaseHolds' /\ OneSaver' /\ (\A v \in Workers : SaveHolds(v)')
      /\ Moves(w, "selected") /\ \A v \in Workers \ {w} : InHand(v)'
      /\ Source'.has = Source.has /\ Source'.rev = Source.rev /\ Source'.lease = Source.lease
      /\ Source'.marker = m /\ Target' = Target
  BY <1>1, <1>2, <1>6, ReceiptWrite DEF SelPhases, Libraries, Source, Target
<1>8. /\ Target.marker # NoRecord /\ Target.marker.phase = "dispatched"
      /\ Target.lease # NoRecord /\ Target.lease.after = sel[w].after
      /\ local = sel[w].after /\ sel[w].after \notin inFlight /\ local.db = "target"
  BY <1>1, <1>3 DEF Chosen, InHand, Choosing
<1>9. ~ Moved'
  BY <1>7, <1>8 DEF Moved
<1>10. Onward
  BY <1>4, <1>6, <1>7, <1>9, Gates DEF Onward
<1>11. OneLibrary'
  BY <1>1, <1>2, <1>3, <1>4, <1>6, <1>7, <1>8, <1>9 DEF OneLibrary, Moves
<1>12. InHand(w)' /\ SourceRead(w)' /\ TargetRead(w)' /\ Chosen(w)'
  BY <1>1, <1>2, <1>3, <1>7, <1>8 DEF InHand, SourceRead, TargetRead, Chosen, Moves, Choosing
<1>13. \A v \in Workers \ {w} : sel'[v].pc \notin Choosing
  BY <1>1, <1>7 DEF SelectionInv, OneChosen, Moves, Choosing
<1>14. (\A v \in Workers \ {w} : Chosen(v)') /\ OneChosen'
  BY <1>13 DEF Chosen, OneChosen, Choosing
<1>15. SentOnce'
  BY <1>1, <1>6, <1>7, <1>13 DEF SelectionInv, SentOnce, Moves, Choosing
<1>. QED
  BY <1>7, <1>10, <1>11, <1>12, <1>14, <1>15, OthersRead DEF SelectionInv, PerWorker

LEMMA ReserveTargetInv ==
  ASSUME SelectionInv, NEW w \in Workers, ReserveTarget(w)
  PROVE  SelectionInv'
<1>. DEFINE row == sel[w].after
            m == Marker(w, "dispatched")
            e == [rev |-> row.rev, before |-> sel[w].before, after |-> row]
            n == row.rev
            r == [lib["target"] EXCEPT !.rev = n, !.lease = e, !.marker = m]
<1>1. /\ sel[w].pc = "ready" /\ Step(w, "reserved") /\ Write("target", r)
      /\ Target.marker = MarkerOf([sel[w] EXCEPT !.after = NoRecord], "prepared")
      /\ Target.lease = NoRecord
      /\ UNCHANGED <<local, inFlight, open, save, libraryEdits, ops, sent, told>>
  BY DEF ReserveTarget, At, LeaseFree, outcome, counters, Target
<1>2. /\ m \in Receipts /\ m.phase = "dispatched" /\ m # NoRecord
      /\ Target.marker # NoRecord /\ Target.marker.phase = "prepared"
  BY <1>1, ReceiptOfWorker DEF ReceiptPhases
<1>. HIDE DEF m
<1>3. InHand(w) /\ OneLibrary
  BY DEF SelectionInv, PerWorker
<1>4. row \in ControlRows /\ row.db = "target" /\ n \in Nat /\ sel[w].before \in ControlRows
  BY <1>1, <1>3 DEF InHand, ControlRows, Choosing
<1>5. e \in Leases /\ e.rev = n /\ e.after = row /\ e # NoRecord /\ row # NoRecord
      /\ row = [db |-> "target", rev |-> n]
  BY <1>4, SelectionAssumption DEF Leases, ControlRows
<1>. HIDE DEF e, n
<1>6. lib["target"] \in LibraryRows /\ "target" \in Libraries /\ lib \in [Libraries -> LibraryRows]
  BY DEF SelectionInv, SelectionShape, Libraries
<1>7. /\ r \in LibraryRows /\ r.has = lib["target"].has /\ r.rev = n /\ r.gate = lib["target"].gate
      /\ r.lease = e /\ r.marker = m
  BY <1>2, <1>4, <1>5, <1>6 DEF LibraryRows
<1>. HIDE DEF r
<1>8. /\ lib' \in [Libraries -> LibraryRows] /\ Target'.has = Target.has /\ Target'.rev = n
      /\ Target'.lease = e /\ Target'.marker = m /\ Target'.gate = Target.gate + 1 /\ Source' = Source
      /\ lib'["source"] = lib["source"]
  BY <1>1, <1>6, <1>7, Written DEF Source, Target, Libraries
<1>9. Moves(w, "reserved") /\ sel' \in [Workers -> Selections]
  BY <1>1, MovesOn DEF SelPhases
<1>10. SelectionShape'
  BY <1>1, <1>8, <1>9 DEF SelectionInv, SelectionShape
<1>11. ~ Moving /\ ~ Moved /\ local.db = "source"
  BY <1>1, <1>2, <1>3, Gates DEF OneLibrary, Moved, Libraries
<1>12. ~ Moving' /\ ~ Moved'
  BY <1>1, <1>8, <1>11 DEF Moving, Moved
<1>13. Onward
  BY <1>1, <1>8, <1>11, <1>12, Gates DEF Onward
<1>14. OneLibrary'
  BY <1>1, <1>2, <1>3, <1>5, <1>8, <1>9, <1>11, <1>12 DEF OneLibrary, Moves
<1>15. LeaseHolds'
  <2>1. \A other \in inFlight : other.db = "source"
    BY <1>1 DEF SelectionInv, SelectionShape, LeaseHolds, ControlRows, Libraries, Target
  <2>. QED
    BY <1>1, <1>4, <1>5, <1>8, <1>11, <2>1 DEF SelectionInv, LeaseHolds, Libraries, Source, Target
<1>16. \A v \in Workers : open[v] # "target"
  BY <1>3, <1>11 DEF OneLibrary
<1>17. OneSaver' /\ \A v \in Workers : SaveHolds(v)'
  BY <1>1, <1>8, <1>16 DEF SelectionInv, PerWorker, InHand, OneSaver, Saving, SaveHolds, Libraries
<1>18. \A v \in Workers : InHand(v)'
  BY <1>1, <1>4, <1>9 DEF SelectionInv, PerWorker, InHand, Moves, Choosing
<1>19. SourceRead(w)' /\ TargetRead(w)' /\ Chosen(w)'
  BY <1>2, <1>5, <1>8, <1>9 DEF SourceRead, TargetRead, Chosen, Moves, Choosing
<1>20. \A v \in Workers : sel[v].pc \notin Choosing
  BY <1>1 DEF SelectionInv, PerWorker, Chosen
<1>21. (\A v \in Workers \ {w} : Chosen(v)') /\ OneChosen'
  BY <1>9, <1>20 DEF Chosen, OneChosen, Choosing, Moves
<1>22. SentOnce'
  BY <1>1, <1>11 DEF SelectionInv, SentOnce
<1>. QED
  BY <1>9, <1>10, <1>13, <1>14, <1>15, <1>17, <1>18, <1>19, <1>21, <1>22, OthersRead DEF SelectionInv, PerWorker

LEMMA CleanTargetInv ==
  ASSUME SelectionInv, NEW w \in Workers, CleanTarget(w)
  PROVE  SelectionInv'
<1>. DEFINE row == sel[w].after
            r == [lib["target"] EXCEPT !.lease = NoRecord, !.marker = NoRecord]
<1>1. /\ sel[w].pc = "selected" /\ Step(w, "cleaned") /\ Write("target", r)
      /\ UNCHANGED <<local, inFlight, open, save, libraryEdits, ops, sent, told>>
  BY DEF CleanTarget, At, outcome, counters
<1>2. InHand(w) /\ OneLibrary /\ Chosen(w)
  BY DEF SelectionInv, PerWorker
<1>3. row \in ControlRows /\ row.db = "target"
  BY <1>1, <1>2 DEF InHand, Choosing
<1>4. /\ Target.marker # NoRecord /\ Target.lease.after = row /\ Target.lease # NoRecord
      /\ Source.marker # NoRecord /\ Source.marker.phase = "selected" /\ local = row /\ row \notin inFlight
  BY <1>1, <1>2 DEF Chosen, Choosing
<1>5. lib["target"] \in LibraryRows /\ "target" \in Libraries /\ lib \in [Libraries -> LibraryRows]
  BY DEF SelectionInv, SelectionShape, Libraries
<1>6. /\ r \in LibraryRows /\ r.has = lib["target"].has /\ r.rev = lib["target"].rev
      /\ r.gate = lib["target"].gate /\ r.lease = NoRecord /\ r.marker = NoRecord
  BY <1>5 DEF LibraryRows
<1>. HIDE DEF r
<1>7. /\ lib' \in [Libraries -> LibraryRows] /\ Target'.has = Target.has /\ Target'.rev = Target.rev
      /\ Target'.lease = NoRecord /\ Target'.marker = NoRecord /\ Target'.gate = Target.gate + 1
      /\ Source' = Source /\ lib'["source"] = lib["source"]
  BY <1>1, <1>5, <1>6, Written DEF Source, Target, Libraries
<1>8. Moves(w, "cleaned") /\ sel' \in [Workers -> Selections]
  BY <1>1, MovesOn DEF SelPhases
<1>9. SelectionShape'
  BY <1>1, <1>7, <1>8 DEF SelectionInv, SelectionShape
<1>10. Moving /\ ~ Moved /\ Moving' /\ Moved'
  BY <1>1, <1>3, <1>4, <1>7 DEF Moving, Moved
<1>11. Onward
  BY <1>7, <1>10, Gates DEF Onward
<1>12. OneLibrary'
  BY <1>1, <1>2, <1>3, <1>4, <1>7, <1>8, <1>10 DEF OneLibrary, Moves
<1>13. LeaseHolds'
  <2>1. inFlight = {}
    <3>. SUFFICES ASSUME NEW other \in inFlight PROVE FALSE
      OBVIOUS
    <3>1. other.db \in Libraries
      BY DEF SelectionInv, SelectionShape, ControlRows
    <3>2. lib[other.db].lease # NoRecord /\ lib[other.db].lease.after = other
      BY DEF SelectionInv, LeaseHolds
    <3>3. Source.lease = NoRecord
      BY <1>2, <1>4 DEF OneLibrary
    <3>. QED
      BY <1>4, <3>1, <3>2, <3>3 DEF Libraries, Source, Target
  <2>. QED
    BY <1>1, <1>3, <1>4, <1>7, <2>1 DEF SelectionInv, LeaseHolds, Libraries, Source, Target
<1>14. \A v \in Workers : open[v] # "target"
  BY <1>2, <1>10 DEF OneLibrary
<1>15. OneSaver' /\ \A v \in Workers : SaveHolds(v)'
  BY <1>1, <1>7, <1>14 DEF SelectionInv, PerWorker, InHand, OneSaver, Saving, SaveHolds, Libraries
<1>16. \A v \in Workers : InHand(v)'
  BY <1>1, <1>3, <1>8 DEF SelectionInv, PerWorker, InHand, Moves, Choosing
<1>17. SourceRead(w)' /\ TargetRead(w)' /\ Chosen(w)'
  BY <1>8 DEF SourceRead, TargetRead, Chosen, Moves, Choosing
<1>18. \A v \in Workers : sel'[v].pc \notin Choosing
  BY <1>1, <1>8 DEF SelectionInv, OneChosen, Moves, Choosing
<1>19. (\A v \in Workers \ {w} : Chosen(v)') /\ OneChosen'
  BY <1>18 DEF Chosen, OneChosen, Choosing
<1>20. SentOnce'
  BY <1>1, <1>10, <1>18 DEF SelectionInv, SentOnce, Choosing
<1>. QED
  BY <1>8, <1>9, <1>11, <1>12, <1>13, <1>15, <1>16, <1>17, <1>19, <1>20, OthersRead DEF SelectionInv, PerWorker

LEMMA DispatchRowInv ==
  ASSUME SelectionInv, NEW w \in Workers, DispatchRow(w)
  PROVE  SelectionInv'
<1>. DEFINE row == sel[w].after
<1>1. /\ sel[w].pc = "checked" /\ Step(w, "sent") /\ inFlight' = inFlight \union {row} /\ sent' = sent + 1
      /\ UNCHANGED <<local, lib, open, save, libraryEdits, ops, told>>
  BY DEF DispatchRow, At, counters
<1>2. InHand(w) /\ OneLibrary /\ Chosen(w) /\ SentOnce /\ sent \in Nat
  BY DEF SelectionInv, PerWorker, SelectionShape
<1>3. row \in ControlRows /\ row.db = "target"
  BY <1>1, <1>2 DEF InHand, Choosing
<1>4. sent = 0
  BY <1>1, <1>2 DEF SentOnce
<1>5. /\ local.db # "target" /\ \A other \in inFlight : other.db # "target"
      /\ Target.lease # NoRecord /\ Target.lease.after = row /\ Moving
      /\ Target.marker # NoRecord /\ Target.marker.phase = "dispatched"
  BY <1>1, <1>2, <1>4 DEF SentOnce, Chosen, Choosing
<1>6. Moves(w, "sent") /\ sel' \in [Workers -> Selections]
  BY <1>1, MovesOn DEF SelPhases
<1>7. SelectionShape'
  BY <1>1, <1>2, <1>3, <1>6 DEF SelectionInv, SelectionShape
<1>8. /\ Source' = Source /\ Target' = Target /\ (Moving' <=> Moving) /\ (Moved' <=> Moved)
  BY <1>1 DEF Source, Target, Moving, Moved
<1>9. OneLibrary'
  BY <1>1, <1>2, <1>6, <1>8 DEF OneLibrary, Moves
<1>10. LeaseHolds'
  <2>1. lib[row.db].lease # NoRecord /\ lib[row.db].lease.after = row /\ row # local
    BY <1>3, <1>5 DEF Target
  <2>. QED
    BY <1>1, <1>5, <1>8, <2>1 DEF SelectionInv, LeaseHolds
<1>11. OneSaver'
  BY <1>1 DEF SelectionInv, OneSaver, Saving
<1>12. \A v \in Workers : InHand(v)'
  BY <1>1, <1>3, <1>6 DEF SelectionInv, PerWorker, InHand, Moves, Choosing
<1>13. \A v \in Workers : SaveHolds(v)'
  <2>. SUFFICES ASSUME NEW v \in Workers PROVE SaveHolds(v)'
    OBVIOUS
  <2>1. SaveHolds(v)
    BY DEF SelectionInv, PerWorker
  <2>2. save[v].pc = "prepared" => save[v].lease.after.db = open[v]
    BY <2>1 DEF SaveHolds
  <2>3. open[v] # "target"
    BY <1>2, <1>5 DEF OneLibrary, Moved
  <2>. QED
    BY <1>1, <1>3, <2>1, <2>2, <2>3 DEF SaveHolds
<1>14. Onward
  BY <1>8, Gates DEF Onward
<1>15. SourceRead(w)' /\ TargetRead(w)' /\ Chosen(w)'
  BY <1>1, <1>2, <1>5, <1>6, <1>8 DEF SourceRead, TargetRead, Chosen, Moves, Choosing
<1>16. \A v \in Workers \ {w} : sel'[v].pc \notin Choosing
  BY <1>1, <1>6 DEF SelectionInv, OneChosen, Moves, Choosing
<1>17. (\A v \in Workers \ {w} : Chosen(v)') /\ OneChosen'
  BY <1>16 DEF Chosen, OneChosen, Choosing
<1>18. SentOnce'
  BY <1>1, <1>2, <1>4, <1>5, <1>6, <1>8, <1>16 DEF SentOnce, Moves, Choosing
<1>. QED
  BY <1>6, <1>7, <1>9, <1>10, <1>11, <1>12, <1>13, <1>14, <1>15, <1>17, <1>18, OthersRead DEF SelectionInv, PerWorker

-----------------------------------------------------------------------------
(* The storage, and the life of a worker. *)
LEMMA RowLandsInv ==
  ASSUME SelectionInv, NEW row \in inFlight, RowLands(row)
  PROVE  SelectionInv'
<1>1. /\ local' = row /\ inFlight' = inFlight \ {row}
      /\ UNCHANGED <<lib, open, sel, save, libraryEdits, ops, sent, told>>
  BY DEF RowLands, outcome, counters
<1>2. row \in ControlRows /\ row.db \in Libraries /\ row.rev \in Nat
  BY DEF SelectionInv, SelectionShape, ControlRows
<1>3. /\ lib[row.db].lease # NoRecord /\ lib[row.db].lease.after = row
      /\ row.db = "target" => Moving /\ sent = 1
  BY DEF SelectionInv, LeaseHolds, SentOnce
<1>4. row.rev <= lib[row.db].rev
  <2>1. lib[row.db].lease.rev <= lib[row.db].rev
    BY <1>2, <1>3 DEF SelectionInv, LeaseHolds
  <2>2. row = [db |-> row.db, rev |-> lib[row.db].lease.rev]
    BY <1>2, <1>3, SelectionAssumption DEF SelectionInv, LeaseHolds
  <2>3. row.rev = lib[row.db].lease.rev
    BY <2>2
  <2>. QED
    BY <2>1, <2>3
<1>5. OneLibrary
  BY DEF SelectionInv
<1>6. row.db = "source" => Source.marker = NoRecord /\ ~ Moving
  BY <1>3, <1>5 DEF OneLibrary, Source, Moving
<1>7. Source' = Source /\ Target' = Target /\ (Moving' <=> Moving)
  BY <1>1 DEF Source, Target, Moving
<1>8. Moved' <=> Moved
  BY <1>1, <1>2, <1>5, <1>6, <1>7 DEF Moved, Moving, OneLibrary, Libraries
<1>9. SelectionShape'
  BY <1>1, <1>2 DEF SelectionInv, SelectionShape
<1>10. OneLibrary'
  BY <1>1, <1>2, <1>3, <1>5, <1>6, <1>7, <1>8 DEF OneLibrary, Libraries
<1>11. LeaseHolds'
  <2>1. row # NoRecord
    BY <1>2, SelectionAssumption
  <2>. QED
    BY <1>1, <1>2, <1>3, <1>4, <1>7, <2>1 DEF SelectionInv, LeaseHolds
<1>12. OneSaver' /\ OneChosen' /\ \A v \in Workers : InHand(v)'
  BY <1>1 DEF SelectionInv, PerWorker, OneSaver, Saving, OneChosen, InHand
<1>13. \A v \in Workers : SaveHolds(v)'
  BY <1>1 DEF SelectionInv, PerWorker, SaveHolds
<1>14. \A v \in Workers : SourceRead(v)' /\ TargetRead(v)'
  BY <1>1, <1>7, <1>8 DEF SelectionInv, PerWorker, SourceRead, TargetRead
<1>15. \A v \in Workers : Chosen(v)'
  <2>1. \A v \in Workers : sel[v].pc \notin {"seen", "selected"}
    BY <1>2, <1>3, <1>6 DEF SelectionInv, PerWorker, Chosen, Choosing, Moving, Target, Libraries
  <2>. QED
    BY <1>1, <1>7, <2>1 DEF SelectionInv, PerWorker, Chosen
<1>16. SentOnce'
  BY <1>1, <1>3, <1>7 DEF SelectionInv, SentOnce
<1>. QED
  BY <1>9, <1>10, <1>11, <1>12, <1>13, <1>14, <1>15, <1>16 DEF SelectionInv, PerWorker

LEMMA RowRejectedInv ==
  ASSUME SelectionInv, NEW row \in inFlight, RowRejected(row)
  PROVE  SelectionInv'
<1>1. /\ inFlight' = inFlight \ {row} /\ UNCHANGED <<local, lib, open, sel, save, libraryEdits, ops, sent, told>>
  BY DEF RowRejected, outcome
<1>2. Source' = Source /\ Target' = Target /\ (Moving' <=> Moving) /\ (Moved' <=> Moved)
  BY <1>1 DEF Source, Target, Moving, Moved
<1>3. SelectionShape' /\ OneLibrary' /\ LeaseHolds'
  BY <1>1, <1>2 DEF SelectionInv, SelectionShape, OneLibrary, LeaseHolds
<1>4. OneSaver' /\ OneChosen' /\ SentOnce' /\ \A v \in Workers : InHand(v)'
  BY <1>1, <1>2 DEF SelectionInv, PerWorker, OneSaver, Saving, OneChosen, InHand, SentOnce
<1>5. \A v \in Workers : SaveHolds(v)'
  BY <1>1 DEF SelectionInv, PerWorker, SaveHolds
<1>6. \A v \in Workers : SourceRead(v)' /\ TargetRead(v)' /\ Chosen(v)'
  BY <1>1, <1>2 DEF SelectionInv, PerWorker, SourceRead, TargetRead, Chosen
<1>. QED
  BY <1>3, <1>4, <1>5, <1>6 DEF SelectionInv, PerWorker

(* A worker that begins or ends has nothing in hand. *)
LEMMA NothingInHand ==
  ASSUME SelectionInv, NEW w \in Workers, UNCHANGED <<local, lib, inFlight, libraryEdits, ops, sent, told>>,
         NEW o \in Libraries \union {"off", "refused"}, NEW s \in Saves,
         open' = [open EXCEPT ![w] = o], save' = [save EXCEPT ![w] = s],
         sel' \in [Workers -> Selections], sel'[w].pc = "none", \A v \in Workers \ {w} : sel'[v] = sel[v],
         s.pc \in {"idle", "recover"}, o \notin Libraries => s.pc = "idle", o = "target" => Moved
  PROVE  SelectionInv'
<1>1. /\ open'[w] = o /\ save'[w] = s /\ \A v \in Workers \ {w} : open'[v] = open[v] /\ save'[v] = save[v]
  BY DEF SelectionInv, SelectionShape
<1>2. Source' = Source /\ Target' = Target /\ (Moving' <=> Moving) /\ (Moved' <=> Moved)
  BY DEF Source, Target, Moving, Moved
<1>3. SelectionShape'
  BY DEF SelectionInv, SelectionShape
<1>4. OneLibrary'
  BY <1>1, <1>2 DEF SelectionInv, OneLibrary
<1>5. LeaseHolds' /\ SentOnce' /\ OneChosen'
  BY <1>2 DEF SelectionInv, LeaseHolds, SentOnce, OneChosen, Choosing
<1>6. OneSaver'
  BY <1>1 DEF SelectionInv, OneSaver, Saving
<1>7. \A v \in Workers : InHand(v)' /\ SaveHolds(v)' /\ SourceRead(v)' /\ TargetRead(v)' /\ Chosen(v)'
  <2>. SUFFICES ASSUME NEW v \in Workers
                PROVE  InHand(v)' /\ SaveHolds(v)' /\ SourceRead(v)' /\ TargetRead(v)' /\ Chosen(v)'
    OBVIOUS
  <2>1. CASE v = w
    BY <1>1, <2>1 DEF InHand, SaveHolds, SourceRead, TargetRead, Chosen, Choosing
  <2>2. CASE v # w
    <3>1. InHand(v) /\ SaveHolds(v) /\ SourceRead(v) /\ TargetRead(v) /\ Chosen(v)
      BY DEF SelectionInv, PerWorker
    <3>2. open'[v] = open[v] /\ save'[v] = save[v] /\ sel'[v] = sel[v]
      BY <1>1, <2>2
    <3>. QED
      BY <1>2, <3>1, <3>2 DEF InHand, SaveHolds, SourceRead, TargetRead, Chosen
  <2>. QED
    BY <2>1, <2>2
<1>. QED
  BY <1>3, <1>4, <1>5, <1>6, <1>7 DEF SelectionInv, PerWorker

LEMMA StartWorkerInv ==
  ASSUME SelectionInv, NEW w \in Workers, StartWorker(w)
  PROVE  SelectionInv'
<1>. DEFINE o == IF SourceReceipt = NoRecord
                 THEN IF local.db = "source" THEN "source" ELSE "refused"
                 ELSE IF Selected THEN "target" ELSE "refused"
            s == [save[w] EXCEPT !.pc = IF o = "refused" THEN "idle" ELSE "recover"]
<1>1. /\ open[w] = "off" /\ open' = [open EXCEPT ![w] = o]
      /\ UNCHANGED <<local, lib, inFlight, sel, libraryEdits, ops, sent, told>>
  BY DEF StartWorker, outcome, counters
<1>2. o \in Libraries \union {"off", "refused"} /\ (o \notin Libraries => o = "refused")
  BY DEF Libraries
<1>3. open \in [Workers -> Libraries \union {"off", "refused"}] /\ save[w] \in Saves
  BY DEF SelectionInv, SelectionShape
<1>4. o = "target" => Moved
  BY DEF Selected, SourceReceipt, Moved, Source, Target
<1>5. open'[w] = o
  BY <1>1, <1>3
<1>6. save' = [save EXCEPT ![w] = s]
  BY <1>5 DEF StartWorker
<1>7. s \in Saves /\ s.pc \in {"idle", "recover"} /\ (o = "refused" => s.pc = "idle")
  BY <1>3 DEF Saves, SavePhases
<1>8. sel[w].pc = "none" /\ sel \in [Workers -> Selections]
  BY <1>1 DEF SelectionInv, PerWorker, InHand, SelectionShape, Libraries
<1>. HIDE DEF o, s
<1>. QED
  BY <1>1, <1>2, <1>4, <1>6, <1>7, <1>8, NothingInHand

LEMMA WorkerLostInv ==
  ASSUME SelectionInv, NEW w \in Workers, WorkerLost(w)
  PROVE  SelectionInv'
<1>1. /\ open' = [open EXCEPT ![w] = "off"] /\ save' = [save EXCEPT ![w] = NoSave]
      /\ sel' = [sel EXCEPT ![w] = NoSelection]
      /\ UNCHANGED <<local, lib, inFlight, libraryEdits, ops, sent, told>>
  BY DEF WorkerLost, outcome
<1>2. NoSave \in Saves /\ NoSave.pc = "idle"
  BY DEF NoSave, Saves, SavePhases
<1>3. NoSelection \in Selections /\ NoSelection.pc = "none"
  BY DEF NoSelection, Selections, SelPhases
<1>4. /\ sel' \in [Workers -> Selections] /\ sel'[w].pc = "none"
      /\ \A v \in Workers \ {w} : sel'[v] = sel[v]
  BY <1>1, <1>3 DEF SelectionInv, SelectionShape
<1>. QED
  <2>. DEFINE o == "off"
              s == NoSave
  <2>1. o \in Libraries \union {"off", "refused"} /\ o # "target" /\ s \in Saves /\ s.pc = "idle"
    BY <1>2
  <2>2. open' = [open EXCEPT ![w] = o] /\ save' = [save EXCEPT ![w] = s]
    BY <1>1
  <2>. HIDE DEF o, s
  <2>. QED
    BY <1>1, <1>4, <2>1, <2>2, NothingInHand

-----------------------------------------------------------------------------
LEMMA SelectionInvNext ==
  ASSUME SelectionInv, [SelectionNext]_selectionVars
  PROVE  SelectionInv'
<1>1. CASE UNCHANGED selectionVars
  BY <1>1 DEF selectionVars, counters, outcome, SelectionInv, SelectionShape, OneLibrary, LeaseHolds,
     PerWorker, OneSaver, OneChosen, SentOnce, InHand, SaveHolds, SourceRead, TargetRead, Chosen,
     Source, Target, Moving, Moved, Saving
<1>2. ASSUME NEW w \in Workers, Selecting(w) PROVE SelectionInv'
  BY <1>2, CutSourceInv, AskingInv, ReadRowsInv, PreparedInv, LeavingInv, MarkSourceInv, MarkTargetInv,
     ReadyInv, ReserveTargetInv, DispatchSourceInv, DispatchRowInv, ObserveInv, SelectSourceInv,
     CleanTargetInv DEF Selecting
<1>3. ASSUME NEW w \in Workers, Ordinary(w) PROVE SelectionInv'
  BY <1>3, EditInv, ReserveSaveInv, PrepareSaveInv, SendSaveInv, ReleaseSaveInv, DroppedInv,
     RecoverSaveInv DEF Ordinary
<1>4. ASSUME NEW w \in Workers, StartWorker(w) \/ WorkerLost(w) \/ CancelReview(w) PROVE SelectionInv'
  BY <1>4, StartWorkerInv, WorkerLostInv, LeavingInv
<1>5. ASSUME NEW row \in inFlight, RowLands(row) \/ RowRejected(row) PROVE SelectionInv'
  BY <1>5, RowLandsInv, RowRejectedInv
<1>. QED
  BY <1>1, <1>2, <1>3, <1>4, <1>5 DEF SelectionNext

LEMMA SelectionInvImplies ==
  ASSUME SelectionInv
  PROVE  /\ SelectionTypeOK /\ OneWritableLibrary /\ NoEditLost
         /\ SelectedIsVisible /\ OneDispatch /\ ToldIsTrue
<1>1. SelectionTypeOK
  <2>1. \A l \in Libraries :
          /\ lib[l].has \subseteq 0..MaxLibraryEdits /\ lib[l].rev \in Nat /\ lib[l].gate \in Nat
          /\ lib[l].lease # NoRecord => lib[l].lease.before \in ControlRows
          /\ lib[l].marker # NoRecord => lib[l].marker.phase \in ReceiptPhases
    BY DEF SelectionInv, SelectionShape, LibraryRows, Leases, Receipts
  <2>. QED
    BY <2>1 DEF SelectionInv, SelectionShape, SelectionTypeOK
<1>2. OneWritableLibrary
  BY DEF SelectionInv, OneLibrary, OneWritableLibrary, Moving, Moved, SourceReceipt, Source
<1>3. NoEditLost
  BY DEF SelectionInv, OneLibrary, NoEditLost, Moved, Source, Target
<1>4. SelectedIsVisible
  <2>. SUFFICES ASSUME Source.marker # NoRecord, Source.marker.phase = "selected"
                PROVE  local.db = "target" /\ \A row \in inFlight : row.db = "target"
    BY DEF SelectedIsVisible, SourceReceipt, Source
  <2>1. local.db = "target" /\ Source.lease = NoRecord
    BY DEF SelectionInv, OneLibrary
  <2>2. ASSUME NEW row \in inFlight PROVE row.db = "target"
    BY <2>1 DEF SelectionInv, SelectionShape, LeaseHolds, ControlRows, Libraries, Source
  <2>. QED
    BY <2>1, <2>2
<1>5. OneDispatch /\ ToldIsTrue
  BY DEF SelectionInv, SentOnce, OneDispatch, OneLibrary, ToldIsTrue, Moved, SourceReceipt, Source, Target
<1>. QED
  BY <1>1, <1>2, <1>3, <1>4, <1>5

LEMMA RowsGoForward ==
  ASSUME SelectionInv, [SelectionNext]_selectionVars
  PROVE  local.db = "target" => local'.db = "target"
<1>. SUFFICES ASSUME local.db = "target" PROVE local'.db = "target"
  OBVIOUS
<1>1. Source.lease = NoRecord
  BY DEF SelectionInv, OneLibrary, Moving
<1>2. \A row \in inFlight : row.db = "target"
  BY <1>1 DEF SelectionInv, SelectionShape, LeaseHolds, ControlRows, Libraries, Source
<1>3. local' = local \/ \E row \in inFlight : RowLands(row)
  BY DEF SelectionNext, selectionVars, Selecting, Ordinary, Edit, ReserveSave, PrepareSave, SendSave,
     ReleaseSave, Dropped, RecoverSave, RowRejected, CutSource, CutTarget, ReadRows, Prepared, Admit,
     GiveUp, MarkSource, MarkTarget, Ready, ReserveTarget, DispatchSource, RecheckRow, DispatchRow,
     Observe, SelectSource, CleanTarget, FinishSelection, StartWorker, WorkerLost, CancelReview
<1>. QED
  BY <1>2, <1>3 DEF RowLands

(* There is one writable library, it has every edit of the one it replaced, *)
(* receipts and answers tell the truth, a selection is dispatched once and *)
(* there is no way back, for any number of workers, saves, selections,     *)
(* losses and late writes (application-generation-selection.js).           *)
THEOREM SelectionSafe == SelectionSpec => SelectionIsSound
<1>1. SelectionInit => SelectionInv
  BY SelectionInvInit
<1>2. SelectionInv /\ [SelectionNext]_selectionVars => SelectionInv'
  BY SelectionInvNext
<1>3. SelectionInv => /\ SelectionTypeOK /\ OneWritableLibrary /\ NoEditLost
                      /\ SelectedIsVisible /\ OneDispatch /\ ToldIsTrue
  BY SelectionInvImplies
<1>4. SelectionInv /\ [SelectionNext]_selectionVars =>
        [local.db = "target" => local'.db = "target"]_selectionVars
  BY RowsGoForward
<1>. QED
  BY <1>1, <1>2, <1>3, <1>4, PTL DEF SelectionSpec, SelectionIsSound, NoWayBack
==============================================================================
