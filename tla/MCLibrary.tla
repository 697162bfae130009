----------------------------- MODULE MCLibrary -----------------------------
(***************************************************************************)
(* Safety of the library's works: which inputs the filter hides            *)
(* (SmartFilter), the thoughts made of inputs (EntryUpkeep), whose own     *)
(* properties are checked, and the import of files (ImportLedger).  Each   *)
(* is looked at by itself, part says which; the others stay as they were   *)
(* initialised.                                                            *)
(***************************************************************************)
EXTENDS SmartFilter, EntryUpkeep, TLC

CONSTANTS Tasks, Pages, Sources, s1, s2, Contents, MaxDisturbances    \* ImportLedger
VARIABLES part, task, batch, evidence, grant, pausing, records, ledger, erased, consented, disturbances

importVars == <<task, batch, evidence, grant, pausing, records, ledger, erased, consented, disturbances>>

-----------------------------------------------------------------------------
\* The first release hides every kind of text but what the user writes, the
\* next one takes that back.
HidesFirst == [r \in Releases |-> IF r = 1 THEN Wordings ELSE {}]

\* A file that contradicts itself in its last batch, and one that states a
\* single time and overlaps the first.
Entry(s, x, time) == [source |-> s, text |-> x, time |-> time]
Split == <<<<Entry(s1, 1, 1), Entry(s2, 1, 0)>>, <<Entry(s1, 2, 2)>>>>
Whole == <<<<Entry(s1, 2, 1)>>, <<Entry(s1, 1, 0), Entry(s2, 1, 2)>>>>
TwoFiles == {Split, Whole}
Import ==
  INSTANCE ImportLedger WITH Files <- TwoFiles, Texts <- Contents, purged <- erased

\* Sound because the .cfg names Tasks and Inputs alike.
Symmetry == Permutations(Tasks \cup Inputs) \cup Permutations(Pages)

-----------------------------------------------------------------------------
PartsInit ==
  /\ part \in {"filter", "entries", "import"}
  /\ FilterInit /\ Init /\ Import!Init
FilterStep == part = "filter" /\ FilterNext /\ UNCHANGED <<part, vars, importVars>>
EntriesStep == part = "entries" /\ Next /\ UNCHANGED <<part, filterVars, importVars>>
ImportStep == part = "import" /\ Import!Next /\ UNCHANGED <<part, vars, filterVars>>
PartsSpec ==
  PartsInit /\ [][FilterStep \/ EntriesStep \/ ImportStep]_<<part, vars, filterVars, importVars>>

-----------------------------------------------------------------------------
\* Nothing deleted comes back, a finished import has brought in everything its
\* receipts count, a time is written only if the file agrees on it, and what is
\* over stays over (the properties of ImportLedger).
ImportIsExact ==
  /\ [](/\ Import!TypeOK /\ Import!PurgedStaysPurged /\ Import!FinishedMeansAll
        /\ Import!CountsMatchReceipts)
  /\ Import!TimesAreAgreed /\ Import!OverIsOver
=============================================================================
