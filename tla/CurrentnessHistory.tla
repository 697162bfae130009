------------------------- MODULE CurrentnessHistory -------------------------
(***************************************************************************)
(* CurrentnessChannel with a record of what each owner has vouched for.    *)
(* The record follows the behaviour and constrains nothing.                *)
(***************************************************************************)
EXTENDS CurrentnessChannel

VARIABLES
  latest,   \* latest[w]: what w vouched for last, since it disconnected last
  parted    \* parted[w]: what w gave up to vouch for something else

history == <<latest, parted>>

Voiced(w) == {ident[c] : c \in {d \in Owned(w) : Vouched(d)}}
Disconnects(w) == \E c \in Owned(w) : entry[c] = "attached" /\ entry'[c] = "dropped"

Remember ==
  /\ latest' = [w \in Owners |-> IF Disconnects(w) THEN {}
                                 ELSE IF Voiced(w)' = {} THEN latest[w] ELSE Voiced(w)']
  /\ parted' = [w \in Owners |-> IF Voiced(w)' = {} THEN parted[w]
                                 ELSE parted[w] \cup (latest[w] \ Voiced(w)')]

HistoryInit ==
  /\ Init
  /\ latest = [w \in Owners |-> {}] /\ parted = [w \in Owners |-> {}]
HistorySpec == HistoryInit /\ [][Next /\ Remember]_<<vars, history>>

\* Once an owner has vouched for one generation and then for another without
\* disconnecting in between, it never vouches for the first again, not even
\* after it has disconnected: whichever observations were still under way when
\* it changed, and though each status answer is accepted on its own.
GenerationsNeverAlternate == \A w \in Owners : Voiced(w) \cap parted[w] = {}
=============================================================================
