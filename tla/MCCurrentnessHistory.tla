------------------------- MODULE MCCurrentnessHistory -------------------------
(* An instance of CurrentnessHistory for TLC. *)
EXTENDS CurrentnessHistory, TLC

CONSTANTS c, d, w

MCOneOwner == [x \in Channels |-> w]
MCPerms == Permutations({c, d})

\* Neither side is disposed, and at most one exchange or connection is lost;
\* GatewayLiveness.cfg has no such bound.
MCLosses == {x \in Channels : exchange[x] = "broken"} \X {"exchange"}
            \cup {x \in Channels : connection[x] = "dropped"} \X {"connection"}
MCBound == ~serviceDisposed /\ ~transportDisposed /\ Cardinality(MCLosses) <= 1
=============================================================================
