---------------------------- MODULE MCSyncOrganize ----------------------------
(***************************************************************************)
(* Safety of the extension's longer work that others have a share in: the  *)
(* paid organize job (OrganizeJob), publication from a replica             *)
(* (SyncPublication) and the selection of a library that was copied        *)
(* (GenerationSelection).  They share no state, so part says which is      *)
(* looked at; what does not move stays as it was initialised.              *)
(***************************************************************************)
EXTENDS OrganizeJob, SyncPublication, GenerationSelection, TLC

CONSTANT long   \* the job of three children
VARIABLE part

\* Jobs of one child that take the topic from each other, and a job of three.
OneIsLong == [j \in Jobs |-> IF j = long THEN 3 ELSE 1]
Asking == IF part = "children" THEN {long} ELSE Jobs \ {long}

Symmetry == Permutations(Runs)

-----------------------------------------------------------------------------
PartsInit ==
  /\ part \in {"takeover", "children", "publication", "selection"}
  /\ Init /\ PublicationInit /\ SelectionInit
OrganizeStep ==
  /\ part \in {"takeover", "children"} /\ Next /\ asked' \subseteq Asking
  /\ UNCHANGED <<part, publicationVars, selectionVars>>
PublicationStep ==
  part = "publication" /\ PublicationNext /\ UNCHANGED <<part, vars, selectionVars>>
SelectionStep ==
  part = "selection" /\ SelectionNext /\ UNCHANGED <<part, vars, publicationVars>>
PartsSpec ==
  PartsInit /\ [][OrganizeStep \/ PublicationStep \/ SelectionStep]_
                  <<part, vars, publicationVars, selectionVars>>
=============================================================================
