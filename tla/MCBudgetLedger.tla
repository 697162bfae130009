--------------------------- MODULE MCBudgetLedger ---------------------------
(***************************************************************************)
(* BudgetLedger for TLC, in three settings that need different bounds:     *)
(* money over time, results of jobs with several children, and the cadence *)
(* of maintenance cycles.  part says which setting a behaviour is in, and  *)
(* with it who calls, when, and what may be attested.                      *)
(***************************************************************************)
EXTENDS BudgetLedger, TLC
CONSTANTS r1, r2, q1, q2, q3   \* receipts for money and for results
VARIABLE part

\* An unmapped helper: one request.
Req(op, job, principal, type, child, children) ==
  [op |-> op, job |-> job, principal |-> principal, scope |-> "s", type |-> type,
   child |-> child, children |-> children]

-----------------------------------------------------------------------------
\* Two principals, single-child jobs of one type.
MoneyRequests ==
  {Req("a", "ja", "p", "AI_ASSIST", 0, 1), Req("b", "jb", "p", "AI_ASSIST", 0, 1),
   Req("c", "jc", "q", "AI_ASSIST", 0, 1)}
\* One principal, a two-child job beside a single one.
ResultRequests ==
  {Req("a", "j", "p", "AI_ORGANIZE", 0, 2), Req("b", "j", "p", "AI_ORGANIZE", 1, 2),
   Req("c", "k", "p", "AI_ORGANIZE", 0, 1),
   Req("c", "j", "q", "AI_ORGANIZE", 0, 2),   \* job j claimed by a second principal
   Req("b", "j", "p", "AI_ORGANIZE", 0, 2)}   \* a second request for child 0
\* One principal, two maintenance cycles, the first of two children.
CycleRequests ==
  {Req("a", "j", "p", "AI_MAINTENANCE", 0, 2), Req("b", "j", "p", "AI_MAINTENANCE", 1, 2),
   Req("c", "k", "p", "AI_MAINTENANCE", 0, 1)}
RequestsOf == [money |-> MoneyRequests, results |-> ResultRequests, cycles |-> CycleRequests]
MCRequests == MoneyRequests \cup ResultRequests \cup CycleRequests

\* The clock: days of two ticks in zone 0 (money), of one tick in zone 1.
\* Results are published up to one tick late, the others at once.
TimesOf == [money |-> 0 .. 2, results |-> 0 .. 1, cycles |-> 0 .. 3]
MCTimes == 0 .. 3
MCDayOf == [z \in Zones |-> [t \in Times |-> IF z = 0 THEN t \div 2 ELSE t]]
MCWindowEnd ==
  LET length == [free |-> 3, pro |-> 1]
  IN  [tier \in Tiers |-> [z \in Zones |-> [t \in Times |->
         (t \div length[tier] + 1) * length[tier]]]]
MCInterval == [tier \in Tiers |-> IF tier = "free" THEN 2 ELSE 1]

AttestedIn ==
  [money |-> [facts |-> [tier : {"pro"}, zone : {0}, quote : {1, 2}], zones |-> {0},
              receipts |-> {r1, r2}, outcomes |-> {"FAILED"}, charges |-> {1, 2},
              verdicts |-> {}],
   results |-> [facts |-> [tier : {"free"}, zone : {1}, quote : {1}], zones |-> {1},
                receipts |-> {q1, q2, q3}, outcomes |-> Outcomes, charges |-> {1},
                verdicts |-> Verdicts],
   cycles |-> [facts |-> [tier : Tiers, zone : {1}, quote : {0}], zones |-> {1},
               receipts |-> {}, outcomes |-> {}, charges |-> {}, verdicts |-> {}]]
ReceiptSymmetry == Permutations({r1, r2}) \cup Permutations({q1, q2, q3})

\* Caps of which each one binds: two reservations of p collide on the feature
\* and on the user, those of p and q on the service; one result at a time.
PerType(assist, organize, maintenance) ==
  [type \in Types |-> [tier \in Tiers |->
     CASE type = "AI_ASSIST" -> assist [] type = "AI_ORGANIZE" -> organize [] OTHER -> maintenance]]
MCResultCap == PerType(2, 1, 4)
MCAttemptCap == PerType(2, 2, 4)
MCFeatureDayCap == PerType(2, 3, 4)
MCFeatureMonthCap == PerType(3, 3, 4)
MCUserCap == [tier \in Tiers |-> 3]

-----------------------------------------------------------------------------
PartsInit == part \in {"money", "results", "cycles"} /\ Init
PartStep ==
  \E t \in TimesOf[part] :
    /\ \E r \in RequestsOf[part] : Call(r, t, AttestedIn[part])
    /\ lastNow' \in IF part = "results" THEN TimesOf[part] ELSE {t}
    /\ part' = part
PartsSpec == PartsInit /\ [][PartStep]_<<part, vars>>
=============================================================================
