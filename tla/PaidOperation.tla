---------------------------- MODULE PaidOperation ----------------------------
(***************************************************************************)
(* What the gateway promises of a paid operation, whatever the ledger, the *)
(* evidence, the runners and the provider do meanwhile: the money held for *)
(* it is released only if it was never sent, it is sent at most once, and  *)
(* it is charged at most once, exactly what the provider billed, within    *)
(* the bound held (services/ai-gateway/PROVIDER-RUNNER.md,                 *)
(* provider-runner.mjs).                                                   *)
(***************************************************************************)
EXTENDS Integers

CONSTANTS
  Ops,    \* paid operations
  Bound   \* the amount held for an operation

VARIABLES
  hold,   \* hold[o]: "none", "held", "released" or "charged"
  sends,  \* sends[o]: physical requests made of the provider
  bill,   \* bill[o]: what the provider billed
  charge  \* charge[o]: what the ledger charged

NoBill == -1

Init ==
  /\ hold = [o \in Ops |-> "none"]
  /\ sends = [o \in Ops |-> 0]
  /\ bill = [o \in Ops |-> NoBill]
  /\ charge = [o \in Ops |-> NoBill]

Hold(o) ==
  /\ hold[o] = "none"
  /\ hold' = [hold EXCEPT ![o] = "held"]
  /\ UNCHANGED <<sends, bill, charge>>

Send(o) ==
  /\ hold[o] = "held" /\ sends[o] = 0
  /\ sends' = [sends EXCEPT ![o] = 1]
  /\ UNCHANGED <<hold, bill, charge>>

\* Nothing of the service decides what the provider bills, only that it was asked.
Bill(o) ==
  /\ sends[o] = 1 /\ bill[o] = NoBill
  /\ bill'[o] \in Nat
  /\ bill' = [bill EXCEPT ![o] = bill'[o]]
  /\ UNCHANGED <<hold, sends, charge>>

Release(o) ==
  /\ hold[o] = "held" /\ sends[o] = 0
  /\ hold' = [hold EXCEPT ![o] = "released"]
  /\ UNCHANGED <<sends, bill, charge>>

Charge(o) ==
  /\ hold[o] = "held" /\ sends[o] = 1
  /\ bill[o] # NoBill /\ bill[o] <= Bound
  /\ hold' = [hold EXCEPT ![o] = "charged"]
  /\ charge' = [charge EXCEPT ![o] = bill[o]]
  /\ UNCHANGED <<sends, bill>>

Next == \E o \in Ops : Hold(o) \/ Send(o) \/ Bill(o) \/ Release(o) \/ Charge(o)

Spec == Init /\ [][Next]_<<hold, sends, bill, charge>>
=============================================================================
