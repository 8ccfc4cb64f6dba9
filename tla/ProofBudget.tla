----------------------------- MODULE ProofBudget -----------------------------
(***************************************************************************)
(* What a reserve gate promises, with nothing of how: each proof is a      *)
(* budget.  Claims in circulation when the proof lands are charged to it,  *)
(* every claim issued afterwards is charged to it, and nothing is ever     *)
(* refunded: redeeming burns a claim, and only the next proof learns of it.*)
(***************************************************************************)
EXTENDS Integers

VARIABLES supply, charged, proven

Settle ==
    /\ supply' > supply
    /\ charged' = charged + (supply' - supply)
    /\ charged' <= proven
    /\ UNCHANGED proven

Redeem ==
    /\ supply' < supply
    /\ UNCHANGED <<charged, proven>>

NewProof ==
    /\ charged' = supply
    /\ proven' \in Nat
    /\ UNCHANGED supply

\* The same proof told differently: another figure, the same charges.
Restate ==
    /\ proven' \in Nat
    /\ UNCHANGED <<supply, charged>>

Init == supply = 0 /\ charged = 0 /\ proven \in Nat

Next == Settle \/ Redeem \/ NewProof \/ Restate

Spec == Init /\ [][Next]_<<supply, charged, proven>>
==============================================================================
