------------------------------ MODULE PaymentPort ------------------------------
(***************************************************************************)
(* What the client relies on in an LnBackend                               *)
(* (crates/l402-proto/src/port.rs):                                        *)
(* "paid" is said of a payment that has settled, "rejected" only of one    *)
(* that has not and never will.  Anything else is "unknown": such a        *)
(* payment may still be under way, and settle later.                       *)
(***************************************************************************)
CONSTANT Payers

VARIABLES
    fate,       \* per payer: what became of its payment
    outcome     \* per payer: what pay_invoice returned

vars == <<fate, outcome>>

Init ==
    /\ fate = [p \in Payers |-> "none"]
    /\ outcome = [p \in Payers |-> "none"]

Submit(p) ==
    /\ fate[p] = "none" /\ outcome[p] = "none"
    /\ \E now \in {"in_flight", "succeeded"} : fate' = [fate EXCEPT ![p] = now]
    /\ UNCHANGED outcome

End(p) ==
    /\ fate[p] = "in_flight"
    /\ \E end \in {"succeeded", "failed"} : fate' = [fate EXCEPT ![p] = end]
    /\ UNCHANGED outcome

Report(p) ==
    /\ outcome[p] = "none"
    /\ \E said \in {"paid", "rejected", "unknown"} :
          /\ said = "paid" => fate[p] = "succeeded"
          /\ said = "rejected" => fate[p] \in {"none", "failed"}
          /\ outcome' = [outcome EXCEPT ![p] = said]
    /\ UNCHANGED fate

Next == \E p \in Payers : Submit(p) \/ End(p) \/ Report(p)

Spec == Init /\ [][Next]_vars
===============================================================================
