---------------------------- MODULE SpendingLimit ----------------------------
(***************************************************************************)
(* What a budget promises, with nothing about ledgers, ids, domains,       *)
(* clocks or locks: money is set aside only while what was spent and what  *)
(* is set aside stay within the limit, what was set aside is given back or *)
(* spent, and spending more than was set aside closes the account, after   *)
(* which nothing more is set aside.                                        *)
(***************************************************************************)
EXTENDS Naturals

CONSTANT Cap     \* the most that may be spent, a natural number

VARIABLES
    spent,      \* what has left the wallet
    aside,      \* what is set aside for payments whose outcome is not known
    open        \* whether more may be set aside

vars == <<spent, aside, open>>

Init == spent = 0 /\ aside = 0 /\ open = TRUE

SetAside ==
    /\ open
    /\ \E amount \in 0 .. Cap :
          /\ spent + aside + amount <= Cap
          /\ aside' = aside + amount
    /\ UNCHANGED <<spent, open>>

GiveBack ==
    /\ \E amount \in 0 .. aside : aside' = aside - amount
    /\ UNCHANGED <<spent, open>>

\* A payment of at most what was set aside for it; it may still close the account.
Spend ==
    /\ \E amount \in 0 .. aside :
          /\ aside' = aside - amount
          /\ spent' \in spent .. (spent + amount)
    /\ open' \in {open, FALSE}

Overspend ==
    /\ \E amount \in 0 .. aside : aside' = aside - amount
    /\ spent' \in Nat
    /\ spent' >= spent
    /\ open' = FALSE

Next == SetAside \/ GiveBack \/ Spend \/ Overspend

Spec == Init /\ [][Next]_vars
===============================================================================
