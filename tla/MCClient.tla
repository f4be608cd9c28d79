------------------------------- MODULE MCClient -------------------------------
(* Values for the constants of Client that a cfg cannot write. *)
EXTENDS Client, TLC

CONSTANTS r1, r2, r3, page, other, example, i1, i2

NoLimits == [per_request_max |-> None, hourly_max |-> None,
             daily_max |-> None, total_max |-> None]
TotalOfThree == [NoLimits EXCEPT !.total_max = 3]
DomainOfThree == example :> TotalOfThree
NoDomains == [d \in {} |-> NoLimits]

ToPage == [r \in Requests |-> page]
ToBoth == [r \in Requests |-> IF r = r3 THEN other ELSE page]
OnExample == [u \in Urls |-> example]
AnyInvoice == [u \in Urls |-> Invoices]
OneAndTwo == (i1 :> 1) @@ (i2 :> 2)

RequestSymmetry == Permutations(Requests)
===============================================================================
