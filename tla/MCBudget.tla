------------------------------- MODULE MCBudget -------------------------------
(* Values for the constants of Budget that a cfg cannot write. *)
EXTENDS Budget, TLC

CONSTANTS a, b, example

NoLimits == [per_request_max |-> None, hourly_max |-> None,
             daily_max |-> None, total_max |-> None]

\* No total: what stops the sums over the days is the u64 ceiling.
WindowLimits == [NoLimits EXCEPT !.per_request_max = 3, !.hourly_max = 4, !.daily_max = 5]
TotalOnly == [NoLimits EXCEPT !.total_max = 5]
HourlyOnly == [NoLimits EXCEPT !.hourly_max = 2]
DomainTotal == example :> [NoLimits EXCEPT !.total_max = 3]
DomainWindows == example :> [NoLimits EXCEPT !.hourly_max = 2, !.daily_max = 3]
NoDomains == [d \in {} |-> NoLimits]

CallerSymmetry == Permutations(Callers)
===============================================================================
