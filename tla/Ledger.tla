-------------------------------- MODULE Ledger --------------------------------
(***************************************************************************)
(* The arithmetic of crates/l402-core/src/budget.rs: what a Ledger admits  *)
(* and records, and what a reservation, a release and a settlement do to   *)
(* the BudgetState they change under one lock.  Every operator is a pure   *)
(* function of the values it is given, so that the budget tracker (module  *)
(* Budget) and the client (module Client) take the same steps.             *)
(*                                                                         *)
(* Amounts are u64: MaxU64 stands for u64::MAX and is small under TLC.     *)
(* Sums of amounts are counted, one pair <<id, n>> for each satoshi of     *)
(* each entry, which gives the proofs a sum without recursion.             *)
(***************************************************************************)
EXTENDS Integers, FiniteSets

CONSTANTS
    MaxU64,         \* u64::MAX
    MaxId,          \* u64::MAX as the last value of next_id
    None,           \* Option::None
    SecondsPerHour, \* 3600, the length of an hourly bucket
    SecondsPerDay,  \* 86400, the length of a daily bucket
    KeepHours,      \* 48, how many hours back a bucket is retained
    KeepDays,       \* 2
    Domains         \* host names that requests are charged to

ASSUME NumbersAssumption ==
    /\ MaxU64 \in Nat
    /\ MaxId \in Nat
    /\ SecondsPerHour \in Nat \ {0}
    /\ SecondsPerDay \in Nat \ {0}
    /\ KeepHours \in Nat
    /\ KeepDays \in Nat

ASSUME NoneAssumption == None \notin Int /\ None \notin Domains

U64 == 0 .. MaxU64

\* u64::saturating_add, applied to the exact sum.
Saturated(n) == IF n > MaxU64 THEN MaxU64 ELSE n

\* HashMap::insert and HashMap::remove on a map kept as a function.
With(map, key, value) ==
    [k \in DOMAIN map \cup {key} |-> IF k = key THEN value ELSE map[k]]
Without(map, key) == [k \in DOMAIN map \ {key} |-> map[k]]

\* A map with some of the keys and with such values.
IsMap(map, keys, values) == DOMAIN map \subseteq keys /\ map \in [DOMAIN map -> values]

Hour(time) == time \div SecondsPerHour
Day(time) == time \div SecondsPerDay

\* The satoshis of the entries ids of a map from ids to records with an
\* amount, and how many they are.
Satoshis(map, ids) == {s \in ids \X (1 .. MaxU64) : s[2] <= map[s[1]].amount}
Sum(map, ids) == Cardinality(Satoshis(map, ids))

\* The entries charged to a domain.
IdsOf(map, domain) == {i \in DOMAIN map : map[i].domain = domain}

-----------------------------------------------------------------------------
(* Ledger: the settled spending of the wallet or of one domain.            *)

Limit == U64 \cup {None}
BudgetType == [per_request_max : Limit, hourly_max : Limit,
               daily_max : Limit, total_max : Limit]

\* A ledger whose settlements are none later than latest.
IsLedger(ledger, latest) ==
    /\ ledger \in [total : U64, hourly : {ledger.hourly}, daily : {ledger.daily}]
    /\ IsMap(ledger.hourly, 0 .. Hour(latest), U64)
    /\ IsMap(ledger.daily, 0 .. Day(latest), U64)

NewLedger == [total |-> 0, hourly |-> [h \in {} |-> 0], daily |-> [d \in {} |-> 0]]

Bucket(buckets, key) == IF key \in DOMAIN buckets THEN buckets[key] ELSE 0

Within(spent, amount, limit) == limit # None => spent + amount <= limit

\* Mutants: no ceiling for a wallet without limits; the hour's reservations forgotten.
AllowsWithoutCeiling(ledger, budget, amount, pending, now) ==
    /\ Within(0, amount, budget.per_request_max)
    /\ Within(Saturated(ledger.total + pending), amount, budget.total_max)

AllowsIgnoringReservations(ledger, budget, amount, pending, now) ==
    /\ Within(ledger.total, amount, budget.total_max)
    /\ Within(Bucket(ledger.hourly, Hour(now)), amount, budget.hourly_max)
    /\ Within(ledger.total, amount, MaxU64)

\* Ledger::allowance does not fail: amount still fits under every limit.
Allows(ledger, budget, amount, pending, now) ==
    /\ Within(0, amount, budget.per_request_max)
    /\ Within(Saturated(ledger.total + pending), amount, budget.total_max)
    /\ Within(Saturated(Bucket(ledger.hourly, Hour(now)) + pending),
              amount, budget.hourly_max)
    /\ Within(Saturated(Bucket(ledger.daily, Day(now)) + pending),
              amount, budget.daily_max)
    /\ Within(Saturated(ledger.total + pending), amount, MaxU64)

\* Mutants: a sum that is not saturated; a bucket overwritten, not added to.
ChargedUnsaturated(buckets, key, amount) ==
    With(buckets, key, Bucket(buckets, key) + amount)
ChargedAnew(buckets, key, amount) == With(buckets, key, amount)

Charged(buckets, key, amount) ==
    With(buckets, key, Saturated(Bucket(buckets, key) + amount))

\* Mutant: off by one at the oldest bucket.
RetainedAfter(buckets, oldest) ==
    [k \in {b \in DOMAIN buckets : b > oldest} |-> buckets[k]]

Retained(buckets, oldest) == [k \in {b \in DOMAIN buckets : b >= oldest} |-> buckets[k]]

Record(ledger, amount, now) ==
    [total  |-> Saturated(ledger.total + amount),
     hourly |-> Retained(Charged(ledger.hourly, Hour(now), amount), Hour(now) - KeepHours),
     daily  |-> Retained(Charged(ledger.daily, Day(now), amount), Day(now) - KeepDays)]

-----------------------------------------------------------------------------
(* BudgetState: the ledgers, the reservations outstanding and the latch    *)
(* that a backend's breach of its reservation sets.                        *)

Entry == [amount : U64, domain : Domains \cup {None}]

IsBudgetState(state, latest) ==
    /\ state \in [global : {state.global}, domains : {state.domains},
                  pending : {state.pending}, next_id : 0 .. MaxId, frozen : BOOLEAN]
    /\ IsLedger(state.global, latest)
    /\ state.domains = [d \in Domains |-> state.domains[d]]
    /\ \A d \in Domains : IsLedger(state.domains[d], latest)
    /\ IsMap(state.pending, 0 .. MaxId, Entry)

NewBudgetState ==
    [global |-> NewLedger, domains |-> [d \in Domains |-> NewLedger],
     pending |-> [i \in {} |-> 0], next_id |-> 0, frozen |-> FALSE]

\* Mutant: reservations are not counted.
PendingSumForgotten(pending, ids) == 0

\* Iterator::sum over u64 wraps in a release build.
PendingSum(pending, ids) == Sum(pending, ids) % (MaxU64 + 1)

\* The checks of reserve_at: the global budget, and the domain's if it has one.
Admits(state, budget, domain_budgets, amount, domain, now) ==
    /\ Allows(state.global, budget, amount,
              PendingSum(state.pending, DOMAIN state.pending), now)
    /\ domain \in DOMAIN domain_budgets =>
          Allows(state.domains[domain], domain_budgets[domain], amount,
                 PendingSum(state.pending, IdsOf(state.pending, domain)), now)

CanReserve(state, budget, domain_budgets, amount, domain, now) ==
    /\ ~state.frozen
    /\ Admits(state, budget, domain_budgets, amount, domain, now)
    /\ state.next_id < MaxId

\* The fee reserved is the requested maximum or what the tightest limit leaves
\* above the amount: the largest fee that is still admitted.
IsReservedFee(fee, max_fee, state, budget, domain_budgets, amount, domain, now) ==
    /\ Admits(state, budget, domain_budgets, amount + fee, domain, now)
    /\ \A more \in (fee + 1) .. max_fee :
          ~Admits(state, budget, domain_budgets, amount + more, domain, now)

Reserved(state, amount, fee, domain) ==
    [state EXCEPT
        !.pending = With(@, state.next_id, [amount |-> amount + fee, domain |-> domain]),
        !.next_id = @ + 1]

Released(state, id) == [state EXCEPT !.pending = Without(@, id)]

\* Mutants: a settlement that breaks its reservation returns before it is
\* recorded; one that is recorded but does not freeze the budget.
SettledIfWithin(state, id, amount, now, violation) ==
    LET reserved == state.pending[id]
    IN  IF violation \/ amount > reserved.amount
        THEN [state EXCEPT !.pending = Without(@, id), !.frozen = TRUE]
        ELSE [state EXCEPT
                 !.pending = Without(@, id),
                 !.global = Record(@, amount, now),
                 !.domains = [d \in Domains |->
                     IF d = reserved.domain THEN Record(@[d], amount, now) ELSE @[d]]]

SettledUnfrozen(state, id, amount, now, violation) ==
    [state EXCEPT !.pending = Without(@, id), !.global = Record(@, amount, now)]

\* Money that moved is recorded even when the backend broke its reservation.
Settled(state, id, amount, now, violation) ==
    LET reserved == state.pending[id]
    IN  [state EXCEPT
            !.pending = Without(@, id),
            !.global = Record(@, amount, now),
            !.domains = [d \in Domains |->
                IF d = reserved.domain THEN Record(@[d], amount, now) ELSE @[d]],
            !.frozen = @ \/ violation \/ amount > reserved.amount]

TotalSpent(state) ==
    Saturated(state.global.total + Sum(state.pending, DOMAIN state.pending))
===============================================================================
