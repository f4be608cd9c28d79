-------------------------------- MODULE Budget --------------------------------
(***************************************************************************)
(* BudgetTracker (crates/l402-core/src/budget.rs), shared by the callers   *)
(* of one client.  A call reads the clock first (now_secs(), before the    *)
(* lock) and takes the lock afterwards, so it has two steps: Begin... reads *)
(* the clock and fixes the arguments, the other runs under the lock.       *)
(*                                                                         *)
(* Threaded says how callers are scheduled.  With TRUE they run on threads *)
(* and any of them may be preempted between the clock and the lock.  With  *)
(* FALSE they are tasks of one thread (wasm32, a current-thread runtime):  *)
(* there is no await in these calls, so a call that began runs to its end  *)
(* before another caller runs; only the clock goes on.                     *)
(*                                                                         *)
(* The clock is assumed never to step back.  now_secs() is the wall clock, *)
(* which may be set back; the code has nothing against it.                 *)
(***************************************************************************)
EXTENDS Ledger

CONSTANTS
    Callers,        \* tasks that pay through this client
    Threaded,       \* whether they run on several threads
    GlobalBudget,   \* the limits of Budget
    DomainBudgets,  \* its domain_budgets
    Amounts,        \* invoice amounts asked for
    MaxFees,        \* fee caps asked for
    Reports,        \* amounts a wallet may report as settled
    MaxTime         \* bound on the clock

ASSUME BudgetAssumption ==
    /\ Threaded \in BOOLEAN
    /\ None \notin Callers
    /\ GlobalBudget \in BudgetType
    /\ DomainBudgets \in UNION {[D -> BudgetType] : D \in SUBSET Domains}
    /\ Amounts \subseteq U64
    /\ MaxFees \subseteq U64
    /\ Reports \subseteq U64
    /\ MaxTime \in Nat

VARIABLES
    state,      \* the BudgetState behind the lock
    now,        \* the wall clock in seconds, as now_secs reads it
    call,       \* per caller: the call it has begun and not finished, or None
    held,       \* per caller: the Reservation it owns, or None
    settled     \* history: each reservation settled, with its amount and time

vars == <<state, now, call, held, settled>>

Reservation == [id : 0 .. MaxId, max_fee_sats : U64, must_settle : BOOLEAN]

ReserveCall ==
    [op : {"reserve"}, amount : U64, max_fee : U64, domain : Domains \cup {None},
     must_settle : BOOLEAN, at : 0 .. now]
Settlement == [amount : U64, domain : Domains \cup {None}, at : 0 .. now]
SettleCall == [op : {"settle"}, amount : U64, violation : BOOLEAN, at : 0 .. now]

Init ==
    /\ state = NewBudgetState
    /\ now = 0
    /\ call = [c \in Callers |-> None]
    /\ held = [c \in Callers |-> None]
    /\ settled = [i \in {} |-> 0]

-----------------------------------------------------------------------------

\* A caller that a single thread would not leave: between the clock and the
\* lock, or between the two calls of check_and_record.
Engaged(c) ==
    \/ call[c] # None
    \/ held[c] # None /\ held[c].must_settle

MayRun(c) == Threaded \/ \A d \in Callers \ {c} : ~Engaged(d)

\* reserve, or the first half of check_and_record, which reserves with no fee
\* and settles what it reserved: now_secs() is evaluated as an argument.
BeginReserve(c, amount, max_fee, domain, must_settle) ==
    /\ MayRun(c)
    /\ call[c] = None
    /\ held[c] = None
    /\ must_settle => max_fee = 0
    /\ call' = [call EXCEPT ![c] =
                   [op |-> "reserve", amount |-> amount, max_fee |-> max_fee,
                    domain |-> domain, must_settle |-> must_settle, at |-> now]]
    /\ UNCHANGED <<state, now, held, settled>>

Reserving(c) == MayRun(c) /\ call[c] # None /\ call[c].op = "reserve"

\* reserve_at under the lock, when every limit admits the amount.
ReserveOk(c) ==
    /\ Reserving(c)
    /\ LET asked == call[c] IN
          /\ CanReserve(state, GlobalBudget, DomainBudgets,
                        asked.amount, asked.domain, asked.at)
          /\ \E fee \in 0 .. asked.max_fee :
                /\ IsReservedFee(fee, asked.max_fee, state, GlobalBudget,
                                 DomainBudgets, asked.amount, asked.domain, asked.at)
                /\ state' = Reserved(state, asked.amount, fee, asked.domain)
                /\ held' = [held EXCEPT ![c] =
                               [id |-> state.next_id, max_fee_sats |-> fee,
                                must_settle |-> asked.must_settle]]
    /\ call' = [call EXCEPT ![c] = None]
    /\ UNCHANGED <<now, settled>>

\* reserve_at under the lock, when it returns BudgetExceeded.
ReserveErr(c) ==
    /\ Reserving(c)
    /\ LET asked == call[c] IN
          ~CanReserve(state, GlobalBudget, DomainBudgets,
                      asked.amount, asked.domain, asked.at)
    /\ call' = [call EXCEPT ![c] = None]
    /\ UNCHANGED <<state, now, held, settled>>

Holding(c) == MayRun(c) /\ held[c] # None /\ call[c] = None

\* release: the wallet confirmed that nothing was paid.
Release(c) ==
    /\ Holding(c)
    /\ ~held[c].must_settle
    /\ state' = Released(state, held[c].id)
    /\ held' = [held EXCEPT ![c] = None]
    /\ UNCHANGED <<now, call, settled>>

\* The payment future is dropped, or its outcome is unknown: the Reservation
\* goes out of scope and what it reserved stays charged.
Drop(c) ==
    /\ Holding(c)
    /\ ~held[c].must_settle
    /\ held' = [held EXCEPT ![c] = None]
    /\ UNCHANGED <<state, now, call, settled>>

\* settle_payment with what the wallet reports, or settle as the second half
\* of check_and_record: the clock is read.
BeginSettle(c) ==
    /\ Holding(c)
    /\ LET reserved == state.pending[held[c].id].amount IN
          \E amount \in Reports \cup {reserved}, violation \in BOOLEAN :
             /\ held[c].must_settle => amount = reserved /\ ~violation
             /\ call' = [call EXCEPT ![c] =
                            [op |-> "settle", amount |-> amount,
                             violation |-> violation, at |-> now]]
    /\ UNCHANGED <<state, now, held, settled>>

\* Mutant: the Reservation is borrowed, not consumed, and stays usable.
SettleByReference(c) ==
    /\ MayRun(c)
    /\ call[c] # None
    /\ call[c].op = "settle"
    /\ LET id == held[c].id
           paid == call[c]
       IN  /\ state' = Settled(state, id, paid.amount, paid.at, paid.violation)
           /\ settled' = With(settled, id,
                 [amount |-> paid.amount, domain |-> state.pending[id].domain,
                  at |-> paid.at])
    /\ call' = [call EXCEPT ![c] = None]
    /\ UNCHANGED <<now, held>>

\* settle_at under the lock.
Settle(c) ==
    /\ MayRun(c)
    /\ call[c] # None
    /\ call[c].op = "settle"
    /\ LET id == held[c].id
           paid == call[c]
       IN  /\ state' = Settled(state, id, paid.amount, paid.at, paid.violation)
           /\ settled' = With(settled, id,
                 [amount |-> paid.amount, domain |-> state.pending[id].domain,
                  at |-> paid.at])
    /\ call' = [call EXCEPT ![c] = None]
    /\ held' = [held EXCEPT ![c] = None]
    /\ UNCHANGED now

Tick ==
    /\ now < MaxTime
    /\ now' = now + 1
    /\ UNCHANGED <<state, call, held, settled>>

Next ==
    \/ Tick
    \/ \E c \in Callers :
          \/ \E amount \in Amounts, max_fee \in MaxFees \cup {0},
                domain \in Domains \cup {None}, must_settle \in BOOLEAN :
                BeginReserve(c, amount, max_fee, domain, must_settle)
          \/ ReserveOk(c)
          \/ ReserveErr(c)
          \/ Release(c)
          \/ Drop(c)
          \/ BeginSettle(c)
          \/ Settle(c)

Spec == Init /\ [][Next]_vars

-----------------------------------------------------------------------------
(* Properties.                                                             *)

\* The types; ids are handed out in order, so none is ahead of next_id.
TypeOK ==
    /\ now \in Nat
    /\ call \in [Callers -> ReserveCall \cup SettleCall \cup {None}]
    /\ held \in [Callers -> Reservation \cup {None}]
    /\ IsBudgetState(state, now)
    /\ IsMap(settled, 0 .. MaxId, Settlement)
    /\ \A i \in DOMAIN state.pending \cup DOMAIN settled : i < state.next_id

\* settle_at's expect("live reservation") cannot fail: the reservation a caller
\* holds is outstanding, no other caller holds it, and it is not yet settled.
LiveReservations ==
    \A c \in Callers :
       held[c] # None =>
          /\ held[c].id \in DOMAIN state.pending
          /\ held[c].id \notin DOMAIN settled
          /\ \A d \in Callers \ {c} : held[d] # None => held[d].id # held[c].id

\* "Paid money must never disappear" (settle_at): each ledger's total, and every
\* bucket recent enough to be read again, is the sum of the settlements charged
\* to it, those that broke their reservation included.
SettledDuring(ids, hour) == {i \in ids : Hour(settled[i].at) = hour}
SettledOn(ids, day) == {i \in ids : Day(settled[i].at) = day}

Exact(ledger, ids) ==
    /\ ledger.total = Saturated(Sum(settled, ids))
    /\ \A h \in 0 .. Hour(now) : h >= Hour(now) - KeepHours =>
          Bucket(ledger.hourly, h) = Saturated(Sum(settled, SettledDuring(ids, h)))
    /\ \A d \in 0 .. Day(now) : d >= Day(now) - KeepDays =>
          Bucket(ledger.daily, d) = Saturated(Sum(settled, SettledOn(ids, d)))

LedgersExact ==
    /\ Exact(state.global, DOMAIN settled)
    /\ \A d \in Domains : Exact(state.domains[d], IdsOf(settled, d))

\* The sum of the reservations, and with it what was spent, stays a u64, so the
\* unchecked sums of reserve_at never wrap: "this sum cannot overflow".
NoOverflow ==
    ~state.frozen =>
       Sum(settled, DOMAIN settled) + Sum(state.pending, DOMAIN state.pending) <= MaxU64

\* What was spent and what is reserved stay within total_max, of the wallet and
\* of each domain with a budget, however callers interleave and whichever
\* futures are dropped, until a wallet breaks a reservation.
TotalWithin(budget, paid, reserved) ==
    budget.total_max # None =>
       Sum(settled, paid) + Sum(state.pending, reserved) <= budget.total_max

TotalCap ==
    ~state.frozen =>
       /\ TotalWithin(GlobalBudget, DOMAIN settled, DOMAIN state.pending)
       /\ \A d \in DOMAIN DomainBudgets :
             TotalWithin(DomainBudgets[d], IdsOf(settled, d), IdsOf(state.pending, d))

\* No hour's settlements exceed hourly_max, of the wallet and of each domain.
HourWithin(budget, ids) ==
    budget.hourly_max # None =>
       \A h \in 0 .. Hour(now) : Sum(settled, SettledDuring(ids, h)) <= budget.hourly_max

HourlyCap ==
    ~state.frozen =>
       /\ HourWithin(GlobalBudget, DOMAIN settled)
       /\ \A d \in DOMAIN DomainBudgets : HourWithin(DomainBudgets[d], IdsOf(settled, d))

\* No day's settlements exceed daily_max, of the wallet and of each domain.
DayWithin(budget, ids) ==
    budget.daily_max # None =>
       \A d \in 0 .. Day(now) : Sum(settled, SettledOn(ids, d)) <= budget.daily_max

DailyCap ==
    ~state.frozen =>
       /\ DayWithin(GlobalBudget, DOMAIN settled)
       /\ \A d \in DOMAIN DomainBudgets : DayWithin(DomainBudgets[d], IdsOf(settled, d))

\* docs/architecture.md:155, "Rolling hourly cap": whatever stretch of an hour
\* is taken, the settlements in it stay within hourly_max.
RollingHourlyCap ==
    ~state.frozen /\ GlobalBudget.hourly_max # None =>
       \A t \in 0 .. now :
          Sum(settled, {i \in DOMAIN settled : settled[i].at \in t .. (t + SecondsPerHour - 1)})
             <= GlobalBudget.hourly_max

\* The tracker implements the abstract spending limit, at total_max.
TotalLimit == IF GlobalBudget.total_max = None THEN MaxU64 ELSE GlobalBudget.total_max

Limited == INSTANCE SpendingLimit WITH
    Cap <- TotalLimit,
    spent <- Sum(settled, DOMAIN settled),
    aside <- Sum(state.pending, DOMAIN state.pending),
    open <- ~state.frozen

WithinLimit == Limited!Spec
===============================================================================
