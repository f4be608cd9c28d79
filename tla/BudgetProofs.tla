----------------------------- MODULE BudgetProofs -----------------------------
(***************************************************************************)
(* Theorems about the budget tracker, for every number of callers, every   *)
(* budget and every u64 width, whether or not callers run on threads.      *)
(***************************************************************************)
EXTENDS Budget, LedgerProofs

-----------------------------------------------------------------------------
(* Types and live reservations.  A caller in a settle call holds the       *)
(* Reservation it settles, one in a reserve call holds none; with that,    *)
(* the types and the reservations' being live are inductive.               *)

CallsMatch ==
    \A c \in Callers : call[c] # None => (call[c].op = "settle" <=> held[c] # None)

Safe == TypeOK /\ CallsMatch /\ LiveReservations

LEMMA InitSafe == Init => Safe
<1> SUFFICES ASSUME Init PROVE Safe
  OBVIOUS
<1>1. Hour(0) = 0 /\ Day(0) = 0
  BY NumbersAssumption DEF Hour, Day
<1>2. IsLedger(NewLedger, 0)
  BY <1>1, NumbersAssumption DEF IsLedger, NewLedger, IsMap, U64
<1>3. IsBudgetState(state, 0)
  BY <1>2, NumbersAssumption DEF Init, NewBudgetState, IsBudgetState, IsMap
<1>4. TypeOK
  BY <1>3 DEF Init, TypeOK, IsMap, NewBudgetState
<1>5. CallsMatch /\ LiveReservations
  BY DEF Init, CallsMatch, LiveReservations
<1> QED
  BY <1>4, <1>5 DEF Safe

LEMMA NextSafe == Safe /\ [Next]_vars => Safe'
<1> SUFFICES ASSUME Safe, [Next]_vars PROVE Safe'
  OBVIOUS
<1> USE DEF Safe
<1>1. CASE Tick
  <2>1. now' \in Nat /\ now \in 0 .. now' /\ 0 .. now \subseteq 0 .. now'
    BY <1>1 DEF Tick, TypeOK
  <2>2. IsBudgetState(state, now')
    BY <2>1, LaterLedger DEF TypeOK, IsBudgetState
  <2>3. call \in [Callers -> ReserveCall' \cup SettleCall' \cup {None}]
    BY <2>1 DEF TypeOK, ReserveCall, SettleCall
  <2>4. IsMap(settled, 0 .. MaxId, Settlement')
    BY <2>1 DEF TypeOK, IsMap, Settlement
  <2>5. TypeOK'
    BY <1>1, <2>1, <2>2, <2>3, <2>4 DEF Tick, TypeOK
  <2>6. CallsMatch' /\ LiveReservations'
    BY <1>1 DEF Tick, CallsMatch, LiveReservations
  <2> QED
    BY <2>5, <2>6
<1>2. ASSUME NEW c \in Callers, NEW amount \in Amounts, NEW max_fee \in MaxFees \cup {0},
             NEW domain \in Domains \cup {None}, NEW must_settle \in BOOLEAN,
             BeginReserve(c, amount, max_fee, domain, must_settle)
      PROVE  Safe'
  <2> DEFINE asked == [op |-> "reserve", amount |-> amount, max_fee |-> max_fee,
                       domain |-> domain, must_settle |-> must_settle, at |-> now]
  <2>1. amount \in U64 /\ max_fee \in U64 /\ now \in 0 .. now
    BY BudgetAssumption, NumbersAssumption DEF U64, TypeOK
  <2>2. asked \in ReserveCall
    BY <2>1 DEF ReserveCall
  <2>3. call' = [call EXCEPT ![c] = asked] /\ UNCHANGED <<state, now, held, settled>>
    BY <1>2 DEF BeginReserve
  <2>4. TypeOK'
    BY <2>2, <2>3 DEF TypeOK, ReserveCall, SettleCall, Settlement
  <2>5. CallsMatch'
    BY <1>2, <2>3 DEF BeginReserve, CallsMatch, TypeOK
  <2>6. LiveReservations'
    BY <2>3 DEF LiveReservations
  <2> QED
    BY <2>4, <2>5, <2>6
<1>3. ASSUME NEW c \in Callers, ReserveOk(c) PROVE Safe'
  <2> DEFINE asked == call[c]
             id == state.next_id
  <2>1. /\ asked \in ReserveCall /\ asked # None /\ asked.op = "reserve"
        /\ CanReserve(state, GlobalBudget, DomainBudgets, asked.amount, asked.domain, asked.at)
    BY <1>3 DEF ReserveOk, Reserving, TypeOK, ReserveCall, SettleCall
  <2>2. PICK fee \in 0 .. asked.max_fee :
           /\ IsReservedFee(fee, asked.max_fee, state, GlobalBudget,
                            DomainBudgets, asked.amount, asked.domain, asked.at)
           /\ state' = Reserved(state, asked.amount, fee, asked.domain)
           /\ held' = [held EXCEPT ![c] =
                 [id |-> id, max_fee_sats |-> fee, must_settle |-> asked.must_settle]]
    BY <1>3 DEF ReserveOk
  <2>3. call' = [call EXCEPT ![c] = None] /\ UNCHANGED <<now, settled>>
    BY <1>3 DEF ReserveOk
  <2>4. asked.amount + fee \in U64
    <3>1. Admits(state, GlobalBudget, DomainBudgets, asked.amount + fee, asked.domain, asked.at)
      BY <2>2 DEF IsReservedFee
    <3>2. asked.amount \in Nat /\ fee \in Nat
      BY <2>1, NumbersAssumption DEF ReserveCall, U64
    <3> QED
      BY <3>1, <3>2, AdmittedIsU64 DEF TypeOK
  <2>5. /\ IsBudgetState(state', now)
        /\ state'.next_id = id + 1 /\ id \in 0 .. MaxId
        /\ DOMAIN state'.pending = DOMAIN state.pending \cup {id}
    <3>1. IsBudgetState(state, now) /\ now \in Nat /\ id < MaxId
      BY <2>1 DEF TypeOK, CanReserve
    <3>2. asked.domain \in Domains \cup {None}
      BY <2>1 DEF ReserveCall
    <3>3. /\ IsBudgetState(state', now) /\ state'.next_id = id + 1
          /\ state'.pending = With(state.pending, id,
                [amount |-> asked.amount + fee, domain |-> asked.domain])
      BY <2>2, <2>4, <3>1, <3>2, ReservedState
    <3>4. id \in 0 .. MaxId
      BY DEF TypeOK, IsBudgetState
    <3> QED
      BY <3>3, <3>4 DEF With
  <2>6. TypeOK'
    <3>1. \A i \in DOMAIN state'.pending \cup DOMAIN settled' : i < state'.next_id
      BY <2>3, <2>5 DEF TypeOK, IsMap, IsBudgetState
    <3>2. held' \in [Callers -> Reservation \cup {None}]
      BY <2>1, <2>2, <2>5, NumbersAssumption DEF TypeOK, Reservation, ReserveCall, U64
    <3>3. call' \in [Callers -> ReserveCall' \cup SettleCall' \cup {None}]
      BY <2>3 DEF TypeOK, ReserveCall, SettleCall
    <3>4. IsMap(settled', 0 .. MaxId, Settlement')
      BY <2>3 DEF TypeOK, Settlement
    <3> QED
      BY <2>3, <2>5, <3>1, <3>2, <3>3, <3>4 DEF TypeOK
  <2>7. CallsMatch'
    BY <2>1, <2>2, <2>3 DEF CallsMatch, TypeOK
  <2>8. LiveReservations'
    <3>1. id \notin DOMAIN state.pending \cup DOMAIN settled
      BY <2>5 DEF TypeOK
    <3>2. \A d \in Callers \ {c} :
             held'[d] = held[d] /\ (held[d] # None => held[d].id # id)
      BY <2>2, <3>1 DEF LiveReservations, TypeOK
    <3>3. held'[c].id = id
      BY <2>2 DEF TypeOK
    <3> QED
      BY <2>3, <2>5, <3>1, <3>2, <3>3 DEF LiveReservations
  <2> QED
    BY <2>6, <2>7, <2>8
<1>4. ASSUME NEW c \in Callers, ReserveErr(c) PROVE Safe'
  <2>1. call' = [call EXCEPT ![c] = None] /\ UNCHANGED <<state, now, held, settled>>
    BY <1>4 DEF ReserveErr
  <2> QED
    BY <2>1 DEF TypeOK, CallsMatch, LiveReservations, ReserveCall, SettleCall, Settlement
<1>5. ASSUME NEW c \in Callers, Release(c) PROVE Safe'
  <2> DEFINE id == held[c].id
  <2>1. /\ held[c] # None /\ call[c] = None /\ state' = Released(state, id)
        /\ held' = [held EXCEPT ![c] = None] /\ UNCHANGED <<now, call, settled>>
    BY <1>5 DEF Release, Holding
  <2>2. /\ IsBudgetState(state', now) /\ state'.next_id = state.next_id
        /\ DOMAIN state'.pending = DOMAIN state.pending \ {id}
    <3>1. IsBudgetState(state, now) /\ now \in Nat
      BY DEF TypeOK
    <3>2. /\ IsBudgetState(state', now) /\ state'.next_id = state.next_id
          /\ state'.pending = Without(state.pending, id)
      BY <2>1, <3>1, ReleasedState
    <3> QED
      BY <3>2 DEF Without
  <2>3. TypeOK'
    BY <2>1, <2>2 DEF TypeOK, ReserveCall, SettleCall, Settlement
  <2>4. CallsMatch' /\ LiveReservations'
    BY <2>1, <2>2 DEF TypeOK, CallsMatch, LiveReservations
  <2> QED
    BY <2>3, <2>4
<1>6. ASSUME NEW c \in Callers, Drop(c) PROVE Safe'
  <2>1. /\ call[c] = None /\ held' = [held EXCEPT ![c] = None]
        /\ UNCHANGED <<state, now, call, settled>>
    BY <1>6 DEF Drop, Holding
  <2>2. TypeOK'
    BY <2>1 DEF TypeOK, ReserveCall, SettleCall, Settlement
  <2>3. CallsMatch' /\ LiveReservations'
    BY <2>1 DEF TypeOK, CallsMatch, LiveReservations
  <2> QED
    BY <2>2, <2>3
<1>7. ASSUME NEW c \in Callers, BeginSettle(c) PROVE Safe'
  <2> DEFINE reserved == state.pending[held[c].id].amount
  <2>1. held[c] # None /\ call[c] = None /\ UNCHANGED <<state, now, held, settled>>
    BY <1>7 DEF BeginSettle, Holding
  <2>2. PICK amount \in Reports \cup {reserved}, violation \in BOOLEAN :
           call' = [call EXCEPT ![c] =
                      [op |-> "settle", amount |-> amount, violation |-> violation, at |-> now]]
    BY <1>7 DEF BeginSettle
  <2>3. reserved \in U64
    BY <2>1 DEF LiveReservations, TypeOK, IsBudgetState, IsMap, Entry
  <2>4. [op |-> "settle", amount |-> amount, violation |-> violation, at |-> now] \in SettleCall
    BY <2>3, BudgetAssumption DEF SettleCall, TypeOK
  <2>5. TypeOK'
    BY <2>1, <2>2, <2>4 DEF TypeOK, ReserveCall, SettleCall, Settlement
  <2>6. CallsMatch' /\ LiveReservations'
    BY <2>1, <2>2 DEF TypeOK, CallsMatch, LiveReservations
  <2> QED
    BY <2>5, <2>6
<1>8. ASSUME NEW c \in Callers, Settle(c) PROVE Safe'
  <2> DEFINE id == held[c].id
             paid == call[c]
             settlement == [amount |-> paid.amount, domain |-> state.pending[id].domain,
                            at |-> paid.at]
  <2>1. /\ state' = Settled(state, id, paid.amount, paid.at, paid.violation)
        /\ settled' = With(settled, id, settlement)
        /\ call' = [call EXCEPT ![c] = None]
        /\ held' = [held EXCEPT ![c] = None]
        /\ now' = now
        /\ paid # None /\ paid.op = "settle"
    BY <1>8 DEF Settle
  <2>2. paid \in SettleCall
    BY <2>1 DEF TypeOK, ReserveCall, SettleCall
  <2>3. held[c] # None /\ held[c] \in Reservation
    BY <2>1 DEF CallsMatch, TypeOK
  <2>4. id \in DOMAIN state.pending /\ id \notin DOMAIN settled
    BY <2>3 DEF LiveReservations
  <2>5. /\ IsBudgetState(state', now) /\ state'.next_id = state.next_id
        /\ DOMAIN state'.pending = DOMAIN state.pending \ {id}
    <3>1. IsBudgetState(state, now) /\ now \in Nat
      BY DEF TypeOK
    <3>2. paid.amount \in U64 /\ paid.at \in 0 .. now /\ paid.violation \in BOOLEAN
      BY <2>2 DEF SettleCall
    <3>3. /\ IsBudgetState(state', now) /\ state'.next_id = state.next_id
          /\ state'.pending = Without(state.pending, id)
      <4>1. IsBudgetState(state', now)
        BY <2>1, <3>1, <3>2, SettledIsBudgetState
      <4>2. state'.next_id = state.next_id /\ state'.pending = Without(state.pending, id)
        BY <2>1, <3>1 DEF Settled, IsBudgetState
      <4> QED
        BY <4>1, <4>2
    <3> QED
      BY <3>3 DEF Without
  <2>6. settlement \in Settlement
    BY <2>2, <2>4 DEF SettleCall, Settlement, TypeOK, IsBudgetState, IsMap, Entry
  <2>7. /\ IsMap(settled', 0 .. MaxId, Settlement)
        /\ DOMAIN settled' = DOMAIN settled \cup {id}
    <3>1. IsMap(settled, 0 .. MaxId, Settlement)
      BY DEF TypeOK
    <3>2. id \in 0 .. MaxId
      BY <2>3 DEF Reservation
    <3>3. ASSUME NEW key \in 0 .. MaxId, NEW value \in Settlement
          PROVE  IsMap(With(settled, key, value), 0 .. MaxId, Settlement)
      BY <3>1, WithIsMap
    <3>4. IsMap(settled', 0 .. MaxId, Settlement)
      BY <2>1, <2>6, <3>2, <3>3
    <3> QED
      BY <2>1, <3>4 DEF With
  <2>8. TypeOK'
    BY <2>1, <2>4, <2>5, <2>7 DEF TypeOK, ReserveCall, SettleCall, Settlement
  <2>9. CallsMatch' /\ LiveReservations'
    BY <2>1, <2>4, <2>5, <2>7 DEF TypeOK, CallsMatch, LiveReservations
  <2> QED
    BY <2>8, <2>9
<1>9. CASE UNCHANGED vars
  BY <1>9 DEF vars, TypeOK, CallsMatch, LiveReservations, ReserveCall, SettleCall, Settlement
<1> QED
  BY <1>1, <1>2, <1>3, <1>4, <1>5, <1>6, <1>7, <1>8, <1>9 DEF Next

\* Every state the tracker reaches is typed and every Reservation is live.
THEOREM TypeCorrect == Spec => []TypeOK
<1>1. Safe => TypeOK
  BY DEF Safe
<1> QED
  BY <1>1, InitSafe, NextSafe, PTL DEF Spec

\* settle_at never meets a Reservation that is not outstanding.
THEOREM ReservationsLive == Spec => []LiveReservations
<1>1. Safe => LiveReservations
  BY DEF Safe
<1> QED
  BY <1>1, InitSafe, NextSafe, PTL DEF Spec

-----------------------------------------------------------------------------
(* Totals.  A limit is checked against the ledger, so that the ledgers'    *)
(* totals are what was settled is part of the induction; that the sums do  *)
(* not overflow is too, or the wrapped sum of the reservations could hide  *)
(* them from the check.                                                    *)

TotalsExact ==
    /\ state.global.total = Saturated(Sum(settled, DOMAIN settled))
    /\ \A d \in Domains : state.domains[d].total = Saturated(Sum(settled, IdsOf(settled, d)))

Totals == TotalsExact /\ NoOverflow /\ TotalCap

Paid == Sum(settled, DOMAIN settled)
PaidBy(d) == Sum(settled, IdsOf(settled, d))
SetAside == Sum(state.pending, DOMAIN state.pending)
SetAsideFor(d) == Sum(state.pending, IdsOf(state.pending, d))

LEMMA SumsTyped ==
    ASSUME TypeOK
    PROVE  /\ Paid \in Nat /\ SetAside \in Nat
           /\ \A d : PaidBy(d) \in Nat /\ PaidBy(d) <= Paid
           /\ \A d : SetAsideFor(d) \in Nat /\ SetAsideFor(d) <= SetAside
BY SumsAreNat DEF TypeOK, IsBudgetState, Paid, PaidBy, SetAside, SetAsideFor

LEMMA BudgetsTyped ==
    /\ GlobalBudget.total_max # None => GlobalBudget.total_max \in Nat
    /\ DOMAIN DomainBudgets \subseteq Domains
    /\ \A d \in DOMAIN DomainBudgets :
          DomainBudgets[d].total_max # None => DomainBudgets[d].total_max \in Nat
BY BudgetAssumption, NumbersAssumption DEF BudgetType, Limit, U64

LEMMA StillWithin ==
    ASSUME NEW paid \in Nat, NEW aside \in Nat, NEW limit \in Nat,
           paid + aside <= limit,
           NEW paid2 \in Nat, NEW aside2 \in Nat, paid2 + aside2 <= paid + aside
    PROVE  paid2 + aside2 <= limit
OBVIOUS

LEMMA InitTotals == Init => Totals
<1> SUFFICES ASSUME Init PROVE Totals
  OBVIOUS
<1>1. /\ settled = [i \in {} |-> 0] /\ state.pending = [i \in {} |-> 0]
      /\ state.global.total = 0 /\ \A d \in Domains : state.domains[d].total = 0
  BY DEF Init, NewBudgetState, NewLedger
<1>2. Sum(settled, DOMAIN settled) = 0 /\ Sum(state.pending, DOMAIN state.pending) = 0
  BY <1>1, SumOfNone
<1>3. \A d : Sum(settled, IdsOf(settled, d)) = 0 /\ Sum(state.pending, IdsOf(state.pending, d)) = 0
  <2>1. \A d : IdsOf(settled, d) = {} /\ IdsOf(state.pending, d) = {}
    BY <1>1 DEF IdsOf
  <2> QED
    BY <2>1, SumOfNone
<1>4. Saturated(0) = 0
  BY NumbersAssumption DEF Saturated
<1>5. TotalsExact
  BY <1>1, <1>2, <1>3, <1>4 DEF TotalsExact
<1>6. NoOverflow
  BY <1>2, NumbersAssumption DEF NoOverflow
<1>7. TotalCap
  BY <1>2, <1>3, BudgetsTyped, NumbersAssumption DEF TotalCap, TotalWithin, U64
<1> QED
  BY <1>5, <1>6, <1>7 DEF Totals

LEMMA SumsTypedNext ==
    ASSUME TypeOK'
    PROVE  /\ Paid' \in Nat /\ SetAside' \in Nat
           /\ \A d \in Domains : PaidBy(d)' \in Nat /\ SetAsideFor(d)' \in Nat
<1>1. IsMap(settled', 0 .. MaxId, Settlement')
  BY DEF TypeOK
<1>2. IsMap(state'.pending, 0 .. MaxId, Entry)
  BY DEF TypeOK, IsBudgetState
<1>3. Paid' \in Nat /\ \A d \in Domains : PaidBy(d)' \in Nat
  BY <1>1, SumsAreNat DEF Paid, PaidBy
<1>4. SetAside' \in Nat /\ \A d \in Domains : SetAsideFor(d)' \in Nat
  BY <1>2, SumsAreNat DEF SetAside, SetAsideFor
<1> QED
  BY <1>3, <1>4

\* A step that raises none of the sums the limits are about.
LEMMA TotalsIfNoSumGrows ==
    ASSUME TypeOK, TypeOK', Totals, TotalsExact', state.frozen => state'.frozen,
           ~state'.frozen => Paid' + SetAside' <= Paid + SetAside,
           ~state'.frozen => \A d \in Domains :
               PaidBy(d)' + SetAsideFor(d)' <= PaidBy(d) + SetAsideFor(d)
    PROVE  Totals'
<1>0. ~state'.frozen => ~state.frozen
  OBVIOUS
<1>1. /\ Paid \in Nat /\ SetAside \in Nat /\ Paid' \in Nat /\ SetAside' \in Nat
      /\ \A d \in Domains : /\ PaidBy(d) \in Nat /\ PaidBy(d)' \in Nat
                            /\ SetAsideFor(d) \in Nat /\ SetAsideFor(d)' \in Nat
  BY SumsTyped, SumsTypedNext
<1>2. NoOverflow'
  <2>1. ~state.frozen => Paid + SetAside <= MaxU64
    BY DEF Totals, NoOverflow, Paid, SetAside
  <2>2. ~state'.frozen => Paid' + SetAside' <= MaxU64
    BY <1>0, <1>1, <2>1, StillWithin, NumbersAssumption
  <2> QED
    BY <2>2 DEF NoOverflow, Paid, SetAside
<1>3. TotalCap'
  <2>1. ASSUME ~state'.frozen
        PROVE  TotalWithin(GlobalBudget, DOMAIN settled, DOMAIN state.pending)'
    <3>1. GlobalBudget.total_max # None => Paid + SetAside <= GlobalBudget.total_max
      BY <1>0, <2>1 DEF Totals, TotalCap, TotalWithin, Paid, SetAside
    <3>2. GlobalBudget.total_max # None => Paid' + SetAside' <= GlobalBudget.total_max
      BY <1>1, <2>1, <3>1, BudgetsTyped, StillWithin
    <3> QED
      BY <3>2 DEF TotalWithin, Paid, SetAside
  <2>2. ASSUME ~state'.frozen, NEW d \in DOMAIN DomainBudgets
        PROVE  TotalWithin(DomainBudgets[d], IdsOf(settled, d), IdsOf(state.pending, d))'
    <3>0. d \in Domains /\ (DomainBudgets[d].total_max # None => DomainBudgets[d].total_max \in Nat)
      BY BudgetsTyped
    <3>1. DomainBudgets[d].total_max # None =>
             PaidBy(d) + SetAsideFor(d) <= DomainBudgets[d].total_max
      BY <1>0, <2>2 DEF Totals, TotalCap, TotalWithin, PaidBy, SetAsideFor
    <3>2. DomainBudgets[d].total_max # None =>
             PaidBy(d)' + SetAsideFor(d)' <= DomainBudgets[d].total_max
      BY <1>1, <2>2, <3>0, <3>1, StillWithin
    <3> QED
      BY <3>2 DEF TotalWithin, PaidBy, SetAsideFor
  <2> QED
    BY <2>1, <2>2 DEF TotalCap
<1> QED
  BY <1>2, <1>3 DEF Totals

\* A step of reserve_at that admits an amount: the amount is added to what is
\* reserved for the wallet and for its domain, and nothing else changes.
ReservedSums(amount, domain, at) ==
    /\ Admits(state, GlobalBudget, DomainBudgets, amount, domain, at)
    /\ state'.global = state.global /\ state'.domains = state.domains
    /\ state'.frozen = state.frozen /\ ~state.frozen
    /\ SetAside' = SetAside + amount
    /\ \A d : SetAsideFor(d)' = IF domain = d THEN SetAsideFor(d) + amount ELSE SetAsideFor(d)
    /\ settled' = settled /\ Paid' = Paid /\ \A d : PaidBy(d)' = PaidBy(d)

LEMMA ReserveOkSums ==
    ASSUME Safe, NEW c \in Callers, ReserveOk(c)
    PROVE  \E amount \in U64, domain \in Domains \cup {None}, at \in 0 .. now :
              ReservedSums(amount, domain, at) /\ at = call[c].at
<1> DEFINE asked == call[c]
<1>1. /\ asked \in ReserveCall
      /\ CanReserve(state, GlobalBudget, DomainBudgets, asked.amount, asked.domain, asked.at)
  BY DEF ReserveOk, Reserving, Safe, TypeOK, ReserveCall, SettleCall
<1>2. PICK fee \in 0 .. asked.max_fee :
         /\ IsReservedFee(fee, asked.max_fee, state, GlobalBudget,
                          DomainBudgets, asked.amount, asked.domain, asked.at)
         /\ state' = Reserved(state, asked.amount, fee, asked.domain)
  BY DEF ReserveOk
<1> DEFINE amount == asked.amount + fee
           domain == asked.domain
           entry == [amount |-> amount, domain |-> domain]
<1>3. /\ Admits(state, GlobalBudget, DomainBudgets, amount, domain, asked.at)
      /\ amount \in Nat /\ domain \in Domains \cup {None}
  <2>1. asked.amount \in Nat /\ fee \in Nat /\ domain \in Domains \cup {None}
    BY <1>1, <1>2, NumbersAssumption DEF ReserveCall, U64
  <2> QED
    BY <1>2, <2>1 DEF IsReservedFee
<1>4. amount \in U64
  BY <1>3, AdmittedIsU64 DEF Safe, TypeOK
<1>5. /\ state'.global = state.global /\ state'.domains = state.domains
      /\ state'.frozen = state.frozen /\ ~state.frozen
      /\ state'.pending = With(state.pending, state.next_id, entry)
      /\ settled' = settled
  <2>1. /\ IsBudgetState(state, now) /\ now \in Nat /\ state.next_id < MaxId
        /\ ~state.frozen
    BY <1>1 DEF Safe, TypeOK, CanReserve
  <2>2. settled' = settled
    BY DEF ReserveOk
  <2> QED
    BY <1>2, <1>3, <1>4, <2>1, <2>2, ReservedState
<1>6. /\ IsMap(state.pending, 0 .. MaxId, Entry) /\ state.next_id \notin DOMAIN state.pending
      /\ entry.amount \in U64 /\ entry.amount = amount /\ entry.domain = domain
  <2>1. \A i \in DOMAIN state.pending : i < state.next_id
    BY DEF Safe, TypeOK
  <2>2. state.next_id \in Nat
    BY NumbersAssumption DEF Safe, TypeOK, IsBudgetState
  <2> QED
    BY <1>4, <2>1, <2>2 DEF Safe, TypeOK, IsBudgetState
<1> HIDE DEF entry
<1>7. SetAside' = SetAside + amount
  BY <1>5, <1>6, SumWith DEF SetAside
<1>8. ASSUME NEW d
      PROVE  SetAsideFor(d)' = IF domain = d THEN SetAsideFor(d) + amount ELSE SetAsideFor(d)
  BY <1>5, <1>6, DomainSumWith DEF SetAsideFor
<1>9. Paid' = Paid /\ \A d : PaidBy(d)' = PaidBy(d)
  BY <1>5 DEF Paid, PaidBy
<1>10. asked.at \in 0 .. now
  BY <1>1 DEF ReserveCall, Safe, TypeOK
<1> HIDE DEF amount, domain
<1>11. ReservedSums(amount, domain, asked.at)
  BY <1>3, <1>5, <1>7, <1>8, <1>9 DEF ReservedSums
<1> QED
  BY <1>3, <1>4, <1>10, <1>11

\* What reserve_at admits has room under every total limit.
LEMMA ReserveOkTotals ==
    ASSUME Safe, Safe', Totals, NEW c \in Callers, ReserveOk(c)
    PROVE  Totals'
<1>1. PICK amount \in U64, domain \in Domains \cup {None}, at \in 0 .. now : ReservedSums(amount, domain, at)
  BY ReserveOkSums
<1>2. Admits(state, GlobalBudget, DomainBudgets, amount, domain, at) /\ amount \in Nat
  BY <1>1, NumbersAssumption DEF ReservedSums, U64
<1>3. /\ state'.global = state.global /\ state'.domains = state.domains
      /\ state'.frozen = state.frozen /\ ~state.frozen
  BY <1>1 DEF ReservedSums
<1>4. SetAside' = SetAside + amount
  BY <1>1 DEF ReservedSums
<1>5. ASSUME NEW d
      PROVE  SetAsideFor(d)' = IF domain = d THEN SetAsideFor(d) + amount ELSE SetAsideFor(d)
  BY <1>1 DEF ReservedSums
<1>6. Paid' = Paid /\ \A d : PaidBy(d)' = PaidBy(d)
  BY <1>1 DEF ReservedSums
<1>7. TotalsExact'
  BY <1>3, <1>6 DEF Totals, TotalsExact, Paid, PaidBy
<1>8. /\ Paid \in Nat /\ SetAside \in Nat /\ Paid + SetAside <= MaxU64
      /\ \A d \in Domains : /\ PaidBy(d) \in Nat /\ SetAsideFor(d) \in Nat
                            /\ PaidBy(d) + SetAsideFor(d) <= MaxU64
  <2>1. Paid + SetAside <= MaxU64
    BY <1>3 DEF Totals, NoOverflow, Paid, SetAside
  <2> QED
    BY <2>1, SumsTyped, NumbersAssumption DEF Safe
<1>9. /\ state.global.total = Saturated(Paid)
      /\ \A d \in Domains : state.domains[d].total = Saturated(PaidBy(d))
      /\ PendingSum(state.pending, DOMAIN state.pending) = SetAside % (MaxU64 + 1)
      /\ \A d : PendingSum(state.pending, IdsOf(state.pending, d)) = SetAsideFor(d) % (MaxU64 + 1)
  BY DEF Totals, TotalsExact, Paid, PaidBy, SetAside, SetAsideFor, PendingSum
<1>10. /\ Allows(state.global, GlobalBudget, amount, SetAside % (MaxU64 + 1), at)
       /\ state.global.total = Saturated(Paid)
  <2>1. Allows(state.global, GlobalBudget, amount,
               PendingSum(state.pending, DOMAIN state.pending), at)
    BY <1>2 DEF Admits
  <2>2. PendingSum(state.pending, DOMAIN state.pending) = SetAside % (MaxU64 + 1)
    BY DEF PendingSum, SetAside
  <2>3. state.global.total = Saturated(Paid)
    BY <1>9
  <2> QED
    BY <2>1, <2>2, <2>3, Zenon
<1>11. ASSUME NEW limit \in Nat,
              Within(Saturated(Saturated(Paid) + (SetAside % (MaxU64 + 1))), amount, limit)
       PROVE  Paid + SetAside + amount <= limit
  BY <1>2, <1>8, <1>11, RoomLeft
<1>12. NoOverflow'
  <2>1. Within(Saturated(Saturated(Paid) + (SetAside % (MaxU64 + 1))), amount, MaxU64)
    BY <1>10 DEF Allows
  <2>2. Paid + SetAside + amount <= MaxU64
    BY <1>11, <2>1, NumbersAssumption
  <2>3. Paid' + SetAside' <= MaxU64
    BY <1>2, <1>4, <1>6, <1>8, <2>2
  <2> QED
    BY <2>3 DEF NoOverflow, Paid, SetAside
<1>13. TotalWithin(GlobalBudget, DOMAIN settled, DOMAIN state.pending)'
  <2>1. ASSUME GlobalBudget.total_max # None PROVE Paid' + SetAside' <= GlobalBudget.total_max
    <3>1. Within(Saturated(Saturated(Paid) + (SetAside % (MaxU64 + 1))), amount,
                 GlobalBudget.total_max)
      BY <1>10 DEF Allows
    <3>2. Paid + SetAside + amount <= GlobalBudget.total_max
      BY <1>11, <2>1, <3>1, BudgetsTyped
    <3> QED
      BY <1>2, <1>4, <1>6, <1>8, <3>2
  <2> QED
    BY <2>1 DEF TotalWithin, Paid, SetAside
<1>14. ASSUME NEW d \in DOMAIN DomainBudgets
       PROVE  TotalWithin(DomainBudgets[d], IdsOf(settled, d), IdsOf(state.pending, d))'
  <2>1. d \in Domains
    BY BudgetsTyped
  <2>2. ASSUME DomainBudgets[d].total_max # None
        PROVE  PaidBy(d)' + SetAsideFor(d)' <= DomainBudgets[d].total_max
    <3>1. CASE domain = d
      <4>1. Within(Saturated(Saturated(PaidBy(d)) + (SetAsideFor(d) % (MaxU64 + 1))), amount,
                   DomainBudgets[d].total_max)
        BY <1>2, <1>9, <2>1, <3>1 DEF Admits, Allows
      <4>2. PaidBy(d) + SetAsideFor(d) + amount <= DomainBudgets[d].total_max
        BY <1>2, <1>8, <2>1, <2>2, <4>1, BudgetsTyped, RoomLeft
      <4>3. PaidBy(d)' = PaidBy(d) /\ SetAsideFor(d)' = SetAsideFor(d) + amount
        BY <1>5, <1>6, <3>1
      <4> QED
        BY <1>2, <1>8, <2>1, <4>2, <4>3
    <3>2. CASE domain # d
      <4>1. PaidBy(d)' = PaidBy(d) /\ SetAsideFor(d)' = SetAsideFor(d)
        BY <1>5, <1>6, <3>2
      <4>2. PaidBy(d) + SetAsideFor(d) <= DomainBudgets[d].total_max
        BY <1>3, <2>2 DEF Totals, TotalCap, TotalWithin, PaidBy, SetAsideFor
      <4> QED
        BY <4>1, <4>2
    <3> QED
      BY <3>1, <3>2
  <2> QED
    BY <2>2 DEF TotalWithin, PaidBy, SetAsideFor
<1> QED
  BY <1>7, <1>12, <1>13, <1>14 DEF Totals, TotalCap

LEMMA SaturatedAgain ==
    ASSUME NEW n \in Nat, NEW m \in Nat
    PROVE  Saturated(Saturated(n) + m) = Saturated(n + m)
BY NumbersAssumption DEF Saturated

LEMMA RecordTotal ==
    ASSUME NEW ledger, NEW amount, NEW at
    PROVE  Record(ledger, amount, at).total = Saturated(ledger.total + amount)
BY DEF Record

\* A step of settle_at: the amount moves from what is reserved to what was paid,
\* in the ledgers and in the sums.
SettledSums(id, amount, reserved, domain, at, violation) ==
    /\ id \notin DOMAIN settled
    /\ settled' = With(settled, id, [amount |-> amount, domain |-> domain, at |-> at])
    /\ state'.global = Record(state.global, amount, at)
    /\ \A d \in Domains : state'.domains[d] =
          IF d = domain THEN Record(state.domains[d], amount, at) ELSE state.domains[d]
    /\ state'.frozen = (state.frozen \/ violation \/ amount > reserved)
    /\ Paid' = Paid + amount
    /\ \A d : PaidBy(d)' = IF domain = d THEN PaidBy(d) + amount ELSE PaidBy(d)
    /\ SetAside' = SetAside - reserved
    /\ \A d : SetAsideFor(d)' = IF domain = d THEN SetAsideFor(d) - reserved ELSE SetAsideFor(d)

LEMMA SettleSums ==
    ASSUME Safe, NEW c \in Callers, Settle(c)
    PROVE  \E id \in 0 .. MaxId, amount \in U64, reserved \in U64,
                 domain \in Domains \cup {None}, at \in 0 .. now, violation \in BOOLEAN :
              SettledSums(id, amount, reserved, domain, at, violation) /\ at = call[c].at
<1> DEFINE id == held[c].id
           paid == call[c]
           reserved == state.pending[id]
           settlement == [amount |-> paid.amount, domain |-> reserved.domain, at |-> paid.at]
<1>1. /\ state' = Settled(state, id, paid.amount, paid.at, paid.violation)
      /\ settled' = With(settled, id, settlement)
      /\ paid # None /\ paid.op = "settle"
  BY DEF Settle
<1>2. paid \in SettleCall
  BY <1>1 DEF Safe, TypeOK, ReserveCall, SettleCall
<1>3. /\ paid.amount \in U64 /\ paid.amount \in Nat /\ paid.violation \in BOOLEAN
      /\ paid.at \in 0 .. now
  BY <1>2, NumbersAssumption DEF SettleCall, U64, Safe, TypeOK
<1>4. id \in DOMAIN state.pending /\ id \notin DOMAIN settled
  BY <1>1 DEF Safe, CallsMatch, LiveReservations
<1>5. IsMap(state.pending, 0 .. MaxId, Entry) /\ IsMap(settled, 0 .. MaxId, Settlement)
  BY DEF Safe, TypeOK, IsBudgetState
<1>6. /\ reserved.amount \in U64 /\ reserved.amount \in Nat
      /\ reserved.domain \in Domains \cup {None}
  <2>1. reserved \in Entry
    BY <1>4, <1>5 DEF IsMap
  <2> QED
    BY <2>1, NumbersAssumption DEF Entry, U64
<1>7. /\ state'.global = Record(state.global, paid.amount, paid.at)
      /\ \A d \in Domains : state'.domains[d] =
            IF d = reserved.domain THEN Record(state.domains[d], paid.amount, paid.at)
                                   ELSE state.domains[d]
      /\ state'.pending = Without(state.pending, id)
      /\ state'.frozen = (state.frozen \/ paid.violation \/ paid.amount > reserved.amount)
  <2>1. state \in [global : {state.global}, domains : {state.domains},
                   pending : {state.pending}, next_id : 0 .. MaxId, frozen : BOOLEAN]
    BY DEF Safe, TypeOK, IsBudgetState
  <2>2. state'.global = Record(state.global, paid.amount, paid.at)
    BY <1>1, <2>1 DEF Settled
  <2>3. state'.domains = [d \in Domains |->
           IF d = reserved.domain THEN Record(state.domains[d], paid.amount, paid.at)
                                  ELSE state.domains[d]]
    BY <1>1, <2>1 DEF Settled
  <2>4. state'.pending = Without(state.pending, id)
    BY <1>1, <2>1 DEF Settled
  <2>5. state'.frozen = (state.frozen \/ paid.violation \/ paid.amount > reserved.amount)
    BY <1>1, <2>1 DEF Settled
  <2> QED
    BY <2>2, <2>3, <2>4, <2>5
<1>8. settlement.amount = paid.amount /\ settlement.domain = reserved.domain
  OBVIOUS
<1> HIDE DEF settlement
<1>9. Paid' = Paid + paid.amount
  <2>1. settlement.amount \in U64
    BY <1>3, <1>8
  <2> QED
    BY <1>1, <1>4, <1>5, <1>8, <2>1, SumWith DEF Paid
<1>10. ASSUME NEW d
       PROVE  PaidBy(d)' = IF reserved.domain = d THEN PaidBy(d) + paid.amount ELSE PaidBy(d)
  <2>1. settlement.amount \in U64
    BY <1>3, <1>8
  <2>2. PaidBy(d)' =
           IF settlement.domain = d THEN PaidBy(d) + settlement.amount ELSE PaidBy(d)
    BY <1>1, <1>4, <1>5, <2>1, DomainSumWith DEF PaidBy
  <2> QED
    BY <1>8, <2>2
<1>11. SetAside' = SetAside - reserved.amount
  BY <1>4, <1>5, <1>6, <1>7, SumWithout DEF SetAside
<1>12. ASSUME NEW d
       PROVE  SetAsideFor(d)' =
                IF reserved.domain = d THEN SetAsideFor(d) - reserved.amount ELSE SetAsideFor(d)
  BY <1>4, <1>5, <1>6, <1>7, DomainSumWithout DEF SetAsideFor
<1>13. SettledSums(id, paid.amount, reserved.amount, reserved.domain, paid.at, paid.violation)
  BY <1>1, <1>4, <1>7, <1>9, <1>10, <1>11, <1>12, Zenon DEF SettledSums, settlement
<1>14. id \in 0 .. MaxId
  BY <1>4, <1>5 DEF IsMap
<1>15. paid.at = call[c].at
  OBVIOUS
<1> HIDE DEF paid, reserved, id
<1> QED
  BY <1>3, <1>6, <1>13, <1>14, <1>15, Zenon

\* The ledgers take what the sum of settlements takes, and a settlement within
\* its reservation leaves each limit's sum no larger.
LEMMA SettleTotals ==
    ASSUME Safe, Safe', Totals, NEW c \in Callers, Settle(c)
    PROVE  Totals'
<1>1. PICK id \in 0 .. MaxId, amount \in U64, reserved \in U64,
          domain \in Domains \cup {None}, at \in 0 .. now, violation \in BOOLEAN :
        SettledSums(id, amount, reserved, domain, at, violation)
  BY SettleSums
<1>2. amount \in Nat /\ reserved \in Nat
  BY NumbersAssumption DEF U64
<1>3. /\ state.global.total = Saturated(Paid)
      /\ \A d \in Domains : state.domains[d].total = Saturated(PaidBy(d))
  BY DEF Totals, TotalsExact, Paid, PaidBy
<1>4. /\ state'.global = Record(state.global, amount, at)
      /\ \A d \in Domains : state'.domains[d] =
            IF d = domain THEN Record(state.domains[d], amount, at) ELSE state.domains[d]
  BY <1>1 DEF SettledSums
<1>5. state'.frozen = (state.frozen \/ violation \/ amount > reserved)
  BY <1>1, Zenon DEF SettledSums
<1>6. Paid' = Paid + amount
  BY <1>1 DEF SettledSums
<1>7. ASSUME NEW d
       PROVE  PaidBy(d)' = IF domain = d THEN PaidBy(d) + amount ELSE PaidBy(d)
  BY <1>1 DEF SettledSums
<1>8. SetAside' = SetAside - reserved
  BY <1>1 DEF SettledSums
<1>9. ASSUME NEW d
       PROVE  SetAsideFor(d)' = IF domain = d THEN SetAsideFor(d) - reserved ELSE SetAsideFor(d)
  BY <1>1 DEF SettledSums
<1>10. /\ Paid \in Nat /\ SetAside \in Nat
       /\ \A d \in Domains : PaidBy(d) \in Nat /\ SetAsideFor(d) \in Nat
  BY SumsTyped DEF Safe
<1>11. TotalsExact'
  <2>1. state'.global.total = Saturated(Paid')
    <3>1. state'.global.total = Saturated(Saturated(Paid) + amount)
      BY <1>3, <1>4, RecordTotal
    <3> QED
      BY <1>2, <1>6, <1>10, <3>1, SaturatedAgain
  <2>2. ASSUME NEW d \in Domains PROVE state'.domains[d].total = Saturated(PaidBy(d)')
    <3>1. CASE d = domain
      <4>1. state'.domains[d].total = Saturated(Saturated(PaidBy(d)) + amount)
        <5>1. state'.domains[d] = Record(state.domains[d], amount, at)
          BY <1>4, <3>1
        <5>2. state'.domains[d].total = Saturated(state.domains[d].total + amount)
          BY <5>1, RecordTotal
        <5> QED
          BY <1>3, <5>2
      <4>2. PaidBy(d)' = PaidBy(d) + amount
        BY <1>7, <3>1
      <4> QED
        BY <1>2, <1>10, <4>1, <4>2, SaturatedAgain
    <3>2. CASE d # domain
      BY <1>3, <1>4, <1>7, <3>2
    <3> QED
      BY <3>1, <3>2
  <2> QED
    BY <2>1, <2>2 DEF TotalsExact, Paid, PaidBy
<1>12. state.frozen => state'.frozen
  BY <1>5
<1>13. ASSUME ~state'.frozen PROVE amount <= reserved
  <2>1. amount > reserved => state'.frozen
    BY <1>5, Zenon
  <2>2. ~(amount > reserved)
    BY <1>13, <2>1
  <2> QED
    BY <1>2, <2>2
<1>14. ~state'.frozen => Paid' + SetAside' <= Paid + SetAside
  BY <1>2, <1>6, <1>8, <1>10, <1>13
<1>15. ASSUME ~state'.frozen, NEW d \in Domains
       PROVE  PaidBy(d)' + SetAsideFor(d)' <= PaidBy(d) + SetAsideFor(d)
  <2>1. CASE domain = d
    <3>1. /\ PaidBy(d)' = PaidBy(d) + amount
          /\ SetAsideFor(d)' = SetAsideFor(d) - reserved
      BY <1>7, <1>9, <2>1
    <3> QED
      BY <1>2, <1>10, <1>13, <1>15, <3>1
  <2>2. CASE domain # d
    <3>1. PaidBy(d)' = PaidBy(d) /\ SetAsideFor(d)' = SetAsideFor(d)
      BY <1>7, <1>9, <2>2
    <3> QED
      BY <1>10, <3>1
  <2> QED
    BY <2>1, <2>2
<1> QED
  BY <1>11, <1>12, <1>14, <1>15, TotalsIfNoSumGrows DEF Safe

\* A step of release: less is set aside.
ReleasedSums(reserved, domain) ==
    /\ state'.global = state.global /\ state'.domains = state.domains
    /\ state'.frozen = state.frozen /\ settled' = settled
    /\ SetAside' = SetAside - reserved
    /\ \A d : SetAsideFor(d)' = IF domain = d THEN SetAsideFor(d) - reserved ELSE SetAsideFor(d)
    /\ Paid' = Paid /\ \A d : PaidBy(d)' = PaidBy(d)

LEMMA ReleaseSums ==
    ASSUME Safe, NEW c \in Callers, Release(c)
    PROVE  \E reserved \in U64, domain \in Domains \cup {None} : ReleasedSums(reserved, domain)
<1> DEFINE id == held[c].id
           reserved == state.pending[id]
<1>1. held[c] # None /\ state' = Released(state, id) /\ settled' = settled
  BY DEF Release, Holding
<1>2. id \in DOMAIN state.pending /\ IsMap(state.pending, 0 .. MaxId, Entry)
  BY <1>1 DEF Safe, LiveReservations, TypeOK, IsBudgetState
<1>3. /\ reserved.amount \in U64 /\ reserved.amount \in Nat
      /\ reserved.domain \in Domains \cup {None}
  <2>1. reserved \in Entry
    BY <1>2 DEF IsMap
  <2> QED
    BY <2>1, NumbersAssumption DEF Entry, U64
<1>4. /\ state'.global = state.global /\ state'.domains = state.domains
      /\ state'.frozen = state.frozen /\ state'.pending = Without(state.pending, id)
  <2>1. IsBudgetState(state, now) /\ now \in Nat
    BY DEF Safe, TypeOK
  <2> QED
    BY <1>1, <2>1, ReleasedState
<1>5. SetAside' = SetAside - reserved.amount
  BY <1>2, <1>3, <1>4, SumWithout DEF SetAside
<1>6. ASSUME NEW d
      PROVE  SetAsideFor(d)' =
                IF reserved.domain = d THEN SetAsideFor(d) - reserved.amount ELSE SetAsideFor(d)
  BY <1>2, <1>3, <1>4, DomainSumWithout DEF SetAsideFor
<1>7. Paid' = Paid /\ \A d : PaidBy(d)' = PaidBy(d)
  BY <1>1 DEF Paid, PaidBy
<1>8. ReleasedSums(reserved.amount, reserved.domain)
  BY <1>1, <1>4, <1>5, <1>6, <1>7 DEF ReleasedSums
<1> HIDE DEF reserved
<1> QED
  BY <1>3, <1>8

LEMMA ReleaseTotals ==
    ASSUME Safe, Safe', Totals, NEW c \in Callers, Release(c)
    PROVE  Totals'
<1>1. PICK reserved \in U64, domain \in Domains \cup {None} : ReleasedSums(reserved, domain)
  BY ReleaseSums
<1>2. reserved \in Nat
  BY NumbersAssumption DEF U64
<1>3. /\ state'.global = state.global /\ state'.domains = state.domains
      /\ state'.frozen = state.frozen /\ settled' = settled
  BY <1>1 DEF ReleasedSums
<1>4. SetAside' = SetAside - reserved
  BY <1>1 DEF ReleasedSums
<1>5. ASSUME NEW d
      PROVE  SetAsideFor(d)' = IF domain = d THEN SetAsideFor(d) - reserved ELSE SetAsideFor(d)
  BY <1>1 DEF ReleasedSums
<1>6. Paid' = Paid /\ \A d : PaidBy(d)' = PaidBy(d)
  BY <1>1 DEF ReleasedSums
<1>7. /\ Paid \in Nat /\ SetAside \in Nat
      /\ \A d \in Domains : PaidBy(d) \in Nat /\ SetAsideFor(d) \in Nat
  BY SumsTyped DEF Safe
<1>8. TotalsExact'
  BY <1>3 DEF Totals, TotalsExact
<1>9. Paid' + SetAside' <= Paid + SetAside
  BY <1>2, <1>4, <1>6, <1>7
<1>10. ASSUME NEW d \in Domains
       PROVE  PaidBy(d)' + SetAsideFor(d)' <= PaidBy(d) + SetAsideFor(d)
  <2>1. CASE domain = d
    BY <1>2, <1>5, <1>6, <1>7, <2>1
  <2>2. CASE domain # d
    BY <1>5, <1>6, <1>7, <2>2
  <2> QED
    BY <2>1, <2>2
<1>11. state.frozen => state'.frozen
  BY <1>3
<1> QED
  BY <1>8, <1>9, <1>10, <1>11, TotalsIfNoSumGrows DEF Safe

\* The other steps leave the ledgers, the reservations and the settlements alone.
LEMMA UnchangedTotals ==
    ASSUME Totals, UNCHANGED <<state, settled>>
    PROVE  Totals'
BY DEF Totals, TotalsExact, NoOverflow, TotalCap, TotalWithin

LEMMA NextTotals == Safe /\ Totals /\ [Next]_vars => Totals'
<1> SUFFICES ASSUME Safe, Totals, [Next]_vars PROVE Totals'
  OBVIOUS
<1>1. Safe'
  BY NextSafe
<1>2. ASSUME NEW c \in Callers, ReserveOk(c) PROVE Totals'
  BY <1>1, <1>2, ReserveOkTotals
<1>3. ASSUME NEW c \in Callers, Release(c) PROVE Totals'
  BY <1>1, <1>3, ReleaseTotals
<1>4. ASSUME NEW c \in Callers, Settle(c) PROVE Totals'
  BY <1>1, <1>4, SettleTotals
<1>5. ASSUME NEW c \in Callers, ReserveErr(c) \/ Drop(c) \/ BeginSettle(c) PROVE Totals'
  BY <1>5, UnchangedTotals DEF ReserveErr, Drop, BeginSettle
<1>6. ASSUME NEW c \in Callers, NEW amount \in Amounts, NEW max_fee \in MaxFees \cup {0},
             NEW domain \in Domains \cup {None}, NEW must_settle \in BOOLEAN,
             BeginReserve(c, amount, max_fee, domain, must_settle)
      PROVE  Totals'
  BY <1>6, UnchangedTotals DEF BeginReserve
<1>7. CASE Tick \/ UNCHANGED vars
  BY <1>7, UnchangedTotals DEF Tick, vars
<1> QED
  BY <1>2, <1>3, <1>4, <1>5, <1>6, <1>7 DEF Next

\* The unchecked sums of reserve_at do not wrap, as its expect()s say.
THEOREM SumsDoNotOverflow == Spec => []NoOverflow
<1>1. Safe /\ Totals => NoOverflow
  BY DEF Totals
<1>2. Init => Safe /\ Totals
  BY InitSafe, InitTotals
<1>3. Safe /\ Totals /\ [Next]_vars => (Safe /\ Totals)'
  BY NextSafe, NextTotals
<1> QED
  BY <1>1, <1>2, <1>3, PTL DEF Spec

\* However many callers pay at once and whichever of their futures are dropped,
\* what they spend and hold reserved is within total_max until a wallet breaks
\* the reservation it was given.
THEOREM TotalCapHolds == Spec => []TotalCap
<1>1. Safe /\ Totals => TotalCap
  BY DEF Totals
<1>2. Init => Safe /\ Totals
  BY InitSafe, InitTotals
<1>3. Safe /\ Totals /\ [Next]_vars => (Safe /\ Totals)'
  BY NextSafe, NextTotals
<1> QED
  BY <1>1, <1>2, <1>3, PTL DEF Spec

-----------------------------------------------------------------------------
(* The refinement of SpendingLimit.                                        *)

LEMMA TotalLimitTyped == TotalLimit \in Nat
BY BudgetsTyped, NumbersAssumption DEF TotalLimit

LEMMA WithinTotalLimit ==
    ASSUME Totals', ~state'.frozen PROVE Paid' + SetAside' <= TotalLimit
BY DEF Totals, NoOverflow, TotalCap, TotalWithin, TotalLimit, Paid, SetAside

LEMMA ReserveOkRefines ==
    ASSUME Safe, Totals', NEW c \in Callers, ReserveOk(c)
    PROVE  Limited!SetAside
<1>1. PICK amount \in U64, domain \in Domains \cup {None}, at \in 0 .. now : ReservedSums(amount, domain, at)
  BY ReserveOkSums
<1>2. /\ SetAside' = SetAside + amount /\ Paid' = Paid /\ amount \in Nat
      /\ ~state.frozen /\ state'.frozen = state.frozen
  BY <1>1, NumbersAssumption DEF ReservedSums, U64
<1>3. Paid + SetAside + amount <= TotalLimit
  BY <1>2, WithinTotalLimit, SumsTyped DEF Safe
<1>4. amount \in 0 .. TotalLimit
  BY <1>2, <1>3, SumsTyped, TotalLimitTyped DEF Safe
<1> QED
  BY <1>2, <1>3, <1>4 DEF Limited!SetAside, Paid, SetAside

LEMMA ReleaseRefines ==
    ASSUME Safe, Safe', NEW c \in Callers, Release(c)
    PROVE  Limited!GiveBack
<1>1. PICK reserved \in U64, domain \in Domains \cup {None} : ReleasedSums(reserved, domain)
  BY ReleaseSums
<1>2. /\ SetAside' = SetAside - reserved /\ Paid' = Paid /\ reserved \in Nat
      /\ state'.frozen = state.frozen
  BY <1>1, NumbersAssumption DEF ReleasedSums, U64
<1>3. reserved \in 0 .. SetAside
  BY <1>2, SumsTyped, SumsTypedNext DEF Safe
<1> QED
  BY <1>2, <1>3 DEF Limited!GiveBack, Paid, SetAside

LEMMA SettleRefines ==
    ASSUME Safe, Safe', NEW c \in Callers, Settle(c)
    PROVE  Limited!Spend \/ Limited!Overspend
<1>1. PICK id \in 0 .. MaxId, amount \in U64, reserved \in U64,
          domain \in Domains \cup {None}, at \in 0 .. now, violation \in BOOLEAN :
        SettledSums(id, amount, reserved, domain, at, violation)
  BY SettleSums
<1>2. /\ SetAside' = SetAside - reserved /\ Paid' = Paid + amount
      /\ reserved \in Nat /\ amount \in Nat
  BY <1>1, NumbersAssumption DEF SettledSums, U64
<1>3. state'.frozen = (state.frozen \/ violation \/ amount > reserved)
  BY <1>1, Zenon DEF SettledSums
<1>4. /\ reserved \in 0 .. SetAside /\ Paid' \in Nat /\ Paid' >= Paid /\ Paid \in Nat
  BY <1>2, SumsTyped, SumsTypedNext DEF Safe
<1>5. CASE amount <= reserved
  <2>1. Paid' \in Paid .. (Paid + reserved)
    BY <1>2, <1>4, <1>5
  <2>2. state.frozen \in BOOLEAN /\ state'.frozen \in BOOLEAN
    BY DEF Safe, TypeOK, IsBudgetState
  <2>3. (~state.frozen)' \in {~state.frozen, FALSE}
    <3>1. state.frozen => state'.frozen
      BY <1>3, Zenon
    <3> QED
      BY <2>2, <3>1
  <2> DEFINE aside == Sum(state.pending, DOMAIN state.pending)
             spent == Sum(settled, DOMAIN settled)
             open == ~state.frozen
  <2>4. aside' = aside - reserved /\ reserved \in 0 .. aside /\ spent' \in spent .. (spent + reserved)
    BY <1>2, <1>4, <2>1 DEF SetAside, Paid
  <2>5. open' \in {open, FALSE}
    BY <2>3
  <2> HIDE DEF aside, spent, open
  <2>6. /\ \E amt \in 0 .. aside : aside' = aside - amt /\ spent' \in spent .. (spent + amt)
        /\ open' \in {open, FALSE}
    BY <2>4, <2>5
  <2>7. Limited!Spend
    BY <2>6 DEF Limited!Spend, aside, spent, open
  <2> QED
    BY <2>7
<1>6. CASE amount > reserved
  <2>1. ~state'.frozen = FALSE
    BY <1>3, <1>6
  <2>2. Limited!Overspend
    BY <1>2, <1>4, <2>1 DEF Limited!Overspend, Paid, SetAside
  <2> QED
    BY <2>2
<1> QED
  BY <1>2, <1>5, <1>6

LEMMA NextRefines ==
    ASSUME Safe, Safe', Totals', [Next]_vars PROVE [Limited!Next]_Limited!vars
<1>1. ASSUME NEW c \in Callers, ReserveOk(c) PROVE Limited!Next
  BY <1>1, ReserveOkRefines DEF Limited!Next
<1>2. ASSUME NEW c \in Callers, Release(c) PROVE Limited!Next
  BY <1>2, ReleaseRefines DEF Limited!Next
<1>3. ASSUME NEW c \in Callers, Settle(c) PROVE Limited!Next
  BY <1>3, SettleRefines DEF Limited!Next
<1>4. CASE UNCHANGED <<state, settled>>
  BY <1>4 DEF Limited!vars
<1>5. ASSUME NEW c \in Callers, ReserveErr(c) \/ Drop(c) \/ BeginSettle(c)
      PROVE  UNCHANGED <<state, settled>>
  BY <1>5 DEF ReserveErr, Drop, BeginSettle
<1>6. ASSUME NEW c \in Callers, NEW amount \in Amounts, NEW max_fee \in MaxFees \cup {0},
             NEW domain \in Domains \cup {None}, NEW must_settle \in BOOLEAN,
             BeginReserve(c, amount, max_fee, domain, must_settle)
      PROVE  UNCHANGED <<state, settled>>
  BY <1>6 DEF BeginReserve
<1>7. Tick \/ UNCHANGED vars => UNCHANGED <<state, settled>>
  BY DEF Tick, vars
<1> QED
  BY <1>1, <1>2, <1>3, <1>4, <1>5, <1>6, <1>7 DEF Next

\* The tracker implements a spending limit of total_max, or of u64::MAX where
\* there is none: reserve_at sets aside only what is left of it, and after a
\* payment beyond its reservation nothing more is set aside.
THEOREM ImplementsSpendingLimit == Spec => WithinLimit
<1>1. Init => Safe /\ Totals /\ Limited!Init
  <2> SUFFICES ASSUME Init PROVE Limited!Init
    BY InitSafe, InitTotals
  <2> QED
    BY SumOfNone DEF Init, NewBudgetState, Limited!Init
<1>2. Safe /\ Totals /\ [Next]_vars => (Safe /\ Totals)' /\ [Limited!Next]_Limited!vars
  BY NextSafe, NextTotals, NextRefines
<1> QED
  BY <1>1, <1>2, PTL DEF Spec, WithinLimit, Limited!Spec
===============================================================================
