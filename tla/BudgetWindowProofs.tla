-------------------------- MODULE BudgetWindowProofs --------------------------
(***************************************************************************)
(* The hours and days of the budget tracker, for any callers, budgets,     *)
(* lengths of an hour and a day, and numbers of buckets kept.              *)
(***************************************************************************)
EXTENDS BudgetProofs

-----------------------------------------------------------------------------
(* Buckets.  One that no settlement was late enough to drop is the sum of  *)
(* the settlements charged to it.                                          *)

\* The settlements among ids in the n-th stretch of len seconds.
During(map, ids, len, n) == {i \in ids : map[i].at \div len = n}

Exactly(buckets, map, ids, len, keep) ==
    \A n \in Nat :
        (\A i \in DOMAIN map : map[i].at \div len - keep <= n)
        => Bucket(buckets, n) = Saturated(Sum(map, During(map, ids, len, n)))

\* A map of settlements, and it with one more.
OneMore(map, id, entry, next) ==
    /\ id \notin DOMAIN map
    /\ DOMAIN next = DOMAIN map \cup {id}
    /\ next[id] = entry
    /\ \A i \in DOMAIN map : next[i] = map[i]

LEMMA DuringIsFinite ==
    ASSUME NEW map, NEW ids, IsFiniteSet(ids), NEW len, NEW n
    PROVE  IsFiniteSet(During(map, ids, len, n))
<1>1. During(map, ids, len, n) \in SUBSET ids
  BY DEF During
<1> QED
  BY <1>1, FS_Subset

\* The sum of a stretch is the same for entries that were there before, and
\* grows by the new one's amount if that is in the stretch.
LEMMA DuringKept ==
    ASSUME NEW map, NEW id, NEW entry, NEW next, OneMore(map, id, entry, next),
           NEW ids, ids \subseteq DOMAIN map, NEW len, NEW n
    PROVE  During(next, ids, len, n) = During(map, ids, len, n)
BY DEF OneMore, During

LEMMA SumDuringKept ==
    ASSUME NEW map, NEW id, NEW entry, NEW next, OneMore(map, id, entry, next),
           NEW ids, ids \subseteq DOMAIN map, NEW len, NEW n
    PROVE  Sum(next, During(next, ids, len, n)) = Sum(map, During(map, ids, len, n))
<1>1. \A i \in During(map, ids, len, n) : next[i].amount = map[i].amount
  BY DEF OneMore, During
<1>2. Sum(next, During(map, ids, len, n)) = Sum(map, During(map, ids, len, n))
  BY <1>1, SumCongruent
<1> QED
  BY <1>2, DuringKept

LEMMA SumDuringGrows ==
    ASSUME NEW map, NEW id, NEW entry, NEW next, OneMore(map, id, entry, next),
           NEW ids, ids \subseteq DOMAIN map, IsFiniteSet(ids), entry.amount \in U64,
           NEW len, NEW n
    PROVE  Sum(next, During(next, ids \cup {id}, len, n)) =
              IF entry.at \div len = n THEN Sum(map, During(map, ids, len, n)) + entry.amount
                                       ELSE Sum(map, During(map, ids, len, n))
<1> DEFINE some == During(next, ids, len, n)
<1>1. next[id] = entry /\ id \notin some
  BY DEF OneMore, During
<1>2. Sum(next, some) = Sum(map, During(map, ids, len, n))
  BY SumDuringKept
<1>3. IsFiniteSet(some)
  BY DuringIsFinite
<1>4. CASE entry.at \div len = n
  <2>1. During(next, ids \cup {id}, len, n) = some \cup {id}
    BY <1>1, <1>4 DEF During
  <2> HIDE DEF some
  <2>2. Sum(next, some \cup {id}) = Sum(next, some) + next[id].amount
    BY <1>1, <1>3, SumPlusOne
  <2> QED
    BY <1>1, <1>2, <1>4, <2>1, <2>2
<1>5. CASE entry.at \div len # n
  <2>1. During(next, ids \cup {id}, len, n) = some
    BY <1>1, <1>5 DEF During
  <2> QED
    BY <1>2, <1>5, <2>1
<1> QED
  BY <1>4, <1>5

\* Charging a settlement and dropping old buckets keeps the others exact.
LEMMA BucketAfter ==
    ASSUME NEW buckets, NEW key, NEW amount, NEW oldest, NEW n, n >= oldest
    PROVE  Bucket(Retained(Charged(buckets, key, amount), oldest), n) =
              IF n = key THEN Saturated(Bucket(buckets, key) + amount) ELSE Bucket(buckets, n)
<1> DEFINE charged == Charged(buckets, key, amount)
<1>1. /\ DOMAIN charged = DOMAIN buckets \cup {key}
      /\ charged[key] = Saturated(Bucket(buckets, key) + amount)
      /\ \A k \in DOMAIN buckets : k # key => charged[k] = buckets[k]
  BY DEF Charged, With
<1> HIDE DEF charged
<1>2. Bucket(Retained(charged, oldest), n) = Bucket(charged, n)
  BY DEF Retained, Bucket
<1>3. Bucket(charged, n) = IF n = key THEN Saturated(Bucket(buckets, key) + amount)
                                      ELSE Bucket(buckets, n)
  BY <1>1 DEF Bucket
<1> QED
  BY <1>2, <1>3 DEF charged

LEMMA ChargedIsExact ==
    ASSUME NEW map, NEW id, NEW entry, NEW next, OneMore(map, id, entry, next),
           NEW ids, ids \subseteq DOMAIN map, IsFiniteSet(ids), entry.amount \in U64,
           NEW len, NEW keep \in Nat, NEW key \in Nat, key = entry.at \div len,
           NEW buckets, Exactly(buckets, map, ids, len, keep)
    PROVE  Exactly(Retained(Charged(buckets, key, entry.amount), key - keep),
                   next, ids \cup {id}, len, keep)
<1> DEFINE later == Retained(Charged(buckets, key, entry.amount), key - keep)
<1> SUFFICES ASSUME NEW n \in Nat, \A i \in DOMAIN next : next[i].at \div len - keep <= n
             PROVE  Bucket(later, n) = Saturated(Sum(next, During(next, ids \cup {id}, len, n)))
  BY DEF Exactly
<1>1. key - keep <= n
  BY DEF OneMore
<1>2. \A i \in DOMAIN map : map[i].at \div len - keep <= n
  BY DEF OneMore
<1> DEFINE sum == Sum(map, During(map, ids, len, n))
<1>3. Bucket(buckets, n) = Saturated(sum)
  BY <1>2 DEF Exactly
<1>4. IsFiniteSet(During(map, ids, len, n))
  BY DuringIsFinite
<1>5. sum \in Nat
  BY <1>4, SumIsNat
<1>6. entry.amount \in Nat
  BY NumbersAssumption DEF U64
<1>7. Bucket(later, n) = IF n = key THEN Saturated(Bucket(buckets, key) + entry.amount)
                                    ELSE Bucket(buckets, n)
  <2>1. n >= key - keep
    BY <1>1
  <2> DEFINE oldest == key - keep
             amount == entry.amount
  <2>2. n >= oldest
    BY <2>1
  <2> HIDE DEF oldest, amount, later
  <2>3. Bucket(Retained(Charged(buckets, key, amount), oldest), n) =
           IF n = key THEN Saturated(Bucket(buckets, key) + amount) ELSE Bucket(buckets, n)
    BY <2>2, BucketAfter
  <2> QED
    BY <2>3 DEF oldest, amount, later
<1>8. Sum(next, During(next, ids \cup {id}, len, n)) =
         IF key = n THEN sum + entry.amount ELSE sum
  BY SumDuringGrows
<1> HIDE DEF later, sum
<1>9. CASE n = key
  <2>1. Bucket(later, n) = Saturated(Saturated(sum) + entry.amount)
    BY <1>3, <1>7, <1>9
  <2>2. Saturated(Saturated(sum) + entry.amount) = Saturated(sum + entry.amount)
    BY <1>5, <1>6, SaturatedAgain
  <2> QED
    BY <1>8, <1>9, <2>1, <2>2
<1>10. CASE n # key
  BY <1>3, <1>7, <1>8, <1>10
<1> QED
  BY <1>9, <1>10 DEF later

\* A settlement of another domain leaves them exact.
LEMMA OthersAreExact ==
    ASSUME NEW map, NEW id, NEW entry, NEW next, OneMore(map, id, entry, next),
           NEW ids, ids \subseteq DOMAIN map, NEW len, NEW keep,
           NEW buckets, Exactly(buckets, map, ids, len, keep)
    PROVE  Exactly(buckets, next, ids, len, keep)
<1> SUFFICES ASSUME NEW n \in Nat, \A i \in DOMAIN next : next[i].at \div len - keep <= n
             PROVE  Bucket(buckets, n) = Saturated(Sum(next, During(next, ids, len, n)))
  BY DEF Exactly
<1>1. \A i \in DOMAIN map : map[i].at \div len - keep <= n
  BY DEF OneMore
<1>2. Bucket(buckets, n) = Saturated(Sum(map, During(map, ids, len, n)))
  BY <1>1 DEF Exactly
<1> QED
  BY <1>2, SumDuringKept

-----------------------------------------------------------------------------
(* The ledgers are exact.                                                  *)

ExactWindows(ledger, ids) ==
    /\ Exactly(ledger.hourly, settled, ids, SecondsPerHour, KeepHours)
    /\ Exactly(ledger.daily, settled, ids, SecondsPerDay, KeepDays)

WindowsExact ==
    /\ ExactWindows(state.global, DOMAIN settled)
    /\ \A d \in Domains : ExactWindows(state.domains[d], IdsOf(settled, d))

LEMMA InitWindows == Init => WindowsExact
<1> SUFFICES ASSUME Init PROVE WindowsExact
  OBVIOUS
<1>1. settled = [i \in {} |-> 0] /\ IdsOf(settled, None) = {}
  BY DEF Init, IdsOf
<1>2. ASSUME NEW ids, ids = {}, NEW len, NEW n, NEW keep, NEW buckets, DOMAIN buckets = {}
      PROVE  Exactly(buckets, settled, ids, len, keep)
  <2>1. \A m : During(settled, ids, len, m) = {}
    BY <1>2 DEF During
  <2>2. Saturated(0) = 0
    BY NumbersAssumption DEF Saturated
  <2> QED
    BY <1>2, <2>1, <2>2, SumOfNone DEF Exactly, Bucket
<1>3. \A d : IdsOf(settled, d) = {}
  BY <1>1 DEF IdsOf
<1>4. /\ state.global = NewLedger /\ \A d \in Domains : state.domains[d] = NewLedger
      /\ DOMAIN NewLedger.hourly = {} /\ DOMAIN NewLedger.daily = {}
  BY DEF Init, NewBudgetState, NewLedger
<1>5. ASSUME NEW ids, ids = {} PROVE ExactWindows(NewLedger, ids)
  BY <1>2, <1>4, <1>5 DEF ExactWindows
<1> QED
  BY <1>1, <1>3, <1>4, <1>5 DEF WindowsExact

\* Record charges a settlement to the windows of a ledger.
LEMMA RecordWindows ==
    ASSUME NEW ids, ids \subseteq DOMAIN settled, IsFiniteSet(ids),
           NEW id, NEW entry, OneMore(settled, id, entry, settled'),
           entry.amount \in U64, entry.at \in Nat,
           NEW ledger, ExactWindows(ledger, ids),
           NEW next, next = Record(ledger, entry.amount, entry.at)
    PROVE  /\ Exactly(next.hourly, settled', ids \cup {id}, SecondsPerHour, KeepHours)
           /\ Exactly(next.daily, settled', ids \cup {id}, SecondsPerDay, KeepDays)
<1>1. Hour(entry.at) \in Nat /\ Day(entry.at) \in Nat
  BY BucketsInOrder
<1>2. /\ next.hourly = Retained(Charged(ledger.hourly, Hour(entry.at), entry.amount),
                                Hour(entry.at) - KeepHours)
      /\ next.daily = Retained(Charged(ledger.daily, Day(entry.at), entry.amount),
                               Day(entry.at) - KeepDays)
  BY DEF Record
<1>3. Exactly(next.hourly, settled', ids \cup {id}, SecondsPerHour, KeepHours)
  <2> DEFINE key == Hour(entry.at)
  <2>1. key = entry.at \div SecondsPerHour
    BY DEF Hour
  <2>2. Exactly(ledger.hourly, settled, ids, SecondsPerHour, KeepHours)
    BY DEF ExactWindows
  <2>3. KeepHours \in Nat
    BY NumbersAssumption
  <2> HIDE DEF key
  <2>4. Exactly(Retained(Charged(ledger.hourly, key, entry.amount), key - KeepHours),
                settled', ids \cup {id}, SecondsPerHour, KeepHours)
    <3>1. key \in Nat
      BY <1>1 DEF key
    <3> QED
      BY <2>1, <2>2, <2>3, <3>1, ChargedIsExact
  <2> QED
    BY <1>2, <2>4 DEF key
<1>4. Exactly(next.daily, settled', ids \cup {id}, SecondsPerDay, KeepDays)
  <2> DEFINE key == Day(entry.at)
  <2>1. key = entry.at \div SecondsPerDay
    BY DEF Day
  <2>2. Exactly(ledger.daily, settled, ids, SecondsPerDay, KeepDays)
    BY DEF ExactWindows
  <2>3. KeepDays \in Nat
    BY NumbersAssumption
  <2> HIDE DEF key
  <2>4. Exactly(Retained(Charged(ledger.daily, key, entry.amount), key - KeepDays),
                settled', ids \cup {id}, SecondsPerDay, KeepDays)
    <3>1. key \in Nat
      BY <1>1 DEF key
    <3> QED
      BY <2>1, <2>2, <2>3, <3>1, ChargedIsExact
  <2> QED
    BY <1>2, <2>4 DEF key
<1> QED
  BY <1>3, <1>4

LEMMA SettleWindows ==
    ASSUME Safe, WindowsExact, NEW c \in Callers, Settle(c)
    PROVE  WindowsExact'
<1>1. PICK id \in 0 .. MaxId, amount \in U64, reserved \in U64,
          domain \in Domains \cup {None}, at \in 0 .. now, violation \in BOOLEAN :
        SettledSums(id, amount, reserved, domain, at, violation)
  BY SettleSums
<1> DEFINE entry == [amount |-> amount, domain |-> domain, at |-> at]
<1>2. OneMore(settled, id, entry, settled')
  BY <1>1 DEF SettledSums, OneMore, With
<1>3. entry.amount \in U64 /\ entry.at \in Nat /\ entry.amount = amount /\ entry.at = at
  BY DEF Safe, TypeOK
<1>4. /\ state'.global = Record(state.global, amount, at)
      /\ \A d \in Domains : state'.domains[d] =
            IF d = domain THEN Record(state.domains[d], amount, at) ELSE state.domains[d]
  BY <1>1 DEF SettledSums
<1>5. /\ DOMAIN settled' = DOMAIN settled \cup {id}
      /\ \A d : IdsOf(settled', d) =
             IF domain = d THEN IdsOf(settled, d) \cup {id} ELSE IdsOf(settled, d)
  BY <1>2 DEF OneMore, IdsOf
<1>6. /\ IsFiniteSet(DOMAIN settled)
      /\ \A d : IsFiniteSet(IdsOf(settled, d)) /\ IdsOf(settled, d) \subseteq DOMAIN settled
  <2>1. IsMap(settled, 0 .. MaxId, Settlement)
    BY DEF Safe, TypeOK
  <2> QED
    BY <2>1, IdsAreFinite DEF IdsOf
<1> HIDE DEF entry
<1>7. ExactWindows(state.global, DOMAIN settled)'
  <2>1. ExactWindows(state.global, DOMAIN settled)
    BY DEF WindowsExact
  <2>2. state'.global = Record(state.global, entry.amount, entry.at)
    BY <1>3, <1>4
  <2>3. DOMAIN settled \subseteq DOMAIN settled
    OBVIOUS
  <2>4. /\ Exactly(state'.global.hourly, settled', DOMAIN settled \cup {id}, SecondsPerHour, KeepHours)
        /\ Exactly(state'.global.daily, settled', DOMAIN settled \cup {id}, SecondsPerDay, KeepDays)
    BY <1>2, <1>3, <1>6, <2>1, <2>2, <2>3, RecordWindows
  <2> QED
    BY <1>5, <2>4 DEF ExactWindows
<1>8. ASSUME NEW d \in Domains PROVE ExactWindows(state.domains[d], IdsOf(settled, d))'
  <2>1. ExactWindows(state.domains[d], IdsOf(settled, d))
    BY DEF WindowsExact
  <2> DEFINE ids == IdsOf(settled, d)
             ledger == state.domains[d]
             next == state'.domains[d]
  <2>2. ids \subseteq DOMAIN settled /\ IsFiniteSet(ids) /\ ExactWindows(ledger, ids)
    BY <1>6, <2>1
  <2>3. CASE domain = d
    <3>1. next = Record(ledger, entry.amount, entry.at)
      BY <1>3, <1>4, <2>3
    <3>2. IdsOf(settled', d) = ids \cup {id}
      BY <1>5, <2>3
    <3> HIDE DEF ids, ledger, next
    <3>3. /\ Exactly(next.hourly, settled', ids \cup {id}, SecondsPerHour, KeepHours)
          /\ Exactly(next.daily, settled', ids \cup {id}, SecondsPerDay, KeepDays)
      BY <1>2, <1>3, <2>2, <3>1, RecordWindows
    <3> QED
      BY <3>2, <3>3 DEF ExactWindows, next
  <2>4. CASE domain # d
    <3>1. next = ledger /\ IdsOf(settled', d) = ids
      BY <1>4, <1>5, <2>4
    <3>2. /\ Exactly(ledger.hourly, settled, ids, SecondsPerHour, KeepHours)
          /\ Exactly(ledger.daily, settled, ids, SecondsPerDay, KeepDays)
      BY <2>2 DEF ExactWindows
    <3> HIDE DEF ids, ledger, next
    <3>3. /\ Exactly(ledger.hourly, settled', ids, SecondsPerHour, KeepHours)
          /\ Exactly(ledger.daily, settled', ids, SecondsPerDay, KeepDays)
      BY <1>2, <2>2, <3>2, OthersAreExact
    <3> QED
      BY <3>1, <3>3 DEF ExactWindows, next
  <2> QED
    BY <2>3, <2>4
<1> QED
  BY <1>7, <1>8 DEF WindowsExact

\* The other steps record nothing.
LEMMA NothingRecorded ==
    ASSUME Safe, [Next]_vars, \A c \in Callers : ~Settle(c)
    PROVE  /\ settled' = settled /\ state'.global = state.global
           /\ state'.domains = state.domains
<1>1. ASSUME NEW c \in Callers, ReserveOk(c)
      PROVE  settled' = settled /\ state'.global = state.global /\ state'.domains = state.domains
  BY <1>1, ReserveOkSums DEF ReservedSums
<1>2. ASSUME NEW c \in Callers, Release(c)
      PROVE  settled' = settled /\ state'.global = state.global /\ state'.domains = state.domains
  BY <1>2, ReleaseSums DEF ReleasedSums
<1>3. ASSUME NEW c \in Callers, ReserveErr(c) \/ Drop(c) \/ BeginSettle(c)
      PROVE  UNCHANGED <<state, settled>>
  BY <1>3 DEF ReserveErr, Drop, BeginSettle
<1>4. ASSUME NEW c \in Callers, NEW amount \in Amounts, NEW max_fee \in MaxFees \cup {0},
             NEW domain \in Domains \cup {None}, NEW must_settle \in BOOLEAN,
             BeginReserve(c, amount, max_fee, domain, must_settle)
      PROVE  UNCHANGED <<state, settled>>
  BY <1>4 DEF BeginReserve
<1>5. Tick \/ UNCHANGED vars => UNCHANGED <<state, settled>>
  BY DEF Tick, vars
<1> QED
  BY <1>1, <1>2, <1>3, <1>4, <1>5 DEF Next

LEMMA NextWindows == Safe /\ WindowsExact /\ [Next]_vars => WindowsExact'
<1> SUFFICES ASSUME Safe, WindowsExact, [Next]_vars PROVE WindowsExact'
  OBVIOUS
<1>1. CASE \E c \in Callers : Settle(c)
  BY <1>1, SettleWindows
<1>2. CASE \A c \in Callers : ~Settle(c)
  BY <1>2, NothingRecorded DEF WindowsExact, ExactWindows
<1> QED
  BY <1>1, <1>2

LEMMA WindowsAreExact ==
    ASSUME Safe, WindowsExact, TotalsExact
    PROVE  LedgersExact
<1>1. now \in Nat /\ Hour(now) \in Nat /\ Day(now) \in Nat
  BY BucketsInOrder DEF Safe, TypeOK
<1>2. \A i \in DOMAIN settled : settled[i].at \in 0 .. now
  BY DEF Safe, TypeOK, IsMap, Settlement
<1>3. \A i \in DOMAIN settled : /\ Hour(settled[i].at) \in 0 .. Hour(now)
                                /\ Day(settled[i].at) \in 0 .. Day(now)
  BY <1>1, <1>2, BucketsInOrder
<1>4. ASSUME NEW ledger, NEW ids, ExactWindows(ledger, ids),
             ledger.total = Saturated(Sum(settled, ids))
      PROVE  Exact(ledger, ids)
  <2>1. ASSUME NEW h \in 0 .. Hour(now), h >= Hour(now) - KeepHours
        PROVE  Bucket(ledger.hourly, h) = Saturated(Sum(settled, SettledDuring(ids, h)))
    <3>1. \A i \in DOMAIN settled : settled[i].at \div SecondsPerHour - KeepHours <= h
      BY <1>1, <1>3, <2>1, NumbersAssumption DEF Hour
    <3>2. SettledDuring(ids, h) = During(settled, ids, SecondsPerHour, h)
      BY DEF SettledDuring, During, Hour
    <3>3. h \in Nat
      BY <1>1
    <3> QED
      BY <1>4, <3>1, <3>2, <3>3 DEF ExactWindows, Exactly
  <2>2. ASSUME NEW d \in 0 .. Day(now), d >= Day(now) - KeepDays
        PROVE  Bucket(ledger.daily, d) = Saturated(Sum(settled, SettledOn(ids, d)))
    <3>1. \A i \in DOMAIN settled : settled[i].at \div SecondsPerDay - KeepDays <= d
      BY <1>1, <1>3, <2>2, NumbersAssumption DEF Day
    <3>2. SettledOn(ids, d) = During(settled, ids, SecondsPerDay, d)
      BY DEF SettledOn, During, Day
    <3>3. d \in Nat
      BY <1>1
    <3> QED
      BY <1>4, <3>1, <3>2, <3>3 DEF ExactWindows, Exactly
  <2> QED
    BY <1>4, <2>1, <2>2 DEF Exact
<1> QED
  BY <1>4 DEF LedgersExact, WindowsExact, TotalsExact

\* Paid money does not disappear: the totals, and every bucket that is kept,
\* are the sums of the settlements charged to them.
THEOREM LedgersStayExact == Spec => []LedgersExact
<1>1. Safe /\ Totals /\ WindowsExact => LedgersExact
  BY WindowsAreExact DEF Totals
<1>2. Init => Safe /\ Totals /\ WindowsExact
  BY InitSafe, InitTotals, InitWindows
<1>3. Safe /\ Totals /\ WindowsExact /\ [Next]_vars => (Safe /\ Totals /\ WindowsExact)'
  BY NextSafe, NextTotals, NextWindows
<1> QED
  BY <1>1, <1>2, <1>3, PTL DEF Spec

-----------------------------------------------------------------------------
(* The limits per hour and per day, on one thread.  A call that has read   *)
(* the clock is then the only one, and no settlement is later than it: its *)
(* stretch is the latest that anything was charged to, and what is set     *)
(* aside fits into it and into every later one.                            *)

\* What fits: no stretch has more than the limit, and what is set aside would
\* still fit into the stretch of each of some times.
Room(limit, map, ids, aside, len, times) ==
    limit # None =>
       /\ \A n \in Nat : Sum(map, During(map, ids, len, n)) <= limit
       /\ \A t \in times : Sum(map, During(map, ids, len, t \div len)) + aside <= limit

LEMMA RoomKept ==
    ASSUME NEW limit \in U64 \cup {None}, NEW map, NEW ids, IsFiniteSet(ids), NEW len,
           NEW aside \in Nat, NEW times, Room(limit, map, ids, aside, len, times),
           NEW less \in Nat, less <= aside, NEW later, later \subseteq times
    PROVE  Room(limit, map, ids, less, len, later)
<1>1. \A n : Sum(map, During(map, ids, len, n)) \in Nat
  BY DuringIsFinite, SumIsNat
<1> QED
  BY <1>1, NumbersAssumption DEF Room, U64

LEMMA RoomOfOthers ==
    ASSUME NEW limit, NEW map, NEW id, NEW entry, NEW next, OneMore(map, id, entry, next),
           NEW ids, ids \subseteq DOMAIN map, NEW len,
           NEW aside, NEW times, Room(limit, map, ids, aside, len, times)
    PROVE  Room(limit, next, ids, aside, len, times)
<1>1. \A n : Sum(next, During(next, ids, len, n)) = Sum(map, During(map, ids, len, n))
  BY SumDuringKept
<1> QED
  BY <1>1 DEF Room

\* A settlement within its reservation takes no more room than that did.
LEMMA RoomSettled ==
    ASSUME NEW limit \in U64 \cup {None}, NEW map, NEW id, NEW entry, NEW next,
           OneMore(map, id, entry, next),
           NEW ids, ids \subseteq DOMAIN map, IsFiniteSet(ids), entry.amount \in U64,
           NEW len, NEW aside \in Nat, NEW times, entry.at \in times,
           Room(limit, map, ids, aside, len, times),
           NEW reserved \in Nat, reserved <= aside, entry.amount <= reserved
    PROVE  Room(limit, next, ids \cup {id}, aside - reserved, len, times)
<1> DEFINE sum(n) == Sum(map, During(map, ids, len, n))
           after(n) == Sum(next, During(next, ids \cup {id}, len, n))
           key == entry.at \div len
<1>1. \A n : sum(n) \in Nat
  BY DuringIsFinite, SumIsNat
<1>2. \A n : after(n) = IF key = n THEN sum(n) + entry.amount ELSE sum(n)
  BY SumDuringGrows
<1>3. entry.amount \in Nat
  BY NumbersAssumption DEF U64
<1> SUFFICES ASSUME limit # None
             PROVE  /\ \A n \in Nat : after(n) <= limit
                    /\ \A t \in times : after(t \div len) + (aside - reserved) <= limit
  BY DEF Room
<1>4. limit \in Nat
  BY NumbersAssumption DEF U64
<1>5. /\ \A n \in Nat : sum(n) <= limit
      /\ sum(key) + aside <= limit
      /\ \A t \in times : sum(t \div len) + aside <= limit
  BY DEF Room
<1> HIDE DEF sum, after, key
<1>6. ASSUME NEW n \in Nat PROVE after(n) <= limit
  BY <1>1, <1>2, <1>3, <1>4, <1>5
<1>7. ASSUME NEW t \in times PROVE after(t \div len) + (aside - reserved) <= limit
  BY <1>1, <1>2, <1>3, <1>4, <1>5
<1> QED
  BY <1>6, <1>7

\* What the bucket of a time admits fits, when nothing was settled after it.
LEMMA RoomReserved ==
    ASSUME NEW limit \in U64 \cup {None}, NEW map, NEW ids, ids \subseteq DOMAIN map,
           IsFiniteSet(ids), NEW len \in Nat \ {0}, NEW keep \in Nat, NEW buckets,
           Exactly(buckets, map, ids, len, keep),
           NEW aside \in Nat, NEW times, Room(limit, map, ids, aside, len, times),
           Sum(map, ids) + aside <= MaxU64,
           NEW at \in Nat, \A i \in DOMAIN map : map[i].at \in Nat /\ map[i].at <= at,
           NEW amount \in Nat,
           Within(Saturated(Bucket(buckets, at \div len) + (aside % (MaxU64 + 1))), amount, limit),
           NEW later, \A t \in later : t \in Nat /\ at <= t
    PROVE  Room(limit, map, ids, aside + amount, len, later)
<1> DEFINE key == at \div len
           sum(n) == Sum(map, During(map, ids, len, n))
<1>1. key \in Nat /\ \A t \in later : t \div len \in Nat /\ key <= t \div len
  OBVIOUS
<1>2. \A i \in DOMAIN map : map[i].at \div len \in Nat /\ map[i].at \div len <= key
  OBVIOUS
<1>3. \A n : sum(n) \in Nat
  BY DuringIsFinite, SumIsNat
<1>4. Bucket(buckets, key) = Saturated(sum(key))
  <2>1. \A i \in DOMAIN map : map[i].at \div len - keep <= key
    BY <1>1, <1>2
  <2> HIDE DEF key
  <2> QED
    BY <1>1, <2>1 DEF Exactly
<1>5. sum(key) + aside <= MaxU64
  <2>1. During(map, ids, len, key) \in SUBSET ids
    BY DEF During
  <2>2. sum(key) <= Sum(map, ids) /\ Sum(map, ids) \in Nat
    BY <2>1, SumMonotonic, SumIsNat
  <2> HIDE DEF sum
  <2> QED
    BY <1>3, <2>2, NumbersAssumption
<1> SUFFICES ASSUME limit # None
             PROVE  \A t \in later : sum(t \div len) + (aside + amount) <= limit
  BY DEF Room
<1>6. limit \in Nat
  BY NumbersAssumption DEF U64
<1>7. sum(key) + aside + amount <= limit
  <2>1. Within(Saturated(Saturated(sum(key)) + (aside % (MaxU64 + 1))), amount, limit)
    BY <1>4
  <2> HIDE DEF sum, key
  <2>2. sum(key) \in Nat
    BY <1>3
  <2> QED
    BY <1>5, <1>6, <2>1, <2>2, RoomLeft
<1>8. ASSUME NEW t \in later, t \div len # key PROVE sum(t \div len) = 0
  <2>1. \A i \in ids : map[i].at \div len # t \div len
    BY <1>1, <1>2, <1>8
  <2>2. During(map, ids, len, t \div len) = {}
    BY <2>1 DEF During
  <2> QED
    BY <2>2, SumOfNone
<1> HIDE DEF sum, key
<1>9. ASSUME NEW t \in later PROVE sum(t \div len) + (aside + amount) <= limit
  <2>1. CASE t \div len = key
    BY <1>3, <1>6, <1>7, <2>1
  <2>2. CASE t \div len # key
    <3>1. sum(t \div len) = 0
      BY <1>8, <2>2
    <3> QED
      BY <1>3, <1>6, <1>7, <3>1
  <2> QED
    BY <2>1, <2>2
<1> QED
  BY <1>9

\* The times that a call under way, or one that is yet to begin, may settle at.
Times == {t \in Nat : now <= t \/ \E c \in Callers : call[c] # None /\ call[c].at <= t}

SettledBefore == \A i \in DOMAIN settled : \A t \in Times : settled[i].at <= t

RoomIn(budget, map, ids, aside, times) ==
    /\ Room(budget.hourly_max, map, ids, aside, SecondsPerHour, times)
    /\ Room(budget.daily_max, map, ids, aside, SecondsPerDay, times)

RoomLeftNow ==
    /\ RoomIn(GlobalBudget, settled, DOMAIN settled, SetAside, Times)
    /\ \A d \in DOMAIN DomainBudgets :
          RoomIn(DomainBudgets[d], settled, IdsOf(settled, d), SetAsideFor(d), Times)

Capped == SettledBefore /\ (~state.frozen => RoomLeftNow)

LEMMA WindowLimitsTyped ==
    /\ GlobalBudget.hourly_max \in U64 \cup {None} /\ GlobalBudget.daily_max \in U64 \cup {None}
    /\ \A d \in DOMAIN DomainBudgets :
          /\ d \in Domains
          /\ DomainBudgets[d].hourly_max \in U64 \cup {None}
          /\ DomainBudgets[d].daily_max \in U64 \cup {None}
<1>1. \A d \in DOMAIN DomainBudgets : d \in Domains /\ DomainBudgets[d] \in BudgetType
  BY BudgetAssumption
<1> QED
  BY <1>1, BudgetAssumption DEF BudgetType, Limit

LEMMA SettledIdsFinite ==
    ASSUME Safe
    PROVE  /\ IsFiniteSet(DOMAIN settled)
           /\ \A d : IsFiniteSet(IdsOf(settled, d)) /\ IdsOf(settled, d) \subseteq DOMAIN settled
<1>1. IsMap(settled, 0 .. MaxId, Settlement)
  BY DEF Safe, TypeOK
<1> QED
  BY <1>1, IdsAreFinite DEF IdsOf

LEMMA InitCapped == Init => Capped
<1> SUFFICES ASSUME Init PROVE Capped
  OBVIOUS
<1>1. settled = [i \in {} |-> 0] /\ state.pending = [i \in {} |-> 0]
  BY DEF Init, NewBudgetState
<1>2. SetAside = 0 /\ \A d : SetAsideFor(d) = 0
  <2>1. DOMAIN state.pending = {} /\ \A d : IdsOf(state.pending, d) = {}
    BY <1>1 DEF IdsOf
  <2> QED
    BY <2>1, SumOfNone DEF SetAside, SetAsideFor
<1>3. DOMAIN settled = {} /\ \A d : IdsOf(settled, d) = {}
  BY <1>1 DEF IdsOf
<1>4. ASSUME NEW limit \in U64 \cup {None}, NEW len
      PROVE  Room(limit, settled, {}, 0, len, Times)
  <2>1. \A n : Sum(settled, During(settled, {}, len, n)) = 0
    <3>1. \A n : During(settled, {}, len, n) = {}
      BY DEF During
    <3> QED
      BY <3>1, SumOfNone
  <2> QED
    BY <2>1, NumbersAssumption DEF Room, U64
<1>5. SettledBefore
  BY <1>3 DEF SettledBefore
<1> QED
  BY <1>2, <1>3, <1>4, <1>5, WindowLimitsTyped DEF Capped, RoomLeftNow, RoomIn

\* On one thread: a call in its lock has read the clock last, and once it is
\* done no call is under way.
LEMMA AloneInTime ==
    ASSUME Safe, ~Threaded, NEW c \in Callers, MayRun(c), call[c] # None,
           call' = [call EXCEPT ![c] = None], now' = now
    PROVE  /\ call[c].at \in Times
           /\ Times' = {t \in Nat : now <= t}
           /\ Times' \subseteq Times
           /\ call[c].at \in 0 .. now
<1>1. \A d \in Callers \ {c} : call[d] = None
  BY DEF MayRun, Engaged
<1>2. call[c].at \in 0 .. now
  BY DEF Safe, TypeOK, ReserveCall, SettleCall
<1>3. now \in Nat /\ call \in [Callers -> ReserveCall \cup SettleCall \cup {None}]
  BY DEF Safe, TypeOK
<1>4. \A d \in Callers : call'[d] = None
  BY <1>1, <1>3
<1>5. Times' = {t \in Nat : now <= t}
  BY <1>4 DEF Times
<1> QED
  BY <1>2, <1>3, <1>5 DEF Times

LEMMA RoomInKept ==
    ASSUME NEW budget, budget.hourly_max \in U64 \cup {None}, budget.daily_max \in U64 \cup {None},
           NEW map, NEW ids, IsFiniteSet(ids), NEW aside \in Nat, NEW times,
           RoomIn(budget, map, ids, aside, times),
           NEW less \in Nat, less <= aside, NEW later, later \subseteq times
    PROVE  RoomIn(budget, map, ids, less, later)
<1>1. Room(budget.hourly_max, map, ids, less, SecondsPerHour, later)
  BY RoomKept DEF RoomIn
<1>2. Room(budget.daily_max, map, ids, less, SecondsPerDay, later)
  BY RoomKept DEF RoomIn
<1> QED
  BY <1>1, <1>2 DEF RoomIn

LEMMA RoomInReserved ==
    ASSUME NEW budget, budget.hourly_max \in U64 \cup {None}, budget.daily_max \in U64 \cup {None},
           NEW map, NEW ids, ids \subseteq DOMAIN map, IsFiniteSet(ids), NEW ledger,
           Exactly(ledger.hourly, map, ids, SecondsPerHour, KeepHours),
           Exactly(ledger.daily, map, ids, SecondsPerDay, KeepDays),
           NEW aside \in Nat, NEW times, RoomIn(budget, map, ids, aside, times),
           Sum(map, ids) + aside <= MaxU64,
           NEW at \in Nat, \A i \in DOMAIN map : map[i].at \in Nat /\ map[i].at <= at,
           NEW amount \in Nat, Allows(ledger, budget, amount, aside % (MaxU64 + 1), at),
           NEW later, \A t \in later : t \in Nat /\ at <= t
    PROVE  RoomIn(budget, map, ids, aside + amount, later)
<1>1. Within(Saturated(Bucket(ledger.hourly, at \div SecondsPerHour) + (aside % (MaxU64 + 1))),
             amount, budget.hourly_max)
  BY DEF Allows, Hour
<1>2. Within(Saturated(Bucket(ledger.daily, at \div SecondsPerDay) + (aside % (MaxU64 + 1))),
             amount, budget.daily_max)
  BY DEF Allows, Day
<1>3. /\ SecondsPerHour \in Nat \ {0} /\ SecondsPerDay \in Nat \ {0}
      /\ KeepHours \in Nat /\ KeepDays \in Nat
  BY NumbersAssumption
<1>4. /\ Room(budget.hourly_max, map, ids, aside, SecondsPerHour, times)
      /\ Room(budget.daily_max, map, ids, aside, SecondsPerDay, times)
  BY DEF RoomIn
<1>5. Room(budget.hourly_max, map, ids, aside + amount, SecondsPerHour, later)
  BY <1>1, <1>3, <1>4, RoomReserved
<1>6. Room(budget.daily_max, map, ids, aside + amount, SecondsPerDay, later)
  BY <1>2, <1>3, <1>4, RoomReserved
<1> QED
  BY <1>5, <1>6 DEF RoomIn

LEMMA RoomInSettled ==
    ASSUME NEW budget, budget.hourly_max \in U64 \cup {None}, budget.daily_max \in U64 \cup {None},
           NEW map, NEW id, NEW entry, NEW next, OneMore(map, id, entry, next),
           NEW ids, ids \subseteq DOMAIN map, IsFiniteSet(ids), entry.amount \in U64,
           NEW aside \in Nat, NEW times, entry.at \in times,
           RoomIn(budget, map, ids, aside, times),
           NEW reserved \in Nat, reserved <= aside, entry.amount <= reserved
    PROVE  RoomIn(budget, next, ids \cup {id}, aside - reserved, times)
<1>1. Room(budget.hourly_max, next, ids \cup {id}, aside - reserved, SecondsPerHour, times)
  BY RoomSettled DEF RoomIn
<1>2. Room(budget.daily_max, next, ids \cup {id}, aside - reserved, SecondsPerDay, times)
  BY RoomSettled DEF RoomIn
<1> QED
  BY <1>1, <1>2 DEF RoomIn

LEMMA SumsFitU64 ==
    ASSUME Safe, Totals, ~state.frozen
    PROVE  /\ Paid + SetAside <= MaxU64
           /\ \A d \in Domains : PaidBy(d) + SetAsideFor(d) <= MaxU64
<1>1. Paid + SetAside <= MaxU64
  BY DEF Totals, NoOverflow, Paid, SetAside
<1> QED
  BY <1>1, SumsTyped, NumbersAssumption DEF Safe

LEMMA ReserveOkCapped ==
    ASSUME Safe, Safe', Totals, WindowsExact, Capped, ~Threaded, NEW c \in Callers, ReserveOk(c)
    PROVE  Capped'
<1>1. PICK amount \in U64, domain \in Domains \cup {None}, at \in 0 .. now :
         ReservedSums(amount, domain, at) /\ at = call[c].at
  BY ReserveOkSums
<1>2. /\ Admits(state, GlobalBudget, DomainBudgets, amount, domain, at) /\ amount \in Nat
      /\ state'.frozen = state.frozen /\ ~state.frozen /\ settled' = settled
      /\ SetAside' = SetAside + amount
      /\ \A d : SetAsideFor(d)' =
                IF domain = d THEN SetAsideFor(d) + amount ELSE SetAsideFor(d)
  BY <1>1, NumbersAssumption DEF ReservedSums, U64
<1>3. MayRun(c) /\ call[c] # None /\ call' = [call EXCEPT ![c] = None] /\ now' = now
  BY DEF ReserveOk, Reserving
<1>4. at \in Times /\ Times' = {t \in Nat : now <= t} /\ Times' \subseteq Times
  BY <1>1, <1>3, AloneInTime
<1>5. at \in Nat /\ \A t \in Times' : t \in Nat /\ at <= t
  BY <1>4 DEF Safe, TypeOK
<1>6. \A i \in DOMAIN settled : settled[i].at \in Nat /\ settled[i].at <= at
  BY <1>4 DEF Capped, SettledBefore, Safe, TypeOK, IsMap, Settlement
<1>7. /\ SetAside \in Nat /\ SetAside' \in Nat
      /\ \A d \in Domains : SetAsideFor(d) \in Nat /\ SetAsideFor(d)' \in Nat
  BY SumsTyped, SumsTypedNext DEF Safe
<1>8. /\ RoomIn(GlobalBudget, settled, DOMAIN settled, SetAside, Times)
      /\ \A d \in DOMAIN DomainBudgets :
            RoomIn(DomainBudgets[d], settled, IdsOf(settled, d), SetAsideFor(d), Times)
  BY <1>2 DEF Capped, RoomLeftNow
<1>9. /\ Sum(settled, DOMAIN settled) + SetAside <= MaxU64
      /\ \A d \in Domains : Sum(settled, IdsOf(settled, d)) + SetAsideFor(d) <= MaxU64
  BY <1>2, SumsFitU64 DEF Paid, PaidBy
<1>10. SettledBefore'
  BY <1>2, <1>4 DEF Capped, SettledBefore
<1>11. RoomIn(GlobalBudget, settled, DOMAIN settled, SetAside + amount, Times')
  <2>1. Allows(state.global, GlobalBudget, amount, SetAside % (MaxU64 + 1), at)
    BY <1>2 DEF Admits, PendingSum, SetAside
  <2>2. /\ Exactly(state.global.hourly, settled, DOMAIN settled, SecondsPerHour, KeepHours)
        /\ Exactly(state.global.daily, settled, DOMAIN settled, SecondsPerDay, KeepDays)
    BY DEF WindowsExact, ExactWindows
  <2>3. IsFiniteSet(DOMAIN settled) /\ DOMAIN settled \subseteq DOMAIN settled
    BY SettledIdsFinite
  <2> DEFINE aside == SetAside
             later == Times'
             times == Times
             ledger == state.global
             ids == DOMAIN settled
  <2>4. /\ Allows(ledger, GlobalBudget, amount, aside % (MaxU64 + 1), at)
        /\ Exactly(ledger.hourly, settled, ids, SecondsPerHour, KeepHours)
        /\ Exactly(ledger.daily, settled, ids, SecondsPerDay, KeepDays)
        /\ IsFiniteSet(ids) /\ ids \subseteq DOMAIN settled
        /\ aside \in Nat /\ RoomIn(GlobalBudget, settled, ids, aside, times)
        /\ Sum(settled, ids) + aside <= MaxU64
        /\ \A t \in later : t \in Nat /\ at <= t
    BY <1>5, <1>7, <1>8, <1>9, <2>1, <2>2, <2>3
  <2> HIDE DEF aside, later, times, ledger, ids
  <2>5. RoomIn(GlobalBudget, settled, ids, aside + amount, later)
    BY <1>2, <1>5, <1>6, <2>4, WindowLimitsTyped, RoomInReserved
  <2> QED
    BY <2>5 DEF aside, later, ids
<1>12. ASSUME NEW d \in DOMAIN DomainBudgets
       PROVE  RoomIn(DomainBudgets[d], settled, IdsOf(settled, d), SetAsideFor(d)', Times')
  <2>0. d \in Domains
    BY WindowLimitsTyped
  <2>1. CASE domain = d
    <3>1. Allows(state.domains[d], DomainBudgets[d], amount, SetAsideFor(d) % (MaxU64 + 1), at)
      BY <1>2, <2>1 DEF Admits, PendingSum, SetAsideFor
    <3>2. /\ Exactly(state.domains[d].hourly, settled, IdsOf(settled, d), SecondsPerHour, KeepHours)
          /\ Exactly(state.domains[d].daily, settled, IdsOf(settled, d), SecondsPerDay, KeepDays)
      BY <2>0 DEF WindowsExact, ExactWindows
    <3>3. IsFiniteSet(IdsOf(settled, d)) /\ IdsOf(settled, d) \subseteq DOMAIN settled
      BY SettledIdsFinite
    <3> DEFINE aside == SetAsideFor(d)
               later == Times'
               times == Times
               ledger == state.domains[d]
               ids == IdsOf(settled, d)
               budget == DomainBudgets[d]
    <3>4. /\ Allows(ledger, budget, amount, aside % (MaxU64 + 1), at)
          /\ Exactly(ledger.hourly, settled, ids, SecondsPerHour, KeepHours)
          /\ Exactly(ledger.daily, settled, ids, SecondsPerDay, KeepDays)
          /\ IsFiniteSet(ids) /\ ids \subseteq DOMAIN settled
          /\ aside \in Nat /\ RoomIn(budget, settled, ids, aside, times)
          /\ Sum(settled, ids) + aside <= MaxU64
          /\ budget.hourly_max \in U64 \cup {None} /\ budget.daily_max \in U64 \cup {None}
          /\ \A t \in later : t \in Nat /\ at <= t
      BY <1>5, <1>7, <1>8, <1>9, <2>0, <3>1, <3>2, <3>3, WindowLimitsTyped
    <3> HIDE DEF aside, later, times, ledger, ids, budget
    <3>5. RoomIn(budget, settled, ids, aside + amount, later)
      BY <1>2, <1>5, <1>6, <3>4, RoomInReserved
    <3>6. SetAsideFor(d)' = aside + amount
      BY <1>2, <2>1 DEF aside
    <3> QED
      BY <3>5, <3>6 DEF later, ids, budget
  <2>2. CASE domain # d
    <3>1. SetAsideFor(d)' = SetAsideFor(d)
      BY <1>2, <2>2
    <3> DEFINE aside == SetAsideFor(d)
               later == Times'
               times == Times
               ids == IdsOf(settled, d)
               budget == DomainBudgets[d]
    <3>2. /\ IsFiniteSet(ids) /\ aside \in Nat /\ aside <= aside /\ later \subseteq times
          /\ RoomIn(budget, settled, ids, aside, times)
          /\ budget.hourly_max \in U64 \cup {None} /\ budget.daily_max \in U64 \cup {None}
      BY <1>4, <1>7, <1>8, <2>0, SettledIdsFinite, WindowLimitsTyped
    <3> HIDE DEF aside, later, times, ids, budget
    <3>3. RoomIn(budget, settled, ids, aside, later)
      BY <3>2, RoomInKept
    <3> QED
      BY <3>1, <3>3 DEF aside, later, ids, budget
  <2> QED
    BY <2>1, <2>2
<1> QED
  BY <1>2, <1>10, <1>11, <1>12 DEF Capped, RoomLeftNow

\* A step that records nothing and sets no more aside.
LEMMA CappedIfNoMore ==
    ASSUME Safe, Safe', Capped, settled' = settled, state'.frozen = state.frozen,
           Times' \subseteq Times, SetAside' <= SetAside,
           \A d \in Domains : SetAsideFor(d)' <= SetAsideFor(d)
    PROVE  Capped'
<1>1. /\ SetAside \in Nat /\ SetAside' \in Nat
      /\ \A d \in Domains : SetAsideFor(d) \in Nat /\ SetAsideFor(d)' \in Nat
  BY SumsTyped, SumsTypedNext DEF Safe
<1>2. SettledBefore'
  BY DEF Capped, SettledBefore
<1>3. ASSUME ~state.frozen
      PROVE  RoomIn(GlobalBudget, settled, DOMAIN settled, SetAside', Times')
  <2> DEFINE aside == SetAside
             less == SetAside'
             later == Times'
             times == Times
             ids == DOMAIN settled
  <2>1. /\ IsFiniteSet(ids) /\ aside \in Nat /\ less \in Nat /\ less <= aside
        /\ later \subseteq times /\ RoomIn(GlobalBudget, settled, ids, aside, times)
    BY <1>1, <1>3, SettledIdsFinite DEF Capped, RoomLeftNow
  <2> HIDE DEF aside, less, later, times, ids
  <2>2. RoomIn(GlobalBudget, settled, ids, less, later)
    BY <2>1, WindowLimitsTyped, RoomInKept
  <2> QED
    BY <2>2 DEF less, later, ids
<1>4. ASSUME ~state.frozen, NEW d \in DOMAIN DomainBudgets
      PROVE  RoomIn(DomainBudgets[d], settled, IdsOf(settled, d), SetAsideFor(d)', Times')
  <2> DEFINE aside == SetAsideFor(d)
             less == SetAsideFor(d)'
             later == Times'
             times == Times
             ids == IdsOf(settled, d)
             budget == DomainBudgets[d]
  <2>0. d \in Domains
    BY WindowLimitsTyped
  <2>1. /\ IsFiniteSet(ids) /\ aside \in Nat /\ less \in Nat /\ less <= aside
        /\ later \subseteq times /\ RoomIn(budget, settled, ids, aside, times)
        /\ budget.hourly_max \in U64 \cup {None} /\ budget.daily_max \in U64 \cup {None}
    BY <1>1, <1>4, <2>0, SettledIdsFinite, WindowLimitsTyped DEF Capped, RoomLeftNow
  <2> HIDE DEF aside, less, later, times, ids, budget
  <2>2. RoomIn(budget, settled, ids, less, later)
    BY <2>1, RoomInKept
  <2> QED
    BY <2>2 DEF less, later, ids, budget
<1> QED
  BY <1>2, <1>3, <1>4 DEF Capped, RoomLeftNow

LEMMA SettleCapped ==
    ASSUME Safe, Safe', Capped, ~Threaded, NEW c \in Callers, Settle(c)
    PROVE  Capped'
<1>1. PICK id \in 0 .. MaxId, amount \in U64, reserved \in U64,
          domain \in Domains \cup {None}, at \in 0 .. now, violation \in BOOLEAN :
        SettledSums(id, amount, reserved, domain, at, violation) /\ at = call[c].at
  BY SettleSums
<1> DEFINE entry == [amount |-> amount, domain |-> domain, at |-> at]
<1>2. OneMore(settled, id, entry, settled')
  BY <1>1 DEF SettledSums, OneMore, With
<1>3. /\ SetAside' = SetAside - reserved
      /\ \A d : SetAsideFor(d)' = IF domain = d THEN SetAsideFor(d) - reserved ELSE SetAsideFor(d)
      /\ amount \in Nat /\ reserved \in Nat
  BY <1>1, NumbersAssumption DEF SettledSums, U64
<1>4. state'.frozen = (state.frozen \/ violation \/ amount > reserved)
  BY <1>1, Zenon DEF SettledSums
<1>5. /\ DOMAIN settled' = DOMAIN settled \cup {id}
      /\ \A d : IdsOf(settled', d) =
             IF domain = d THEN IdsOf(settled, d) \cup {id} ELSE IdsOf(settled, d)
  BY <1>2 DEF OneMore, IdsOf
<1>6. MayRun(c) /\ call[c] # None /\ call' = [call EXCEPT ![c] = None] /\ now' = now
  BY DEF Settle
<1>7. at \in Times /\ Times' = {t \in Nat : now <= t} /\ Times' \subseteq Times
  BY <1>1, <1>6, AloneInTime
<1>8. /\ SetAside \in Nat /\ SetAside' \in Nat
      /\ \A d \in Domains : SetAsideFor(d) \in Nat /\ SetAsideFor(d)' \in Nat
  BY SumsTyped, SumsTypedNext DEF Safe
<1>9. SettledBefore'
  <2>1. ASSUME NEW i \in DOMAIN settled', NEW t \in Times' PROVE settled'[i].at <= t
    <3>1. CASE i = id
      <4>1. settled'[i].at = at /\ at <= now /\ now <= t /\ t \in Nat /\ now \in Nat
        BY <1>2, <1>7, <2>1, <3>1 DEF OneMore, Safe, TypeOK
      <4> QED
        BY <4>1
    <3>2. CASE i # id
      BY <1>2, <1>7, <2>1, <3>2 DEF OneMore, Capped, SettledBefore
    <3> QED
      BY <3>1, <3>2
  <2> QED
    BY <2>1 DEF SettledBefore
<1>10. ASSUME ~state'.frozen PROVE ~state.frozen /\ amount <= reserved
  <2>1. ~state.frozen /\ ~(amount > reserved)
    BY <1>4, <1>10, Zenon
  <2> QED
    BY <1>3, <2>1
<1>11. entry.amount = amount /\ entry.at = at
  OBVIOUS
<1> HIDE DEF entry
<1>12. ASSUME ~state'.frozen
       PROVE  RoomIn(GlobalBudget, settled', DOMAIN settled \cup {id}, SetAside - reserved, Times')
  <2> DEFINE aside == SetAside
             later == Times'
             times == Times
             ids == DOMAIN settled
             less == SetAside - reserved
  <2>1. /\ IsFiniteSet(ids) /\ ids \subseteq DOMAIN settled /\ IsFiniteSet(ids \cup {id})
        /\ aside \in Nat /\ less = aside - reserved /\ less \in Nat /\ less <= less
        /\ reserved <= aside /\ later \subseteq times /\ entry.at \in times
        /\ RoomIn(GlobalBudget, settled, ids, aside, times)
    <3>1. IsFiniteSet(DOMAIN settled) /\ IsFiniteSet(DOMAIN settled \cup {id})
      BY SettledIdsFinite, FS_AddElement
    <3> QED
      BY <1>3, <1>7, <1>8, <1>10, <1>11, <1>12, <3>1 DEF Capped, RoomLeftNow
  <2> HIDE DEF aside, later, times, ids, less
  <2>2. RoomIn(GlobalBudget, settled', ids \cup {id}, aside - reserved, times)
    BY <1>2, <1>3, <1>10, <1>11, <1>12, <2>1, WindowLimitsTyped, RoomInSettled
  <2>3. RoomIn(GlobalBudget, settled', ids \cup {id}, less, later)
    BY <2>1, <2>2, WindowLimitsTyped, RoomInKept
  <2> QED
    BY <2>3 DEF ids, less, later
<1>13. ASSUME ~state'.frozen, NEW d \in DOMAIN DomainBudgets
       PROVE  RoomIn(DomainBudgets[d], settled', IdsOf(settled', d), SetAsideFor(d)', Times')
  <2>0. d \in Domains
    BY WindowLimitsTyped
  <2> DEFINE aside == SetAsideFor(d)
             less == SetAsideFor(d)'
             later == Times'
             times == Times
             ids == IdsOf(settled, d)
             budget == DomainBudgets[d]
  <2>1. /\ IsFiniteSet(ids) /\ ids \subseteq DOMAIN settled /\ IsFiniteSet(ids \cup {id})
        /\ aside \in Nat /\ less \in Nat
        /\ later \subseteq times /\ entry.at \in times
        /\ RoomIn(budget, settled, ids, aside, times)
        /\ budget.hourly_max \in U64 \cup {None} /\ budget.daily_max \in U64 \cup {None}
    <3>1. IsFiniteSet(ids) /\ IsFiniteSet(ids \cup {id}) /\ ids \subseteq DOMAIN settled
      BY SettledIdsFinite, FS_AddElement
    <3> QED
      BY <1>7, <1>8, <1>10, <1>11, <1>13, <2>0, <3>1, WindowLimitsTyped DEF Capped, RoomLeftNow
  <2>2. CASE domain = d
    <3>1. less = aside - reserved /\ IdsOf(settled', d) = ids \cup {id} /\ less <= less
      BY <1>3, <1>5, <1>8, <2>0, <2>2
    <3> HIDE DEF aside, later, times, ids, less, budget
    <3>2. reserved <= aside
      BY <1>3, <2>1, <3>1
    <3>3. RoomIn(budget, settled', ids \cup {id}, aside - reserved, times)
      BY <1>2, <1>3, <1>10, <1>11, <1>13, <2>1, <3>2, RoomInSettled
    <3>4. RoomIn(budget, settled', ids \cup {id}, less, later)
      BY <2>1, <3>1, <3>3, RoomInKept
    <3> QED
      BY <3>1, <3>4 DEF ids, less, later, budget
  <2>3. CASE domain # d
    <3>1. less = aside /\ IdsOf(settled', d) = ids /\ less <= aside
      BY <1>3, <1>5, <1>8, <2>0, <2>3
    <3> HIDE DEF aside, later, times, ids, less, budget
    <3>2. /\ Room(budget.hourly_max, settled', ids, aside, SecondsPerHour, times)
          /\ Room(budget.daily_max, settled', ids, aside, SecondsPerDay, times)
      BY <1>2, <2>1, RoomOfOthers DEF RoomIn
    <3>3. RoomIn(budget, settled', ids, aside, times)
      BY <3>2 DEF RoomIn
    <3>4. RoomIn(budget, settled', ids, less, later)
      BY <2>1, <3>1, <3>3, RoomInKept
    <3> QED
      BY <3>1, <3>4 DEF ids, less, later, budget
  <2> QED
    BY <2>2, <2>3
<1> QED
  BY <1>3, <1>5, <1>9, <1>12, <1>13 DEF Capped, RoomLeftNow

LEMMA NextCapped ==
    ~Threaded /\ Safe /\ Totals /\ WindowsExact /\ Capped /\ [Next]_vars => Capped'
<1> SUFFICES ASSUME ~Threaded, Safe, Totals, WindowsExact, Capped, [Next]_vars PROVE Capped'
  OBVIOUS
<1>1. Safe'
  BY NextSafe
<1>2. ASSUME NEW c \in Callers, ReserveOk(c) PROVE Capped'
  BY <1>1, <1>2, ReserveOkCapped
<1>3. ASSUME NEW c \in Callers, Settle(c) PROVE Capped'
  BY <1>1, <1>3, SettleCapped
<1>4. ASSUME NEW c \in Callers, Release(c) PROVE Capped'
  <2>1. PICK reserved \in U64, domain \in Domains \cup {None} : ReleasedSums(reserved, domain)
    BY <1>4, ReleaseSums
  <2>2. /\ settled' = settled /\ state'.frozen = state.frozen /\ reserved \in Nat
        /\ SetAside' = SetAside - reserved
        /\ \A d : SetAsideFor(d)' = IF domain = d THEN SetAsideFor(d) - reserved ELSE SetAsideFor(d)
    BY <2>1, NumbersAssumption DEF ReleasedSums, U64
  <2>3. SetAside' <= SetAside /\ \A d \in Domains : SetAsideFor(d)' <= SetAsideFor(d)
    BY <2>2, SumsTyped DEF Safe
  <2>4. Times' = Times
    BY <1>4 DEF Release, Times
  <2> QED
    BY <1>1, <2>2, <2>3, <2>4, CappedIfNoMore
<1>5. ASSUME UNCHANGED <<state, settled>>, Times' \subseteq Times PROVE Capped'
  <2>1. SetAside' = SetAside /\ \A d : SetAsideFor(d)' = SetAsideFor(d)
    BY <1>5 DEF SetAside, SetAsideFor
  <2>2. SetAside' <= SetAside /\ \A d \in Domains : SetAsideFor(d)' <= SetAsideFor(d)
    BY <2>1, SumsTyped DEF Safe
  <2> QED
    BY <1>1, <1>5, <2>2, CappedIfNoMore
<1>6. ASSUME NEW c \in Callers, ReserveErr(c) PROVE Capped'
  <2>1. MayRun(c) /\ call[c] # None /\ call' = [call EXCEPT ![c] = None] /\ now' = now
    BY <1>6 DEF ReserveErr, Reserving
  <2>2. Times' \subseteq Times
    BY <2>1, AloneInTime
  <2> QED
    BY <1>5, <1>6, <2>2 DEF ReserveErr
<1>7. ASSUME NEW c \in Callers, Drop(c) PROVE Capped'
  BY <1>5, <1>7 DEF Drop, Times
<1>8. ASSUME NEW c \in Callers, NEW asked, call' = [call EXCEPT ![c] = asked], asked.at = now,
             now' = now
      PROVE  Times' \subseteq Times
  <2>1. call \in [Callers -> ReserveCall \cup SettleCall \cup {None}]
    BY DEF Safe, TypeOK
  <2>2. \A d \in Callers : call'[d] = IF d = c THEN asked ELSE call[d]
    BY <1>8, <2>1
  <2> QED
    BY <1>8, <2>2 DEF Times
<1>9. ASSUME NEW c \in Callers, BeginSettle(c) PROVE Capped'
  <2>1. PICK amount, violation :
          call' = [call EXCEPT ![c] = [op |-> "settle", amount |-> amount,
                                       violation |-> violation, at |-> now]]
    BY <1>9 DEF BeginSettle
  <2>2. now' = now /\ UNCHANGED <<state, settled>>
    BY <1>9 DEF BeginSettle
  <2> DEFINE asked == [op |-> "settle", amount |-> amount, violation |-> violation, at |-> now]
  <2>3. call' = [call EXCEPT ![c] = asked] /\ asked.at = now
    BY <2>1
  <2> HIDE DEF asked
  <2>4. Times' \subseteq Times
    BY <1>8, <2>2, <2>3
  <2> QED
    BY <1>5, <2>2, <2>4
<1>10. ASSUME NEW c \in Callers, NEW amount \in Amounts, NEW max_fee \in MaxFees \cup {0},
              NEW domain \in Domains \cup {None}, NEW must_settle \in BOOLEAN,
              BeginReserve(c, amount, max_fee, domain, must_settle)
       PROVE  Capped'
  <2> DEFINE asked == [op |-> "reserve", amount |-> amount, max_fee |-> max_fee,
                       domain |-> domain, must_settle |-> must_settle, at |-> now]
  <2>1. call' = [call EXCEPT ![c] = asked] /\ asked.at = now /\ now' = now
        /\ UNCHANGED <<state, settled>>
    BY <1>10 DEF BeginReserve
  <2> HIDE DEF asked
  <2>2. Times' \subseteq Times
    BY <1>8, <2>1
  <2> QED
    BY <1>5, <2>1, <2>2
<1>11. CASE Tick
  <2>1. now \in Nat /\ now' = now + 1 /\ call' = call /\ UNCHANGED <<state, settled>>
    BY <1>11 DEF Tick, Safe, TypeOK
  <2>2. Times' \subseteq Times
    BY <2>1 DEF Times
  <2> QED
    BY <1>5, <2>1, <2>2
<1>12. CASE UNCHANGED vars
  BY <1>5, <1>12 DEF vars, Times
<1> QED
  BY <1>2, <1>3, <1>4, <1>6, <1>7, <1>9, <1>10, <1>11, <1>12 DEF Next

LEMMA CapsHold ==
    ASSUME Safe, Capped
    PROVE  HourlyCap /\ DailyCap
<1>1. now \in Nat /\ Hour(now) \in Nat /\ Day(now) \in Nat
  BY BucketsInOrder DEF Safe, TypeOK
<1>2. \A n : \A ids : /\ SettledDuring(ids, n) = During(settled, ids, SecondsPerHour, n)
                     /\ SettledOn(ids, n) = During(settled, ids, SecondsPerDay, n)
  BY DEF SettledDuring, SettledOn, During, Hour, Day
<1>3. ASSUME NEW budget, NEW ids, NEW aside, RoomIn(budget, settled, ids, aside, Times)
      PROVE  HourWithin(budget, ids) /\ DayWithin(budget, ids)
  BY <1>1, <1>2, <1>3 DEF RoomIn, Room, HourWithin, DayWithin
<1> QED
  BY <1>3 DEF Capped, RoomLeftNow, HourlyCap, DailyCap

\* On one thread no hour's settlements exceed hourly_max, of the wallet and of
\* each domain, until a wallet breaks a reservation.
THEOREM HourlyCapOnOneThread == ASSUME ~Threaded PROVE Spec => []HourlyCap
<1>1. Safe /\ Capped => HourlyCap
  BY CapsHold
<1>2. Init => Safe /\ Totals /\ WindowsExact /\ Capped
  BY InitSafe, InitTotals, InitWindows, InitCapped
<1>3. Safe /\ Totals /\ WindowsExact /\ Capped /\ [Next]_vars
         => (Safe /\ Totals /\ WindowsExact /\ Capped)'
  BY NextSafe, NextTotals, NextWindows, NextCapped
<1> QED
  BY <1>1, <1>2, <1>3, PTL DEF Spec

\* On one thread no day's settlements exceed daily_max, likewise.
THEOREM DailyCapOnOneThread == ASSUME ~Threaded PROVE Spec => []DailyCap
<1>1. Safe /\ Capped => DailyCap
  BY CapsHold
<1>2. Init => Safe /\ Totals /\ WindowsExact /\ Capped
  BY InitSafe, InitTotals, InitWindows, InitCapped
<1>3. Safe /\ Totals /\ WindowsExact /\ Capped /\ [Next]_vars
         => (Safe /\ Totals /\ WindowsExact /\ Capped)'
  BY NextSafe, NextTotals, NextWindows, NextCapped
<1> QED
  BY <1>1, <1>2, <1>3, PTL DEF Spec

===============================================================================
