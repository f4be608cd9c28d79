----------------------------- MODULE LedgerProofs -----------------------------
(***************************************************************************)
(* Facts about the operators of Ledger: sums of entries, and what a        *)
(* reservation, a release and a settlement make of a budget state.         *)
(***************************************************************************)
EXTENDS Ledger, FiniteSetTheorems, TLAPS

-----------------------------------------------------------------------------
(* Sums.                                                                   *)

\* The satoshis of finitely many entries are finitely many.
LEMMA SumIsNat ==
    ASSUME NEW map, NEW ids, IsFiniteSet(ids)
    PROVE  IsFiniteSet(Satoshis(map, ids)) /\ Sum(map, ids) \in Nat
<1>1. IsFiniteSet(1 .. MaxU64)
  BY FS_Interval, NumbersAssumption
<1>2. IsFiniteSet(ids \X (1 .. MaxU64))
  BY <1>1, FS_Product
<1>3. Satoshis(map, ids) \in SUBSET (ids \X (1 .. MaxU64))
  BY DEF Satoshis
<1>4. IsFiniteSet(Satoshis(map, ids))
  BY <1>2, <1>3, FS_Subset
<1> QED
  BY <1>4, FS_CardinalityType DEF Sum

\* Fewer entries sum to no more.
LEMMA SumMonotonic ==
    ASSUME NEW map, NEW ids, IsFiniteSet(ids), NEW some \in SUBSET ids
    PROVE  Sum(map, some) <= Sum(map, ids)
<1>1. Satoshis(map, some) \in SUBSET Satoshis(map, ids)
  BY DEF Satoshis
<1> QED
  BY <1>1, SumIsNat, FS_Subset DEF Sum

\* Only the amounts of the entries matter to their sum.
LEMMA SumCongruent ==
    ASSUME NEW map, NEW other, NEW ids,
           \A i \in ids : map[i].amount = other[i].amount
    PROVE  Sum(map, ids) = Sum(other, ids)
<1>1. Satoshis(map, ids) = Satoshis(other, ids)
  BY DEF Satoshis
<1> QED
  BY <1>1 DEF Sum

\* No entries sum to nothing.
LEMMA SumOfNone ==
    ASSUME NEW map
    PROVE  Sum(map, {}) = 0
<1>1. Satoshis(map, {}) = {}
  BY DEF Satoshis
<1> QED
  BY <1>1, FS_EmptySet DEF Sum

\* One more entry adds its amount.
LEMMA SumPlusOne ==
    ASSUME NEW map, NEW ids, IsFiniteSet(ids), NEW id, id \notin ids,
           map[id].amount \in U64
    PROVE  Sum(map, ids \cup {id}) = Sum(map, ids) + map[id].amount
<1> DEFINE one == {id} \X (1 .. map[id].amount)
<1>1. Satoshis(map, ids \cup {id}) = Satoshis(map, ids) \cup one
  <2>1. ASSUME NEW s \in Satoshis(map, ids \cup {id})
        PROVE  s \in Satoshis(map, ids) \cup one
    <3>1. s = <<s[1], s[2]>> /\ s[1] \in ids \cup {id} /\ s[2] \in 1 .. MaxU64
      BY DEF Satoshis
    <3>2. s[2] <= map[s[1]].amount
      BY DEF Satoshis
    <3>3. CASE s[1] \in ids
      BY <3>1, <3>2, <3>3 DEF Satoshis
    <3>4. CASE s[1] = id
      <4>1. s[2] \in 1 .. map[id].amount
        BY <3>1, <3>2, <3>4, NumbersAssumption DEF U64
      <4> QED
        BY <4>1, <3>1, <3>4
    <3> QED
      BY <3>1, <3>3, <3>4
  <2>2. ASSUME NEW s \in one
        PROVE  s \in Satoshis(map, ids \cup {id})
    <3>1. s = <<s[1], s[2]>> /\ s[1] = id /\ s[2] \in 1 .. map[id].amount
      OBVIOUS
    <3>2. s[2] \in 1 .. MaxU64 /\ s[2] <= map[s[1]].amount
      BY <3>1, NumbersAssumption DEF U64
    <3> QED
      BY <3>1, <3>2 DEF Satoshis
  <2>3. Satoshis(map, ids) \subseteq Satoshis(map, ids \cup {id})
    BY DEF Satoshis
  <2> QED
    BY <2>1, <2>2, <2>3
<1>2. Satoshis(map, ids) \cap one = {}
  BY DEF Satoshis
<1>3. IsFiniteSet(1 .. map[id].amount) /\ Cardinality(1 .. map[id].amount) = map[id].amount
  <2>1. map[id].amount \in Nat
    BY NumbersAssumption DEF U64
  <2>2. \A n \in Int : IsFiniteSet(1 .. n) /\ Cardinality(1 .. n) = IF 1 > n THEN 0 ELSE n - 1 + 1
    BY FS_Interval
  <2> QED
    BY <2>1, <2>2
<1>4. IsFiniteSet({id}) /\ Cardinality({id}) = 1
  BY FS_Singleton
<1>5. IsFiniteSet(one) /\ Cardinality(one) = map[id].amount
  <2>1. \A S, T : IsFiniteSet(S) /\ IsFiniteSet(T) =>
           IsFiniteSet(S \X T) /\ Cardinality(S \X T) = Cardinality(S) * Cardinality(T)
    BY FS_Product
  <2>2. IsFiniteSet(one)
           /\ Cardinality(one) = Cardinality({id}) * Cardinality(1 .. map[id].amount)
    BY <1>3, <1>4, <2>1
  <2>3. map[id].amount \in Nat
    BY NumbersAssumption DEF U64
  <2> QED
    BY <1>3, <1>4, <2>2, <2>3
<1>6. IsFiniteSet(Satoshis(map, ids)) /\ Cardinality(Satoshis(map, ids)) \in Nat
  BY SumIsNat DEF Sum
<1>7. Cardinality(Satoshis(map, ids) \cup one)
         = Cardinality(Satoshis(map, ids)) + map[id].amount - Cardinality({})
  BY <1>2, <1>5, <1>6, FS_Union
<1>8. Cardinality(Satoshis(map, ids \cup {id}))
         = Cardinality(Satoshis(map, ids)) + map[id].amount
  <2>1. Cardinality({}) = 0 /\ map[id].amount \in Nat
    BY FS_EmptySet, NumbersAssumption DEF U64
  <2> HIDE DEF one
  <2>2. Cardinality(Satoshis(map, ids) \cup one)
           = Cardinality(Satoshis(map, ids)) + map[id].amount
    BY <1>6, <1>7, <2>1
  <2> QED
    BY <1>1, <2>2
<1> QED
  BY <1>8 DEF Sum

\* One entry less takes its amount away.
LEMMA SumLessOne ==
    ASSUME NEW map, NEW ids, IsFiniteSet(ids), NEW id \in ids,
           map[id].amount \in U64
    PROVE  Sum(map, ids \ {id}) = Sum(map, ids) - map[id].amount
<1>1. IsFiniteSet(ids \ {id})
  BY FS_RemoveElement
<1>2. ids = (ids \ {id}) \cup {id}
  OBVIOUS
<1>3. Sum(map, ids) = Sum(map, ids \ {id}) + map[id].amount
  BY <1>1, <1>2, SumPlusOne
<1>4. Sum(map, ids \ {id}) \in Nat
  BY <1>1, SumIsNat
<1> QED
  BY <1>3, <1>4, NumbersAssumption DEF U64

\* Smaller entries sum to no more.
LEMMA SumPointwise ==
    ASSUME NEW map, NEW other, NEW ids, IsFiniteSet(ids),
           \A i \in ids : /\ map[i].amount \in U64 /\ other[i].amount \in U64
                          /\ map[i].amount <= other[i].amount
    PROVE  Sum(map, ids) <= Sum(other, ids)
<1>1. Satoshis(map, ids) \in SUBSET Satoshis(other, ids)
  BY NumbersAssumption DEF Satoshis, U64
<1> QED
  BY <1>1, SumIsNat, FS_Subset DEF Sum

\* An entry that changes its amount changes the sum by the difference.
LEMMA SumReplaced ==
    ASSUME NEW map, NEW other, NEW ids, IsFiniteSet(ids), NEW id \in ids,
           map[id].amount \in U64, other[id].amount \in U64,
           \A i \in ids \ {id} : other[i].amount = map[i].amount
    PROVE  Sum(other, ids) = Sum(map, ids) - map[id].amount + other[id].amount
<1> DEFINE rest == ids \ {id}
<1>1. Sum(map, rest) = Sum(other, rest)
  BY SumCongruent
<1>2. /\ Sum(map, rest) = Sum(map, ids) - map[id].amount
      /\ Sum(other, rest) = Sum(other, ids) - other[id].amount
  BY SumLessOne
<1>3. Sum(map, ids) \in Nat /\ Sum(other, ids) \in Nat
  BY SumIsNat
<1> QED
  BY <1>1, <1>2, <1>3, NumbersAssumption DEF U64

-----------------------------------------------------------------------------
(* Maps.                                                                   *)

LEMMA WithIsMap ==
    ASSUME NEW map, NEW keys, NEW values, IsMap(map, keys, values),
           NEW key \in keys, NEW value \in values
    PROVE  /\ IsMap(With(map, key, value), keys, values)
           /\ DOMAIN With(map, key, value) = DOMAIN map \cup {key}
           /\ With(map, key, value)[key] = value
           /\ \A k \in DOMAIN map \ {key} : With(map, key, value)[k] = map[k]
BY DEF IsMap, With

LEMMA WithoutIsMap ==
    ASSUME NEW map, NEW keys, NEW values, IsMap(map, keys, values), NEW key
    PROVE  /\ IsMap(Without(map, key), keys, values)
           /\ DOMAIN Without(map, key) = DOMAIN map \ {key}
           /\ \A k \in DOMAIN map \ {key} : Without(map, key)[k] = map[k]
BY DEF IsMap, Without

LEMMA IsMapWider ==
    ASSUME NEW map, NEW keys, NEW values, IsMap(map, keys, values),
           NEW more, keys \subseteq more
    PROVE  IsMap(map, more, values)
BY DEF IsMap

\* A map whose keys are ids has finitely many of them.
LEMMA IdsAreFinite ==
    ASSUME NEW map, NEW values, IsMap(map, 0 .. MaxId, values)
    PROVE  IsFiniteSet(DOMAIN map) /\ \A d : IsFiniteSet(IdsOf(map, d))
<1>1. IsFiniteSet(0 .. MaxId)
  BY FS_Interval, NumbersAssumption
<1>2. IsFiniteSet(DOMAIN map)
  BY <1>1, FS_Subset DEF IsMap
<1>3. \A d : IdsOf(map, d) \in SUBSET DOMAIN map
  BY DEF IdsOf
<1> QED
  BY <1>2, <1>3, FS_Subset

\* Adding an entry to a map adds its amount to the sum of all, and to the sum
\* of its domain and of no other.
LEMMA SumWith ==
    ASSUME NEW map, NEW values, IsMap(map, 0 .. MaxId, values),
           NEW id, id \notin DOMAIN map, NEW entry, entry.amount \in U64,
           NEW next, next = With(map, id, entry)
    PROVE  Sum(next, DOMAIN next) = Sum(map, DOMAIN map) + entry.amount
<1>1. /\ DOMAIN next = DOMAIN map \cup {id} /\ next[id] = entry
      /\ \A i \in DOMAIN map : next[i].amount = map[i].amount
  BY DEF With
<1>2. Sum(next, DOMAIN map) = Sum(map, DOMAIN map)
  BY <1>1, SumCongruent
<1>3. IsFiniteSet(DOMAIN map)
  BY IdsAreFinite
<1> QED
  BY <1>1, <1>2, <1>3, SumPlusOne

LEMMA DomainSumWith ==
    ASSUME NEW map, NEW values, IsMap(map, 0 .. MaxId, values),
           NEW id, id \notin DOMAIN map, NEW entry, entry.amount \in U64,
           NEW next, next = With(map, id, entry), NEW d
    PROVE  Sum(next, IdsOf(next, d)) =
              IF entry.domain = d THEN Sum(map, IdsOf(map, d)) + entry.amount
                                  ELSE Sum(map, IdsOf(map, d))
<1>1. /\ DOMAIN next = DOMAIN map \cup {id} /\ next[id] = entry
      /\ \A i \in DOMAIN map : next[i] = map[i]
  BY DEF With
<1>2. IdsOf(next, d) = IF entry.domain = d THEN IdsOf(map, d) \cup {id} ELSE IdsOf(map, d)
  BY <1>1 DEF IdsOf
<1>3. \A i \in IdsOf(map, d) : next[i].amount = map[i].amount
  BY <1>1 DEF IdsOf
<1>4. Sum(next, IdsOf(map, d)) = Sum(map, IdsOf(map, d))
  BY <1>3, SumCongruent
<1>5. IsFiniteSet(IdsOf(map, d)) /\ id \notin IdsOf(map, d)
  BY IdsAreFinite DEF IdsOf
<1>6. Sum(next, IdsOf(map, d) \cup {id}) = Sum(next, IdsOf(map, d)) + entry.amount
  BY <1>1, <1>5, SumPlusOne
<1> QED
  BY <1>2, <1>4, <1>6

\* Removing an entry takes its amount from the sum of all, and from the sum of
\* its domain and of no other.
LEMMA SumWithout ==
    ASSUME NEW map, NEW values, IsMap(map, 0 .. MaxId, values),
           NEW id \in DOMAIN map, map[id].amount \in U64,
           NEW next, next = Without(map, id)
    PROVE  Sum(next, DOMAIN next) = Sum(map, DOMAIN map) - map[id].amount
<1>1. /\ DOMAIN next = DOMAIN map \ {id}
      /\ \A i \in DOMAIN next : next[i].amount = map[i].amount
  BY DEF Without
<1>2. Sum(next, DOMAIN next) = Sum(map, DOMAIN next)
  BY <1>1, SumCongruent
<1>3. IsFiniteSet(DOMAIN map)
  BY IdsAreFinite
<1> QED
  BY <1>1, <1>2, <1>3, SumLessOne

LEMMA DomainSumWithout ==
    ASSUME NEW map, NEW values, IsMap(map, 0 .. MaxId, values),
           NEW id \in DOMAIN map, map[id].amount \in U64,
           NEW next, next = Without(map, id), NEW d
    PROVE  Sum(next, IdsOf(next, d)) =
              IF map[id].domain = d THEN Sum(map, IdsOf(map, d)) - map[id].amount
                                    ELSE Sum(map, IdsOf(map, d))
<1>1. /\ DOMAIN next = DOMAIN map \ {id}
      /\ \A i \in DOMAIN next : next[i] = map[i]
  BY DEF Without
<1>2. IdsOf(next, d) = IdsOf(map, d) \ {id}
  BY <1>1 DEF IdsOf
<1>3. \A i \in IdsOf(next, d) : next[i].amount = map[i].amount
  BY <1>1 DEF IdsOf
<1>4. Sum(next, IdsOf(next, d)) = Sum(map, IdsOf(map, d) \ {id})
  BY <1>2, <1>3, SumCongruent
<1>5. IsFiniteSet(IdsOf(map, d))
  BY IdsAreFinite
<1>6. CASE map[id].domain = d
  <2>1. id \in IdsOf(map, d)
    BY <1>6 DEF IdsOf
  <2> QED
    BY <1>4, <1>5, <1>6, <2>1, SumLessOne
<1>7. CASE map[id].domain # d
  <2>1. IdsOf(map, d) \ {id} = IdsOf(map, d)
    BY <1>7 DEF IdsOf
  <2> QED
    BY <1>4, <1>7, <2>1
<1> QED
  BY <1>6, <1>7

\* The sums of a map are naturals, a domain's no more than that of all.
LEMMA SumsAreNat ==
    ASSUME NEW map, NEW values, IsMap(map, 0 .. MaxId, values)
    PROVE  /\ Sum(map, DOMAIN map) \in Nat
           /\ \A d : Sum(map, IdsOf(map, d)) \in Nat
           /\ \A d : Sum(map, IdsOf(map, d)) <= Sum(map, DOMAIN map)
<1>1. IsFiniteSet(DOMAIN map) /\ \A d : IsFiniteSet(IdsOf(map, d))
  BY IdsAreFinite
<1>2. \A d : IdsOf(map, d) \in SUBSET DOMAIN map
  BY DEF IdsOf
<1> QED
  BY <1>1, <1>2, SumIsNat, SumMonotonic

-----------------------------------------------------------------------------
(* Ledgers.                                                                *)

\* A time's buckets are none later than those of a later time.
LEMMA BucketsInOrder ==
    ASSUME NEW late \in Nat, NEW early \in 0 .. late
    PROVE  /\ Hour(late) \in Nat /\ Day(late) \in Nat
           /\ Hour(early) \in 0 .. Hour(late)
           /\ Day(early) \in 0 .. Day(late)
<1>1. \A n \in Nat \ {0} : late \div n \in Nat /\ early \div n \in 0 .. (late \div n)
  OBVIOUS
<1> QED
  BY <1>1, NumbersAssumption DEF Hour, Day

LEMMA SaturatedIsU64 ==
    ASSUME NEW n \in Nat
    PROVE  Saturated(n) \in U64 /\ (n <= MaxU64 => Saturated(n) = n)
BY NumbersAssumption DEF Saturated, U64

LEMMA SaturatedTwice ==
    ASSUME NEW n \in Nat, NEW more \in Nat
    PROVE  Saturated(Saturated(n) + more) = Saturated(n + more)
BY NumbersAssumption DEF Saturated

LEMMA BucketIsU64 ==
    ASSUME NEW buckets, NEW keys, IsMap(buckets, keys, U64), NEW key
    PROVE  Bucket(buckets, key) \in U64
BY NumbersAssumption DEF IsMap, Bucket, U64

\* Charging a bucket and dropping the old ones keeps the map of buckets a map.
LEMMA BucketsIsMap ==
    ASSUME NEW buckets, NEW last \in Nat, IsMap(buckets, 0 .. last, U64),
           NEW key \in 0 .. last, NEW amount \in U64, NEW oldest
    PROVE  IsMap(Retained(Charged(buckets, key, amount), oldest), 0 .. last, U64)
<1>1. Saturated(Bucket(buckets, key) + amount) \in U64
  BY BucketIsU64, SaturatedIsU64, NumbersAssumption DEF U64
<1>2. IsMap(Charged(buckets, key, amount), 0 .. last, U64)
  BY <1>1, WithIsMap DEF Charged
<1> QED
  BY <1>2 DEF Retained, IsMap

LEMMA RecordIsLedger ==
    ASSUME NEW ledger, NEW latest \in Nat, IsLedger(ledger, latest),
           NEW amount \in U64, NEW at \in 0 .. latest
    PROVE  /\ IsLedger(Record(ledger, amount, at), latest)
           /\ Record(ledger, amount, at).total = Saturated(ledger.total + amount)
<1>1. Saturated(ledger.total + amount) \in U64
  BY SaturatedIsU64, NumbersAssumption DEF IsLedger, U64
<1>2. IsMap(Record(ledger, amount, at).hourly, 0 .. Hour(latest), U64)
  BY BucketsInOrder, BucketsIsMap DEF IsLedger, Record
<1>3. IsMap(Record(ledger, amount, at).daily, 0 .. Day(latest), U64)
  BY BucketsInOrder, BucketsIsMap DEF IsLedger, Record
<1> QED
  BY <1>1, <1>2, <1>3 DEF IsLedger, Record

LEMMA LaterLedger ==
    ASSUME NEW ledger, NEW late \in Nat, NEW early \in 0 .. late, IsLedger(ledger, early)
    PROVE  IsLedger(ledger, late)
<1>1. /\ Hour(late) \in Nat /\ Hour(early) \in 0 .. Hour(late)
      /\ Day(late) \in Nat /\ Day(early) \in 0 .. Day(late)
  BY BucketsInOrder
<1>2. /\ 0 .. Hour(early) \subseteq 0 .. Hour(late)
      /\ 0 .. Day(early) \subseteq 0 .. Day(late)
  BY <1>1
<1> QED
  BY <1>2, IsMapWider DEF IsLedger

-----------------------------------------------------------------------------
(* Budget states.                                                          *)

\* What a budget admits is a u64.
LEMMA AdmittedIsU64 ==
    ASSUME NEW state, NEW latest, IsBudgetState(state, latest),
           NEW budget, NEW domain_budgets, NEW domain, NEW now, NEW amount \in Nat,
           Admits(state, budget, domain_budgets, amount, domain, now)
    PROVE  amount \in U64
<1> DEFINE pending == PendingSum(state.pending, DOMAIN state.pending)
<1>1. Within(Saturated(state.global.total + pending), amount, MaxU64)
  BY DEF Admits, Allows
<1>2. Saturated(state.global.total + pending) + amount <= MaxU64
  BY <1>1, NumbersAssumption, NoneAssumption DEF Within
<1>3. pending \in Nat
  <2>1. IsFiniteSet(DOMAIN state.pending)
    BY IdsAreFinite DEF IsBudgetState
  <2>2. Sum(state.pending, DOMAIN state.pending) \in Nat
    BY <2>1, SumIsNat
  <2> QED
    BY <2>2, NumbersAssumption DEF PendingSum
<1>4. Saturated(state.global.total + pending) \in Nat
  BY <1>3, SaturatedIsU64, NumbersAssumption DEF IsBudgetState, IsLedger, U64
<1> QED
  BY <1>2, <1>4, NumbersAssumption DEF U64

\* When what was paid and what is reserved are together a u64, neither the
\* ledger's saturation nor the wrapping sum hides anything: what a limit
\* admits fits under it.
LEMMA RoomLeft ==
    ASSUME NEW paid \in Nat, NEW reserved \in Nat, paid + reserved <= MaxU64,
           NEW amount \in Nat, NEW limit \in Nat,
           Within(Saturated(Saturated(paid) + (reserved % (MaxU64 + 1))), amount, limit)
    PROVE  paid + reserved + amount <= limit
<1>1. Saturated(paid) = paid /\ reserved % (MaxU64 + 1) = reserved
  BY NumbersAssumption DEF Saturated
<1>2. Saturated(paid + reserved) = paid + reserved
  BY NumbersAssumption DEF Saturated
<1> QED
  BY <1>1, <1>2, NoneAssumption DEF Within

\* What reserving makes of a budget state.
LEMMA ReservedState ==
    ASSUME NEW state, NEW latest \in Nat, IsBudgetState(state, latest),
           state.next_id < MaxId,
           NEW amount, NEW fee, amount + fee \in U64, NEW domain \in Domains \cup {None}
    PROVE  LET next == Reserved(state, amount, fee, domain) IN
           /\ IsBudgetState(next, latest)
           /\ next.global = state.global
           /\ next.domains = state.domains
           /\ next.next_id = state.next_id + 1
           /\ next.frozen = state.frozen
           /\ next.pending = With(state.pending, state.next_id,
                                 [amount |-> amount + fee, domain |-> domain])
<1> DEFINE next == Reserved(state, amount, fee, domain)
           entry == [amount |-> amount + fee, domain |-> domain]
<1>1. /\ next.global = state.global
      /\ next.domains = state.domains
      /\ next.next_id = state.next_id + 1
      /\ next.frozen = state.frozen
      /\ next.pending = With(state.pending, state.next_id, entry)
      /\ next \in [global : {next.global}, domains : {next.domains},
                   pending : {next.pending}, next_id : {next.next_id}, frozen : BOOLEAN]
  BY DEF IsBudgetState, Reserved
<1> HIDE DEF next
<1>2. next.next_id \in 0 .. MaxId
  BY <1>1, NumbersAssumption DEF IsBudgetState
<1>3. IsMap(next.pending, 0 .. MaxId, Entry)
  <2>1. IsMap(state.pending, 0 .. MaxId, Entry) /\ state.next_id \in 0 .. MaxId
    BY DEF IsBudgetState
  <2>2. entry \in Entry
    BY DEF Entry
  <2>3. IsMap(With(state.pending, state.next_id, entry), 0 .. MaxId, Entry)
    BY <2>1, <2>2, WithIsMap
  <2> QED
    BY <1>1, <2>3
<1>4. IsBudgetState(next, latest)
  BY <1>1, <1>2, <1>3 DEF IsBudgetState
<1> QED
  BY <1>1, <1>4 DEF next

\* What releasing makes of a budget state.
LEMMA ReleasedState ==
    ASSUME NEW state, NEW latest \in Nat, IsBudgetState(state, latest), NEW id
    PROVE  LET next == Released(state, id) IN
           /\ IsBudgetState(next, latest)
           /\ next.global = state.global
           /\ next.domains = state.domains
           /\ next.next_id = state.next_id
           /\ next.frozen = state.frozen
           /\ next.pending = Without(state.pending, id)
<1> DEFINE next == Released(state, id)
<1>1. /\ next.global = state.global
      /\ next.domains = state.domains
      /\ next.next_id = state.next_id
      /\ next.frozen = state.frozen
      /\ next.pending = Without(state.pending, id)
      /\ next \in [global : {next.global}, domains : {next.domains},
                   pending : {next.pending}, next_id : 0 .. MaxId, frozen : BOOLEAN]
  BY DEF IsBudgetState, Released
<1> HIDE DEF next
<1>2. IsMap(next.pending, 0 .. MaxId, Entry)
  <2>1. IsMap(state.pending, 0 .. MaxId, Entry)
    BY DEF IsBudgetState
  <2>2. IsMap(Without(state.pending, id), 0 .. MaxId, Entry)
    BY <2>1, WithoutIsMap
  <2> QED
    BY <1>1, <2>2
<1>3. IsBudgetState(next, latest)
  BY <1>1, <1>2 DEF IsBudgetState
<1> QED
  BY <1>1, <1>3 DEF next

\* A settlement keeps a budget state one.
LEMMA SettledIsBudgetState ==
    ASSUME NEW state, NEW latest \in Nat, IsBudgetState(state, latest),
           NEW id, NEW amount \in U64, NEW at \in 0 .. latest,
           NEW violation \in BOOLEAN, NEW next,
           next = Settled(state, id, amount, at, violation)
    PROVE  IsBudgetState(next, latest)
<1>1. /\ next.global = Record(state.global, amount, at)
      /\ next.domains = [d \in Domains |->
            IF d = state.pending[id].domain
            THEN Record(state.domains[d], amount, at) ELSE state.domains[d]]
      /\ next.next_id = state.next_id
      /\ next.pending = Without(state.pending, id)
      /\ next \in [global : {next.global}, domains : {next.domains},
                   pending : {next.pending}, next_id : {next.next_id}, frozen : BOOLEAN]
  BY DEF IsBudgetState, Settled
<1>2. next.next_id \in 0 .. MaxId
  BY <1>1 DEF IsBudgetState
<1>3. IsMap(next.pending, 0 .. MaxId, Entry)
  <2>1. IsMap(state.pending, 0 .. MaxId, Entry)
    BY DEF IsBudgetState
  <2>2. IsMap(Without(state.pending, id), 0 .. MaxId, Entry)
    BY <2>1, WithoutIsMap
  <2> QED
    BY <1>1, <2>2
<1>4. IsLedger(next.global, latest)
  BY <1>1, RecordIsLedger DEF IsBudgetState
<1>5. \A d \in Domains : IsLedger(next.domains[d], latest)
  BY <1>1, RecordIsLedger DEF IsBudgetState
<1> QED
  BY <1>1, <1>2, <1>3, <1>4, <1>5 DEF IsBudgetState
===============================================================================
