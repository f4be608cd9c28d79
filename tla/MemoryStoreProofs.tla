--------------------------- MODULE MemoryStoreProofs ---------------------------
(***************************************************************************)
(* The cache implements TokenStore, its order lists what it holds, oldest  *)
(* first, and it evicts the oldest: whatever its capacity and in whatever  *)
(* order its tokens are put, updated, evicted and removed.                 *)
(***************************************************************************)
EXTENDS MemoryStore, FiniteSetTheorems, SequenceTheorems, TLAPS

-----------------------------------------------------------------------------
(* The token of a url is the one of the last put of that url.              *)

\* Whether put k is the last put of the url.
IsLastPut(puts, url, k) ==
    /\ k \in 1 .. Len(puts) /\ puts[k].url = url
    /\ \A j \in k + 1 .. Len(puts) : puts[j].url # url

IsLog(puts) == puts \in Seq([url : Urls, token : Tokens])

Recorded ==
    /\ IsLog(log)
    /\ DOMAIN tokens \subseteq Urls
    /\ \A u \in DOMAIN tokens :
          \E k \in Nat : IsLastPut(log, u, k) /\ log[k].token = tokens[u]

LEMMA LastPutUnique ==
    ASSUME NEW puts, IsLog(puts), NEW url, NEW j, NEW k,
           IsLastPut(puts, url, j), IsLastPut(puts, url, k)
    PROVE  j = k
<1>1. Len(puts) \in Nat /\ j \in 1 .. Len(puts) /\ k \in 1 .. Len(puts)
  BY DEF IsLog, IsLastPut
<1>2. ~(j < k) /\ ~(k < j)
  BY <1>1 DEF IsLastPut
<1> QED
  BY <1>1, <1>2

\* A put is the last one of its url, and leaves the last ones of the others.
LEMMA PutLogged ==
    ASSUME NEW puts, IsLog(puts), NEW put \in [url : Urls, token : Tokens]
    PROVE  IsLog(Append(puts, put))
BY DEF IsLog

LEMMA PutIsLast ==
    ASSUME NEW puts, IsLog(puts), NEW put \in [url : Urls, token : Tokens]
    PROVE  IsLastPut(Append(puts, put), put.url, Len(puts) + 1)
BY DEF IsLog, IsLastPut

LEMMA OthersStayLast ==
    ASSUME NEW puts, IsLog(puts), NEW put \in [url : Urls, token : Tokens],
           NEW u, u # put.url, NEW k, IsLastPut(puts, u, k)
    PROVE  IsLastPut(Append(puts, put), u, k)
<1>1. Len(puts) \in Nat /\ Len(Append(puts, put)) = Len(puts) + 1
  BY DEF IsLog
<1>2. Append(puts, put)[Len(puts) + 1] = put
  BY DEF IsLog
<1>3. \A j \in 1 .. Len(puts) : Append(puts, put)[j] = puts[j]
  BY DEF IsLog
<1>4. k \in 1 .. Len(puts) /\ Append(puts, put)[k].url = u
  BY <1>3 DEF IsLastPut
<1>5. ASSUME NEW j \in k + 1 .. Len(puts) + 1 PROVE Append(puts, put)[j].url # u
  <2>1. CASE j = Len(puts) + 1
    BY <1>2, <2>1
  <2>2. CASE j # Len(puts) + 1
    <3>1. j \in k + 1 .. Len(puts) /\ j \in 1 .. Len(puts)
      BY <1>1, <1>4, <2>2
    <3> QED
      BY <1>3, <3>1 DEF IsLastPut
  <2> QED
    BY <2>1, <2>2
<1> QED
  BY <1>1, <1>4, <1>5 DEF IsLastPut

\* What Put does to the map: the url has the token, and no other url a new one.
LEMMA PutTokens ==
    ASSUME NEW url \in Urls, NEW token \in Tokens, Put(url, token)
    PROVE  /\ DOMAIN tokens' \subseteq DOMAIN tokens \cup {url}
           /\ url \in DOMAIN tokens' /\ tokens'[url] = token
           /\ \A u \in DOMAIN tokens' \ {url} : tokens'[u] = tokens[u]
<1> DEFINE kept == IF Evicts(url) THEN WithoutKey(tokens, Head(insertion_order)) ELSE tokens
<1>1. tokens' = WithKey(kept, url, token)
  BY DEF Put
<1>2. DOMAIN kept \subseteq DOMAIN tokens /\ \A u \in DOMAIN kept : kept[u] = tokens[u]
  BY DEF WithoutKey
<1> HIDE DEF kept
<1> QED
  BY <1>1, <1>2 DEF WithKey

LEMMA NextRecorded == Recorded /\ [Next]_vars => Recorded'
<1> SUFFICES ASSUME Recorded, [Next]_vars PROVE Recorded'
  OBVIOUS
<1>1. ASSUME NEW url \in Urls, NEW token \in Tokens, Put(url, token) PROVE Recorded'
  <2> DEFINE put == [url |-> url, token |-> token]
  <2>1. log' = Append(log, put) /\ put \in [url : Urls, token : Tokens]
    BY <1>1 DEF Put, Logged
  <2>2. put.url = url /\ put.token = token
    OBVIOUS
  <2> HIDE DEF put
  <2>3. IsLog(log) /\ IsLog(log')
    BY <2>1, PutLogged DEF Recorded
  <2>4. Len(log) \in Nat /\ log'[Len(log) + 1] = put
    BY <2>1, <2>3 DEF IsLog
  <2>5. DOMAIN tokens' \subseteq DOMAIN tokens \cup {url}
    BY <1>1, PutTokens
  <2>6. tokens'[url] = token
    BY <1>1, PutTokens
  <2>7. \A u \in DOMAIN tokens' \ {url} : tokens'[u] = tokens[u]
    BY <1>1, PutTokens
  <2>8. ASSUME NEW u \in DOMAIN tokens'
        PROVE  \E k \in Nat : IsLastPut(log', u, k) /\ log'[k].token = tokens'[u]
    <3>1. CASE u = url
      <4>1. IsLastPut(log', u, Len(log) + 1)
        BY <2>1, <2>2, <2>3, <3>1, PutIsLast
      <4> QED
        BY <2>2, <2>4, <2>6, <3>1, <4>1
    <3>2. CASE u # url
      <4>1. PICK k \in Nat : IsLastPut(log, u, k) /\ log[k].token = tokens[u]
        BY <2>5, <3>2 DEF Recorded
      <4>2. IsLastPut(log', u, k)
        BY <2>1, <2>2, <2>3, <3>2, <4>1, OthersStayLast
      <4>3. log'[k] = log[k]
        BY <2>1, <2>3, <4>1 DEF IsLog, IsLastPut
      <4> QED
        BY <2>7, <3>2, <4>1, <4>2, <4>3
    <3> QED
      BY <3>1, <3>2
  <2> QED
    BY <2>3, <2>5, <2>8 DEF Recorded
<1>2. ASSUME NEW url \in Urls, Remove(url) PROVE Recorded'
  BY <1>2 DEF Remove, WithoutKey, Recorded
<1>3. ASSUME NEW url \in Urls, Get(url) PROVE Recorded'
  BY <1>3 DEF Get, Recorded
<1>4. CASE Clear
  BY <1>4 DEF Clear, Recorded
<1>5. CASE UNCHANGED vars
  BY <1>5 DEF vars, Recorded
<1> QED
  BY <1>1, <1>2, <1>3, <1>4, <1>5 DEF Next

-----------------------------------------------------------------------------
(* The refinement of TokenStore.                                           *)

Held == [u \in Urls |-> IF Contains(u) THEN tokens[u] ELSE None]
Last == [u \in Urls |-> IF Contains(u) THEN log[LastPut(u)].token ELSE None]

LEMMA LastIsHeld == Recorded => Last = Held
<1> SUFFICES ASSUME Recorded, NEW u \in DOMAIN tokens
             PROVE  log[LastPut(u)].token = tokens[u]
  BY DEF Last, Held, Contains
<1>1. PICK k \in Nat : IsLastPut(log, u, k) /\ log[k].token = tokens[u]
  BY DEF Recorded
<1>2. IsLastPut(log, u, LastPut(u))
  BY <1>1 DEF IsLastPut, LastPut
<1>3. LastPut(u) = k
  BY <1>1, <1>2, LastPutUnique DEF Recorded
<1> QED
  BY <1>1, <1>3

LEMMA NextRefines ==
    ASSUME Recorded, Recorded', [Next]_vars PROVE [Port!Next]_Port!vars
<1>1. Last = Held /\ Last' = Held'
  <2>1. Last = Held
    BY LastIsHeld
  <2>2. (Recorded => Last = Held)'
    BY LastIsHeld, PTL
  <2> QED
    BY <2>1, <2>2
<1>2. ASSUME NEW url \in Urls, NEW token \in Tokens, Put(url, token)
      PROVE  [Port!Next]_Port!vars
  <2> DEFINE lost == {u \in Urls : u # url /\ u \notin DOMAIN tokens'}
  <2>1. DOMAIN tokens' \subseteq DOMAIN tokens \cup {url}
    BY <1>2, PutTokens
  <2>2. url \in DOMAIN tokens' /\ tokens'[url] = token
    BY <1>2, PutTokens
  <2>3. \A u \in DOMAIN tokens' \ {url} : tokens'[u] = tokens[u]
    BY <1>2, PutTokens
  <2>4. Held' = [u \in Urls |-> IF u = url THEN token ELSE IF u \in lost THEN None ELSE Held[u]]
    BY <2>1, <2>2, <2>3 DEF Held, Contains
  <2>5. lost \in SUBSET Urls /\ answer' = answer
    BY <1>2 DEF Put
  <2> HIDE DEF lost
  <2>6. Port!Put
    BY <1>1, <2>4, <2>5 DEF Port!Put, Last
  <2> QED
    BY <2>6 DEF Port!Next
<1>3. ASSUME NEW url \in Urls, Get(url) PROVE [Port!Next]_Port!vars
  <2>1. answer' = [url |-> url, token |-> Held[url]] /\ Held' = Held
    BY <1>3 DEF Get, Held, Contains
  <2>2. Port!Get
    BY <1>1, <2>1 DEF Port!Get, Last
  <2> QED
    BY <2>2 DEF Port!Next
<1>4. ASSUME NEW url \in Urls, Remove(url) PROVE [Port!Next]_Port!vars
  <2>1. Held' = [Held EXCEPT ![url] = None] /\ answer' = answer
    BY <1>4 DEF Remove, WithoutKey, Held, Contains
  <2>2. Port!Remove
    BY <1>1, <2>1 DEF Port!Remove, Last
  <2> QED
    BY <2>2 DEF Port!Next
<1>5. CASE Clear
  <2>1. Held' = [u \in Urls |-> None] /\ answer' = answer
    BY <1>5 DEF Clear, Held, Contains
  <2>2. Port!Clear
    BY <1>1, <2>1 DEF Port!Clear, Last
  <2> QED
    BY <2>2 DEF Port!Next
<1>6. CASE UNCHANGED vars
  <2>1. Held' = Held /\ answer' = answer
    BY <1>6 DEF vars, Held, Contains
  <2> QED
    BY <1>1, <2>1 DEF Port!vars, Last
<1> QED
  BY <1>2, <1>3, <1>4, <1>5, <1>6 DEF Next

\* For a url it has, a get returns the token put last, and only a put, a
\* removal or an eviction takes a token away: for any urls, tokens and
\* capacity, 0 included (cache.rs:47-86).
THEOREM CacheImplementsTokenStore == Spec => ServesLastToken
<1>1. Init => Recorded /\ Port!Init
  BY DEF Init, Recorded, IsLog, Contains, Port!Init
<1>2. Recorded /\ [Next]_vars => Recorded' /\ [Port!Next]_Port!vars
  BY NextRecorded, NextRefines
<1> QED
  BY <1>1, <1>2, PTL DEF Spec, ServesLastToken, Port!Spec
-----------------------------------------------------------------------------
(* Taking a url out of the order.                                          *)

Unique(order) == \A j, k \in 1 .. Len(order) : order[j] = order[k] => j = k
Listed(order) == {order[k] : k \in 1 .. Len(order)}

\* The order with the place h left out.
Skip(order, h) ==
    [j \in 1 .. Len(order) - 1 |-> IF j < h THEN order[j] ELSE order[j + 1]]

LEMMA CountTo == ASSUME NEW n \in Nat PROVE IsFiniteSet(1 .. n) /\ Cardinality(1 .. n) = n
BY FS_Interval

\* The places up to k, but for h, are as many as k, or one less.
LEMMA RankSkips ==
    ASSUME NEW n \in Nat, NEW h \in 1 .. n, NEW k \in (1 .. n) \ {h}
    PROVE  Cardinality({i \in (1 .. n) \ {h} : i <= k}) = IF k < h THEN k ELSE k - 1
<1>1. IsFiniteSet(1 .. k) /\ Cardinality(1 .. k) = k
  BY FS_Interval
<1>2. {i \in (1 .. n) \ {h} : i <= k} = (1 .. k) \ {h}
  OBVIOUS
<1>3. Cardinality((1 .. k) \ {h}) = IF h \in 1 .. k THEN k - 1 ELSE k
  BY <1>1, FS_RemoveElement
<1> QED
  BY <1>2, <1>3

LEMMA RetainSkips ==
    ASSUME NEW order \in Seq(Urls), Unique(order), NEW h \in 1 .. Len(order)
    PROVE  Others(order, order[h]) = Skip(order, h)
<1> DEFINE n == Len(order)
           kept == {k \in 1 .. n : order[k] # order[h]}
           Rank(k) == Cardinality({i \in kept : i <= k})
           Place(j) == IF j < h THEN j ELSE j + 1
<1>1. n \in Nat /\ h \in 1 .. n
  OBVIOUS
<1>2. kept = (1 .. n) \ {h}
  BY DEF Unique
<1>3. Cardinality(kept) = n - 1
  <2> HIDE DEF n
  <2>1. IsFiniteSet(1 .. n) /\ Cardinality(1 .. n) = n
    BY <1>1, CountTo
  <2>2. Cardinality((1 .. n) \ {h}) = n - 1
    BY <1>1, <2>1, FS_RemoveElement
  <2> QED
    BY <1>2, <2>2
<1>4. \A k \in kept : Rank(k) = IF k < h THEN k ELSE k - 1
  BY <1>1, <1>2, RankSkips
<1>5. Others(order, order[h]) =
         [j \in 1 .. Cardinality(kept) |-> order[CHOOSE k \in kept : Rank(k) = j]]
  BY DEF Others
<1> HIDE DEF kept, Rank, n
<1>6. ASSUME NEW j \in 1 .. n - 1 PROVE (CHOOSE k \in kept : Rank(k) = j) = Place(j)
  <2>1. Place(j) \in kept
    BY <1>1, <1>2
  <2>2. Rank(Place(j)) = j
    BY <1>1, <1>4, <2>1
  <2>3. \A k \in kept : Rank(k) = j => k = Place(j)
    BY <1>1, <1>2, <1>4
  <2> QED
    BY <2>1, <2>2, <2>3
<1> DEFINE Nth(j) == CHOOSE k \in kept : Rank(k) = j
<1>7. Others(order, order[h]) = [j \in 1 .. n - 1 |-> order[Nth(j)]]
  BY <1>3, <1>5
<1>8. \A j \in 1 .. n - 1 : Nth(j) = Place(j)
  BY <1>6
<1> HIDE DEF Nth
<1>9. \A j \in 1 .. n - 1 : order[Nth(j)] = IF j < h THEN order[j] ELSE order[j + 1]
  BY <1>8
<1> QED
  BY <1>7, <1>9 DEF Skip, n

LEMMA RetainAll ==
    ASSUME NEW order \in Seq(Urls), NEW url, url \notin Listed(order)
    PROVE  Others(order, url) = order
<1> DEFINE n == Len(order)
           kept == {k \in 1 .. n : order[k] # url}
           Rank(k) == Cardinality({i \in kept : i <= k})
<1>1. n \in Nat /\ order = [j \in 1 .. n |-> order[j]]
  OBVIOUS
<1>2. kept = 1 .. n
  BY DEF Listed
<1>3. Cardinality(kept) = n
  <2> HIDE DEF n
  <2>1. Cardinality(1 .. n) = n
    BY <1>1, CountTo
  <2> QED
    BY <1>2, <2>1
<1>4. \A k \in kept : Rank(k) = k
  <2> SUFFICES ASSUME NEW k \in kept PROVE Rank(k) = k
    OBVIOUS
  <2>1. {i \in kept : i <= k} = 1 .. k /\ k \in Nat
    BY <1>1, <1>2
  <2>2. Cardinality(1 .. k) = k
    BY <1>2, FS_Interval
  <2> QED
    BY <2>1, <2>2
<1>5. Others(order, url) =
         [j \in 1 .. Cardinality(kept) |-> order[CHOOSE k \in kept : Rank(k) = j]]
  BY DEF Others
<1> HIDE DEF kept, Rank, n
<1>6. \A j \in 1 .. n : (CHOOSE k \in kept : Rank(k) = j) = j
  BY <1>2, <1>4
<1> QED
  BY <1>1, <1>3, <1>5, <1>6

\* Taking a url out leaves the others listed, in their order.
Without(order, less, url) ==
    /\ less \in Seq(Urls)
    /\ Unique(less)
    /\ Listed(less) = Listed(order) \ {url}
    /\ \A j, k \in 1 .. Len(less) : j < k =>
          \E m, n \in 1 .. Len(order) : m < n /\ order[m] = less[j] /\ order[n] = less[k]

LEMMA SkipKeeps ==
    ASSUME NEW order \in Seq(Urls), Unique(order), NEW h \in 1 .. Len(order)
    PROVE  Without(order, Skip(order, h), order[h])
<1> DEFINE less == Skip(order, h)
           n == Len(order)
           Place(j) == IF j < h THEN j ELSE j + 1
<1>1. n \in Nat /\ n - 1 \in Nat /\ \A j \in 1 .. n : order[j] \in Urls
  OBVIOUS
<1>2. \A j \in 1 .. n - 1 : Place(j) \in 1 .. n /\ Place(j) # h
  BY <1>1
<1>3. less = [j \in 1 .. n - 1 |-> order[Place(j)]]
  BY DEF Skip
<1> HIDE DEF n, less
<1>4. less \in Seq(Urls) /\ Len(less) = n - 1
  BY <1>1, <1>2, <1>3
<1>5. \A j \in 1 .. n - 1 : less[j] = order[Place(j)]
  BY <1>3
<1>6. \A j, k \in 1 .. n - 1 : (Place(j) = Place(k) => j = k) /\ (j < k => Place(j) < Place(k))
  BY <1>1
<1>7. Unique(less)
  BY <1>2, <1>4, <1>5, <1>6 DEF Unique, n
<1>8. \A j, k \in 1 .. Len(less) : j < k =>
         \E m, i \in 1 .. n : m < i /\ order[m] = less[j] /\ order[i] = less[k]
  <2> SUFFICES ASSUME NEW j \in 1 .. n - 1, NEW k \in 1 .. n - 1, j < k
               PROVE  \E m, i \in 1 .. n : m < i /\ order[m] = less[j] /\ order[i] = less[k]
    BY <1>4
  <2>1. Place(j) \in 1 .. n /\ Place(k) \in 1 .. n /\ Place(j) < Place(k)
    BY <1>2, <1>6
  <2>2. order[Place(j)] = less[j] /\ order[Place(k)] = less[k]
    BY <1>5
  <2> HIDE DEF Place
  <2> QED
    BY <2>1, <2>2
<1>9. Listed(less) = Listed(order) \ {order[h]}
  <2>1. ASSUME NEW u \in Listed(less) PROVE u \in Listed(order) \ {order[h]}
    <3>1. PICK j \in 1 .. n - 1 : u = less[j]
      BY <1>4 DEF Listed
    <3>2. Place(j) \in 1 .. n /\ Place(j) # h /\ u = order[Place(j)]
      BY <1>2, <1>5, <3>1
    <3> QED
      BY <3>2 DEF Listed, Unique, n
  <2>2. ASSUME NEW u \in Listed(order) \ {order[h]} PROVE u \in Listed(less)
    <3>1. PICK k \in 1 .. n : u = order[k] /\ k # h
      BY DEF Listed, n
    <3> DEFINE j == IF k < h THEN k ELSE k - 1
    <3>2. j \in 1 .. n - 1 /\ Place(j) = k
      BY <1>1, <3>1 DEF n
    <3> HIDE DEF j
    <3>3. less[j] = u
      BY <1>5, <3>1, <3>2
    <3> QED
      BY <1>4, <3>2, <3>3 DEF Listed
  <2> QED
    BY <2>1, <2>2
<1> QED
  <2>1. Without(order, less, order[h])
    BY <1>4, <1>7, <1>8, <1>9 DEF Without, n
  <2> QED
    BY <2>1 DEF less

-----------------------------------------------------------------------------
(* The order lists the urls of the map, the one put longest ago first.     *)

Ordered ==
    /\ insertion_order \in Seq(Urls)
    /\ Unique(insertion_order)
    /\ Listed(insertion_order) = DOMAIN tokens

\* A url before another in the order was put last before it was.
Aged(order, puts) ==
    \A j, k \in 1 .. Len(order) : j < k =>
        \A m, n \in 1 .. Len(puts) :
            IsLastPut(puts, order[j], m) /\ IsLastPut(puts, order[k], n) => m < n

Kept == Recorded /\ Ordered /\ Aged(insertion_order, log)

LEMMA IsItsValues == ASSUME NEW order \in Seq(Urls) PROVE order = [j \in 1 .. Len(order) |-> order[j]]
OBVIOUS

LEMMA TailSkips ==
    ASSUME NEW order \in Seq(Urls), order # <<>>
    PROVE  Tail(order) = Skip(order, 1) /\ 1 \in 1 .. Len(order) /\ Head(order) = order[1]
<1>1. 1 \in 1 .. Len(order) /\ Head(order) = order[1]
  OBVIOUS
<1>2. Tail(order) = [j \in 1 .. Len(order) - 1 |-> order[j + 1]]
  <2>1. /\ Tail(order) \in Seq(Urls) /\ Len(Tail(order)) = Len(order) - 1
        /\ \A j \in 1 .. Len(Tail(order)) : Tail(order)[j] = order[j + 1]
    BY HeadTailProperties
  <2>2. Tail(order) = [j \in 1 .. Len(Tail(order)) |-> Tail(order)[j]]
    BY <2>1, IsItsValues
  <2> QED
    BY <2>1, <2>2
<1>3. \A j \in 1 .. Len(order) - 1 : ~(j < 1)
  OBVIOUS
<1> QED
  BY <1>1, <1>2, <1>3 DEF Skip

LEMMA RetainKeeps ==
    ASSUME NEW order \in Seq(Urls), Unique(order), NEW url
    PROVE  Without(order, Others(order, url), url)
<1>1. CASE url \in Listed(order)
  <2>1. PICK h \in 1 .. Len(order) : order[h] = url
    BY <1>1 DEF Listed
  <2> QED
    BY <2>1, RetainSkips, SkipKeeps
<1>2. CASE url \notin Listed(order)
  <2>1. Others(order, url) = order
    BY <1>2, RetainAll
  <2>2. Listed(order) = Listed(order) \ {url}
    BY <1>2
  <2> QED
    BY <2>1, <2>2 DEF Without
<1> QED
  BY <1>1, <1>2

LEMMA EvictionKeeps ==
    ASSUME NEW order \in Seq(Urls), Unique(order), order # <<>>
    PROVE  Without(order, Tail(order), Head(order))
<1> DEFINE first == 1
<1>1. Tail(order) = Skip(order, first) /\ first \in 1 .. Len(order) /\ Head(order) = order[first]
  BY TailSkips
<1> HIDE DEF first
<1>2. Without(order, Skip(order, first), order[first])
  BY <1>1, SkipKeeps
<1> QED
  BY <1>1, <1>2

LEMMA WithoutAges ==
    ASSUME NEW order, NEW less, NEW url, Without(order, less, url), NEW puts, Aged(order, puts)
    PROVE  Aged(less, puts)
<1> SUFFICES ASSUME NEW j \in 1 .. Len(less), NEW k \in 1 .. Len(less), j < k,
                    NEW m \in 1 .. Len(puts), NEW n \in 1 .. Len(puts),
                    IsLastPut(puts, less[j], m), IsLastPut(puts, less[k], n)
             PROVE  m < n
  BY DEF Aged
<1>1. PICK x, y \in 1 .. Len(order) : x < y /\ order[x] = less[j] /\ order[y] = less[k]
  BY DEF Without
<1>2. IsLastPut(puts, order[x], m) /\ IsLastPut(puts, order[y], n)
  BY <1>1
<1> QED
  BY <1>1, <1>2 DEF Aged

LEMMA AppendLists ==
    ASSUME NEW less \in Seq(Urls), Unique(less), NEW url \in Urls, url \notin Listed(less)
    PROVE  /\ Append(less, url) \in Seq(Urls)
           /\ Unique(Append(less, url))
           /\ Listed(Append(less, url)) = Listed(less) \cup {url}
<1> DEFINE longer == Append(less, url)
<1>1. /\ longer \in Seq(Urls) /\ Len(longer) = Len(less) + 1 /\ Len(less) \in Nat
      /\ longer[Len(less) + 1] = url
      /\ \A k \in 1 .. Len(less) : longer[k] = less[k]
  OBVIOUS
<1> HIDE DEF longer
<1>2. \A k \in 1 .. Len(longer) : k = Len(less) + 1 \/ k \in 1 .. Len(less)
  BY <1>1
<1>3. \A k \in 1 .. Len(less) : less[k] # url
  BY DEF Listed
<1>4. Unique(longer)
  <2> SUFFICES ASSUME NEW j \in 1 .. Len(longer), NEW k \in 1 .. Len(longer),
                      longer[j] = longer[k]
               PROVE  j = k
    BY DEF Unique
  <2>1. CASE j \in 1 .. Len(less) /\ k \in 1 .. Len(less)
    BY <1>1, <2>1 DEF Unique
  <2>2. CASE ~(j \in 1 .. Len(less) /\ k \in 1 .. Len(less))
    BY <1>1, <1>2, <1>3, <2>2
  <2> QED
    BY <2>1, <2>2
<1>5. Listed(longer) = Listed(less) \cup {url}
  <2>1. \A k \in 1 .. Len(less) : k \in 1 .. Len(longer)
    BY <1>1
  <2>2. Len(less) + 1 \in 1 .. Len(longer)
    BY <1>1
  <2>3. ASSUME NEW u \in Listed(longer) PROVE u \in Listed(less) \cup {url}
    BY <1>1, <1>2 DEF Listed
  <2>4. ASSUME NEW u \in Listed(less) PROVE u \in Listed(longer)
    BY <1>1, <2>1 DEF Listed
  <2>5. url \in Listed(longer)
    BY <1>1, <2>2 DEF Listed
  <2> QED
    BY <2>3, <2>4, <2>5
<1> QED
  BY <1>1, <1>4, <1>5 DEF longer

\* At the end of the order, the url put last is the youngest.
LEMMA PutAges ==
    ASSUME NEW puts, IsLog(puts), NEW put \in [url : Urls, token : Tokens],
           NEW less \in Seq(Urls), put.url \notin Listed(less), Aged(less, puts)
    PROVE  Aged(Append(less, put.url), Append(puts, put))
<1> DEFINE longer == Append(less, put.url)
           logged == Append(puts, put)
<1>1. /\ Len(longer) = Len(less) + 1 /\ Len(less) \in Nat
      /\ longer[Len(less) + 1] = put.url
      /\ \A k \in 1 .. Len(less) : longer[k] = less[k]
  OBVIOUS
<1>2. IsLog(logged) /\ Len(logged) = Len(puts) + 1 /\ Len(puts) \in Nat
  BY PutLogged DEF IsLog
<1>3. logged[Len(puts) + 1] = put /\ \A m \in 1 .. Len(puts) : logged[m] = puts[m]
  BY DEF IsLog
<1> HIDE DEF longer, logged
<1>4. IsLastPut(logged, put.url, Len(logged))
  BY <1>2, <1>3 DEF IsLastPut
<1>5. ASSUME NEW u, u # put.url, NEW m, IsLastPut(logged, u, m) PROVE IsLastPut(puts, u, m)
  <2>1. m \in 1 .. Len(puts)
    BY <1>2, <1>3, <1>5 DEF IsLastPut
  <2>2. \A j \in m + 1 .. Len(puts) : j \in m + 1 .. Len(logged) /\ logged[j] = puts[j]
    BY <1>2, <1>3, <2>1
  <2> QED
    BY <1>3, <1>5, <2>1, <2>2 DEF IsLastPut
<1> SUFFICES ASSUME NEW j \in 1 .. Len(longer), NEW k \in 1 .. Len(longer), j < k,
                    NEW m \in 1 .. Len(logged), NEW n \in 1 .. Len(logged),
                    IsLastPut(logged, longer[j], m), IsLastPut(logged, longer[k], n)
             PROVE  m < n
  BY DEF Aged, longer, logged
<1>6. j \in 1 .. Len(less) /\ longer[j] = less[j] /\ less[j] # put.url
  BY <1>1 DEF Listed
<1>7. IsLastPut(puts, less[j], m)
  BY <1>5, <1>6
<1>8. CASE k \in 1 .. Len(less)
  <2>1. longer[k] = less[k] /\ less[k] # put.url
    BY <1>1, <1>8 DEF Listed
  <2>2. IsLastPut(puts, less[k], n)
    BY <1>5, <2>1
  <2>3. m \in 1 .. Len(puts) /\ n \in 1 .. Len(puts)
    BY <1>7, <2>2 DEF IsLastPut
  <2> QED
    BY <1>6, <1>7, <1>8, <2>2, <2>3 DEF Aged
<1>9. CASE k \notin 1 .. Len(less)
  <2>1. longer[k] = put.url
    BY <1>1, <1>9
  <2>2. n = Len(logged)
    BY <1>2, <1>4, <2>1, LastPutUnique
  <2>3. m \in 1 .. Len(puts)
    BY <1>7 DEF IsLastPut
  <2> QED
    BY <1>2, <2>2, <2>3
<1> QED
  BY <1>8, <1>9

\* What is left of the order and of the map once a put has made room.
Room(url) ==
    IF Evicts(url) THEN Tail(insertion_order) ELSE Others(insertion_order, url)
Rest(url) ==
    IF Evicts(url) THEN DOMAIN tokens \ {Head(insertion_order)} ELSE DOMAIN tokens

LEMMA PutRoom ==
    ASSUME Kept, NEW url \in Urls
    PROVE  /\ Room(url) \in Seq(Urls)
           /\ Unique(Room(url))
           /\ Listed(Room(url)) = Rest(url) \ {url}
           /\ Aged(Room(url), log)
<1>1. CASE Evicts(url)
  <2>1. Without(insertion_order, Tail(insertion_order), Head(insertion_order))
    BY <1>1, EvictionKeeps DEF Kept, Ordered, Evicts
  <2>2. Room(url) = Tail(insertion_order) /\ url \notin DOMAIN tokens
        /\ Rest(url) = DOMAIN tokens \ {Head(insertion_order)}
    BY <1>1 DEF Room, Rest, Evicts, Contains
  <2>3. Aged(Room(url), log)
    BY <2>1, <2>2, WithoutAges DEF Kept
  <2> QED
    BY <2>1, <2>2, <2>3 DEF Without, Kept, Ordered
<1>2. CASE ~Evicts(url)
  <2>1. Without(insertion_order, Others(insertion_order, url), url)
    BY RetainKeeps DEF Kept, Ordered
  <2>2. Room(url) = Others(insertion_order, url) /\ Rest(url) = DOMAIN tokens
    BY <1>2 DEF Room, Rest
  <2>3. Aged(Room(url), log)
    BY <2>1, <2>2, WithoutAges DEF Kept
  <2> QED
    BY <2>1, <2>2, <2>3 DEF Without, Kept, Ordered
<1> QED
  BY <1>1, <1>2

LEMMA PutDomain ==
    ASSUME NEW url \in Urls, NEW token \in Tokens, Put(url, token)
    PROVE  DOMAIN tokens' = Rest(url) \cup {url} /\ insertion_order' = Append(Room(url), url)
<1> DEFINE kept == IF Evicts(url) THEN WithoutKey(tokens, Head(insertion_order)) ELSE tokens
<1>1. tokens' = WithKey(kept, url, token)
  BY DEF Put
<1>2. DOMAIN kept = Rest(url)
  BY DEF WithoutKey, Rest
<1> HIDE DEF kept
<1> QED
  BY <1>1, <1>2 DEF WithKey, Put, Room

LEMMA NextKept == Kept /\ [Next]_vars => Kept'
<1> SUFFICES ASSUME Kept, [Next]_vars PROVE Kept'
  OBVIOUS
<1>1. Recorded'
  BY NextRecorded DEF Kept
<1>2. ASSUME NEW url \in Urls, NEW token \in Tokens, Put(url, token) PROVE Kept'
  <2> DEFINE put == [url |-> url, token |-> token]
             room == Room(url)
  <2>1. log' = Append(log, put) /\ put \in [url : Urls, token : Tokens] /\ put.url = url
    BY <1>2 DEF Put, Logged
  <2>2. insertion_order' = Append(room, url) /\ DOMAIN tokens' = Rest(url) \cup {url}
    BY <1>2, PutDomain
  <2>3. room \in Seq(Urls) /\ Unique(room) /\ Listed(room) = Rest(url) \ {url} /\ Aged(room, log)
    BY PutRoom
  <2> HIDE DEF put, room
  <2>4. IsLog(log)
    BY DEF Kept, Recorded
  <2>5. url \notin Listed(room)
    BY <2>3
  <2>6. Aged(insertion_order', log')
    BY <2>1, <2>2, <2>3, <2>4, <2>5, PutAges
  <2>7. /\ insertion_order' \in Seq(Urls) /\ Unique(insertion_order')
        /\ Listed(insertion_order') = Listed(room) \cup {url}
    BY <2>2, <2>3, <2>5, AppendLists
  <2> QED
    BY <1>1, <2>2, <2>3, <2>6, <2>7 DEF Kept, Ordered
<1>3. ASSUME NEW url \in Urls, Remove(url) PROVE Kept'
  <2>1. /\ insertion_order' = Others(insertion_order, url) /\ log' = log
        /\ DOMAIN tokens' = DOMAIN tokens \ {url}
    BY <1>3 DEF Remove, WithoutKey
  <2>2. Without(insertion_order, insertion_order', url)
    BY <2>1, RetainKeeps DEF Kept, Ordered
  <2>3. Aged(insertion_order', log')
    BY <2>1, <2>2, WithoutAges DEF Kept
  <2> QED
    BY <1>1, <2>1, <2>2, <2>3 DEF Kept, Ordered, Without
<1>4. ASSUME NEW url \in Urls, Get(url) PROVE Kept'
  BY <1>1, <1>4 DEF Get, Kept, Ordered
<1>5. CASE Clear
  <2>1. insertion_order' = <<>> /\ DOMAIN tokens' = {}
    BY <1>5 DEF Clear
  <2>2. <<>> \in Seq(Urls) /\ 1 .. Len(<<>>) = {}
    OBVIOUS
  <2> QED
    BY <1>1, <2>1, <2>2 DEF Kept, Ordered, Unique, Listed, Aged
<1>6. CASE UNCHANGED vars
  BY <1>1, <1>6 DEF vars, Kept, Ordered
<1> QED
  BY <1>2, <1>3, <1>4, <1>5, <1>6 DEF Next

LEMMA InitKept == Init => Kept
<1> SUFFICES ASSUME Init PROVE Kept
  OBVIOUS
<1>1. <<>> \in Seq(Urls) /\ 1 .. Len(<<>>) = {} /\ insertion_order = <<>> /\ DOMAIN tokens = {}
  BY DEF Init
<1>2. Recorded
  BY DEF Init, Recorded, IsLog
<1> QED
  BY <1>1, <1>2 DEF Kept, Ordered, Unique, Listed, Aged

\* The inductive invariant: the log has each token's put, the order lists each
\* url of the map once, and in the order of their last puts (cache.rs:47-86).
THEOREM CacheKept == Spec => []Kept
BY InitKept, NextKept, PTL DEF Spec

-----------------------------------------------------------------------------
(* What follows of the cache.                                              *)

LEMMA UniqueCounts ==
    ASSUME NEW order \in Seq(Urls), Unique(order)
    PROVE  IsFiniteSet(Listed(order)) /\ Cardinality(Listed(order)) = Len(order)
<1> DEFINE n == Len(order)
<1>1. n \in Nat /\ order \in [1 .. n -> Listed(order)]
  BY DEF Listed
<1>2. order \in Bijection(1 .. n, Listed(order))
  BY <1>1 DEF Bijection, Injection, Surjection, Unique, Listed, IsInjective
<1>3. ExistsBijection(1 .. n, Listed(order))
  BY <1>2 DEF ExistsBijection
<1> HIDE DEF n
<1>4. Cardinality(Listed(order)) = n
  BY <1>1, <1>3, FS_CountingElements
<1>5. IsFiniteSet(Listed(order))
  BY <1>1, <1>3, FS_NatBijection
<1> QED
  BY <1>4, <1>5 DEF n

LEMMA KeptCounts ==
    ASSUME Kept
    PROVE  /\ IsFiniteSet(DOMAIN tokens)
           /\ Cardinality(DOMAIN tokens) = Len(insertion_order)
           /\ Cardinality(DOMAIN tokens) \in Nat
           /\ DOMAIN tokens \subseteq Urls
BY UniqueCounts DEF Kept, Ordered, Recorded

\* The order lists each url of the map once and nothing else, whatever the
\* order of puts, updates, removals and evictions (cache.rs:47-86): no url is
\* left over for a later eviction to waste, and none can never be evicted.
THEOREM OrderExact == Spec => []OrderListsKeys
<1>1. Kept => OrderListsKeys
  BY KeptCounts DEF Kept, Ordered, Listed, OrderListsKeys
<1> QED
  BY <1>1, CacheKept, PTL

LEMMA OneLess ==
    ASSUME NEW S, IsFiniteSet(S), NEW x, NEW T, T = S \ {x}
    PROVE  /\ IsFiniteSet(T) /\ Cardinality(T) \in Nat /\ Cardinality(T) <= Cardinality(S)
           /\ x \in S => Cardinality(T) = Cardinality(S) - 1
<1>1. /\ IsFiniteSet(S \ {x})
      /\ Cardinality(S \ {x}) = IF x \in S THEN Cardinality(S) - 1 ELSE Cardinality(S)
  BY FS_RemoveElement
<1>2. IsFiniteSet(T) /\ Cardinality(T) = IF x \in S THEN Cardinality(S) - 1 ELSE Cardinality(S)
  BY <1>1
<1>3. Cardinality(S) \in Nat /\ Cardinality(T) \in Nat
  BY <1>2, FS_CardinalityType
<1> QED
  BY <1>2, <1>3

LEMMA OneMore ==
    ASSUME NEW S, IsFiniteSet(S), NEW x, NEW T, T = S \cup {x}
    PROVE  Cardinality(T) = IF x \in S THEN Cardinality(S) ELSE Cardinality(S) + 1
BY FS_AddElement

\* cache.rs:11, the cache never holds more tokens than its capacity, if that
\* is not 0: with 0 the eviction finds nothing to evict and one is held.
THEOREM CapacityKept == ASSUME Capacity # 0 PROVE Spec => []WithinCapacity
<1> DEFINE held == Cardinality(DOMAIN tokens)
<1>1. Init => WithinCapacity
  <2>1. Init => DOMAIN tokens = {}
    BY DEF Init
  <2> QED
    BY <2>1, StoreAssumption, FS_EmptySet DEF WithinCapacity
<1>2. ASSUME Kept, WithinCapacity, [Next]_vars PROVE WithinCapacity'
  <2>1. IsFiniteSet(DOMAIN tokens) /\ held \in Nat /\ held = Len(insertion_order)
        /\ held <= Capacity /\ Capacity \in Nat
    BY <1>2, KeptCounts, StoreAssumption DEF WithinCapacity
  <2>2. ASSUME NEW url \in Urls, NEW token \in Tokens, Put(url, token) PROVE WithinCapacity'
    <3>1. DOMAIN tokens' = Rest(url) \cup {url}
      BY <2>2, PutDomain
    <3>2. CASE Evicts(url)
      <4>1. /\ Rest(url) = DOMAIN tokens \ {Head(insertion_order)}
            /\ insertion_order \in Seq(Urls) /\ insertion_order # <<>>
        BY <1>2, <3>2 DEF Rest, Evicts, Kept, Ordered
      <4>2. Head(insertion_order) \in DOMAIN tokens
        BY <1>2, <4>1 DEF Kept, Ordered, Listed
      <4>3. IsFiniteSet(Rest(url)) /\ Cardinality(Rest(url)) = held - 1
        BY <2>1, <4>1, <4>2, OneLess
      <4>4. Cardinality(DOMAIN tokens') \in {held - 1, held}
        BY <2>1, <3>1, <4>3, OneMore
      <4> QED
        BY <2>1, <4>4 DEF WithinCapacity
    <3>3. CASE ~Evicts(url)
      <4>1. Rest(url) = DOMAIN tokens
        BY <3>3 DEF Rest
      <4>2. Cardinality(DOMAIN tokens') =
               IF url \in DOMAIN tokens THEN held ELSE held + 1
        BY <2>1, <3>1, <4>1, OneMore
      <4>3. url \in DOMAIN tokens \/ held + 1 <= Capacity
        <5>1. CASE insertion_order = <<>>
          BY <2>1, <5>1
        <5>2. CASE insertion_order # <<>>
          BY <2>1, <3>3, <5>2 DEF Evicts, Contains
        <5> QED
          BY <5>1, <5>2
      <4> QED
        BY <2>1, <3>1, <4>1, <4>2, <4>3 DEF WithinCapacity
    <3> QED
      BY <3>2, <3>3
  <2>3. ASSUME NEW url \in Urls, Remove(url) PROVE WithinCapacity'
    <3>1. DOMAIN tokens' = DOMAIN tokens \ {url}
      BY <2>3 DEF Remove, WithoutKey
    <3>2. Cardinality(DOMAIN tokens') \in Nat /\ Cardinality(DOMAIN tokens') <= held
      BY <2>1, <3>1, OneLess
    <3> QED
      BY <2>1, <3>2 DEF WithinCapacity
  <2>4. ASSUME NEW url \in Urls, Get(url) PROVE WithinCapacity'
    BY <1>2, <2>4 DEF Get, WithinCapacity
  <2>5. CASE Clear
    BY <2>5, StoreAssumption, FS_EmptySet DEF Clear, WithinCapacity
  <2>6. CASE UNCHANGED vars
    BY <1>2, <2>6 DEF vars, WithinCapacity
  <2> QED
    BY <1>2, <2>2, <2>3, <2>4, <2>5, <2>6 DEF Next
<1> QED
  BY <1>1, <1>2, CacheKept, PTL DEF Spec

\* cache.rs:11, "evicted in FIFO order": a put evicts the token put longest ago,
\* an update counting as a put, whatever was removed or evicted before.
THEOREM EvictsOldest == Spec => OldestOut
<1>1. ASSUME Kept, Next, NEW out \in Evicted, NEW other \in DOMAIN tokens
      PROVE  LastPut(out) <= LastPut(other)
  <2>1. out \in DOMAIN tokens /\ out \notin DOMAIN tokens' /\ Len(log') > Len(log)
    BY <1>1 DEF Evicted
  <2>2. PICK url \in Urls, token \in Tokens : Put(url, token)
    <3>1. Len(log) \in Nat
      BY <1>1 DEF Kept, Recorded, IsLog
    <3> QED
      BY <1>1, <2>1, <3>1 DEF Next, Get, Remove, Clear
  <2>3. Evicts(url) /\ out = Head(insertion_order)
    BY <2>1, <2>2, PutDomain DEF Rest
  <2>4. insertion_order \in Seq(Urls) /\ insertion_order # <<>>
    BY <1>1, <2>3 DEF Evicts, Kept, Ordered
  <2>5. Len(insertion_order) \in Nat /\ 1 \in 1 .. Len(insertion_order) /\ out = insertion_order[1]
    BY <2>3, <2>4
  <2>6. PICK k \in 1 .. Len(insertion_order) : other = insertion_order[k]
    BY <1>1 DEF Kept, Ordered, Listed
  <2>7. \A u \in DOMAIN tokens : IsLastPut(log, u, LastPut(u)) /\ LastPut(u) \in 1 .. Len(log)
    <3> SUFFICES ASSUME NEW u \in DOMAIN tokens
                 PROVE  IsLastPut(log, u, LastPut(u)) /\ LastPut(u) \in 1 .. Len(log)
      OBVIOUS
    <3>1. \E m \in Nat : IsLastPut(log, u, m)
      BY <1>1 DEF Kept, Recorded
    <3>2. IsLastPut(log, u, LastPut(u))
      BY <3>1 DEF IsLastPut, LastPut
    <3> QED
      BY <3>2 DEF IsLastPut
  <2>8. LastPut(out) \in Nat /\ LastPut(other) \in Nat
    BY <1>1, <2>1, <2>7
  <2>9. CASE k = 1
    BY <2>5, <2>6, <2>8, <2>9
  <2>10. CASE k # 1
    <3>1. 1 < k
      BY <2>5, <2>10
    <3>2. LastPut(out) < LastPut(other)
      BY <1>1, <2>1, <2>5, <2>6, <2>7, <3>1 DEF Kept, Aged
    <3> QED
      BY <2>8, <3>2
  <2> QED
    BY <2>9, <2>10
<1>2. Kept /\ [Next]_vars =>
         [\A out \in Evicted, other \in DOMAIN tokens : LastPut(out) <= LastPut(other)]_vars
  BY <1>1
<1> QED
  BY <1>2, CacheKept, PTL DEF Spec, OldestOut

\* The types, with room in the order for each url once, for any number of
\* urls, tokens and places.
THEOREM CacheTypeCorrect == Spec => []TypeOK
<1> DEFINE Typed ==
      /\ \A u \in DOMAIN tokens : tokens[u] \in Tokens
      /\ answer \in [url : Urls, token : Tokens \cup {None}] \cup {None}
<1>1. Init => Typed
  BY DEF Init
<1>2. ASSUME Kept, Typed, [Next]_vars PROVE Typed'
  <2>1. DOMAIN tokens \subseteq Urls
    BY <1>2 DEF Kept, Recorded
  <2>2. ASSUME NEW url \in Urls, NEW token \in Tokens, Put(url, token) PROVE Typed'
    <3>1. DOMAIN tokens' \subseteq DOMAIN tokens \cup {url}
      BY <2>2, PutTokens
    <3>2. tokens'[url] = token
      BY <2>2, PutTokens
    <3>3. \A u \in DOMAIN tokens' \ {url} : tokens'[u] = tokens[u]
      BY <2>2, PutTokens
    <3>4. answer' = answer
      BY <2>2 DEF Put
    <3> QED
      BY <1>2, <3>1, <3>2, <3>3, <3>4
  <2>3. ASSUME NEW url \in Urls, Remove(url) PROVE Typed'
    BY <1>2, <2>3 DEF Remove, WithoutKey
  <2>4. ASSUME NEW url \in Urls, Get(url) PROVE Typed'
    BY <1>2, <2>4 DEF Get, Contains
  <2>5. CASE Clear
    BY <1>2, <2>5 DEF Clear
  <2>6. CASE UNCHANGED vars
    BY <1>2, <2>6 DEF vars
  <2> QED
    BY <1>2, <2>2, <2>3, <2>4, <2>5, <2>6 DEF Next
<1>3. ASSUME Kept, Typed PROVE TypeOK
  <2>1. /\ DOMAIN tokens \subseteq Urls /\ insertion_order \in Seq(Urls)
        /\ Len(insertion_order) = Cardinality(DOMAIN tokens)
        /\ log \in Seq([url : Urls, token : Tokens])
    BY <1>3, KeptCounts DEF Kept, Ordered, Recorded, IsLog
  <2>2. Cardinality(DOMAIN tokens) <= Cardinality(Urls)
    BY <2>1, StoreAssumption, FS_Subset
  <2> QED
    BY <1>3, <2>1, <2>2 DEF TypeOK
<1> HIDE DEF Typed
<1> QED
  BY <1>1, <1>2, <1>3, CacheKept, PTL DEF Spec
===============================================================================
