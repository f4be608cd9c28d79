------------------------------ MODULE MemoryStore ------------------------------
(***************************************************************************)
(* InMemoryTokenStore (crates/l402-core/src/cache.rs).  Every operation    *)
(* holds the lock from its first to its last statement, so each is one     *)
(* action.  The log is history, for the properties about eviction.         *)
(***************************************************************************)
EXTENDS Naturals, Sequences, FiniteSets

CONSTANTS
    Urls,
    Tokens,
    None,       \* Option::None
    Capacity,   \* CacheInner::capacity
    MaxPuts     \* bound on the puts

ASSUME StoreAssumption ==
    /\ None \notin Tokens
    /\ IsFiniteSet(Urls)
    /\ Capacity \in Nat
    /\ MaxPuts \in Nat

VARIABLES
    tokens,             \* url -> token
    insertion_order,    \* urls, the one put longest ago first
    answer,             \* what the last get returned, with its url, or None
    log                 \* history: the puts, in order

vars == <<tokens, insertion_order, answer, log>>

Contains(url) == url \in DOMAIN tokens
WithKey(map, url, token) ==
    [u \in DOMAIN map \cup {url} |-> IF u = url THEN token ELSE map[u]]
WithoutKey(map, url) == [u \in DOMAIN map \ {url} |-> map[u]]

\* Vec::retain: the places of the other urls, each in the place of its rank.
Others(order, url) ==
    LET kept == {k \in 1 .. Len(order) : order[k] # url}
    IN  [j \in 1 .. Cardinality(kept) |->
            order[CHOOSE k \in kept : Cardinality({i \in kept : i <= k}) = j]]

Logged(url, token) ==
    /\ Len(log) < MaxPuts
    /\ log' = Append(log, [url |-> url, token |-> token])

Init ==
    /\ tokens = [u \in {} |-> None]
    /\ insertion_order = <<>>
    /\ answer = None
    /\ log = <<>>

\* Mutant: off by one.
EvictsAbove(url) ==
    /\ Cardinality(DOMAIN tokens) > Capacity
    /\ ~Contains(url)
    /\ insertion_order # <<>>

\* At capacity a new url evicts the first in order, if there is one.
Evicts(url) ==
    /\ Cardinality(DOMAIN tokens) >= Capacity
    /\ ~Contains(url)
    /\ insertion_order # <<>>

\* Mutants: an update leaves the url's old place in the order; the newest is
\* evicted; an update keeps the old token.
PutInPlace(url, token) ==
    /\ tokens' = WithKey(IF Evicts(url) THEN WithoutKey(tokens, Head(insertion_order))
                         ELSE tokens, url, token)
    /\ insertion_order' =
          Append(IF Evicts(url) THEN Tail(insertion_order) ELSE insertion_order, url)
    /\ Logged(url, token)
    /\ UNCHANGED answer

PutEvictingNewest(url, token) ==
    LET newest == insertion_order[Len(insertion_order)] IN
    /\ tokens' = WithKey(IF Evicts(url) THEN WithoutKey(tokens, newest) ELSE tokens, url, token)
    /\ insertion_order' = Append(IF Evicts(url) THEN Others(insertion_order, newest)
                                 ELSE Others(insertion_order, url), url)
    /\ Logged(url, token)
    /\ UNCHANGED answer

PutFirstWins(url, token) ==
    /\ tokens' = (IF Evicts(url)
                  THEN WithKey(WithoutKey(tokens, Head(insertion_order)), url, token)
                  ELSE IF Contains(url) THEN tokens ELSE WithKey(tokens, url, token))
    /\ insertion_order' = Append(IF Evicts(url) THEN Tail(insertion_order)
                                 ELSE Others(insertion_order, url), url)
    /\ Logged(url, token)
    /\ UNCHANGED answer

Put(url, token) ==
    /\ tokens' = WithKey(IF Evicts(url) THEN WithoutKey(tokens, Head(insertion_order))
                         ELSE tokens, url, token)
    /\ insertion_order' = Append(IF Evicts(url) THEN Tail(insertion_order)
                                 ELSE Others(insertion_order, url), url)
    /\ Logged(url, token)
    /\ UNCHANGED answer

Get(url) ==
    /\ answer' = [url |-> url, token |-> IF Contains(url) THEN tokens[url] ELSE None]
    /\ UNCHANGED <<tokens, insertion_order, log>>

\* Mutant: the order keeps the removed url.
RemoveToken(url) ==
    /\ tokens' = WithoutKey(tokens, url)
    /\ UNCHANGED <<insertion_order, answer, log>>

Remove(url) ==
    /\ tokens' = WithoutKey(tokens, url)
    /\ insertion_order' = Others(insertion_order, url)
    /\ UNCHANGED <<answer, log>>

Clear ==
    /\ tokens' = [u \in {} |-> None]
    /\ insertion_order' = <<>>
    /\ UNCHANGED <<answer, log>>

Next ==
    \/ \E url \in Urls, token \in Tokens : Put(url, token)
    \/ \E url \in Urls : Get(url) \/ Remove(url)
    \/ Clear

Spec == Init /\ [][Next]_vars

-----------------------------------------------------------------------------
(* Properties.                                                             *)

\* The types; the order has room for each url once.
TypeOK ==
    /\ DOMAIN tokens \subseteq Urls
    /\ \A u \in DOMAIN tokens : tokens[u] \in Tokens
    /\ insertion_order \in Seq(Urls) /\ Len(insertion_order) <= Cardinality(Urls)
    /\ answer \in [url : Urls, token : Tokens \cup {None}] \cup {None}
    /\ log \in Seq([url : Urls, token : Tokens])

\* The order lists each key of the map once and nothing else: a url left over
\* would make a later eviction remove nothing, one missing would never go.
OrderListsKeys ==
    /\ {insertion_order[k] : k \in 1 .. Len(insertion_order)} = DOMAIN tokens
    /\ Len(insertion_order) = Cardinality(DOMAIN tokens)

\* cache.rs:11, "Tokens are evicted in FIFO order when the cache exceeds its
\* capacity": it never holds more.
WithinCapacity == Cardinality(DOMAIN tokens) <= Capacity

Evicted == {u \in DOMAIN tokens : Len(log') > Len(log) /\ u \notin DOMAIN tokens'}
LastPut(url) ==
    CHOOSE k \in 1 .. Len(log) : log[k].url = url /\ \A j \in k + 1 .. Len(log) : log[j].url # url

\* cache.rs:11: a put evicts the token put longest ago, an update counting as a put.
OldestOut ==
    [][\A out \in Evicted, other \in DOMAIN tokens : LastPut(out) <= LastPut(other)]_vars

\* The cache is a token store: for a url it has, a get returns the token put last.
Port == INSTANCE TokenStore WITH
    Expires <- FALSE,
    last <- [u \in Urls |-> IF Contains(u) THEN log[LastPut(u)].token ELSE None]

ServesLastToken == Port!Spec
===============================================================================
