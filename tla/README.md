# L402 SDK in TLA+

L402 is payment over HTTP: a server answers 402 with a challenge (a macaroon and
a Lightning invoice), the client pays the invoice and sends the request again
with the macaroon and the preimage it bought. The repository is the client side:
a Rust core, adapters for wallets and token stores, and bindings for other
languages. What can go wrong is money: an invoice paid twice, a limit exceeded by
payments made at the same time, a payment the books lose, a paid token thrown
away. This project models the code that decides those.

Line numbers below are those of `crates/l402-core/src` unless a path is given.

## Inventory

| Component | State | Operations | What makes it correct |
|---|---|---|---|
| Budget tracker (`budget.rs`) | per wallet and per domain a ledger (total, hourly and daily buckets); outstanding reservations; `next_id`; `frozen` | `reserve`, `release`, `settle`, `settle_payment`, `check_and_record`, `total_spent`; a dropped `Reservation` | limits hold whatever overlaps; every satoshi settled stays in the ledgers; sums do not wrap; a reservation is live until it is released or settled |
| Client (`client.rs`, `receipt.rs`) | payments by invoice, receipts, tokens not yet stored; one flow per request | `request`: read the token, send, drop a refused token, claim and pay an invoice, keep the token, send again | no invoice is paid twice; the wallet's outflow is within the limit even when outcomes are unknown; receipts and ledger agree; a paid token is not lost; a request ends |
| Ports (`l402-proto/src/port.rs`) | none | contracts of `LnBackend` and `TokenStore` | a rejection means that nothing was paid |
| In-memory cache (`cache.rs`) | tokens, insertion order, capacity | `put`, `get`, `remove`, `clear` | the order lists exactly the keys; the size is bounded; the oldest goes first; a token read is the last one written |
| SQLite store (`l402-sqlite`) | one row per endpoint, with an expiry; schema version | open and migrate; the same on blocking threads, plus cleanup | expired tokens are not returned; a crash, a restart, another process and calls that land late keep the others |
| Header and invoice parsing (`l402-proto`) | none | BOLT11 amounts, challenge and token headers | rounding is up; overflow is refused; what is written is read back |
| LND, CLN, NWC, SwissKnife adapters | none | `pay_invoice` and the classification of its answer | only a confirmed failure is reported as `PaymentRejected`; fees round up |
| Mock server and wallet (`l402-mock`) | challenges issued, balance | issue, validate, pay | a token is valid only after its challenge was issued |
| C and Go bindings | handles, strings, the thread's last error | calls, `free` functions | each string is freed once by its owner |
| Python, WASM, LangChain, AI SDK | none, or running totals | conversions | the totals are those of the receipts |

Interaction: every request of a client shares the budget tracker (an
`RwLock`), the payments map, the receipts and the unpersisted tokens (three more
locks), the token store and the wallet (awaited). No lock is held across an
await. The reservation is taken with the payments lock held; every other pair of
locks is taken one after the other. Dropping a request's future at an await ends
it there: nothing is rolled back, and a payment in flight goes on. Hard are
exactly those points: what others do between two locks or during an await, and
what a dropped future, an unknown outcome, a failed store or a wallet that breaks
its cap leave behind.

## Modules

| Module | Models | Uses |
|---|---|---|
| `Ledger` | the arithmetic of `budget.rs` as pure operators on a `BudgetState` value | |
| `Budget` | the tracker shared by callers: clock read, lock, drop | `Ledger` |
| `SpendingLimit` | what a budget promises, with no ledgers, ids, domains or clocks | |
| `Client` | `L402Client::request` with the wallet and the server around it | `Ledger`, `SpendingLimit` |
| `MemoryStore` | `InMemoryTokenStore` (`cache.rs`) | `TokenStore` |
| `TokenStore` | what the `TokenStore` port promises: a lossy map that never returns an old token | |
| `LedgerProofs` | lemmas about the operators of `Ledger` | `Ledger` |
| `BudgetProofs` | theorems about `Budget` | `Budget`, `LedgerProofs` |
| `BudgetWindowProofs` | theorems about its hours and days | `BudgetProofs` |
| `ClientProofs` | theorems about `Client` | `Client`, `LedgerProofs` |
| `ClientMoneyProofs` | theorems about its receipts, breaches and limit | `ClientProofs` |
| `MemoryStoreProofs` | theorems about `MemoryStore` | `MemoryStore` |
| `SqliteStore` | `SqliteTokenStore` (`l402-sqlite`): processes on one database file | `TokenStore` |
| `SqliteStoreProofs` | theorems about `SqliteStore` | `SqliteStore` |
| `Bolt11` | `decode_bolt11_amount`, and what BOLT11 says the amount is | |
| `Headers` | the challenge and the token header | |
| `PaymentPort` | what the client relies on in `LnBackend::pay_invoice` | |
| `Wallet` | `pay_invoice` of every adapter, and the node behind it | `Bolt11` |
| `Exchange` | one exchange from the challenge to the validated token, with the mock server and wallet | `Wallet`, `Headers`, `PaymentPort` |
| `ExchangeProofs` | theorems about `Exchange`: adapters, amounts, headers, balance | `Exchange` |
| `GoBinding` | the strings of the C library as the Go package uses them | |
| `MCBudget`, `MCClient`, `MCMemoryStore`, `MCSqliteStore`, `MCExchange` | constants for TLC | |

**Ledger and Budget.** `state` is the `BudgetState` behind the lock, `held[c]` the
`Reservation` a caller owns, `call[c]` a call that has read the clock and not yet
taken the lock. `reserve` and `settle` evaluate `now_secs()` as an argument,
before the lock, so each is two steps: `BeginReserve`/`BeginSettle` read the clock
and `ReserveOk`/`ReserveErr`/`Settle` run under the lock. `Drop` is a
`Reservation` going out of scope: `budget.rs` has no `Drop`, so it stays charged.
`check_and_record` is a reservation marked `must_settle`. `settled` is history:
which reservation was settled, with what amount, when. A map is a function on the
keys it has; sums are counted (`Cardinality` of one pair per satoshi), which is
exact and needs no recursion. Saturating additions saturate; `Iterator::sum` wraps
(`PendingSum`), so that it does not is a property and not an assumption.

The clock goes forward only: `now_secs()` is the wall clock, and one that is set back is
outside of the model, as of what the limits per hour and day can mean.

`Threaded` chooses how callers run. With threads any two steps interleave. Without
(wasm32, or a current-thread runtime) a call that began ends before another
caller runs, since nothing in it awaits.

**Client.** `pc[r]` is the await a request is at (`get`, `auth`, `remove`, `plain`,
`pay`, `put`, `confirm`, `retry`, `drop`), the lock it is about to take (`start`,
`settle`, `record`, `forget`, `persist`) or how it ended. Each action is the code
between two of these. `frame[r]` holds its locals. `Submit` is one step because
the claim and the reservation are made under the payments lock and the wallet is
called before any other await. The wallet's side of a payment (`wallet[r]`) moves
on its own: it may pay or fail long after the request was cancelled. `PayRejected`
needs a payment that failed, which is the contract of the port
(`l402-proto/src/port.rs:69`); every other error is `PayUnknown`, whatever the
wallet did. The server is unconstrained: any answer to any request, any of the
url's invoices in any challenge, so that re-issued invoices and refused valid
tokens happen. A token is named by the invoice that was paid for it; `Saved` is a
token left in the store by an earlier client. With `Detached` a store call whose
future is dropped may land at any later time, as on SQLite's blocking threads (`Land`);
then a remove can take a token that was put after it was called. `StoreLoses` is a store
that evicts a token (`cache.rs:51`) or lets it expire (`store.rs:210`), at any moment.
`lost` records what left the store in one of these two ways: the client answers for every
other token.
Left out: bodies, methods, header text, latencies, the accessors of responses;
the client's clock stands still (windows are `Budget`'s subject).

**MemoryStore.** `tokens`, `insertion_order` and `capacity` as in `cache.rs`; each
operation is one lock and so one action. `TokenStore` keeps only what the port
says: a `get` returns the last token put for the url, or nothing; `Expires` says
whether tokens may also grow too old. Which token was put last is in both stores a record
of the calls (`log` in `MemoryStore`, `latest` below), kept beside the code's own data.

**SqliteStore.** `file` is the database (version, table, index, rows), `conn[p]` the
statement of the migration a process is at, `call[c]` a call handed to a blocking
thread. A call runs at one moment, under the lock of the connection and of the
file; until then it is queued, also when its future has been dropped, so calls of
one process and of several land in any order. `Close` is a crash, at any moment: what
is queued is lost, what has run stays. `put` computes `expires_at` when it is called,
as the code does, and the statements read the clock when they run. The sum of the
clock and the TTL is an i64 (`Wrapped`). `born` and `ttl` in a row are history, for
the properties, and so is `latest`, the row that the last put of each url had, whatever
the statement made of the table (`LatestAfter`). Left out: `count`, and the in-memory database, which is one process.

**Bolt11 and Headers** are operators, checked inside `Exchange`. An invoice is what the
decoder tells apart of its text (prefix, separator, value of the number, unit), a
header a sequence of symbols: punctuation, and words that are macaroons, invoices,
preimages or other text. A macaroon may be empty, as no text at all is base64 too, and a
backslash before a quote is nothing to the parser. Spaces, the base64 of other macaroons and
letter case are left out, except that an upper-case prefix is refused by the header and not
by the decoder.

**Wallet.** The node is not in the repository: it settles or gives up in its own time,
writes lines (LND's stream; CLN and gRPC answer once) and the connection may end or
break anywhere, within a line too. Its report of a settled payment may lack fields,
hold satoshis rounded down, or a wrong preimage, with a hash that matches it or one that
does not: only LND's REST adapter compares the two. The adapters read what arrived and say
"paid", "rejected" (`PaymentRejected`) or "unknown" (every other error). NWC and
SwissKnife enforce no fee cap, and nothing is submitted.

**Exchange.** `request[p]` is how far `L402Client::request` is and what it has read,
`payment[p]` the payment and what the node and the adapter did with it, `registry` the
challenges issued, `balance` the mock wallet's. Challenge n has macaroon n and preimage
n; 0 is a macaroon of no challenge. What another server may send is a constant
(`Templates`), any headers at all; which of them are challenges is said by a grammar that
does not use the parser (`IsChallenge`). `Client` has the same flow with its locks, store and budget and an unspecified
wallet; `Exchange` has the data and the wallets, and one request per payer. That the
adapters implement `PaymentPort` is what `Client` assumes of its wallet: `PayRejected`
only for payments that did not and will not settle.

**GoBinding.** `lastError[t]` is the thread-local `LAST_ERROR`; `drops` counts how often each
string's memory was given back. Every C call of a goroutine runs on any thread.

## Runs

| Run | Shows | Bounds, and why they are enough |
|---|---|---|
| `budget_threads` | types, live reservations, exact ledgers, total limits of wallet and domain, refinement of `SpendingLimit` | 2 callers, 3 ids, u64::MAX = 6, total 5, domain total 3: two callers contend, a breach reports 6 and saturates, the ids run out |
| `budget_windows` | hourly and daily limits on one thread, with buckets being dropped; no wrapping where no total limit prevents it | 1-second hours, 2-second days, buckets kept 1 hour and 0 days: bucket boundaries and expiry are crossed several times; windows that together let more through than u64::MAX = 6 |
| `budget_clock_race` | **fails**: see findings | |
| `budget_rolling` | **fails**: see findings | |
| `client_overlap` | no double payment, live locals, outflow within the limit (refinement of `SpendingLimit`) | 3 requests for one url, 2 invoices, limit 3 with invoices of 1 and 2 and fees of 1: claims, reuse of proofs and the limit all collide |
| `client_breach` | types; receipts equal ledger; nothing is paid after a breach; under fairness requests end and claims resolve | 2 requests; the wallet may report 0 or u64::MAX |
| `client_in_turn` | a paid token is kept until refused, or until the store itself loses it | 3 requests, 2 urls, one at a time; the store evicts and expires tokens, and the calls of dropped futures land late; no limits and no fees, which take no part |
| `client_stale_refusal` | **fails**: see findings | |
| `sqlite_store` | schema complete when the version says so, fresh tokens kept over crashes and cleanups, refinement of `TokenStore` against the order in which the puts ran | 2 processes, 2 calls at a time, 2 urls and tokens, a clock of 0 and 1, TTLs of none, 1 and 2 with i64::MAX = 2: tokens that expire and that outlive the run, a TTL whose sum wraps, both processes anywhere in the migration. States are told apart without `answer` (VIEW), which no action reads and the refinement checks at the step that sets it |
| `exchange` | decoding exact to the msat, every challenge of the grammar read, adapters implement `PaymentPort`, an honest node is no breach, settled covers paid, a paid token is accepted, the mock's balance | one payer with every adapter and server, one with the mock; a readable invoice that is not of whole satoshis, one that only the header refuses, and 10 that are refused for each reason; a thousand is 20, so that a satoshi is 20 msat, u64::MAX = 20000 and a bitcoin 16000; 4 headers that are challenges (both orders, other parameters anywhere, with commas, equals signs and keys in quotes, empty ones, keys twice) and 6 that are not; fees of less and more than a satoshi at a cap of one; streams of 2 lines and an error |
| `go_strings` | **fails**: see findings | |
| `memory_store` | order and size of the cache, oldest out first, refinement of `TokenStore` | 3 urls, 2 tokens, capacity 2, 5 puts: updates, evictions and removals in every order |

Reservation ids (`MaxId`), the clock (`MaxTime`) and u64 (`MaxU64`) are bounded;
the first two by constants that stand for u64::MAX and for the length of a run.
Hours and days are shrunk to a second or two. Callers and requests are symmetric
where the cfg says so, in runs without liveness. Runs do not check deadlock where
the system stops on its own: all requests ended, ids exhausted, the clock at its
bound.

**Fairness.** Only `client_breach` assumes any: every await of a request that is not
dropped returns, with a result or an error (weak fairness of each request's
steps). The code cannot force this on the network or the wallet, it relies on it;
starting a request and cancelling it are not fair. Nothing is assumed of the
wallet, of late store calls or of what the server answers.

## Findings

1. `budget_clock_race`: `reserve` and `settle` read the clock before the lock
   (`budget.rs:170`, `228`, `237`). Two callers on threads can pass the lock in the
   other order than the clock, and an hour receives more than `hourly_max`
   (`budget.rs:20`, "Maximum fee-inclusive amount per hour"). On one thread the
   limit holds (`budget_windows`).
2. `budget_rolling`: limits are per clock hour; `docs/architecture.md:155` says
   "Rolling hourly cap". Line 156 says "Rolling daily cap", and days are the same.
3. `client_stale_refusal`: a 402 to an old token removes whatever token the url has
   in memory now (`client.rs:280`). Two requests start with the same expired token;
   one is refused, pays, keeps the new token in memory and cannot store it; then
   the other's refusal arrives and removes it. `client.rs:250` says that "A
   successful payment must remain usable if persistent token storage fails." In
   turn, without overlap, the token is kept (`client_in_turn`).
4. `go_strings`: the Go package frees the string of `l402_last_error_message`
   (`bindings/l402-go/l402.go:251`), which `LAST_ERROR` owns; `l402-ffi/src/lib.rs:102`
   says "Do **not** free it with `l402_string_free`." The next call on that thread gives
   it back once more.

Noted while modelling, without a run of their own: `cache.rs:1` calls the cache an
LRU cache, but `get` does not refresh a token and eviction is by last put, as
`cache.rs:11` says (`OldestOut`); with capacity 0 it keeps one token;
`docs/tutorials/budget-control.md:76` describes a domain's budget as replacing the
default, while the code and `docs/design/070-payment-policy.md` apply both;
`max_retries` (`client.rs:67`) is read nowhere. A node that settled but reports no fee
(or, for LND, only whole satoshis) makes the client record less than it paid, by up to
the fee cap; one that reports the amount of an invoice of fractions of a satoshi in
whole satoshis is taken for a breach, and all further payments are refused. A TTL beyond
what i64 can hold makes a token expired from the start. `set_error` and `lastError` are
per OS thread while a goroutine may move between the two.

## Proofs

`BudgetProofs` proves, for every set of callers, every budget, every width of u64
and either scheduling:

- `TypeCorrect` and `ReservationsLive`. The inductive invariant `Safe` adds
  `CallsMatch` to the two: a caller inside `settle` holds the reservation it
  settles, one inside `reserve` holds none. Without it the step of `Settle` could
  not know that what it removes is outstanding.
- `SumsDoNotOverflow` and `TotalCapHolds`. They are proved together and need two
  more facts in the induction (`Totals`): that each ledger's total is the
  saturated sum of its settlements, since the code checks the ledger and the limit
  speaks of the settlements; and that the sums have not overflowed so far, since a
  wrapped sum of reservations would hide them from the check. `ReserveOk` adds to
  the sums what `Admits` found room for (lemma `RoomLeft`); `Settle` and `Release`
  never raise settled plus reserved, unless the settlement breaks its reservation
  and freezes the tracker (lemma `TotalsIfNoSumGrows`).
- `ImplementsSpendingLimit`, the refinement that `budget_threads` checks. Since the sums
  stay within `total_max`, what `ReserveOk` adds is an amount that `SpendingLimit` may set
  aside; a settlement is `Spend` or, beyond its reservation, `Overspend`, and freezes.

`BudgetWindowProofs` goes on from the same invariants to the hours and days:

- `LedgersStayExact`, under either scheduling. A call may take the lock with an older
  clock than the call before it, so the invariant (`WindowsExact`) is about how late the
  settlements are, not about `now`: a bucket is the sum of its settlements as long as
  no settlement is `KeepHours` (`KeepDays`) stretches after it (lemma `ChargedIsExact`).
- `HourlyCapOnOneThread` and `DailyCapOnOneThread`, which assume `~Threaded` as the run
  does: with threads, `budget_clock_race` refutes the first. The invariant (`Capped`)
  says that no settlement is later than a call under way (`SettledBefore`), and that
  what is set aside still fits into the stretch of any time it may settle at
  (`RoomLeftNow`). So the bucket a reservation is checked against is the latest in use,
  and one that is settled in a later hour or day finds that one empty but for what was
  set aside together with it.

`ClientProofs` proves, for every set of requests, urls and invoices, every budget,
and wallets that break their caps included:

- `ClientTypeCorrect`. The induction (`Typed`) adds `CostsFit`, that an invoice's
  amount and its fee cap fit a u64 together, since they were admitted together:
  otherwise what an honest wallet reports might not; and `Equipped`, that a request
  has its payment and its token where it uses them.
- `InvoicesPaidOnce`. The invariant `Claims` follows the holder of a claim: a request
  holds one from `Submit` until it has given it up in `Forget`, and a payment that
  did not fail keeps its claim after its request is gone. Every holder's invoice is
  claimed and no two holders share an invoice, so the one claim that `Forget` removes
  is nobody else's.
- `FramesLive`. The invariant `Live` adds that requests at `pay` and `settle` have
  distinct reservation ids below `next_id`, that a request has no receipt before it
  is told it paid, and that a resolved claim names a receipt of its invoice, which is
  what a request that uses the proof again relies on.
- `PaidTokenKept`, which assumes `~Overlap` as its run does: with overlapping requests a
  stale refusal takes a token (finding 3). Of the store it assumes nothing: tokens are
  evicted and expire, and the calls of dropped futures land late. The invariant `InTurn`
  says what the one request under way knows (`Fits`): what it sends is what the store or
  the client keeps for the url, unless the store has lost that since, and wherever it is
  about to pay, no token is owed. What the store loses is in `lost` and is no longer owed
  (lemma `LossInTurn`), until it is put again.

`ClientMoneyProofs` goes on from these to the money:

- `BreachStopsPayments`. What a step may do follows from what the state says (`Told`): a
  breach that is booked has frozen the budget, and a receipt is of a payment that has
  ended, so that it cannot turn into a breach later.
- `LedgerMatchesReceipts`. Requests may be infinitely many, so the induction also carries
  that only finitely many have called a wallet; each step then adds at most one
  receipt to the sum, and settles that same one.
- `ClientImplementsSpendingLimit`, the refinement of `SpendingLimit`, for wallets that keep
  to amounts and caps (`Honest`, as its run assumes). Three facts carry it. `Held`: a
  payment keeps its reservation until it is booked or has failed for certain, also
  after its request is gone. `BooksBalance`: the sum over the payments of what each is
  booked or held at is receipts plus reservations. `Afforded` and `Covered`: each payment
  took at most what it was allowed, so what left the wallet is at most that sum, which
  stays within the limit since every reservation was admitted.

`MemoryStoreProofs` proves, for any urls, tokens and capacity, 0 included, that the
cache implements `TokenStore` (`CacheImplementsTokenStore`). The invariant `Recorded` is
that the token of every url the cache has is the one of the last put of that url; an
eviction is a token lost at a put. The other theorems rest on the invariant `Kept`
(`CacheKept`): the order lists every url of the cache once and no other, in the order of
their last puts, and it is finite.

- `OrderExact` and `CapacityKept` (for a capacity other than 0, where the cache holds one):
  removing one url of a list without repetitions shortens it by one and keeps the rest
  in order, so the head is what an eviction has to take.
- `EvictsOldest`: the url at the head was put before every other.

The order without a url (`Others`) is defined by the ranks of its entries and not by
`SelectSeq`, a recursion of which the provers know nothing.

`SqliteStoreProofs` proves, for any number of processes and calls, any urls, tokens and
TTLs, and any clock that ends before i64 does (`SqliteAssumption`):

- `SchemaAlwaysInPlace`. The invariant `Migrated` adds to it `Migrating`: a process that
  is past a statement of the migration finds its result in the file, since no statement
  of another process, no crash and no call takes it away.
- `FreshRowsAlwaysKept`. The invariant `Aged` is that each row's `expires_at`, and that of
  each put still queued, is the wrapped sum of the clock and the TTL of its put. Then
  a fresh row is never expired (lemma `FreshIsUnexpired`), so a cleanup leaves it, and only a
  put or remove of its url or a clear that runs takes it.
- `ImplementsTokenStore`. The last token of a url is that of the put whose statement ran
  last, while it is fresh. The invariant `Written` is that every row is the one of the put that
  ran last for its url, and that such a put without a row is of a token that has expired: a
  put replaces what is there, and a cleanup takes only what is too old. So what a get finds is the last token
  (`FoundIsLast`), whatever the order in which late calls run. A tick of the clock is then `Expire`, a queued put whose token has grown too old in the
  meantime is `Remove`, and migrations and crashes are stutters.
- `StoreTypeCorrect`: the file, the connections and the queued calls are typed, wrapped
  expiry times included.

`ExchangeProofs` proves, for any finite set of payers, any adapters, prices, fees, lines
and ratio of units, that every adapter keeps the contract of the port
(`AdaptersKeepContract`). The invariant
`Sound` says that a response that holds a line "succeeded" is of a payment that
settled, one that holds "failed" of a payment that did not and will not, and that nothing
was submitted or answered before the link was opened. `OutcomeFromLines` is what the
adapters add: they say "paid" or "rejected" only when a line did. A node that is wrong
about a payment that has ended is outside of it.

The rest of `ExchangeProofs` is about what the client makes of a challenge and of a
payment. Its inductive invariant `Exchanged` adds to `Sound` the registry's type and, for
each payer (`Good`): that its header is about one challenge of the registry, and what it
read of it is that challenge's (`Asked`); that its payment is of the amount read and
reports, if it settled, fields its kind of node fills (`Made`); and that it was judged
by what was reported (`Judged`).

- `HonestNodeTrusted` and `SettledIsCovered`. Both are about three roundings: of the
  invoice to satoshis, of the fee cap to the node's unit, and of the report. The lemmas
  are that rounding up is monotone and adds less than one satoshi, for any ratio.
- `AmountsDecodedExactly`. The decoder's products and quotients are set against the
  relation BOLT11 states, unit by unit; a pico amount is exact when a remainder is 0.
- `ChallengesRead`, for any headers at all: every one that is a challenge of the grammar is
  read as that challenge. The grammar says that there are commas (`cuts`) with the right
  parts between them; the parser takes the commas before which the quotes are even in
  number. The lemma `CutsAreCommas` is that these are the same: each part closes its quotes,
  and of the commas in which the two differ, there is no first one. A parameter of the
  parser is then a part of the grammar, and the last one of each key is the macaroon or the
  invoice (`KeyRead`). The parser is defined by the places of commas and quotes (`Commas`,
  `Parameter`) and not by a fold.
- `PaidTokenServed` (a token that was paid for is refused only where the node got the
  preimage wrong, or the server its macaroon), `BalanceKept` (what was paid is a finite set, to which a payment of the
  mock adds one challenge's satoshis, once) and `ExchangeTypeCorrect`.

`LedgerProofs` has the lemmas: what adding and removing one entry does to a sum, what a sum
over a larger or a larger-valued set is at least, that each operation keeps a budget state
one, that an admitted amount is a u64. The library's induction over well-founded relations
is used for one concrete relation, `<` on the naturals, where a least or a greatest number
of a set is needed.

The assumptions are those named in `Ledger`, `Budget`, `Client`, `MemoryStore`, `SqliteStore`,
`Bolt11`, `Wallet` and `Exchange` (numbers are naturals, `None` is no number, budgets, prices
and adapters are typed, a template's invoice is that of its challenge, there are finitely
many urls to cache and payers), and that `Budget`'s clock does not step back.

Every invariant and every action property that a run expects to hold is a theorem. Only
model-checked are the two liveness properties of `Client` (`Ends`, `ClaimResolves`), since
the prover has no fairness, and `GoBinding`, whose one property the code violates. The
`RollingHourlyCap`, `ProofKeptAfterStoreFailure` and threaded `HourlyCap` that documents
promise are refuted by runs.

## Not modelled

- The generated gRPC clients (`l402-cln/src/gen`, `l402-lnd/src/gen`: 25,000 lines of
  messages made from the nodes' protobuf files), demos, examples and documentation
  sites: no logic of this repository. They are two thirds of its Rust, so the modules
  stand for a small share of all lines and for most of those that keep state.
- Python and WASM bindings, the AI SDK: conversions around the same client, with no
  protocol state. LangChain's callback counts what it parses from a tool's text.
- `get_balance`, `get_info`, constructors, builders and accessors, which change nothing.
- The `unbounded` payments of NWC and SwissKnife, which the client never calls.
- Handles of the C library and the finalizers of the Go package.
- A restart of the client: payments, receipts and budget are kept in memory only and
  the code makes no promise about them; `SqliteStore` has the restart of what persists.

## Plan

1. Done: `Ledger`, `Budget`, `SpendingLimit`, `Client`, `MemoryStore`, the first
   theorems; `SqliteStore`, the parsers, the adapters, the mock and the Go package.
2. Done: `MemoryStore`, `SqliteStore` and the adapters implement their ports.
3. Done: theorems for every invariant, action property and refinement that a run expects to
   hold.
4. Left: the hazards without a property, which lie outside the state the modules have (a
   restart of the client, handles of the Go package); `L402Token::from_header`.
