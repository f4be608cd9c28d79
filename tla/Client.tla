-------------------------------- MODULE Client --------------------------------
(***************************************************************************)
(* L402Client::request (crates/l402-core/src/client.rs): requests that     *)
(* share one client's budget, payments, receipts and tokens.  A request    *)
(* runs from one await to the next, or from one lock to the next: those    *)
(* are its program counter, and between them others run.  Dropping its     *)
(* future at an await ends it there.                                       *)
(*                                                                         *)
(* The server and the wallet are outside src/l402-core and answer as they  *)
(* like.  A payment handed to the wallet goes on when its request is gone. *)
(* A token is named by the invoice it was paid with.  A store may evict or *)
(* expire a token at any time, and a call of it whose future was dropped   *)
(* may land later.  The clock stands still: module Budget is about the     *)
(* windows.                                                                *)
(***************************************************************************)
EXTENDS Ledger

CONSTANTS
    Requests,       \* calls of request(), each made once
    Urls,
    UrlOf,          \* the url each request is for
    HostOf,         \* the domain each url is charged to, or None
    Invoices,
    Offers,         \* the invoices the server of a url may ask to be paid
    Price,          \* the amount of each invoice
    Saved,          \* a token kept in the store by an earlier client
    MaxFeeSats,     \* L402ClientConfig::max_fee_sats
    FeeLimit,       \* the wallet's supports_fee_limit()
    GlobalBudget,
    DomainBudgets,
    Honest,         \* whether the wallet keeps to the invoice's amount and the fee cap
    Reports,        \* the totals it may report when it does not
    Overlap,        \* whether requests may overlap in time
    Detached        \* whether a store call goes on when its future is dropped

Tokens == Invoices \cup {Saved}

ASSUME ClientAssumption ==
    /\ None \notin Requests \cup Tokens
    /\ Saved \notin Invoices
    /\ UrlOf \in [Requests -> Urls]
    /\ HostOf \in [Urls -> Domains \cup {None}]
    /\ Offers \in [Urls -> SUBSET Invoices]
    /\ Price \in [Invoices -> U64]
    /\ MaxFeeSats \in U64
    /\ GlobalBudget \in BudgetType
    /\ DomainBudgets \in UNION {[D -> BudgetType] : D \in SUBSET Domains}
    /\ Reports \subseteq U64
    /\ {FeeLimit, Honest, Overlap, Detached} \subseteq BOOLEAN

VARIABLES
    pc,             \* per request: the await or the lock it is at, or how it ended
    frame,          \* per request: its token, its Reservation and its receipt index
    budget,         \* the BudgetState
    payments,       \* invoice -> the request that paid it (its receipt), or None
    receipts,       \* payments that settled, by the request that made them
    unpersisted,    \* unpersisted_tokens: url -> token
    store,          \* the TokenStore: url -> token
    late,           \* store calls whose future was dropped and that may still land
    wallet,         \* what the wallet made of each payment handed to it
    refused,        \* history: tokens that a server answered with 402
    lost            \* history: url and token of what left the store by no step of a
                    \* request, and was not paid for or put again

money == <<budget, payments, receipts, wallet>>
tokens == <<unpersisted, store, late, refused, lost>>
vars == <<pc, frame, money, tokens>>

\* The awaits of a request; the locks it takes after one; how it ends.
Awaits == {"get", "auth", "remove", "plain", "pay", "put", "confirm", "retry", "drop"}
Locks == {"start", "settle", "record", "forget", "persist"}
Outcomes == {"served", "failed", "unknown", "violated", "unstored", "cancelled"}

Reservation == [id : 0 .. MaxId, max_fee_sats : U64]
Frame == [token : Tokens \cup {None}, reservation : Reservation \cup {None},
          receipt : Requests \cup {None}]
Receipt == [invoice : Invoices, amount : U64, status : {0, 200, 402}]
Payment == [invoice : Invoices, cap : U64, amount : U64, violation : BOOLEAN,
            status : {"in_flight", "paid", "failed"}]
StoreCall == [op : {"put", "remove"}, url : Urls, token : Tokens]

Init ==
    /\ pc = [r \in Requests |-> "start"]
    /\ frame = [r \in Requests |-> [token |-> None, reservation |-> None, receipt |-> None]]
    /\ budget = NewBudgetState
    /\ payments = [i \in {} |-> None]
    /\ receipts = [r \in {} |-> None]
    /\ unpersisted = [u \in {} |-> None]
    /\ \E kept \in SUBSET Urls : store = [u \in kept |-> Saved]
    /\ late = {}
    /\ wallet = [r \in {} |-> None]
    /\ refused = {}
    /\ lost = {}

At(r, place) == pc[r] = place
Goto(r, place) == pc' = [pc EXCEPT ![r] = place]
Url(r) == UrlOf[r]
Token(r) == frame[r].token
Holds(r, token) == frame' = [frame EXCEPT ![r].token = token]

-----------------------------------------------------------------------------
(* The cached token.                                                       *)

Start(r) ==
    /\ At(r, "start")
    /\ Overlap \/ \A s \in Requests \ {r} : pc[s] \in {"start"} \cup Outcomes
    /\ IF Url(r) \in DOMAIN unpersisted
       THEN Holds(r, unpersisted[Url(r)]) /\ Goto(r, "auth")
       ELSE Goto(r, "get") /\ UNCHANGED frame
    /\ UNCHANGED <<money, tokens>>

StoreGet(r) ==
    /\ At(r, "get")
    /\ IF Url(r) \in DOMAIN store
       THEN Holds(r, store[Url(r)]) /\ Goto(r, "auth")
       ELSE Goto(r, "plain") /\ UNCHANGED frame
    /\ UNCHANGED <<money, tokens>>

AuthServed(r) ==
    /\ At(r, "auth")
    /\ Goto(r, "served")
    /\ UNCHANGED <<frame, money, tokens>>

\* A 402: whatever token is now kept in memory for the url is removed, before
\* the store is asked to remove its own.
AuthRefused(r) ==
    /\ At(r, "auth")
    /\ Goto(r, "remove")
    /\ unpersisted' = Without(unpersisted, Url(r))
    /\ refused' = refused \cup {Token(r)}
    /\ UNCHANGED <<frame, money, store, late, lost>>

StoreRemove(r) ==
    /\ At(r, "remove")
    /\ Goto(r, "plain")
    /\ store' = Without(store, Url(r))
    /\ UNCHANGED <<frame, money, unpersisted, late, refused, lost>>

-----------------------------------------------------------------------------
(* The challenge.  The invoice is claimed, and its amount and fee reserved, *)
(* under the lock of the payments; the wallet is called before any await.  *)

PlainServed(r) ==
    /\ At(r, "plain")
    /\ Goto(r, "served")
    /\ UNCHANGED <<frame, money, tokens>>

Challenged(r, i) == At(r, "plain") /\ i \in Offers[Url(r)]

\* Mutant: the receipt is taken to be the request's own.
ReuseProofAsOwn(r, i) ==
    /\ Challenged(r, i)
    /\ i \in DOMAIN payments
    /\ payments[i] # None
    /\ frame' = [frame EXCEPT ![r].token = i, ![r].receipt = r]
    /\ Goto(r, "persist")
    /\ UNCHANGED <<money, tokens>>

\* The invoice is known to be paid: its proof is used again.
ReuseProof(r, i) ==
    /\ Challenged(r, i)
    /\ i \in DOMAIN payments
    /\ payments[i] # None
    /\ frame' = [frame EXCEPT ![r].token = i, ![r].receipt = payments[i]]
    /\ Goto(r, "persist")
    /\ UNCHANGED <<money, tokens>>

CanPay(r, i) ==
    /\ FeeLimit
    /\ CanReserve(budget, GlobalBudget, DomainBudgets, Price[i], HostOf[Url(r)], 0)

\* PaymentUncertain, FeeLimitUnsupported or BudgetExceeded.
DeclineToPay(r, i) ==
    /\ Challenged(r, i)
    /\ IF i \in DOMAIN payments THEN payments[i] = None ELSE ~CanPay(r, i)
    /\ Goto(r, "failed")
    /\ UNCHANGED <<frame, money, tokens>>

Submit(r, i) ==
    /\ Challenged(r, i)
    /\ i \notin DOMAIN payments
    /\ CanPay(r, i)
    /\ \E fee \in 0 .. MaxFeeSats :
          /\ IsReservedFee(fee, MaxFeeSats, budget, GlobalBudget, DomainBudgets,
                           Price[i], HostOf[Url(r)], 0)
          /\ budget' = Reserved(budget, Price[i], fee, HostOf[Url(r)])
          /\ frame' = [frame EXCEPT
                 ![r].token = i,
                 ![r].reservation = [id |-> budget.next_id, max_fee_sats |-> fee]]
          /\ wallet' = With(wallet, r, [invoice |-> i, cap |-> fee, amount |-> 0,
                                        violation |-> FALSE, status |-> "in_flight"])
    /\ payments' = With(payments, i, None)
    /\ Goto(r, "pay")
    /\ UNCHANGED <<receipts, tokens>>

-----------------------------------------------------------------------------
(* The wallet (external).                                                  *)

InFlight(r) == r \in DOMAIN wallet /\ wallet[r].status = "in_flight"

Answers(r, status, amount, violation) ==
    /\ InFlight(r)
    /\ wallet' = With(wallet, r,
          [invoice |-> wallet[r].invoice, cap |-> wallet[r].cap, amount |-> amount,
           violation |-> violation, status |-> status])
    /\ UNCHANGED <<pc, frame, budget, payments, receipts, tokens>>

WalletPays(r) ==
    /\ InFlight(r)
    /\ \/ \E fee \in 0 .. wallet[r].cap :
             Answers(r, "paid", Price[wallet[r].invoice] + fee, FALSE)
       \/ ~Honest /\ \E amount \in Reports : Answers(r, "paid", amount, TRUE)

WalletFails(r) == Answers(r, "failed", 0, FALSE)

-----------------------------------------------------------------------------
(* What pay_invoice returns.                                               *)

\* The receipt is pushed as soon as the wallet says it paid.
PayOk(r) ==
    /\ At(r, "pay")
    /\ wallet[r].status = "paid"
    /\ receipts' = With(receipts, r,
          [invoice |-> Token(r), amount |-> wallet[r].amount, status |-> 0])
    /\ frame' = [frame EXCEPT ![r].receipt = r]
    /\ Goto(r, "settle")
    /\ UNCHANGED <<budget, payments, wallet, tokens>>

\* PaymentRejected: the wallet confirms that nothing was paid.
PayRejected(r) ==
    /\ At(r, "pay")
    /\ wallet[r].status = "failed"
    /\ budget' = Released(budget, frame[r].reservation.id)
    /\ Goto(r, "forget")
    /\ UNCHANGED <<frame, payments, receipts, wallet, tokens>>

\* Mutants: an unknown outcome taken for a failure, by the claim and by the budget.
PayUnknownForgets(r) ==
    /\ At(r, "pay")
    /\ payments' = Without(payments, Token(r))
    /\ Goto(r, "unknown")
    /\ UNCHANGED <<frame, budget, receipts, wallet, tokens>>

PayUnknownReleases(r) ==
    /\ At(r, "pay")
    /\ budget' = Released(budget, frame[r].reservation.id)
    /\ Goto(r, "unknown")
    /\ UNCHANGED <<frame, payments, receipts, wallet, tokens>>

\* Any other error: the claim and the reservation stay.
PayUnknown(r) ==
    /\ At(r, "pay")
    /\ Goto(r, "unknown")
    /\ UNCHANGED <<frame, money, tokens>>

\* Mutant: the claim of a rejected payment is left.
ForgetNothing(r) ==
    /\ At(r, "forget")
    /\ Goto(r, "failed")
    /\ UNCHANGED <<frame, money, tokens>>

Forget(r) ==
    /\ At(r, "forget")
    /\ payments' = Without(payments, Token(r))
    /\ Goto(r, "failed")
    /\ UNCHANGED <<frame, budget, receipts, wallet, tokens>>

\* Mutant: an error return before the settlement.
SettleIfHonoured(r) ==
    /\ At(r, "settle")
    /\ LET id == frame[r].reservation.id
           paid == wallet[r]
       IN  /\ budget' = IF paid.violation THEN [budget EXCEPT !.frozen = TRUE]
                        ELSE Settled(budget, id, paid.amount, 0, FALSE)
           /\ Goto(r, IF paid.violation THEN "violated" ELSE "record")
    /\ UNCHANGED <<frame, payments, receipts, wallet, tokens>>

\* A payment that broke the amount or the cap is settled, and stays claimed.
SettlePayment(r) ==
    /\ At(r, "settle")
    /\ LET id == frame[r].reservation.id
           paid == wallet[r]
       IN  /\ budget' = Settled(budget, id, paid.amount, 0, paid.violation)
           /\ Goto(r, IF paid.violation \/ paid.amount > budget.pending[id].amount
                      THEN "violated" ELSE "record")
    /\ UNCHANGED <<frame, payments, receipts, wallet, tokens>>

RecordPayment(r) ==
    /\ At(r, "record")
    /\ payments' = With(payments, Token(r), frame[r].receipt)
    /\ Goto(r, "persist")
    /\ UNCHANGED <<frame, budget, receipts, wallet, tokens>>

-----------------------------------------------------------------------------
(* The paid token: kept in memory until the store has it, then sent.       *)

\* Mutant: the store is trusted with the only copy.
PersistInStoreOnly(r) ==
    /\ At(r, "persist")
    /\ Goto(r, "put")
    /\ UNCHANGED <<frame, money, tokens>>

Persist(r) ==
    /\ At(r, "persist")
    /\ unpersisted' = With(unpersisted, Url(r), Token(r))
    /\ lost' = lost \ {<<Url(r), Token(r)>>}
    /\ Goto(r, "put")
    /\ UNCHANGED <<frame, money, store, late, refused>>

StorePut(r) ==
    /\ At(r, "put")
    /\ store' = With(store, Url(r), Token(r))
    /\ lost' = lost \ {<<Url(r), Token(r)>>}
    /\ Goto(r, "confirm")
    /\ UNCHANGED <<frame, money, unpersisted, late, refused>>

\* put returned: the token leaves the memory unless another took its place.
Confirm(r) ==
    /\ At(r, "confirm")
    /\ unpersisted' = IF Url(r) \in DOMAIN unpersisted /\ unpersisted[Url(r)] = Token(r)
                      THEN Without(unpersisted, Url(r)) ELSE unpersisted
    /\ Goto(r, "retry")
    /\ UNCHANGED <<frame, money, store, late, refused, lost>>

\* The receipt, the request's own or another's, gets the status of the response.
WithStatus(map, key, status) == [map EXCEPT ![key].status = status]

RetryServed(r) ==
    /\ At(r, "retry")
    /\ receipts' = WithStatus(receipts, frame[r].receipt, 200)
    /\ Goto(r, "served")
    /\ UNCHANGED <<frame, budget, payments, wallet, tokens>>

\* Mutant: pays again, without counting the retries.
RetryRefusedAgain(r) ==
    /\ At(r, "retry")
    /\ receipts' = WithStatus(receipts, frame[r].receipt, 402)
    /\ unpersisted' = Without(unpersisted, Url(r))
    /\ refused' = refused \cup {Token(r)}
    /\ Goto(r, "plain")
    /\ UNCHANGED <<frame, budget, payments, wallet, store, late, lost>>

RetryRefused(r) ==
    /\ At(r, "retry")
    /\ receipts' = WithStatus(receipts, frame[r].receipt, 402)
    /\ unpersisted' = Without(unpersisted, Url(r))
    /\ refused' = refused \cup {Token(r)}
    /\ Goto(r, "drop")
    /\ UNCHANGED <<frame, budget, payments, wallet, store, late, lost>>

StoreDrop(r) ==
    /\ At(r, "drop")
    /\ store' = Without(store, Url(r))
    /\ Goto(r, "failed")
    /\ UNCHANGED <<frame, money, unpersisted, late, refused, lost>>

-----------------------------------------------------------------------------
(* Errors and cancellation.                                                *)

\* The HTTP call fails, is redirected, or its challenge cannot be used.
HttpFails(r) ==
    /\ pc[r] \in {"auth", "plain", "retry"}
    /\ Goto(r, "failed")
    /\ UNCHANGED <<frame, money, tokens>>

StoreFails(r) ==
    /\ pc[r] \in {"get", "remove", "put", "drop"}
    /\ Goto(r, IF At(r, "put") THEN "unstored" ELSE "failed")
    /\ UNCHANGED <<frame, money, tokens>>

\* The future is dropped.  SqliteTokenStore runs each call on a thread of its
\* own, where it still lands.
Cancel(r) ==
    /\ pc[r] \in Awaits
    /\ Goto(r, "cancelled")
    /\ late' = IF Detached /\ pc[r] \in {"put", "remove", "drop"}
               THEN late \cup {[op |-> IF At(r, "put") THEN "put" ELSE "remove",
                                url |-> Url(r), token |-> Token(r)]}
               ELSE late
    /\ UNCHANGED <<frame, money, unpersisted, store, refused, lost>>

\* The tokens that are in the store before a step and not after it.
Gone ==
    {<<u, store[u]>> : u \in {v \in DOMAIN store : v \in DOMAIN store' => store'[v] # store[v]}}

Land(c) ==
    /\ store' = IF c.op = "put" THEN With(store, c.url, c.token) ELSE Without(store, c.url)
    /\ late' = late \ {c}
    /\ lost' = lost \cup Gone
    /\ UNCHANGED <<pc, frame, money, unpersisted, refused>>

\* The store evicts a token to make room (cache.rs), or lets it expire or cleans
\* it up (store.rs).
StoreLoses(u) ==
    /\ u \in DOMAIN store
    /\ store' = Without(store, u)
    /\ lost' = lost \cup Gone
    /\ UNCHANGED <<pc, frame, money, unpersisted, late, refused>>

-----------------------------------------------------------------------------

Step(r) ==
    \/ StoreGet(r)
    \/ AuthServed(r)
    \/ AuthRefused(r)
    \/ StoreRemove(r)
    \/ PlainServed(r)
    \/ \E i \in Invoices : ReuseProof(r, i) \/ DeclineToPay(r, i) \/ Submit(r, i)
    \/ PayOk(r)
    \/ PayRejected(r)
    \/ PayUnknown(r)
    \/ Forget(r)
    \/ SettlePayment(r)
    \/ RecordPayment(r)
    \/ Persist(r)
    \/ StorePut(r)
    \/ Confirm(r)
    \/ RetryServed(r)
    \/ RetryRefused(r)
    \/ StoreDrop(r)
    \/ HttpFails(r)
    \/ StoreFails(r)

Next ==
    \/ \E r \in Requests :
          Start(r) \/ Step(r) \/ Cancel(r) \/ WalletPays(r) \/ WalletFails(r)
    \/ \E c \in late : Land(c)
    \/ \E u \in Urls : StoreLoses(u)

Spec == Init /\ [][Next]_vars

\* Every await returns, be it with an error: HTTP calls, the store and the
\* wallet are not under the client's control, so this is what it relies on.
FairSpec == Spec /\ \A r \in Requests : WF_vars(Step(r))

-----------------------------------------------------------------------------
(* Properties.                                                             *)

\* The types.
TypeOK ==
    /\ pc \in [Requests -> Awaits \cup Locks \cup Outcomes]
    /\ frame \in [Requests -> Frame]
    /\ IsBudgetState(budget, 0)
    /\ IsMap(payments, Invoices, Requests \cup {None})
    /\ IsMap(receipts, Requests, Receipt)
    /\ IsMap(unpersisted, Urls, Tokens)
    /\ IsMap(store, Urls, Tokens)
    /\ late \subseteq StoreCall
    /\ IsMap(wallet, Requests, Payment)
    /\ refused \subseteq Tokens
    /\ lost \subseteq Urls \X Tokens

\* docs/design/070-payment-policy.md:47, "The same normalized invoice is never
\* submitted again while its outcome is unresolved", nor once it is paid: of the
\* payments of one invoice all but one failed for certain.
PaidOnce ==
    \A r, s \in DOMAIN wallet :
       r # s /\ wallet[r].invoice = wallet[s].invoice =>
          "failed" \in {wallet[r].status, wallet[s].status}

\* The expect("live reservation") of a release or a settlement and the index
\* receipts[receipt_index] of a retry cannot panic, and the index is the receipt
\* of the invoice whose token is sent, whoever paid it.
FrameIsLive ==
    \A r \in Requests :
       /\ pc[r] \in {"pay", "settle"} => frame[r].reservation.id \in DOMAIN budget.pending
       /\ pc[r] \in {"persist", "put", "confirm", "retry"} =>
             /\ frame[r].receipt \in DOMAIN receipts
             /\ receipts[frame[r].receipt].invoice = Token(r)

\* Every satoshi that receipts() shows is in the ledger and every one in the
\* ledger has a receipt, except while a receipt waits for the budget's lock.
ReceiptsMatchLedger ==
    budget.global.total = Saturated(Sum(receipts, {r \in DOMAIN receipts : ~At(r, "settle")}))

\* Once a wallet's breach of what it was allowed has been settled, no payment is
\* submitted any more, of this invoice or another.
NoPaymentAfterBreach ==
    [][(\E r \in DOMAIN receipts : wallet[r].violation /\ ~At(r, "settle"))
       => DOMAIN wallet' = DOMAIN wallet]_vars

\* What left the wallet, whether the client heard of it or not, and what it may
\* still take stay within total_max, when the wallet keeps to amounts and caps.
Outflow == Sum(wallet, {r \in DOMAIN wallet : wallet[r].status = "paid"})

Limited == INSTANCE SpendingLimit WITH
    Cap <- IF GlobalBudget.total_max = None THEN MaxU64 ELSE GlobalBudget.total_max,
    spent <- Outflow,
    aside <- TotalSpent(budget) - Outflow,
    open <- ~budget.frozen

OutflowWithinLimit == Limited!Spec

\* The token a request for a url would start with.
Kept(u) ==
    IF u \in DOMAIN unpersisted THEN unpersisted[u]
    ELSE IF u \in DOMAIN store THEN store[u] ELSE None

\* A token that was paid for is the one the next request for its url sends,
\* until a server refuses it: whether the put failed, the retry failed or the
\* future was dropped.  The client does not lose it; the store may, by eviction
\* or expiry or by a dropped call that lands late, and then it is in lost.
TokenKept ==
    \A i \in DOMAIN payments :
       payments[i] # None =>
          LET payer == payments[i] IN
             ~At(payer, "persist") /\ i \notin refused /\ <<Url(payer), i>> \notin lost
             => Kept(Url(payer)) = i

\* docs/design/070-payment-policy.md:65, "Keep the settled result and token in
\* memory so retrying after a token-storage failure first reuses the paid proof";
\* asked of a store that has lost no token of the url.
ProofKeptAfterStoreFailure ==
    \A r \in Requests :
       /\ At(r, "unstored") /\ Token(r) \notin refused
       /\ \A token \in Tokens : <<Url(r), token>> \notin lost
       => Kept(Url(r)) # None

\* A request ends, whatever the server, the store and the wallet answer: there
\* is no unbounded retry.
Ends == \A r \in Requests : pc[r] \in Awaits ~> pc[r] \in Outcomes

\* A claim on an invoice is given up or becomes a settlement, unless a request
\* that claimed it ended without learning the outcome or with a breach.
ClaimResolves ==
    \A i \in Invoices :
       i \in DOMAIN payments /\ payments[i] = None ~>
          \/ i \notin DOMAIN payments
          \/ payments[i] # None
          \/ \E r \in Requests :
                Token(r) = i /\ pc[r] \in {"unknown", "violated", "cancelled"}
===============================================================================
