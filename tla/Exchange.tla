------------------------------- MODULE Exchange -------------------------------
(***************************************************************************)
(* One L402 exchange per payer: a server's challenge header, the invoice's *)
(* amount, the payment by one of the wallets, the settlement's check and   *)
(* the token header the server validates.  It composes the parsers         *)
(* (Headers, Bolt11), the adapters (Wallet) and the mock server and wallet *)
(* (crates/l402-mock), along L402Client::request.  Module Client has the   *)
(* flow's locks, store and budget; here a payment is always affordable.    *)
(*                                                                         *)
(* Challenge n has macaroon n and preimage n; 0 is any other.              *)
(***************************************************************************)
EXTENDS Wallet, Headers

CONSTANTS
    ServersOf,      \* per payer: "mock", "other" or both
    Invoices,       \* invoices a server other than the mock may send
    Templates,      \* its headers, with 1 for the number of its challenge
    Prices,         \* EndpointConfig::price_sats
    MaxFeeSats,     \* L402ClientConfig::max_fee_sats
    InitialBalance  \* of the mock wallet

ASSUME ExchangeAssumption ==
    /\ \A invoice \in Invoices : IsInvoice(invoice)
    /\ Templates \subseteq [scheme : STRING, text : Seq([kind : STRING, id : {0, 1}])]
    /\ \A template \in Templates : \A k \in 1 .. Len(template.text) :
          template.text[k].kind = "inv" => template.text[k].id = 1
    /\ ServersOf \in [Payers -> SUBSET {"mock", "other"}]
    /\ Prices \subseteq Nat
    /\ {MaxFeeSats, InitialBalance} \subseteq 0 .. MaxU64

VARIABLES
    request,    \* per payer: how far its request is, and what it has read
    registry,   \* the challenges issued, in order; SharedState::challenges has the mock's
    balance     \* MockLnBackend::balance

vars == <<payment, request, registry, balance>>

Init ==
    /\ payment = [p \in Payers |-> NoPayment]
    /\ request = [p \in Payers |-> [step |-> "start"]]
    /\ registry = <<>>
    /\ balance = InitialBalance

At(p, step) == request[p].step = step
Goto(p, step) == request' = [request EXCEPT ![p].step = step]

-----------------------------------------------------------------------------
(* The server's challenge.                                                 *)

\* PendingChallenge::generate: whole micros of bitcoin, or nanos.
MockInvoice(sats) ==
    LET perMicro == Factor("micro") \div Thousand
    IN  IF sats >= perMicro /\ sats % perMicro = 0
        THEN [network |-> "lnbc", separator |-> TRUE, number |-> sats \div perMicro, unit |-> "micro"]
        ELSE [network |-> "lnbc", separator |-> TRUE, number |-> sats * 10, unit |-> "nano"]

Quoted(kind, id) == <<Quote, Symbol(kind, id), Quote>>
Macaroon(n) == <<Text("macaroon"), Equals>> \o Quoted("mac", n)
Invoice(n) == <<Text("invoice"), Equals>> \o Quoted("inv", n)

\* PendingChallenge::to_www_authenticate, and what other servers may send.
MockHeader(n) == [scheme |-> "L402", text |-> Macaroon(n) \o <<Comma>> \o Invoice(n)]
HeaderOf(template, n) ==
    [scheme |-> template.scheme,
     text |-> [k \in 1 .. Len(template.text) |->
                  Symbol(template.text[k].kind, n * template.text[k].id)]]

Issue(p, challenge, header) ==
    /\ At(p, "start")
    /\ registry' = Append(registry, challenge)
    /\ request' = [request EXCEPT ![p] = [step |-> "challenged", header |-> header]]
    /\ UNCHANGED <<payment, balance>>

\* handle_request of the mock server, for a request without a token.
MockChallenges(p) ==
    /\ "mock" \in ServersOf[p]
    /\ \E sats \in Prices :
        Issue(p, [mock |-> TRUE, invoice |-> MockInvoice(sats), sats |-> sats],
              MockHeader(Len(registry) + 1))

ServerChallenges(p) ==
    /\ "other" \in ServersOf[p]
    /\ \E invoice \in Invoices, template \in Templates :
        Issue(p, [mock |-> FALSE, invoice |-> invoice, sats |-> 0],
              HeaderOf(template, Len(registry) + 1))

-----------------------------------------------------------------------------
(* The client.                                                             *)

\* extract_challenge and decode_bolt11_amount: an invoice without an amount is
\* refused, and so is a header from_header cannot read, where an invoice's
\* prefix is not yet lowercased.
Readable(read) ==
    /\ read # NotAHeader
    /\ registry[read.invoice].invoice.network \in {"lnbc", "lntb"}
    /\ DecodeAmount(registry[read.invoice].invoice) \notin {None, Invalid}

ReadChallenge(p) ==
    /\ At(p, "challenged")
    /\ LET read == FromHeader(request[p].header) IN
       \/ /\ ~Readable(read)
          /\ request' = [request EXCEPT ![p] = [step |-> "refused"]]
       \/ /\ Readable(read)
          /\ request' = [request EXCEPT ![p] =
                [step |-> "pay", macaroon |-> read.macaroon, invoice |-> read.invoice,
                 sats |-> Satoshis(DecodeAmount(registry[read.invoice].invoice))]]
    /\ UNCHANGED <<payment, registry, balance>>

\* The payment the node will make is of the invoice's own amount.  A sum that
\* u64 cannot hold cannot be reserved.
Pay(p) ==
    /\ At(p, "pay")
    /\ \E adapter \in AdaptersOf[p] :
       \/ /\ ~SupportsFeeLimit(adapter) \/ request[p].sats + MaxFeeSats > MaxU64
          /\ request' = [request EXCEPT ![p] = [step |-> "refused"]]
          /\ UNCHANGED payment
       \/ /\ SupportsFeeLimit(adapter) /\ request[p].sats + MaxFeeSats <= MaxU64
          /\ payment' = [payment EXCEPT ![p] =
                NewPayment(adapter, Pico(registry[request[p].invoice].invoice) \div 10, MaxFeeSats)]
          /\ Goto(p, "paying")
    /\ UNCHANGED <<registry, balance>>

\* Mutants: the balance is not checked; what is paid is taken off it before
\* the check.
MockPaysOverdrawn(p) ==
    /\ Is(p, {"mock"})
    /\ payment[p].link = "none"
    /\ LET challenge == registry[request[p].invoice] IN
       /\ balance' = balance - challenge.sats
       /\ Become(p, [fate |-> "succeeded", lines |-> <<"succeeded">>, link |-> "closed",
                     msat |-> challenge.sats * Thousand,
                     report |-> [proof |-> "valid", amount |-> "msat", fee |-> "msat"]])
    /\ UNCHANGED <<request, registry>>

MockPaysThenChecks(p) ==
    /\ Is(p, {"mock"})
    /\ payment[p].link = "none"
    /\ LET challenge == registry[request[p].invoice] IN
       /\ balance' = Less(balance, challenge.sats)
       /\ IF challenge.mock /\ balance >= challenge.sats
          THEN Become(p, [fate |-> "succeeded", lines |-> <<"succeeded">>, link |-> "closed",
                          msat |-> challenge.sats * Thousand,
                          report |-> [proof |-> "valid", amount |-> "msat", fee |-> "msat"]])
          ELSE Become(p, [lines |-> <<"failed">>, link |-> "closed"])
    /\ UNCHANGED <<request, registry>>

\* MockLnBackend::pay_invoice: the locks are held to the end.
MockPays(p) ==
    /\ Is(p, {"mock"})
    /\ payment[p].link = "none"
    /\ LET challenge == registry[request[p].invoice] IN
       \/ /\ challenge.mock /\ balance >= challenge.sats
          /\ balance' = balance - challenge.sats
          /\ Become(p, [fate |-> "succeeded", lines |-> <<"succeeded">>, link |-> "closed",
                        msat |-> challenge.sats * Thousand,
                        report |-> [proof |-> "valid", amount |-> "msat", fee |-> "msat"]])
       \/ /\ ~challenge.mock \/ balance < challenge.sats
          /\ Become(p, [lines |-> <<"failed">>, link |-> "closed"])
          /\ UNCHANGED balance
    /\ UNCHANGED <<request, registry>>

WalletStep(p) == WalletNext(p) /\ UNCHANGED <<request, registry, balance>>

\* pay_challenge, once the adapter has answered.
Violates(p) ==
    \/ AmountSats(payment[p]) # request[p].sats
    \/ FeeSats(payment[p]) > payment[p].cap
    \/ AmountSats(payment[p]) + FeeSats(payment[p]) > MaxU64

Settle(p) ==
    /\ At(p, "paying")
    /\ payment[p].outcome # "none"
    /\ Goto(p, CASE payment[p].outcome # "paid" -> "unpaid"
                 [] payment[p].outcome = "paid" /\ Violates(p) -> "breach"
                 [] payment[p].outcome = "paid" /\ ~Violates(p) -> "paid")
    /\ UNCHANGED <<payment, registry, balance>>

\* validate_l402_auth of the mock server; another server is taken to do as much.
Validates(header) ==
    LET macaroon == Before(header.text, Colon)
        preimage == After(header.text, Colon)
    IN  /\ KnownScheme(header) /\ Places(header.text, Colon) # {}
        /\ \E n \in 1 .. Len(registry) :
              macaroon = <<Symbol("mac", n)>> /\ preimage = <<Symbol("pre", n)>>

SendToken(p) ==
    /\ At(p, "paid")
    /\ LET preimage == IF payment[p].report.proof = "valid" THEN request[p].invoice ELSE 0
       IN  Goto(p, IF Validates(ToHeader(request[p].macaroon, preimage))
                   THEN "served" ELSE "unauthorized")
    /\ UNCHANGED <<payment, registry, balance>>

Next == \E p \in Payers :
    \/ MockChallenges(p) \/ ServerChallenges(p) \/ ReadChallenge(p)
    \/ Pay(p) \/ MockPays(p) \/ WalletStep(p) \/ Settle(p) \/ SendToken(p)

Spec == Init /\ [][Next]_vars

-----------------------------------------------------------------------------
(* Properties.                                                             *)

\* The types; there is a payment from the step that makes it on, with the
\* amount its invoice asks for.
TypeOK ==
    /\ balance \in 0 .. InitialBalance
    /\ \A n \in 1 .. Len(registry) : IsInvoice(registry[n].invoice)
    /\ \A p \in Payers :
          /\ At(p, "start") \/ At(p, "challenged") \/ At(p, "refused")
             \/ request[p].invoice \in 1 .. Len(registry)
          /\ (payment[p] = NoPayment) <=> (\A step \in {"paying", "unpaid", "breach", "paid", "served",
                                                  "unauthorized"} : ~At(p, step))

\* bolt11.rs:93-103: of a number that u64 holds, what is decoded is what BOLT11
\* says, to the msat, and it is refused only when that is not a number of msat
\* above 0 that u64 holds.  A greater number is refused, whatever its unit.
DecodeExact ==
    \A n \in 1 .. Len(registry) :
        LET invoice == registry[n].invoice
            msat == DecodeAmount(invoice)
        IN  WellFormed(invoice) /\ invoice.number <= MaxU64 =>
               IF Pico(invoice) % 10 = 0 /\ Pico(invoice) \div 10 \in 1 .. MaxU64
               THEN 10 * msat = Pico(invoice)
               ELSE msat = Invalid

\* The grammar of a challenge, said without the parser: parameters between
\* commas, one of them the macaroon and one the invoice, the others a key and
\* a value in which commas are quoted and quotes are closed; one may be empty.
IsParameter(part) ==
    /\ Len(part) > 1 /\ part[2] = Equals
    /\ part[1] \notin {Text("macaroon"), Text("invoice"), Quote, Comma, Equals}
    /\ \A k \in Places(part, Comma) : InQuotes(part, k)
    /\ ~InQuotes(part, Len(part) + 1)

Between(text, cuts, end) ==
    SubSeq(text, Max({0} \cup {k \in cuts : k < end}) + 1, end - 1)

IsChallenge(header, n) ==
    /\ KnownScheme(header)
    /\ \E cuts \in SUBSET Places(header.text, Comma) :
        LET parts == {Between(header.text, cuts, end) : end \in cuts \cup {Len(header.text) + 1}}
        IN  /\ {Macaroon(n), Invoice(n)} \subseteq parts
            /\ \A part \in parts : part \in {<<>>, Macaroon(n), Invoice(n)} \/ IsParameter(part)

\* A header that is a challenge by that grammar is read as the macaroon and
\* the invoice in it: whatever the order and the number of its parameters,
\* and whatever text the others hold, commas, equals signs and keys included.
ChallengeRead ==
    \A p \in Payers : At(p, "challenged") =>
        \A n \in 1 .. Len(registry) :
            IsChallenge(request[p].header, n)
            => FromHeader(request[p].header) = [macaroon |-> n, invoice |-> n]

Kept(p) == payment[p].fee <= CapMsat(payment[p].adapter, payment[p].cap)
Complete(p) == payment[p].report.amount = "msat" /\ payment[p].report.fee = "msat"

\* A node that keeps to the invoice's amount and to the fee limit it was given,
\* and says in msat what it paid, is never taken for one that broke them,
\* which would disable every further payment: the roundings of the invoice,
\* of the limit and of the report agree.
HonestIsNoBreach ==
    \A p \in Payers : At(p, "breach") => payment[p].adapter # "mock" /\ ~(Kept(p) /\ Complete(p))

\* port.rs:55, "Amounts and fees in successful results must round up": what is
\* settled as compliant covers what left the wallet, whatever fields of the
\* amount are missing, if the fee was reported in msat.
SettledCoversOutflow ==
    \A p \in Payers :
        /\ At(p, "paid") \/ At(p, "served")
        /\ payment[p].report.fee = "msat"
        => (AmountSats(payment[p]) + FeeSats(payment[p])) * Thousand
           >= payment[p].msat + payment[p].fee

\* A token that was paid for is accepted by the server that asked for it,
\* unless the node got the preimage wrong or the server the macaroon.
PaidIsServed ==
    \A p \in Payers : At(p, "unauthorized") =>
        payment[p].report.proof = "wrong" \/ request[p].macaroon = 0

\* The mock wallet's balance goes down by what was paid for, once for each.
MockSats(p) == IF Is(p, {"mock"}) /\ payment[p].fate = "succeeded"
               THEN registry[request[p].invoice].sats ELSE 0
MockSpent == UNION {{p} \X (1 .. MockSats(p)) : p \in Payers}
BalanceExact == balance + Cardinality(MockSpent) = InitialBalance

\* Every adapter keeps the contract of the port (port.rs:69-72).
Port == INSTANCE PaymentPort WITH
    fate <- [p \in Payers |-> payment[p].fate],
    outcome <- [p \in Payers |-> payment[p].outcome]

ContractKept == Port!Spec
===============================================================================
