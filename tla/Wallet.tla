-------------------------------- MODULE Wallet --------------------------------
(***************************************************************************)
(* The wallet adapters' pay_invoice (crates l402-lnd, l402-cln, l402-nwc   *)
(* and l402-swissknife) and the node each of them talks to.                *)
(*                                                                         *)
(* The node is not in the repository: it pays or gives up in its own time, *)
(* says so in the lines of a response, and the connection may end at any   *)
(* moment.  An adapter reads the response when it has ended and says what  *)
(* became of the payment.  What the node reports of a payment that settled *)
(* may lack a field, or hold satoshis rounded down in place of msat.       *)
(***************************************************************************)
EXTENDS Bolt11, Sequences, FiniteSets, FiniteSetsExt

CONSTANTS
    Payers,
    AdaptersOf,     \* per payer: the adapters it may pay with
    Fees,           \* routing fees in msat that a node may charge
    MaxLines,       \* bound on the lines of a response
    MaxI64          \* i64::MAX

Streaming == {"lnd_rest"}
Rest == {"lnd_rest", "cln_rest"}
Nodes == Rest \cup {"lnd_grpc", "cln_grpc"}
Adapters == Nodes \cup {"mock", "nwc", "swissknife"}

ASSUME WalletAssumption ==
    /\ IsFiniteSet(Payers)
    /\ AdaptersOf \in [Payers -> SUBSET Adapters]
    /\ Fees \subseteq Nat
    /\ MaxLines \in Nat
    /\ MaxI64 \in Nat

VARIABLE payment    \* per payer: its payment, or NoPayment before there is one

\* A preimage may be of another hash than the invoice's: one the node reports
\* with it ("wrong"), or not even that ("mismatch").
Report == [proof : {"valid", "wrong", "mismatch", "none"},
           amount : {"msat", "sat", "none"}, fee : {"msat", "sat", "none"}]

\* msat and fee are what the payment costs, lines and link the response so
\* far, report what the node says of a payment that settled.
NewPayment(adapter, msat, cap) ==
    [adapter |-> adapter, msat |-> msat, cap |-> cap, fate |-> "none", fee |-> 0,
     report |-> None, lines |-> <<>>, link |-> "none", outcome |-> "none"]

NoPayment == [adapter |-> "none", fate |-> "none", outcome |-> "none"]

Is(p, adapters) == payment[p].adapter \in adapters
Become(p, change) ==
    payment' = [payment EXCEPT ![p] = [f \in DOMAIN @ |->
                   IF f \in DOMAIN change THEN change[f] ELSE @[f]]]

-----------------------------------------------------------------------------
(* Submitting.                                                             *)

\* The fee limit that reaches the node, in msat.
CapMsat(adapter, cap) ==
    CASE adapter = "lnd_rest" -> cap * Thousand
      [] adapter = "lnd_grpc" -> Min({cap, MaxI64}) * Thousand
      [] adapter \in {"cln_rest", "cln_grpc"} -> Min({cap * Thousand, MaxU64})

\* The request may not reach the node: then the link is broken from the start.
Submit(p) ==
    /\ Is(p, Nodes)
    /\ payment[p].link = "none"
    /\ \/ Become(p, [fate |-> "in_flight", link |-> "open"])
       \/ Become(p, [link |-> "broken"])

\* LnBackend::supports_fee_limit: NwcBackend and SwissKnifeBackend do not, and
\* their pay_invoice submits nothing.
SupportsFeeLimit(adapter) == adapter \notin {"nwc", "swissknife"}

-----------------------------------------------------------------------------
(* The node.                                                               *)

Fields(adapter) ==
    CASE adapter = "lnd_rest" -> Report
      [] adapter = "cln_rest" ->
            {r \in Report : r.proof # "mismatch" /\ {r.amount, r.fee} \cap {"sat"} = {}}
      [] OTHER ->
            {r \in Report : r.proof \in {"valid", "wrong"} /\ {r.amount, r.fee} \cap {"sat"} = {}}

NodeSettles(p) ==
    /\ Is(p, Nodes)
    /\ payment[p].fate = "in_flight"
    /\ \E fee \in Fees, report \in Fields(payment[p].adapter) :
          Become(p, [fate |-> "succeeded", fee |-> fee, report |-> report])

NodeGivesUp(p) ==
    /\ Is(p, Nodes)
    /\ payment[p].fate = "in_flight"
    /\ Become(p, [fate |-> "failed"])

\* lnd_rest streams updates; the others answer once, cln_rest perhaps before
\* the payment has ended.  An in-flight update may have been overtaken.
NodeWrites(p) ==
    /\ Is(p, Nodes)
    /\ payment[p].link = "open"
    /\ Len(payment[p].lines) < (IF Is(p, Streaming) THEN MaxLines ELSE 1)
    /\ \A k \in 1 .. Len(payment[p].lines) : payment[p].lines[k] = "in_flight"
    /\ \E line \in {"in_flight", payment[p].fate} :
          /\ line = "in_flight" => Is(p, Rest)
          /\ Become(p, [lines |-> Append(payment[p].lines, line)])

\* The response ends: as it should, with an error in a last line of its own,
\* within its last line, or with a failure of the connection or of the call.
LinkEnds(p) ==
    /\ Is(p, Nodes)
    /\ payment[p].link = "open"
    /\ LET lines == payment[p].lines IN
       \/ Become(p, [link |-> "closed"])
       \/ Become(p, [link |-> "broken"])
       \/ /\ Is(p, Rest)
          /\ Become(p, [link |-> "closed", lines |-> Append(lines, "error")])
       \/ /\ Is(p, Rest) /\ lines # <<>>
          /\ Become(p, [link |-> "closed", lines |-> [lines EXCEPT ![Len(lines)] = "cut"]])

-----------------------------------------------------------------------------
(* What the adapters make of the response.                                 *)

\* The lines read from the last one back, to the latest success if there is one.
Scanned(lines) ==
    LET wins == {k \in 1 .. Len(lines) : lines[k] = "succeeded"}
    IN  IF wins = {} THEN 1 .. Len(lines) ELSE Max(wins) .. Len(lines)

\* Mutant: a stream that ended without success is taken for a failure.
LndRestHasty(lines, proof) ==
    IF lines = <<>> \/ \E k \in Scanned(lines) : lines[k] = "cut" THEN "unknown"
    ELSE IF \E k \in Scanned(lines) : lines[k] = "succeeded"
         THEN IF proof \in {"valid", "wrong"} THEN "paid" ELSE "unknown"
    ELSE "rejected"

LndRest(lines, proof) ==
    IF lines = <<>> \/ \E k \in Scanned(lines) : lines[k] = "cut" THEN "unknown"
    ELSE IF \E k \in Scanned(lines) : lines[k] = "succeeded"
         THEN IF proof \in {"valid", "wrong"} THEN "paid" ELSE "unknown"
    ELSE IF lines[Len(lines)] = "failed" THEN "rejected" ELSE "unknown"

\* The first message; the preimage is not checked.  The mock wallet's answer
\* is read the same way.
LndGrpc(lines) ==
    IF lines = <<>> THEN "unknown"
    ELSE CASE lines[1] = "succeeded" -> "paid"
           [] lines[1] = "failed" -> "rejected"
           [] OTHER -> "unknown"

\* One JSON object, so a second line is an error.
ClnRest(lines, proof) ==
    IF Len(lines) # 1 THEN "unknown"
    ELSE CASE lines[1] = "succeeded" -> IF proof = "none" THEN "unknown" ELSE "paid"
           [] lines[1] = "failed" -> "rejected"
           [] OTHER -> "unknown"

\* xpay answers with a preimage or an error, whatever the reason.
ClnGrpc(lines) == IF lines # <<>> /\ lines[1] = "succeeded" THEN "paid" ELSE "unknown"

\* A link that breaks takes the response with it, but not a message of the
\* stream that was read before.
Outcome(pay) ==
    LET proof == IF pay.report = None THEN "none" ELSE pay.report.proof
        heard == IF pay.link = "broken" /\ pay.adapter # "lnd_grpc" THEN <<>> ELSE pay.lines
    IN  CASE pay.adapter \in {"lnd_grpc", "mock"} -> LndGrpc(heard)
          [] pay.adapter = "lnd_rest" -> LndRest(heard, proof)
          [] pay.adapter = "cln_rest" -> ClnRest(heard, proof)
          [] pay.adapter = "cln_grpc" -> ClnGrpc(heard)

\* lnd_grpc does not wait for the end of the stream.
Read(p) ==
    /\ Is(p, Adapters)
    /\ \/ payment[p].link \in {"closed", "broken"}
       \/ Is(p, {"lnd_grpc"}) /\ payment[p].lines # <<>>
    /\ payment[p].outcome = "none"
    /\ Become(p, [outcome |-> Outcome(payment[p])])

WalletNext(p) ==
    \/ Submit(p) \/ Read(p)
    \/ NodeSettles(p) \/ NodeGivesUp(p) \/ NodeWrites(p) \/ LinkEnds(p)

-----------------------------------------------------------------------------
(* PaymentResult, in satoshis.                                             *)

\* PaymentUpdate::amount_sats and fee_sats: the node rounds satoshis down.
LndSats(form, msat) ==
    CASE form = "msat" -> Satoshis(msat)
      [] form = "sat" -> msat \div Thousand
      [] form = "none" -> 0

ClnMsat(form, msat) == IF form = "none" THEN 0 ELSE msat

\* u64::saturating_sub.
Less(a, b) == IF a < b THEN 0 ELSE a - b

AmountSats(pay) ==
    IF pay.adapter \in {"lnd_rest", "lnd_grpc"}
    THEN LndSats(pay.report.amount, pay.msat)
    ELSE Satoshis(ClnMsat(pay.report.amount, pay.msat))

\* Mutant: the fee is all that was sent.
FeeSatsOfTotal(pay) ==
    IF pay.adapter \in {"lnd_rest", "lnd_grpc"}
    THEN LndSats(pay.report.fee, pay.fee)
    ELSE Satoshis(ClnMsat(pay.report.fee, pay.msat + pay.fee))

\* For CLN the fee is what was sent beyond the amount.
FeeSats(pay) ==
    IF pay.adapter \in {"lnd_rest", "lnd_grpc"}
    THEN LndSats(pay.report.fee, pay.fee)
    ELSE Satoshis(Less(ClnMsat(pay.report.fee, pay.msat + pay.fee),
                       ClnMsat(pay.report.amount, pay.msat)))
===============================================================================
