---------------------------- MODULE ExchangeProofs ----------------------------
(***************************************************************************)
(* Every wallet adapter implements PaymentPort, whatever the node does and *)
(* wherever the connection ends; and what the exchange around them makes   *)
(* of a challenge and of a settled payment is right: a well-formed header  *)
(* is read, an amount decodes to what BOLT11 asks for, an honest node is   *)
(* trusted, a settled payment is covered by its receipt, a paid token is   *)
(* served and the mock wallet's balance is kept.  For any payers, adapters,*)
(* prices, fees, number of lines and ratio of units.                       *)
(***************************************************************************)
EXTENDS Exchange, FiniteSetTheorems, SequenceTheorems, TLAPS

-----------------------------------------------------------------------------
(* What a response says of a payment is true of it.  A line that claims an *)
(* end was written after it, and an adapter answers only once the link was *)
(* opened, so that nothing is submitted after its answer.                  *)

FieldNames == {"adapter", "msat", "cap", "fate", "fee", "report", "lines", "link", "outcome"}

Line == {"none", "in_flight", "succeeded", "failed", "error", "cut"}

\* Whether the lines hold one that says so.
Says(lines, line) == \E k \in 1 .. Len(lines) : lines[k] = line

Truthful(pay) ==
    /\ DOMAIN pay = FieldNames
    /\ pay.adapter \in Nodes \cup {"mock"}
    /\ pay.lines \in Seq(Line)
    /\ pay.fate \in {"none", "in_flight", "succeeded", "failed"}
    /\ Says(pay.lines, "succeeded") => pay.fate = "succeeded"
    /\ Says(pay.lines, "failed") => pay.fate \in {"none", "failed"}
    /\ pay.link = "none" => pay.lines = <<>> /\ pay.fate = "none" /\ pay.outcome = "none"

\* A payment is made once: there is none before its step.
Unpaid(p) == request[p].step \in {"start", "challenged", "pay"}

Sound ==
    /\ payment = [p \in Payers |-> payment[p]]
    /\ request = [p \in Payers |-> request[p]]
    /\ \A p \in Payers :
          /\ "step" \in DOMAIN request[p]
          /\ Unpaid(p) => payment[p] = NoPayment
          /\ payment[p] = NoPayment \/ Truthful(payment[p])

-----------------------------------------------------------------------------
(* The adapters.                                                           *)

\* "paid" is said only when a line says succeeded, "rejected" only when one
\* says failed.
LEMMA OutcomeFromLines ==
    ASSUME NEW pay, Truthful(pay)
    PROVE  /\ Outcome(pay) \in {"paid", "rejected", "unknown"}
           /\ Outcome(pay) = "paid" => Says(pay.lines, "succeeded")
           /\ Outcome(pay) = "rejected" => Says(pay.lines, "failed")
<1> DEFINE proof == IF pay.report = None THEN "none" ELSE pay.report.proof
           heard == IF pay.link = "broken" /\ pay.adapter # "lnd_grpc" THEN <<>> ELSE pay.lines
<1>1. heard \in Seq(Line)
  <2>1. CASE heard = <<>>
    <3>1. <<>> \in Seq(Line)
      OBVIOUS
    <3> QED
      BY <2>1, <3>1
  <2>2. CASE heard = pay.lines
    BY <2>2 DEF Truthful
  <2> QED
    BY <2>1, <2>2
<1>2. \A line : Says(heard, line) => Says(pay.lines, line)
  <2>1. CASE heard = <<>>
    <3>1. 1 .. Len(heard) = {}
      BY <2>1
    <3> QED
      BY <3>1 DEF Says
  <2>2. CASE heard = pay.lines
    BY <2>2
  <2> QED
    BY <2>1, <2>2
<1> HIDE DEF heard
<1>3. heard # <<>> => 1 \in 1 .. Len(heard) /\ Len(heard) \in 1 .. Len(heard)
  BY <1>1
<1>4. \A k \in 1 .. Len(heard) : Says(heard, heard[k])
  BY DEF Says
<1>5. CASE pay.adapter \in {"lnd_grpc", "mock"}
  <2>1. Outcome(pay) = LndGrpc(heard)
    BY <1>5 DEF Outcome, heard
  <2> QED
    BY <1>2, <1>3, <1>4, <2>1 DEF LndGrpc
<1>6. CASE pay.adapter = "lnd_rest"
  <2>1. Outcome(pay) = LndRest(heard, proof)
    BY <1>6 DEF Outcome, heard
  <2>2. (\E k \in Scanned(heard) : heard[k] = "succeeded") => Says(heard, "succeeded")
    BY DEF Scanned, Says
  <2> QED
    BY <1>2, <1>3, <1>4, <2>1, <2>2 DEF LndRest
<1>7. CASE pay.adapter = "cln_rest"
  <2>1. Outcome(pay) = ClnRest(heard, proof)
    BY <1>7 DEF Outcome, heard
  <2> QED
    BY <1>1, <1>2, <1>4, <2>1 DEF ClnRest
<1>8. CASE pay.adapter = "cln_grpc"
  <2>1. Outcome(pay) = ClnGrpc(heard)
    BY <1>8 DEF Outcome, heard
  <2> QED
    BY <1>2, <1>3, <1>4, <2>1 DEF ClnGrpc
<1> QED
  BY <1>5, <1>6, <1>7, <1>8 DEF Truthful, Nodes, Rest

-----------------------------------------------------------------------------
(* A step on one payment.                                                  *)

\* What the port makes of a payment's step.
Moves(old, new) ==
    \/ new.fate = old.fate /\ new.outcome = old.outcome
    \/ /\ old.fate = "none" /\ old.outcome = "none"
       /\ new.fate \in {"in_flight", "succeeded"} /\ new.outcome = old.outcome
    \/ /\ old.fate = "in_flight"
       /\ new.fate \in {"succeeded", "failed"} /\ new.outcome = old.outcome
    \/ /\ old.outcome = "none" /\ new.fate = old.fate
       /\ new.outcome \in {"paid", "rejected", "unknown"}
       /\ new.outcome = "paid" => old.fate = "succeeded"
       /\ new.outcome = "rejected" => old.fate \in {"none", "failed"}

\* One payment has changed, and only as the port allows.
Moved(p) ==
    /\ payment' = [payment EXCEPT ![p] = payment'[p]]
    /\ payment'[p] = NoPayment \/ Truthful(payment'[p])
    /\ Moves(payment[p], payment'[p])

LEMMA MadeIsTruthful ==
    ASSUME Sound, NEW p \in Payers, Is(p, Adapters)
    PROVE  Truthful(payment[p]) /\ ~Unpaid(p)
<1>1. NoPayment.adapter \notin Adapters
  BY DEF NoPayment, Adapters, Nodes, Rest
<1>2. payment[p] # NoPayment
  BY <1>1 DEF Is
<1> QED
  BY <1>2 DEF Sound

LEMMA AdaptersOnly ==
    /\ Nodes \subseteq Adapters /\ {"mock"} \subseteq Adapters /\ {"lnd_grpc"} \subseteq Adapters
    /\ Rest \subseteq Nodes /\ Streaming \subseteq Nodes
BY DEF Adapters, Nodes, Rest, Streaming

\* What Become does to the payment.
LEMMA Changed ==
    ASSUME Sound, NEW p \in Payers, Is(p, Adapters), NEW change, Become(p, change)
    PROVE  /\ payment' = [payment EXCEPT ![p] = payment'[p]]
           /\ payment'[p] = [f \in FieldNames |->
                                IF f \in DOMAIN change THEN change[f] ELSE payment[p][f]]
<1>1. DOMAIN payment[p] = FieldNames
  BY MadeIsTruthful DEF Truthful
<1>2. payment = [q \in Payers |-> payment[q]]
  BY DEF Sound
<1> DEFINE new == [f \in FieldNames |-> IF f \in DOMAIN change THEN change[f] ELSE payment[p][f]]
<1>3. payment' = [payment EXCEPT ![p] = new]
  BY <1>1 DEF Become
<1> HIDE DEF new
<1>4. payment'[p] = new
  BY <1>2, <1>3
<1> QED
  BY <1>3, <1>4 DEF new

-----------------------------------------------------------------------------
(* The steps of the wallet and of its node.                                *)

LEMMA SubmitMoves == ASSUME Sound, NEW p \in Payers, Submit(p) PROVE Moved(p)
<1>1. Is(p, Adapters) /\ Truthful(payment[p])
  BY AdaptersOnly, MadeIsTruthful DEF Submit, Is
<1>2. ASSUME NEW change, Become(p, change), "lines" \notin DOMAIN change,
             "adapter" \notin DOMAIN change, "outcome" \notin DOMAIN change,
             "link" \in DOMAIN change, change["link"] # "none",
             "fate" \in DOMAIN change => change["fate"] = "in_flight"
      PROVE  Moved(p)
  <2>1. payment' = [payment EXCEPT ![p] = payment'[p]]
    BY <1>1, <1>2, Changed
  <2>2. payment'[p] = [f \in FieldNames |->
                                IF f \in DOMAIN change THEN change[f] ELSE payment[p][f]]
    BY <1>1, <1>2, Changed
  <2>3. payment[p].link = "none"
    BY DEF Submit
  <2>4. /\ payment'[p].lines = payment[p].lines /\ payment'[p].adapter = payment[p].adapter
        /\ payment'[p].outcome = payment[p].outcome /\ payment'[p].link # "none"
        /\ payment'[p].fate \in {payment[p].fate, "in_flight"} /\ DOMAIN payment'[p] = FieldNames
    BY <1>2, <2>2 DEF FieldNames
  <2>5. payment[p].lines = <<>> /\ payment[p].fate = "none" /\ payment[p].outcome = "none"
    BY <1>1, <2>3 DEF Truthful
  <2>6. Truthful(payment'[p])
    BY <1>1, <2>4, <2>5 DEF Truthful, Says
  <2>7. Moves(payment[p], payment'[p])
    BY <2>4, <2>5 DEF Moves
  <2> QED
    BY <2>1, <2>6, <2>7 DEF Moved
<1>3. CASE Become(p, [fate |-> "in_flight", link |-> "open"])
  BY <1>2, <1>3
<1>4. CASE Become(p, [link |-> "broken"])
  BY <1>2, <1>4
<1> QED
  BY <1>3, <1>4 DEF Submit

LEMMA EndMoves ==
    ASSUME Sound, NEW p \in Payers, NodeSettles(p) \/ NodeGivesUp(p) PROVE Moved(p)
<1>1. Is(p, Adapters) /\ Truthful(payment[p])
  BY AdaptersOnly, MadeIsTruthful DEF NodeSettles, NodeGivesUp, Is
<1>2. payment[p].fate = "in_flight"
  BY DEF NodeSettles, NodeGivesUp
<1>3. ~Says(payment[p].lines, "succeeded") /\ ~Says(payment[p].lines, "failed")
  BY <1>1, <1>2 DEF Truthful
<1>4. ASSUME NEW change, Become(p, change),
             DOMAIN change \in {{"fate"}, {"fate", "fee", "report"}},
             change["fate"] \in {"succeeded", "failed"}
      PROVE  Moved(p)
  <2>1. payment' = [payment EXCEPT ![p] = payment'[p]]
    BY <1>1, <1>4, Changed
  <2>2. payment'[p] = [f \in FieldNames |->
                                IF f \in DOMAIN change THEN change[f] ELSE payment[p][f]]
    BY <1>1, <1>4, Changed
  <2>3. /\ payment'[p].lines = payment[p].lines /\ payment'[p].adapter = payment[p].adapter
        /\ payment'[p].outcome = payment[p].outcome /\ payment'[p].link = payment[p].link
        /\ payment'[p].fate \in {"succeeded", "failed"} /\ DOMAIN payment'[p] = FieldNames
    BY <1>4, <2>2 DEF FieldNames
  <2>4. Truthful(payment'[p])
    BY <1>1, <1>2, <1>3, <2>3 DEF Truthful
  <2>5. Moves(payment[p], payment'[p])
    BY <1>2, <2>3 DEF Moves
  <2> QED
    BY <2>1, <2>4, <2>5 DEF Moved
<1>5. CASE NodeSettles(p)
  <2>1. PICK fee \in Fees, report \in Fields(payment[p].adapter) :
            Become(p, [fate |-> "succeeded", fee |-> fee, report |-> report])
    BY <1>5 DEF NodeSettles
  <2> QED
    BY <1>4, <2>1
<1>6. CASE NodeGivesUp(p)
  <2>1. Become(p, [fate |-> "failed"])
    BY <1>6 DEF NodeGivesUp
  <2> QED
    BY <1>4, <2>1
<1> QED
  BY <1>5, <1>6

\* A line appended to a response, or put in the place of its last one, is all
\* that the response says anew.
LEMMA Appended ==
    ASSUME NEW lines \in Seq(Line), NEW line \in Line, NEW said
    PROVE  Says(Append(lines, line), said) => Says(lines, said) \/ said = line
<1> DEFINE longer == Append(lines, line)
<1>1. Len(longer) = Len(lines) + 1 /\ Len(lines) \in Nat
  OBVIOUS
<1>2. \A k \in 1 .. Len(longer) : longer[k] = IF k <= Len(lines) THEN lines[k] ELSE line
  BY <1>1
<1> HIDE DEF longer
<1>3. ASSUME NEW k \in 1 .. Len(longer), longer[k] = said PROVE Says(lines, said) \/ said = line
  <2>1. CASE k <= Len(lines)
    <3>1. k \in 1 .. Len(lines) /\ lines[k] = said
      BY <1>1, <1>2, <1>3, <2>1
    <3> QED
      BY <3>1 DEF Says
  <2>2. CASE ~(k <= Len(lines))
    BY <1>2, <1>3, <2>2
  <2> QED
    BY <2>1, <2>2
<1>4. Says(longer, said) => Says(lines, said) \/ said = line
  BY <1>3 DEF Says
<1> QED
  BY <1>4 DEF longer

LEMMA CutIsLines ==
    ASSUME NEW lines \in Seq(Line), lines # <<>>, NEW line \in Line
    PROVE  [lines EXCEPT ![Len(lines)] = line] \in Seq(Line)
OBVIOUS

LEMMA CutSays ==
    ASSUME NEW lines \in Seq(Line), NEW cut \in Seq(Line), Len(cut) = Len(lines), NEW line,
           \A k \in 1 .. Len(lines) : cut[k] \in {lines[k], line}, NEW said, Says(cut, said)
    PROVE  Says(lines, said) \/ said = line
BY DEF Says

LEMMA LinesMove ==
    ASSUME Sound, NEW p \in Payers, NodeWrites(p) \/ LinkEnds(p) PROVE Moved(p)
<1>1. Is(p, Adapters) /\ Truthful(payment[p])
  BY AdaptersOnly, MadeIsTruthful DEF NodeWrites, LinkEnds, Is
<1> DEFINE lines == payment[p].lines
<1>2. lines \in Seq(Line) /\ payment[p].fate \in Line
  BY <1>1 DEF Truthful, Line
<1>3. payment[p].link = "open"
  BY DEF NodeWrites, LinkEnds
<1>4. ASSUME NEW change, Become(p, change), DOMAIN change \subseteq {"lines", "link"},
             "link" \in DOMAIN change => change["link"] # "none",
             "lines" \in DOMAIN change =>
                /\ change["lines"] \in Seq(Line)
                /\ Says(change["lines"], "succeeded") => payment[p].fate = "succeeded"
                /\ Says(change["lines"], "failed") => payment[p].fate \in {"none", "failed"}
      PROVE  Moved(p)
  <2>1. payment' = [payment EXCEPT ![p] = payment'[p]]
    BY <1>1, <1>4, Changed
  <2>2. payment'[p] = [f \in FieldNames |->
                                IF f \in DOMAIN change THEN change[f] ELSE payment[p][f]]
    BY <1>1, <1>4, Changed
  <2>3. /\ payment'[p].fate = payment[p].fate /\ payment'[p].adapter = payment[p].adapter
        /\ payment'[p].outcome = payment[p].outcome /\ DOMAIN payment'[p] = FieldNames
    BY <1>4, <2>2 DEF FieldNames
  <2>4. payment'[p].link # "none"
    BY <1>3, <1>4, <2>2 DEF FieldNames
  <2>5. /\ payment'[p].lines \in Seq(Line)
        /\ Says(payment'[p].lines, "succeeded") => payment[p].fate = "succeeded"
        /\ Says(payment'[p].lines, "failed") => payment[p].fate \in {"none", "failed"}
    <3>1. CASE "lines" \in DOMAIN change
      <4>1. payment'[p].lines = change["lines"]
        BY <2>2, <3>1 DEF FieldNames
      <4> QED
        BY <1>4, <3>1, <4>1
    <3>2. CASE "lines" \notin DOMAIN change
      <4>1. payment'[p].lines = payment[p].lines
        BY <2>2, <3>2 DEF FieldNames
      <4> QED
        BY <1>1, <4>1 DEF Truthful
    <3> QED
      BY <3>1, <3>2
  <2>6. Truthful(payment'[p])
    BY <1>1, <2>3, <2>4, <2>5 DEF Truthful
  <2>7. Moves(payment[p], payment'[p])
    BY <2>3 DEF Moves
  <2> QED
    BY <2>1, <2>6, <2>7 DEF Moved
<1>5. CASE NodeWrites(p)
  <2>1. PICK line \in {"in_flight", payment[p].fate} : Become(p, [lines |-> Append(lines, line)])
    BY <1>5 DEF NodeWrites
  <2>2. line \in Line
    BY <1>2 DEF Line
  <2> HIDE DEF lines
  <2>3. Append(lines, line) \in Seq(Line)
    BY <1>2, <2>2
  <2>4. Says(Append(lines, line), "succeeded") => Says(lines, "succeeded") \/ line = "succeeded"
    BY <1>2, <2>2, Appended
  <2>5. Says(Append(lines, line), "failed") => Says(lines, "failed") \/ line = "failed"
    BY <1>2, <2>2, Appended
  <2>6. /\ Says(Append(lines, line), "succeeded") => payment[p].fate = "succeeded"
        /\ Says(Append(lines, line), "failed") => payment[p].fate \in {"none", "failed"}
    BY <1>1, <2>4, <2>5 DEF lines, Truthful
  <2> QED
    BY <1>4, <2>1, <2>3, <2>6
<1>6. CASE LinkEnds(p)
  <2>1. CASE Become(p, [link |-> "closed"]) \/ Become(p, [link |-> "broken"])
    BY <1>4, <2>1
  <2>2. CASE Become(p, [link |-> "closed", lines |-> Append(lines, "error")])
    <3> HIDE DEF lines
    <3>1. "error" \in Line
      BY DEF Line
    <3>2. Append(lines, "error") \in Seq(Line)
      BY <1>2, <3>1
    <3>3. Says(Append(lines, "error"), "succeeded") => Says(lines, "succeeded")
      BY <1>2, <3>1, Appended
    <3>4. Says(Append(lines, "error"), "failed") => Says(lines, "failed")
      BY <1>2, <3>1, Appended
    <3>5. /\ Says(Append(lines, "error"), "succeeded") => payment[p].fate = "succeeded"
          /\ Says(Append(lines, "error"), "failed") => payment[p].fate \in {"none", "failed"}
      BY <1>1, <3>3, <3>4 DEF lines, Truthful
    <3> QED
      BY <1>4, <2>2, <3>2, <3>5
  <2>3. CASE lines # <<>> /\ Become(p, [link |-> "closed", lines |-> [lines EXCEPT ![Len(lines)] = "cut"]])
    <3> DEFINE cut == [lines EXCEPT ![Len(lines)] = "cut"]
    <3>1. "cut" \in Line /\ Become(p, [link |-> "closed", lines |-> cut])
      BY <2>3 DEF Line
    <3> HIDE DEF lines
    <3>2. cut \in Seq(Line)
      BY <1>2, <2>3, <3>1, CutIsLines
    <3>3. Len(cut) = Len(lines) /\ \A k \in 1 .. Len(lines) : cut[k] \in {lines[k], "cut"}
      BY <1>2
    <3> HIDE DEF cut
    <3>4. Says(cut, "succeeded") => Says(lines, "succeeded")
      BY <1>2, <3>2, <3>3, CutSays
    <3>5. Says(cut, "failed") => Says(lines, "failed")
      BY <1>2, <3>2, <3>3, CutSays
    <3>6. /\ Says(cut, "succeeded") => payment[p].fate = "succeeded"
          /\ Says(cut, "failed") => payment[p].fate \in {"none", "failed"}
      BY <1>1, <3>4, <3>5 DEF lines, Truthful
    <3> QED
      BY <1>4, <3>1, <3>2, <3>6
  <2> QED
    BY <1>6, <2>1, <2>2, <2>3 DEF LinkEnds
<1> QED
  BY <1>5, <1>6

LEMMA ReadMoves == ASSUME Sound, NEW p \in Payers, Read(p) PROVE Moved(p)
<1>1. Is(p, Adapters) /\ Truthful(payment[p])
  BY MadeIsTruthful DEF Read
<1> DEFINE said == Outcome(payment[p])
<1>2. Become(p, [outcome |-> said]) /\ payment[p].outcome = "none"
  BY DEF Read
<1>3. said \in {"paid", "rejected", "unknown"}
  BY <1>1, OutcomeFromLines
<1>4. said = "paid" => Says(payment[p].lines, "succeeded")
  BY <1>1, OutcomeFromLines
<1>5. said = "rejected" => Says(payment[p].lines, "failed")
  BY <1>1, OutcomeFromLines
<1>6. payment[p].link # "none"
  <2>1. CASE payment[p].link \in {"closed", "broken"}
    BY <2>1
  <2>2. CASE payment[p].lines # <<>>
    BY <1>1, <2>2 DEF Truthful
  <2> QED
    BY <2>1, <2>2 DEF Read
<1> HIDE DEF said
<1> DEFINE change == [outcome |-> said]
<1>7. payment' = [payment EXCEPT ![p] = payment'[p]]
  BY <1>1, <1>2, Changed
<1>8. payment'[p] = [f \in FieldNames |->
                                IF f \in DOMAIN change THEN change[f] ELSE payment[p][f]]
  BY <1>1, <1>2, Changed
<1>9. /\ payment'[p].lines = payment[p].lines /\ payment'[p].adapter = payment[p].adapter
      /\ payment'[p].fate = payment[p].fate /\ payment'[p].link = payment[p].link
      /\ payment'[p].outcome = said /\ DOMAIN payment'[p] = FieldNames
  BY <1>8 DEF FieldNames
<1>10. Truthful(payment'[p])
  BY <1>1, <1>6, <1>9 DEF Truthful
<1>11. Moves(payment[p], payment'[p])
  BY <1>1, <1>2, <1>3, <1>4, <1>5, <1>9 DEF Moves, Truthful
<1> QED
  BY <1>7, <1>10, <1>11 DEF Moved

-----------------------------------------------------------------------------
(* The mock wallet and the client.                                         *)

LEMMA MockMoves == ASSUME Sound, NEW p \in Payers, MockPays(p) PROVE Moved(p)
<1>1. Is(p, Adapters) /\ Truthful(payment[p])
  BY AdaptersOnly, MadeIsTruthful DEF MockPays, Is
<1>2. payment[p].lines = <<>> /\ payment[p].fate = "none" /\ payment[p].outcome = "none"
  BY <1>1 DEF MockPays, Truthful
<1>3. ASSUME NEW change, Become(p, change), {"link", "lines"} \subseteq DOMAIN change,
             "adapter" \notin DOMAIN change, "outcome" \notin DOMAIN change,
             change["link"] = "closed",
             \/ "fate" \in DOMAIN change /\ change["fate"] = "succeeded"
                /\ change["lines"] = <<"succeeded">>
             \/ "fate" \notin DOMAIN change /\ change["lines"] = <<"failed">>
      PROVE  Moved(p)
  <2>1. payment' = [payment EXCEPT ![p] = payment'[p]]
    BY <1>1, <1>3, Changed
  <2>2. payment'[p] = [f \in FieldNames |->
                                IF f \in DOMAIN change THEN change[f] ELSE payment[p][f]]
    BY <1>1, <1>3, Changed
  <2>3. /\ payment'[p].adapter = payment[p].adapter /\ payment'[p].link = "closed"
        /\ payment'[p].outcome = payment[p].outcome /\ DOMAIN payment'[p] = FieldNames
    BY <1>3, <2>2 DEF FieldNames
  <2>4. \/ payment'[p].fate = "succeeded" /\ payment'[p].lines = <<"succeeded">>
        \/ payment'[p].fate = payment[p].fate /\ payment'[p].lines = <<"failed">>
    BY <1>3, <2>2 DEF FieldNames
  <2>5. Truthful(payment'[p])
    <3>1. CASE payment'[p].fate = "succeeded" /\ payment'[p].lines = <<"succeeded">>
      <4>1. payment'[p].lines \in Seq(Line) /\ ~Says(payment'[p].lines, "failed")
        BY <3>1 DEF Line, Says
      <4> QED
        BY <1>1, <2>3, <3>1, <4>1 DEF Truthful
    <3>2. CASE payment'[p].fate = payment[p].fate /\ payment'[p].lines = <<"failed">>
      <4>1. payment'[p].lines \in Seq(Line) /\ ~Says(payment'[p].lines, "succeeded")
        BY <3>2 DEF Line, Says
      <4> QED
        BY <1>1, <1>2, <2>3, <3>2, <4>1 DEF Truthful
    <3> QED
      BY <2>4, <3>1, <3>2
  <2>6. Moves(payment[p], payment'[p])
    BY <1>2, <2>3, <2>4 DEF Moves
  <2> QED
    BY <2>1, <2>5, <2>6 DEF Moved
<1> DEFINE sats == registry[request[p].invoice].sats
<1>4. CASE Become(p, [fate |-> "succeeded", lines |-> <<"succeeded">>, link |-> "closed",
                      msat |-> sats * Thousand,
                      report |-> [proof |-> "valid", amount |-> "msat", fee |-> "msat"]])
  BY <1>3, <1>4
<1>5. CASE Become(p, [lines |-> <<"failed">>, link |-> "closed"])
  BY <1>3, <1>5
<1> QED
  BY <1>4, <1>5 DEF MockPays

LEMMA WalletMoves == ASSUME Sound, NEW p \in Payers, WalletNext(p) PROVE Moved(p)
BY SubmitMoves, EndMoves, LinesMove, ReadMoves DEF WalletNext

\* A payment is made for an adapter that has a fee limit, and says nothing yet.
LEMMA PaymentMade ==
    ASSUME NEW adapter \in Adapters, SupportsFeeLimit(adapter), NEW msat, NEW cap
    PROVE  /\ Truthful(NewPayment(adapter, msat, cap))
           /\ Moves(NoPayment, NewPayment(adapter, msat, cap))
<1>1. adapter \in Nodes \cup {"mock"}
  BY DEF SupportsFeeLimit, Adapters
<1>2. <<>> \in Seq(Line) /\ ~Says(<<>>, "succeeded") /\ ~Says(<<>>, "failed")
  <2>1. 1 .. Len(<<>>) = {} /\ <<>> \in Seq(Line)
    OBVIOUS
  <2> QED
    BY <2>1 DEF Says
<1>3. Truthful(NewPayment(adapter, msat, cap))
  BY <1>1, <1>2 DEF Truthful, NewPayment, FieldNames
<1>4. Moves(NoPayment, NewPayment(adapter, msat, cap))
  BY DEF Moves, NoPayment, NewPayment
<1> QED
  BY <1>3, <1>4

\* A request changes its step and keeps the others.
Turned(p) ==
    /\ request' = [request EXCEPT ![p] = request'[p]]
    /\ "step" \in DOMAIN request'[p]

LEMMA GotoTurns ==
    ASSUME Sound, NEW p \in Payers, NEW step, Goto(p, step)
    PROVE  Turned(p) /\ request'[p].step = step
BY DEF Sound, Goto, Turned

-----------------------------------------------------------------------------
(* Sound is kept.                                                          *)

LEMMA MovedKeepsSound ==
    ASSUME Sound, NEW p \in Payers, Moved(p), ~Unpaid(p), UNCHANGED request PROVE Sound'
BY DEF Sound, Moved, Unpaid

\* The client's own steps leave the payment alone, but for Pay.
ClientStep(p) ==
    \/ MockChallenges(p) \/ ServerChallenges(p) \/ ReadChallenge(p) \/ Settle(p) \/ SendToken(p)

LEMMA ClientTurns ==
    ASSUME Sound, NEW p \in Payers, ClientStep(p)
    PROVE  UNCHANGED payment /\ Turned(p) /\ (Unpaid(p)' => Unpaid(p))
<1>1. ASSUME NEW challenge, NEW header, Issue(p, challenge, header)
      PROVE  UNCHANGED payment /\ Turned(p) /\ (Unpaid(p)' => Unpaid(p))
  BY <1>1 DEF Issue, Sound, Turned, Unpaid, At
<1>2. CASE MockChallenges(p)
  BY <1>1, <1>2 DEF MockChallenges
<1>3. CASE ServerChallenges(p)
  BY <1>1, <1>3 DEF ServerChallenges
<1>4. CASE ReadChallenge(p)
  <2> DEFINE read == FromHeader(request[p].header)
             sats == Satoshis(DecodeAmount(registry[read.invoice].invoice))
  <2>1. UNCHANGED payment /\ Unpaid(p)
    BY <1>4 DEF ReadChallenge, At, Unpaid
  <2>2. CASE request' = [request EXCEPT ![p] = [step |-> "refused"]]
    BY <2>1, <2>2 DEF Sound, Turned
  <2>3. CASE request' = [request EXCEPT ![p] =
                [step |-> "pay", macaroon |-> read.macaroon, invoice |-> read.invoice,
                 sats |-> sats]]
    BY <2>1, <2>3 DEF Sound, Turned
  <2> QED
    BY <1>4, <2>1, <2>2, <2>3 DEF ReadChallenge
<1>5. CASE Settle(p)
  <2>1. PICK step : Goto(p, step) /\ step \in {"unpaid", "breach", "paid"}
    BY <1>5 DEF Settle
  <2> QED
    BY <1>5, <2>1, GotoTurns DEF Settle, Unpaid
<1>6. CASE SendToken(p)
  <2>1. PICK step : Goto(p, step) /\ step \in {"served", "unauthorized"}
    BY <1>6 DEF SendToken
  <2> QED
    BY <1>6, <2>1, GotoTurns DEF SendToken, Unpaid
<1> QED
  BY <1>2, <1>3, <1>4, <1>5, <1>6 DEF ClientStep

\* Every step moves one payment as the port allows, or none, and keeps Sound.
LEMMA StepSound ==
    ASSUME Sound, Next
    PROVE  Sound' /\ (UNCHANGED payment \/ \E p \in Payers : Moved(p))
<1>1. PICK p \in Payers :
        ClientStep(p) \/ Pay(p) \/ MockPays(p) \/ WalletStep(p)
  BY DEF Next, ClientStep
<1>2. CASE ClientStep(p)
  <2>1. UNCHANGED payment
    BY <1>2, ClientTurns
  <2>2. Turned(p)
    BY <1>2, ClientTurns
  <2>3. Unpaid(p)' => Unpaid(p)
    BY <1>2, ClientTurns
  <2> QED
    BY <2>1, <2>2, <2>3 DEF Sound, Turned, Unpaid
<1>3. CASE Pay(p)
  <2>1. payment[p] = NoPayment
    BY <1>3 DEF Pay, At, Sound, Unpaid
  <2>2. PICK adapter \in AdaptersOf[p] :
       \/ request' = [request EXCEPT ![p] = [step |-> "refused"]] /\ UNCHANGED payment
       \/ /\ SupportsFeeLimit(adapter)
          /\ payment' = [payment EXCEPT ![p] =
                NewPayment(adapter, Pico(registry[request[p].invoice].invoice) \div 10, MaxFeeSats)]
          /\ Goto(p, "paying")
    BY <1>3 DEF Pay
  <2>3. CASE request' = [request EXCEPT ![p] = [step |-> "refused"]] /\ UNCHANGED payment
    BY <2>1, <2>3 DEF Sound, Unpaid
  <2>4. CASE /\ SupportsFeeLimit(adapter)
             /\ payment' = [payment EXCEPT ![p] =
                   NewPayment(adapter, Pico(registry[request[p].invoice].invoice) \div 10, MaxFeeSats)]
             /\ Goto(p, "paying")
    <3> DEFINE new == NewPayment(adapter, Pico(registry[request[p].invoice].invoice) \div 10, MaxFeeSats)
    <3>1. adapter \in Adapters
      BY <2>2, WalletAssumption
    <3>2. Truthful(new)
      BY <2>4, <3>1, PaymentMade
    <3>3. Moves(NoPayment, new)
      BY <2>4, <3>1, PaymentMade
    <3>4. payment' = [payment EXCEPT ![p] = new]
      BY <2>4
    <3> HIDE DEF new
    <3>5. Moved(p)
      BY <2>1, <3>2, <3>3, <3>4 DEF Moved, Sound
    <3>6. Turned(p)
      BY <2>4, GotoTurns
    <3>7. request'[p].step = "paying"
      BY <2>4, GotoTurns
    <3> QED
      BY <3>5, <3>6, <3>7 DEF Sound, Moved, Turned, Unpaid
  <2> QED
    BY <2>2, <2>3, <2>4
<1>4. CASE MockPays(p)
  <2>1. Moved(p) /\ UNCHANGED request
    BY <1>4, MockMoves DEF MockPays
  <2>2. ~Unpaid(p)
    BY <1>4, AdaptersOnly, MadeIsTruthful DEF MockPays, Is
  <2> QED
    BY <2>1, <2>2, MovedKeepsSound
<1>5. CASE WalletStep(p)
  <2>1. Moved(p) /\ UNCHANGED request
    BY <1>5, WalletMoves DEF WalletStep
  <2>2. ~Unpaid(p)
    <3>1. Is(p, Adapters)
      BY <1>5, AdaptersOnly
      DEF WalletStep, WalletNext, Submit, Read, NodeSettles, NodeGivesUp, NodeWrites, LinkEnds, Is
    <3> QED
      BY <3>1, MadeIsTruthful
  <2> QED
    BY <2>1, <2>2, MovedKeepsSound
<1> QED
  BY <1>1, <1>2, <1>3, <1>4, <1>5

LEMMA InitSound == ASSUME Init PROVE Sound
BY DEF Init, Sound

-----------------------------------------------------------------------------
(* The refinement.                                                         *)

LEMMA MovedIsPortStep ==
    ASSUME Sound, NEW p \in Payers, Moved(p) PROVE [Port!Next]_Port!vars
<1> DEFINE fate == [q \in Payers |-> payment[q].fate]
           outcome == [q \in Payers |-> payment[q].outcome]
           fates == [q \in Payers |-> payment'[q].fate]
           outcomes == [q \in Payers |-> payment'[q].outcome]
<1>1. \A q \in Payers : q # p => payment'[q] = payment[q]
  BY DEF Moved, Sound
<1>2. fates = [fate EXCEPT ![p] = payment'[p].fate]
  BY <1>1
<1>3. outcomes = [outcome EXCEPT ![p] = payment'[p].outcome]
  BY <1>1
<1>4. CASE payment'[p].fate = payment[p].fate /\ payment'[p].outcome = payment[p].outcome
  <2>1. fates = fate /\ outcomes = outcome
    BY <1>2, <1>3, <1>4
  <2> QED
    BY <2>1 DEF Port!vars
<1>5. CASE /\ payment[p].fate = "none" /\ payment[p].outcome = "none"
           /\ payment'[p].fate \in {"in_flight", "succeeded"}
           /\ payment'[p].outcome = payment[p].outcome
  <2>1. outcomes = outcome
    BY <1>3, <1>5
  <2>2. Port!Submit(p)
    BY <1>2, <1>5, <2>1 DEF Port!Submit
  <2> QED
    BY <2>2 DEF Port!Next
<1>6. CASE /\ payment[p].fate = "in_flight" /\ payment'[p].fate \in {"succeeded", "failed"}
           /\ payment'[p].outcome = payment[p].outcome
  <2>1. outcomes = outcome
    BY <1>3, <1>6
  <2>2. Port!End(p)
    BY <1>2, <1>6, <2>1 DEF Port!End
  <2> QED
    BY <2>2 DEF Port!Next
<1>7. CASE /\ payment[p].outcome = "none" /\ payment'[p].fate = payment[p].fate
           /\ payment'[p].outcome \in {"paid", "rejected", "unknown"}
           /\ payment'[p].outcome = "paid" => payment[p].fate = "succeeded"
           /\ payment'[p].outcome = "rejected" => payment[p].fate \in {"none", "failed"}
  <2>1. fates = fate
    BY <1>2, <1>7
  <2>2. Port!Report(p)
    BY <1>3, <1>7, <2>1 DEF Port!Report
  <2> QED
    BY <2>2 DEF Port!Next
<1> QED
  BY <1>4, <1>5, <1>6, <1>7 DEF Moved, Moves

\* Whatever the wallet, its node and the connection do, "paid" is said only of
\* a payment that has settled and "rejected" only of one that never will
\* (port.rs:69-72), in every interleaving of any number of payers.
THEOREM AdaptersKeepContract == Spec => ContractKept
<1>1. Init => Sound /\ Port!Init
  <2> SUFFICES ASSUME Init PROVE Sound /\ Port!Init
    OBVIOUS
  <2>1. Port!Init
    BY DEF Init, NoPayment, Port!Init
  <2> QED
    BY <2>1, InitSound
<1>2. Sound /\ [Next]_vars => Sound' /\ [Port!Next]_Port!vars
  <2> SUFFICES ASSUME Sound, [Next]_vars PROVE Sound' /\ [Port!Next]_Port!vars
    OBVIOUS
  <2>1. CASE Next
    <3>1. Sound'
      BY <2>1, StepSound
    <3>2. UNCHANGED payment \/ \E p \in Payers : Moved(p)
      BY <2>1, StepSound
    <3>3. UNCHANGED payment => UNCHANGED Port!vars
      BY DEF Port!vars
    <3> QED
      BY <3>1, <3>2, <3>3, MovedIsPortStep
  <2>2. CASE UNCHANGED vars
    BY <2>2 DEF vars, Sound, Unpaid, Port!vars
  <2> QED
    BY <2>1, <2>2
<1> QED
  BY <1>1, <1>2, PTL DEF Spec, ContractKept, Port!Spec

-----------------------------------------------------------------------------
(* Words and headers: what Min and Max are, and that a header a server     *)
(* sends is about one challenge of the registry.                           *)

Below == {pair \in Nat \X Nat : pair[1] < pair[2]}

LEMMA NatIsWellFounded == IsWellFoundedOn(Below, Nat)
BY NatLessThanWellFounded DEF OpToRel, Below

LEMMA MinIsLeast ==
    ASSUME NEW S, S \subseteq Nat, S # {}
    PROVE  Min(S) \in S /\ \A n \in S : Min(S) <= n
<1>1. ASSUME NEW R, IsWellFoundedOn(R, Nat)
      PROVE  \E least \in S : \A n \in S : ~ (<<n, least>> \in R)
  BY <1>1, WFMin
<1>2. PICK least \in S : \A n \in S : <<n, least>> \notin Below
  BY <1>1, NatIsWellFounded
<1>3. ASSUME NEW n \in S, n < least PROVE FALSE
  <2>1. n \in Nat /\ least \in Nat
    OBVIOUS
  <2>2. <<n, least>> \in Below
    BY <1>3, <2>1 DEF Below
  <2> QED
    BY <1>2, <2>2
<1>4. \A n \in S : least <= n
  BY <1>3
<1> QED
  BY <1>4 DEF Min

LEMMA MaxIsGreatest ==
    ASSUME NEW bound \in Nat, NEW S, S \subseteq 0 .. bound, S # {}
    PROVE  Max(S) \in S /\ \A n \in S : n <= Max(S)
<1> DEFINE T == {bound - n : n \in S}
<1>1. T \subseteq Nat /\ T # {}
  <2>1. \A n \in S : bound - n \in Nat
    OBVIOUS
  <2> QED
    BY <2>1
<1>2. Min(T) \in T /\ \A t \in T : Min(T) <= t
  BY <1>1, MinIsLeast
<1>3. PICK most \in S : Min(T) = bound - most
  BY <1>2
<1>4. ASSUME NEW n \in S PROVE n <= most
  <2>1. bound - n \in T
    OBVIOUS
  <2> HIDE DEF T
  <2>2. bound - most <= bound - n
    BY <1>2, <1>3, <2>1
  <2> QED
    BY <2>2
<1> QED
  BY <1>4 DEF Max

LEMMA PartOf ==
    ASSUME NEW S, NEW s \in Seq(S), NEW a \in 1 .. Len(s) + 1, NEW b \in 0 .. Len(s)
    PROVE  SubSeq(s, a, b) \in Seq(S)
OBVIOUS

\* The words of a header about challenge n: an invoice is the n-th, a macaroon
\* the n-th or no server's here.  (The provers are told that the kinds named
\* in the specification are strings.)
Kinds == STRING \cup {"macaroon", "invoice", "quote", "comma", "equals", "mac", "inv"}
Words(n) == {word \in [kind : Kinds, id : {0, n}] : word.kind = "inv" => word.id = n}

HeadersOf(n) == {HeaderOf(template, n) : template \in Templates} \cup {MockHeader(n)}

LEMMA PartWords ==
    ASSUME NEW n \in Nat
    PROVE  /\ Macaroon(n) \in Seq(Words(n)) /\ Invoice(n) \in Seq(Words(n))
           /\ <<Comma>> \in Seq(Words(n))
<1> DEFINE W == Words(n)
<1>1. /\ Quote \in W /\ Comma \in W /\ Equals \in W
      /\ Text("macaroon") \in W /\ Text("invoice") \in W
  BY DEF Text, Symbol, Words, Kinds, Quote, Comma, Equals
<1>2. Symbol("mac", n) \in W /\ Symbol("inv", n) \in W
  BY DEF Symbol, Words, Kinds
<1> HIDE DEF W
<1>3. Macaroon(n) \in Seq(W) /\ Invoice(n) \in Seq(W) /\ <<Comma>> \in Seq(W)
  BY <1>1, <1>2 DEF Macaroon, Invoice, Quoted
<1> QED
  BY <1>3 DEF W

LEMMA HeaderWords ==
    ASSUME NEW n \in Nat, NEW header \in HeadersOf(n)
    PROVE  header.text \in Seq(Words(n))
<1> DEFINE W == Words(n)
<1>1. ASSUME NEW template \in Templates PROVE HeaderOf(template, n).text \in Seq(W)
  <2> DEFINE text == template.text
             length == Len(text)
             word(k) == Symbol(text[k].kind, n * text[k].id)
  <2>1. text \in Seq([kind : STRING, id : {0, 1}]) /\ length \in Nat
        /\ \A k \in 1 .. length : text[k].kind = "inv" => text[k].id = 1
    BY ExchangeAssumption
  <2>2. ASSUME NEW k \in 1 .. length PROVE word(k) \in W
    <3> DEFINE R == [kind : STRING, id : {0, 1}]
    <3>1. text \in Seq(R) /\ length = Len(text)
      BY <2>1
    <3> HIDE DEF R, text, length
    <3>2. text[k] \in R
      BY <3>1
    <3>3. text[k] \in [kind : STRING, id : {0, 1}]
      BY <3>2 DEF R
    <3>4. n * text[k].id \in {0, n} /\ (text[k].id = 1 => n * text[k].id = n)
      BY <3>3
    <3> QED
      BY <2>1, <3>3, <3>4 DEF Symbol, Words, Kinds
  <2>3. HeaderOf(template, n).text = [k \in 1 .. length |-> word(k)]
    BY DEF HeaderOf
  <2> HIDE DEF word, W, length
  <2> QED
    BY <2>1, <2>2, <2>3
<1>2. MockHeader(n).text \in Seq(W)
  <2> DEFINE mac == Macaroon(n)
             inv == Invoice(n)
             comma == <<Comma>>
  <2>1. mac \in Seq(W) /\ inv \in Seq(W) /\ comma \in Seq(W)
    BY PartWords
  <2>2. MockHeader(n).text = mac \o comma \o inv
    BY DEF MockHeader
  <2> HIDE DEF mac, inv, comma, W
  <2> QED
    BY <2>1, <2>2
<1> QED
  BY <1>1, <1>2 DEF HeadersOf

LEMMA CommasInside ==
    ASSUME NEW S, NEW text \in Seq(S)
    PROVE  Commas(text) \subseteq 1 .. Len(text) /\ Len(text) \in Nat
BY DEF Commas, Places

LEMMA ParameterWords ==
    ASSUME NEW S, NEW text \in Seq(S), NEW end \in Params(text)
    PROVE  Parameter(text, end) \in Seq(S)
<1>1. Commas(text) \subseteq 1 .. Len(text) /\ Len(text) \in Nat
  BY CommasInside
<1>2. end \in 1 .. Len(text) + 1
  BY <1>1 DEF Params
<1> DEFINE cuts == {0} \cup {k \in Commas(text) : k < end}
           from == Max(cuts)
<1>3. cuts \subseteq 0 .. Len(text) /\ cuts # {}
  BY <1>1
<1> HIDE DEF cuts
<1>4. from \in 0 .. Len(text)
  BY <1>1, <1>3, MaxIsGreatest
<1> HIDE DEF from
<1>5. SubSeq(text, from + 1, end - 1) \in Seq(S)
  BY <1>1, <1>2, <1>4, PartOf
<1> QED
  BY <1>5 DEF Parameter, from, cuts

LEMMA AfterWords ==
    ASSUME NEW S, NEW text \in Seq(S), NEW symbol, Places(text, symbol) # {}
    PROVE  After(text, symbol) \in Seq(S)
<1> DEFINE at == Min(Places(text, symbol))
<1>1. Places(text, symbol) \subseteq 1 .. Len(text) /\ Len(text) \in Nat
  BY DEF Places
<1>2. at \in 1 .. Len(text)
  <2>1. Places(text, symbol) \subseteq Nat
    BY <1>1
  <2>2. at \in Places(text, symbol)
    BY <2>1, MinIsLeast
  <2> QED
    BY <1>1, <2>2
<1> HIDE DEF at
<1>3. SubSeq(text, at + 1, Len(text)) \in Seq(S)
  BY <1>1, <1>2, PartOf
<1> QED
  BY <1>3 DEF After, at

LEMMA UnquotedWords ==
    ASSUME NEW S, NEW text \in Seq(S)
    PROVE  Unquoted(text) \in Seq(S)
<1> DEFINE inner == {k \in 1 .. Len(text) : text[k] # Quote}
<1>1. CASE inner = {}
  <2>1. Unquoted(text) = <<>>
    BY <1>1 DEF Unquoted
  <2> QED
    BY <2>1
<1>2. CASE inner # {}
  <2> DEFINE first == Min(inner)
             last == Max(inner)
  <2>1. Unquoted(text) = SubSeq(text, first, last)
    BY <1>2 DEF Unquoted
  <2>2. Len(text) \in Nat /\ inner \subseteq Nat /\ inner \subseteq 1 .. Len(text)
        /\ inner \subseteq 0 .. Len(text)
    OBVIOUS
  <2> HIDE DEF inner
  <2>3. first \in inner
    BY <1>2, <2>2, MinIsLeast
  <2>4. last \in inner
    BY <1>2, <2>2, MaxIsGreatest
  <2> HIDE DEF first, last
  <2>5. first \in 1 .. Len(text) + 1 /\ last \in 0 .. Len(text)
    BY <2>2, <2>3, <2>4
  <2> QED
    BY <2>1, <2>5, PartOf
<1> QED
  BY <1>1, <1>2

\* A value that is read is made of the header's words.
LEMMA ValueWords ==
    ASSUME NEW S, NEW text \in Seq(S), NEW key, WithKey(text, key) # {},
           \A end \in Params(text) : Places(Parameter(text, end), Equals) # {}
    PROVE  Value(text, key) \in Seq(S)
<1> DEFINE last == Max(WithKey(text, key))
           param == Parameter(text, last)
<1>1. Commas(text) \subseteq 1 .. Len(text) /\ Len(text) \in Nat /\ Len(text) + 1 \in Nat
  BY CommasInside
<1>2. WithKey(text, key) \subseteq 0 .. Len(text) + 1
  BY <1>1 DEF WithKey, Params
<1>3. last \in WithKey(text, key)
  BY <1>1, <1>2, MaxIsGreatest
<1> HIDE DEF last
<1>4. last \in Params(text)
  BY <1>3 DEF WithKey
<1>5. param \in Seq(S)
  BY <1>4, ParameterWords
<1>6. Places(param, Equals) # {}
  BY <1>4
<1> HIDE DEF param
<1>7. After(param, Equals) \in Seq(S)
  BY <1>5, <1>6, AfterWords
<1>8. Unquoted(After(param, Equals)) \in Seq(S)
  BY <1>7, UnquotedWords
<1> QED
  BY <1>8 DEF Value, param, last

\* Whatever is read from a header about a challenge, it is that challenge.
LEMMA HeaderIsAbout ==
    ASSUME NEW n \in Nat, NEW header \in HeadersOf(n), FromHeader(header) # NotAHeader
    PROVE  FromHeader(header).macaroon \in {0, n} /\ FromHeader(header).invoice = n
<1> DEFINE text == header.text
           macaroon == Value(text, "macaroon")
           invoice == Value(text, "invoice")
<1>1. text \in Seq(Words(n))
  BY HeaderWords
<1>2. /\ \A end \in Params(text) : Places(Parameter(text, end), Equals) # {}
      /\ WithKey(text, "macaroon") # {} /\ WithKey(text, "invoice") # {}
      /\ IsA(macaroon, "mac") /\ IsA(invoice, "inv")
      /\ FromHeader(header) = [macaroon |-> Number(macaroon), invoice |-> Number(invoice)]
  BY DEF FromHeader
<1> HIDE DEF text
<1>3. macaroon \in Seq(Words(n)) /\ invoice \in Seq(Words(n))
  BY <1>1, <1>2, ValueWords
<1> HIDE DEF macaroon, invoice
<1>4. Len(invoice) = 1 /\ invoice[1].kind = "inv" /\ invoice # <<>>
  <2>1. "inv" # "mac"
    OBVIOUS
  <2>2. Len(invoice) = 1 /\ invoice[1].kind = "inv"
    BY <1>2, <2>1 DEF IsA
  <2>3. ASSUME invoice = <<>> PROVE FALSE
    BY <2>2, <2>3
  <2> QED
    BY <2>2, <2>3
<1>5. Number(invoice) = n
  BY <1>3, <1>4 DEF Number, Words
<1>6. Number(macaroon) \in {0, n}
  <2>1. CASE macaroon = <<>>
    BY <2>1 DEF Number
  <2>2. CASE macaroon # <<>>
    <3>1. Len(macaroon) = 1
      BY <1>2, <2>2 DEF IsA
    <3> DEFINE W == Words(n)
    <3>2. macaroon \in Seq(W)
      BY <1>3
    <3> HIDE DEF W
    <3>3. macaroon[1] \in W
      BY <3>1, <3>2
    <3>4. macaroon[1] \in Words(n)
      BY <3>3 DEF W
    <3> QED
      BY <2>2, <3>4 DEF Number, Words
  <2> QED
    BY <2>1, <2>2
<1> QED
  BY <1>2, <1>5, <1>6

-----------------------------------------------------------------------------
(* Amounts: what the decoder and the roundings between units give.         *)

LEMMA Quotient ==
    ASSUME NEW a \in Nat, NEW b \in Nat \ {0}
    PROVE  /\ a \div b \in Nat
           /\ b * (a \div b) <= a /\ a < b * (a \div b) + b
OBVIOUS

\* The quotient is the only number between.
LEMMA Monotone ==
    ASSUME NEW a \in Nat, NEW b \in Nat, NEW c \in Nat, a <= b
    PROVE  c * a <= c * b
OBVIOUS

LEMMA Half == Thousand \in Nat \ {0} /\ Thousand \div 10 \in Nat \ {0} /\ Thousand = 10 * (Thousand \div 10)
BY Bolt11Assumption
LEMMA TimesNat == ASSUME NEW a \in Nat \ {0}, NEW b \in Nat \ {0} PROVE a * b \in Nat \ {0}
OBVIOUS

\* The factor of a unit is the tenth of its weight.
LEMMA FactorIsTenth ==
    ASSUME NEW unit \in {"nano", "micro", "milli", "btc"}
    PROVE  Factor(unit) \in Nat \ {0} /\ Weight(unit) = 10 * Factor(unit)
<1> DEFINE h == Thousand \div 10
           t == Thousand
<1>1. t \in Nat \ {0} /\ h \in Nat \ {0} /\ t = 10 * h
  BY Half
<1>2. /\ Factor("nano") = h /\ Weight("nano") = t
      /\ Factor("micro") = t * h /\ Weight("micro") = t * t
      /\ Factor("milli") = t * t * h /\ Weight("milli") = t * t * t
      /\ Factor("btc") = t * t * t * h /\ Weight("btc") = t * t * t * t
  BY DEF Factor, Weight
<1> HIDE DEF h, t
<1>3. \A a \in Nat : a * t = 10 * (a * h)
  BY <1>1
<1>4. t * h \in Nat \ {0} /\ t * t \in Nat \ {0}
  BY <1>1, TimesNat
<1>5. t * t * h \in Nat \ {0} /\ t * t * t \in Nat \ {0}
  BY <1>1, <1>4, TimesNat
<1>6. t * t * t * h \in Nat \ {0}
  BY <1>1, <1>5, TimesNat
<1>7. t * t = 10 * (t * h)
  BY <1>1, <1>3
<1>8. (t * t) * t = 10 * ((t * t) * h)
  BY <1>3, <1>4
<1>9. (t * t * t) * t = 10 * ((t * t * t) * h)
  BY <1>3, <1>5
<1> QED
  BY <1>1, <1>2, <1>4, <1>5, <1>6, <1>7, <1>8, <1>9

LEMMA Tenth == ASSUME NEW a \in Nat PROVE (10 * a) % 10 = 0 /\ (10 * a) \div 10 = a
OBVIOUS

\* What Scaled makes of a number of a unit, against the number times its weight.
LEMMA ScaledIsTenth ==
    ASSUME NEW number \in Nat, number <= MaxU64, NEW unit \in Units \ {"junk"}
    PROVE  /\ number * Weight(unit) \in Nat
           /\ IF (number * Weight(unit)) % 10 = 0 /\ (number * Weight(unit)) \div 10 <= MaxU64
              THEN /\ Scaled(number, unit) = (number * Weight(unit)) \div 10
                   /\ 10 * Scaled(number, unit) = number * Weight(unit)
              ELSE Scaled(number, unit) = Invalid
<1>0. MaxU64 \in Nat
  BY Bolt11Assumption
<1>1. CASE unit = "pico"
  <2>1. number * Weight(unit) = number
    BY <1>1 DEF Weight
  <2>2. Scaled(number, unit) = IF number % 10 = 0 THEN number \div 10 ELSE Invalid
    BY <1>1 DEF Scaled
  <2>3. number \div 10 <= MaxU64 /\ (number % 10 = 0 => 10 * (number \div 10) = number)
    BY <1>0
  <2> QED
    BY <2>1, <2>2, <2>3
<1>2. CASE unit # "pico"
  <2> DEFINE factor == Factor(unit)
             weight == Weight(unit)
  <2>1. factor \in Nat \ {0} /\ weight = 10 * factor
    BY <1>2, FactorIsTenth DEF Units
  <2>2. Scaled(number, unit) = IF number * factor <= MaxU64 THEN number * factor ELSE Invalid
    BY <1>2 DEF Scaled
  <2> HIDE DEF factor, weight
  <2>3. number * factor \in Nat /\ number * weight = 10 * (number * factor)
    BY <2>1
  <2>4. (number * weight) % 10 = 0 /\ (number * weight) \div 10 = number * factor
    BY <2>3, Tenth
  <2>5. number * weight \in Nat
    BY <2>3
  <2> QED
    BY <2>2, <2>3, <2>4, <2>5 DEF weight
<1> QED
  BY <1>1, <1>2

\* bolt11.rs:93-103: what is decoded is what BOLT11 says, to the msat.
LEMMA DecodedExactly ==
    ASSUME NEW invoice, IsInvoice(invoice), WellFormed(invoice), invoice.number <= MaxU64
    PROVE  /\ Pico(invoice) \in Nat
           /\ IF Pico(invoice) % 10 = 0 /\ Pico(invoice) \div 10 \in 1 .. MaxU64
              THEN /\ DecodeAmount(invoice) = Pico(invoice) \div 10
                   /\ 10 * DecodeAmount(invoice) = Pico(invoice)
              ELSE DecodeAmount(invoice) = Invalid
<1> DEFINE number == invoice.number
           unit == invoice.unit
           pico == number * Weight(unit)
           msat == Scaled(number, unit)
<1>1. number \in 0 .. MaxU64 /\ number \in Nat /\ number <= MaxU64 /\ unit \in Units \ {"junk"}
  BY Bolt11Assumption DEF WellFormed, IsInvoice
<1>2. number # None /\ MaxU64 \in Nat
  BY <1>1, Bolt11Assumption
<1>3. DecodeAmount(invoice) = IF msat = 0 THEN Invalid ELSE msat
  BY <1>1, <1>2 DEF DecodeAmount, WellFormed
<1>4. Pico(invoice) = pico
  BY DEF Pico
<1>5. pico \in Nat
  BY <1>1, ScaledIsTenth
<1>6. IF pico % 10 = 0 /\ pico \div 10 <= MaxU64
      THEN msat = pico \div 10 /\ 10 * msat = pico
      ELSE msat = Invalid
  BY <1>1, ScaledIsTenth
<1> HIDE DEF pico, msat
<1>7. pico \div 10 \in Nat
  BY <1>5
<1> QED
  BY <1>2, <1>3, <1>4, <1>5, <1>6, <1>7

\* A read invoice is well formed, and is paid with what it was read as.
LEMMA DecodedIsAsked ==
    ASSUME NEW invoice, IsInvoice(invoice), DecodeAmount(invoice) \notin {None, Invalid}
    PROVE  /\ DecodeAmount(invoice) \in 1 .. MaxU64
           /\ Pico(invoice) \div 10 = DecodeAmount(invoice)
<1>1. WellFormed(invoice) /\ invoice.number \in 0 .. MaxU64
  <2>1. invoice.network # "other" /\ invoice.separator
    BY DEF DecodeAmount
  <2>2. invoice.number \in 0 .. MaxU64 /\ invoice.unit # "junk"
    BY <2>1 DEF DecodeAmount
  <2> QED
    BY <2>1, <2>2, Bolt11Assumption DEF WellFormed
<1>2. MaxU64 \in Nat /\ invoice.number <= MaxU64
  BY <1>1, Bolt11Assumption
<1>3. Pico(invoice) % 10 = 0 /\ Pico(invoice) \div 10 \in 1 .. MaxU64
      /\ DecodeAmount(invoice) = Pico(invoice) \div 10
  BY <1>1, <1>2, DecodedExactly
<1> QED
  BY <1>3

\* The mock's invoice asks for the price.
LEMMA MockDecoded ==
    ASSUME NEW sats \in Nat, DecodeAmount(MockInvoice(sats)) \notin {None, Invalid}
    PROVE  DecodeAmount(MockInvoice(sats)) = sats * Thousand
<1> DEFINE invoice == MockInvoice(sats)
           h == Thousand \div 10
           t == Thousand
<1>1. t \in Nat \ {0} /\ h \in Nat \ {0} /\ t = 10 * h
  BY Half
<1>2. Factor("micro") = t * h /\ Factor("nano") = h
  BY DEF Factor
<1>3. Factor("micro") \div Thousand = h
  <2> HIDE DEF h, t
  <2>1. (t * h) \div t = h
    BY <1>1
  <2> QED
    BY <1>2, <2>1 DEF t
<1>4. CASE sats >= h /\ sats % h = 0
  <2>1. invoice = [network |-> "lnbc", separator |-> TRUE, number |-> sats \div h, unit |-> "micro"]
    BY <1>3, <1>4 DEF MockInvoice
  <2>2. invoice.unit = "micro" /\ invoice.number = sats \div h
    BY <2>1
  <2>3. DecodeAmount(invoice) = Scaled(sats \div h, "micro")
    BY <2>2 DEF DecodeAmount
  <2>4. Scaled(sats \div h, "micro") # Invalid
    BY <2>3
  <2>5. Scaled(sats \div h, "micro") = (sats \div h) * (t * h)
    BY <1>2, <2>4 DEF Scaled
  <2> HIDE DEF h, t
  <2>6. sats \div h \in Nat /\ (sats \div h) * h = sats
    BY <1>1, <1>4
  <2>7. (sats \div h) * (t * h) = sats * t
    BY <1>1, <2>6
  <2> QED
    BY <2>3, <2>5, <2>7 DEF t
<1>5. CASE ~(sats >= h /\ sats % h = 0)
  <2>1. invoice = [network |-> "lnbc", separator |-> TRUE, number |-> sats * 10, unit |-> "nano"]
    BY <1>3, <1>5 DEF MockInvoice
  <2>2. invoice.unit = "nano" /\ invoice.number = sats * 10
    BY <2>1
  <2>3. DecodeAmount(invoice) = Scaled(sats * 10, "nano")
    BY <2>2 DEF DecodeAmount
  <2>4. Scaled(sats * 10, "nano") = sats * 10 * h
    BY <1>2, <2>3 DEF Scaled
  <2> HIDE DEF h, t
  <2>5. sats * 10 * h = sats * t
    BY <1>1
  <2> QED
    BY <2>3, <2>4, <2>5 DEF t
<1> QED
  BY <1>4, <1>5

\* Rounding up to satoshis.
LEMMA RoundedUp ==
    ASSUME NEW msat \in Nat
    PROVE  /\ Satoshis(msat) \in Nat
           /\ msat <= Satoshis(msat) * Thousand
           /\ msat > 0 => Satoshis(msat) > 0
           /\ msat = 0 => Satoshis(msat) = 0
<1> DEFINE t == Thousand
           q == (msat + t - 1) \div t
<1>1. t \in Nat \ {0} /\ msat + t - 1 \in Nat
  BY Bolt11Assumption
<1>2. Satoshis(msat) = q
  BY DEF Satoshis, DivCeil
<1>3. q \in Nat /\ t * q <= msat + t - 1 /\ msat + t - 1 < t * q + t
  BY <1>1, Quotient
<1> HIDE DEF q, t
<1>4. msat <= q * t
  BY <1>1, <1>3
<1>5. msat > 0 => q > 0
  BY <1>1, <1>3
<1>6. msat = 0 => q = 0
  BY <1>1, <1>3
<1> QED
  BY <1>2, <1>3, <1>4, <1>5, <1>6 DEF t

LEMMA RoundedWithin ==
    ASSUME NEW msat \in Nat, NEW sats \in Nat, msat <= sats * Thousand
    PROVE  Satoshis(msat) <= sats
<1> DEFINE t == Thousand
           q == (msat + t - 1) \div t
<1>1. t \in Nat \ {0} /\ msat + t - 1 \in Nat
  BY Bolt11Assumption
<1>2. Satoshis(msat) = q
  BY DEF Satoshis, DivCeil
<1>3. q \in Nat /\ t * q <= msat + t - 1
  BY <1>1, Quotient
<1>4. msat <= sats * t
  OBVIOUS
<1> HIDE DEF q, t
<1>5. ASSUME q >= sats + 1 PROVE FALSE
  <2>1. t * (sats + 1) <= t * q
    BY <1>1, <1>3, <1>5, Monotone
  <2>2. t * (sats + 1) = sats * t + t
    BY <1>1
  <2> QED
    BY <1>1, <1>3, <1>4, <2>1, <2>2
<1> QED
  BY <1>2, <1>3, <1>5

-----------------------------------------------------------------------------
(* The inductive invariant of the exchange, and its steps.                 *)

Challenges ==
    {[mock |-> TRUE, invoice |-> MockInvoice(sats), sats |-> sats] : sats \in Prices}
    \cup {[mock |-> FALSE, invoice |-> invoice, sats |-> 0] : invoice \in Invoices}

ChallengeOf(p) == registry[request[p].invoice]
Msat(p) == DecodeAmount(ChallengeOf(p).invoice)

\* The steps with a payment.
Submitted == {"paying", "unpaid", "breach", "paid", "served", "unauthorized"}

\* What a request has read of its challenge.
HasRead(p) ==
    /\ DOMAIN request[p] = {"step", "macaroon", "invoice", "sats"}
    /\ request[p].invoice \in 1 .. Len(registry)
    /\ request[p].macaroon \in {0, request[p].invoice}
    /\ Msat(p) \notin {None, Invalid}
    /\ request[p].sats = Satoshis(Msat(p))

Asked(p) ==
    \/ request[p] = [step |-> "start"]
    \/ \E n \in 1 .. Len(registry) : \E header \in HeadersOf(n) :
          request[p] = [step |-> "challenged", header |-> header]
    \/ At(p, "refused")
    \/ At(p, "pay") /\ HasRead(p)
    \/ request[p].step \in Submitted /\ HasRead(p) /\ request[p].sats + MaxFeeSats <= MaxU64

AllMsat == [proof |-> "valid", amount |-> "msat", fee |-> "msat"]

\* A payment is of the amount read, and "paid" of one that settled with what a
\* node of its kind reports.
Fair(pay, challenge) ==
    /\ pay.msat = DecodeAmount(challenge.invoice) /\ pay.cap = MaxFeeSats /\ pay.fee \in Nat
    /\ pay.fate = "succeeded" => pay.report \in Fields(pay.adapter)
    /\ pay.adapter = "mock" =>
          pay.fee = 0 /\ (pay.fate = "succeeded" => pay.report = AllMsat)
    /\ pay.outcome = "paid" => pay.fate = "succeeded" /\ pay.report.proof \in {"valid", "wrong"}

Made(p) ==
    IF request[p].step \in Submitted
    THEN Truthful(payment[p]) /\ Fair(payment[p], ChallengeOf(p))
    ELSE payment[p] = NoPayment

Judged(p) ==
    /\ request[p].step \in {"breach", "paid", "served", "unauthorized"} =>
          payment[p].outcome = "paid" /\ (At(p, "breach") <=> Violates(p))
    /\ At(p, "unauthorized") => payment[p].report.proof # "valid" \/ request[p].macaroon = 0

Good(p) == Asked(p) /\ Made(p) /\ Judged(p)

Exchanged == Sound /\ registry \in Seq(Challenges) /\ \A p \in Payers : Good(p)

-----------------------------------------------------------------------------

LEMMA SubmittedHasRead ==
    ASSUME NEW q, Asked(q), request[q].step \in Submitted
    PROVE  HasRead(q) /\ request[q].sats + MaxFeeSats <= MaxU64
<1>1. CASE \E n \in 1 .. Len(registry) : \E header \in HeadersOf(n) :
               request[q] = [step |-> "challenged", header |-> header]
  <2>1. PICK header : request[q] = [step |-> "challenged", header |-> header]
    BY <1>1
  <2>2. request[q].step = "challenged"
    BY <2>1
  <2> QED
    BY <2>2 DEF Submitted
<1>2. CASE request[q] = [step |-> "start"]
  BY <1>2 DEF Submitted
<1> QED
  BY <1>1, <1>2 DEF Asked, At, Submitted

LEMMA MockInvoiceIs == ASSUME NEW sats \in Nat PROVE IsInvoice(MockInvoice(sats))
<1> DEFINE h == Thousand \div 10
           t == Thousand
<1>1. t \in Nat \ {0} /\ h \in Nat \ {0}
  BY Half
<1>2. Factor("micro") \div Thousand = h
  <2>1. Factor("micro") = t * h
    BY DEF Factor
  <2> HIDE DEF h, t
  <2>2. (t * h) \div t = h
    BY <1>1
  <2> QED
    BY <2>1, <2>2 DEF t
<1>3. sats \div h \in Nat /\ sats * 10 \in Nat
  <2> HIDE DEF h
  <2> QED
    BY <1>1
<1> HIDE DEF h
<1>4. MockInvoice(sats) \in
         [network : {"lnbc"}, separator : {TRUE}, number : Nat, unit : {"micro", "nano"}]
  BY <1>2, <1>3 DEF MockInvoice
<1> QED
  BY <1>4 DEF IsInvoice, Networks, Units

LEMMA ChallengeShape ==
    ASSUME NEW challenge \in Challenges
    PROVE  /\ IsInvoice(challenge.invoice) /\ challenge.sats \in Nat
           /\ challenge.mock => challenge.invoice = MockInvoice(challenge.sats)
<1>1. CASE challenge \in {[mock |-> TRUE, invoice |-> MockInvoice(sats), sats |-> sats] : sats \in Prices}
  <2>1. PICK sats \in Prices : challenge = [mock |-> TRUE, invoice |-> MockInvoice(sats), sats |-> sats]
    BY <1>1
  <2>2. sats \in Nat
    BY ExchangeAssumption
  <2>3. challenge.invoice = MockInvoice(sats) /\ challenge.sats = sats
    BY <2>1
  <2> QED
    BY <2>2, <2>3, MockInvoiceIs
<1>2. CASE challenge \in {[mock |-> FALSE, invoice |-> invoice, sats |-> 0] : invoice \in Invoices}
  <2>1. PICK invoice \in Invoices : challenge = [mock |-> FALSE, invoice |-> invoice, sats |-> 0]
    BY <1>2
  <2>2. challenge.invoice = invoice /\ challenge.sats = 0 /\ ~challenge.mock
    BY <2>1
  <2> QED
    BY <2>2, ExchangeAssumption
<1> QED
  BY <1>1, <1>2 DEF Challenges

\* What has been read is a number of msat, and of as many satoshis or more.
LEMMA ReadAmount ==
    ASSUME registry \in Seq(Challenges), NEW p, HasRead(p)
    PROVE  /\ Msat(p) \in 1 .. MaxU64 /\ Msat(p) \in Nat
           /\ Pico(ChallengeOf(p).invoice) \div 10 = Msat(p)
           /\ request[p].sats = Satoshis(Msat(p)) /\ request[p].sats \in Nat
           /\ request[p].sats > 0 /\ Msat(p) <= request[p].sats * Thousand
<1>1. ChallengeOf(p) \in Challenges
  BY DEF HasRead, ChallengeOf
<1> DEFINE invoice == ChallengeOf(p).invoice
<1>2. IsInvoice(invoice) /\ DecodeAmount(invoice) \notin {None, Invalid} /\ Msat(p) = DecodeAmount(invoice)
  BY <1>1, ChallengeShape DEF HasRead, Msat
<1> HIDE DEF invoice
<1>3. DecodeAmount(invoice) \in 1 .. MaxU64 /\ Pico(invoice) \div 10 = DecodeAmount(invoice)
  BY <1>2, DecodedIsAsked
<1>4. Msat(p) \in 1 .. MaxU64 /\ Msat(p) \in Nat /\ Msat(p) > 0
  BY <1>2, <1>3, Bolt11Assumption
<1>5. /\ Satoshis(Msat(p)) \in Nat /\ Msat(p) <= Satoshis(Msat(p)) * Thousand
      /\ Satoshis(Msat(p)) > 0
  BY <1>4, RoundedUp
<1> QED
  BY <1>2, <1>3, <1>4, <1>5 DEF HasRead, invoice

-----------------------------------------------------------------------------
(* The registry only grows.                                                *)

Grows ==
    /\ Len(registry) <= Len(registry')
    /\ registry' \in Seq(Challenges)
    /\ \A n \in 1 .. Len(registry) : registry'[n] = registry[n]

LEMMA GrowsOrStays ==
    ASSUME registry \in Seq(Challenges), NEW challenge \in Challenges,
           registry' \in {registry, Append(registry, challenge)}
    PROVE  Grows
BY DEF Grows

LEMMA StaysInRange ==
    ASSUME registry \in Seq(Challenges), Grows
    PROVE  \A n \in 1 .. Len(registry) : n \in 1 .. Len(registry')
BY DEF Grows

\* Another payer's step leaves what a payer has read.
LEMMA ReadStays ==
    ASSUME registry \in Seq(Challenges), Grows, NEW q, HasRead(q),
           DOMAIN request'[q] = DOMAIN request[q], request'[q].invoice = request[q].invoice,
           request'[q].macaroon = request[q].macaroon, request'[q].sats = request[q].sats
    PROVE  HasRead(q)' /\ ChallengeOf(q)' = ChallengeOf(q)
<1>1. ChallengeOf(q)' = ChallengeOf(q)
  BY DEF ChallengeOf, HasRead, Grows
<1>2. Msat(q)' = Msat(q)
  BY <1>1 DEF Msat
<1>3. request[q].invoice \in 1 .. Len(registry')
  BY StaysInRange DEF HasRead
<1> QED
  BY <1>1, <1>2, <1>3 DEF HasRead

LEMMA StillGood ==
    ASSUME registry \in Seq(Challenges), Grows, NEW q, Good(q),
           request'[q] = request[q], payment'[q] = payment[q]
    PROVE  Good(q)'
<1>1. HasRead(q) => HasRead(q)' /\ ChallengeOf(q)' = ChallengeOf(q)
  BY ReadStays
<1>2. Asked(q)'
  <2>1. CASE request[q] = [step |-> "start"]
    BY <2>1 DEF Asked
  <2>2. CASE \E n \in 1 .. Len(registry) : \E header \in HeadersOf(n) :
               request[q] = [step |-> "challenged", header |-> header]
    BY <2>2, StaysInRange DEF Asked
  <2>3. CASE At(q, "refused")
    BY <2>3 DEF Asked, At
  <2>4. CASE At(q, "pay") /\ HasRead(q)
    BY <1>1, <2>4 DEF Asked, At
  <2>5. CASE request[q].step \in Submitted /\ HasRead(q) /\ request[q].sats + MaxFeeSats <= MaxU64
    BY <1>1, <2>5 DEF Asked
  <2> QED
    BY <2>1, <2>2, <2>3, <2>4, <2>5 DEF Good, Asked
<1>3. Made(q)'
  <2>1. request[q].step \in Submitted => HasRead(q)
    BY SubmittedHasRead DEF Good
  <2> QED
    BY <1>1, <2>1 DEF Good, Made
<1>4. Judged(q)'
  BY DEF Good, Judged, At, Violates
<1> QED
  BY <1>2, <1>3, <1>4 DEF Good

-----------------------------------------------------------------------------
(* A step on one payment keeps it fair, and settles it at most once.       *)

Keeps(old, new) ==
    /\ new.adapter = old.adapter
    /\ old.fate = "succeeded" =>
          /\ new.fate = "succeeded" /\ new.report = old.report
          /\ new.msat = old.msat /\ new.fee = old.fee /\ new.cap = old.cap
    /\ old.outcome # "none" => new.outcome = old.outcome

FairStep(p, challenge) ==
    /\ payment' = [payment EXCEPT ![p] = payment'[p]]
    /\ Fair(payment'[p], challenge)
    /\ Keeps(payment[p], payment'[p])

LEMMA FairUnsettled ==
    ASSUME Sound, NEW p \in Payers, Is(p, Adapters), NEW challenge, Fair(payment[p], challenge),
           NEW change, Become(p, change), DOMAIN change \subseteq {"fate", "lines", "link"},
           "fate" \in DOMAIN change =>
              payment[p].fate \in {"none", "in_flight"} /\ change["fate"] \in {"in_flight", "failed"}
    PROVE  FairStep(p, challenge)
<1>1. payment' = [payment EXCEPT ![p] = payment'[p]]
  BY Changed
<1>2. payment'[p] = [f \in FieldNames |-> IF f \in DOMAIN change THEN change[f] ELSE payment[p][f]]
  BY Changed
<1>3. /\ payment'[p].adapter = payment[p].adapter /\ payment'[p].msat = payment[p].msat
      /\ payment'[p].cap = payment[p].cap /\ payment'[p].fee = payment[p].fee
      /\ payment'[p].report = payment[p].report /\ payment'[p].outcome = payment[p].outcome
  BY <1>2 DEF FieldNames
<1>4. \/ payment'[p].fate = payment[p].fate
      \/ payment[p].fate \in {"none", "in_flight"} /\ payment'[p].fate \in {"in_flight", "failed"}
  BY <1>2 DEF FieldNames
<1>5. Fair(payment'[p], challenge)
  BY <1>3, <1>4 DEF Fair
<1>6. Keeps(payment[p], payment'[p])
  BY <1>3, <1>4 DEF Keeps
<1> QED
  BY <1>1, <1>5, <1>6 DEF FairStep

LEMMA NodeIsNoMock == ASSUME NEW p, Is(p, Nodes) PROVE payment[p].adapter # "mock" /\ Is(p, Adapters)
BY DEF Is, Nodes, Rest, Adapters

LEMMA FairSettled ==
    ASSUME Sound, NEW p \in Payers, NEW challenge, Fair(payment[p], challenge), NodeSettles(p)
    PROVE  FairStep(p, challenge)
<1>1. Is(p, Adapters) /\ payment[p].adapter # "mock" /\ payment[p].fate = "in_flight"
  BY NodeIsNoMock DEF NodeSettles
<1>2. PICK fee \in Fees, report \in Fields(payment[p].adapter) :
          Become(p, [fate |-> "succeeded", fee |-> fee, report |-> report])
  BY DEF NodeSettles
<1> DEFINE change == [fate |-> "succeeded", fee |-> fee, report |-> report]
<1>3. payment' = [payment EXCEPT ![p] = payment'[p]]
  BY <1>1, <1>2, Changed
<1>4. payment'[p] = [f \in FieldNames |-> IF f \in DOMAIN change THEN change[f] ELSE payment[p][f]]
  BY <1>1, <1>2, Changed
<1>5. /\ payment'[p].adapter = payment[p].adapter /\ payment'[p].msat = payment[p].msat
      /\ payment'[p].cap = payment[p].cap /\ payment'[p].outcome = payment[p].outcome
      /\ payment'[p].fee = fee /\ payment'[p].report = report /\ payment'[p].fate = "succeeded"
  BY <1>4 DEF FieldNames
<1>6. fee \in Nat
  BY WalletAssumption
<1>7. Fair(payment'[p], challenge)
  BY <1>1, <1>2, <1>5, <1>6 DEF Fair
<1>8. Keeps(payment[p], payment'[p])
  BY <1>1, <1>5 DEF Keeps
<1> QED
  BY <1>3, <1>7, <1>8 DEF FairStep

\* "paid" is never said of a report without a preimage of its own hash.
LEMMA PaidHasProof ==
    ASSUME NEW pay, Truthful(pay), pay.report \in Fields(pay.adapter), Outcome(pay) = "paid"
    PROVE  pay.report.proof \in {"valid", "wrong"}
<1> DEFINE proof == IF pay.report = None THEN "none" ELSE pay.report.proof
           heard == IF pay.link = "broken" /\ pay.adapter # "lnd_grpc" THEN <<>> ELSE pay.lines
<1> HIDE DEF heard
<1>1. CASE pay.adapter = "lnd_rest"
  <2>1. LndRest(heard, proof) = "paid"
    BY <1>1 DEF Outcome, heard
  <2>2. proof \in {"valid", "wrong"}
    BY <2>1 DEF LndRest
  <2> QED
    BY <2>2
<1>2. CASE pay.adapter = "cln_rest"
  <2>1. ClnRest(heard, proof) = "paid"
    BY <1>2 DEF Outcome, heard
  <2>2. proof # "none"
    <3>1. Len(heard) = 1 /\ heard[1] = "succeeded"
      BY <2>1 DEF ClnRest
    <3> QED
      BY <2>1, <3>1 DEF ClnRest
  <2>3. pay.report \in Report /\ pay.report.proof # "mismatch"
    BY <1>2 DEF Fields
  <2> QED
    BY <2>2, <2>3 DEF Report
<1>3. CASE pay.adapter \notin {"lnd_rest", "cln_rest"}
  BY <1>3 DEF Fields
<1> QED
  BY <1>1, <1>2, <1>3

LEMMA FairRead ==
    ASSUME Sound, NEW p \in Payers, NEW challenge, Fair(payment[p], challenge), Read(p)
    PROVE  FairStep(p, challenge)
<1> DEFINE said == Outcome(payment[p])
<1>1. Is(p, Adapters) /\ Truthful(payment[p]) /\ payment[p].outcome = "none"
  BY MadeIsTruthful DEF Read
<1>2. Become(p, [outcome |-> said])
  BY DEF Read
<1>3. said = "paid" => payment[p].fate = "succeeded"
  BY <1>1, OutcomeFromLines DEF Truthful
<1>4. said = "paid" => payment[p].report.proof \in {"valid", "wrong"}
  BY <1>1, <1>3, PaidHasProof DEF Fair
<1> HIDE DEF said
<1> DEFINE change == [outcome |-> said]
<1>5. payment' = [payment EXCEPT ![p] = payment'[p]]
  BY <1>1, <1>2, Changed
<1>6. payment'[p] = [f \in FieldNames |-> IF f \in DOMAIN change THEN change[f] ELSE payment[p][f]]
  BY <1>1, <1>2, Changed
<1>7. /\ payment'[p].adapter = payment[p].adapter /\ payment'[p].msat = payment[p].msat
      /\ payment'[p].cap = payment[p].cap /\ payment'[p].fee = payment[p].fee
      /\ payment'[p].report = payment[p].report /\ payment'[p].fate = payment[p].fate
      /\ payment'[p].outcome = said
  BY <1>6 DEF FieldNames
<1>8. Fair(payment'[p], challenge)
  BY <1>3, <1>4, <1>7 DEF Fair
<1>9. Keeps(payment[p], payment'[p])
  BY <1>1, <1>7 DEF Keeps
<1> QED
  BY <1>5, <1>8, <1>9 DEF FairStep

LEMMA FairWallet ==
    ASSUME Sound, NEW p \in Payers, NEW challenge, Fair(payment[p], challenge), WalletNext(p)
    PROVE  FairStep(p, challenge)
<1>1. CASE Submit(p)
  <2>1. Is(p, Adapters) /\ payment[p].link = "none"
    BY <1>1, NodeIsNoMock DEF Submit
  <2>2. payment[p].fate = "none"
    BY <2>1, MadeIsTruthful DEF Truthful
  <2>3. CASE Become(p, [fate |-> "in_flight", link |-> "open"])
    BY <2>1, <2>2, <2>3, FairUnsettled
  <2>4. CASE Become(p, [link |-> "broken"])
    BY <2>1, <2>4, FairUnsettled
  <2> QED
    BY <1>1, <2>3, <2>4 DEF Submit
<1>2. CASE NodeGivesUp(p)
  <2>1. Is(p, Adapters) /\ payment[p].fate = "in_flight" /\ Become(p, [fate |-> "failed"])
    BY <1>2, NodeIsNoMock DEF NodeGivesUp
  <2> QED
    BY <2>1, FairUnsettled
<1>3. CASE NodeWrites(p)
  <2>1. PICK line : Is(p, Adapters) /\ Become(p, [lines |-> Append(payment[p].lines, line)])
    BY <1>3, NodeIsNoMock DEF NodeWrites
  <2> DEFINE longer == Append(payment[p].lines, line)
  <2> HIDE DEF longer
  <2>2. Become(p, [lines |-> longer])
    BY <2>1 DEF longer
  <2> QED
    BY <2>1, <2>2, FairUnsettled
<1>4. CASE LinkEnds(p)
  <2>1. Is(p, Adapters)
    BY <1>4, NodeIsNoMock DEF LinkEnds
  <2>2. ASSUME NEW link, NEW lines, Become(p, [link |-> link]) \/ Become(p, [link |-> link, lines |-> lines])
        PROVE  FairStep(p, challenge)
    BY <2>1, <2>2, FairUnsettled
  <2>3. CASE Become(p, [link |-> "closed"]) \/ Become(p, [link |-> "broken"])
    BY <2>2, <2>3
  <2>4. CASE Become(p, [link |-> "closed", lines |-> Append(payment[p].lines, "error")])
    BY <2>2, <2>4
  <2>5. CASE Become(p, [link |-> "closed",
                        lines |-> [payment[p].lines EXCEPT ![Len(payment[p].lines)] = "cut"]])
    BY <2>2, <2>5
  <2> QED
    BY <1>4, <2>3, <2>4, <2>5 DEF LinkEnds
<1>5. CASE NodeSettles(p)
  BY <1>5, FairSettled
<1>6. CASE Read(p)
  BY <1>6, FairRead
<1> QED
  BY <1>1, <1>2, <1>3, <1>4, <1>5, <1>6 DEF WalletNext

\* The mock wallet pays the price it asked for.
LEMMA FairMock ==
    ASSUME Exchanged, NEW p \in Payers, HasRead(p), Fair(payment[p], ChallengeOf(p)), MockPays(p)
    PROVE  FairStep(p, ChallengeOf(p))
<1> DEFINE challenge == ChallengeOf(p)
<1>1. /\ Sound /\ Is(p, Adapters) /\ payment[p].adapter = "mock"
      /\ payment[p].link = "none"
  BY DEF MockPays, Is, Adapters, Exchanged
<1>2. payment[p].fate = "none" /\ payment[p].outcome = "none"
  BY <1>1, MadeIsTruthful DEF Truthful
<1>3. CASE Become(p, [lines |-> <<"failed">>, link |-> "closed"])
  <2> DEFINE lines == <<"failed">>
  <2> HIDE DEF lines
  <2>1. Become(p, [lines |-> lines, link |-> "closed"])
    BY <1>3 DEF lines
  <2> QED
    BY <1>1, <2>1, FairUnsettled
<1>4. CASE /\ challenge.mock
           /\ Become(p, [fate |-> "succeeded", lines |-> <<"succeeded">>, link |-> "closed",
                         msat |-> challenge.sats * Thousand, report |-> AllMsat])
  <2> DEFINE msat == challenge.sats * Thousand
             lines == <<"succeeded">>
             change == [fate |-> "succeeded", lines |-> lines, link |-> "closed",
                        msat |-> msat, report |-> AllMsat]
  <2>1. challenge \in Challenges
    BY DEF Exchanged, HasRead, ChallengeOf
  <2>2. msat = DecodeAmount(challenge.invoice)
    <3>1. challenge.sats \in Nat /\ challenge.invoice = MockInvoice(challenge.sats)
      BY <1>4, <2>1, ChallengeShape
    <3>2. DecodeAmount(MockInvoice(challenge.sats)) \notin {None, Invalid}
      BY <3>1 DEF HasRead, Msat
    <3> QED
      BY <3>1, <3>2, MockDecoded
  <2>3. Become(p, change)
    BY <1>4
  <2> HIDE DEF msat, lines
  <2>4. payment' = [payment EXCEPT ![p] = payment'[p]]
    BY <1>1, <2>3, Changed
  <2>5. payment'[p] = [f \in FieldNames |-> IF f \in DOMAIN change THEN change[f] ELSE payment[p][f]]
    BY <1>1, <2>3, Changed
  <2>6. /\ payment'[p].adapter = "mock" /\ payment'[p].msat = msat
        /\ payment'[p].cap = payment[p].cap /\ payment'[p].fee = payment[p].fee
        /\ payment'[p].report = AllMsat /\ payment'[p].fate = "succeeded"
        /\ payment'[p].outcome = payment[p].outcome
    BY <1>1, <2>5 DEF FieldNames
  <2>7. AllMsat \in Fields("mock") /\ AllMsat.proof # "none"
    BY DEF AllMsat, Fields, Report
  <2> HIDE DEF change, challenge
  <2>8. Fair(payment'[p], challenge)
    BY <1>1, <1>2, <2>2, <2>6, <2>7 DEF Fair, challenge
  <2>9. Keeps(payment[p], payment'[p])
    BY <1>1, <1>2, <2>6 DEF Keeps
  <2> QED
    BY <2>4, <2>8, <2>9 DEF FairStep, challenge
<1> QED
  BY <1>3, <1>4 DEF MockPays, ChallengeOf, AllMsat

-----------------------------------------------------------------------------
(* The invariant is kept.                                                  *)

\* The other payers, in a step of one.
LEMMA OthersGood ==
    ASSUME Exchanged, Grows, NEW p \in Payers, Good(p)',
           \A q \in Payers \ {p} : request'[q] = request[q] /\ payment'[q] = payment[q],
           Sound'
    PROVE  Exchanged'
<1>1. ASSUME NEW q \in Payers PROVE Good(q)'
  <2>1. CASE q = p
    BY <2>1
  <2>2. CASE q # p
    BY <2>2, StillGood DEF Exchanged
  <2> QED
    BY <2>1, <2>2
<1>2. registry' \in Seq(Challenges)
  BY DEF Grows
<1> QED
  BY <1>1, <1>2 DEF Exchanged

LEMMA PaymentStepGood ==
    ASSUME Exchanged, NEW p \in Payers, request[p].step \in Submitted, UNCHANGED <<request, registry>>,
           FairStep(p, ChallengeOf(p)), Truthful(payment'[p]), Sound'
    PROVE  Exchanged'
<1>1. Good(p) /\ HasRead(p)
  BY SubmittedHasRead DEF Exchanged, Good
<1>2. Asked(p)' /\ ChallengeOf(p)' = ChallengeOf(p)
  BY <1>1 DEF Good, Asked, At, HasRead, Msat, ChallengeOf
<1>3. Made(p)'
  BY <1>2 DEF Made, FairStep
<1>4. Judged(p)'
  <2>1. CASE request[p].step \in {"breach", "paid", "served", "unauthorized"}
    <3>1. payment[p].outcome = "paid"
      BY <1>1, <2>1 DEF Good, Judged
    <3>2. payment[p].fate = "succeeded"
      BY <1>1, <3>1 DEF Good, Made, Fair
    <3>3. /\ payment'[p].adapter = payment[p].adapter /\ payment'[p].report = payment[p].report
          /\ payment'[p].msat = payment[p].msat /\ payment'[p].fee = payment[p].fee
          /\ payment'[p].cap = payment[p].cap /\ payment'[p].outcome = "paid"
      BY <3>1, <3>2 DEF FairStep, Keeps
    <3>4. Violates(p)' <=> Violates(p)
      BY <3>3 DEF Violates, AmountSats, FeeSats
    <3> QED
      BY <1>1, <3>1, <3>3, <3>4 DEF Good, Judged, At
  <2>2. CASE request[p].step \notin {"breach", "paid", "served", "unauthorized"}
    BY <2>2 DEF Judged, At
  <2> QED
    BY <2>1, <2>2
<1>5. \A q \in Payers \ {p} : payment'[q] = payment[q]
  BY DEF FairStep, Exchanged, Sound
<1>6. Grows
  BY DEF Grows, Exchanged
<1> QED
  BY <1>2, <1>3, <1>4, <1>5, <1>6, OthersGood DEF Good

\* The payment of a request that has one.
PaymentIsMade(p) ==
    /\ request[p].step \in Submitted /\ HasRead(p)
    /\ Truthful(payment[p]) /\ Fair(payment[p], ChallengeOf(p))

LEMMA TruthfulIsMade ==
    ASSUME Exchanged, NEW p \in Payers, Truthful(payment[p])
    PROVE  PaymentIsMade(p)
<1>1. payment[p] # NoPayment
  <2>1. NoPayment.adapter \notin Nodes \cup {"mock"}
    BY DEF NoPayment, Nodes, Rest
  <2> QED
    BY <2>1 DEF Truthful
<1>2. request[p].step \in Submitted /\ Good(p)
  BY <1>1 DEF Exchanged, Good, Made
<1>3. HasRead(p)
  BY <1>2, SubmittedHasRead DEF Good
<1> QED
  BY <1>2, <1>3 DEF Good, Made, PaymentIsMade

LEMMA MovedIsGood ==
    ASSUME Exchanged, NEW p \in Payers, PaymentIsMade(p), UNCHANGED <<request, registry>>,
           FairStep(p, ChallengeOf(p)), Moved(p), Sound'
    PROVE  Exchanged'
<1>1. payment'[p].adapter \in Nodes \cup {"mock"}
  BY DEF FairStep, Keeps, PaymentIsMade, Truthful
<1>2. payment'[p] # NoPayment
  BY <1>1 DEF NoPayment, Nodes, Rest
<1>3. Truthful(payment'[p])
  BY <1>2 DEF Moved
<1> QED
  BY <1>3, PaymentStepGood DEF PaymentIsMade

LEMMA IssueGood ==
    ASSUME Exchanged, NEW p \in Payers, NEW challenge \in Challenges,
           NEW header \in HeadersOf(Len(registry) + 1), Issue(p, challenge, header), Sound'
    PROVE  Exchanged'
<1>1. /\ registry \in Seq(Challenges) /\ registry' = Append(registry, challenge)
      /\ payment' = payment /\ At(p, "start")
      /\ request' = [request EXCEPT ![p] = [step |-> "challenged", header |-> header]]
  BY DEF Issue, Exchanged
<1>2. Grows /\ Len(registry) + 1 \in 1 .. Len(registry')
  BY <1>1, GrowsOrStays
<1>3. request'[p] = [step |-> "challenged", header |-> header]
      /\ \A q \in Payers \ {p} : request'[q] = request[q]
  BY <1>1 DEF Exchanged, Sound
<1>4. request'[p].step = "challenged"
  BY <1>3
<1>5. Asked(p)'
  BY <1>2, <1>3 DEF Asked
<1>6. payment[p] = NoPayment
  BY <1>1 DEF Exchanged, Sound, Unpaid, At
<1>7. Made(p)' /\ Judged(p)'
  BY <1>1, <1>4, <1>6 DEF Made, Judged, Submitted, At
<1> QED
  BY <1>1, <1>2, <1>3, <1>5, <1>7, OthersGood DEF Good

LEMMA ReadGood ==
    ASSUME Exchanged, NEW p \in Payers, ReadChallenge(p), Sound'
    PROVE  Exchanged'
<1> DEFINE read == FromHeader(request[p].header)
           sats == Satoshis(DecodeAmount(registry[read.invoice].invoice))
<1>1. registry' = registry /\ payment' = payment /\ At(p, "challenged") /\ payment[p] = NoPayment
      /\ registry \in Seq(Challenges)
  BY DEF ReadChallenge, Exchanged, Sound, Unpaid, At
<1>2. Grows
  BY <1>1 DEF Grows
<1>3. CASE request' = [request EXCEPT ![p] = [step |-> "refused"]]
  <2>1. request'[p].step = "refused" /\ \A q \in Payers \ {p} : request'[q] = request[q]
    BY <1>3 DEF Exchanged, Sound
  <2>2. Asked(p)' /\ Made(p)' /\ Judged(p)'
    BY <1>1, <2>1 DEF Asked, Made, Judged, Submitted, At
  <2> QED
    BY <1>1, <1>2, <2>1, <2>2, OthersGood DEF Good
<1>4. CASE /\ Readable(read)
           /\ request' = [request EXCEPT ![p] =
                [step |-> "pay", macaroon |-> read.macaroon, invoice |-> read.invoice, sats |-> sats]]
  <2>0. request[p].step = "challenged" /\ Asked(p)
    BY <1>1 DEF At, Exchanged, Good
  <2>1. PICK n \in 1 .. Len(registry) : \E header \in HeadersOf(n) :
            request[p] = [step |-> "challenged", header |-> header]
    <3>1. request[p] # [step |-> "start"] /\ request[p].step \notin Submitted
          /\ ~At(p, "refused") /\ ~At(p, "pay")
      BY <2>0 DEF At, Submitted
    <3> QED
      BY <2>0, <3>1 DEF Asked
  <2>2. request[p].header \in HeadersOf(n) /\ n \in Nat
    BY <1>1, <2>1
  <2>3. read # NotAHeader /\ DecodeAmount(registry[read.invoice].invoice) \notin {None, Invalid}
    BY <1>4 DEF Readable
  <2>5. read.macaroon \in {0, n} /\ read.invoice = n
    BY <2>2, <2>3, HeaderIsAbout
  <2> DEFINE macaroon == read.macaroon
  <2> HIDE DEF read, sats
  <2> DEFINE new == [step |-> "pay", macaroon |-> macaroon, invoice |-> n, sats |-> sats]
  <2>6. request' = [request EXCEPT ![p] = new]
    BY <1>4, <2>5
  <2>7. request'[p] = new /\ \A q \in Payers \ {p} : request'[q] = request[q]
    BY <2>6 DEF Exchanged, Sound
  <2>8. DOMAIN new = {"step", "macaroon", "invoice", "sats"} /\ new.step = "pay"
        /\ new.invoice = n /\ new.macaroon = macaroon /\ new.sats = sats
    OBVIOUS
  <2>9. sats = Satoshis(DecodeAmount(registry[n].invoice))
    BY <2>5 DEF sats
  <2> HIDE DEF new
  <2>10. HasRead(p)'
    BY <1>1, <2>3, <2>5, <2>7, <2>8, <2>9 DEF HasRead, Msat, ChallengeOf
  <2>11. Asked(p)' /\ Made(p)' /\ Judged(p)'
    BY <1>1, <2>7, <2>8, <2>10 DEF Asked, Made, Judged, Submitted, At
  <2> QED
    BY <1>1, <1>2, <2>7, <2>11, OthersGood DEF Good
<1> QED
  BY <1>3, <1>4 DEF ReadChallenge

\* A request that goes on keeps what it has read.
LEMMA GotoKeepsRead ==
    ASSUME Exchanged, NEW p \in Payers, HasRead(p), NEW step, Goto(p, step), registry' = registry
    PROVE  /\ HasRead(p)' /\ ChallengeOf(p)' = ChallengeOf(p)
           /\ request'[p].step = step /\ request'[p].sats = request[p].sats
           /\ request'[p].invoice = request[p].invoice
           /\ request'[p].macaroon = request[p].macaroon
           /\ \A q \in Payers \ {p} : request'[q] = request[q]
<1>1. request' = [request EXCEPT ![p].step = step] /\ request = [q \in Payers |-> request[q]]
  BY DEF Goto, Exchanged, Sound
<1>2. request'[p] = [request[p] EXCEPT !.step = step]
      /\ \A q \in Payers \ {p} : request'[q] = request[q]
  BY <1>1
<1>3. DOMAIN request[p] = {"step", "macaroon", "invoice", "sats"}
  BY DEF HasRead
<1>4. /\ DOMAIN request'[p] = DOMAIN request[p] /\ request'[p].step = step
      /\ request'[p].invoice = request[p].invoice /\ request'[p].sats = request[p].sats
      /\ request'[p].macaroon = request[p].macaroon
  BY <1>2, <1>3 DEF Sound, Exchanged
<1>5. registry \in Seq(Challenges) /\ Grows
  BY DEF Exchanged, Grows
<1>6. HasRead(p)' /\ ChallengeOf(p)' = ChallengeOf(p)
  BY <1>4, <1>5, ReadStays
<1> QED
  BY <1>2, <1>4, <1>6

\* A request that is refused is at rest.
LEMMA RefusedGood ==
    ASSUME Exchanged, NEW p \in Payers, payment[p] = NoPayment,
           request' = [request EXCEPT ![p] = [step |-> "refused"]],
           UNCHANGED <<payment, registry>>, Sound'
    PROVE  Exchanged'
<1>1. request'[p].step = "refused" /\ \A q \in Payers \ {p} : request'[q] = request[q]
  BY DEF Exchanged, Sound
<1>2. Grows
  BY DEF Grows, Exchanged
<1>3. Asked(p)' /\ Made(p)' /\ Judged(p)'
  BY <1>1 DEF Asked, Made, Judged, Submitted, At
<1> QED
  BY <1>1, <1>2, <1>3, OthersGood DEF Good

LEMMA PayGood ==
    ASSUME Exchanged, NEW p \in Payers, Pay(p), Sound'
    PROVE  Exchanged'
<1>1. registry' = registry /\ request[p].step = "pay" /\ payment[p] = NoPayment /\ Asked(p)
  BY DEF Pay, Exchanged, Sound, Unpaid, At, Good
<1>2. HasRead(p)
  <2>1. ~ \E n \in 1 .. Len(registry) : \E header \in HeadersOf(n) :
               request[p] = [step |-> "challenged", header |-> header]
    <3>1. ASSUME NEW header, request[p] = [step |-> "challenged", header |-> header] PROVE FALSE
      BY <1>1, <3>1
    <3> QED
      BY <3>1
  <2>2. request[p] # [step |-> "start"]
    BY <1>1
  <2> QED
    BY <1>1, <2>1, <2>2 DEF Asked, At, Submitted
<1> DEFINE msat == Pico(registry[request[p].invoice].invoice) \div 10
<1>3. msat = Msat(p) /\ request[p].sats \in Nat
  BY <1>2, ReadAmount DEF Exchanged, ChallengeOf
<1> HIDE DEF msat
<1>4. PICK adapter \in AdaptersOf[p] :
       \/ request' = [request EXCEPT ![p] = [step |-> "refused"]] /\ UNCHANGED payment
       \/ /\ SupportsFeeLimit(adapter) /\ request[p].sats + MaxFeeSats <= MaxU64
          /\ payment' = [payment EXCEPT ![p] = NewPayment(adapter, msat, MaxFeeSats)]
          /\ Goto(p, "paying")
  BY DEF Pay, msat
<1>5. CASE request' = [request EXCEPT ![p] = [step |-> "refused"]] /\ UNCHANGED payment
  BY <1>1, <1>5, RefusedGood
<1>6. CASE /\ SupportsFeeLimit(adapter) /\ request[p].sats + MaxFeeSats <= MaxU64
           /\ payment' = [payment EXCEPT ![p] = NewPayment(adapter, msat, MaxFeeSats)]
           /\ Goto(p, "paying")
  <2> DEFINE new == NewPayment(adapter, msat, MaxFeeSats)
  <2>1. adapter \in Adapters
    BY WalletAssumption
  <2>2. Truthful(new)
    BY <1>6, <2>1, PaymentMade
  <2>3. /\ new.msat = msat /\ new.cap = MaxFeeSats /\ new.fee = 0
        /\ new.fate = "none" /\ new.outcome = "none"
    BY DEF NewPayment
  <2> HIDE DEF new
  <2>4. Fair(new, ChallengeOf(p))
    BY <1>3, <2>3 DEF Fair, Msat
  <2>5. payment'[p] = new /\ \A q \in Payers \ {p} : payment'[q] = payment[q]
    BY <1>6 DEF new, Exchanged, Sound
  <2> DEFINE paying == "paying"
  <2>6. Goto(p, paying)
    BY <1>6
  <2> HIDE DEF paying
  <2>7. HasRead(p)' /\ ChallengeOf(p)' = ChallengeOf(p)
    BY <1>1, <1>2, <2>6, GotoKeepsRead
  <2>8. request'[p].step = paying /\ request'[p].sats = request[p].sats
    BY <1>1, <1>2, <2>6, GotoKeepsRead
  <2>9. \A q \in Payers \ {p} : request'[q] = request[q]
    BY <1>1, <1>2, <2>6, GotoKeepsRead
  <2>10. Asked(p)'
    BY <1>6, <2>7, <2>8 DEF Asked, Submitted, paying
  <2>11. Made(p)'
    BY <2>2, <2>4, <2>5, <2>7, <2>8 DEF Made, Submitted, paying
  <2>12. Judged(p)'
    BY <2>8 DEF Judged, At, paying
  <2>13. Grows
    BY <1>1 DEF Grows, Exchanged
  <2> QED
    BY <2>5, <2>9, <2>10, <2>11, <2>12, <2>13, OthersGood DEF Good
<1> QED
  BY <1>4, <1>5, <1>6

\* A request whose payment is judged.
LEMMA JudgedGood ==
    ASSUME Exchanged, NEW p \in Payers, request[p].step \in Submitted, NEW step \in Submitted,
           Goto(p, step), UNCHANGED <<payment, registry>>, Sound',
           step \in {"breach", "paid", "served", "unauthorized"} =>
              payment[p].outcome = "paid" /\ (step = "breach" <=> Violates(p)),
           step = "unauthorized" => payment[p].report.proof # "valid" \/ request[p].macaroon = 0
    PROVE  Exchanged'
<1>1. Good(p) /\ HasRead(p) /\ request[p].sats + MaxFeeSats <= MaxU64
  BY SubmittedHasRead DEF Exchanged, Good
<1>2. HasRead(p)' /\ ChallengeOf(p)' = ChallengeOf(p)
  BY <1>1, GotoKeepsRead
<1>3. /\ request'[p].step = step /\ request'[p].sats = request[p].sats
      /\ request'[p].macaroon = request[p].macaroon
  BY <1>1, GotoKeepsRead
<1>4. \A q \in Payers \ {p} : request'[q] = request[q]
  BY <1>1, GotoKeepsRead
<1>5. Asked(p)'
  BY <1>1, <1>2, <1>3 DEF Asked
<1>6. Made(p)'
  BY <1>1, <1>2, <1>3 DEF Good, Made
<1>7. Violates(p)' <=> Violates(p)
  BY <1>3 DEF Violates
<1>8. Judged(p)'
  BY <1>3, <1>7 DEF Judged, At
<1>9. Grows
  BY DEF Grows, Exchanged
<1> QED
  BY <1>4, <1>5, <1>6, <1>8, <1>9, OthersGood DEF Good

LEMMA SettleGood ==
    ASSUME Exchanged, NEW p \in Payers, Settle(p), Sound'
    PROVE  Exchanged'
<1>1. PICK step :
        /\ Goto(p, step)
        /\ \/ step = "unpaid"
           \/ step = "breach" /\ payment[p].outcome = "paid" /\ Violates(p)
           \/ step = "paid" /\ payment[p].outcome = "paid" /\ ~Violates(p)
  BY DEF Settle
<1>2. request[p].step \in Submitted /\ step \in Submitted /\ UNCHANGED <<payment, registry>>
  BY <1>1 DEF Settle, At, Submitted
<1> QED
  BY <1>1, <1>2, JudgedGood

LEMMA ThreeWords ==
    ASSUME NEW a, NEW b, NEW c
    PROVE  SubSeq(<<a, b, c>>, 1, 2 - 1) = <<a>> /\ SubSeq(<<a, b, c>>, 2 + 1, 3) = <<c>>
<1> DEFINE S == {a, b, c}
           s == <<a, b, c>>
<1>1. s \in Seq(S) /\ Len(s) = 3 /\ s[1] = a /\ s[3] = c
  OBVIOUS
<1> HIDE DEF s
<1> DEFINE first == SubSeq(s, 1, 1)
           last == SubSeq(s, 3, 3)
<1>2. /\ first \in Seq(S) /\ Len(first) = 1 /\ first[1] = s[1]
      /\ last \in Seq(S) /\ Len(last) = 1 /\ last[1] = s[3]
  BY <1>1
<1> HIDE DEF first, last
<1>3. first = <<a>>
  BY <1>1, <1>2
<1>4. last = <<c>>
  BY <1>1, <1>2
<1> QED
  BY <1>3, <1>4 DEF first, last, s

\* The server knows the macaroon and the preimage of its own challenge.
LEMMA TokenValid ==
    ASSUME NEW n \in 1 .. Len(registry)
    PROVE  Validates(ToHeader(n, n))
<1> DEFINE mac == Symbol("mac", n)
           pre == Symbol("pre", n)
           text == <<mac, Colon, pre>>
<1>1. mac # Colon /\ pre # Colon
  BY DEF Symbol, Text, Colon
<1>2. ToHeader(n, n) = [scheme |-> "L402", text |-> text]
  BY DEF ToHeader
<1> HIDE DEF mac, pre
<1>3. Places(text, Colon) = {2}
  <2>1. Len(text) = 3 /\ text[1] = mac /\ text[2] = Colon /\ text[3] = pre
    OBVIOUS
  <2> HIDE DEF text
  <2> QED
    BY <1>1, <2>1 DEF Places
<1>4. Min(Places(text, Colon)) = 2
  <2>1. Places(text, Colon) \subseteq Nat /\ Places(text, Colon) # {}
    BY <1>3
  <2>2. Min(Places(text, Colon)) \in Places(text, Colon)
    BY <2>1, MinIsLeast
  <2> QED
    BY <1>3, <2>2
<1>5. Before(text, Colon) = <<mac>> /\ After(text, Colon) = <<pre>>
  <2>1. Len(text) = 3
    OBVIOUS
  <2>2. SubSeq(text, 1, 2 - 1) = <<mac>> /\ SubSeq(text, 2 + 1, 3) = <<pre>>
    BY ThreeWords
  <2> HIDE DEF text
  <2> QED
    BY <1>4, <2>1, <2>2 DEF Before, After
<1> DEFINE header == ToHeader(n, n)
<1>6. header.scheme = "L402" /\ header.text = text
  BY <1>2
<1> HIDE DEF header, text
<1>7. Validates(header)
  BY <1>3, <1>5, <1>6 DEF Validates, KnownScheme, mac, pre
<1> QED
  BY <1>7 DEF header

LEMMA SendTokenGood ==
    ASSUME Exchanged, NEW p \in Payers, SendToken(p), Sound'
    PROVE  Exchanged'
<1>1. At(p, "paid") /\ Good(p) /\ request[p].step \in Submitted /\ UNCHANGED <<payment, registry>>
  BY DEF SendToken, Exchanged, At, Submitted
<1>2. HasRead(p) /\ payment[p].outcome = "paid" /\ ~Violates(p)
  BY <1>1, SubmittedHasRead DEF Good, Judged, At
<1> DEFINE proof == payment[p].report.proof
           preimage == IF proof = "valid" THEN request[p].invoice ELSE 0
           token == ToHeader(request[p].macaroon, preimage)
<1>3. proof = "valid" /\ request[p].macaroon # 0 => Validates(token)
  BY <1>2, TokenValid DEF HasRead
<1>4. Goto(p, IF Validates(token) THEN "served" ELSE "unauthorized")
  BY DEF SendToken
<1> HIDE DEF proof, token
<1>5. CASE Validates(token)
  <2>1. Goto(p, "served") /\ "served" \in Submitted
    BY <1>4, <1>5 DEF Submitted
  <2> QED
    BY <1>1, <1>2, <2>1, JudgedGood
<1>6. CASE ~Validates(token)
  <2>1. Goto(p, "unauthorized") /\ "unauthorized" \in Submitted
    BY <1>4, <1>6 DEF Submitted
  <2>2. payment[p].report.proof # "valid" \/ request[p].macaroon = 0
    BY <1>3, <1>6 DEF proof
  <2> QED
    BY <1>1, <1>2, <2>1, <2>2, JudgedGood
<1> QED
  BY <1>5, <1>6

-----------------------------------------------------------------------------

LEMMA WalletStepGood ==
    ASSUME Exchanged, NEW p \in Payers, WalletStep(p), Sound'
    PROVE  Exchanged'
<1>1. Sound /\ WalletNext(p) /\ UNCHANGED <<request, registry>>
  BY DEF WalletStep, Exchanged
<1>2. Truthful(payment[p]) /\ ~Unpaid(p)
  <2>1. Is(p, Adapters)
    BY <1>1, AdaptersOnly
    DEF WalletNext, Submit, Read, NodeSettles, NodeGivesUp, NodeWrites, LinkEnds, Is
  <2> QED
    BY <1>1, <2>1, MadeIsTruthful
<1>3. PaymentIsMade(p)
  BY <1>2, TruthfulIsMade
<1>4. FairStep(p, ChallengeOf(p))
  BY <1>1, <1>3, FairWallet DEF PaymentIsMade
<1>5. Moved(p)
  BY <1>1, WalletMoves
<1> QED
  BY <1>1, <1>3, <1>4, <1>5, MovedIsGood

LEMMA MockPaysGood ==
    ASSUME Exchanged, NEW p \in Payers, MockPays(p), Sound'
    PROVE  Exchanged'
<1>1. Sound /\ UNCHANGED <<request, registry>> /\ Is(p, Adapters)
  BY AdaptersOnly DEF MockPays, Exchanged, Is
<1>2. Truthful(payment[p])
  BY <1>1, MadeIsTruthful
<1>3. PaymentIsMade(p)
  BY <1>2, TruthfulIsMade
<1>4. FairStep(p, ChallengeOf(p))
  BY <1>3, FairMock DEF PaymentIsMade
<1>5. Moved(p)
  BY <1>1, MockMoves
<1> QED
  BY <1>1, <1>3, <1>4, <1>5, MovedIsGood

LEMMA StepExchanged == ASSUME Exchanged, [Next]_vars PROVE Exchanged'
<1>1. CASE Next
  <2>1. Sound'
    BY <1>1, StepSound DEF Exchanged
  <2>2. PICK p \in Payers :
        \/ MockChallenges(p) \/ ServerChallenges(p) \/ ReadChallenge(p)
        \/ Pay(p) \/ MockPays(p) \/ WalletStep(p) \/ Settle(p) \/ SendToken(p)
    BY <1>1 DEF Next
  <2> DEFINE n == Len(registry) + 1
  <2>3. CASE MockChallenges(p)
    <3>1. PICK sats \in Prices :
            Issue(p, [mock |-> TRUE, invoice |-> MockInvoice(sats), sats |-> sats], MockHeader(n))
      BY <2>3 DEF MockChallenges
    <3>2. MockHeader(n) \in HeadersOf(n)
      BY DEF HeadersOf
    <3>3. [mock |-> TRUE, invoice |-> MockInvoice(sats), sats |-> sats] \in Challenges
      BY DEF Challenges
    <3> QED
      BY <2>1, <3>1, <3>2, <3>3, IssueGood
  <2>4. CASE ServerChallenges(p)
    <3>1. PICK invoice \in Invoices, template \in Templates :
            Issue(p, [mock |-> FALSE, invoice |-> invoice, sats |-> 0], HeaderOf(template, n))
      BY <2>4 DEF ServerChallenges
    <3> DEFINE header == HeaderOf(template, n)
    <3>2. Issue(p, [mock |-> FALSE, invoice |-> invoice, sats |-> 0], header)
      BY <3>1
    <3>3. header \in HeadersOf(n)
      BY DEF HeadersOf
    <3> HIDE DEF header
    <3>4. [mock |-> FALSE, invoice |-> invoice, sats |-> 0] \in Challenges
      BY DEF Challenges
    <3> QED
      BY <2>1, <3>2, <3>3, <3>4, IssueGood
  <2> QED
    BY <2>1, <2>2, <2>3, <2>4, ReadGood, PayGood, MockPaysGood, WalletStepGood, SettleGood,
       SendTokenGood
<1>2. CASE UNCHANGED vars
  <2>1. UNCHANGED <<payment, request, registry>>
    BY <1>2 DEF vars
  <2>2. Sound'
    BY <2>1 DEF Exchanged, Sound, Unpaid
  <2>3. Grows
    BY <2>1 DEF Exchanged, Grows
  <2>4. \A q \in Payers : Good(q)'
    BY <2>1, <2>3, StillGood DEF Exchanged
  <2> QED
    BY <2>1, <2>2, <2>3, <2>4 DEF Exchanged, Grows
<1> QED
  BY <1>1, <1>2

LEMMA InitExchanged == ASSUME Init PROVE Exchanged
<1>1. Sound
  BY InitSound
<1>2. registry \in Seq(Challenges)
  BY DEF Init
<1>3. ASSUME NEW p \in Payers PROVE Good(p)
  <2>1. request[p] = [step |-> "start"] /\ request[p].step = "start" /\ payment[p] = NoPayment
    BY DEF Init
  <2> QED
    BY <2>1 DEF Good, Asked, Made, Judged, Submitted, At
<1> QED
  BY <1>1, <1>2, <1>3 DEF Exchanged

LEMMA ExchangedAlways == Spec => []Exchanged
BY InitExchanged, StepExchanged, PTL DEF Spec

-----------------------------------------------------------------------------
(* What the client makes of a settled payment.                             *)

\* The amounts known of a payment.
LEMMA PaymentAmounts ==
    ASSUME Exchanged, NEW p \in Payers, PaymentIsMade(p)
    PROVE  /\ payment[p].msat \in Nat /\ payment[p].fee \in Nat /\ payment[p].cap = MaxFeeSats
           /\ request[p].sats = Satoshis(payment[p].msat) /\ request[p].sats \in Nat
           /\ request[p].sats > 0 /\ payment[p].msat <= request[p].sats * Thousand
<1>1. HasRead(p) /\ payment[p].msat = Msat(p) /\ payment[p].fee \in Nat /\ payment[p].cap = MaxFeeSats
  BY DEF PaymentIsMade, Fair, Msat
<1> QED
  BY <1>1, ReadAmount DEF Exchanged

LEMMA JudgedIsMade ==
    ASSUME Exchanged, NEW p \in Payers, request[p].step \in {"breach", "paid", "served", "unauthorized"}
    PROVE  /\ PaymentIsMade(p)
           /\ payment[p].fate = "succeeded" /\ payment[p].report \in Report
           /\ payment[p].report.proof \in {"valid", "wrong"}
           /\ payment[p].report \in Fields(payment[p].adapter)
           /\ At(p, "breach") <=> Violates(p)
           /\ At(p, "unauthorized") => payment[p].report.proof # "valid" \/ request[p].macaroon = 0
           /\ request[p].sats + MaxFeeSats <= MaxU64
<1>1. Good(p) /\ request[p].step \in Submitted
  BY DEF Exchanged, Submitted
<1>2. HasRead(p) /\ request[p].sats + MaxFeeSats <= MaxU64
  BY <1>1, SubmittedHasRead DEF Good
<1>3. PaymentIsMade(p) /\ payment[p].outcome = "paid"
  BY <1>1, <1>2 DEF Good, Made, Judged, PaymentIsMade
<1>4. /\ payment[p].fate = "succeeded" /\ payment[p].report \in Fields(payment[p].adapter)
      /\ payment[p].report.proof \in {"valid", "wrong"}
  BY <1>3 DEF PaymentIsMade, Fair
<1>5. payment[p].report \in Report
  BY <1>4 DEF Fields
<1> QED
  BY <1>1, <1>2, <1>3, <1>4, <1>5 DEF Good, Judged

LEMMA LessAdded == ASSUME NEW a \in Nat, NEW b \in Nat PROVE Less(a + b, a) = b
BY DEF Less

\* A report in msat is rounded up.
LEMMA MsatReported ==
    ASSUME NEW pay, pay.msat \in Nat, pay.fee \in Nat,
           pay.report.amount = "msat", pay.report.fee = "msat"
    PROVE  AmountSats(pay) = Satoshis(pay.msat) /\ FeeSats(pay) = Satoshis(pay.fee)
<1>1. CASE pay.adapter \in {"lnd_rest", "lnd_grpc"}
  BY <1>1 DEF AmountSats, FeeSats, LndSats
<1>2. CASE pay.adapter \notin {"lnd_rest", "lnd_grpc"}
  <2>1. AmountSats(pay) = Satoshis(pay.msat)
    BY <1>2 DEF AmountSats, ClnMsat
  <2>2. FeeSats(pay) = Satoshis(Less(pay.msat + pay.fee, pay.msat))
    BY <1>2 DEF FeeSats, ClnMsat
  <2> QED
    BY <2>1, <2>2, LessAdded
<1> QED
  BY <1>1, <1>2

LEMMA LeastOfTwo ==
    ASSUME NEW a \in Nat, NEW b \in Nat
    PROVE  Min({a, b}) \in Nat /\ Min({a, b}) <= a
<1>1. {a, b} \subseteq Nat /\ {a, b} # {} /\ a \in {a, b}
  OBVIOUS
<1> DEFINE S == {a, b}
<1>2. S \subseteq Nat /\ S # {} /\ a \in S
  BY <1>1
<1> HIDE DEF S
<1>3. Min(S) \in S /\ \A n \in S : Min(S) <= n
  BY <1>2, MinIsLeast
<1>4. Min(S) \in Nat /\ Min(S) <= a
  BY <1>2, <1>3
<1> QED
  BY <1>4 DEF S

\* No adapter gives its node a higher limit than the client's.
LEMMA CapWithin ==
    ASSUME NEW adapter \in Nodes, NEW cap \in Nat
    PROVE  CapMsat(adapter, cap) \in Nat /\ CapMsat(adapter, cap) <= cap * Thousand
<1> DEFINE t == Thousand
           all == cap * t
<1>1. t \in Nat /\ all \in Nat /\ MaxI64 \in Nat /\ MaxU64 \in Nat
  BY Bolt11Assumption, WalletAssumption
<1>2. CASE adapter = "lnd_rest"
  BY <1>1, <1>2 DEF CapMsat
<1>3. CASE adapter = "lnd_grpc"
  <2> DEFINE least == Min({cap, MaxI64})
  <2>1. CapMsat(adapter, cap) = least * t
    BY <1>3 DEF CapMsat
  <2>2. least \in Nat /\ least <= cap
    BY <1>1, LeastOfTwo
  <2> HIDE DEF least, t
  <2>3. least * t \in Nat /\ least * t <= cap * t
    BY <1>1, <2>2
  <2> QED
    BY <2>1, <2>3 DEF t
<1>4. CASE adapter \in {"cln_rest", "cln_grpc"}
  <2>1. CapMsat(adapter, cap) = Min({all, MaxU64})
    BY <1>4 DEF CapMsat
  <2> HIDE DEF all
  <2>2. Min({all, MaxU64}) \in Nat /\ Min({all, MaxU64}) <= all
    BY <1>1, LeastOfTwo
  <2> QED
    BY <2>1, <2>2 DEF all
<1> QED
  BY <1>2, <1>3, <1>4 DEF Nodes, Rest

\* What keeps to the limit and is reported in msat is not a breach.
LEMMA WithinLimit ==
    ASSUME Exchanged, NEW p \in Payers, PaymentIsMade(p), request[p].sats + MaxFeeSats <= MaxU64,
           payment[p].report.amount = "msat", payment[p].report.fee = "msat",
           payment[p].fee <= MaxFeeSats * Thousand
    PROVE  ~Violates(p)
<1> DEFINE fee == FeeSats(payment[p])
           amount == AmountSats(payment[p])
<1>1. /\ payment[p].msat \in Nat /\ payment[p].fee \in Nat /\ payment[p].cap = MaxFeeSats
      /\ request[p].sats = Satoshis(payment[p].msat) /\ request[p].sats \in Nat
  BY PaymentAmounts
<1>2. amount = request[p].sats /\ fee = Satoshis(payment[p].fee)
  BY <1>1, MsatReported
<1>3. MaxFeeSats \in Nat /\ MaxU64 \in Nat
  BY ExchangeAssumption, Bolt11Assumption
<1>4. fee \in Nat /\ fee <= MaxFeeSats
  BY <1>1, <1>2, <1>3, RoundedUp, RoundedWithin
<1> HIDE DEF fee, amount
<1>5. amount + fee <= MaxU64
  BY <1>1, <1>2, <1>3, <1>4
<1>6. amount = request[p].sats /\ ~(fee > payment[p].cap) /\ ~(amount + fee > MaxU64)
  BY <1>1, <1>2, <1>3, <1>4, <1>5
<1> QED
  BY <1>6 DEF Violates, fee, amount

\* The roundings of the invoice, of the limit and of the report agree: a node
\* that keeps to its limit and says in msat what it paid is never taken for
\* one that broke it (client.rs, pay_challenge), whatever the amounts.
THEOREM HonestNodeTrusted == Spec => []HonestIsNoBreach
<1>1. Exchanged => HonestIsNoBreach
  <2> SUFFICES ASSUME Exchanged, NEW p \in Payers, At(p, "breach")
               PROVE  payment[p].adapter # "mock" /\ ~(Kept(p) /\ Complete(p))
    BY DEF HonestIsNoBreach
  <2>1. request[p].step \in {"breach", "paid", "served", "unauthorized"}
    BY DEF At
  <2>2. /\ PaymentIsMade(p) /\ Violates(p) /\ payment[p].fate = "succeeded"
        /\ request[p].sats + MaxFeeSats <= MaxU64
    BY <2>1, JudgedIsMade
  <2>3. MaxFeeSats \in Nat /\ Thousand \in Nat /\ MaxFeeSats * Thousand >= 0
    BY ExchangeAssumption, Bolt11Assumption
  <2>4. payment[p].cap = MaxFeeSats
    BY <2>2, PaymentAmounts
  <2>5. CASE payment[p].adapter = "mock"
    <3>1. payment[p].fee = 0 /\ payment[p].report = AllMsat
      BY <2>2, <2>5 DEF PaymentIsMade, Fair
    <3>2. payment[p].report.amount = "msat" /\ payment[p].report.fee = "msat"
      BY <3>1 DEF AllMsat
    <3>3. payment[p].fee <= MaxFeeSats * Thousand
      BY <2>3, <3>1
    <3> QED
      BY <2>2, <3>2, <3>3, WithinLimit
  <2>6. CASE payment[p].adapter # "mock" /\ Kept(p) /\ Complete(p)
    <3>1. payment[p].adapter \in Nodes
      BY <2>2, <2>6 DEF PaymentIsMade, Truthful
    <3> DEFINE limit == CapMsat(payment[p].adapter, MaxFeeSats)
               all == MaxFeeSats * Thousand
    <3>2. payment[p].fee <= limit
      BY <2>4, <2>6 DEF Kept
    <3>3. limit \in Nat /\ limit <= all
      BY <2>3, <3>1, CapWithin
    <3>4. payment[p].fee \in Nat /\ all \in Nat
      BY <2>2, <2>3, PaymentAmounts
    <3> HIDE DEF limit, all
    <3>5. payment[p].fee <= all
      BY <3>2, <3>3, <3>4
    <3> QED
      BY <2>2, <2>6, <3>5, WithinLimit DEF Complete, all
  <2> QED
    BY <2>5, <2>6
<1> QED
  BY <1>1, ExchangedAlways, PTL

\* port.rs:55: what a settled payment is taken to have cost covers what left
\* the wallet, whatever the node leaves out of its amount, for every ratio of
\* msat to sats.
THEOREM SettledIsCovered == Spec => []SettledCoversOutflow
<1>1. Exchanged => SettledCoversOutflow
  <2> SUFFICES ASSUME Exchanged, NEW p \in Payers, At(p, "paid") \/ At(p, "served"),
                      payment[p].report.fee = "msat"
               PROVE  (AmountSats(payment[p]) + FeeSats(payment[p])) * Thousand
                      >= payment[p].msat + payment[p].fee
    BY DEF SettledCoversOutflow
  <2>1. request[p].step \in {"breach", "paid", "served", "unauthorized"} /\ ~At(p, "breach")
    BY DEF At
  <2>2. PaymentIsMade(p) /\ ~Violates(p) /\ payment[p].report \in Fields(payment[p].adapter)
        /\ payment[p].report \in Report
    BY <2>1, JudgedIsMade
  <2> DEFINE amount == AmountSats(payment[p])
             fee == FeeSats(payment[p])
             msat == payment[p].msat
             charged == payment[p].fee
             t == Thousand
  <2>3. amount = request[p].sats
    BY <2>2 DEF Violates
  <2>4. /\ msat \in Nat /\ charged \in Nat /\ amount \in Nat /\ amount > 0
        /\ msat <= amount * t
    BY <2>2, <2>3, PaymentAmounts
  <2>5. fee = Satoshis(charged)
    <3>1. CASE payment[p].adapter \in {"lnd_rest", "lnd_grpc"}
      BY <3>1 DEF FeeSats, LndSats
    <3>2. CASE payment[p].adapter \notin {"lnd_rest", "lnd_grpc"}
      <4>1. payment[p].report.amount # "sat"
        BY <2>2, <3>2 DEF Fields
      <4>2. payment[p].report.amount # "none"
        <5>1. ASSUME payment[p].report.amount = "none" PROVE FALSE
          <6>1. amount = Satoshis(0)
            BY <3>2, <5>1 DEF AmountSats, ClnMsat
          <6>2. Satoshis(0) = 0
            BY RoundedUp
          <6> QED
            BY <2>4, <6>1, <6>2
        <5> QED
          BY <5>1
      <4>3. payment[p].report.amount = "msat"
        BY <2>2, <4>1, <4>2 DEF Report
      <4> QED
        BY <2>4, <4>3, MsatReported
    <3> QED
      BY <3>1, <3>2
  <2>6. fee \in Nat /\ charged <= fee * t
    BY <2>4, <2>5, RoundedUp
  <2>7. t \in Nat
    BY Bolt11Assumption
  <2> HIDE DEF amount, fee, msat, charged, t
  <2>8. (amount + fee) * t = amount * t + fee * t /\ amount * t \in Nat /\ fee * t \in Nat
    BY <2>4, <2>6, <2>7
  <2> DEFINE left == amount * t
             right == fee * t
  <2>9. left \in Nat /\ right \in Nat /\ msat <= left /\ charged <= right
    BY <2>4, <2>6, <2>8
  <2> HIDE DEF left, right
  <2>10. left + right >= msat + charged
    BY <2>4, <2>9
  <2>11. (amount + fee) * t >= msat + charged
    BY <2>8, <2>10 DEF left, right
  <2> QED
    BY <2>11 DEF amount, fee, msat, charged, t
<1> QED
  BY <1>1, ExchangedAlways, PTL

\* A token that is refused was made with a preimage the node got wrong or a
\* macaroon that the server itself got wrong: the client sends what the server
\* gave it, and what the payment proved.
THEOREM PaidTokenServed == Spec => []PaidIsServed
<1>1. Exchanged => PaidIsServed
  <2> SUFFICES ASSUME Exchanged, NEW p \in Payers, At(p, "unauthorized")
               PROVE  payment[p].report.proof = "wrong" \/ request[p].macaroon = 0
    BY DEF PaidIsServed
  <2>1. request[p].step \in {"breach", "paid", "served", "unauthorized"}
    BY DEF At
  <2> QED
    BY <2>1, JudgedIsMade
<1> QED
  BY <1>1, ExchangedAlways, PTL

\* bolt11.rs:93-103: every invoice whose number u64 holds decodes to what BOLT11
\* says it asks for, to the msat, or is refused; for every unit and width.
THEOREM AmountsDecodedExactly == Spec => []DecodeExact
<1>1. Exchanged => DecodeExact
  <2> SUFFICES ASSUME Exchanged, NEW n \in 1 .. Len(registry),
                      WellFormed(registry[n].invoice), registry[n].invoice.number <= MaxU64
               PROVE  LET invoice == registry[n].invoice
                          msat == DecodeAmount(invoice)
                      IN  IF Pico(invoice) % 10 = 0 /\ Pico(invoice) \div 10 \in 1 .. MaxU64
                          THEN 10 * msat = Pico(invoice)
                          ELSE msat = Invalid
    BY DEF DecodeExact
  <2>1. registry[n] \in Challenges
    BY DEF Exchanged
  <2>2. IsInvoice(registry[n].invoice)
    BY <2>1, ChallengeShape
  <2> QED
    BY <2>2, DecodedExactly
<1> QED
  BY <1>1, ExchangedAlways, PTL

-----------------------------------------------------------------------------
(* The mock wallet's balance.                                              *)

LEMMA MockIsMade == ASSUME Exchanged, NEW p \in Payers, MockPays(p) PROVE PaymentIsMade(p)
<1>1. Is(p, Adapters)
  BY AdaptersOnly DEF MockPays, Is
<1> QED
  BY <1>1, MadeIsTruthful, TruthfulIsMade DEF Exchanged

LEMMA WalletIsMade == ASSUME Exchanged, NEW p \in Payers, WalletNext(p) PROVE PaymentIsMade(p)
<1>1. Is(p, Adapters)
  BY AdaptersOnly
  DEF WalletNext, Submit, Read, NodeSettles, NodeGivesUp, NodeWrites, LinkEnds, Is
<1> QED
  BY <1>1, MadeIsTruthful, TruthfulIsMade DEF Exchanged

\* What a wallet step does to a payment of the mock wallet is to read it.
LEMMA MockWalletReads ==
    ASSUME Exchanged, NEW p \in Payers, payment[p].adapter = "mock",
           \/ WalletStep(p)
           \/ MockPays(p) /\ (MockPays(p) => payment'[p].fate = payment[p].fate)
    PROVE  payment'[p].fate = payment[p].fate
<1>1. CASE WalletStep(p)
  <2>1. Read(p)
    BY <1>1 DEF WalletStep, WalletNext, Submit, NodeSettles, NodeGivesUp, NodeWrites, LinkEnds, Is,
       Nodes, Rest
  <2>2. Sound /\ Is(p, Adapters)
    BY <2>1 DEF Read, Exchanged
  <2> DEFINE change == [outcome |-> Outcome(payment[p])]
  <2>3. Become(p, change) /\ DOMAIN change = {"outcome"}
    BY <2>1 DEF Read
  <2> HIDE DEF change
  <2>4. payment'[p] = [f \in FieldNames |-> IF f \in DOMAIN change THEN change[f] ELSE payment[p][f]]
    BY <2>2, <2>3, Changed
  <2> QED
    BY <2>3, <2>4 DEF FieldNames
<1> QED
  BY <1>1

\* What is issued is an invoice, a request past its header is about one that
\* was issued, a payment exists from the step that makes it (client.rs,
\* pay_challenge), and the balance of MockLnBackend never falls below 0.
THEOREM ExchangeTypeCorrect == Spec => []TypeOK
<1> DEFINE InRange == balance \in 0 .. InitialBalance
<1>1. Init => InRange
  BY ExchangeAssumption DEF Init
<1>2. Exchanged /\ InRange /\ [Next]_vars => InRange'
  <2> SUFFICES ASSUME Exchanged, InRange, [Next]_vars PROVE InRange'
    OBVIOUS
  <2>1. InitialBalance \in Nat
    BY ExchangeAssumption
  <2>2. CASE balance' = balance
    BY <2>2
  <2>3. ASSUME NEW p \in Payers, MockPays(p) PROVE InRange'
    <3>0. PaymentIsMade(p)
      BY <2>3, MockIsMade
    <3>1. ChallengeOf(p) \in Challenges
      BY <3>0 DEF PaymentIsMade, HasRead, ChallengeOf, Exchanged
    <3> DEFINE sats == ChallengeOf(p).sats
    <3>2. sats \in Nat
      BY <3>1, ChallengeShape
    <3>3. balance' = balance \/ (balance >= sats /\ balance' = balance - sats)
      BY <2>3 DEF MockPays, ChallengeOf
    <3> HIDE DEF sats
    <3> QED
      BY <2>1, <3>2, <3>3
  <2>4. balance' = balance \/ \E p \in Payers : MockPays(p)
    BY DEF Next, MockChallenges, ServerChallenges, Issue, ReadChallenge, Pay, WalletStep, Settle,
           SendToken, vars
  <2> QED
    BY <2>2, <2>3, <2>4
<1>3. Exchanged /\ InRange => TypeOK
  <2> SUFFICES ASSUME Exchanged, InRange PROVE TypeOK
    OBVIOUS
  <2>1. ASSUME NEW n \in 1 .. Len(registry) PROVE IsInvoice(registry[n].invoice)
    <3>1. registry[n] \in Challenges
      BY DEF Exchanged
    <3> QED
      BY <3>1, ChallengeShape
  <2>2. ASSUME NEW p \in Payers
        PROVE  /\ At(p, "start") \/ At(p, "challenged") \/ At(p, "refused")
                  \/ request[p].invoice \in 1 .. Len(registry)
               /\ (payment[p] = NoPayment) <=> (\A step \in {"paying", "unpaid", "breach", "paid",
                                                    "served", "unauthorized"} : ~At(p, step))
    <3>1. Asked(p) /\ Made(p)
      BY DEF Exchanged, Good
    <3>2. \/ At(p, "start") \/ At(p, "challenged") \/ At(p, "refused")
          \/ request[p].invoice \in 1 .. Len(registry)
      <4>1. CASE request[p] = [step |-> "start"]
        BY <4>1 DEF At
      <4>2. ASSUME NEW header, request[p] = [step |-> "challenged", header |-> header]
            PROVE  At(p, "challenged")
        BY <4>2 DEF At
      <4> QED
        BY <3>1, <4>1, <4>2 DEF Asked, HasRead
    <3>3. (payment[p] = NoPayment) <=> request[p].step \notin Submitted
      <4>1. Truthful(payment[p]) => payment[p] # NoPayment
        BY DEF Truthful, NoPayment, Nodes, Rest
      <4> QED
        BY <3>1, <4>1 DEF Made
    <3>4. request[p].step \notin Submitted
          <=> (\A step \in {"paying", "unpaid", "breach", "paid", "served", "unauthorized"} : ~At(p, step))
      BY DEF At, Submitted
    <3> QED
      BY <3>2, <3>3, <3>4
  <2> QED
    BY <2>1, <2>2 DEF TypeOK
<1> QED
  BY <1>1, <1>2, <1>3, ExchangedAlways, PTL DEF Spec

-----------------------------------------------------------------------------
(* What was paid for.                                                      *)

\* The mock wallet has paid for a request's challenge.
MockPaid(p) == Is(p, {"mock"}) /\ payment[p].fate = "succeeded"

LEMMA MockSatsNat ==
    ASSUME Exchanged, NEW p \in Payers
    PROVE  MockSats(p) \in Nat /\ (MockPaid(p) => PaymentIsMade(p))
<1>1. CASE MockPaid(p)
  <2>1. Is(p, Adapters)
    BY <1>1, AdaptersOnly DEF MockPaid, Is
  <2>2. PaymentIsMade(p)
    BY <2>1, MadeIsTruthful, TruthfulIsMade DEF Exchanged
  <2>3. ChallengeOf(p) \in Challenges
    BY <2>2 DEF PaymentIsMade, HasRead, ChallengeOf, Exchanged
  <2>4. ChallengeOf(p).sats \in Nat
    BY <2>3, ChallengeShape
  <2> QED
    BY <1>1, <2>2, <2>4 DEF MockSats, MockPaid, ChallengeOf
<1>2. CASE ~MockPaid(p)
  BY <1>2 DEF MockSats, MockPaid
<1> QED
  BY <1>1, <1>2

LEMMA MockSatsSame ==
    ASSUME Exchanged, Grows, NEW q \in Payers,
           payment'[q].adapter = payment[q].adapter, payment'[q].fate = payment[q].fate,
           PaymentIsMade(q) => request'[q].invoice = request[q].invoice
    PROVE  MockSats(q)' = MockSats(q)
<1>1. MockPaid(q)' <=> MockPaid(q)
  BY DEF MockPaid, Is
<1>2. CASE MockPaid(q)
  <2>1. HasRead(q) /\ request'[q].invoice = request[q].invoice
    BY <1>2, MockSatsNat DEF PaymentIsMade
  <2>2. registry'[request'[q].invoice] = registry[request[q].invoice]
    BY <2>1 DEF HasRead, Grows
  <2> QED
    BY <1>1, <1>2, <2>2 DEF MockSats, MockPaid
<1>3. CASE ~MockPaid(q)
  BY <1>1, <1>3 DEF MockSats, MockPaid
<1> QED
  BY <1>2, <1>3

\* The steps that pay nothing.
LEMMA NothingSpent ==
    ASSUME Exchanged, [Next]_vars, balance' = balance,
           \A p \in Payers : MockPays(p) => payment'[p].fate = payment[p].fate
    PROVE  MockSpent' = MockSpent
<1>1. Grows
  <2>1. ASSUME NEW p \in Payers, NEW challenge \in Challenges, NEW header, Issue(p, challenge, header)
        PROVE  Grows
    BY <2>1, GrowsOrStays DEF Issue, Exchanged
  <2>2. ASSUME UNCHANGED registry PROVE Grows
    BY <2>2 DEF Grows, Exchanged
  <2>3. ASSUME NEW p \in Payers, MockChallenges(p) \/ ServerChallenges(p) PROVE Grows
    <3>1. PICK challenge \in Challenges : \E header : Issue(p, challenge, header)
      BY <2>3 DEF MockChallenges, ServerChallenges, Challenges
    <3> QED
      BY <2>1, <3>1
  <2> QED
    BY <2>2, <2>3 DEF Next, vars, ReadChallenge, Pay, MockPays, WalletStep, Settle, SendToken
<1>2. ASSUME NEW q \in Payers PROVE MockSats(q)' = MockSats(q)
  <2>0. Sound /\ Exchanged'
    BY StepExchanged DEF Exchanged
  <2>1. CASE UNCHANGED <<payment, request>>
    BY <1>1, <2>1, MockSatsSame
  <2>2. ASSUME NEW p \in Payers, p # q, payment'[q] = payment[q], request'[q] = request[q]
        PROVE  MockSats(q)' = MockSats(q)
    BY <1>1, <2>2, MockSatsSame
  <2>3. ASSUME NEW p \in Payers, ClientStep(p) PROVE MockSats(q)' = MockSats(q)
    <3>1. UNCHANGED payment /\ Turned(p)
      BY <2>0, <2>3, ClientTurns
    <3>2. PaymentIsMade(q) => request'[q].invoice = request[q].invoice
      <4>1. CASE p # q
        BY <2>0, <3>1, <4>1 DEF Turned, Sound
      <4>2. CASE p = q /\ PaymentIsMade(q)
        <5>1. PICK step : Goto(p, step) /\ registry' = registry
          BY <2>3, <4>2 DEF ClientStep, MockChallenges, ServerChallenges, Issue, ReadChallenge,
             Settle, SendToken, PaymentIsMade, Submitted, At
        <5> QED
          BY <4>2, <5>1, GotoKeepsRead DEF PaymentIsMade
      <4> QED
        BY <4>1, <4>2
    <3> QED
      BY <1>1, <3>1, <3>2, MockSatsSame
  <2>4. ASSUME NEW p \in Payers, Pay(p) PROVE MockSats(q)' = MockSats(q)
    <3>1. CASE p # q
      BY <2>0, <2>2, <2>4, <3>1 DEF Pay, Goto, Sound
    <3>2. CASE p = q
      <4>1. payment[q] = NoPayment
        BY <2>0, <2>4, <3>2 DEF Pay, At, Unpaid, Sound
      <4>2. payment[q].fate = "none" /\ payment'[q].fate = "none"
        <5>1. \/ payment' = payment
              \/ \E adapter, msat : payment' = [payment EXCEPT ![q] = NewPayment(adapter, msat, MaxFeeSats)]
          BY <2>4, <3>2 DEF Pay
        <5>2. ASSUME NEW adapter, NEW msat PROVE NewPayment(adapter, msat, MaxFeeSats).fate = "none"
          BY DEF NewPayment
        <5>3. NoPayment.fate = "none"
          BY DEF NoPayment
        <5> QED
          BY <2>0, <4>1, <5>1, <5>2, <5>3 DEF Sound
      <4> QED
        BY <4>2 DEF MockSats
    <3> QED
      BY <3>1, <3>2
  <2>5. ASSUME NEW p \in Payers, MockPays(p) \/ WalletStep(p) PROVE MockSats(q)' = MockSats(q)
    <3>1. PaymentIsMade(p) /\ FairStep(p, ChallengeOf(p)) /\ UNCHANGED <<request, registry>>
      BY <2>5, MockIsMade, WalletIsMade, FairMock, FairWallet
      DEF MockPays, WalletStep, PaymentIsMade, Exchanged
    <3>2. CASE p # q
      BY <2>0, <2>2, <3>1, <3>2 DEF FairStep, Sound
    <3>3. CASE p = q
      <4>1. payment'[q].adapter = payment[q].adapter
        BY <3>1, <3>3 DEF FairStep, Keeps
      <4>2. CASE payment[q].adapter = "mock"
        <5>1. payment'[q].fate = payment[q].fate
          BY <2>5, <3>3, <4>2, MockWalletReads
        <5> QED
          BY <1>1, <3>1, <4>1, <5>1, MockSatsSame
      <4>3. CASE payment[q].adapter # "mock"
        BY <4>1, <4>3 DEF MockSats, Is
      <4> QED
        BY <4>2, <4>3
    <3> QED
      BY <3>2, <3>3
  <2> QED
    BY <2>1, <2>3, <2>4, <2>5 DEF Next, ClientStep, vars
<1> QED
  BY <1>2 DEF MockSpent

\* One payer's payment, counted.
LEMMA PaidTimes ==
    ASSUME NEW p, NEW n \in Nat
    PROVE  IsFiniteSet({p} \X (1 .. n)) /\ Cardinality({p} \X (1 .. n)) = n
<1> DEFINE S == {p}
           T == 1 .. n
<1>1. IsFiniteSet(S) /\ Cardinality(S) = 1
  BY FS_Singleton
<1>2. IsFiniteSet(T) /\ Cardinality(T) = n
  <2>1. 1 \in Int /\ n \in Int
    OBVIOUS
  <2>2. IsFiniteSet(T) /\ Cardinality(T) = IF 1 > n THEN 0 ELSE n - 1 + 1
    BY <2>1, FS_Interval
  <2> QED
    BY <2>2
<1> HIDE DEF S, T
<1>3. IsFiniteSet(S \X T) /\ Cardinality(S \X T) = Cardinality(S) * Cardinality(T)
  BY <1>1, <1>2, FS_Product
<1> QED
  BY <1>1, <1>2, <1>3 DEF S, T

LEMMA Disjoint ==
    ASSUME NEW S, IsFiniteSet(S), NEW T, IsFiniteSet(T), S \cap T = {}
    PROVE  /\ IsFiniteSet(S \cup T)
           /\ Cardinality(S \cup T) = Cardinality(S) + Cardinality(T)
<1>1. Cardinality(S \cap T) = 0
  BY FS_EmptySet
<1>2. Cardinality(S) \in Nat /\ Cardinality(T) \in Nat
  BY FS_CardinalityType
<1>3. /\ IsFiniteSet(S \cup T)
      /\ Cardinality(S \cup T) = Cardinality(S) + Cardinality(T) - Cardinality(S \cap T)
  BY FS_Union, Zenon
<1> QED
  BY <1>1, <1>2, <1>3

Balanced == IsFiniteSet(MockSpent) /\ BalanceExact

LEMMA PaidOnce ==
    ASSUME Exchanged, Balanced, balance \in Int, NEW p \in Payers, MockPays(p),
           payment'[p].fate # payment[p].fate
    PROVE  Balanced'
<1> DEFINE sats == ChallengeOf(p).sats
           change == [fate |-> "succeeded", lines |-> <<"succeeded">>, link |-> "closed",
                      msat |-> sats * Thousand, report |-> AllMsat]
           paid == {p} \X (1 .. sats)
<1>1. /\ PaymentIsMade(p) /\ Sound /\ payment[p].adapter = "mock"
      /\ Is(p, Adapters) /\ payment[p].link = "none" /\ UNCHANGED <<request, registry>>
  BY MockIsMade DEF MockPays, Is, Adapters, Exchanged
<1>2. payment[p].fate = "none"
  BY <1>1 DEF PaymentIsMade, Truthful
<1>3. ChallengeOf(p) \in Challenges
  BY <1>1 DEF PaymentIsMade, HasRead, ChallengeOf, Exchanged
<1>4. sats \in Nat
  BY <1>3, ChallengeShape
<1>5. \/ Become(p, change) /\ balance' = balance - sats
      \/ Become(p, [lines |-> <<"failed">>, link |-> "closed"])
  BY DEF MockPays, ChallengeOf, AllMsat
<1>6. ~Become(p, [lines |-> <<"failed">>, link |-> "closed"])
  <2> DEFINE failed == [lines |-> <<"failed">>, link |-> "closed"]
  <2>1. ASSUME Become(p, failed) PROVE payment'[p].fate = payment[p].fate
    <3>1. payment'[p] = [f \in FieldNames |-> IF f \in DOMAIN failed THEN failed[f] ELSE payment[p][f]]
      BY <1>1, <2>1, Changed
    <3> QED
      BY <3>1 DEF FieldNames
  <2> QED
    BY <2>1
<1>7. /\ payment' = [payment EXCEPT ![p] = payment'[p]]
      /\ payment'[p] = [f \in FieldNames |-> IF f \in DOMAIN change THEN change[f] ELSE payment[p][f]]
  BY <1>1, <1>5, <1>6, Changed
<1>8. payment'[p].adapter = "mock" /\ payment'[p].fate = "succeeded"
  BY <1>1, <1>7 DEF FieldNames
<1>9. MockSats(p) = 0 /\ MockSats(p)' = sats
  BY <1>1, <1>2, <1>8 DEF MockSats, Is, ChallengeOf
<1>10. \A q \in Payers \ {p} : MockSats(q)' = MockSats(q)
  <2>1. \A q \in Payers \ {p} : payment'[q] = payment[q]
    BY <1>1, <1>7 DEF Sound
  <2> QED
    BY <1>1, <2>1 DEF MockSats, Is
<1> HIDE DEF sats, change
<1>11. {p} \X (1 .. MockSats(p)) = {}
  <2>1. 1 .. 0 = {}
    OBVIOUS
  <2> QED
    BY <1>9, <2>1
<1>12. MockSpent' = MockSpent \cup paid /\ MockSpent \cap paid = {}
  <2>1. ASSUME NEW x, x \in MockSpent PROVE x \in MockSpent' /\ x \notin paid
    <3>1. PICK q \in Payers : x \in {q} \X (1 .. MockSats(q))
      BY <2>1 DEF MockSpent
    <3>2. q # p
      BY <1>11, <3>1
    <3>3. x \in {q} \X (1 .. MockSats(q)')
      BY <1>10, <3>1, <3>2
    <3>4. x \in MockSpent'
      BY <3>3 DEF MockSpent
    <3>5. x \notin paid
      BY <3>1, <3>2
    <3> QED
      BY <3>4, <3>5
  <2>2. ASSUME NEW x, x \in paid PROVE x \in MockSpent'
    <3>1. x \in {p} \X (1 .. MockSats(p)')
      BY <1>9, <2>2
    <3> QED
      BY <3>1 DEF MockSpent
  <2>3. ASSUME NEW x, x \in MockSpent' PROVE x \in MockSpent \cup paid
    <3>1. PICK q \in Payers : x \in {q} \X (1 .. MockSats(q)')
      BY <2>3 DEF MockSpent
    <3>2. CASE q = p
      BY <1>9, <3>1, <3>2
    <3>3. CASE q # p
      <4>1. x \in {q} \X (1 .. MockSats(q))
        BY <1>10, <3>1, <3>3
      <4>2. x \in MockSpent
        BY <4>1 DEF MockSpent
      <4> QED
        BY <4>2
    <3> QED
      BY <3>2, <3>3
  <2> HIDE DEF paid
  <2> QED
    BY <2>1, <2>2, <2>3
<1>13. IsFiniteSet(paid) /\ Cardinality(paid) = sats
  BY <1>4, PaidTimes
<1> HIDE DEF paid
<1> DEFINE before == MockSpent
<1>14. IsFiniteSet(before) /\ before \cap paid = {} /\ Cardinality(before) \in Nat
  BY <1>12, FS_CardinalityType DEF Balanced
<1> HIDE DEF before
<1>15. /\ IsFiniteSet(before \cup paid)
       /\ Cardinality(before \cup paid) = Cardinality(before) + Cardinality(paid)
  BY <1>13, <1>14, Disjoint
<1>16. MockSpent' = before \cup paid /\ balance + Cardinality(before) = InitialBalance
  BY <1>12 DEF before, Balanced, BalanceExact
<1>17. IsFiniteSet(MockSpent') /\ balance' + Cardinality(MockSpent') = InitialBalance
  BY <1>4, <1>5, <1>6, <1>13, <1>14, <1>15, <1>16
<1> QED
  BY <1>17 DEF Balanced, BalanceExact

LEMMA RefusedCostsNothing ==
    ASSUME Exchanged, NEW p \in Payers, MockPays(p), payment'[p].fate = payment[p].fate
    PROVE  balance' = balance
<1> DEFINE sats == ChallengeOf(p).sats
           change == [fate |-> "succeeded", lines |-> <<"succeeded">>, link |-> "closed",
                      msat |-> sats * Thousand, report |-> AllMsat]
<1>1. PaymentIsMade(p) /\ Sound /\ Is(p, Adapters) /\ payment[p].link = "none"
  BY MockIsMade DEF MockPays, Is, Adapters, Exchanged
<1>2. payment[p].fate = "none"
  BY <1>1 DEF PaymentIsMade, Truthful
<1>3. ~Become(p, change)
  <2>1. ASSUME Become(p, change) PROVE FALSE
    <3>1. payment'[p] = [f \in FieldNames |-> IF f \in DOMAIN change THEN change[f] ELSE payment[p][f]]
      BY <1>1, <2>1, Changed
    <3>2. payment'[p].fate = "succeeded"
      BY <3>1 DEF FieldNames
    <3> QED
      BY <1>2, <3>2
  <2> QED
    BY <2>1
<1> QED
  BY <1>3 DEF MockPays, ChallengeOf, AllMsat

\* The mock wallet's balance (MockLnBackend::pay_invoice) is what it began with
\* less the price of every challenge it has paid, once for each: for any
\* payers, prices and interleaving.
THEOREM BalanceKept == Spec => []BalanceExact
<1>1. Init => Balanced
  <2> SUFFICES ASSUME Init PROVE Balanced
    OBVIOUS
  <2>1. \A p \in Payers : 1 .. MockSats(p) = {}
    <3>1. NoPayment.adapter # "mock" /\ 1 .. 0 = {}
      BY DEF NoPayment
    <3> QED
      BY <3>1 DEF Init, MockSats, Is
  <2>2. MockSpent = {}
    BY <2>1 DEF MockSpent
  <2> QED
    BY <2>2, FS_EmptySet, ExchangeAssumption DEF Balanced, BalanceExact, Init
<1>2. Exchanged /\ TypeOK /\ Balanced /\ [Next]_vars => Balanced'
  <2> SUFFICES ASSUME Exchanged, TypeOK, Balanced, [Next]_vars PROVE Balanced'
    OBVIOUS
  <2>1. balance \in Int
    BY ExchangeAssumption DEF TypeOK
  <2>2. CASE \E p \in Payers : MockPays(p) /\ payment'[p].fate # payment[p].fate
    BY <2>1, <2>2, PaidOnce
  <2>3. CASE \A p \in Payers : MockPays(p) => payment'[p].fate = payment[p].fate
    <3>1. balance' = balance
      <4>1. ASSUME NEW p \in Payers, MockPays(p) PROVE balance' = balance
        BY <2>3, <4>1, RefusedCostsNothing
      <4> QED
        BY <4>1 DEF Next, MockChallenges, ServerChallenges, Issue, ReadChallenge, Pay, WalletStep,
           Settle, SendToken, vars
    <3>2. MockSpent' = MockSpent
      BY <2>3, <3>1, NothingSpent
    <3> QED
      BY <3>1, <3>2 DEF Balanced, BalanceExact
  <2> QED
    BY <2>2, <2>3
<1> QED
  BY <1>1, <1>2, ExchangedAlways, ExchangeTypeCorrect, PTL DEF Spec, Balanced

-----------------------------------------------------------------------------
(* A challenge is read.                                                    *)

LEMMA MaxIs ==
    ASSUME NEW bound \in Nat, NEW S, S \subseteq 0 .. bound, NEW m \in S, \A k \in S : k <= m
    PROVE  Max(S) = m
<1>1. Max(S) \in S /\ \A k \in S : k <= Max(S)
  <2>1. S # {}
    OBVIOUS
  <2> QED
    BY <2>1, MaxIsGreatest
<1> DEFINE most == Max(S)
<1> HIDE DEF most
<1>2. m <= most /\ most <= m /\ m \in Nat /\ most \in Nat
  <2>1. most \in S /\ \A k \in S : k <= most
    BY <1>1 DEF most
  <2>2. \A k \in S : k \in Nat
    OBVIOUS
  <2> QED
    BY <2>1, <2>2
<1>3. most = m
  BY <1>2
<1> QED
  BY <1>3 DEF most

LEMMA Piece ==
    ASSUME NEW S, NEW s \in Seq(S), NEW a \in 1 .. Len(s) + 1, NEW b \in (a - 1) .. Len(s)
    PROVE  /\ SubSeq(s, a, b) \in Seq(S) /\ Len(SubSeq(s, a, b)) = b - a + 1
           /\ \A k \in 1 .. b - a + 1 : SubSeq(s, a, b)[k] = s[a + k - 1]
<1>1. SubSeq(s, a, b) \in Seq(S)
  OBVIOUS
<1>2. Len(SubSeq(s, a, b)) = b - a + 1
  OBVIOUS
<1>3. ASSUME NEW k \in 1 .. b - a + 1 PROVE SubSeq(s, a, b)[k] = s[a + k - 1]
  OBVIOUS
<1> QED
  BY <1>1, <1>2, <1>3

LEMMA MinIs ==
    ASSUME NEW S, S \subseteq Nat, NEW m \in S, \A k \in S : m <= k
    PROVE  Min(S) = m
<1>1. Min(S) \in S /\ \A k \in S : Min(S) <= k
  BY MinIsLeast
<1>2. m <= Min(S) /\ Min(S) <= m /\ m \in Nat /\ Min(S) \in Nat
  BY <1>1
<1> QED
  BY <1>2

\* A parameter of two symbols or more, with its equals sign in second place.
LEMMA KeyOf ==
    ASSUME NEW S, NEW param \in Seq(S), Len(param) > 1, param[1] # Equals, param[2] = Equals
    PROVE  /\ param # <<>> /\ Places(param, Equals) # {}
           /\ Before(param, Equals) = <<param[1]>>
           /\ After(param, Equals) = SubSeq(param, 3, Len(param))
<1> DEFINE places == Places(param, Equals)
<1>1. places \subseteq Nat /\ 2 \in places /\ \A k \in places : 2 <= k
  BY DEF Places
<1> HIDE DEF places
<1>2. Min(places) = 2
  BY <1>1, MinIs
<1>3. SubSeq(param, 1, 2 - 1) = <<param[1]>>
  <2> DEFINE s == SubSeq(param, 1, 1)
  <2>1. s \in Seq(S) /\ Len(s) = 1 /\ s[1] = param[1]
    OBVIOUS
  <2> HIDE DEF s
  <2>2. s = <<param[1]>>
    BY <2>1
  <2> QED
    BY <2>2 DEF s
<1>4. Before(param, Equals) = <<param[1]>>
  BY <1>2, <1>3 DEF Before, places
<1>5. After(param, Equals) = SubSeq(param, 3, Len(param))
  BY <1>2 DEF After, places
<1>6. param # <<>> /\ Places(param, Equals) # {}
  BY <1>1 DEF places
<1> QED
  BY <1>4, <1>5, <1>6

\* One word in quotes.
LEMMA QuotedWord ==
    ASSUME NEW S, NEW param \in Seq(S), Len(param) = 5, param[1] # Equals, param[2] = Equals,
           param[3] = Quote, param[4] # Quote, param[5] = Quote
    PROVE  Unquoted(After(param, Equals)) = <<param[4]>>
<1> DEFINE value == SubSeq(param, 3, 5)
           inner == {k \in 1 .. Len(value) : value[k] # Quote}
<1>1. After(param, Equals) = value
  <2>1. Len(param) > 1
    OBVIOUS
  <2>2. After(param, Equals) = SubSeq(param, 3, Len(param))
    BY <2>1, KeyOf
  <2> QED
    BY <2>2
<1>2. value \in Seq(S) /\ Len(value) = 3 /\ \A k \in 1 .. 3 : value[k] = param[2 + k]
  <2> DEFINE a == 3
             b == 5
  <2>1. a \in 1 .. Len(param) + 1 /\ b \in (a - 1) .. Len(param)
    OBVIOUS
  <2> HIDE DEF a, b
  <2>2. /\ SubSeq(param, a, b) \in Seq(S) /\ Len(SubSeq(param, a, b)) = b - a + 1
        /\ \A k \in 1 .. b - a + 1 : SubSeq(param, a, b)[k] = param[a + k - 1]
    BY <2>1, Piece
  <2> QED
    BY <2>2 DEF a, b
<1> HIDE DEF value
<1>3. inner = {2}
  BY <1>2
<1>4. Unquoted(value) = IF inner = {} THEN <<>> ELSE SubSeq(value, Min(inner), Max(inner))
  BY DEF Unquoted
<1> HIDE DEF inner
<1>5. Min(inner) = 2
  <2>1. inner \subseteq Nat /\ 2 \in inner /\ \A k \in inner : 2 <= k
    BY <1>3
  <2> QED
    BY <2>1, MinIs
<1>6. Max(inner) = 2
  <2> DEFINE two == 2
  <2>1. two \in Nat /\ inner \subseteq 0 .. two /\ two \in inner /\ \A k \in inner : k <= two
    BY <1>3
  <2> HIDE DEF two
  <2>2. Max(inner) = two
    BY <2>1, MaxIs
  <2> QED
    BY <2>2 DEF two
<1> DEFINE s == SubSeq(value, 2, 2)
<1>7. s \in Seq(S) /\ Len(s) = 1 /\ s[1] = param[4]
  <2>1. s \in Seq(S) /\ Len(s) = 1 /\ s[1] = value[2]
    BY <1>2
  <2> QED
    BY <1>2, <2>1
<1>8. Unquoted(value) = s
  BY <1>3, <1>4, <1>5, <1>6
<1> HIDE DEF s
<1>9. s = <<param[4]>>
  BY <1>7
<1> QED
  BY <1>1, <1>8, <1>9

LEMMA Joined ==
    ASSUME NEW S, NEW s \in Seq(S), NEW t \in Seq(S)
    PROVE  /\ s \o t \in Seq(S) /\ Len(s \o t) = Len(s) + Len(t)
           /\ \A k \in 1 .. Len(s) : (s \o t)[k] = s[k]
           /\ \A k \in 1 .. Len(t) : (s \o t)[Len(s) + k] = t[k]
<1>1. s \o t \in Seq(S) /\ Len(s \o t) = Len(s) + Len(t)
  OBVIOUS
<1>2. ASSUME NEW k \in 1 .. Len(s) PROVE (s \o t)[k] = s[k]
  OBVIOUS
<1>3. ASSUME NEW k \in 1 .. Len(t) PROVE (s \o t)[Len(s) + k] = t[k]
  OBVIOUS
<1> QED
  BY <1>1, <1>2, <1>3

LEMMA QuotedParam ==
    ASSUME NEW key, NEW word
    PROVE  LET param == <<key, Equals>> \o <<Quote, word, Quote>>
           IN  /\ Len(param) = 5 /\ param[1] = key /\ param[2] = Equals
               /\ param[3] = Quote /\ param[4] = word /\ param[5] = Quote
<1> DEFINE S == {key, word, Equals, Quote}
           s == <<key, Equals>>
           t == <<Quote, word, Quote>>
           param == s \o t
<1>1. /\ s \in Seq(S) /\ Len(s) = 2 /\ s[1] = key /\ s[2] = Equals
      /\ t \in Seq(S) /\ Len(t) = 3 /\ t[1] = Quote /\ t[2] = word /\ t[3] = Quote
  OBVIOUS
<1> HIDE DEF s, t, S
<1>2. /\ Len(param) = Len(s) + Len(t)
      /\ \A k \in 1 .. Len(s) : param[k] = s[k]
      /\ \A k \in 1 .. Len(t) : param[Len(s) + k] = t[k]
  <2>1. s \in Seq(S) /\ t \in Seq(S)
    BY <1>1
  <2> QED
    BY <2>1, Joined
<1> HIDE DEF param
<1>3. /\ Len(param) = 5 /\ param[1] = key /\ param[2] = Equals
      /\ param[3] = Quote /\ param[4] = word /\ param[5] = Quote
  BY <1>1, <1>2
<1> QED
  BY <1>3 DEF param, s, t

LEMMA Parts ==
    ASSUME NEW n \in Nat
    PROVE  /\ Macaroon(n) \in Seq(Words(n)) /\ Len(Macaroon(n)) = 5
           /\ Macaroon(n)[1] = Text("macaroon") /\ Macaroon(n)[2] = Equals
           /\ Macaroon(n)[3] = Quote /\ Macaroon(n)[4] = Symbol("mac", n) /\ Macaroon(n)[5] = Quote
           /\ Invoice(n) \in Seq(Words(n)) /\ Len(Invoice(n)) = 5
           /\ Invoice(n)[1] = Text("invoice") /\ Invoice(n)[2] = Equals
           /\ Invoice(n)[3] = Quote /\ Invoice(n)[4] = Symbol("inv", n) /\ Invoice(n)[5] = Quote
<1>1. Macaroon(n) \in Seq(Words(n)) /\ Invoice(n) \in Seq(Words(n))
  BY PartWords
<1>2. /\ Len(Macaroon(n)) = 5
      /\ Macaroon(n)[1] = Text("macaroon") /\ Macaroon(n)[2] = Equals
      /\ Macaroon(n)[3] = Quote /\ Macaroon(n)[4] = Symbol("mac", n) /\ Macaroon(n)[5] = Quote
  BY QuotedParam DEF Macaroon, Quoted
<1>3. /\ Len(Invoice(n)) = 5
      /\ Invoice(n)[1] = Text("invoice") /\ Invoice(n)[2] = Equals
      /\ Invoice(n)[3] = Quote /\ Invoice(n)[4] = Symbol("inv", n) /\ Invoice(n)[5] = Quote
  BY QuotedParam DEF Invoice, Quoted
<1> QED
  BY <1>1, <1>2, <1>3

LEMMA WordsDiffer ==
    ASSUME NEW n
    PROVE  /\ \A word \in {Text("macaroon"), Text("invoice"), Symbol("mac", n), Symbol("inv", n)} :
                 word # Quote /\ word # Comma /\ word # Equals
           /\ Quote # Comma /\ Quote # Equals /\ Comma # Equals
           /\ Text("macaroon") # Text("invoice")
           /\ Symbol("mac", n).kind = "mac" /\ Symbol("mac", n).id = n
           /\ Symbol("inv", n).kind = "inv" /\ Symbol("inv", n).id = n
BY DEF Text, Symbol, Quote, Comma, Equals

\* Counting is unchanged by a shift.
LEMMA Shifted ==
    ASSUME NEW T, T \subseteq Nat, IsFiniteSet(T), NEW n \in Nat
    PROVE  LET moved == {n + j : j \in T}
           IN  IsFiniteSet(moved) /\ Cardinality(moved) = Cardinality(T)
<1> DEFINE moved == {n + j : j \in T}
           f == [j \in T |-> n + j]
<1>1. f \in [T -> moved]
  OBVIOUS
<1>2. \A a, b \in T : f[a] = f[b] => a = b
  OBVIOUS
<1>3. \A m \in moved : \E j \in T : f[j] = m
  OBVIOUS
<1> HIDE DEF f, moved
<1>4. f \in Bijection(T, moved)
  BY <1>1, <1>2, <1>3 DEF Bijection, Injection, Surjection, IsInjective
<1>5. ExistsBijection(T, moved)
  BY <1>4 DEF ExistsBijection
<1>6. IsFiniteSet(moved) /\ Cardinality(moved) = Cardinality(T)
  BY <1>5, FS_Bijection
<1> QED
  BY <1>6 DEF moved

QuotesBefore(text, k) == {j \in Places(text, Quote) : j < k}

LEMMA QuotesFinite ==
    ASSUME NEW S, NEW text \in Seq(S), NEW k
    PROVE  /\ Places(text, Quote) \subseteq 1 .. Len(text) /\ IsFiniteSet(Places(text, Quote))
           /\ IsFiniteSet(QuotesBefore(text, k))
           /\ Cardinality(Places(text, Quote)) \in Nat /\ Cardinality(QuotesBefore(text, k)) \in Nat
<1> DEFINE all == Places(text, Quote)
           some == QuotesBefore(text, k)
           places == 1 .. Len(text)
<1>1. all \subseteq places /\ some \subseteq all
  BY DEF Places, QuotesBefore
<1>2. IsFiniteSet(places)
  <2>1. 1 \in Int /\ Len(text) \in Int
    OBVIOUS
  <2> QED
    BY <2>1, FS_Interval
<1> HIDE DEF all, some, places
<1>3. IsFiniteSet(all)
  BY <1>1, <1>2, FS_Subset
<1>4. IsFiniteSet(some)
  BY <1>1, <1>3, FS_Subset
<1>5. Cardinality(all) \in Nat /\ Cardinality(some) \in Nat
  BY <1>3, <1>4, FS_CardinalityType
<1> QED
  BY <1>1, <1>3, <1>4, <1>5 DEF all, some, places

LEMMA Even ==
    ASSUME NEW a \in Nat, NEW b \in Nat, a % 2 = 0
    PROVE  (a + b) % 2 = b % 2
OBVIOUS

LEMMA TwoQuotes ==
    ASSUME NEW a \in Nat, NEW b \in Nat, a # b
    PROVE  Cardinality({a, b}) = 2 /\ 2 % 2 = 0
<1> DEFINE S == {a}
           T == {b}
<1>1. IsFiniteSet(S) /\ IsFiniteSet(T) /\ Cardinality(S) = 1 /\ Cardinality(T) = 1
  BY FS_Singleton
<1>2. S \cap T = {} /\ S \cup T = {a, b}
  OBVIOUS
<1> HIDE DEF S, T
<1>3. Cardinality(S \cup T) = Cardinality(S) + Cardinality(T)
  BY <1>1, <1>2, Disjoint
<1> QED
  BY <1>1, <1>2, <1>3

\* In a part of a text that begins after a place out of quotes, what is in
\* quotes is what is so in the text.
LEMMA PartQuotes ==
    ASSUME NEW S, NEW text \in Seq(S), NEW lo \in 0 .. Len(text), lo > 0 => text[lo] # Quote,
           NEW part \in Seq(S), lo + Len(part) <= Len(text),
           \A k \in 1 .. Len(part) : part[k] = text[lo + k],
           ~InQuotes(text, lo), NEW k \in 1 .. Len(part) + 1
    PROVE  InQuotes(text, lo + k) <=> InQuotes(part, k)
<1> DEFINE before == QuotesBefore(text, lo)
           inside == QuotesBefore(part, k)
           moved == {lo + j : j \in inside}
           all == QuotesBefore(text, lo + k)
<1>1. /\ Places(part, Quote) \subseteq 1 .. Len(part) /\ IsFiniteSet(inside)
      /\ Cardinality(inside) \in Nat
  BY QuotesFinite
<1>2. IsFiniteSet(before) /\ Cardinality(before) \in Nat
  BY QuotesFinite
<1>3. inside \subseteq Nat
  BY <1>1 DEF QuotesBefore
<1>4. lo \in Nat /\ Len(text) \in Nat /\ Len(part) \in Nat /\ k \in Nat
  OBVIOUS
<1>5. IsFiniteSet(moved) /\ Cardinality(moved) = Cardinality(inside)
  <2> HIDE DEF inside
  <2> QED
    BY <1>1, <1>3, <1>4, Shifted
<1>6. before \cap moved = {}
  BY <1>3, <1>4 DEF QuotesBefore
<1>7. all = before \cup moved
  <2>1. ASSUME NEW j \in all PROVE j \in before \cup moved
    <3>1. j \in 1 .. Len(text) /\ text[j] = Quote /\ j < lo + k
      BY DEF QuotesBefore, Places
    <3>2. CASE j < lo
      BY <3>1, <3>2 DEF QuotesBefore, Places
    <3>3. CASE j = lo
      BY <1>4, <3>1, <3>3
    <3>4. CASE j > lo
      <4>1. j - lo \in 1 .. Len(part) /\ j - lo < k /\ lo + (j - lo) = j
        BY <1>4, <3>1, <3>4
      <4>2. part[j - lo] = Quote
        BY <3>1, <4>1
      <4>3. j - lo \in inside
        BY <4>1, <4>2 DEF QuotesBefore, Places
      <4> HIDE DEF inside
      <4> QED
        BY <4>1, <4>3
    <3> QED
      BY <1>4, <3>1, <3>2, <3>3, <3>4
  <2>2. ASSUME NEW j \in before PROVE j \in all
    BY <1>4 DEF QuotesBefore, Places
  <2>3. ASSUME NEW j \in inside PROVE lo + j \in all
    <3>1. j \in 1 .. Len(part) /\ part[j] = Quote /\ j < k
      BY DEF QuotesBefore, Places
    <3>2. lo + j \in 1 .. Len(text) /\ text[lo + j] = Quote /\ lo + j < lo + k
      BY <1>4, <3>1
    <3> QED
      BY <3>2 DEF QuotesBefore, Places
  <2> HIDE DEF all, before, inside
  <2> QED
    BY <2>1, <2>2, <2>3
<1> HIDE DEF before, inside, moved, all
<1>8. Cardinality(all) = Cardinality(before) + Cardinality(inside)
  BY <1>2, <1>5, <1>6, <1>7, Disjoint
<1>9. Cardinality(before) % 2 = 0
  <2>1. Cardinality(before) % 2 # 1
    BY DEF InQuotes, QuotesBefore, before
  <2> QED
    BY <1>2, <2>1
<1>10. Cardinality(all) % 2 = Cardinality(inside) % 2
  BY <1>1, <1>2, <1>8, <1>9, Even
<1> QED
  BY <1>10 DEF InQuotes, QuotesBefore, all, inside

\* What lies between two cuts, by its places in the text.
Spans(S, text, cuts, lo, end) ==
    /\ lo < end /\ \A k \in cuts : k < end => k <= lo
    /\ Between(text, cuts, end) \in Seq(S) /\ Len(Between(text, cuts, end)) = end - lo - 1
    /\ \A k \in 1 .. end - lo - 1 : Between(text, cuts, end)[k] = text[lo + k]

LEMMA CutsInside ==
    ASSUME NEW S, NEW text \in Seq(S), NEW cuts, cuts \subseteq Places(text, Comma)
    PROVE  /\ Len(text) \in Nat /\ cuts \subseteq 1 .. Len(text)
           /\ cuts \cup {Len(text) + 1} \subseteq 1 .. Len(text) + 1
           /\ \A k \in cuts : text[k] = Comma
<1>1. Len(text) \in Nat
  OBVIOUS
<1>2. cuts \subseteq 1 .. Len(text) /\ \A k \in cuts : text[k] = Comma
  BY DEF Places
<1> DEFINE bound == Len(text)
<1>3. bound \in Nat /\ cuts \subseteq 1 .. bound
  BY <1>1, <1>2
<1> HIDE DEF bound
<1>4. cuts \cup {bound + 1} \subseteq 1 .. bound + 1
  BY <1>3
<1> QED
  BY <1>1, <1>2, <1>4 DEF bound

LEMMA BetweenIs ==
    ASSUME NEW S, NEW text \in Seq(S), NEW cuts, cuts \subseteq 1 .. Len(text),
           NEW end \in 1 .. Len(text) + 1
    PROVE  \E lo \in {0} \cup cuts : Spans(S, text, cuts, lo, end)
<1> DEFINE below == {0} \cup {k \in cuts : k < end}
           lo == Max(below)
           s == SubSeq(text, lo + 1, end - 1)
<1>1. below \subseteq 0 .. Len(text) /\ below # {} /\ Len(text) \in Nat
  <2>1. Len(text) \in Nat /\ 0 \in below
    OBVIOUS
  <2>2. ASSUME NEW k \in below PROVE k \in 0 .. Len(text)
    <3>1. CASE k = 0
      BY <2>1, <3>1
    <3>2. CASE k # 0
      BY <2>1, <3>2
    <3> QED
      BY <3>1, <3>2
  <2> HIDE DEF below
  <2> QED
    BY <2>1, <2>2
<1>2. lo \in below /\ \A k \in below : k <= lo
  <2> HIDE DEF below
  <2> QED
    BY <1>1, MaxIsGreatest
<1> HIDE DEF lo
<1>3. lo \in {0} \cup cuts /\ lo < end /\ lo \in 0 .. Len(text) /\ \A k \in cuts : k < end => k <= lo
  BY <1>2
<1>4. Between(text, cuts, end) = s
  BY DEF Between, lo
<1>5. s \in Seq(S) /\ Len(s) = end - lo - 1 /\ \A k \in 1 .. end - lo - 1 : s[k] = text[lo + k]
  <2> DEFINE a == lo + 1
             b == end - 1
  <2>1. a \in 1 .. Len(text) + 1 /\ b \in (a - 1) .. Len(text) /\ b - a + 1 = end - lo - 1
    BY <1>1, <1>3
  <2> HIDE DEF a, b
  <2>2. /\ SubSeq(text, a, b) \in Seq(S) /\ Len(SubSeq(text, a, b)) = b - a + 1
        /\ \A k \in 1 .. b - a + 1 : SubSeq(text, a, b)[k] = text[a + k - 1]
    BY <2>1, Piece
  <2>3. \A k \in Nat : a + k - 1 = lo + k
    BY <1>3 DEF a
  <2>4. ASSUME NEW k \in 1 .. end - lo - 1 PROVE SubSeq(text, a, b)[k] = text[lo + k]
    <3>1. k \in 1 .. b - a + 1 /\ k \in Nat
      BY <1>3, <2>1
    <3> QED
      BY <2>2, <2>3, <3>1
  <2> QED
    BY <2>1, <2>2, <2>4 DEF a, b
<1> QED
  BY <1>3, <1>4, <1>5 DEF Spans

\* A part whose commas are quoted and whose quotes are closed.
Closed(part) ==
    /\ \A k \in Places(part, Comma) : InQuotes(part, k)
    /\ ~InQuotes(part, Len(part) + 1)

\* A text cut into such parts separates where it was cut.
LEMMA CutsAreCommas ==
    ASSUME NEW S, NEW text \in Seq(S), NEW cuts \in SUBSET Places(text, Comma),
           \A end \in cuts \cup {Len(text) + 1} : Closed(Between(text, cuts, end))
    PROVE  Commas(text) = cuts
<1> DEFINE ends == cuts \cup {Len(text) + 1}
           Part(end) == Between(text, cuts, end)
<1>1. Len(text) \in Nat /\ cuts \subseteq 1 .. Len(text) /\ ends \subseteq 1 .. Len(text) + 1
      /\ \A k \in cuts : text[k] = Comma
  BY CutsInside
<1>2. Quote # Comma
  BY WordsDiffer
<1>3. ~InQuotes(text, 0)
  <2>1. QuotesBefore(text, 0) = {}
    BY DEF QuotesBefore, Places
  <2>2. Cardinality({}) = 0 /\ 0 % 2 # 1
    BY FS_EmptySet
  <2>3. Cardinality(QuotesBefore(text, 0)) % 2 # 1
    BY <2>1, <2>2
  <2> QED
    BY <2>3 DEF InQuotes, QuotesBefore
<1>4. ASSUME NEW end \in ends
      PROVE  \E lo \in {0} \cup cuts : Spans(S, text, cuts, lo, end)
  <2>1. end \in 1 .. Len(text) + 1 /\ cuts \subseteq 1 .. Len(text)
    BY <1>1
  <2> HIDE DEF ends
  <2> QED
    BY <2>1, BetweenIs
<1> HIDE DEF ends
<1>5. ASSUME NEW end \in ends PROVE ~InQuotes(text, end)
  <2> DEFINE open == {e \in ends : InQuotes(text, e)}
  <2> SUFFICES ASSUME open # {} PROVE FALSE
    BY <1>5
  <2> DEFINE first == Min(open)
  <2>1. open \subseteq Nat
    <3>1. \A e \in ends : e \in Nat
      BY <1>1
    <3> QED
      BY <3>1
  <2>2. first \in open /\ \A e \in open : first <= e
    <3> HIDE DEF open
    <3> QED
      BY <2>1, MinIsLeast
  <2>3. first \in ends /\ InQuotes(text, first) /\ first \in 1 .. Len(text) + 1
    BY <1>1, <2>2
  <2> HIDE DEF first
  <2>4. PICK lo \in {0} \cup cuts :
              /\ lo < first /\ \A k \in cuts : k < first => k <= lo
              /\ Part(first) \in Seq(S) /\ Len(Part(first)) = first - lo - 1
              /\ \A k \in 1 .. first - lo - 1 : Part(first)[k] = text[lo + k]
    BY <1>4, <2>3 DEF Spans
  <2>5. lo \in 0 .. Len(text) /\ (lo > 0 => text[lo] # Quote)
    BY <1>1, <1>2
  <2>6. ~InQuotes(text, lo)
    <3>1. CASE lo = 0
      BY <1>3, <3>1
    <3>2. CASE lo # 0
      <4>1. lo \in ends /\ lo \in Nat
        BY <1>1, <2>4, <3>2 DEF ends
      <4> QED
        BY <1>1, <2>2, <2>3, <2>4, <4>1
    <3> QED
      BY <3>1, <3>2
  <2>7. Closed(Part(first))
    BY <2>3 DEF ends
  <2> DEFINE part == Part(first)
             after == Len(part) + 1
  <2>8. part \in Seq(S) /\ lo + Len(part) <= Len(text) /\ after \in 1 .. Len(part) + 1
        /\ lo + after = first /\ \A k \in 1 .. Len(part) : part[k] = text[lo + k]
    BY <1>1, <2>3, <2>4, <2>5
  <2>9. ~InQuotes(part, after)
    BY <2>7 DEF Closed
  <2> HIDE DEF part, after
  <2>10. InQuotes(text, lo + after) <=> InQuotes(part, after)
    BY <2>5, <2>6, <2>8, PartQuotes
  <2> QED
    BY <2>3, <2>8, <2>9, <2>10
<1>6. ASSUME NEW k \in Places(text, Comma), k \notin cuts PROVE InQuotes(text, k)
  <2> DEFINE above == {e \in ends : k < e}
             end == Min(above)
  <2>1. k \in 1 .. Len(text) /\ text[k] = Comma
    BY DEF Places
  <2>2. above \subseteq Nat /\ above # {}
    BY <1>1, <2>1 DEF ends
  <2>3. end \in above /\ \A e \in above : end <= e
    <3> HIDE DEF above
    <3> QED
      BY <2>2, MinIsLeast
  <2>4. end \in ends /\ k < end /\ end \in 1 .. Len(text) + 1
    BY <1>1, <2>3
  <2> HIDE DEF end
  <2>5. PICK lo \in {0} \cup cuts :
              /\ lo < end /\ \A j \in cuts : j < end => j <= lo
              /\ Part(end) \in Seq(S) /\ Len(Part(end)) = end - lo - 1
              /\ \A j \in 1 .. end - lo - 1 : Part(end)[j] = text[lo + j]
    BY <1>4, <2>4 DEF Spans
  <2>6. lo \in 0 .. Len(text) /\ (lo > 0 => text[lo] # Quote)
    BY <1>1, <1>2
  <2>7. lo < k
    <3>1. CASE lo = 0
      BY <2>1, <3>1
    <3>2. CASE lo # 0
      <4>1. lo \in cuts /\ lo \in ends /\ lo \in Nat
        BY <1>1, <2>5, <3>2 DEF ends
      <4>2. ~(k < lo)
        BY <1>1, <2>3, <2>4, <2>5, <4>1
      <4> QED
        BY <1>6, <2>1, <4>1, <4>2
    <3> QED
      BY <3>1, <3>2
  <2>8. ~InQuotes(text, lo)
    BY <1>3, <1>5 DEF ends
  <2>9. Closed(Part(end))
    BY <2>4 DEF ends
  <2> DEFINE part == Part(end)
             j == k - lo
  <2>10. part \in Seq(S) /\ lo + Len(part) <= Len(text) /\ j \in 1 .. Len(part)
         /\ lo + j = k /\ \A i \in 1 .. Len(part) : part[i] = text[lo + i]
    BY <1>1, <2>1, <2>4, <2>5, <2>6, <2>7
  <2> HIDE DEF j
  <2>11. part[j] = Comma
    BY <2>1, <2>10
  <2>12. InQuotes(part, j)
    BY <2>9, <2>10, <2>11 DEF Closed, Places
  <2> HIDE DEF part
  <2>13. j \in 1 .. Len(part) + 1
    BY <2>10
  <2>14. InQuotes(text, lo + j) <=> InQuotes(part, j)
    BY <2>6, <2>8, <2>10, <2>13, PartQuotes
  <2> QED
    BY <2>10, <2>12, <2>14
<1> QED
  BY <1>5, <1>6 DEF Commas, ends

LEMMA QuotedClosed ==
    ASSUME NEW S, NEW s \in Seq(S), Len(s) = 5, s[1] \notin {Quote, Comma}, s[2] \notin {Quote, Comma},
           s[3] = Quote, s[4] \notin {Quote, Comma}, s[5] = Quote
    PROVE  Closed(s)
<1>1. Quote # Comma
  BY WordsDiffer
<1>2. Places(s, Comma) = {}
  BY <1>1 DEF Places
<1>3. QuotesBefore(s, Len(s) + 1) = {3, 5}
  BY DEF Places, QuotesBefore
<1>4. Cardinality(QuotesBefore(s, Len(s) + 1)) % 2 # 1
  BY <1>3, TwoQuotes
<1> QED
  BY <1>2, <1>4 DEF Closed, InQuotes, QuotesBefore

LEMMA PartsClosed ==
    ASSUME NEW n \in Nat, NEW part, part \in {<<>>, Macaroon(n), Invoice(n)} \/ IsParameter(part)
    PROVE  Closed(part)
<1>1. CASE part = <<>>
  <2>1. Places(<<>>, Comma) = {} /\ QuotesBefore(<<>>, Len(<<>>) + 1) = {}
    BY DEF Places, QuotesBefore
  <2>2. Cardinality({}) = 0 /\ 0 % 2 # 1
    BY FS_EmptySet
  <2>3. Cardinality(QuotesBefore(<<>>, Len(<<>>) + 1)) % 2 # 1
    BY <2>1, <2>2
  <2> QED
    BY <1>1, <2>1, <2>3 DEF Closed, InQuotes, QuotesBefore
<1>2. CASE part = Macaroon(n)
  BY <1>2, Parts, WordsDiffer, QuotedClosed
<1>3. CASE part = Invoice(n)
  BY <1>3, Parts, WordsDiffer, QuotedClosed
<1>4. CASE IsParameter(part)
  BY <1>4 DEF IsParameter, Closed
<1> QED
  BY <1>1, <1>2, <1>3, <1>4

\* What is read of a parameter that is cut out of a text.
LEMMA PartsRead ==
    ASSUME NEW n \in Nat
    PROVE  /\ Macaroon(n) # <<>> /\ Places(Macaroon(n), Equals) # {}
           /\ Before(Macaroon(n), Equals) = <<Text("macaroon")>>
           /\ Unquoted(After(Macaroon(n), Equals)) = <<Symbol("mac", n)>>
           /\ Invoice(n) # <<>> /\ Places(Invoice(n), Equals) # {}
           /\ Before(Invoice(n), Equals) = <<Text("invoice")>>
           /\ Unquoted(After(Invoice(n), Equals)) = <<Symbol("inv", n)>>
<1> DEFINE mac == Macaroon(n)
           inv == Invoice(n)
           W == Words(n)
<1>1. /\ mac \in Seq(W) /\ Len(mac) = 5 /\ mac[1] = Text("macaroon") /\ mac[2] = Equals
      /\ mac[3] = Quote /\ mac[4] = Symbol("mac", n) /\ mac[5] = Quote
      /\ inv \in Seq(W) /\ Len(inv) = 5 /\ inv[1] = Text("invoice") /\ inv[2] = Equals
      /\ inv[3] = Quote /\ inv[4] = Symbol("inv", n) /\ inv[5] = Quote
  BY Parts
<1> HIDE DEF mac, inv, W
<1>2. mac # <<>> /\ Places(mac, Equals) # {} /\ Before(mac, Equals) = <<Text("macaroon")>>
  <2>1. mac \in Seq(W) /\ Len(mac) > 1 /\ mac[1] # Equals /\ mac[2] = Equals
    BY <1>1, WordsDiffer
  <2>2. mac # <<>> /\ Places(mac, Equals) # {} /\ Before(mac, Equals) = <<mac[1]>>
    BY <2>1, KeyOf
  <2> QED
    BY <1>1, <2>2
<1>3. inv # <<>> /\ Places(inv, Equals) # {} /\ Before(inv, Equals) = <<Text("invoice")>>
  <2>1. inv \in Seq(W) /\ Len(inv) > 1 /\ inv[1] # Equals /\ inv[2] = Equals
    BY <1>1, WordsDiffer
  <2>2. inv # <<>> /\ Places(inv, Equals) # {} /\ Before(inv, Equals) = <<inv[1]>>
    BY <2>1, KeyOf
  <2> QED
    BY <1>1, <2>2
<1>4. Unquoted(After(mac, Equals)) = <<Symbol("mac", n)>>
  BY <1>1, WordsDiffer, QuotedWord
<1>5. Unquoted(After(inv, Equals)) = <<Symbol("inv", n)>>
  BY <1>1, WordsDiffer, QuotedWord
<1> QED
  BY <1>2, <1>3, <1>4, <1>5 DEF mac, inv

\* The last parameter with a key has the value of every one with it.
LEMMA KeyRead ==
    ASSUME NEW bound \in Nat, NEW text, Params(text) \subseteq 0 .. bound,
           NEW key, NEW param, NEW end \in Params(text), Parameter(text, end) = param,
           Before(param, Equals) = <<Text(key)>>,
           \A other \in Params(text) :
              Before(Parameter(text, other), Equals) = <<Text(key)>> => Parameter(text, other) = param
    PROVE  WithKey(text, key) # {} /\ Value(text, key) = Unquoted(After(param, Equals))
<1> DEFINE with == WithKey(text, key)
<1>1. end \in with /\ with \subseteq 0 .. bound
  BY DEF WithKey
<1>2. \A other \in with : Parameter(text, other) = param
  BY DEF WithKey
<1> HIDE DEF with
<1>3. with # {} /\ Max(with) \in with
  <2>1. with # {}
    BY <1>1
  <2> QED
    BY <1>1, <2>1, MaxIsGreatest
<1>4. Parameter(text, Max(with)) = param
  BY <1>2, <1>3
<1> QED
  BY <1>3, <1>4 DEF Value, with

\* What is read of a header that is cut into parameters at its commas.
LEMMA ChallengeIsRead ==
    ASSUME NEW S, NEW header, header.text \in Seq(S), NEW n \in Nat, IsChallenge(header, n)
    PROVE  FromHeader(header) = [macaroon |-> n, invoice |-> n]
<1> DEFINE text == header.text
           mac == Macaroon(n)
           inv == Invoice(n)
<1>1. PICK cuts \in SUBSET Places(text, Comma) :
        LET parts == {Between(text, cuts, end) : end \in cuts \cup {Len(text) + 1}}
        IN  /\ {mac, inv} \subseteq parts
            /\ \A part \in parts : part \in {<<>>, mac, inv} \/ IsParameter(part)
  BY DEF IsChallenge
<1> DEFINE ends == cuts \cup {Len(text) + 1}
           Part(end) == Between(text, cuts, end)
<1>2. KnownScheme(header) /\ text \in Seq(S)
  BY DEF IsChallenge
<1>3. \E m, i \in ends : Part(m) = mac /\ Part(i) = inv
  BY <1>1
<1>4. \A end \in ends : Part(end) \in {<<>>, mac, inv} \/ IsParameter(Part(end))
  BY <1>1
<1> HIDE DEF text
<1>5. ASSUME NEW end \in ends PROVE Closed(Part(end))
  <2> DEFINE part == Part(end)
  <2>1. part \in {<<>>, mac, inv} \/ IsParameter(part)
    BY <1>4
  <2> HIDE DEF part
  <2>2. Closed(part)
    BY <2>1, PartsClosed
  <2> QED
    BY <2>2 DEF part
<1>6. Commas(text) = cuts
  <2> HIDE DEF mac, inv
  <2>1. \A end \in cuts \cup {Len(text) + 1} : Closed(Between(text, cuts, end))
    BY <1>5
  <2>2. cuts \in SUBSET Places(text, Comma)
    OBVIOUS
  <2> QED
    BY <1>2, <2>1, <2>2, CutsAreCommas
<1>7. \A end : Parameter(text, end) = Part(end)
  BY <1>6 DEF Parameter, Between
<1>8. Params(text) = {end \in ends : Part(end) # <<>>}
  BY <1>6, <1>7 DEF Params
<1>9. Len(text) \in Nat /\ ends \subseteq 1 .. Len(text) + 1
  BY <1>2, CutsInside
<1>10. /\ mac # <<>> /\ Places(mac, Equals) # {} /\ Before(mac, Equals) = <<Text("macaroon")>>
       /\ Unquoted(After(mac, Equals)) = <<Symbol("mac", n)>>
       /\ inv # <<>> /\ Places(inv, Equals) # {} /\ Before(inv, Equals) = <<Text("invoice")>>
       /\ Unquoted(After(inv, Equals)) = <<Symbol("inv", n)>>
  BY PartsRead
<1>11. <<Text("macaroon")>> # <<Text("invoice")>>
  BY WordsDiffer
<1> HIDE DEF ends, Part, mac, inv
<1>12. ASSUME NEW end \in Params(text), Parameter(text, end) \notin {mac, inv}
       PROVE  /\ Places(Parameter(text, end), Equals) # {}
              /\ Before(Parameter(text, end), Equals) # <<Text("macaroon")>>
              /\ Before(Parameter(text, end), Equals) # <<Text("invoice")>>
  <2> DEFINE param == Parameter(text, end)
  <2>1. end \in ends /\ param = Part(end) /\ param # <<>>
    BY <1>7, <1>8
  <2>2. IsParameter(param)
    BY <1>4, <1>12, <2>1
  <2>3. param \in Seq(S)
    BY <1>2, ParameterWords
  <2> HIDE DEF param
  <2>4. Len(param) > 1 /\ param[2] = Equals
        /\ param[1] \notin {Text("macaroon"), Text("invoice"), Quote, Comma, Equals}
    BY <2>2 DEF IsParameter
  <2>5. Places(param, Equals) # {} /\ Before(param, Equals) = <<param[1]>>
    BY <2>3, <2>4, KeyOf
  <2>6. <<param[1]>> # <<Text("macaroon")>> /\ <<param[1]>> # <<Text("invoice")>>
    BY <2>4
  <2> QED
    BY <2>5, <2>6 DEF param
<1>13. \A end \in Params(text) : Places(Parameter(text, end), Equals) # {}
  BY <1>10, <1>12
<1>14. PICK m, i \in Params(text) : Parameter(text, m) = mac /\ Parameter(text, i) = inv
  BY <1>3, <1>7, <1>8, <1>10
<1> DEFINE bound == Len(text) + 1
<1>15. bound \in Nat /\ Params(text) \subseteq 0 .. bound
  <2>1. bound \in Nat /\ Params(text) \subseteq 1 .. bound
    <3>1. Params(text) \subseteq ends
      BY <1>8
    <3>2. Len(text) \in Nat /\ ends \subseteq 1 .. Len(text) + 1
      BY <1>9
    <3>3. bound \in Nat
      BY <3>2
    <3>4. ends \subseteq 1 .. bound
      BY <3>2
    <3> QED
      BY <3>1, <3>3, <3>4
  <2> HIDE DEF bound
  <2> QED
    BY <2>1
<1> HIDE DEF bound
<1>16. \A other \in Params(text) :
          /\ Before(Parameter(text, other), Equals) = <<Text("macaroon")>>
                => Parameter(text, other) = mac
          /\ Before(Parameter(text, other), Equals) = <<Text("invoice")>>
                => Parameter(text, other) = inv
  BY <1>10, <1>11, <1>12
<1>17. WithKey(text, "macaroon") # {} /\ Value(text, "macaroon") = <<Symbol("mac", n)>>
  <2> DEFINE key == "macaroon"
  <2>1. Before(mac, Equals) = <<Text(key)>>
        /\ \A other \in Params(text) :
              Before(Parameter(text, other), Equals) = <<Text(key)>> => Parameter(text, other) = mac
    BY <1>10, <1>16
  <2> HIDE DEF key
  <2>2. WithKey(text, key) # {} /\ Value(text, key) = Unquoted(After(mac, Equals))
    BY <1>14, <1>15, <2>1, KeyRead
  <2> QED
    BY <1>10, <2>2 DEF key
<1>18. WithKey(text, "invoice") # {} /\ Value(text, "invoice") = <<Symbol("inv", n)>>
  <2> DEFINE key == "invoice"
  <2>1. Before(inv, Equals) = <<Text(key)>>
        /\ \A other \in Params(text) :
              Before(Parameter(text, other), Equals) = <<Text(key)>> => Parameter(text, other) = inv
    BY <1>10, <1>16
  <2> HIDE DEF key
  <2>2. WithKey(text, key) # {} /\ Value(text, key) = Unquoted(After(inv, Equals))
    BY <1>14, <1>15, <2>1, KeyRead
  <2> QED
    BY <1>10, <2>2 DEF key
<1>19. /\ IsA(Value(text, "macaroon"), "mac") /\ Number(Value(text, "macaroon")) = n
       /\ IsA(Value(text, "invoice"), "inv") /\ Number(Value(text, "invoice")) = n
  BY <1>17, <1>18, WordsDiffer DEF IsA, Number
<1> QED
  BY <1>2, <1>13, <1>17, <1>18, <1>19 DEF FromHeader, text

\* challenge.rs, parse_params and parse_kv: of every header that is a challenge
\* by the grammar, whoever sent it, the macaroon and the invoice are read: for
\* parameters of any number, order and length, and any text in their quotes.
THEOREM ChallengesRead == Spec => []ChallengeRead
<1>1. Exchanged => ChallengeRead
  <2> SUFFICES ASSUME Exchanged, NEW p \in Payers, At(p, "challenged"), NEW n \in 1 .. Len(registry),
                      IsChallenge(request[p].header, n)
               PROVE  FromHeader(request[p].header) = [macaroon |-> n, invoice |-> n]
    BY DEF ChallengeRead
  <2>1. request[p].step = "challenged" /\ Asked(p) /\ n \in Nat /\ Len(registry) \in Nat
    BY DEF At, Exchanged, Good
  <2>2. PICK m \in 1 .. Len(registry) : \E header \in HeadersOf(m) :
            request[p] = [step |-> "challenged", header |-> header]
    <3>1. request[p] # [step |-> "start"] /\ request[p].step \notin Submitted
          /\ ~At(p, "refused") /\ ~At(p, "pay")
      BY <2>1 DEF At, Submitted
    <3> QED
      BY <2>1, <3>1 DEF Asked
  <2>3. request[p].header \in HeadersOf(m) /\ m \in Nat
    BY <2>1, <2>2
  <2>4. request[p].header.text \in Seq(Words(m))
    BY <2>3, HeaderWords
  <2> QED
    BY <2>1, <2>4, ChallengeIsRead
<1> QED
  BY <1>1, ExchangedAlways, PTL
===============================================================================
