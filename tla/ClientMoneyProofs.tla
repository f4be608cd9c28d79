--------------------------- MODULE ClientMoneyProofs ---------------------------
(***************************************************************************)
(* Theorems about the client's money, for every set of requests, urls and  *)
(* invoices and every budget: what the wallet paid, the receipts and the   *)
(* ledger agree, and a breach or a full budget stops the payments.         *)
(***************************************************************************)
EXTENDS ClientProofs

-----------------------------------------------------------------------------
(* The steps that move money.  All others leave the budget, the payments   *)
(* with the wallet and the amounts of the receipts as they are.            *)

\* The payments whose receipt is in the ledger.
Booked == {r \in DOMAIN receipts : ~At(r, "settle")}

Quiet ==
    /\ UNCHANGED <<budget, wallet>>
    /\ DOMAIN receipts' = DOMAIN receipts
    /\ Booked' = Booked
    /\ \A r \in Requests : pc'[r] = "settle" <=> pc[r] = "settle"
    /\ \A r \in DOMAIN receipts : receipts'[r].amount = receipts[r].amount
    /\ \A r \in Requests : Id(r)' = Id(r)

\* A request that moves on, neither from nor to a settlement.
LEMMA MoveQuiet ==
    ASSUME Typed, NEW r \in Requests, ~At(r, "settle"), NEW place, Goto(r, place),
           place # "settle", UNCHANGED <<budget, wallet, receipts>>,
           \A s \in Requests : Id(s)' = Id(s)
    PROVE  Quiet
<1>1. \A s \in Requests : pc'[s] = "settle" <=> pc[s] = "settle"
  BY DEF Typed, TypeOK, Goto, At
<1>2. DOMAIN receipts \subseteq Requests
  BY DEF Typed, TypeOK, IsMap
<1>3. Booked' = Booked
  BY <1>1, <1>2 DEF Booked, At
<1> QED
  BY <1>1, <1>3 DEF Quiet

LEMMA RetryQuiet ==
    ASSUME Typed, NEW r \in Requests, At(r, "retry"),
           NEW place \in {"served", "drop"}, Goto(r, place),
           NEW status \in {0, 200, 402},
           receipts' = WithStatus(receipts, frame[r].receipt, status),
           UNCHANGED <<frame, budget, wallet>>
    PROVE  Quiet
<1> DEFINE k == frame[r].receipt
           given == [receipts[k] EXCEPT !.status = status]
<1>1. IsMap(receipts, Requests, Receipt)
  BY DEF Typed, TypeOK
<1>2. k \in DOMAIN receipts => given.amount = receipts[k].amount
  BY <1>1 DEF IsMap, Receipt
<1>3. receipts' = [s \in DOMAIN receipts |-> IF s = k THEN given ELSE receipts[s]]
  BY DEF WithStatus
<1> HIDE DEF given
<1>4. /\ DOMAIN receipts' = DOMAIN receipts
      /\ \A s \in DOMAIN receipts : receipts'[s].amount = receipts[s].amount
  BY <1>2, <1>3
<1>5. \A s \in Requests : pc'[s] = "settle" <=> pc[s] = "settle"
  BY DEF Typed, TypeOK, Goto, At
<1>6. Booked' = Booked
  BY <1>1, <1>4, <1>5 DEF Booked, At, IsMap
<1> QED
  BY <1>4, <1>5, <1>6 DEF Quiet, Id

\* Every step is quiet or one of those below.
LEMMA MoneySteps ==
    ASSUME Typed, [Next]_vars
    PROVE  \/ Quiet
           \/ \E r \in Requests : \E i \in Invoices : Submit(r, i)
           \/ \E r \in Requests : WalletPays(r) \/ WalletFails(r)
           \/ \E r \in Requests : PayOk(r)
           \/ \E r \in Requests : PayRejected(r)
           \/ \E r \in Requests : SettlePayment(r)
<1>1. ASSUME UNCHANGED <<pc, frame, money>> PROVE Quiet
  BY <1>1 DEF Quiet, Booked, At, Id, money
<1>2. ASSUME NEW r \in Requests, ~At(r, "settle"), NEW place, Goto(r, place),
             place # "settle", UNCHANGED <<frame, money>>
      PROVE  Quiet
  BY <1>2, MoveQuiet DEF money, Id
<1>3. ASSUME NEW r \in Requests, Start(r) PROVE Quiet
  <2>1. PICK place \in {"get", "auth"} : Goto(r, place)
    BY <1>3 DEF Start
  <2>2. \A s \in Requests : Id(s)' = Id(s)
    BY <1>3 DEF Start, Holds, Id, Typed, TypeOK, Frame
  <2> QED
    BY <1>3, <2>1, <2>2, MoveQuiet DEF Start, At, money
<1>4. ASSUME NEW r \in Requests, StoreGet(r) PROVE Quiet
  <2>1. PICK place \in {"plain", "auth"} : Goto(r, place)
    BY <1>4 DEF StoreGet
  <2>2. \A s \in Requests : Id(s)' = Id(s)
    BY <1>4 DEF StoreGet, Holds, Id, Typed, TypeOK, Frame
  <2> QED
    BY <1>4, <2>1, <2>2, MoveQuiet DEF StoreGet, At, money
<1>5. ASSUME NEW r \in Requests, NEW i \in Invoices, ReuseProof(r, i) PROVE Quiet
  <2>1. \A s \in Requests : Id(s)' = Id(s)
    BY <1>5 DEF ReuseProof, Id, Typed, TypeOK, Frame
  <2> QED
    BY <1>5, <2>1, MoveQuiet DEF ReuseProof, Challenged, At, money
<1>6. ASSUME NEW r \in Requests, NEW i \in Invoices, DeclineToPay(r, i) PROVE Quiet
  BY <1>6, <1>2 DEF DeclineToPay, Challenged, At
<1>7. ASSUME NEW r \in Requests, AuthServed(r) PROVE Quiet
  BY <1>7, <1>2 DEF AuthServed, At
<1>8. ASSUME NEW r \in Requests, AuthRefused(r) PROVE Quiet
  BY <1>8, <1>2 DEF AuthRefused, At
<1>9. ASSUME NEW r \in Requests, StoreRemove(r) PROVE Quiet
  BY <1>9, <1>2 DEF StoreRemove, At
<1>10. ASSUME NEW r \in Requests, PlainServed(r) PROVE Quiet
  BY <1>10, <1>2 DEF PlainServed, At
<1>11. ASSUME NEW r \in Requests, PayUnknown(r) PROVE Quiet
  BY <1>11, <1>2 DEF PayUnknown, At
<1>12. ASSUME NEW r \in Requests, Forget(r) \/ RecordPayment(r) PROVE Quiet
  <2>1. PICK place \in {"failed", "persist"} : Goto(r, place)
    BY <1>12 DEF Forget, RecordPayment
  <2> QED
    BY <1>12, <2>1, MoveQuiet DEF Forget, RecordPayment, At, Id
<1>13. ASSUME NEW r \in Requests, Persist(r) PROVE Quiet
  BY <1>13, <1>2 DEF Persist, At
<1>14. ASSUME NEW r \in Requests, StorePut(r) PROVE Quiet
  BY <1>14, <1>2 DEF StorePut, At
<1>15. ASSUME NEW r \in Requests, Confirm(r) PROVE Quiet
  BY <1>15, <1>2 DEF Confirm, At
<1>16. ASSUME NEW r \in Requests, RetryServed(r) PROVE Quiet
  BY <1>16, RetryQuiet DEF RetryServed
<1>17. ASSUME NEW r \in Requests, RetryRefused(r) PROVE Quiet
  BY <1>17, RetryQuiet DEF RetryRefused
<1>18. ASSUME NEW r \in Requests, StoreDrop(r) PROVE Quiet
  BY <1>18, <1>2 DEF StoreDrop, At
<1>19. ASSUME NEW r \in Requests, HttpFails(r) PROVE Quiet
  BY <1>19, <1>2 DEF HttpFails, At
<1>20. ASSUME NEW r \in Requests, StoreFails(r) PROVE Quiet
  <2>1. PICK place \in {"unstored", "failed"} : Goto(r, place)
    BY <1>20 DEF StoreFails
  <2> QED
    BY <1>20, <2>1, <1>2 DEF StoreFails, At
<1>21. ASSUME NEW r \in Requests, Cancel(r) PROVE Quiet
  BY <1>21, <1>2 DEF Cancel, Awaits, At
<1>22. ASSUME \/ \E c \in late : Land(c)
              \/ \E u \in Urls : StoreLoses(u)
       PROVE  Quiet
  BY <1>22, <1>1 DEF Land, StoreLoses
<1>23. ASSUME UNCHANGED vars PROVE Quiet
  BY <1>23, <1>1 DEF vars
<1> QED
  BY <1>3, <1>4, <1>5, <1>6, <1>7, <1>8, <1>9, <1>10, <1>11, <1>12, <1>13, <1>14,
     <1>15, <1>16, <1>17, <1>18, <1>19, <1>20, <1>21, <1>22, <1>23 DEF Next, Step

-----------------------------------------------------------------------------
(* What the client was told of its payments, and what it makes of a breach. *)

\* The property NoPaymentAfterBreach is about what one step does; what it needs of
\* the states is that a breach that is booked has frozen the budget, that a
\* receipt is of a payment that has ended, and so can no longer turn into a
\* breach, and that a request with a receipt pays no more.
Told ==
    /\ IsFiniteSet(DOMAIN wallet)
    /\ \A r \in Requests : At(r, "settle") => r \in DOMAIN receipts
    /\ \A r \in DOMAIN receipts :
          /\ r \in DOMAIN wallet
          /\ wallet[r].status = "paid"
          /\ receipts[r].amount = wallet[r].amount
    /\ \A r \in Booked : wallet[r].violation => budget.frozen

LEMMA InitTold == Init => Told
BY FS_EmptySet DEF Init, Told, Booked, At

\* Submit is the first and only payment of its request, and needs a budget that
\* is not frozen.
LEMMA SubmitIsFirst ==
    ASSUME Typed, Claims, NEW r \in Requests, NEW i \in Invoices, Submit(r, i)
    PROVE  /\ r \notin DOMAIN wallet
           /\ ~budget.frozen
           /\ budget'.frozen = budget.frozen
           /\ budget'.global = budget.global
           /\ receipts' = receipts
           /\ Booked' = Booked
           /\ \A s \in Requests : pc'[s] = "settle" => pc[s] = "settle"
           /\ DOMAIN wallet' = DOMAIN wallet \cup {r}
           /\ \A s \in DOMAIN wallet : wallet'[s] = wallet[s]
<1>1. PICK fee \in 0 .. MaxFeeSats :
         /\ budget' = Reserved(budget, Price[i], fee, HostOf[Url(r)])
         /\ wallet' = With(wallet, r, [invoice |-> i, cap |-> fee, amount |-> 0,
                                       violation |-> FALSE, status |-> "in_flight"])
  BY DEF Submit
<1>2. pc[r] = "plain" /\ receipts' = receipts /\ ~budget.frozen
  BY DEF Submit, Challenged, At, CanPay, CanReserve
<1>3. r \notin DOMAIN wallet
  BY <1>2 DEF Claims, Early
<1>4. budget = [global |-> budget.global, domains |-> budget.domains,
                pending |-> budget.pending, next_id |-> budget.next_id,
                frozen |-> budget.frozen]
  BY DEF Typed, TypeOK, IsBudgetState
<1>5. budget'.frozen = budget.frozen /\ budget'.global = budget.global
  BY <1>1, <1>4 DEF Reserved
<1>6. pc'[r] = "pay" /\ \A s \in Requests \ {r} : pc'[s] = pc[s]
  BY DEF Submit, Goto, Typed, TypeOK
<1>7. Booked' = Booked
  BY <1>2, <1>6 DEF Booked, At, Typed, TypeOK, IsMap
<1> QED
  BY <1>1, <1>2, <1>3, <1>5, <1>6, <1>7 DEF With

\* A request moves to its settlement with the receipt of its payment.
LEMMA PayOkGivesReceipt ==
    ASSUME Typed, Live, NEW r \in Requests, PayOk(r)
    PROVE  /\ r \in DOMAIN wallet /\ wallet[r].status = "paid"
           /\ UNCHANGED <<budget, wallet>>
           /\ DOMAIN receipts' = DOMAIN receipts \cup {r}
           /\ receipts'[r].amount = wallet[r].amount
           /\ \A s \in DOMAIN receipts : receipts'[s] = receipts[s]
           /\ Booked' = Booked
           /\ \A s \in Requests : Id(s)' = Id(s)
<1>0. r \notin DOMAIN receipts
  BY DEF PayOk, At, Live, Unpaid
<1>1. r \in DOMAIN wallet /\ wallet[r].status = "paid"
  BY DEF PayOk, At, Typed, Equipped, Paying
<1>2. /\ DOMAIN receipts' = DOMAIN receipts \cup {r}
      /\ receipts'[r].amount = wallet[r].amount
      /\ \A s \in DOMAIN receipts : receipts'[s] = receipts[s]
  BY <1>0 DEF PayOk, With
<1>3. pc'[r] = "settle" /\ \A s \in Requests \ {r} : pc'[s] = pc[s]
  BY DEF PayOk, Goto, Typed, TypeOK
<1>4. DOMAIN receipts \subseteq Requests
  BY DEF Typed, TypeOK, IsMap
<1>5. Booked' = Booked
  BY <1>0, <1>2, <1>3, <1>4 DEF Booked, At
<1>6. \A s \in Requests : Id(s)' = Id(s)
  BY DEF PayOk, Id, Typed, TypeOK, Frame
<1> QED
  BY <1>1, <1>2, <1>5, <1>6 DEF PayOk

\* A settlement books the receipt and records what the wallet reported.
LEMMA SettlementBooks ==
    ASSUME Typed, Live, Told, NEW r \in Requests, SettlePayment(r)
    PROVE  /\ r \in DOMAIN receipts /\ wallet[r].amount \in U64
           /\ r \notin Booked /\ Booked' = Booked \cup {r}
           /\ UNCHANGED <<receipts, wallet>>
           /\ \A s \in Requests : Id(s)' = Id(s)
           /\ \A s \in Requests : pc'[s] = "settle" => pc[s] = "settle"
           /\ Id(r) \in DOMAIN budget.pending
           /\ budget'.pending = Without(budget.pending, Id(r))
           /\ budget'.next_id = budget.next_id
           /\ budget'.global = Record(budget.global, wallet[r].amount, 0)
           /\ budget'.frozen = (\/ budget.frozen
                                \/ wallet[r].violation
                                \/ wallet[r].amount > budget.pending[Id(r)].amount)
<1>1. pc[r] = "settle" /\ UNCHANGED <<frame, receipts, wallet>>
  BY DEF SettlePayment, At
<1>2. r \in DOMAIN receipts /\ Id(r) \in DOMAIN budget.pending
  BY <1>1 DEF Told, Live, Reserving, At
<1>3. wallet[r].amount \in U64 /\ wallet[r].violation \in BOOLEAN
  BY <1>2 DEF Told, Typed, TypeOK, IsMap, Payment
<1>4. PICK place \in {"violated", "record"} : Goto(r, place)
  BY DEF SettlePayment
<1>5. pc'[r] = place /\ \A s \in Requests \ {r} : pc'[s] = pc[s]
  BY <1>4 DEF Goto, Typed, TypeOK
<1>6. r \notin Booked /\ Booked' = Booked \cup {r}
  <2>1. DOMAIN receipts \subseteq Requests
    BY DEF Typed, TypeOK, IsMap
  <2> QED
    BY <1>1, <1>2, <1>5, <2>1 DEF Booked, At
<1>7. budget' = Settled(budget, Id(r), wallet[r].amount, 0, wallet[r].violation)
  BY DEF SettlePayment, Id
<1>8. budget = [global |-> budget.global, domains |-> budget.domains,
                pending |-> budget.pending, next_id |-> budget.next_id,
                frozen |-> budget.frozen]
  BY DEF Typed, TypeOK, IsBudgetState
<1>9. /\ budget'.pending = Without(budget.pending, Id(r))
      /\ budget'.next_id = budget.next_id
      /\ budget'.global = Record(budget.global, wallet[r].amount, 0)
      /\ budget'.frozen = (\/ budget.frozen
                           \/ wallet[r].violation
                           \/ wallet[r].amount > budget.pending[Id(r)].amount)
  BY <1>7, <1>8 DEF Settled
<1> QED
  BY <1>1, <1>2, <1>3, <1>5, <1>6, <1>9 DEF Id

LEMMA RejectionReleases ==
    ASSUME Typed, Claims, NEW r \in Requests, PayRejected(r)
    PROVE  /\ r \in DOMAIN wallet /\ wallet[r].status = "failed"
           /\ UNCHANGED <<receipts, wallet>>
           /\ Booked' = Booked
           /\ \A s \in Requests : Id(s)' = Id(s)
           /\ \A s \in Requests : pc'[s] = "settle" => pc[s] = "settle"
           /\ budget'.pending = Without(budget.pending, Id(r))
           /\ budget'.next_id = budget.next_id
           /\ budget'.global = budget.global
           /\ budget'.frozen = budget.frozen
<1>1. /\ pc[r] = "pay" /\ r \in DOMAIN wallet /\ wallet[r].status = "failed"
      /\ UNCHANGED <<frame, receipts, wallet>>
  BY DEF PayRejected, At, Typed, Equipped, Paying
<1>2. pc'[r] = "forget" /\ \A s \in Requests \ {r} : pc'[s] = pc[s]
  BY DEF PayRejected, Goto, Typed, TypeOK
<1>3. Booked' = Booked
  <2>1. DOMAIN receipts \subseteq Requests
    BY DEF Typed, TypeOK, IsMap
  <2> QED
    BY <1>1, <1>2, <2>1 DEF Booked, At
<1>4. /\ budget'.pending = Without(budget.pending, Id(r))
      /\ budget'.next_id = budget.next_id
      /\ budget'.global = budget.global
      /\ budget'.frozen = budget.frozen
  BY ReleasedState DEF PayRejected, Typed, TypeOK, Id
<1> QED
  BY <1>1, <1>2, <1>3, <1>4 DEF Id

LEMMA NextTold == Typed /\ Claims /\ Live /\ Told /\ [Next]_vars => Told'
<1> SUFFICES ASSUME Typed, Claims, Live, Told, [Next]_vars PROVE Told'
  OBVIOUS
<1>1. CASE Quiet
  BY <1>1 DEF Quiet, Told, At, Booked
<1>2. ASSUME NEW r \in Requests, NEW i \in Invoices, Submit(r, i) PROVE Told'
  <2>1. IsFiniteSet(DOMAIN wallet')
    <3>1. IsFiniteSet(DOMAIN wallet \cup {r})
      BY FS_AddElement DEF Told
    <3> QED
      BY <1>2, <3>1, SubmitIsFirst
  <2> QED
    BY <1>2, <2>1, SubmitIsFirst DEF Told, At, Booked
<1>3. ASSUME NEW r \in Requests, WalletPays(r) \/ WalletFails(r) PROVE Told'
  <2>1. UNCHANGED <<pc, budget, receipts>>
    BY <1>3 DEF WalletPays, WalletFails, Answers
  <2>2. r \notin DOMAIN receipts
    BY <1>3, WalletAnswers DEF Told
  <2>3. /\ DOMAIN wallet' = DOMAIN wallet
        /\ \A s \in DOMAIN receipts : wallet'[s] = wallet[s]
    BY <1>3, <2>2, WalletAnswers DEF Told
  <2> QED
    BY <2>1, <2>3 DEF Told, At, Booked
<1>4. ASSUME NEW r \in Requests, PayOk(r) PROVE Told'
  <2>1. \A s \in Requests : pc'[s] = "settle" => s = r \/ pc[s] = "settle"
    BY <1>4 DEF PayOk, Goto, Typed, TypeOK
  <2>2. /\ r \in DOMAIN wallet /\ wallet[r].status = "paid"
        /\ UNCHANGED <<budget, wallet>>
        /\ DOMAIN receipts' = DOMAIN receipts \cup {r}
        /\ receipts'[r].amount = wallet[r].amount
        /\ \A s \in DOMAIN receipts : receipts'[s] = receipts[s]
        /\ Booked' = Booked
    BY <1>4, PayOkGivesReceipt
  <2>3. \A s \in Booked' : wallet'[s].violation => budget'.frozen
    BY <2>2 DEF Told
  <2>4. \A s \in Requests : pc'[s] = "settle" => s \in DOMAIN receipts'
    BY <2>1, <2>2 DEF Told, At
  <2>5. \A s \in DOMAIN receipts' :
          /\ s \in DOMAIN wallet'
          /\ wallet'[s].status = "paid"
          /\ receipts'[s].amount = wallet'[s].amount
    BY <2>2 DEF Told
  <2> QED
    BY <2>2, <2>3, <2>4, <2>5 DEF Told, At
<1>5. ASSUME NEW r \in Requests, PayRejected(r) PROVE Told'
  BY <1>5, RejectionReleases DEF Told, At, Booked
<1>6. ASSUME NEW r \in Requests, SettlePayment(r) PROVE Told'
  <2>1. \A s \in Booked' : wallet[s].violation => budget'.frozen
    BY <1>6, SettlementBooks, Zenon DEF Told
  <2> QED
    BY <1>6, <2>1, SettlementBooks DEF Told, At, Booked
<1> QED
  BY <1>1, <1>2, <1>3, <1>4, <1>5, <1>6, MoneySteps

\* Everything the client's invariants say together.
Sound == Typed /\ Claims /\ Live /\ Told

LEMMA InitSound == Init => Sound
BY InitTyped, InitClaims, InitLive, InitTold DEF Sound

LEMMA NextSound == Sound /\ [Next]_vars => Sound'
BY NextTyped, NextClaims, NextLive, NextTold DEF Sound

LEMMA BreachStops ==
    ASSUME Sound, [Next]_vars,
           \E r \in DOMAIN receipts : wallet[r].violation /\ ~At(r, "settle")
    PROVE  DOMAIN wallet' = DOMAIN wallet
<1>1. budget.frozen
  BY DEF Sound, Told, Booked
<1> QED
  BY <1>1, MoneySteps, SubmitIsFirst, WalletAnswers, PayOkGivesReceipt,
     RejectionReleases, SettlementBooks DEF Quiet, Sound

\* A breach that was settled stops all payments for good: the budget it froze is
\* never thawed, whichever requests are under way or start later.
THEOREM BreachStopsPayments == Spec => NoPaymentAfterBreach
<1>1. Sound /\ [Next]_vars =>
        [(\E r \in DOMAIN receipts : wallet[r].violation /\ ~At(r, "settle"))
            => DOMAIN wallet' = DOMAIN wallet]_vars
  BY BreachStops
<1> QED
  BY <1>1, InitSound, NextSound, PTL DEF Spec, NoPaymentAfterBreach

-----------------------------------------------------------------------------
(* The receipts and the ledger.                                            *)

BookedSats == Sum(receipts, Booked)
HeldSats == Sum(budget.pending, DOMAIN budget.pending)

LEMMA SatsAreNat ==
    ASSUME Sound
    PROVE  /\ IsFiniteSet(DOMAIN wallet) /\ IsFiniteSet(DOMAIN receipts)
           /\ IsFiniteSet(Booked) /\ BookedSats \in Nat /\ HeldSats \in Nat
<1>1. DOMAIN receipts \in SUBSET DOMAIN wallet /\ Booked \in SUBSET DOMAIN receipts
  BY DEF Sound, Told, Booked
<1>2. IsFiniteSet(DOMAIN wallet)
  BY DEF Sound, Told
<1>3. IsFiniteSet(DOMAIN receipts)
  BY <1>1, <1>2, FS_Subset
<1>4. IsFiniteSet(Booked)
  BY <1>1, <1>3, FS_Subset
<1>5. HeldSats \in Nat
  BY SumsAreNat DEF HeldSats, Sound, Typed, TypeOK, IsBudgetState
<1> QED
  BY <1>2, <1>3, <1>4, <1>5, SumIsNat DEF BookedSats

\* What a step does to the two sums that the client keeps of its payments.
LEMMA SameBooks ==
    ASSUME Booked' = Booked, \A r \in Booked : receipts'[r].amount = receipts[r].amount
    PROVE  BookedSats' = BookedSats
<1> DEFINE next == receipts'
<1>1. Sum(next, Booked) = Sum(receipts, Booked)
  BY SumCongruent
<1> QED
  BY <1>1 DEF BookedSats

LEMMA SettlementAddsUp ==
    ASSUME Sound, NEW r \in Requests, SettlePayment(r)
    PROVE  /\ BookedSats' = BookedSats + wallet[r].amount
           /\ HeldSats' = HeldSats - budget.pending[Id(r)].amount
           /\ budget'.global.total = Saturated(budget.global.total + wallet[r].amount)
           /\ wallet[r].amount \in U64 /\ budget.pending[Id(r)].amount \in U64
<1>1. /\ r \in DOMAIN receipts /\ r \notin Booked /\ Booked' = Booked \cup {r}
      /\ receipts' = receipts /\ wallet[r].amount \in U64
      /\ Id(r) \in DOMAIN budget.pending
      /\ budget'.pending = Without(budget.pending, Id(r))
      /\ budget'.global = Record(budget.global, wallet[r].amount, 0)
  BY SettlementBooks DEF Sound
<1>2. receipts[r].amount = wallet[r].amount
  BY <1>1 DEF Sound, Told
<1>3. Sum(receipts, Booked \cup {r}) = Sum(receipts, Booked) + receipts[r].amount
  BY <1>1, <1>2, SatsAreNat, SumPlusOne
<1>4. /\ IsMap(budget.pending, 0 .. MaxId, Entry)
      /\ budget.pending[Id(r)].amount \in U64
      /\ IsLedger(budget.global, 0)
  BY <1>1 DEF Sound, Typed, TypeOK, IsBudgetState, IsMap, Entry
<1> DEFINE id == Id(r)
           left == budget'.pending
<1>5. left = Without(budget.pending, id) /\ id \in DOMAIN budget.pending
      /\ budget.pending[id].amount \in U64
  BY <1>1, <1>4
<1> HIDE DEF id, left
<1>6. Sum(left, DOMAIN left) = Sum(budget.pending, DOMAIN budget.pending)
                                 - budget.pending[id].amount
  BY <1>4, <1>5, SumWithout
<1>7. budget'.global.total = Saturated(budget.global.total + wallet[r].amount)
  BY <1>1 DEF Record
<1> QED
  BY <1>1, <1>2, <1>3, <1>4, <1>6, <1>7 DEF BookedSats, HeldSats, id, left

LEMMA NextMatched ==
    Sound /\ ReceiptsMatchLedger /\ [Next]_vars => ReceiptsMatchLedger'
<1> SUFFICES ASSUME Sound, budget.global.total = Saturated(BookedSats), [Next]_vars
             PROVE  budget'.global.total = Saturated(BookedSats')
  BY DEF ReceiptsMatchLedger, BookedSats, Booked
<1>1. ASSUME budget'.global = budget.global, Booked' = Booked,
             \A r \in Booked : receipts'[r].amount = receipts[r].amount
      PROVE  budget'.global.total = Saturated(BookedSats')
  BY <1>1, SameBooks DEF Saturated
<1>2. CASE Quiet
  BY <1>1, <1>2 DEF Quiet, Booked
<1>3. ASSUME NEW r \in Requests, NEW i \in Invoices, Submit(r, i)
      PROVE  budget'.global.total = Saturated(BookedSats')
  BY <1>1, <1>3, SubmitIsFirst DEF Sound
<1>4. ASSUME NEW r \in Requests, WalletPays(r) \/ WalletFails(r)
      PROVE  budget'.global.total = Saturated(BookedSats')
  <2>1. UNCHANGED <<pc, budget, receipts>>
    BY <1>4 DEF WalletPays, WalletFails, Answers
  <2> QED
    BY <1>1, <2>1 DEF Booked, At
<1>5. ASSUME NEW r \in Requests, PayOk(r)
      PROVE  budget'.global.total = Saturated(BookedSats')
  <2>1. \A s \in Booked : receipts'[s] = receipts[s]
    BY <1>5, PayOkGivesReceipt DEF Sound, Booked
  <2> QED
    BY <1>1, <1>5, <2>1, PayOkGivesReceipt DEF Sound
<1>6. ASSUME NEW r \in Requests, PayRejected(r)
      PROVE  budget'.global.total = Saturated(BookedSats')
  BY <1>1, <1>6, RejectionReleases DEF Sound
<1>7. ASSUME NEW r \in Requests, SettlePayment(r)
      PROVE  budget'.global.total = Saturated(BookedSats')
  <2>1. BookedSats \in Nat /\ wallet[r].amount \in Nat
    BY <1>7, SatsAreNat, SettlementAddsUp, NumbersAssumption DEF U64
  <2>2. Saturated(Saturated(BookedSats) + wallet[r].amount)
           = Saturated(BookedSats + wallet[r].amount)
    BY <2>1, SaturatedTwice
  <2> QED
    BY <1>7, <2>2, SettlementAddsUp
<1> QED
  BY <1>2, <1>3, <1>4, <1>5, <1>6, <1>7, MoneySteps DEF Sound

LEMMA InitMatched == Init => ReceiptsMatchLedger
<1> SUFFICES ASSUME Init PROVE ReceiptsMatchLedger
  OBVIOUS
<1>1. {r \in DOMAIN receipts : ~At(r, "settle")} = {} /\ budget.global.total = 0
  BY DEF Init, NewBudgetState, NewLedger
<1> QED
  BY <1>1, SumOfNone, NumbersAssumption DEF ReceiptsMatchLedger, Saturated

\* Every satoshi a receipt shows is in the ledger and every one in the ledger is
\* on a receipt, with a breach too, up to the saturation of the ledger: whichever
\* requests are cancelled, and whoever updates the receipts' status.
THEOREM LedgerMatchesReceipts == Spec => []ReceiptsMatchLedger
<1> QED
  BY InitSound, NextSound, InitMatched, NextMatched, PTL DEF Spec

-----------------------------------------------------------------------------
(* What is held for each payment.                                          *)

\* The most that the wallet may take for a payment.
Ceiling(r) == Price[wallet[r].invoice] + wallet[r].cap

\* A payment keeps its reservation until it is booked or has failed for certain,
\* also when its request has ended without learning which.
Held ==
    /\ \A r \in DOMAIN wallet : Id(r) \in Nat /\ Id(r) < budget.next_id
    /\ \A r, s \in DOMAIN wallet : r # s => Id(r) # Id(s)
    /\ \A r \in DOMAIN wallet :
          /\ r \in Booked => Id(r) \notin DOMAIN budget.pending
          /\ Id(r) \in DOMAIN budget.pending => budget.pending[Id(r)].amount = Ceiling(r)
          /\ wallet[r].status # "failed" => r \in Booked \/ Id(r) \in DOMAIN budget.pending

LEMMA InitHeld == Init => Held
BY DEF Init, Held

\* The payment that Submit makes, with its reservation.
LEMMA SubmitReserves ==
    ASSUME Sound, NEW r \in Requests, NEW i \in Invoices, Submit(r, i)
    PROVE  \E fee \in U64 :
             /\ Price[i] + fee \in U64
             /\ Admits(budget, GlobalBudget, DomainBudgets, Price[i] + fee, HostOf[Url(r)], 0)
             /\ budget'.pending = With(budget.pending, budget.next_id,
                   [amount |-> Price[i] + fee, domain |-> HostOf[Url(r)]])
             /\ budget'.next_id = budget.next_id + 1
             /\ budget.next_id \in Nat /\ budget.next_id \notin DOMAIN budget.pending
             /\ wallet'[r] = [invoice |-> i, cap |-> fee, amount |-> 0,
                              violation |-> FALSE, status |-> "in_flight"]
             /\ Id(r)' = budget.next_id
             /\ \A s \in Requests \ {r} : Id(s)' = Id(s)
<1>1. PICK fee \in 0 .. MaxFeeSats :
         /\ IsReservedFee(fee, MaxFeeSats, budget, GlobalBudget, DomainBudgets,
                          Price[i], HostOf[Url(r)], 0)
         /\ budget' = Reserved(budget, Price[i], fee, HostOf[Url(r)])
         /\ frame' = [frame EXCEPT
                ![r].token = i,
                ![r].reservation = [id |-> budget.next_id, max_fee_sats |-> fee]]
         /\ wallet' = With(wallet, r, [invoice |-> i, cap |-> fee, amount |-> 0,
                                       violation |-> FALSE, status |-> "in_flight"])
  BY DEF Submit
<1>2. fee \in U64 /\ Price[i] + fee \in Nat
  BY ClientAssumption, NumbersAssumption DEF U64
<1>3. Admits(budget, GlobalBudget, DomainBudgets, Price[i] + fee, HostOf[Url(r)], 0)
  BY <1>1 DEF IsReservedFee
<1>4. IsBudgetState(budget, 0)
  BY DEF Sound, Typed, TypeOK
<1>5. Price[i] + fee \in U64
  BY <1>2, <1>3, <1>4, AdmittedIsU64
<1>6. /\ budget = [global |-> budget.global, domains |-> budget.domains,
                   pending |-> budget.pending, next_id |-> budget.next_id,
                   frozen |-> budget.frozen]
      /\ budget.next_id \in Nat
  BY <1>4, NumbersAssumption DEF IsBudgetState
<1>7. /\ budget'.next_id = budget.next_id + 1
      /\ budget'.pending = With(budget.pending, budget.next_id,
            [amount |-> Price[i] + fee, domain |-> HostOf[Url(r)]])
  BY <1>1, <1>6 DEF Reserved
<1>8. budget.next_id \notin DOMAIN budget.pending
  BY <1>6 DEF Sound, Live
<1>9. Id(r)' = budget.next_id /\ \A s \in Requests \ {r} : Id(s)' = Id(s)
  BY <1>1 DEF Id, Sound, Typed, TypeOK, Frame
<1>10. wallet'[r] = [invoice |-> i, cap |-> fee, amount |-> 0,
                     violation |-> FALSE, status |-> "in_flight"]
  BY <1>1 DEF With
<1> QED
  BY <1>2, <1>3, <1>5, <1>6, <1>7, <1>8, <1>9, <1>10

\* A reservation is taken away with the payment it is for, and no other's.
LEMMA OneHeldLess ==
    ASSUME Sound, Held, NEW r \in DOMAIN wallet,
           wallet' = wallet, \A s \in Requests : Id(s)' = Id(s),
           budget'.pending = Without(budget.pending, Id(r)),
           budget'.next_id = budget.next_id,
           Booked' \subseteq Booked \cup {r}, Booked \subseteq Booked',
           wallet[r].status # "failed" => r \in Booked'
    PROVE  Held'
<1>1. DOMAIN wallet \subseteq Requests
  BY DEF Sound, Typed, TypeOK, IsMap
<1>2. /\ DOMAIN budget'.pending = DOMAIN budget.pending \ {Id(r)}
      /\ \A n \in DOMAIN budget'.pending : budget'.pending[n] = budget.pending[n]
  BY DEF Without
<1>3. \A s \in DOMAIN wallet : Id(s)' = Id(s) /\ Ceiling(s)' = Ceiling(s)
  BY <1>1 DEF Ceiling
<1>4. \A s \in DOMAIN wallet \ {r} :
         /\ Id(s) \in DOMAIN budget'.pending <=> Id(s) \in DOMAIN budget.pending
         /\ s \in Booked' <=> s \in Booked
  BY <1>2 DEF Held
<1>5. \A s \in DOMAIN wallet :
         /\ s \in Booked' => Id(s) \notin DOMAIN budget'.pending
         /\ Id(s) \in DOMAIN budget'.pending => budget'.pending[Id(s)].amount = Ceiling(s)
         /\ wallet[s].status # "failed" => s \in Booked' \/ Id(s) \in DOMAIN budget'.pending
  BY <1>2, <1>4 DEF Held
<1> QED
  BY <1>3, <1>5 DEF Held

LEMMA NextHeld == Sound /\ Held /\ [Next]_vars => Held'
<1> SUFFICES ASSUME Sound, Held, [Next]_vars PROVE Held'
  OBVIOUS
<1>0. DOMAIN wallet \subseteq Requests
  BY DEF Sound, Typed, TypeOK, IsMap
<1>1. CASE Quiet
  BY <1>0, <1>1 DEF Quiet, Held, Ceiling
<1>2. ASSUME NEW r \in Requests, NEW i \in Invoices, Submit(r, i) PROVE Held'
  <2>1. PICK fee \in U64 :
          /\ budget'.pending = With(budget.pending, budget.next_id,
                [amount |-> Price[i] + fee, domain |-> HostOf[Url(r)]])
          /\ budget'.next_id = budget.next_id + 1
          /\ budget.next_id \in Nat
          /\ wallet'[r] = [invoice |-> i, cap |-> fee, amount |-> 0,
                           violation |-> FALSE, status |-> "in_flight"]
          /\ Id(r)' = budget.next_id
          /\ \A s \in Requests \ {r} : Id(s)' = Id(s)
    BY <1>2, SubmitReserves
  <2>2. /\ r \notin DOMAIN wallet /\ DOMAIN wallet' = DOMAIN wallet \cup {r}
        /\ \A s \in DOMAIN wallet : wallet'[s] = wallet[s]
        /\ Booked' = Booked
    BY <1>2, SubmitIsFirst DEF Sound
  <2>3. \A s \in DOMAIN wallet : s # r /\ Id(s)' = Id(s) /\ Id(s) \in Nat /\ Id(s) < budget.next_id
    BY <1>0, <2>1, <2>2 DEF Held
  <2>4. /\ DOMAIN budget'.pending = DOMAIN budget.pending \cup {budget.next_id}
        /\ \A n \in DOMAIN budget.pending \ {budget.next_id} :
              budget'.pending[n] = budget.pending[n]
        /\ budget'.pending[budget.next_id].amount = Price[i] + fee
    BY <2>1 DEF With
  <2>5. \A s \in DOMAIN wallet' : Id(s)' \in Nat /\ Id(s)' < budget'.next_id
    BY <2>1, <2>2, <2>3
  <2>6. \A s, t \in DOMAIN wallet' : s # t => Id(s)' # Id(t)'
    BY <2>1, <2>2, <2>3 DEF Held
  <2>7. r \notin Booked
    BY <2>2 DEF Sound, Told, Booked
  <2>8. ASSUME NEW s \in DOMAIN wallet
        PROVE  /\ s \in Booked' => Id(s)' \notin DOMAIN budget'.pending
               /\ Id(s)' \in DOMAIN budget'.pending =>
                     budget'.pending[Id(s)'].amount = Ceiling(s)'
               /\ wallet'[s].status # "failed" =>
                     s \in Booked' \/ Id(s)' \in DOMAIN budget'.pending
    <3>1. Id(s)' = Id(s) /\ Id(s) # budget.next_id
      BY <2>1, <2>3
    <3>2. Ceiling(s)' = Ceiling(s)
      BY <2>2 DEF Ceiling
    <3> QED
      BY <2>2, <2>4, <3>1, <3>2 DEF Held
  <2>9. Ceiling(r)' = Price[i] + fee
    BY <2>1 DEF Ceiling
  <2> QED
    BY <2>1, <2>2, <2>4, <2>5, <2>6, <2>7, <2>8, <2>9 DEF Held
<1>3. ASSUME NEW r \in Requests, WalletPays(r) \/ WalletFails(r) PROVE Held'
  <2>1. UNCHANGED <<pc, frame, budget, receipts>>
    BY <1>3 DEF WalletPays, WalletFails, Answers
  <2>2. Booked' = Booked /\ \A s : Id(s)' = Id(s)
    BY <2>1 DEF Booked, At, Id
  <2>3. /\ r \in DOMAIN wallet /\ wallet[r].status = "in_flight"
        /\ DOMAIN wallet' = DOMAIN wallet
        /\ \A s \in DOMAIN wallet : Ceiling(s)' = Ceiling(s)
        /\ \A s \in DOMAIN wallet \ {r} : wallet'[s] = wallet[s]
    BY <1>3, WalletAnswers DEF Ceiling, Sound
  <2> QED
    BY <2>1, <2>2, <2>3 DEF Held
<1>4. ASSUME NEW r \in Requests, PayOk(r) PROVE Held'
  <2>1. Booked' = Booked /\ UNCHANGED <<budget, wallet>> /\ \A s \in Requests : Id(s)' = Id(s)
    BY <1>4, PayOkGivesReceipt DEF Sound
  <2> QED
    BY <1>0, <2>1 DEF Held, Ceiling
<1>5. ASSUME NEW r \in Requests, PayRejected(r) PROVE Held'
  BY <1>5, RejectionReleases, OneHeldLess DEF Sound
<1>6. ASSUME NEW r \in Requests, SettlePayment(r) PROVE Held'
  <2>1. r \in DOMAIN wallet
    BY <1>6, SettlementBooks DEF Sound, Told
  <2> QED
    BY <1>6, <2>1, SettlementBooks, OneHeldLess DEF Sound
<1> QED
  BY <1>1, <1>2, <1>3, <1>4, <1>5, <1>6, MoneySteps DEF Sound

-----------------------------------------------------------------------------
(* The sum over the payments of what the client keeps for each.            *)

\* What the client keeps for a payment: its receipt, its reservation or nothing.
Due(r) ==
    IF r \in Booked THEN receipts[r].amount
    ELSE IF Id(r) \in DOMAIN budget.pending THEN budget.pending[Id(r)].amount ELSE 0

Books == [r \in DOMAIN wallet |-> [amount |-> Due(r)]]

BooksBalance == Sum(Books, DOMAIN wallet) = BookedSats + HeldSats

LEMMA DueIsU64 ==
    ASSUME Sound, NEW r \in DOMAIN wallet
    PROVE  Due(r) \in U64 /\ Books[r].amount = Due(r)
<1>1. r \in Booked => receipts[r].amount \in U64
  BY DEF Booked, Sound, Typed, TypeOK, IsMap, Receipt
<1>2. Id(r) \in DOMAIN budget.pending => budget.pending[Id(r)].amount \in U64
  BY DEF Sound, Typed, TypeOK, IsBudgetState, IsMap, Entry
<1> QED
  BY <1>1, <1>2, NumbersAssumption DEF Due, Books, U64

LEMMA InitBalance == Init => BooksBalance
<1> SUFFICES ASSUME Init PROVE BooksBalance
  OBVIOUS
<1>1. /\ DOMAIN wallet = {} /\ Booked = {}
      /\ DOMAIN budget.pending = {}
  BY DEF Init, Booked, NewBudgetState
<1>2. Sum(Books, {}) = 0 /\ Sum(receipts, {}) = 0 /\ Sum(budget.pending, {}) = 0
  BY SumOfNone
<1> QED
  BY <1>1, <1>2 DEF BooksBalance, BookedSats, HeldSats

\* A step that changes what is kept for one payment.
LEMMA OneDueChanges ==
    ASSUME Sound, NEW r \in DOMAIN wallet, DOMAIN wallet' = DOMAIN wallet,
           \A s \in DOMAIN wallet \ {r} : Due(s)' = Due(s), Due(r)' \in U64
    PROVE  Sum(Books, DOMAIN wallet)' = Sum(Books, DOMAIN wallet) - Due(r) + Due(r)'
<1> DEFINE ids == DOMAIN wallet
           next == Books'
           due == Due(r)
           nextDue == Due(r)'
<1>1. IsFiniteSet(ids)
  BY SatsAreNat
<1>2. \A s \in ids : Books[s].amount = Due(s) /\ Due(s) \in U64
  BY DueIsU64
<1>3. \A s \in ids : next[s].amount = Due(s)'
  BY DEF Books
<1>4. /\ Books[r].amount = due /\ due \in U64 /\ next[r].amount = nextDue /\ nextDue \in U64
      /\ \A s \in ids \ {r} : next[s].amount = Books[s].amount
  BY <1>2, <1>3
<1> HIDE DEF next, due, nextDue
<1>5. Sum(next, ids) = Sum(Books, ids) - Books[r].amount + next[r].amount
  BY <1>1, <1>4, SumReplaced
<1> QED
  BY <1>4, <1>5 DEF next, due, nextDue

LEMMA NoDueChanges ==
    ASSUME DOMAIN wallet' = DOMAIN wallet, \A s \in DOMAIN wallet : Due(s)' = Due(s)
    PROVE  Sum(Books, DOMAIN wallet)' = Sum(Books, DOMAIN wallet)
<1> DEFINE ids == DOMAIN wallet
           next == Books'
<1>1. \A s \in ids : next[s].amount = Books[s].amount
  BY DEF Books
<1> HIDE DEF next
<1>2. Sum(next, ids) = Sum(Books, ids)
  BY <1>1, SumCongruent
<1> QED
  BY <1>2 DEF next

LEMMA SubmitAddsUp ==
    ASSUME Sound, Held, BooksBalance, NEW r \in Requests, NEW i \in Invoices, Submit(r, i)
    PROVE  \E fee \in U64 :
             /\ Price[i] + fee \in U64
             /\ Admits(budget, GlobalBudget, DomainBudgets, Price[i] + fee, HostOf[Url(r)], 0)
             /\ BookedSats' = BookedSats
             /\ HeldSats' = HeldSats + (Price[i] + fee)
             /\ BooksBalance'
             /\ Ceiling(r)' = Price[i] + fee
<1>1. PICK fee \in U64 :
        /\ Price[i] + fee \in U64
        /\ Admits(budget, GlobalBudget, DomainBudgets, Price[i] + fee, HostOf[Url(r)], 0)
        /\ budget'.pending = With(budget.pending, budget.next_id,
              [amount |-> Price[i] + fee, domain |-> HostOf[Url(r)]])
        /\ budget'.next_id = budget.next_id + 1
        /\ budget.next_id \in Nat /\ budget.next_id \notin DOMAIN budget.pending
        /\ wallet'[r] = [invoice |-> i, cap |-> fee, amount |-> 0,
                         violation |-> FALSE, status |-> "in_flight"]
        /\ Id(r)' = budget.next_id
        /\ \A s \in Requests \ {r} : Id(s)' = Id(s)
  BY SubmitReserves
<1>2. /\ r \notin DOMAIN wallet /\ DOMAIN wallet' = DOMAIN wallet \cup {r}
      /\ \A s \in DOMAIN wallet : wallet'[s] = wallet[s]
      /\ Booked' = Booked /\ receipts' = receipts
      /\ DOMAIN wallet \subseteq Requests
  BY SubmitIsFirst DEF Sound, Typed, TypeOK, IsMap
<1>3. BookedSats' = BookedSats
  BY <1>2, SameBooks
<1> DEFINE entry == [amount |-> Price[i] + fee, domain |-> HostOf[Url(r)]]
           next == budget'.pending
           id == budget.next_id
           cost == Price[i] + fee
<1>4. IsMap(budget.pending, 0 .. MaxId, Entry)
  BY DEF Sound, Typed, TypeOK, IsBudgetState
<1>5. /\ next = With(budget.pending, id, entry) /\ id \notin DOMAIN budget.pending
      /\ entry.amount = cost /\ cost \in U64
  BY <1>1
<1>6. /\ DOMAIN next = DOMAIN budget.pending \cup {id}
      /\ next[id].amount = cost
      /\ \A n \in DOMAIN budget.pending : next[n] = budget.pending[n]
  BY <1>5 DEF With
<1>7. HeldSats' = HeldSats + cost
  <2> HIDE DEF next, id, entry, cost
  <2>1. Sum(next, DOMAIN next) = Sum(budget.pending, DOMAIN budget.pending) + entry.amount
    BY <1>4, <1>5, SumWith
  <2> QED
    BY <1>5, <2>1 DEF HeldSats, next
<1>8. Due(r)' = cost
  <2>1. r \notin Booked'
    BY <1>2 DEF Sound, Told, Booked
  <2> QED
    BY <1>1, <1>6, <2>1 DEF Due
<1>9. \A s \in DOMAIN wallet : Due(s)' = Due(s)
  <2>1. \A s \in DOMAIN wallet : Id(s)' = Id(s) /\ Id(s) # id
    BY <1>1, <1>2 DEF Held
  <2> QED
    BY <1>2, <1>6, <2>1 DEF Due
<1>10. BooksBalance'
  <2> DEFINE ids == DOMAIN wallet
             books == Books'
  <2>1. /\ \A s \in ids : books[s].amount = Books[s].amount
        /\ books[r].amount = cost
    BY <1>2, <1>8, <1>9 DEF Books
  <2>2. IsFiniteSet(ids) /\ r \notin ids /\ DOMAIN wallet' = ids \cup {r}
    BY <1>2, SatsAreNat
  <2>3. cost \in U64
    BY <1>5
  <2> HIDE DEF books, ids, cost
  <2>4. Sum(books, ids \cup {r}) = Sum(books, ids) + books[r].amount
    BY <2>1, <2>2, <2>3, SumPlusOne
  <2>5. Sum(books, ids) = Sum(Books, ids)
    BY <2>1, SumCongruent
  <2>6. Sum(Books, ids) = BookedSats + HeldSats /\ BookedSats \in Nat /\ HeldSats \in Nat
    BY SatsAreNat DEF BooksBalance, ids
  <2> QED
    BY <1>3, <1>7, <2>1, <2>2, <2>3, <2>4, <2>5, <2>6, NumbersAssumption
       DEF BooksBalance, books, U64
<1>11. Ceiling(r)' = cost
  BY <1>1 DEF Ceiling
<1> QED
  BY <1>1, <1>3, <1>7, <1>10, <1>11

LEMMA RejectionAddsUp ==
    ASSUME Sound, Held, BooksBalance, NEW r \in Requests, PayRejected(r)
    PROVE  /\ BookedSats' = BookedSats
           /\ HeldSats' = HeldSats - budget.pending[Id(r)].amount
           /\ budget.pending[Id(r)].amount \in U64
           /\ BooksBalance'
<1>1. /\ r \in DOMAIN wallet /\ UNCHANGED <<receipts, wallet>> /\ Booked' = Booked
      /\ \A s \in Requests : Id(s)' = Id(s)
      /\ budget'.pending = Without(budget.pending, Id(r))
      /\ DOMAIN wallet \subseteq Requests
  BY RejectionReleases DEF Sound, Typed, TypeOK, IsMap
<1>2. Id(r) \in DOMAIN budget.pending
  BY DEF PayRejected, At, Sound, Live, Reserving
<1>3. IsMap(budget.pending, 0 .. MaxId, Entry) /\ budget.pending[Id(r)].amount \in U64
  BY <1>2 DEF Sound, Typed, TypeOK, IsBudgetState, IsMap, Entry
<1>4. BookedSats' = BookedSats
  BY <1>1, SameBooks
<1> DEFINE id == Id(r)
           left == budget'.pending
           held == budget.pending[id].amount
<1>5. /\ left = Without(budget.pending, id) /\ id \in DOMAIN budget.pending
      /\ budget.pending[id].amount \in U64
  BY <1>1, <1>2, <1>3
<1>6. DOMAIN left = DOMAIN budget.pending \ {id}
      /\ \A n \in DOMAIN left : left[n] = budget.pending[n]
  BY <1>5 DEF Without
<1>7. Due(r) = held /\ Due(r)' = 0
  BY <1>1, <1>5, <1>6 DEF Due, Held
<1>8. \A s \in DOMAIN wallet \ {r} : Due(s)' = Due(s)
  <2>1. \A s \in DOMAIN wallet \ {r} : Id(s)' = Id(s) /\ Id(s) # id
    BY <1>1 DEF Held
  <2> QED
    BY <1>1, <1>6, <2>1 DEF Due
<1>9. Sum(Books, DOMAIN wallet)' = Sum(Books, DOMAIN wallet) - held
  <2>1. 0 \in U64
    BY NumbersAssumption DEF U64
  <2>2. Sum(Books, DOMAIN wallet)' = Sum(Books, DOMAIN wallet) - Due(r) + Due(r)'
    BY <1>1, <1>7, <1>8, <2>1, OneDueChanges
  <2>3. Sum(Books, DOMAIN wallet) \in Nat
    BY SatsAreNat, SumIsNat
  <2>4. held \in Nat
    BY <1>5, NumbersAssumption DEF U64
  <2> HIDE DEF held
  <2> QED
    BY <1>7, <2>2, <2>3, <2>4
<1> HIDE DEF id, left
<1>10. Sum(left, DOMAIN left) = Sum(budget.pending, DOMAIN budget.pending) - held
  BY <1>3, <1>5, SumWithout
<1>11. HeldSats' = HeldSats - held
  BY <1>10 DEF HeldSats, left
<1>12. held \in Nat
  BY <1>5, NumbersAssumption DEF U64
<1>13. BooksBalance'
  <2> HIDE DEF held
  <2> QED
    BY <1>4, <1>9, <1>11, <1>12, SatsAreNat DEF BooksBalance
<1> QED
  BY <1>3, <1>4, <1>11, <1>13 DEF id

LEMMA SettlementBalances ==
    ASSUME Sound, Held, BooksBalance, NEW r \in Requests, SettlePayment(r)
    PROVE  BooksBalance'
<1>1. /\ r \in DOMAIN receipts /\ r \notin Booked /\ Booked' = Booked \cup {r}
      /\ UNCHANGED <<receipts, wallet>> /\ wallet[r].amount \in U64
      /\ \A s \in Requests : Id(s)' = Id(s)
      /\ Id(r) \in DOMAIN budget.pending
      /\ budget'.pending = Without(budget.pending, Id(r))
  BY SettlementBooks DEF Sound
<1>2. /\ r \in DOMAIN wallet /\ receipts[r].amount = wallet[r].amount
      /\ DOMAIN wallet \subseteq Requests
  BY <1>1 DEF Sound, Told, Typed, TypeOK, IsMap
<1> DEFINE id == Id(r)
           held == budget.pending[id].amount
           paid == wallet[r].amount
<1>3. DOMAIN budget'.pending = DOMAIN budget.pending \ {id}
      /\ \A n \in DOMAIN budget'.pending : budget'.pending[n] = budget.pending[n]
  BY <1>1 DEF Without
<1>4. Due(r) = held /\ Due(r)' = paid
  BY <1>1, <1>2 DEF Due
<1>5. \A s \in DOMAIN wallet \ {r} : Due(s)' = Due(s)
  <2>1. \A s \in DOMAIN wallet \ {r} : Id(s)' = Id(s) /\ Id(s) # id
    BY <1>1, <1>2 DEF Held
  <2> QED
    BY <1>1, <1>3, <2>1 DEF Due
<1>6. Sum(Books, DOMAIN wallet)' = Sum(Books, DOMAIN wallet) - Due(r) + Due(r)'
  BY <1>1, <1>2, <1>4, <1>5, OneDueChanges
<1>7. /\ BookedSats' = BookedSats + paid /\ HeldSats' = HeldSats - held
      /\ paid \in Nat /\ held \in Nat
  BY SettlementAddsUp, NumbersAssumption DEF U64
<1> HIDE DEF held, paid
<1> QED
  BY <1>4, <1>6, <1>7, SatsAreNat DEF BooksBalance

LEMMA QuietAddsUp ==
    ASSUME Sound, BooksBalance,
           \/ Quiet
           \/ \E r \in Requests : WalletPays(r) \/ WalletFails(r)
           \/ \E r \in Requests : PayOk(r)
    PROVE  /\ budget' = budget /\ BookedSats' = BookedSats /\ HeldSats' = HeldSats
           /\ BooksBalance'
<1>1. /\ budget' = budget /\ Booked' = Booked /\ DOMAIN wallet' = DOMAIN wallet
      /\ \A r \in Booked : receipts'[r].amount = receipts[r].amount
      /\ \A r \in Requests : Id(r)' = Id(r)
  <2>1. CASE Quiet
    BY <2>1 DEF Quiet, Booked
  <2>2. ASSUME NEW r \in Requests, WalletPays(r) \/ WalletFails(r)
        PROVE  /\ budget' = budget /\ Booked' = Booked /\ DOMAIN wallet' = DOMAIN wallet
               /\ \A s \in Booked : receipts'[s].amount = receipts[s].amount
               /\ \A s \in Requests : Id(s)' = Id(s)
    <3>1. UNCHANGED <<pc, frame, budget, receipts>>
      BY <2>2 DEF WalletPays, WalletFails, Answers
    <3> QED
      BY <2>2, <3>1, WalletAnswers DEF Sound, Booked, At, Id
  <2>3. ASSUME NEW r \in Requests, PayOk(r)
        PROVE  /\ budget' = budget /\ Booked' = Booked /\ DOMAIN wallet' = DOMAIN wallet
               /\ \A s \in Booked : receipts'[s].amount = receipts[s].amount
               /\ \A s \in Requests : Id(s)' = Id(s)
    BY <2>3, PayOkGivesReceipt DEF Sound, Booked
  <2> QED
    BY <2>1, <2>2, <2>3
<1>2. BookedSats' = BookedSats /\ HeldSats' = HeldSats
  BY <1>1, SameBooks DEF HeldSats
<1>3. \A r \in DOMAIN wallet : Due(r)' = Due(r)
  BY <1>1 DEF Due, Sound, Typed, TypeOK, IsMap
<1> QED
  BY <1>1, <1>2, <1>3, NoDueChanges DEF BooksBalance

\* What the books say together, whatever the wallet reports.
Accounted == Sound /\ ReceiptsMatchLedger /\ Held /\ BooksBalance

LEMMA InitAccounted == Init => Accounted
BY InitSound, InitMatched, InitHeld, InitBalance DEF Accounted

LEMMA NextAccounted == Accounted /\ [Next]_vars => Accounted'
<1> SUFFICES ASSUME Accounted, [Next]_vars PROVE Accounted'
  OBVIOUS
<1>1. Sound' /\ ReceiptsMatchLedger' /\ Held'
  BY NextSound, NextMatched, NextHeld DEF Accounted
<1>2. BooksBalance'
  BY MoneySteps, QuietAddsUp, SubmitAddsUp, RejectionAddsUp, SettlementBalances
     DEF Accounted, Sound
<1> QED
  BY <1>1, <1>2 DEF Accounted

-----------------------------------------------------------------------------
(* The limit, with a wallet that keeps to amounts and caps.                *)

TotalLimit == IF GlobalBudget.total_max = None THEN MaxU64 ELSE GlobalBudget.total_max

Committed == BookedSats + HeldSats

\* Of the payments, booked or not, each took no more than it was allowed, and
\* what is booked and held fits into the limit.
Afforded ==
    /\ \A r \in DOMAIN wallet :
          wallet[r].status = "paid" => wallet[r].amount <= Ceiling(r)
    /\ Committed <= TotalLimit

LEMMA LimitIsU64 == TotalLimit \in U64 /\ TotalLimit <= MaxU64
<1>1. GlobalBudget.total_max \in U64 \cup {None}
  BY ClientAssumption DEF BudgetType, Limit
<1> QED
  BY <1>1, NumbersAssumption DEF TotalLimit, U64

LEMMA InitAfforded == Init => Afforded
<1> SUFFICES ASSUME Init PROVE Afforded
  OBVIOUS
<1>1. DOMAIN wallet = {} /\ Booked = {} /\ DOMAIN budget.pending = {}
  BY DEF Init, Booked, NewBudgetState
<1>2. Sum(receipts, {}) = 0 /\ Sum(budget.pending, {}) = 0
  BY SumOfNone
<1> QED
  BY <1>1, <1>2, LimitIsU64, NumbersAssumption
     DEF Afforded, Committed, BookedSats, HeldSats, U64

\* What the budget admits is left of the limit.
LEMMA AdmittedIsLeft ==
    ASSUME Accounted, Afforded, NEW amount \in Nat, NEW domain,
           Admits(budget, GlobalBudget, DomainBudgets, amount, domain, 0)
    PROVE  Committed + amount <= TotalLimit
<1>1. BookedSats \in Nat /\ HeldSats \in Nat /\ BookedSats + HeldSats <= MaxU64
  BY SatsAreNat, LimitIsU64, NumbersAssumption DEF Accounted, Afforded, Committed, U64
<1>2. budget.global.total = Saturated(BookedSats)
  BY DEF Accounted, ReceiptsMatchLedger, BookedSats, Booked
<1>3. \A limit \in {GlobalBudget.total_max, MaxU64} :
         Within(Saturated(Saturated(BookedSats) + (HeldSats % (MaxU64 + 1))), amount, limit)
  BY <1>2 DEF Admits, Allows, PendingSum, HeldSats
<1>4. \A limit \in {GlobalBudget.total_max, MaxU64} :
         limit # None => BookedSats + HeldSats + amount <= limit
  <2>1. GlobalBudget.total_max \in Nat \cup {None} /\ MaxU64 \in Nat
    BY ClientAssumption, NumbersAssumption DEF BudgetType, Limit, U64
  <2> QED
    BY <1>1, <1>3, <2>1, RoomLeft
<1> QED
  BY <1>4, NoneAssumption, NumbersAssumption DEF TotalLimit, Committed

\* What a payment of an honest wallet takes.
LEMMA HonestPayment ==
    ASSUME Honest, Typed, NEW r \in Requests, WalletPays(r)
    PROVE  /\ wallet'[r].amount \in U64 /\ wallet'[r].amount <= Ceiling(r)
           /\ wallet'[r].status = "paid"
<1>1. PICK fee \in 0 .. wallet[r].cap :
         Answers(r, "paid", Price[wallet[r].invoice] + fee, FALSE)
  BY DEF WalletPays
<1>2. wallet'[r].amount = Price[wallet[r].invoice] + fee /\ wallet'[r].status = "paid"
  BY <1>1 DEF Answers, With
<1>3. /\ r \in DOMAIN wallet /\ wallet[r] \in Payment
      /\ Price[wallet[r].invoice] + wallet[r].cap \in U64
      /\ Price[wallet[r].invoice] \in U64
  <2>1. r \in DOMAIN wallet
    BY <1>1 DEF Answers, InFlight
  <2>2. wallet[r] \in Payment
    BY <2>1 DEF Typed, TypeOK, IsMap
  <2> QED
    BY <2>1, <2>2, ClientAssumption DEF Typed, CostsFit, Payment
<1>4. Price[wallet[r].invoice] + fee \in U64
  BY <1>3, NumbersAssumption DEF Payment, U64
<1>5. Price[wallet[r].invoice] + fee <= Price[wallet[r].invoice] + wallet[r].cap
  BY <1>3, NumbersAssumption DEF Payment, U64
<1> QED
  BY <1>2, <1>4, <1>5 DEF Ceiling

\* A settlement within its reservation books no more than was held.
LEMMA HonestSettlement ==
    ASSUME Accounted, Afforded, NEW r \in Requests, SettlePayment(r)
    PROVE  /\ wallet[r].amount \in U64 /\ budget.pending[Id(r)].amount \in U64
           /\ wallet[r].amount <= budget.pending[Id(r)].amount
           /\ Committed' = Committed - (budget.pending[Id(r)].amount - wallet[r].amount)
<1>1. /\ r \in DOMAIN wallet /\ wallet[r].status = "paid"
      /\ Id(r) \in DOMAIN budget.pending
  BY SettlementBooks DEF Accounted, Sound, Told
<1>2. wallet[r].amount <= budget.pending[Id(r)].amount
  BY <1>1 DEF Accounted, Afforded, Held
<1>3. /\ BookedSats' = BookedSats + wallet[r].amount
      /\ HeldSats' = HeldSats - budget.pending[Id(r)].amount
      /\ wallet[r].amount \in U64 /\ budget.pending[Id(r)].amount \in U64
      /\ BookedSats \in Nat /\ HeldSats \in Nat
  BY SettlementAddsUp, SatsAreNat DEF Accounted
<1> DEFINE paid == wallet[r].amount
           held == budget.pending[Id(r)].amount
<1>4. paid \in Nat /\ held \in Nat
  BY <1>3, NumbersAssumption DEF U64
<1>5. Committed' = Committed - (held - paid)
  <2>1. Committed' = BookedSats' + HeldSats'
    BY DEF Committed
  <2>2. BookedSats' = BookedSats + paid /\ HeldSats' = HeldSats - held
    BY <1>3
  <2> HIDE DEF paid, held
  <2> QED
    BY <1>3, <1>4, <2>1, <2>2 DEF Committed
<1> QED
  BY <1>2, <1>3, <1>5

LEMMA NextAfforded ==
    ASSUME Honest, Accounted, Afforded, [Next]_vars PROVE Afforded'
<1>0. Typed /\ Claims /\ Live /\ BookedSats \in Nat /\ HeldSats \in Nat
  BY SatsAreNat DEF Accounted, Sound
<1>1. ASSUME wallet' = wallet, Committed' <= Committed, Committed' \in Int PROVE Afforded'
  BY <1>0, <1>1, LimitIsU64, NumbersAssumption DEF Afforded, Ceiling, Committed, U64
<1>2. CASE Quiet
  <2>1. wallet' = wallet /\ Committed' = Committed
    BY <1>2, QuietAddsUp DEF Accounted, Quiet, Committed
  <2> QED
    BY <1>0, <1>1, <2>1 DEF Committed
<1>3. ASSUME NEW r \in Requests, NEW i \in Invoices, Submit(r, i) PROVE Afforded'
  <2>1. PICK fee \in U64 :
          /\ Price[i] + fee \in U64
          /\ Admits(budget, GlobalBudget, DomainBudgets, Price[i] + fee, HostOf[Url(r)], 0)
          /\ BookedSats' = BookedSats
          /\ HeldSats' = HeldSats + (Price[i] + fee)
    BY <1>3, SubmitAddsUp DEF Accounted
  <2>2. /\ DOMAIN wallet' = DOMAIN wallet \cup {r}
        /\ \A s \in DOMAIN wallet : wallet'[s] = wallet[s]
        /\ wallet'[r].status # "paid"
    <3>1. wallet'[r].status = "in_flight"
      BY <1>3 DEF Submit, With
    <3> QED
      BY <1>0, <1>3, <3>1, SubmitIsFirst
  <2>3. \A s \in DOMAIN wallet' : wallet'[s].status = "paid" => wallet'[s].amount <= Ceiling(s)'
    BY <2>2 DEF Afforded, Ceiling
  <2> DEFINE cost == Price[i] + fee
  <2>4. cost \in Nat
    BY <2>1, NumbersAssumption DEF U64
  <2> HIDE DEF cost
  <2>5. Committed + cost <= TotalLimit
    BY <2>1, <2>4, AdmittedIsLeft DEF cost
  <2>6. Committed' = Committed + cost
    BY <1>0, <2>1, <2>4 DEF Committed, cost
  <2> QED
    BY <2>3, <2>5, <2>6 DEF Afforded
<1>4. ASSUME NEW r \in Requests, WalletPays(r) \/ WalletFails(r) PROVE Afforded'
  <2>1. Committed' = Committed
    BY <1>4, QuietAddsUp DEF Accounted, Committed
  <2>2. /\ DOMAIN wallet' = DOMAIN wallet
        /\ \A s \in DOMAIN wallet \ {r} : wallet'[s] = wallet[s]
        /\ \A s \in DOMAIN wallet : Ceiling(s)' = Ceiling(s)
    BY <1>0, <1>4, WalletAnswers DEF Ceiling
  <2>3. wallet'[r].status = "paid" => wallet'[r].amount <= Ceiling(r)
    <3>1. CASE WalletPays(r)
      BY <1>0, <3>1, HonestPayment
    <3>2. CASE WalletFails(r)
      BY <3>2 DEF WalletFails, Answers, With
    <3> QED
      BY <1>4, <3>1, <3>2
  <2> QED
    BY <2>1, <2>2, <2>3 DEF Afforded
<1>5. ASSUME NEW r \in Requests, PayOk(r) PROVE Afforded'
  <2>1. wallet' = wallet /\ Committed' = Committed
    BY <1>0, <1>5, QuietAddsUp, PayOkGivesReceipt DEF Accounted, Committed
  <2> QED
    BY <1>0, <1>1, <2>1 DEF Committed
<1>6. ASSUME NEW r \in Requests, PayRejected(r) PROVE Afforded'
  <2> DEFINE held == budget.pending[Id(r)].amount
  <2>1. /\ wallet' = wallet /\ BookedSats' = BookedSats
        /\ HeldSats' = HeldSats - held /\ held \in Nat
    BY <1>0, <1>6, RejectionReleases, RejectionAddsUp, NumbersAssumption DEF Accounted, U64
  <2> HIDE DEF held
  <2> QED
    BY <1>0, <1>1, <2>1 DEF Committed
<1>7. ASSUME NEW r \in Requests, SettlePayment(r) PROVE Afforded'
  <2> DEFINE paid == wallet[r].amount
             held == budget.pending[Id(r)].amount
  <2>1. /\ wallet' = wallet /\ paid \in Nat /\ held \in Nat /\ paid <= held
        /\ Committed' = Committed - (held - paid)
    <3>1. wallet' = wallet
      BY <1>7 DEF SettlePayment
    <3>2. paid \in U64 /\ held \in U64 /\ paid <= held
          /\ Committed' = Committed - (held - paid)
      BY <1>7, HonestSettlement
    <3> QED
      BY <3>1, <3>2, NumbersAssumption DEF U64
  <2>2. Committed \in Int
    BY <1>0 DEF Committed
  <2> HIDE DEF paid, held
  <2> QED
    BY <1>1, <2>1, <2>2
<1> QED
  BY <1>0, <1>2, <1>3, <1>4, <1>5, <1>6, <1>7, MoneySteps

\* What the abstract account shows of a client that is within its limit.
Covered ==
    /\ Outflow \in Nat /\ Committed \in Nat
    /\ Outflow <= Committed /\ Committed <= TotalLimit
    /\ TotalSpent(budget) = Committed

LEMMA AffordedIsCovered == Accounted /\ Afforded => Covered
<1> SUFFICES ASSUME Accounted, Afforded PROVE Covered
  OBVIOUS
<1> DEFINE all == DOMAIN wallet
           paid == {r \in all : wallet[r].status = "paid"}
<1>1. /\ BookedSats \in Nat /\ HeldSats \in Nat
      /\ IsFiniteSet(all) /\ Sound
  BY SatsAreNat DEF Accounted
<1>2. paid \in SUBSET all /\ IsFiniteSet(paid)
  BY <1>1, FS_Subset
<1>3. \A r \in paid : /\ wallet[r].amount \in U64 /\ Books[r].amount \in U64
                      /\ wallet[r].amount <= Books[r].amount
  <2> SUFFICES ASSUME NEW r \in paid
               PROVE  /\ wallet[r].amount \in U64 /\ Books[r].amount \in U64
                      /\ wallet[r].amount <= Books[r].amount
    OBVIOUS
  <2>1. wallet[r].amount \in U64
    BY <1>1 DEF Sound, Typed, TypeOK, IsMap, Payment
  <2>2. Books[r].amount = Due(r) /\ Due(r) \in U64
    BY <1>1, DueIsU64
  <2>3. CASE r \in Booked
    <3>1. Due(r) = wallet[r].amount
      BY <1>1, <2>3 DEF Due, Booked, Sound, Told
    <3> QED
      BY <2>1, <2>2, <3>1, NumbersAssumption DEF U64
  <2>4. CASE r \notin Booked
    <3>1. Id(r) \in DOMAIN budget.pending /\ budget.pending[Id(r)].amount = Ceiling(r)
      BY <2>4 DEF Accounted, Held
    <3> QED
      BY <2>1, <2>2, <2>4, <3>1 DEF Due, Afforded
  <2> QED
    BY <2>3, <2>4
<1> HIDE DEF all, paid
<1>4. Sum(wallet, paid) <= Sum(Books, paid)
  BY <1>2, <1>3, SumPointwise
<1>5. Sum(Books, paid) <= Sum(Books, all)
  BY <1>1, <1>2, SumMonotonic
<1>6. Sum(wallet, paid) \in Nat /\ Sum(Books, paid) \in Nat /\ Sum(Books, all) \in Nat
  BY <1>1, <1>2, SumIsNat
<1>7. Outflow = Sum(wallet, paid) /\ Committed = Sum(Books, all)
  BY DEF Outflow, Committed, Accounted, BooksBalance, paid, all
<1>8. Committed \in Nat /\ Committed <= TotalLimit /\ Committed <= MaxU64
  BY <1>1, LimitIsU64, NumbersAssumption DEF Committed, Afforded, U64
<1>9. TotalSpent(budget) = Committed
  <2>1. budget.global.total = Saturated(BookedSats)
    BY DEF Accounted, ReceiptsMatchLedger, BookedSats, Booked
  <2>2. BookedSats <= MaxU64 /\ Saturated(BookedSats) = BookedSats
    BY <1>1, <1>8, NumbersAssumption, SaturatedIsU64 DEF Committed
  <2>3. Saturated(Committed) = Committed
    BY <1>8, SaturatedIsU64
  <2> QED
    BY <2>1, <2>2, <2>3 DEF TotalSpent, Committed, HeldSats
<1> QED
  BY <1>4, <1>5, <1>6, <1>7, <1>8, <1>9 DEF Covered

\* The steps, seen through the account.
LEMMA SameOutflow ==
    ASSUME wallet' = wallet PROVE Outflow' = Outflow
BY DEF Outflow

LEMMA SubmitRefines ==
    ASSUME Accounted, Afforded, Covered, Covered',
           NEW r \in Requests, NEW i \in Invoices, Submit(r, i)
    PROVE  Limited!SetAside
<1>1. PICK fee \in U64 :
        /\ Price[i] + fee \in U64
        /\ Admits(budget, GlobalBudget, DomainBudgets, Price[i] + fee, HostOf[Url(r)], 0)
        /\ BookedSats' = BookedSats
        /\ HeldSats' = HeldSats + (Price[i] + fee)
  BY SubmitAddsUp DEF Accounted
<1> DEFINE cost == Price[i] + fee
           aside == TotalSpent(budget) - Outflow
<1>2. cost \in Nat
  BY <1>1, NumbersAssumption DEF U64
<1> HIDE DEF cost
<1>3. Committed' = Committed + cost
  BY <1>1, <1>2, SatsAreNat DEF Committed, cost, Accounted
<1>4. Outflow' = Outflow
  <2> DEFINE all == DOMAIN wallet
             paid == {s \in all : wallet[s].status = "paid"}
             next == wallet'
  <2>1. /\ r \notin all /\ DOMAIN next = all \cup {r}
        /\ \A s \in all : next[s] = wallet[s]
    BY SubmitIsFirst DEF Accounted, Sound
  <2>2. next[r].status = "in_flight"
    BY DEF Submit, With
  <2>3. {s \in DOMAIN next : next[s].status = "paid"} = paid
    BY <2>1, <2>2
  <2>4. \A s \in paid : next[s].amount = wallet[s].amount
    BY <2>1
  <2> HIDE DEF next, paid
  <2>5. Sum(next, paid) = Sum(wallet, paid)
    BY <2>4, SumCongruent
  <2> QED
    BY <2>3, <2>5 DEF Outflow, next, paid
<1>5. ~budget.frozen /\ budget'.frozen = budget.frozen
  BY SubmitIsFirst DEF Accounted, Sound
<1>6. /\ cost \in 0 .. TotalLimit
      /\ Outflow + aside + cost <= TotalLimit
      /\ aside' = aside + cost
  BY <1>2, <1>3, <1>4, LimitIsU64, NumbersAssumption DEF Covered, U64
<1> QED
  BY <1>4, <1>5, <1>6 DEF Limited!SetAside, TotalLimit

\* A payment spends of what was held for it, with no word of it to the client yet.
LEMMA PaymentRefines ==
    ASSUME Honest, Accounted, Covered, Covered', NEW r \in Requests, WalletPays(r)
    PROVE  Limited!Spend
<1> DEFINE all == DOMAIN wallet
           paid == {s \in all : wallet[s].status = "paid"}
           next == wallet'
           cost == next[r].amount
           aside == TotalSpent(budget) - Outflow
<1>1. /\ r \in all /\ wallet[r].status = "in_flight" /\ DOMAIN next = all
      /\ \A s \in all \ {r} : next[s] = wallet[s]
  BY WalletAnswers DEF Accounted, Sound
<1>2. cost \in U64 /\ next[r].status = "paid"
  BY HonestPayment DEF Accounted, Sound
<1>3. r \notin paid /\ {s \in DOMAIN next : next[s].status = "paid"} = paid \cup {r}
  BY <1>1, <1>2
<1>4. IsFiniteSet(paid)
  BY SatsAreNat, FS_Subset DEF Accounted
<1>5. \A s \in paid : next[s].amount = wallet[s].amount
  BY <1>1
<1>6. Outflow' = Outflow + cost
  <2> HIDE DEF next, paid
  <2>1. Sum(next, paid) = Sum(wallet, paid)
    BY <1>5, SumCongruent
  <2>2. Sum(next, paid \cup {r}) = Sum(next, paid) + next[r].amount
    BY <1>2, <1>3, <1>4, SumPlusOne
  <2> QED
    BY <1>3, <2>1, <2>2 DEF Outflow, next, paid
<1>7. budget' = budget /\ Committed' = Committed
  BY QuietAddsUp DEF Accounted, Committed
<1>8. cost \in Nat
  BY <1>2, NumbersAssumption DEF U64
<1> HIDE DEF next, cost
<1>9. /\ cost \in 0 .. aside /\ aside' = aside - cost
      /\ Outflow' \in Outflow .. (Outflow + cost)
  BY <1>6, <1>7, <1>8 DEF Covered
<1> QED
  BY <1>7, <1>9 DEF Limited!Spend

\* The payments that were made are the same, if the wallet is or has only failed.
LEMMA FailureRefines ==
    ASSUME Accounted, NEW r \in Requests, WalletFails(r)
    PROVE  UNCHANGED Limited!vars
<1> DEFINE all == DOMAIN wallet
           paid == {s \in all : wallet[s].status = "paid"}
           next == wallet'
<1>1. /\ r \in all /\ wallet[r].status = "in_flight" /\ DOMAIN next = all
      /\ \A s \in all \ {r} : next[s] = wallet[s]
  BY WalletAnswers DEF Accounted, Sound
<1>2. next[r].status = "failed" /\ budget' = budget
  BY DEF WalletFails, Answers, With
<1>3. {s \in DOMAIN next : next[s].status = "paid"} = paid
  BY <1>1, <1>2
<1>4. \A s \in paid : next[s].amount = wallet[s].amount
  BY <1>1
<1>5. Outflow' = Outflow
  <2> HIDE DEF next, paid
  <2>1. Sum(next, paid) = Sum(wallet, paid)
    BY <1>4, SumCongruent
  <2> QED
    BY <1>3, <2>1 DEF Outflow, next, paid
<1> QED
  BY <1>2, <1>5 DEF Limited!vars

LEMMA RejectionRefines ==
    ASSUME Accounted, Covered, Covered', NEW r \in Requests, PayRejected(r)
    PROVE  Limited!GiveBack
<1> DEFINE held == budget.pending[Id(r)].amount
           aside == TotalSpent(budget) - Outflow
<1>1. BookedSats' = BookedSats /\ HeldSats' = HeldSats - held /\ held \in Nat
  BY RejectionAddsUp, NumbersAssumption DEF Accounted, U64
<1>2. Outflow' = Outflow /\ budget'.frozen = budget.frozen
  BY RejectionReleases, SameOutflow DEF Accounted, Sound
<1> HIDE DEF held
<1>3. Committed' = Committed - held
  BY <1>1, SatsAreNat DEF Committed, Accounted
<1>4. held \in 0 .. aside /\ aside' = aside - held
  BY <1>1, <1>2, <1>3 DEF Covered
<1> QED
  BY <1>2, <1>4 DEF Limited!GiveBack

\* The settlement gives back what the payment left of its reservation.
LEMMA SettlementRefines ==
    ASSUME Accounted, Afforded, Covered, (Accounted /\ Covered)',
           NEW r \in Requests, SettlePayment(r)
    PROVE  Limited!Spend
<1> DEFINE paid == wallet[r].amount
           held == budget.pending[Id(r)].amount
           aside == TotalSpent(budget) - Outflow
           open == ~budget.frozen
<1>1. /\ paid \in Nat /\ held \in Nat /\ paid <= held
      /\ Committed' = Committed - (held - paid)
  BY HonestSettlement, NumbersAssumption DEF U64
<1>2. wallet' = wallet /\ (budget.frozen => budget'.frozen)
  BY SettlementBooks, Zenon DEF Accounted, Sound
<1>3. Outflow' = Outflow
  BY <1>2, SameOutflow
<1>4. budget.frozen \in BOOLEAN /\ budget'.frozen \in BOOLEAN
  BY DEF Accounted, Sound, Typed, TypeOK, IsBudgetState
<1>5. open' \in {open, FALSE}
  BY <1>2, <1>4
<1> HIDE DEF paid, held
<1>6. /\ held - paid \in 0 .. aside /\ aside' = aside - (held - paid)
      /\ Outflow' \in Outflow .. (Outflow + (held - paid))
  BY <1>1, <1>3 DEF Covered
<1> HIDE DEF aside, open
<1>7. /\ \E amount \in 0 .. aside :
            aside' = aside - amount /\ Outflow' \in Outflow .. (Outflow + amount)
      /\ open' \in {open, FALSE}
  BY <1>5, <1>6
<1> QED
  BY <1>7 DEF Limited!Spend, aside, open

LEMMA NextRefines ==
    ASSUME Honest, Accounted, Afforded, Covered, (Accounted /\ Afforded /\ Covered)', [Next]_vars
    PROVE  [Limited!Next]_Limited!vars
<1>1. ASSUME wallet' = wallet, budget' = budget PROVE UNCHANGED Limited!vars
  BY <1>1, SameOutflow DEF Limited!vars
<1>2. CASE Quiet
  BY <1>1, <1>2 DEF Quiet
<1>3. ASSUME NEW r \in Requests, NEW i \in Invoices, Submit(r, i) PROVE Limited!Next
  BY <1>3, SubmitRefines DEF Limited!Next
<1>4. ASSUME NEW r \in Requests, WalletPays(r) PROVE Limited!Next
  BY <1>4, PaymentRefines DEF Limited!Next
<1>5. ASSUME NEW r \in Requests, WalletFails(r) PROVE UNCHANGED Limited!vars
  BY <1>5, FailureRefines
<1>6. ASSUME NEW r \in Requests, PayOk(r) PROVE UNCHANGED Limited!vars
  BY <1>1, <1>6 DEF PayOk
<1>7. ASSUME NEW r \in Requests, PayRejected(r) PROVE Limited!Next
  BY <1>7, RejectionRefines DEF Limited!Next
<1>8. ASSUME NEW r \in Requests, SettlePayment(r) PROVE Limited!Next
  BY <1>8, SettlementRefines DEF Limited!Next
<1> QED
  BY <1>2, <1>3, <1>4, <1>5, <1>6, <1>7, <1>8, MoneySteps DEF Accounted, Sound

LEMMA InitRefines == Init => Limited!Init
<1> SUFFICES ASSUME Init PROVE Limited!Init
  OBVIOUS
<1>1. DOMAIN wallet = {} /\ DOMAIN budget.pending = {} /\ budget.global.total = 0
      /\ budget.frozen = FALSE
  BY DEF Init, NewBudgetState, NewLedger
<1>2. Sum(wallet, {}) = 0 /\ Sum(budget.pending, {}) = 0
  BY SumOfNone
<1>3. Outflow = 0
  BY <1>1, <1>2 DEF Outflow
<1>4. TotalSpent(budget) = 0
  BY <1>1, <1>2, SaturatedIsU64, NumbersAssumption DEF TotalSpent
<1> QED
  BY <1>1, <1>3, <1>4 DEF Limited!Init

\* With a wallet that keeps to the invoices' amounts and the fee caps, the client
\* implements a spending limit of total_max, or of u64::MAX where there is none:
\* what left the wallet and what it may still take stay within the limit, also
\* while the client has not heard, or never will, what became of a payment.
THEOREM ClientImplementsSpendingLimit ==
    ASSUME Honest PROVE Spec => OutflowWithinLimit
<1>1. Init => Accounted /\ Afforded /\ Limited!Init
  BY InitAccounted, InitAfforded, InitRefines
<1>2. Accounted /\ Afforded /\ [Next]_vars => (Accounted /\ Afforded)'
  BY NextAccounted, NextAfforded
<1>3. (Accounted /\ Afforded => Covered)'
  BY AffordedIsCovered, PTL
<1>4. Accounted /\ Afforded /\ [Next]_vars => [Limited!Next]_Limited!vars
  BY <1>2, <1>3, AffordedIsCovered, NextRefines
<1> QED
  BY <1>1, <1>2, <1>4, PTL DEF Spec, OutflowWithinLimit, Limited!Spec
===============================================================================
