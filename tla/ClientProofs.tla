----------------------------- MODULE ClientProofs -----------------------------
(***************************************************************************)
(* Theorems about the client, for every set of requests, urls and          *)
(* invoices, every budget, wallets that breach their caps included.        *)
(***************************************************************************)
EXTENDS Client, LedgerProofs

-----------------------------------------------------------------------------
(* Types.  What a payment may cost is a u64, since it was admitted.        *)

CostsFit == \A r \in DOMAIN wallet : Price[wallet[r].invoice] + wallet[r].cap \in U64

Paying == {"pay", "settle", "record", "forget"}
Sending == {"auth", "remove", "persist", "put", "confirm", "retry", "drop"}

\* A request has a Reservation and a payment with the wallet once it has asked
\* for one, and a token once it is about to store or to send one.
Equipped ==
    \A r \in Requests :
       /\ pc[r] \in Paying =>
             /\ r \in DOMAIN wallet
             /\ Token(r) = wallet[r].invoice
       /\ pc[r] \in Sending => Token(r) \in Tokens

Typed == TypeOK /\ CostsFit /\ Equipped

Places == Awaits \cup Locks \cup Outcomes

\* WithIsMap for a map given another name.
LEMMA Inserted ==
    ASSUME NEW map, NEW keys, NEW values, IsMap(map, keys, values),
           NEW key \in keys, NEW value \in values, NEW next, next = With(map, key, value)
    PROVE  IsMap(next, keys, values)
BY DEF IsMap, With

\* Receipts stay receipts when one is given a status.
LEMMA StatusGiven ==
    ASSUME NEW map, IsMap(map, Requests, Receipt), NEW key, NEW status \in {0, 200, 402},
           NEW next, next = WithStatus(map, key, status)
    PROVE  IsMap(next, Requests, Receipt)
<1> DEFINE given == [map[key] EXCEPT !.status = status]
<1>1. key \in DOMAIN map => given \in Receipt
  BY DEF IsMap, Receipt
<1>2. next = [k \in DOMAIN map |-> IF k = key THEN given ELSE map[k]]
  BY DEF WithStatus
<1> HIDE DEF given
<1>4. \A k \in DOMAIN map : map[k] \in Receipt
  BY DEF IsMap
<1>3. next \in [DOMAIN map -> Receipt]
  BY <1>1, <1>2, <1>4
<1> QED
  BY <1>2, <1>3 DEF IsMap

\* A receipt given a status is the receipt of the same payment.
LEMMA SameReceipt ==
    ASSUME NEW map, IsMap(map, Requests, Receipt), NEW key, NEW status \in {0, 200, 402},
           NEW next, next = WithStatus(map, key, status)
    PROVE  /\ DOMAIN next = DOMAIN map
           /\ \A k \in DOMAIN map : next[k].invoice = map[k].invoice
<1> DEFINE given == [map[key] EXCEPT !.status = status]
<1>1. key \in DOMAIN map => given.invoice = map[key].invoice
  BY DEF IsMap, Receipt
<1>2. next = [k \in DOMAIN map |-> IF k = key THEN given ELSE map[k]]
  BY DEF WithStatus
<1> HIDE DEF given
<1> QED
  BY <1>1, <1>2

LEMMA InitTyped == Init => Typed
<1> SUFFICES ASSUME Init PROVE Typed
  OBVIOUS
<1>1. Hour(0) = 0 /\ Day(0) = 0
  BY NumbersAssumption DEF Hour, Day
<1>2. IsLedger(NewLedger, 0)
  BY <1>1, NumbersAssumption DEF IsLedger, NewLedger, IsMap, U64
<1>3. IsBudgetState(budget, 0)
  BY <1>2, NumbersAssumption DEF Init, NewBudgetState, IsBudgetState, IsMap
<1>4. IsMap(store, Urls, Tokens)
  BY DEF Init, IsMap, Tokens
<1>5. frame \in [Requests -> Frame]
  BY DEF Init, Frame
<1>6. TypeOK
  BY <1>3, <1>4, <1>5 DEF Init, TypeOK, IsMap, Locks
<1>7. CostsFit /\ Equipped
  BY DEF Init, CostsFit, Equipped, Paying, Sending
<1> QED
  BY <1>6, <1>7 DEF Typed

\* A request that moves on with the token and the payment it has.
LEMMA MoveTyped ==
    ASSUME Typed, NEW r \in Requests, NEW place \in Places, Goto(r, place),
           place \in Paying => pc[r] \in Paying,
           place \in Sending => Token(r) \in Tokens,
           \A s \in Requests : Token(s)' = Token(s),
           wallet' = wallet
    PROVE  pc' \in [Requests -> Places] /\ Equipped' /\ CostsFit'
<1>1. pc' \in [Requests -> Places] /\ pc'[r] = place
  BY DEF Typed, Goto, TypeOK, Places
<1>2. \A s \in Requests \ {r} : pc'[s] = pc[s]
  BY DEF Typed, Goto, TypeOK
<1>3. Equipped'
  BY <1>1, <1>2 DEF Typed, Equipped
<1> QED
  BY <1>1, <1>3 DEF Typed, CostsFit

\* A request that takes a token and moves on to send it.
LEMMA TakeTyped ==
    ASSUME Typed, NEW r \in Requests, NEW token \in Tokens,
           NEW receipt \in Requests \cup {None},
           frame' = [frame EXCEPT ![r].token = token, ![r].receipt = receipt],
           NEW place \in Sending, Goto(r, place), wallet' = wallet
    PROVE  /\ pc' \in [Requests -> Places] /\ Equipped' /\ CostsFit'
           /\ frame' \in [Requests -> Frame]
<1>1. Sending \subseteq Places /\ Sending \cap Paying = {}
  BY DEF Sending, Paying, Places, Awaits, Locks
<1>2. pc' \in [Requests -> Places] /\ pc'[r] = place
  BY <1>1 DEF Typed, Goto, TypeOK, Places
<1>3. \A s \in Requests \ {r} : pc'[s] = pc[s] /\ frame'[s] = frame[s]
  BY DEF Typed, Goto, TypeOK
<1>4. frame' \in [Requests -> Frame] /\ frame'[r].token = token
  <2> DEFINE held == [[frame[r] EXCEPT !.token = token] EXCEPT !.receipt = receipt]
  <2>1. frame[r] \in Frame /\ frame \in [Requests -> Frame]
    BY DEF Typed, TypeOK
  <2>2. held \in Frame /\ held.token = token
    BY <2>1 DEF Frame
  <2>3. frame' = [frame EXCEPT ![r] = held]
    BY <2>1
  <2> HIDE DEF held
  <2> QED
    BY <2>1, <2>2, <2>3
<1>5. Equipped'
  BY <1>1, <1>2, <1>3, <1>4 DEF Typed, Equipped, Token
<1> QED
  BY <1>2, <1>4, <1>5 DEF Typed, CostsFit

\* What an answer of the wallet changes: the status, the amount and the breach
\* of one payment.
LEMMA WalletAnswers ==
    ASSUME Typed, NEW r \in Requests, WalletPays(r) \/ WalletFails(r)
    PROVE  /\ IsMap(wallet', Requests, Payment)
           /\ r \in DOMAIN wallet /\ wallet[r].status = "in_flight"
           /\ DOMAIN wallet' = DOMAIN wallet
           /\ \A s \in DOMAIN wallet : /\ wallet'[s].invoice = wallet[s].invoice
                                       /\ wallet'[s].cap = wallet[s].cap
                                       /\ s # r => wallet'[s] = wallet[s]
           /\ wallet'[r].status # "in_flight"
<1>0. r \in DOMAIN wallet /\ wallet[r].status = "in_flight"
  BY DEF WalletPays, WalletFails, Answers, InFlight
<1>1. /\ r \in DOMAIN wallet /\ wallet[r].status = "in_flight"
      /\ wallet[r] \in Payment /\ Price[wallet[r].invoice] \in U64
      /\ Price[wallet[r].invoice] + wallet[r].cap \in U64
  BY <1>0, ClientAssumption DEF Typed, TypeOK, IsMap, Payment, CostsFit
<1>2. \A fee \in 0 .. wallet[r].cap : Price[wallet[r].invoice] + fee \in U64
  BY <1>1, NumbersAssumption DEF U64, Payment
<1>3. ASSUME NEW status \in {"paid", "failed"}, NEW amount \in U64, NEW violation \in BOOLEAN,
             Answers(r, status, amount, violation)
      PROVE  /\ IsMap(wallet', Requests, Payment)
             /\ DOMAIN wallet' = DOMAIN wallet
             /\ \A s \in DOMAIN wallet : /\ wallet'[s].invoice = wallet[s].invoice
                                         /\ wallet'[s].cap = wallet[s].cap
                                         /\ s # r => wallet'[s] = wallet[s]
             /\ wallet'[r].status = status
  <2> DEFINE answer == [invoice |-> wallet[r].invoice, cap |-> wallet[r].cap,
                        amount |-> amount, violation |-> violation, status |-> status]
  <2>1. answer \in Payment
    BY <1>1 DEF Payment
  <2>2. wallet' = With(wallet, r, answer)
    BY <1>3 DEF Answers
  <2>3. IsMap(wallet, Requests, Payment)
    BY DEF Typed, TypeOK
  <2>4. IsMap(wallet', Requests, Payment)
    BY <2>1, <2>2, <2>3, Inserted
  <2>5. /\ DOMAIN wallet' = DOMAIN wallet \cup {r}
        /\ wallet'[r] = answer
        /\ \A s \in DOMAIN wallet \ {r} : wallet'[s] = wallet[s]
    BY <2>2 DEF With
  <2> QED
    BY <1>1, <2>4, <2>5
<1>4. PICK status \in {"paid", "failed"}, amount \in U64, violation \in BOOLEAN :
         Answers(r, status, amount, violation)
  <2>1. 0 \in U64
    BY NumbersAssumption DEF U64
  <2>2. CASE WalletPays(r)
    BY <1>2, <2>2, ClientAssumption DEF WalletPays
  <2>3. CASE WalletFails(r)
    BY <2>1, <2>3 DEF WalletFails
  <2> QED
    BY <2>2, <2>3
<1> QED
  BY <1>1, <1>3, <1>4

LEMMA GoneTyped ==
    ASSUME TypeOK
    PROVE  Gone \subseteq Urls \X Tokens
BY DEF Gone, TypeOK, IsMap

LEMMA NextTyped == Typed /\ [Next]_vars => Typed'
<1> SUFFICES ASSUME Typed, [Next]_vars PROVE Typed'
  OBVIOUS
<1> USE DEF Typed
<1>0. /\ Sending \subseteq Places /\ Paying \subseteq Places /\ Sending \cap Paying = {}
      /\ {"get", "plain"} \cup Outcomes \subseteq Places
      /\ ({"get", "plain"} \cup Outcomes) \cap (Sending \cup Paying) = {}
  BY DEF Sending, Paying, Places, Awaits, Locks, Outcomes
<1>1. ASSUME NEW r \in Requests, Start(r) PROVE Typed'
  <2>1. CASE Url(r) \in DOMAIN unpersisted
    <3>1. unpersisted[Url(r)] \in Tokens /\ frame[r].receipt \in Requests \cup {None}
      BY <2>1 DEF TypeOK, IsMap, Frame
    <3>2. frame' = [frame EXCEPT ![r].token = unpersisted[Url(r)],
                                 ![r].receipt = frame[r].receipt]
      BY <1>1, <2>1 DEF Start, Holds, TypeOK, Frame
    <3>3. /\ pc' \in [Requests -> Places] /\ Equipped' /\ CostsFit'
          /\ frame' \in [Requests -> Frame]
      BY <1>1, <2>1, <3>1, <3>2, TakeTyped DEF Start, Sending, money
    <3> QED
      BY <1>1, <3>3 DEF Start, TypeOK, money, tokens, Places
  <2>2. CASE Url(r) \notin DOMAIN unpersisted
    <3>1. pc' \in [Requests -> Places] /\ Equipped' /\ CostsFit'
      BY <1>1, <1>0, <2>2, MoveTyped DEF Start, money, Token, Sending, Paying
    <3> QED
      BY <1>1, <2>2, <3>1 DEF Start, TypeOK, money, tokens, Places
  <2> QED
    BY <2>1, <2>2
<1>2. ASSUME NEW r \in Requests, StoreGet(r) PROVE Typed'
  <2>1. CASE Url(r) \in DOMAIN store
    <3>1. store[Url(r)] \in Tokens /\ frame[r].receipt \in Requests \cup {None}
      BY <2>1 DEF TypeOK, IsMap, Frame
    <3>2. frame' = [frame EXCEPT ![r].token = store[Url(r)],
                                 ![r].receipt = frame[r].receipt]
      BY <1>2, <2>1 DEF StoreGet, Holds, TypeOK, Frame
    <3>3. /\ pc' \in [Requests -> Places] /\ Equipped' /\ CostsFit'
          /\ frame' \in [Requests -> Frame]
      BY <1>2, <2>1, <3>1, <3>2, TakeTyped DEF StoreGet, Sending, money
    <3> QED
      BY <1>2, <3>3 DEF StoreGet, TypeOK, money, tokens, Places
  <2>2. CASE Url(r) \notin DOMAIN store
    <3>1. pc' \in [Requests -> Places] /\ Equipped' /\ CostsFit'
      BY <1>2, <1>0, <2>2, MoveTyped DEF StoreGet, money, Token, Sending, Paying
    <3> QED
      BY <1>2, <2>2, <3>1 DEF StoreGet, TypeOK, money, tokens, Places
  <2> QED
    BY <2>1, <2>2
<1>3. ASSUME NEW r \in Requests, AuthServed(r) PROVE Typed'
  <2>1. pc' \in [Requests -> Places] /\ Equipped' /\ CostsFit'
    BY <1>3, <1>0, MoveTyped
       DEF AuthServed, money, tokens, Token, Sending, Paying, Outcomes, Equipped
  <2> QED
    BY <1>3, <2>1 DEF AuthServed, TypeOK, money, tokens, Places
<1>4. ASSUME NEW r \in Requests, AuthRefused(r) PROVE Typed'
  <2>1. Token(r) \in Tokens
    BY <1>4 DEF AuthRefused, At, Equipped, Sending
  <2>2. IsMap(unpersisted', Urls, Tokens)
    BY <1>4, WithoutIsMap DEF AuthRefused, TypeOK
  <2>3. pc' \in [Requests -> Places] /\ Equipped' /\ CostsFit'
    BY <1>4, <1>0, MoveTyped
       DEF AuthRefused, money, tokens, Token, Sending, Paying, Outcomes, Equipped, At
  <2> QED
    BY <1>4, <2>1, <2>2, <2>3 DEF AuthRefused, TypeOK, money, tokens, Places
<1>5. ASSUME NEW r \in Requests, StoreRemove(r) PROVE Typed'
  <2>1. IsMap(store', Urls, Tokens)
    BY <1>5, WithoutIsMap DEF StoreRemove, TypeOK
  <2>2. pc' \in [Requests -> Places] /\ Equipped' /\ CostsFit'
    BY <1>5, <1>0, MoveTyped
       DEF StoreRemove, money, tokens, Token, Sending, Paying, Outcomes, Equipped
  <2> QED
    BY <1>5, <2>1, <2>2 DEF StoreRemove, TypeOK, money, tokens, Places
<1>6. ASSUME NEW r \in Requests, PlainServed(r) PROVE Typed'
  <2>1. pc' \in [Requests -> Places] /\ Equipped' /\ CostsFit'
    BY <1>6, <1>0, MoveTyped
       DEF PlainServed, money, tokens, Token, Sending, Paying, Outcomes, Equipped
  <2> QED
    BY <1>6, <2>1 DEF PlainServed, TypeOK, money, tokens, Places
<1>7. ASSUME NEW r \in Requests, NEW i \in Invoices, ReuseProof(r, i) PROVE Typed'
  <2>1. i \in Tokens /\ payments[i] \in Requests \cup {None}
    BY <1>7 DEF ReuseProof, TypeOK, IsMap, Tokens
  <2>2. /\ pc' \in [Requests -> Places] /\ Equipped' /\ CostsFit'
        /\ frame' \in [Requests -> Frame]
    BY <1>7, <2>1, TakeTyped DEF ReuseProof, Sending, money
  <2> QED
    BY <1>7, <2>2 DEF ReuseProof, TypeOK, money, tokens, Places
<1>8. ASSUME NEW r \in Requests, NEW i \in Invoices, DeclineToPay(r, i) PROVE Typed'
  <2>1. pc' \in [Requests -> Places] /\ Equipped' /\ CostsFit'
    BY <1>8, <1>0, MoveTyped
       DEF DeclineToPay, money, tokens, Token, Sending, Paying, Outcomes
  <2> QED
    BY <1>8, <2>1 DEF DeclineToPay, TypeOK, money, tokens, Places
<1>9. ASSUME NEW r \in Requests, NEW i \in Invoices, Submit(r, i) PROVE Typed'
  <2>1. PICK fee \in 0 .. MaxFeeSats :
          /\ IsReservedFee(fee, MaxFeeSats, budget, GlobalBudget, DomainBudgets,
                           Price[i], HostOf[Url(r)], 0)
          /\ budget' = Reserved(budget, Price[i], fee, HostOf[Url(r)])
          /\ frame' = [frame EXCEPT
                 ![r].token = i,
                 ![r].reservation = [id |-> budget.next_id, max_fee_sats |-> fee]]
          /\ wallet' = With(wallet, r, [invoice |-> i, cap |-> fee, amount |-> 0,
                                        violation |-> FALSE, status |-> "in_flight"])
    BY <1>9 DEF Submit
  <2>2. fee \in U64 /\ Price[i] \in U64 /\ HostOf[Url(r)] \in Domains \cup {None}
    BY ClientAssumption, NumbersAssumption DEF U64, Url
  <2>3. Price[i] + fee \in Nat
    BY <2>2, NumbersAssumption DEF U64
  <2>4. Price[i] + fee \in U64
    BY <2>1, <2>3, AdmittedIsU64 DEF IsReservedFee, TypeOK
  <2>5. budget.next_id < MaxId /\ budget.next_id \in 0 .. MaxId
    BY <1>9 DEF Submit, CanPay, CanReserve, TypeOK, IsBudgetState
  <2>6. IsBudgetState(budget', 0)
    BY <2>1, <2>2, <2>4, <2>5, ReservedState DEF TypeOK
  <2>7. [invoice |-> i, cap |-> fee, amount |-> 0,
         violation |-> FALSE, status |-> "in_flight"] \in Payment
    BY <2>2, NumbersAssumption DEF Payment, U64
  <2>8. /\ DOMAIN wallet' = DOMAIN wallet \cup {r}
        /\ wallet'[r] = [invoice |-> i, cap |-> fee, amount |-> 0,
                         violation |-> FALSE, status |-> "in_flight"]
        /\ \A s \in DOMAIN wallet \ {r} : wallet'[s] = wallet[s]
    BY <2>1 DEF With
  <2>16. IsMap(wallet', Requests, Payment)
    BY <2>1, <2>7, Inserted DEF TypeOK
  <2>9. IsMap(payments', Invoices, Requests \cup {None})
    BY <1>9, WithIsMap DEF Submit, TypeOK
  <2>10. [id |-> budget.next_id, max_fee_sats |-> fee] \in Reservation
    BY <2>2, <2>5 DEF Reservation
  <2>11. frame' \in [Requests -> Frame] /\ frame'[r].token = i
    BY <2>1, <2>10 DEF TypeOK, Frame, Tokens
  <2>12. pc' \in [Requests -> Places] /\ pc'[r] = "pay"
    BY <1>9 DEF Submit, Goto, TypeOK, Places, Awaits
  <2>13. \A s \in Requests \ {r} : pc'[s] = pc[s] /\ frame'[s] = frame[s]
    BY <1>9, <2>1 DEF Submit, Goto, TypeOK
  <2>14. CostsFit'
    BY <2>4, <2>8 DEF CostsFit
  <2>15. Equipped'
    BY <2>8, <2>11, <2>12, <2>13 DEF Equipped, Token, Sending
  <2> QED
    BY <1>9, <2>6, <2>9, <2>16, <2>11, <2>12, <2>14, <2>15
       DEF Submit, TypeOK, tokens, Places
<1>10. ASSUME NEW r \in Requests, WalletPays(r) PROVE Typed'
  <2>0. UNCHANGED <<pc, frame, budget, payments, receipts, tokens>>
    BY <1>10 DEF WalletPays, WalletFails, Answers
  <2>1. IsMap(wallet', Requests, Payment) /\ CostsFit' /\ Equipped'
    BY <1>10, <2>0, WalletAnswers DEF CostsFit, Equipped, Token
  <2> QED
    BY <2>0, <2>1 DEF TypeOK, tokens
<1>11. ASSUME NEW r \in Requests, WalletFails(r) PROVE Typed'
  <2>0. UNCHANGED <<pc, frame, budget, payments, receipts, tokens>>
    BY <1>11 DEF WalletPays, WalletFails, Answers
  <2>1. IsMap(wallet', Requests, Payment) /\ CostsFit' /\ Equipped'
    BY <1>11, <2>0, WalletAnswers DEF CostsFit, Equipped, Token
  <2> QED
    BY <2>0, <2>1 DEF TypeOK, tokens
<1>12. ASSUME NEW r \in Requests, PayOk(r) PROVE Typed'
  <2>1. r \in DOMAIN wallet /\ Token(r) = wallet[r].invoice /\ wallet[r] \in Payment
    BY <1>12 DEF PayOk, At, Equipped, Paying, TypeOK, IsMap
  <2>2. [invoice |-> Token(r), amount |-> wallet[r].amount, status |-> 0] \in Receipt
    BY <2>1 DEF Payment, Receipt
  <2>3. IsMap(receipts', Requests, Receipt)
    BY <1>12, <2>2, WithIsMap DEF PayOk, TypeOK
  <2>4. frame' \in [Requests -> Frame] /\ \A s \in Requests : Token(s)' = Token(s)
    BY <1>12 DEF PayOk, TypeOK, Frame, Token
  <2>5. pc' \in [Requests -> Places] /\ Equipped' /\ CostsFit'
    BY <1>12, <1>0, <2>4, MoveTyped DEF PayOk, At, Sending, Paying
  <2> QED
    BY <1>12, <2>3, <2>4, <2>5 DEF PayOk, TypeOK, tokens, Places
<1>13. ASSUME NEW r \in Requests, PayRejected(r) PROVE Typed'
  <2>1. IsBudgetState(budget', 0)
    BY <1>13, ReleasedState DEF PayRejected, TypeOK
  <2>2. pc' \in [Requests -> Places] /\ Equipped' /\ CostsFit'
    BY <1>13, <1>0, MoveTyped
       DEF PayRejected, money, tokens, Token, Sending, Paying, Outcomes, Equipped, At
  <2> QED
    BY <1>13, <2>1, <2>2 DEF PayRejected, TypeOK, money, tokens, Places
<1>14. ASSUME NEW r \in Requests, PayUnknown(r) PROVE Typed'
  <2>1. pc' \in [Requests -> Places] /\ Equipped' /\ CostsFit'
    BY <1>14, <1>0, MoveTyped
       DEF PayUnknown, money, tokens, Token, Sending, Paying, Outcomes, Equipped
  <2> QED
    BY <1>14, <2>1 DEF PayUnknown, TypeOK, money, tokens, Places
<1>15. ASSUME NEW r \in Requests, Forget(r) PROVE Typed'
  <2>1. IsMap(payments', Invoices, Requests \cup {None})
    BY <1>15, WithoutIsMap DEF Forget, TypeOK
  <2>2. pc' \in [Requests -> Places] /\ Equipped' /\ CostsFit'
    BY <1>15, <1>0, MoveTyped
       DEF Forget, money, tokens, Token, Sending, Paying, Outcomes, Equipped
  <2> QED
    BY <1>15, <2>1, <2>2 DEF Forget, TypeOK, money, tokens, Places
<1>16. ASSUME NEW r \in Requests, SettlePayment(r) PROVE Typed'
  <2>1. wallet[r].amount \in U64 /\ wallet[r].violation \in BOOLEAN
    BY <1>16 DEF SettlePayment, At, Equipped, Paying, TypeOK, IsMap, Payment
  <2>2. budget' = Settled(budget, frame[r].reservation.id, wallet[r].amount, 0,
                          wallet[r].violation)
    BY <1>16 DEF SettlePayment
  <2>3. IsBudgetState(budget', 0)
    BY <2>1, <2>2, SettledIsBudgetState DEF TypeOK
  <2>4. PICK place \in {"violated", "record"} : Goto(r, place)
    BY <1>16 DEF SettlePayment
  <2>5. pc' \in [Requests -> Places] /\ Equipped' /\ CostsFit'
    BY <1>16, <1>0, <2>4, MoveTyped
       DEF SettlePayment, At, Sending, Paying, Token, Outcomes
  <2> QED
    BY <1>16, <2>3, <2>5 DEF SettlePayment, TypeOK, tokens, Places
<1>17. ASSUME NEW r \in Requests, RecordPayment(r) PROVE Typed'
  <2>1. r \in DOMAIN wallet /\ Token(r) = wallet[r].invoice /\ wallet[r] \in Payment
    BY <1>17 DEF RecordPayment, At, Equipped, Paying, TypeOK, IsMap
  <2>2. Token(r) \in Invoices /\ Token(r) \in Tokens /\ frame[r].receipt \in Requests \cup {None}
    BY <2>1 DEF Payment, Tokens, TypeOK, Frame
  <2>3. IsMap(payments', Invoices, Requests \cup {None})
    BY <1>17, <2>2, WithIsMap DEF RecordPayment, TypeOK
  <2>4. pc' \in [Requests -> Places] /\ Equipped' /\ CostsFit'
    BY <1>17, <1>0, <2>2, MoveTyped DEF RecordPayment, Sending, Paying, Token
  <2> QED
    BY <1>17, <2>3, <2>4 DEF RecordPayment, TypeOK, tokens, Places
<1>18. ASSUME NEW r \in Requests, Persist(r) PROVE Typed'
  <2>1. Token(r) \in Tokens
    BY <1>18 DEF Persist, At, Equipped, Sending
  <2>2. IsMap(unpersisted', Urls, Tokens)
    BY <1>18, <2>1, WithIsMap, ClientAssumption DEF Persist, TypeOK, Url
  <2>3. pc' \in [Requests -> Places] /\ Equipped' /\ CostsFit'
    BY <1>18, <1>0, MoveTyped, <2>1
       DEF Persist, money, tokens, Token, Sending, Paying, Outcomes, Equipped
  <2> QED
    BY <1>18, <2>1, <2>2, <2>3 DEF Persist, TypeOK, money, tokens, Places
<1>19. ASSUME NEW r \in Requests, StorePut(r) PROVE Typed'
  <2>1. Token(r) \in Tokens
    BY <1>19 DEF StorePut, At, Equipped, Sending
  <2>2. IsMap(store', Urls, Tokens)
    BY <1>19, <2>1, WithIsMap, ClientAssumption DEF StorePut, TypeOK, Url
  <2>3. pc' \in [Requests -> Places] /\ Equipped' /\ CostsFit'
    BY <1>19, <1>0, MoveTyped, <2>1
       DEF StorePut, money, tokens, Token, Sending, Paying, Outcomes, Equipped
  <2> QED
    BY <1>19, <2>1, <2>2, <2>3 DEF StorePut, TypeOK, money, tokens, Places
<1>20. ASSUME NEW r \in Requests, Confirm(r) PROVE Typed'
  <2>1. Token(r) \in Tokens
    BY <1>20 DEF Confirm, At, Equipped, Sending
  <2>2. IsMap(unpersisted', Urls, Tokens)
    BY <1>20, WithoutIsMap DEF Confirm, TypeOK
  <2>3. pc' \in [Requests -> Places] /\ Equipped' /\ CostsFit'
    BY <1>20, <1>0, MoveTyped, <2>1
       DEF Confirm, money, tokens, Token, Sending, Paying, Outcomes, Equipped
  <2> QED
    BY <1>20, <2>1, <2>2, <2>3 DEF Confirm, TypeOK, money, tokens, Places
<1>21. ASSUME NEW r \in Requests, RetryServed(r) PROVE Typed'
  <2>1. /\ receipts' = WithStatus(receipts, frame[r].receipt, 200)
       /\ IsMap(receipts, Requests, Receipt)
    BY <1>21 DEF RetryServed, TypeOK
  <2>2. IsMap(receipts', Requests, Receipt)
    BY <2>1, StatusGiven
  <2>3. pc' \in [Requests -> Places] /\ Equipped' /\ CostsFit'
    BY <1>21, <1>0, MoveTyped
       DEF RetryServed, money, tokens, Token, Sending, Paying, Outcomes, Equipped
  <2> QED
    BY <1>21, <2>1, <2>2, <2>3 DEF RetryServed, TypeOK, money, tokens, Places
<1>22. ASSUME NEW r \in Requests, RetryRefused(r) PROVE Typed'
  <2>1. Token(r) \in Tokens
    BY <1>22 DEF RetryRefused, At, Equipped, Sending
  <2>2. IsMap(unpersisted', Urls, Tokens)
    BY <1>22, WithoutIsMap DEF RetryRefused, TypeOK
  <2>3. /\ receipts' = WithStatus(receipts, frame[r].receipt, 402)
       /\ IsMap(receipts, Requests, Receipt)
    BY <1>22 DEF RetryRefused, TypeOK
  <2>4. IsMap(receipts', Requests, Receipt)
    BY <2>3, StatusGiven
  <2>5. pc' \in [Requests -> Places] /\ Equipped' /\ CostsFit'
    BY <1>22, <1>0, MoveTyped, <2>1
       DEF RetryRefused, money, tokens, Token, Sending, Paying, Outcomes, Equipped
  <2> QED
    BY <1>22, <2>1, <2>2, <2>3, <2>4, <2>5
       DEF RetryRefused, TypeOK, money, tokens, Places
<1>23. ASSUME NEW r \in Requests, StoreDrop(r) PROVE Typed'
  <2>1. IsMap(store', Urls, Tokens)
    BY <1>23, WithoutIsMap DEF StoreDrop, TypeOK
  <2>2. pc' \in [Requests -> Places] /\ Equipped' /\ CostsFit'
    BY <1>23, <1>0, MoveTyped
       DEF StoreDrop, money, tokens, Token, Sending, Paying, Outcomes, Equipped
  <2> QED
    BY <1>23, <2>1, <2>2 DEF StoreDrop, TypeOK, money, tokens, Places
<1>24. ASSUME NEW r \in Requests, HttpFails(r) PROVE Typed'
  <2>1. pc' \in [Requests -> Places] /\ Equipped' /\ CostsFit'
    BY <1>24, <1>0, MoveTyped
       DEF HttpFails, money, tokens, Token, Sending, Paying, Outcomes, Equipped
  <2> QED
    BY <1>24, <2>1 DEF HttpFails, TypeOK, money, tokens, Places
<1>25. ASSUME NEW r \in Requests, StoreFails(r) PROVE Typed'
  <2>1. PICK place \in Outcomes : Goto(r, place)
    BY <1>25 DEF StoreFails, Outcomes
  <2>2. pc' \in [Requests -> Places] /\ Equipped' /\ CostsFit'
    BY <1>25, <1>0, <2>1, MoveTyped DEF StoreFails, money, Token, Outcomes
  <2> QED
    BY <1>25, <2>2 DEF StoreFails, TypeOK, money, tokens, Places
<1>26. ASSUME NEW r \in Requests, Cancel(r) PROVE Typed'
  <2>1. pc[r] \in Sending => Token(r) \in Tokens /\ Url(r) \in Urls
    BY ClientAssumption DEF Equipped, Url
  <2>2. late' \subseteq StoreCall
    BY <1>26, <2>1 DEF Cancel, TypeOK, StoreCall, Sending
  <2>3. pc' \in [Requests -> Places] /\ Equipped' /\ CostsFit'
    BY <1>26, <1>0, MoveTyped DEF Cancel, money, Token, Outcomes
  <2> QED
    BY <1>26, <2>2, <2>3 DEF Cancel, TypeOK, money, Places
<1>27. ASSUME NEW c \in late, Land(c) PROVE Typed'
  <2>1. c.url \in Urls /\ c.token \in Tokens
    BY DEF TypeOK, StoreCall
  <2>2. IsMap(store', Urls, Tokens)
    BY <1>27, <2>1, WithIsMap, WithoutIsMap DEF Land, TypeOK
  <2>3. lost' \subseteq Urls \X Tokens
    BY <1>27, GoneTyped DEF Land, TypeOK
  <2> QED
    BY <1>27, <2>2, <2>3 DEF Land, TypeOK, CostsFit, Equipped, Token, money
<1>28. ASSUME NEW u \in Urls, StoreLoses(u) PROVE Typed'
  <2>1. IsMap(store', Urls, Tokens)
    BY <1>28, WithoutIsMap DEF StoreLoses, TypeOK
  <2>2. lost' \subseteq Urls \X Tokens
    BY <1>28, GoneTyped DEF StoreLoses, TypeOK
  <2> QED
    BY <1>28, <2>1, <2>2 DEF StoreLoses, TypeOK, CostsFit, Equipped, Token, money
<1>29. ASSUME UNCHANGED vars PROVE Typed'
  BY <1>29 DEF vars, money, tokens, TypeOK, CostsFit, Equipped, Token
<1> QED
  BY <1>1, <1>2, <1>3, <1>4, <1>5, <1>6, <1>7, <1>8, <1>9, <1>10, <1>11,
     <1>12, <1>13, <1>14, <1>15, <1>16, <1>17, <1>18, <1>19, <1>20, <1>21, <1>22,
     <1>23, <1>24, <1>25, <1>26, <1>27, <1>28, <1>29 DEF Next, Step

\* Requests, the wallet and the store keep to their types: a payment costs no
\* more than a u64 holds, whatever the server asks and the wallet reports.
THEOREM ClientTypeCorrect == Spec => []TypeOK
<1>1. Typed => TypeOK
  BY DEF Typed
<1> QED
  BY <1>1, InitTyped, NextTyped, PTL DEF Spec

-----------------------------------------------------------------------------
(* No invoice is paid twice.  A request holds the claim on an invoice from *)
(* the moment it submits the payment until it has learnt that the payment  *)
(* failed and has given the claim up; the payment may outlive the request. *)

Early == {"start", "get", "auth", "remove", "plain"}
Unresolved == {"pay", "forget"}

Holders ==
    {r \in DOMAIN wallet : wallet[r].status # "failed" \/ pc[r] \in Unresolved}

\* PaidOnce is not inductive: what makes it so is that payments has a claim for
\* every holder, that a claim is only given up by the one holder it has, and that
\* a request submits no second payment.
Claims ==
    /\ \A r \in Requests : pc[r] \in Early => r \notin DOMAIN wallet
    /\ \A r \in Requests : At(r, "forget") => wallet[r].status = "failed"
    /\ \A r \in Holders : wallet[r].invoice \in DOMAIN payments
    /\ \A r, s \in Holders : wallet[r].invoice = wallet[s].invoice => r = s

LEMMA ClaimsPayOnce == Claims => PaidOnce
BY DEF Claims, PaidOnce, Holders

LEMMA InitClaims == Init => Claims
BY DEF Init, Claims, Holders, Early, At

\* A request that moves on and gives up no claim.
LEMMA MoveClaims ==
    ASSUME Typed, Claims, NEW r \in Requests, NEW place, Goto(r, place),
           place \in Early => pc[r] \in Early,
           place \in Unresolved => pc[r] \in Unresolved,
           place = "forget" => wallet[r].status = "failed",
           wallet' = wallet, DOMAIN payments \subseteq DOMAIN payments'
    PROVE  Claims'
<1>1. pc'[r] = place /\ \A s \in Requests \ {r} : pc'[s] = pc[s]
  BY DEF Typed, TypeOK, Goto
<1>2. DOMAIN wallet \subseteq Requests
  BY DEF Typed, TypeOK, IsMap
<1>3. Holders' \subseteq Holders
  BY <1>1, <1>2 DEF Holders
<1>4. \A s \in Requests : pc'[s] \in Early => s \notin DOMAIN wallet
  BY <1>1 DEF Claims
<1>5. \A s \in Requests : pc'[s] = "forget" => wallet[s].status = "failed"
  BY <1>1 DEF Claims, At
<1> QED
  BY <1>3, <1>4, <1>5 DEF Claims, At

LEMMA NextClaims == Typed /\ Claims /\ [Next]_vars => Claims'
<1> SUFFICES ASSUME Typed, Claims, [Next]_vars PROVE Claims'
  OBVIOUS
<1>1. ASSUME NEW r \in Requests, Start(r) PROVE Claims'
  <2>1. PICK place \in {"get", "auth", "plain"} : Goto(r, place)
    BY <1>1 DEF Start
  <2> QED
    BY <1>1, <2>1, MoveClaims DEF Start, At, money, Early, Unresolved
<1>2. ASSUME NEW r \in Requests, StoreGet(r) PROVE Claims'
  <2>1. PICK place \in {"get", "auth", "plain"} : Goto(r, place)
    BY <1>2 DEF StoreGet
  <2> QED
    BY <1>2, <2>1, MoveClaims DEF StoreGet, At, money, Early, Unresolved
<1>3. ASSUME NEW r \in Requests, AuthServed(r) PROVE Claims'
  BY <1>3, MoveClaims DEF AuthServed, At, money, Early, Unresolved
<1>4. ASSUME NEW r \in Requests, AuthRefused(r) PROVE Claims'
  BY <1>4, MoveClaims DEF AuthRefused, At, money, Early, Unresolved
<1>5. ASSUME NEW r \in Requests, StoreRemove(r) PROVE Claims'
  BY <1>5, MoveClaims DEF StoreRemove, At, money, Early, Unresolved
<1>6. ASSUME NEW r \in Requests, PlainServed(r) PROVE Claims'
  BY <1>6, MoveClaims DEF PlainServed, At, money, Early, Unresolved
<1>7. ASSUME NEW r \in Requests, PayOk(r) PROVE Claims'
  BY <1>7, MoveClaims DEF PayOk, At, money, Early, Unresolved
<1>8. ASSUME NEW r \in Requests, PayUnknown(r) PROVE Claims'
  BY <1>8, MoveClaims DEF PayUnknown, At, money, Early, Unresolved
<1>9. ASSUME NEW r \in Requests, PayRejected(r) PROVE Claims'
  BY <1>9, MoveClaims DEF PayRejected, At, money, Early, Unresolved
<1>10. ASSUME NEW r \in Requests, SettlePayment(r) PROVE Claims'
  <2>1. PICK place \in {"violated", "record"} : Goto(r, place)
    BY <1>10 DEF SettlePayment
  <2> QED
    BY <1>10, <2>1, MoveClaims DEF SettlePayment, Early, Unresolved
<1>11. ASSUME NEW r \in Requests, RecordPayment(r) PROVE Claims'
  <2>1. DOMAIN payments \subseteq DOMAIN payments'
    BY <1>11 DEF RecordPayment, With
  <2> QED
    BY <1>11, <2>1, MoveClaims DEF RecordPayment, Early, Unresolved
<1>12. ASSUME NEW r \in Requests, Persist(r) PROVE Claims'
  BY <1>12, MoveClaims DEF Persist, At, money, Early, Unresolved
<1>13. ASSUME NEW r \in Requests, StorePut(r) PROVE Claims'
  BY <1>13, MoveClaims DEF StorePut, At, money, Early, Unresolved
<1>14. ASSUME NEW r \in Requests, Confirm(r) PROVE Claims'
  BY <1>14, MoveClaims DEF Confirm, At, money, Early, Unresolved
<1>15. ASSUME NEW r \in Requests, RetryServed(r) PROVE Claims'
  BY <1>15, MoveClaims DEF RetryServed, At, money, Early, Unresolved
<1>16. ASSUME NEW r \in Requests, RetryRefused(r) PROVE Claims'
  BY <1>16, MoveClaims DEF RetryRefused, At, money, Early, Unresolved
<1>17. ASSUME NEW r \in Requests, StoreDrop(r) PROVE Claims'
  BY <1>17, MoveClaims DEF StoreDrop, At, money, Early, Unresolved
<1>18. ASSUME NEW r \in Requests, HttpFails(r) PROVE Claims'
  BY <1>18, MoveClaims DEF HttpFails, At, money, Early, Unresolved
<1>19. ASSUME NEW r \in Requests, StoreFails(r) PROVE Claims'
  <2>1. PICK place \in {"unstored", "failed"} : Goto(r, place)
    BY <1>19 DEF StoreFails
  <2> QED
    BY <1>19, <2>1, MoveClaims DEF StoreFails, money, Early, Unresolved
<1>20. ASSUME NEW r \in Requests, Cancel(r) PROVE Claims'
  BY <1>20, MoveClaims DEF Cancel, At, money, Early, Unresolved
<1>21. ASSUME NEW r \in Requests, NEW i \in Invoices, ReuseProof(r, i) PROVE Claims'
  BY <1>21, MoveClaims DEF ReuseProof, money, Early, Unresolved
<1>22. ASSUME NEW r \in Requests, NEW i \in Invoices, DeclineToPay(r, i) PROVE Claims'
  BY <1>22, MoveClaims DEF DeclineToPay, money, Early, Unresolved
<1>23. ASSUME NEW r \in Requests, NEW i \in Invoices, Submit(r, i) PROVE Claims'
  <2>1. PICK payment \in [invoice : {i}, cap : U64, amount : {0}, violation : {FALSE},
                         status : {"in_flight"}] : wallet' = With(wallet, r, payment)
    <3>1. 0 .. MaxFeeSats \subseteq U64
      BY ClientAssumption, NumbersAssumption DEF U64
    <3> QED
      BY <1>23, <3>1 DEF Submit
  <2>2. /\ r \notin DOMAIN wallet
        /\ DOMAIN wallet' = DOMAIN wallet \cup {r}
        /\ wallet'[r].invoice = i
        /\ \A s \in DOMAIN wallet : wallet'[s] = wallet[s]
    BY <1>23, <2>1 DEF Submit, Challenged, At, Claims, Early, With
  <2>3. i \notin DOMAIN payments /\ DOMAIN payments' = DOMAIN payments \cup {i}
    BY <1>23 DEF Submit, With
  <2>4. pc'[r] = "pay" /\ \A s \in Requests \ {r} : pc'[s] = pc[s]
    BY <1>23 DEF Submit, Goto, Typed, TypeOK
  <2>5. DOMAIN wallet \subseteq Requests
    BY DEF Typed, TypeOK, IsMap
  <2>6. Holders' \subseteq Holders \cup {r} /\ r \notin Holders
    BY <2>2, <2>4, <2>5 DEF Holders
  <2>7. \A s \in Holders : wallet'[s] = wallet[s] /\ wallet[s].invoice \in DOMAIN payments
    BY <2>2 DEF Holders, Claims
  <2>8. \A s \in Holders' : wallet'[s].invoice \in DOMAIN payments'
    BY <2>2, <2>3, <2>6, <2>7
  <2>9. \A s, t \in Holders' : wallet'[s].invoice = wallet'[t].invoice => s = t
    BY <2>2, <2>3, <2>6, <2>7 DEF Claims
  <2>10. \A s \in Requests : pc'[s] \in Early => s \notin DOMAIN wallet'
    BY <2>2, <2>4 DEF Claims, Early
  <2>11. \A s \in Requests : pc'[s] = "forget" => wallet'[s].status = "failed"
    <3>1. \A s \in Requests : pc[s] = "forget" => s \in DOMAIN wallet
      BY DEF Typed, Equipped, Paying
    <3> QED
      BY <2>2, <2>4, <3>1 DEF Claims, At
  <2> QED
    BY <2>8, <2>9, <2>10, <2>11 DEF Claims, At
<1>24. ASSUME NEW r \in Requests, WalletPays(r) \/ WalletFails(r) PROVE Claims'
  <2>1. pc' = pc /\ payments' = payments
    BY <1>24 DEF WalletPays, WalletFails, Answers
  <2>2. /\ r \in DOMAIN wallet /\ wallet[r].status = "in_flight"
        /\ DOMAIN wallet' = DOMAIN wallet
        /\ \A s \in DOMAIN wallet : wallet'[s].invoice = wallet[s].invoice
        /\ \A s \in DOMAIN wallet \ {r} : wallet'[s] = wallet[s]
    BY <1>24, WalletAnswers
  <2>3. Holders' \subseteq Holders
    BY <2>1, <2>2 DEF Holders
  <2>4. \A s \in Holders' : s \in Holders /\ wallet'[s].invoice = wallet[s].invoice
    BY <2>2, <2>3 DEF Holders
  <2>5. \A s \in Requests : pc[s] = "forget" => s \in DOMAIN wallet /\ s # r
    BY <2>2 DEF Claims, At, Typed, Equipped, Paying
  <2>6. \A s \in Requests : pc'[s] = "forget" => wallet'[s].status = "failed"
    BY <2>1, <2>2, <2>5 DEF Claims, At
  <2>7. \A s \in Requests : pc'[s] \in Early => s \notin DOMAIN wallet'
    BY <2>1, <2>2 DEF Claims
  <2>8. \A s \in Holders' : wallet'[s].invoice \in DOMAIN payments'
    BY <2>1, <2>4 DEF Claims
  <2>9. \A s, t \in Holders' : wallet'[s].invoice = wallet'[t].invoice => s = t
    BY <2>4 DEF Claims
  <2> QED
    BY <2>6, <2>7, <2>8, <2>9 DEF Claims, At
<1>25. ASSUME NEW r \in Requests, Forget(r) PROVE Claims'
  <2>1. wallet' = wallet /\ DOMAIN payments' = DOMAIN payments \ {wallet[r].invoice}
    BY <1>25 DEF Forget, At, Typed, Equipped, Paying, Without
  <2>2. pc'[r] = "failed" /\ \A s \in Requests \ {r} : pc'[s] = pc[s]
    BY <1>25 DEF Forget, Goto, Typed, TypeOK
  <2>3. r \in Holders /\ wallet[r].status = "failed"
    BY <1>25 DEF Forget, At, Claims, Holders, Unresolved, Typed, Equipped, Paying
  <2>4. DOMAIN wallet \subseteq Requests
    BY DEF Typed, TypeOK, IsMap
  <2>5. Holders' \subseteq Holders \ {r}
    BY <2>1, <2>2, <2>3, <2>4 DEF Holders, Unresolved
  <2>6. \A s \in Holders' : wallet[s].invoice # wallet[r].invoice
    BY <2>3, <2>5 DEF Claims
  <2>7. \A s \in Holders' : wallet'[s].invoice \in DOMAIN payments'
    BY <2>1, <2>5, <2>6 DEF Claims
  <2>8. \A s \in Requests : pc'[s] \in Early => s \notin DOMAIN wallet'
    BY <2>1, <2>2 DEF Claims, Early
  <2>9. \A s \in Requests : pc'[s] = "forget" => wallet'[s].status = "failed"
    BY <2>1, <2>2 DEF Claims, At
  <2>10. \A s, t \in Holders' : wallet'[s].invoice = wallet'[t].invoice => s = t
    BY <2>1, <2>5 DEF Claims
  <2> QED
    BY <2>7, <2>8, <2>9, <2>10 DEF Claims, At
<1>26. ASSUME \/ \E c \in late : Land(c)
              \/ \E u \in Urls : StoreLoses(u)
       PROVE  Claims'
  BY <1>26 DEF Land, StoreLoses, money, Claims, Holders, At
<1>27. ASSUME UNCHANGED vars PROVE Claims'
  BY <1>27 DEF vars, money, tokens, Claims, Holders, At
<1> QED
  BY <1>1, <1>2, <1>3, <1>4, <1>5, <1>6, <1>7, <1>8, <1>9, <1>10, <1>11,
     <1>12, <1>13, <1>14, <1>15, <1>16, <1>17, <1>18, <1>19, <1>20, <1>21, <1>22,
     <1>23, <1>24, <1>25, <1>26, <1>27 DEF Next, Step

\* The same invoice is never paid twice by the requests of one client, however
\* they interleave, are cancelled or learn of the outcome: of its payments all but
\* one failed for certain.
THEOREM InvoicesPaidOnce == Spec => []PaidOnce
<1>1. Init => Typed /\ Claims
  BY InitTyped, InitClaims
<1>2. Typed /\ Claims /\ [Next]_vars => (Typed /\ Claims)'
  BY NextTyped, NextClaims
<1>3. Typed /\ Claims => PaidOnce
  BY ClaimsPayOnce
<1> QED
  BY <1>1, <1>2, <1>3, PTL DEF Spec

-----------------------------------------------------------------------------
(* What a request holds is there when it uses it.                          *)

Reserving == {"pay", "settle"}
Receipted == {"settle", "record", "persist", "put", "confirm", "retry"}
Unpaid == Early \cup {"pay"}

Id(r) == frame[r].reservation.id

\* The receipt is the one of the invoice's payment.
Backs(receipt, invoice) ==
    receipt \in DOMAIN receipts /\ receipts[receipt].invoice = invoice

\* FrameIsLive is not inductive: a settlement would take away the reservation of
\* another request with the same id, and a claim that names a request without a
\* receipt would be taken over by a request that uses the proof again.
Live ==
    /\ \A r \in Requests : pc[r] \in Reserving => Id(r) \in DOMAIN budget.pending
    /\ \A r, s \in Requests :
          pc[r] \in Reserving /\ pc[s] \in Reserving /\ r # s => Id(r) # Id(s)
    /\ \A i \in DOMAIN budget.pending : i < budget.next_id
    /\ \A r \in Requests : pc[r] \in Unpaid => r \notin DOMAIN receipts
    /\ \A r \in Requests : pc[r] \in Receipted => Backs(frame[r].receipt, Token(r))
    /\ \A i \in DOMAIN payments : payments[i] # None => Backs(payments[i], i)

LEMMA LiveFrames == Live => FrameIsLive
BY DEF Live, FrameIsLive, Id, Backs, Reserving, Receipted

LEMMA InitLive == Init => Live
BY DEF Init, Live, NewBudgetState, Reserving, Receipted, Unpaid, Early

\* A request that moves on without a new reservation or a receipt of its own.
LEMMA MoveLive ==
    ASSUME Typed, Live, NEW r \in Requests, NEW place, Goto(r, place),
           place \in Reserving => pc[r] \in Reserving /\ budget' = budget,
           place \in Unpaid => pc[r] \in Unpaid,
           place \in Receipted => Backs(frame'[r].receipt, frame'[r].token),
           place \in Reserving => frame'[r] = frame[r],
           \A s \in Requests \ {r} : frame'[s] = frame[s],
           budget'.next_id = budget.next_id,
           DOMAIN budget'.pending \subseteq DOMAIN budget.pending,
           \A s \in Requests \ {r} : pc[s] \in Reserving => Id(s) \in DOMAIN budget'.pending,
           DOMAIN receipts' = DOMAIN receipts,
           \A k \in DOMAIN receipts : receipts'[k].invoice = receipts[k].invoice,
           \A i \in DOMAIN payments' : payments'[i] # None => Backs(payments'[i], i)
    PROVE  Live'
<1>1. pc'[r] = place /\ \A s \in Requests \ {r} : pc'[s] = pc[s]
  BY DEF Typed, TypeOK, Goto
<1>2. \A k, i : Backs(k, i) => Backs(k, i)'
  BY DEF Backs
<1>3. \A s \in Requests : pc'[s] \in Reserving => pc[s] \in Reserving /\ frame'[s] = frame[s]
  BY <1>1
<1>4. \A s \in Requests : pc'[s] \in Reserving => Id(s)' \in DOMAIN budget'.pending
  BY <1>1, <1>3 DEF Live, Id
<1>5. \A s, t \in Requests :
         pc'[s] \in Reserving /\ pc'[t] \in Reserving /\ s # t => Id(s)' # Id(t)'
  BY <1>3 DEF Live, Id
<1>6. \A i \in DOMAIN budget'.pending : i < budget'.next_id
  BY DEF Live
<1>7. \A s \in Requests : pc'[s] \in Unpaid => s \notin DOMAIN receipts'
  BY <1>1 DEF Live
<1>8. \A s \in Requests : pc'[s] \in Receipted => Backs(frame'[s].receipt, frame'[s].token)
  BY <1>1 DEF Live, Token
<1>9. \A s \in Requests : pc'[s] \in Receipted => Backs(frame[s].receipt, Token(s))'
  BY <1>2, <1>8 DEF Token
<1>10. \A i \in DOMAIN payments' : payments'[i] # None => Backs(payments[i], i)'
  BY <1>2
<1> QED
  BY <1>4, <1>5, <1>6, <1>7, <1>9, <1>10 DEF Live

LEMMA NextLive == Typed /\ Live /\ [Next]_vars => Live'
<1> SUFFICES ASSUME Typed, Live, [Next]_vars PROVE Live'
  OBVIOUS
<1>0. /\ \A r \in Requests : pc[r] \in Receipted => Backs(frame[r].receipt, frame[r].token)
      /\ \A r \in Requests : pc[r] \in Reserving => Id(r) \in DOMAIN budget.pending
      /\ \A i \in DOMAIN payments : payments[i] # None => Backs(payments[i], i)
  BY DEF Live, Token
<1>1. ASSUME NEW r \in Requests, Start(r) PROVE Live'
  <2>1. PICK place \in {"get", "auth", "plain"} : Goto(r, place)
    BY <1>1 DEF Start
  <2>2. \A s \in Requests \ {r} : frame'[s] = frame[s]
    BY <1>1 DEF Start, Holds, Typed, TypeOK
  <2> QED
    BY <1>1, <1>0, <2>1, <2>2, MoveLive
       DEF Start, At, money, Reserving, Receipted, Unpaid, Early
<1>2. ASSUME NEW r \in Requests, StoreGet(r) PROVE Live'
  <2>1. PICK place \in {"get", "auth", "plain"} : Goto(r, place)
    BY <1>2 DEF StoreGet
  <2>2. \A s \in Requests \ {r} : frame'[s] = frame[s]
    BY <1>2 DEF StoreGet, Holds, Typed, TypeOK
  <2> QED
    BY <1>2, <1>0, <2>1, <2>2, MoveLive
       DEF StoreGet, At, money, Reserving, Receipted, Unpaid, Early
<1>3. ASSUME NEW r \in Requests, AuthServed(r) PROVE Live'
  BY <1>3, <1>0, MoveLive DEF AuthServed, At, money, Reserving, Receipted, Unpaid, Early
<1>4. ASSUME NEW r \in Requests, AuthRefused(r) PROVE Live'
  BY <1>4, <1>0, MoveLive
     DEF AuthRefused, At, money, Reserving, Receipted, Unpaid, Early
<1>5. ASSUME NEW r \in Requests, StoreRemove(r) PROVE Live'
  BY <1>5, <1>0, MoveLive
     DEF StoreRemove, At, money, Reserving, Receipted, Unpaid, Early
<1>6. ASSUME NEW r \in Requests, PlainServed(r) PROVE Live'
  BY <1>6, <1>0, MoveLive
     DEF PlainServed, At, money, Reserving, Receipted, Unpaid, Early
<1>7. ASSUME NEW r \in Requests, PayUnknown(r) PROVE Live'
  BY <1>7, <1>0, MoveLive DEF PayUnknown, At, money, Reserving, Receipted, Unpaid, Early
<1>8. ASSUME NEW r \in Requests, Persist(r) PROVE Live'
  BY <1>8, <1>0, MoveLive DEF Persist, At, money, Reserving, Receipted, Unpaid, Early
<1>9. ASSUME NEW r \in Requests, StorePut(r) PROVE Live'
  BY <1>9, <1>0, MoveLive DEF StorePut, At, money, Reserving, Receipted, Unpaid, Early
<1>10. ASSUME NEW r \in Requests, Confirm(r) PROVE Live'
  BY <1>10, <1>0, MoveLive DEF Confirm, At, money, Reserving, Receipted, Unpaid, Early
<1>11. ASSUME NEW r \in Requests, StoreDrop(r) PROVE Live'
  BY <1>11, <1>0, MoveLive DEF StoreDrop, At, money, Reserving, Receipted, Unpaid, Early
<1>12. ASSUME NEW r \in Requests, HttpFails(r) PROVE Live'
  BY <1>12, <1>0, MoveLive DEF HttpFails, At, money, Reserving, Receipted, Unpaid, Early
<1>13. ASSUME NEW r \in Requests, Cancel(r) PROVE Live'
  BY <1>13, <1>0, MoveLive DEF Cancel, At, money, Reserving, Receipted, Unpaid, Early
<1>14. ASSUME NEW r \in Requests, StoreFails(r) PROVE Live'
  <2>1. PICK place \in {"unstored", "failed"} : Goto(r, place)
    BY <1>14 DEF StoreFails
  <2> QED
    BY <1>14, <1>0, <2>1, MoveLive
       DEF StoreFails, money, Reserving, Receipted, Unpaid, Early
<1>15. ASSUME NEW r \in Requests, NEW i \in Invoices, ReuseProof(r, i) PROVE Live'
  <2>1. Backs(payments[i], i)
    BY <1>15, <1>0 DEF ReuseProof
  <2>2. frame'[r].receipt = payments[i] /\ frame'[r].token = i
    BY <1>15 DEF ReuseProof, Typed, TypeOK, Frame
  <2>3. \A s \in Requests \ {r} : frame'[s] = frame[s]
    BY <1>15 DEF ReuseProof, Typed, TypeOK
  <2> QED
    BY <1>15, <1>0, <2>1, <2>2, <2>3, MoveLive
       DEF ReuseProof, money, Reserving, Receipted, Unpaid, Early
<1>16. ASSUME NEW r \in Requests, NEW i \in Invoices, DeclineToPay(r, i) PROVE Live'
  BY <1>16, <1>0, MoveLive DEF DeclineToPay, money, Reserving, Receipted, Unpaid, Early
<1>17. ASSUME NEW r \in Requests, NEW i \in Invoices, Submit(r, i) PROVE Live'
  <2>1. PICK fee \in 0 .. MaxFeeSats :
          /\ budget' = Reserved(budget, Price[i], fee, HostOf[Url(r)])
          /\ frame' = [frame EXCEPT
                 ![r].token = i,
                 ![r].reservation = [id |-> budget.next_id, max_fee_sats |-> fee]]
    BY <1>17 DEF Submit
  <2>2. /\ budget'.next_id = budget.next_id + 1
        /\ DOMAIN budget'.pending = DOMAIN budget.pending \cup {budget.next_id}
        /\ budget.next_id \in Nat
        /\ DOMAIN budget.pending \subseteq Nat
    <3>1. IsBudgetState(budget, 0)
      BY DEF Typed, TypeOK
    <3>2. /\ budget.next_id \in Nat
          /\ DOMAIN budget.pending \subseteq Nat
          /\ budget = [global |-> budget.global, domains |-> budget.domains,
                       pending |-> budget.pending, next_id |-> budget.next_id,
                       frozen |-> budget.frozen]
      BY <3>1, NumbersAssumption DEF IsBudgetState, IsMap
    <3>3. /\ budget'.next_id = budget.next_id + 1
          /\ budget'.pending = With(budget.pending, budget.next_id,
                [amount |-> Price[i] + fee, domain |-> HostOf[Url(r)]])
      BY <2>1, <3>2 DEF Reserved
    <3> QED
      BY <3>2, <3>3 DEF With
  <2>3. Id(r)' = budget.next_id
    BY <2>1 DEF Id, Typed, TypeOK, Frame
  <2>4. \A s \in Requests \ {r} : frame'[s] = frame[s]
    BY <2>1 DEF Typed, TypeOK
  <2>5. pc'[r] = "pay" /\ \A s \in Requests \ {r} : pc'[s] = pc[s]
    BY <1>17 DEF Submit, Goto, Typed, TypeOK
  <2>6. receipts' = receipts /\ pc[r] = "plain"
    BY <1>17 DEF Submit, Challenged, At
  <2>7. \A s \in Requests : pc'[s] \in Reserving => Id(s)' \in DOMAIN budget'.pending
    BY <2>2, <2>3, <2>4, <2>5 DEF Live, Id
  <2>8. \A s \in Requests \ {r} : pc'[s] \in Reserving => Id(s)' < budget.next_id
    BY <2>4, <2>5 DEF Live, Id
  <2>9. \A s, t \in Requests :
           pc'[s] \in Reserving /\ pc'[t] \in Reserving /\ s # t => Id(s)' # Id(t)'
    <3>1. \A s \in Requests \ {r} : pc'[s] \in Reserving => Id(s)' # Id(r)'
      <4>1. \A s \in Requests \ {r} : pc'[s] \in Reserving => Id(s)' \in Nat
        BY <2>2, <2>4, <2>5 DEF Live, Id
      <4> QED
        BY <2>2, <2>3, <2>8, <4>1
    <3>2. \A s, t \in Requests \ {r} :
             pc'[s] \in Reserving /\ pc'[t] \in Reserving /\ s # t => Id(s)' # Id(t)'
      BY <2>4, <2>5 DEF Live, Id
    <3> QED
      BY <3>1, <3>2
  <2>10. \A n \in DOMAIN budget'.pending : n < budget'.next_id
    BY <2>2 DEF Live
  <2>11. \A s \in Requests : pc'[s] \in Unpaid => s \notin DOMAIN receipts'
    BY <2>5, <2>6 DEF Live, Unpaid, Early
  <2>12. \A s \in Requests : pc'[s] \in Receipted => Backs(frame[s].receipt, Token(s))'
    BY <2>4, <2>5, <2>6 DEF Live, Receipted, Backs, Token
  <2>13. \A j \in DOMAIN payments' : payments'[j] # None => Backs(payments[j], j)'
    BY <1>17, <2>6, <1>0 DEF Submit, With, Backs
  <2> QED
    BY <2>7, <2>9, <2>10, <2>11, <2>12, <2>13 DEF Live
<1>18. ASSUME NEW r \in Requests, WalletPays(r) \/ WalletFails(r) PROVE Live'
  <2>1. UNCHANGED <<pc, frame, budget, payments, receipts>>
    BY <1>18 DEF WalletPays, WalletFails, Answers
  <2> QED
    BY <2>1 DEF Live, Id, Backs, Token
<1>19. ASSUME NEW r \in Requests, PayOk(r) PROVE Live'
  <2>1. /\ DOMAIN receipts' = DOMAIN receipts \cup {r}
        /\ receipts'[r].invoice = Token(r)
        /\ \A k \in DOMAIN receipts : k # r => receipts'[k] = receipts[k]
    BY <1>19 DEF PayOk, With
  <2>2. /\ frame'[r].receipt = r /\ Token(r)' = Token(r) /\ Id(r)' = Id(r)
        /\ \A s \in Requests \ {r} : frame'[s] = frame[s]
    BY <1>19 DEF PayOk, Typed, TypeOK, Frame, Token, Id
  <2>3. pc'[r] = "settle" /\ \A s \in Requests \ {r} : pc'[s] = pc[s]
    BY <1>19 DEF PayOk, Goto, Typed, TypeOK
  <2>4. pc[r] = "pay" /\ budget' = budget /\ payments' = payments
    BY <1>19 DEF PayOk, At
  <2>5. r \notin DOMAIN receipts
    BY <2>4 DEF Live, Unpaid
  <2>6. \A k, i : Backs(k, i) => Backs(k, i)'
    BY <2>1, <2>5 DEF Backs
  <2>7. \A s \in Requests : Id(s)' = Id(s) /\ (pc'[s] \in Reserving => pc[s] \in Reserving)
    BY <2>2, <2>3, <2>4 DEF Id, Reserving
  <2>8. \A s \in Requests : pc'[s] \in Reserving => Id(s)' \in DOMAIN budget'.pending
    BY <2>4, <2>7 DEF Live
  <2>9. \A s, t \in Requests :
           pc'[s] \in Reserving /\ pc'[t] \in Reserving /\ s # t => Id(s)' # Id(t)'
    BY <2>7 DEF Live
  <2>10. \A n \in DOMAIN budget'.pending : n < budget'.next_id
    BY <2>4 DEF Live
  <2>11. \A s \in Requests : pc'[s] \in Unpaid => s \notin DOMAIN receipts'
    BY <2>1, <2>3 DEF Live, Unpaid, Early
  <2>12. \A s \in Requests : pc'[s] \in Receipted => Backs(frame[s].receipt, Token(s))'
    <3>1. Backs(frame[r].receipt, Token(r))'
      BY <2>1, <2>2 DEF Backs
    <3>2. \A s \in Requests \ {r} : pc'[s] \in Receipted => Backs(frame'[s].receipt, Token(s)')
      BY <2>2, <2>3 DEF Live, Token
    <3> QED
      BY <2>6, <3>1, <3>2
  <2>13. \A j \in DOMAIN payments' : payments'[j] # None => Backs(payments[j], j)'
    BY <1>0, <2>4, <2>6
  <2> QED
    BY <2>8, <2>9, <2>10, <2>11, <2>12, <2>13 DEF Live
<1>20. ASSUME NEW r \in Requests, PayRejected(r) PROVE Live'
  <2>1. /\ DOMAIN budget'.pending = DOMAIN budget.pending \ {Id(r)}
        /\ budget'.next_id = budget.next_id
    <3>1. /\ budget'.pending = Without(budget.pending, Id(r))
          /\ budget'.next_id = budget.next_id
      BY <1>20, ReleasedState DEF PayRejected, Typed, TypeOK, Id
    <3> QED
      BY <3>1 DEF Without
  <2>2. pc[r] \in Reserving
    BY <1>20 DEF PayRejected, At, Reserving
  <2>3. \A s \in Requests \ {r} : pc[s] \in Reserving => Id(s) \in DOMAIN budget'.pending
    BY <2>1, <2>2 DEF Live
  <2> QED
    BY <1>20, <1>0, <2>1, <2>3, MoveLive
       DEF PayRejected, Reserving, Receipted, Unpaid, Early
<1>21. ASSUME NEW r \in Requests, Forget(r) PROVE Live'
  <2>1. \A i \in DOMAIN payments' : i \in DOMAIN payments /\ payments'[i] = payments[i]
    BY <1>21 DEF Forget, Without
  <2> QED
    BY <1>21, <1>0, <2>1, MoveLive DEF Forget, Reserving, Receipted, Unpaid, Early
<1>22. ASSUME NEW r \in Requests, SettlePayment(r) PROVE Live'
  <2>1. /\ DOMAIN budget'.pending = DOMAIN budget.pending \ {Id(r)}
        /\ budget'.next_id = budget.next_id
    <3>1. /\ budget'.pending = Without(budget.pending, Id(r))
          /\ budget'.next_id = budget.next_id
      BY <1>22 DEF SettlePayment, Settled, Typed, TypeOK, IsBudgetState, Id
    <3> QED
      BY <3>1 DEF Without
  <2>2. pc[r] \in Reserving
    BY <1>22 DEF SettlePayment, At, Reserving
  <2>3. \A s \in Requests \ {r} : pc[s] \in Reserving => Id(s) \in DOMAIN budget'.pending
    BY <2>1, <2>2 DEF Live
  <2>4. PICK place \in {"violated", "record"} : Goto(r, place)
    BY <1>22 DEF SettlePayment
  <2>5. Backs(frame[r].receipt, frame[r].token)
    BY <1>22, <1>0 DEF SettlePayment, At, Receipted
  <2> QED
    BY <1>22, <1>0, <2>1, <2>3, <2>4, <2>5, MoveLive
       DEF SettlePayment, Reserving, Receipted, Unpaid, Early
<1>23. ASSUME NEW r \in Requests, RecordPayment(r) PROVE Live'
  <2>1. Backs(frame[r].receipt, Token(r))
    BY <1>23 DEF RecordPayment, At, Live, Receipted
  <2>2. \A i \in DOMAIN payments' : payments'[i] # None => Backs(payments'[i], i)
    BY <1>23, <1>0, <2>1 DEF RecordPayment, With
  <2> QED
    BY <1>23, <1>0, <2>1, <2>2, MoveLive
       DEF RecordPayment, Token, Reserving, Receipted, Unpaid, Early
<1>24. ASSUME NEW r \in Requests, RetryServed(r) PROVE Live'
  <2>1. /\ DOMAIN receipts' = DOMAIN receipts
        /\ \A k \in DOMAIN receipts : receipts'[k].invoice = receipts[k].invoice
    BY <1>24, SameReceipt DEF RetryServed, Typed, TypeOK
  <2> QED
    BY <1>24, <1>0, <2>1, MoveLive DEF RetryServed, Reserving, Receipted, Unpaid, Early
<1>25. ASSUME NEW r \in Requests, RetryRefused(r) PROVE Live'
  <2>1. /\ DOMAIN receipts' = DOMAIN receipts
        /\ \A k \in DOMAIN receipts : receipts'[k].invoice = receipts[k].invoice
    BY <1>25, SameReceipt DEF RetryRefused, Typed, TypeOK
  <2> QED
    BY <1>25, <1>0, <2>1, MoveLive DEF RetryRefused, Reserving, Receipted, Unpaid, Early
<1>26. ASSUME \/ \E c \in late : Land(c)
              \/ \E u \in Urls : StoreLoses(u)
       PROVE  Live'
  BY <1>26 DEF Land, StoreLoses, money, Live, Id, Backs, Token
<1>27. ASSUME UNCHANGED vars PROVE Live'
  BY <1>27 DEF vars, money, Live, Id, Backs, Token
<1> QED
  BY <1>1, <1>2, <1>3, <1>4, <1>5, <1>6, <1>7, <1>8, <1>9, <1>10, <1>11,
     <1>12, <1>13, <1>14, <1>15, <1>16, <1>17, <1>18, <1>19, <1>20, <1>21, <1>22,
     <1>23, <1>24, <1>25, <1>26, <1>27 DEF Next, Step

\* The Reservation of a payment whose outcome arrives is still live, and the
\* receipt a retry updates exists and is the one of the token it sent: neither the
\* expect("live reservation") nor the index into the receipts can panic.
THEOREM FramesLive == Spec => []FrameIsLive
<1>1. Init => Typed /\ Live
  BY InitTyped, InitLive
<1>2. Typed /\ Live /\ [Next]_vars => (Typed /\ Live)'
  BY NextTyped, NextLive
<1>3. Typed /\ Live => FrameIsLive
  BY LiveFrames
<1> QED
  BY <1>1, <1>2, <1>3, PTL DEF Spec

-----------------------------------------------------------------------------
(* The paid token, when requests are made one after another (~Overlap).    *)

Idle == {"start"} \cup Outcomes

\* The tokens that were paid for a request for the url, that no server refused
\* and that the store did not lose.
Owed(u) ==
    {i \in DOMAIN payments :
        /\ payments[i] # None /\ Url(payments[i]) = u
        /\ i \notin refused /\ <<u, i>> \notin lost}

Alone == \A r, s \in Requests : r = s \/ pc[r] \in Idle \/ pc[s] \in Idle

\* What the one request under way knows of its url: that no other token than the
\* one it carries is owed, that it can rely on the memory until the store has
\* it, and that when it pays, or gives the url's tokens up, none is owed.
Fits(r) ==
    /\ At(r, "get") => Url(r) \notin DOMAIN unpersisted
    /\ pc[r] \in {"auth", "retry"} => Owed(Url(r)) \subseteq {Token(r)}
    /\ pc[r] \in {"put", "confirm"} =>
          Url(r) \in DOMAIN unpersisted /\ unpersisted[Url(r)] = Token(r)
    /\ At(r, "confirm") =>
          Owed(Url(r)) = {} \/ (Url(r) \in DOMAIN store /\ store[Url(r)] = Token(r))
    /\ pc[r] \in {"settle", "record"} => frame[r].receipt = r
    /\ pc[r] \in {"remove", "plain", "pay", "forget", "settle", "record", "drop"} =>
          Owed(Url(r)) = {}
    /\ At(r, "persist") => \A i \in Owed(Url(r)) : i = Token(r) /\ payments[i] = r

InTurn == Alone /\ TokenKept /\ \A r \in Requests : Fits(r)

LEMMA InitInTurn == Init => InTurn
BY DEF Init, InTurn, Alone, Idle, TokenKept, Fits, At

Turn(r) == \A s \in Requests \ {r} : pc[s] \in Idle

\* The requests that do not move know what they knew.
LEMMA MoveInTurn ==
    ASSUME Typed, InTurn, NEW r \in Requests, Turn(r), NEW place, Goto(r, place),
           TokenKept', Fits(r)'
    PROVE  InTurn'
<1>1. pc'[r] = place /\ \A s \in Requests \ {r} : pc'[s] = pc[s]
  BY DEF Typed, TypeOK, Goto
<1>2. Alone'
  BY <1>1 DEF Alone, Turn
<1>3. \A s \in Requests \ {r} : Fits(s)'
  BY <1>1 DEF Fits, At, Turn, Idle, Outcomes
<1> QED
  BY <1>2, <1>3 DEF InTurn

\* TokenKept, said of the tokens owed for one url.
LEMMA OwedIsKept ==
    Typed => (TokenKept <=> \A u \in Urls : \A i \in Owed(u) :
                               At(payments[i], "persist") \/ Kept(u) = i)
<1> SUFFICES ASSUME Typed
             PROVE  TokenKept <=> \A u \in Urls : \A i \in Owed(u) :
                                     At(payments[i], "persist") \/ Kept(u) = i
  OBVIOUS
<1>1. \A i \in DOMAIN payments : payments[i] # None => Url(payments[i]) \in Urls
  BY ClientAssumption DEF Typed, TypeOK, IsMap, Url
<1> QED
  BY <1>1 DEF TokenKept, Owed

LEMMA OwedHere ==
    ASSUME Typed, InTurn, NEW r \in Requests, Turn(r), ~At(r, "persist")
    PROVE  \A u \in Urls : \A i \in Owed(u) : Kept(u) = i
<1>1. \A i \in DOMAIN payments : payments[i] \in Requests \cup {None}
  BY DEF Typed, TypeOK, IsMap
<1>2. \A i \in DOMAIN payments : payments[i] # None => ~At(payments[i], "persist")
  BY <1>1 DEF At, Turn, Idle, Outcomes
<1> QED
  BY <1>2, OwedIsKept DEF InTurn, Owed

\* A step that is about the tokens of the request's url.
LEMMA TokensOfUrl ==
    ASSUME Typed, Typed', InTurn, NEW r \in Requests, Turn(r),
           \A u \in Urls \ {Url(r)} : Kept(u)' = Kept(u) /\ Owed(u)' \subseteq Owed(u),
           \A i \in Owed(Url(r))' : At(payments[i], "persist")' \/ Kept(Url(r))' = i
    PROVE  TokenKept'
<1>1. \A u \in Urls : \A i \in Owed(u) : At(payments[i], "persist") \/ Kept(u) = i
  BY OwedIsKept DEF InTurn
<1>2. ASSUME NEW u \in Urls \ {Url(r)}, NEW i \in Owed(u) PROVE Kept(u) = i
  <2>1. payments[i] \in Requests /\ payments[i] # r
    BY <1>2 DEF Owed, Typed, TypeOK, IsMap
  <2>2. ~At(payments[i], "persist")
    BY <2>1 DEF At, Turn, Idle, Outcomes
  <2> QED
    BY <1>1, <2>2
<1>3. \A u \in Urls : \A i \in Owed(u)' : At(payments[i], "persist")' \/ Kept(u)' = i
  BY <1>2
<1>4. (Typed => (TokenKept <=> \A u \in Urls : \A i \in Owed(u) :
                                  At(payments[i], "persist") \/ Kept(u) = i))'
  BY OwedIsKept, PTL
<1> QED
  BY <1>3, <1>4

LEMMA SameTokens ==
    ASSUME UNCHANGED <<payments, unpersisted, store, refused, lost>>
    PROVE  \A u : Owed(u)' = Owed(u) /\ Kept(u)' = Kept(u)
BY DEF Owed, Kept

\* A request that moves on and touches no token.
LEMMA MoveSameTokens ==
    ASSUME Typed, Typed', InTurn, NEW r \in Requests, Turn(r), ~At(r, "persist"),
           NEW place, Goto(r, place),
           UNCHANGED <<payments, unpersisted, store, refused, lost>>, Fits(r)'
    PROVE  InTurn'
<1>1. TokenKept'
  BY SameTokens, OwedHere, TokensOfUrl, ClientAssumption DEF Url
<1> QED
  BY <1>1, MoveInTurn DEF InTurn

\* A request that ends; what it knew no longer matters.
LEMMA EndInTurn ==
    ASSUME Typed, Typed', InTurn, NEW r \in Requests, Turn(r), ~At(r, "persist"),
           NEW place \in Outcomes, Goto(r, place),
           UNCHANGED <<payments, unpersisted, store, refused, lost>>
    PROVE  InTurn'
<1>1. pc'[r] = place
  BY DEF Typed, TypeOK, Goto
<1>2. Fits(r)'
  BY <1>1 DEF Fits, At, Outcomes
<1> QED
  BY <1>2, MoveSameTokens

\* What the store loses is owed no more; what is owed it still has.
LEMMA LossInTurn ==
    ASSUME Typed, Typed', InTurn, UNCHANGED <<pc, frame, payments, unpersisted, refused>>,
           lost' = lost \cup Gone
    PROVE  InTurn'
<1>1. \A u \in Urls : \A i \in Owed(u)' : i \in Owed(u) /\ <<u, i>> \notin Gone
  BY DEF Owed
<1>2. \A u \in DOMAIN store : \A i :
         store[u] = i /\ <<u, i>> \notin Gone => u \in DOMAIN store' /\ store'[u] = i
  BY DEF Gone
<1>3. \A u \in Urls : \A i \in Owed(u)' : Kept(u) = i => Kept(u)' = i
  <2>1. \A i \in DOMAIN payments : i # None
    BY ClientAssumption DEF Typed, TypeOK, IsMap, Tokens
  <2> SUFFICES ASSUME NEW u \in Urls, NEW i \in Owed(u)', Kept(u) = i PROVE Kept(u)' = i
    OBVIOUS
  <2>2. i # None /\ <<u, i>> \notin Gone
    BY <1>1, <2>1 DEF Owed
  <2>3. CASE u \in DOMAIN unpersisted
    BY <2>3 DEF Kept
  <2>4. CASE u \notin DOMAIN unpersisted
    <3>1. u \in DOMAIN store /\ store[u] = i
      BY <2>2, <2>4 DEF Kept
    <3>2. u \in DOMAIN store' /\ store'[u] = i
      BY <1>2, <2>2, <3>1
    <3> QED
      BY <2>4, <3>2 DEF Kept
  <2> QED
    BY <2>3, <2>4
<1>4. TokenKept'
  <2>1. \A u \in Urls : \A i \in Owed(u) : At(payments[i], "persist") \/ Kept(u) = i
    BY OwedIsKept DEF InTurn
  <2>2. \A u \in Urls : \A i \in Owed(u)' : At(payments[i], "persist")' \/ Kept(u)' = i
    BY <1>1, <1>3, <2>1 DEF At
  <2>3. (Typed => (TokenKept <=> \A u \in Urls : \A i \in Owed(u) :
                                    At(payments[i], "persist") \/ Kept(u) = i))'
    BY OwedIsKept, PTL
  <2> QED
    BY <2>2, <2>3
<1>5. ASSUME NEW r \in Requests PROVE Fits(r)'
  <2>1. Url(r) \in Urls /\ Fits(r) /\ Token(r)' = Token(r)
    BY ClientAssumption DEF InTurn, Url, Token
  <2>2. Owed(Url(r))' \subseteq Owed(Url(r))
    BY <1>1, <2>1
  <2>3. ASSUME At(r, "confirm"), Owed(Url(r))' # {}
        PROVE  Url(r) \in DOMAIN store' /\ store'[Url(r)] = Token(r)
    <3>1. PICK i : i \in Owed(Url(r))'
      BY <2>3
    <3>2. Turn(r) /\ ~At(r, "persist")
      BY <2>3 DEF InTurn, Alone, Turn, At, Idle, Outcomes
    <3>3. Kept(Url(r)) = i /\ <<Url(r), i>> \notin Gone
      BY <1>1, <2>1, <3>1, <3>2, OwedHere
    <3>4. Url(r) \in DOMAIN store /\ store[Url(r)] = Token(r) /\ Kept(Url(r)) = Token(r)
      BY <2>1, <2>2, <2>3 DEF Fits, At, Kept
    <3> QED
      BY <1>2, <3>3, <3>4
  <2> QED
    BY <2>1, <2>2, <2>3 DEF Fits, At
<1> QED
  BY <1>4, <1>5 DEF InTurn, Alone

LEMMA NextInTurn ==
    ASSUME ~Overlap, Typed, Typed', InTurn, [Next]_vars PROVE InTurn'
<1>0. ASSUME NEW r \in Requests, pc[r] \notin Idle
      PROVE  Turn(r) /\ Fits(r) /\ Url(r) \in Urls
  BY <1>0, ClientAssumption DEF InTurn, Alone, Turn, Url
<1>1. ASSUME NEW r \in Requests, Start(r) PROVE InTurn'
  <2>1. Turn(r)
    BY <1>1 DEF Start, Turn, Idle
  <2>2. /\ UNCHANGED <<payments, unpersisted, store, refused, lost>>
        /\ pc[r] = "start" /\ \A u : Kept(u)' = Kept(u)
    BY <1>1, SameTokens DEF Start, At, money, tokens
  <2>3. PICK place \in {"get", "auth"} :
          /\ Goto(r, place)
          /\ place = "get" => Url(r) \notin DOMAIN unpersisted
          /\ place = "auth" => Url(r) \in DOMAIN unpersisted
                                 /\ Holds(r, unpersisted[Url(r)])
    BY <1>1 DEF Start
  <2>4. pc'[r] = place
    BY <2>3 DEF Typed, TypeOK, Goto
  <2>5. place = "auth" => Owed(Url(r))' \subseteq {Token(r)'}
    <3>1. place = "auth" => Kept(Url(r)) = Token(r)'
      BY <2>3 DEF Holds, Kept, Token, Typed, TypeOK, Frame
    <3> QED
      BY <2>1, <2>2, <3>1, OwedHere, SameTokens, ClientAssumption DEF At, Url
  <2>6. Fits(r)'
    BY <2>2, <2>3, <2>4, <2>5 DEF Fits, At
  <2> QED
    BY <2>1, <2>2, <2>3, <2>6, MoveSameTokens DEF At
<1>2. ASSUME NEW r \in Requests, StoreGet(r) PROVE InTurn'
  <2>1. Turn(r) /\ Fits(r) /\ Url(r) \in Urls /\ pc[r] = "get"
    BY <1>0, <1>2 DEF StoreGet, At, Idle, Outcomes
  <2>2. /\ UNCHANGED <<payments, unpersisted, store, refused, lost>>
        /\ \A u : Kept(u)' = Kept(u) /\ Owed(u)' = Owed(u)
    BY <1>2, SameTokens DEF StoreGet, money, tokens
  <2>3. PICK place \in {"plain", "auth"} :
          /\ Goto(r, place)
          /\ place = "plain" => Url(r) \notin DOMAIN store
          /\ place = "auth" => Url(r) \in DOMAIN store /\ Holds(r, store[Url(r)])
    BY <1>2 DEF StoreGet
  <2>4. pc'[r] = place
    BY <2>3 DEF Typed, TypeOK, Goto
  <2>5. place = "auth" => Owed(Url(r))' \subseteq {Token(r)'}
    <3>1. place = "auth" => Kept(Url(r)) = Token(r)'
      BY <2>1, <2>3 DEF Holds, Kept, Token, Typed, TypeOK, Frame, Fits, At
    <3> QED
      BY <2>1, <2>2, <3>1, OwedHere DEF At
  <2>6. place = "plain" => Owed(Url(r)) = {}
    <3>1. place = "plain" => Kept(Url(r)) = None
      BY <2>1, <2>3 DEF Kept, Fits, At
    <3>2. \A i \in Owed(Url(r)) : Kept(Url(r)) = i /\ i # None
      BY <2>1, OwedHere, ClientAssumption DEF At, Owed, Typed, TypeOK, IsMap, Tokens
    <3> QED
      BY <3>1, <3>2
  <2>7. Fits(r)'
    BY <2>2, <2>4, <2>5, <2>6 DEF Fits, At
  <2> QED
    BY <2>1, <2>2, <2>3, <2>7, MoveSameTokens DEF At
<1>3. ASSUME NEW r \in Requests, AuthServed(r) PROVE InTurn'
  BY <1>0, <1>3, EndInTurn DEF AuthServed, At, Idle, Outcomes, money, tokens
<1>4. ASSUME NEW r \in Requests, AuthRefused(r) PROVE InTurn'
  <2>1. Turn(r) /\ Fits(r) /\ Url(r) \in Urls /\ pc[r] = "auth"
    BY <1>0, <1>4 DEF AuthRefused, At, Idle, Outcomes
  <2>2. pc'[r] = "remove"
    BY <1>4 DEF AuthRefused, Typed, TypeOK, Goto
  <2>3. \A u \in Urls : Owed(u)' = Owed(u) \ {Token(r)}
    BY <1>4 DEF AuthRefused, Owed, money
  <2>4. Owed(Url(r))' = {}
    BY <2>1, <2>3, OwedHere DEF Fits, At
  <2>5. \A u \in Urls \ {Url(r)} : Kept(u)' = Kept(u)
    BY <1>4 DEF AuthRefused, Kept, Without
  <2>6. TokenKept'
    BY <2>1, <2>3, <2>4, <2>5, TokensOfUrl
  <2>7. Fits(r)'
    BY <2>2, <2>4 DEF Fits, At
  <2> QED
    BY <1>4, <2>1, <2>6, <2>7, MoveInTurn DEF AuthRefused, InTurn
<1>5. ASSUME NEW r \in Requests, StoreRemove(r) \/ StoreDrop(r) PROVE InTurn'
  <2>1. Turn(r) /\ Fits(r) /\ Url(r) \in Urls /\ pc[r] \in {"remove", "drop"}
    BY <1>0, <1>5 DEF StoreRemove, StoreDrop, At, Idle, Outcomes
  <2>2. PICK place \in {"plain", "failed"} : Goto(r, place)
    BY <1>5 DEF StoreRemove, StoreDrop
  <2>3. pc'[r] = place
    BY <2>2 DEF Typed, TypeOK, Goto
  <2>4. \A u \in Urls : Owed(u)' = Owed(u)
    BY <1>5 DEF StoreRemove, StoreDrop, Owed, money
  <2>5. Owed(Url(r))' = {}
    BY <2>1, <2>4 DEF Fits
  <2>6. \A u \in Urls \ {Url(r)} : Kept(u)' = Kept(u)
    BY <1>5 DEF StoreRemove, StoreDrop, Kept, Without
  <2>7. TokenKept'
    BY <2>1, <2>4, <2>5, <2>6, TokensOfUrl
  <2>8. Fits(r)'
    BY <2>3, <2>5 DEF Fits, At
  <2> QED
    BY <1>5, <2>1, <2>2, <2>7, <2>8, MoveInTurn DEF StoreRemove, StoreDrop, InTurn
<1>6. ASSUME NEW r \in Requests, PlainServed(r) PROVE InTurn'
  BY <1>0, <1>6, EndInTurn DEF PlainServed, At, Idle, Outcomes, money, tokens
<1>7. ASSUME NEW r \in Requests, NEW i \in Invoices, ReuseProof(r, i) PROVE InTurn'
  <2>1. Turn(r) /\ Fits(r) /\ pc[r] = "plain"
    BY <1>0, <1>7 DEF ReuseProof, Challenged, At, Idle, Outcomes
  <2>2. pc'[r] = "persist"
    BY <1>7 DEF ReuseProof, Typed, TypeOK, Goto
  <2>3. UNCHANGED <<payments, unpersisted, store, refused, lost>>
    BY <1>7 DEF ReuseProof, money, tokens
  <2>4. Owed(Url(r))' = {}
    BY <2>1, <2>3, SameTokens DEF Fits
  <2>5. Fits(r)'
    BY <2>2, <2>4 DEF Fits, At
  <2> QED
    BY <1>7, <2>1, <2>3, <2>5, MoveSameTokens DEF ReuseProof, At
<1>8. ASSUME NEW r \in Requests, NEW i \in Invoices, DeclineToPay(r, i) PROVE InTurn'
  BY <1>0, <1>8, EndInTurn DEF DeclineToPay, Challenged, At, Idle, Outcomes, money, tokens
<1>9. ASSUME NEW r \in Requests, NEW i \in Invoices, Submit(r, i) PROVE InTurn'
  <2>1. Turn(r) /\ Fits(r) /\ Url(r) \in Urls /\ pc[r] = "plain"
    BY <1>0, <1>9 DEF Submit, Challenged, At, Idle, Outcomes
  <2>2. pc'[r] = "pay" /\ UNCHANGED <<unpersisted, store, refused, lost>>
    BY <1>9 DEF Submit, Typed, TypeOK, Goto, tokens
  <2>3. i \notin DOMAIN payments /\ payments' = With(payments, i, None)
    BY <1>9 DEF Submit
  <2>4. \A u \in Urls : Owed(u)' = Owed(u) /\ Kept(u)' = Kept(u)
    BY <2>2, <2>3 DEF Owed, Kept, With
  <2>5. Owed(Url(r))' = {}
    BY <2>1, <2>4 DEF Fits
  <2>6. TokenKept'
    BY <2>1, <2>4, <2>5, TokensOfUrl
  <2>7. Fits(r)'
    BY <2>2, <2>5 DEF Fits, At
  <2> QED
    BY <1>9, <2>1, <2>2, <2>6, <2>7, MoveInTurn DEF Submit, InTurn
<1>10. ASSUME NEW r \in Requests, PayOk(r) PROVE InTurn'
  <2>1. Turn(r) /\ Fits(r) /\ pc[r] = "pay"
    BY <1>0, <1>10 DEF PayOk, At, Idle, Outcomes
  <2>2. pc'[r] = "settle" /\ frame'[r].receipt = r
    BY <1>10 DEF PayOk, Typed, TypeOK, Goto
  <2>3. UNCHANGED <<payments, unpersisted, store, refused, lost>>
    BY <1>10 DEF PayOk, tokens
  <2>4. Owed(Url(r))' = {}
    BY <2>1, <2>3, SameTokens DEF Fits
  <2>5. Fits(r)'
    BY <2>2, <2>4 DEF Fits, At
  <2> QED
    BY <1>10, <2>1, <2>3, <2>5, MoveSameTokens DEF PayOk, At
<1>11. ASSUME NEW r \in Requests, PayRejected(r) PROVE InTurn'
  <2>1. Turn(r) /\ Fits(r) /\ pc[r] = "pay"
    BY <1>0, <1>11 DEF PayRejected, At, Idle, Outcomes
  <2>2. pc'[r] = "forget"
    BY <1>11 DEF PayRejected, Typed, TypeOK, Goto
  <2>3. UNCHANGED <<payments, unpersisted, store, refused, lost>>
    BY <1>11 DEF PayRejected, tokens
  <2>4. Owed(Url(r))' = {}
    BY <2>1, <2>3, SameTokens DEF Fits
  <2>5. Fits(r)'
    BY <2>2, <2>4 DEF Fits, At
  <2> QED
    BY <1>11, <2>1, <2>3, <2>5, MoveSameTokens DEF PayRejected, At
<1>12. ASSUME NEW r \in Requests, PayUnknown(r) PROVE InTurn'
  BY <1>0, <1>12, EndInTurn DEF PayUnknown, At, Idle, Outcomes, money, tokens
<1>13. ASSUME NEW r \in Requests, Forget(r) PROVE InTurn'
  <2>1. Turn(r) /\ Fits(r) /\ Url(r) \in Urls /\ pc[r] = "forget"
    BY <1>0, <1>13 DEF Forget, At, Idle, Outcomes
  <2>2. pc'[r] = "failed" /\ UNCHANGED <<unpersisted, store, refused, lost>>
    BY <1>13 DEF Forget, Typed, TypeOK, Goto, tokens
  <2>3. \A u \in Urls : Owed(u)' \subseteq Owed(u) /\ Kept(u)' = Kept(u)
    BY <1>13, <2>2 DEF Forget, Owed, Kept, Without
  <2>4. TokenKept'
    BY <2>1, <2>3, TokensOfUrl DEF Fits
  <2>5. Fits(r)'
    BY <2>2 DEF Fits, At
  <2> QED
    BY <1>13, <2>1, <2>2, <2>4, <2>5, MoveInTurn DEF Forget, InTurn
<1>14. ASSUME NEW r \in Requests, SettlePayment(r) PROVE InTurn'
  <2>1. Turn(r) /\ Fits(r) /\ pc[r] = "settle"
    BY <1>0, <1>14 DEF SettlePayment, At, Idle, Outcomes
  <2>2. PICK place \in {"violated", "record"} : Goto(r, place)
    BY <1>14 DEF SettlePayment
  <2>3. pc'[r] = place /\ frame' = frame
    BY <1>14, <2>2 DEF SettlePayment, Typed, TypeOK, Goto
  <2>4. UNCHANGED <<payments, unpersisted, store, refused, lost>>
    BY <1>14 DEF SettlePayment, tokens
  <2>5. Owed(Url(r))' = {}
    BY <2>1, <2>4, SameTokens DEF Fits
  <2>6. Fits(r)'
    BY <2>1, <2>3, <2>5 DEF Fits, At
  <2> QED
    BY <2>1, <2>2, <2>4, <2>6, MoveSameTokens DEF At
<1>15. ASSUME NEW r \in Requests, RecordPayment(r) PROVE InTurn'
  <2>1. Turn(r) /\ Fits(r) /\ Url(r) \in Urls /\ pc[r] = "record"
    BY <1>0, <1>15 DEF RecordPayment, At, Idle, Outcomes
  <2>2. /\ pc'[r] = "persist"
        /\ UNCHANGED <<frame, unpersisted, store, refused, lost>>
    BY <1>15 DEF RecordPayment, Typed, TypeOK, Goto, tokens
  <2>3. payments' = With(payments, Token(r), r)
    BY <1>15, <2>1 DEF RecordPayment, Fits
  <2>4. /\ payments'[Token(r)] = r
        /\ \A i \in DOMAIN payments' \ {Token(r)} :
              i \in DOMAIN payments /\ payments'[i] = payments[i]
    BY <2>3 DEF With
  <2>5. \A u \in Urls : /\ Kept(u)' = Kept(u)
                        /\ \A i \in Owed(u)' : \/ i \in Owed(u)
                                               \/ i = Token(r) /\ u = Url(r)
    BY <2>2, <2>4 DEF Owed, Kept
  <2>6. \A i \in Owed(Url(r))' : i = Token(r) /\ payments'[i] = r
    BY <2>1, <2>4, <2>5 DEF Fits
  <2>7. TokenKept'
    BY <2>1, <2>2, <2>5, <2>6, TokensOfUrl DEF At
  <2>8. Fits(r)'
    BY <2>2, <2>6 DEF Fits, At, Token
  <2> QED
    BY <1>15, <2>1, <2>2, <2>7, <2>8, MoveInTurn DEF RecordPayment, InTurn
<1>16. ASSUME NEW r \in Requests, Persist(r) PROVE InTurn'
  <2>1. Turn(r) /\ Fits(r) /\ Url(r) \in Urls /\ pc[r] = "persist"
    BY <1>0, <1>16 DEF Persist, At, Idle, Outcomes
  <2>2. pc'[r] = "put" /\ UNCHANGED <<frame, payments, store, refused>>
    BY <1>16 DEF Persist, Typed, TypeOK, Goto, money
  <2>3. /\ Url(r) \in DOMAIN unpersisted'
        /\ Kept(Url(r))' = Token(r)
        /\ unpersisted'[Url(r)] = Token(r)
        /\ \A u \in Urls \ {Url(r)} : Kept(u)' = Kept(u)
    BY <1>16 DEF Persist, Kept, With
  <2>4. \A u \in Urls : \A i \in Owed(u)' : i \in Owed(u) \/ (u = Url(r) /\ i = Token(r))
    BY <1>16, <2>2 DEF Persist, Owed
  <2>5. TokenKept'
    BY <2>1, <2>3, <2>4, TokensOfUrl DEF Fits, At
  <2>6. Fits(r)'
    BY <2>2, <2>3 DEF Fits, At, Token
  <2> QED
    BY <1>16, <2>1, <2>2, <2>5, <2>6, MoveInTurn DEF Persist, InTurn
<1>17. ASSUME NEW r \in Requests, StorePut(r) PROVE InTurn'
  <2>1. Turn(r) /\ Fits(r) /\ Url(r) \in Urls /\ pc[r] = "put"
    BY <1>0, <1>17 DEF StorePut, At, Idle, Outcomes
  <2>2. pc'[r] = "confirm" /\ UNCHANGED <<frame, payments, unpersisted, refused>>
    BY <1>17 DEF StorePut, Typed, TypeOK, Goto, money
  <2>3. /\ store' = With(store, Url(r), Token(r))
        /\ Url(r) \in DOMAIN unpersisted /\ unpersisted[Url(r)] = Token(r)
        /\ Kept(Url(r)) = Token(r)
    BY <1>17, <2>1 DEF StorePut, Fits, Kept
  <2>4. /\ Url(r) \in DOMAIN store' /\ store'[Url(r)] = Token(r)
        /\ \A u \in Urls : Kept(u)' = Kept(u)
    BY <2>2, <2>3 DEF Kept, With
  <2>5. \A u \in Urls : \A i \in Owed(u)' : i \in Owed(u) \/ (u = Url(r) /\ i = Token(r))
    BY <1>17, <2>2 DEF StorePut, Owed
  <2>6. TokenKept'
    BY <2>1, <2>3, <2>4, <2>5, OwedHere, TokensOfUrl DEF At
  <2>7. Fits(r)'
    BY <2>1, <2>2, <2>3, <2>4 DEF Fits, At, Token
  <2> QED
    BY <1>17, <2>1, <2>2, <2>6, <2>7, MoveInTurn DEF StorePut, InTurn
<1>18. ASSUME NEW r \in Requests, Confirm(r) PROVE InTurn'
  <2>1. Turn(r) /\ Fits(r) /\ Url(r) \in Urls /\ pc[r] = "confirm"
    BY <1>0, <1>18 DEF Confirm, At, Idle, Outcomes
  <2>2. pc'[r] = "retry" /\ UNCHANGED <<frame, payments, store, refused, lost>>
    BY <1>18 DEF Confirm, Typed, TypeOK, Goto, money
  <2>3. /\ Kept(Url(r)) = Token(r)
        /\ Owed(Url(r)) = {} \/ (Url(r) \in DOMAIN store /\ store[Url(r)] = Token(r))
        /\ unpersisted' = Without(unpersisted, Url(r))
    BY <1>18, <2>1 DEF Confirm, Fits, At, Kept
  <2>4. /\ \A u \in Urls \ {Url(r)} : Kept(u)' = Kept(u)
        /\ Owed(Url(r)) # {} => Kept(Url(r))' = Token(r)
    BY <2>2, <2>3 DEF Kept, Without
  <2>5. \A u \in Urls : Owed(u)' = Owed(u)
    BY <2>2 DEF Owed
  <2>8. Owed(Url(r)) \subseteq {Token(r)}
    BY <2>1, <2>3, OwedHere DEF At
  <2>6. TokenKept'
    BY <2>1, <2>4, <2>5, <2>8, TokensOfUrl DEF At
  <2>7. Fits(r)'
    BY <2>1, <2>2, <2>5, <2>8 DEF Fits, At, Token
  <2> QED
    BY <1>18, <2>1, <2>2, <2>6, <2>7, MoveInTurn DEF Confirm, InTurn
<1>19. ASSUME NEW r \in Requests, RetryServed(r) PROVE InTurn'
  BY <1>0, <1>19, EndInTurn DEF RetryServed, At, Idle, Outcomes, tokens
<1>20. ASSUME NEW r \in Requests, RetryRefused(r) PROVE InTurn'
  <2>1. Turn(r) /\ Fits(r) /\ Url(r) \in Urls /\ pc[r] = "retry"
    BY <1>0, <1>20 DEF RetryRefused, At, Idle, Outcomes
  <2>2. pc'[r] = "drop"
    BY <1>20 DEF RetryRefused, Typed, TypeOK, Goto
  <2>3. \A u \in Urls : Owed(u)' = Owed(u) \ {Token(r)}
    BY <1>20 DEF RetryRefused, Owed
  <2>4. Owed(Url(r))' = {}
    BY <2>1, <2>3, OwedHere DEF Fits, At
  <2>5. \A u \in Urls \ {Url(r)} : Kept(u)' = Kept(u)
    BY <1>20 DEF RetryRefused, Kept, Without
  <2>6. TokenKept'
    BY <2>1, <2>3, <2>4, <2>5, TokensOfUrl
  <2>7. Fits(r)'
    BY <2>2, <2>4 DEF Fits, At
  <2> QED
    BY <1>20, <2>1, <2>6, <2>7, MoveInTurn DEF RetryRefused, InTurn
<1>21. ASSUME NEW r \in Requests, HttpFails(r) \/ StoreFails(r) PROVE InTurn'
  <2>1. PICK place \in {"failed", "unstored"} : Goto(r, place)
    BY <1>21 DEF HttpFails, StoreFails
  <2>2. pc[r] \notin Idle /\ ~At(r, "persist")
    BY <1>21 DEF HttpFails, StoreFails, Idle, Outcomes, At
  <2> QED
    BY <1>0, <1>21, <2>1, <2>2, EndInTurn DEF HttpFails, StoreFails, Outcomes, money, tokens
<1>22. ASSUME NEW r \in Requests, Cancel(r) PROVE InTurn'
  <2>1. pc[r] \notin Idle /\ ~At(r, "persist")
    BY <1>22 DEF Cancel, Awaits, Idle, Outcomes, At
  <2> QED
    BY <1>0, <1>22, <2>1, EndInTurn DEF Cancel, Outcomes, money
<1>23. ASSUME UNCHANGED <<pc, frame, payments, tokens>> PROVE InTurn'
  <2>1. \A u : Owed(u)' = Owed(u) /\ Kept(u)' = Kept(u)
    BY <1>23, SameTokens DEF tokens
  <2>2. TokenKept'
    BY <1>23, <2>1 DEF TokenKept, At, InTurn, tokens
  <2>3. \A r \in Requests : Fits(r)'
    BY <1>23, <2>1 DEF Fits, At, Token, InTurn, tokens
  <2> QED
    BY <1>23, <2>2, <2>3 DEF InTurn, Alone, tokens
<1>24. ASSUME NEW r \in Requests, WalletPays(r) \/ WalletFails(r) PROVE InTurn'
  BY <1>23, <1>24 DEF WalletPays, WalletFails, Answers
<1>25. ASSUME \/ \E c \in late : Land(c)
              \/ \E u \in Urls : StoreLoses(u)
       PROVE  InTurn'
  BY <1>25, LossInTurn DEF Land, StoreLoses, money
<1>26. ASSUME UNCHANGED vars PROVE InTurn'
  BY <1>23, <1>26 DEF vars, money
<1> QED
  BY <1>1, <1>2, <1>3, <1>4, <1>5, <1>6, <1>7, <1>8, <1>9, <1>10, <1>11, <1>12, <1>13,
     <1>14, <1>15, <1>16, <1>17, <1>18, <1>19, <1>20, <1>21, <1>22, <1>24, <1>25, <1>26
     DEF Next, Step

\* Requests that are made one after another do not lose a token that was paid
\* for and that no server has refused: whatever else fails or is cancelled, the
\* next request for the url starts with it.  That is so over any store, one that
\* evicts or expires tokens and whose dropped calls land late included, of the
\* tokens that the store has not itself lost in one of these ways.
THEOREM PaidTokenKept ==
    ASSUME ~Overlap PROVE Spec => []TokenKept
<1>1. Init => Typed /\ InTurn
  BY InitTyped, InitInTurn
<1>2. (Typed /\ [Next]_vars => Typed') /\ (Typed /\ Typed' /\ InTurn /\ [Next]_vars => InTurn')
  BY NextTyped, NextInTurn
<1>3. InTurn => TokenKept
  BY DEF InTurn
<1> QED
  BY <1>1, <1>2, <1>3, PTL DEF Spec
===============================================================================
