--------------------------- MODULE PurchaseProofs ---------------------------
(***************************************************************************)
(* Payments implements Purchase, for every number of players, quests,      *)
(* coupons, payments and concurrent handlers: the invariant of             *)
(* PaymentsProofs says enough of what a handler holds to map each of its   *)
(* steps to a step of Purchase or to none.                                 *)
(***************************************************************************)
EXTENDS PaymentsProofs

\* What is seen from outside does not change.
Unseen == UNCHANGED <<rows, remote, grants>>

LEMMA UnseenStutters ==
  ASSUME UNCHANGED grants, \A p \in PaymentIds : OrderOf(p)' = OrderOf(p)
  PROVE  UNCHANGED Promise!vars
<1>1. [p \in PaymentIds |-> OrderOf(p)]' = [p \in PaymentIds |-> OrderOf(p)]
  OBVIOUS
<1>2. {AccessOf(g) : g \in grants}' = {AccessOf(g) : g \in grants}
  BY DEF AccessOf
<1> QED BY <1>1, <1>2 DEF Promise!vars

\* A row that settles, or a gateway payment without a row, is not seen.
LEMMA SameOrder ==
  ASSUME NEW p \in PaymentIds,
         rows'[p] # None <=> rows[p] # None,
         rows[p] # None => /\ rows'[p].user = rows[p].user /\ rows'[p].quest = rows[p].quest
                           /\ remote'[p] = remote[p]
  PROVE  OrderOf(p)' = OrderOf(p)
BY DEF OrderOf

LEMMA UnseenStep ==
  ASSUME Unseen
  PROVE  UNCHANGED Promise!vars
<1>1. \A p \in PaymentIds : OrderOf(p)' = OrderOf(p)
  BY DEF Unseen, OrderOf
<1> QED BY <1>1, UnseenStutters DEF Unseen

\* An order that one step changes is the only one it changes.
LEMMA OrdersExcept ==
  ASSUME NEW p \in PaymentIds, NEW STATE o,
         OrderOf(p)' = o, \A x \in PaymentIds \ {p} : OrderOf(x)' = OrderOf(x)
  PROVE  [x \in PaymentIds |-> OrderOf(x)]' = [[x \in PaymentIds |-> OrderOf(x)] EXCEPT ![p] = o]
OBVIOUS

\* create_payment opens a payment that has no row yet.
LEMMA CreatePaymentUnseen ==
  ASSUME IInv, NEW r \in Requests, CreatePayment(r)
  PROVE  UNCHANGED Promise!vars
<1>1. PICK p \in PaymentIds : remote[p] = "none" /\ remote' = [remote EXCEPT ![p] = "pending"]
  BY DEF CreatePayment
<1>2. rows[p] = None /\ UNCHANGED <<rows, grants>>
  BY <1>1 DEF IInv, RowsFollowGateway, CreatePayment, ledger
<1>3. \A x \in PaymentIds : OrderOf(x)' = OrderOf(x)
  BY <1>1, <1>2, SameOrder DEF IInv, TypeOK
<1> QED BY <1>2, <1>3, UnseenStutters

\* The row is the moment the buyer is asked.
LEMMA InsertRowAsks ==
  ASSUME IInv, NEW r \in Requests, InsertRow(r)
  PROVE  Promise!Next
<1>1. PICK p \in PaymentIds, u \in Users, q \in Quests :
        /\ p = job[r].pay /\ u = job[r].user /\ q = job[r].quest
        /\ rows[p] = None /\ remote[p] = "pending"
        /\ job[r].charge \in 1 .. job[r].price /\ job[r].price \in Positive
        /\ job[r].code \in Codes \cup {None}
  BY DEF InsertRow, IInv, TypeOK, JobType, Fit, FitCheckout, CheckoutPcs
<1> DEFINE row == [user |-> u, quest |-> q, code |-> job[r].code,
                   amount |-> job[r].charge, price |-> job[r].price, status |-> "pending"]
           o == [user |-> u, quest |-> q, state |-> "open"]
<1>2. row \in RowType
  BY <1>1 DEF RowType, Statuses, Positive
<1>3. row # None /\ row.user = u /\ row.quest = q
  BY <1>2, NoneAssumption
<1>4. rows' = [rows EXCEPT ![p] = row] /\ UNCHANGED <<grants, remote>>
  BY <1>1 DEF InsertRow
<1> HIDE DEF row
<1>5. rows'[p] = row /\ \A x \in PaymentIds \ {p} : rows'[x] = rows[x]
  BY <1>4 DEF IInv, TypeOK
<1>6. OrderOf(p)' = o /\ OrderOf(p) = None
  BY <1>1, <1>3, <1>4, <1>5 DEF OrderOf
<1>7. \A x \in PaymentIds \ {p} : OrderOf(x)' = OrderOf(x)
  BY <1>4, <1>5 DEF OrderOf
<1>8. [x \in PaymentIds |-> OrderOf(x)]' = [[x \in PaymentIds |-> OrderOf(x)] EXCEPT ![p] = o]
  <2> HIDE DEF o
  <2> QED BY <1>6, <1>7, OrdersExcept
<1>9. {AccessOf(g) : g \in grants}' = {AccessOf(g) : g \in grants}
  BY <1>4 DEF AccessOf
<1>10. Promise!Ask(p, u, q)
  BY <1>6, <1>8, <1>9 DEF Promise!Ask
<1> QED BY <1>10 DEF Promise!Next

\* A settled row says what the gateway said already.
LEMMA SettledUnseen ==
  ASSUME IInv, NEW r \in Requests, SettleSucceeded(r) \/ MarkCanceled(r)
  PROVE  UNCHANGED Promise!vars
<1> DEFINE p == job[r].pay
<1>1. FitSettle(r)
  BY DEF IInv, Fit, SettleSucceeded, MarkCanceled, SettlePcs
<1>2. PICK status \in Final :
        /\ remote[p] = status
        /\ \/ UNCHANGED rows
           \/ rows[p].status = "pending" /\ rows' = [rows EXCEPT ![p].status = status]
  BY <1>1 DEF FitSettle, SettleSucceeded, MarkCanceled, Final
<1>3. p \in PaymentIds /\ rows[p] # None /\ UNCHANGED <<remote, grants>>
  BY <1>1 DEF FitSettle, SettleSucceeded, MarkCanceled
<1>4. \A x \in PaymentIds : /\ rows'[x] # None <=> rows[x] # None
                            /\ rows'[x].user = rows[x].user
                            /\ rows'[x].quest = rows[x].quest
  <2> HIDE DEF p
  <2> QED BY <1>2, <1>3, RowSettled
<1>5. \A x \in PaymentIds : OrderOf(x)' = OrderOf(x)
  BY <1>3, <1>4, SameOrder
<1> QED BY <1>3, <1>5, UnseenStutters

\* The end of a payment is the end of its order, if it has one.
LEMMA GatewayEnds ==
  ASSUME IInv, NEW p \in PaymentIds, PayerPays(p) \/ GatewayCancels(p)
  PROVE  [Promise!Next]_(Promise!vars)
<1>1. PICK status \in Final : remote[p] = "pending" /\ remote' = [remote EXCEPT ![p] = status]
  BY DEF PayerPays, GatewayCancels, Final
<1>2. UNCHANGED <<rows, grants>>
  BY DEF PayerPays, GatewayCancels, ledger
<1>3. remote'[p] = status /\ \A x \in PaymentIds \ {p} : remote'[x] = remote[x]
  BY <1>1 DEF IInv, TypeOK
<1>4. \A x \in PaymentIds \ {p} : OrderOf(x)' = OrderOf(x)
  BY <1>2, <1>3, SameOrder
<1>5. CASE rows[p] = None
  <2>1. OrderOf(p)' = OrderOf(p)
    BY <1>2, <1>5, SameOrder
  <2> QED BY <1>2, <1>4, <2>1, UnseenStutters
<1>6. CASE rows[p] # None
  <2> DEFINE state == IF status = "succeeded" THEN "paid" ELSE "void"
             open == [user |-> rows[p].user, quest |-> rows[p].quest, state |-> "open"]
             done == [user |-> rows[p].user, quest |-> rows[p].quest, state |-> state]
  <2>1. rows[p] \in RowType
    BY <1>6 DEF IInv, TypeOK
  <2>2. OrderOf(p) = open /\ OrderOf(p)' = done
    BY <1>1, <1>2, <1>3, <1>6 DEF OrderOf, Final
  <2>3. open # None
    <3>1. rows[p].user \in Users /\ rows[p].quest \in Quests
      BY <2>1 DEF RowType
    <3> QED BY <3>1, OrderAssumption
  <2>4. done = [open EXCEPT !.state = state] /\ open.state = "open"
    OBVIOUS
  <2>5. [x \in PaymentIds |-> OrderOf(x)]' = [[x \in PaymentIds |-> OrderOf(x)] EXCEPT ![p] = done]
    <3> HIDE DEF done
    <3> QED BY <1>4, <2>2, OrdersExcept
  <2>6. {AccessOf(g) : g \in grants}' = {AccessOf(g) : g \in grants}
    BY <1>2 DEF AccessOf
  <2>7. Promise!End(p, state)
    BY <2>2, <2>3, <2>4, <2>5, <2>6 DEF Promise!End
  <2> QED BY <2>7 DEF Promise!Next
<1> QED BY <1>5, <1>6

\* create_grant_idemp delivers the payment it names, gives, or finds access there.
LEMMA CreateGrantDelivers ==
  ASSUME IInv, NEW r \in Requests, CreateGrant(r)
  PROVE  [Promise!Next]_(Promise!vars)
<1>1. FitGrant(r) /\ job[r] \in JobType
  BY DEF IInv, TypeOK, CreateGrant, Fit
<1>2. PICK u \in Users, q \in Quests, ref \in PaymentIds \cup {"mock", None} :
        u = job[r].user /\ q = job[r].quest /\ ref = job[r].ref
  BY <1>1 DEF FitGrant, JobType
<1> DEFINE g == [user |-> u, quest |-> q, source |-> job[r].source, ref |-> ref]
           a == [user |-> u, quest |-> q, by |-> IF ref \in PaymentIds THEN ref ELSE None]
<1>3. /\ grants' = IF Owns(u, q) THEN grants ELSE grants \cup {g}
      /\ UNCHANGED <<rows, remote>>
  BY <1>2 DEF CreateGrant
<1>4. \A p \in PaymentIds : OrderOf(p)' = OrderOf(p)
  BY <1>3 DEF OrderOf
<1>5. CASE Owns(u, q)
  BY <1>3, <1>4, <1>5, UnseenStutters
<1>6. CASE ~Owns(u, q)
  <2> DEFINE access == {AccessOf(h) : h \in grants}
  <2>1. ~Promise!MayPlay(u, q)
    BY <1>6 DEF Promise!MayPlay, Owns, AccessOf
  <2>2. AccessOf(g) = a
    BY DEF AccessOf
  <2>3. grants' = grants \cup {g}
    BY <1>3, <1>6
  <2>4. {AccessOf(h) : h \in grants}' = access \cup {a}
    <3> HIDE DEF g, a
    <3>1. {AccessOf(h) : h \in grants}' = {AccessOf(h) : h \in grants'}
      BY DEF AccessOf
    <3> QED BY <2>2, <2>3, <3>1
  <2>5. [p \in PaymentIds |-> OrderOf(p)]' = [p \in PaymentIds |-> OrderOf(p)]
    BY <1>4
  <2>6. CASE ref \in PaymentIds
    <3>1. /\ rows[ref] # None /\ rows[ref].status = "succeeded" /\ remote[ref] = "succeeded"
          /\ rows[ref].user = u /\ rows[ref].quest = q
      BY <1>1, <1>2, <2>6 DEF FitGrant, IInv, RowsFollowGateway
    <3>2. OrderOf(ref) = [user |-> u, quest |-> q, state |-> "paid"]
      BY <3>1 DEF OrderOf
    <3>3. Promise!Admit(u, q, ref)
      BY <2>1, <2>4, <2>5, <2>6 DEF Promise!Admit
    <3>4. Promise!Deliver(ref)
      BY <2>6, <3>2, <3>3, OrderAssumption DEF Promise!Deliver
    <3> QED BY <2>6, <3>4 DEF Promise!Next
  <2>7. CASE ref \notin PaymentIds
    <3>1. Promise!Admit(u, q, None)
      BY <2>1, <2>4, <2>5, <2>7 DEF Promise!Admit
    <3> QED BY <3>1 DEF Promise!Next, Promise!Give
  <2> QED BY <2>6, <2>7
<1> QED BY <1>5, <1>6

\* Access goes with the account.
LEMMA DeleteAccountLeaves ==
  ASSUME IInv, NEW u \in Users, DeleteAccount(u)
  PROVE  Promise!Next
<1>1. grants' = {g \in grants : g.user # u} /\ UNCHANGED <<rows, remote>>
  BY DEF DeleteAccount
<1>2. {AccessOf(g) : g \in grants}' = {AccessOf(g) : g \in grants'}
  BY DEF AccessOf
<1>3. \A g \in grants : AccessOf(g).user = g.user
  BY DEF AccessOf
<1>4. {AccessOf(g) : g \in grants}' = {a \in {AccessOf(g) : g \in grants} : a.user # u}
  BY <1>1, <1>2, <1>3
<1>5. [p \in PaymentIds |-> OrderOf(p)]' = [p \in PaymentIds |-> OrderOf(p)]
  BY <1>1 DEF OrderOf
<1>6. Promise!Leave(u)
  BY <1>4, <1>5 DEF Promise!Leave
<1> QED BY <1>6 DEF Promise!Next

-----------------------------------------------------------------------------
\* Every step of the handlers and of the world is a step of Purchase or none.
LEMMA StepKeepsPromise == IInv /\ [Next]_vars => [Promise!Next]_(Promise!vars)
<1> SUFFICES ASSUME IInv, [Next]_vars PROVE [Promise!Next]_(Promise!vars)
  OBVIOUS
<1>1. CASE \E r \in Requests : Checkout(r)
  <2>1. PICK r \in Requests : Checkout(r)
    BY <1>1
  <2>2. CASE CreatePayment(r)
    BY <2>2, CreatePaymentUnseen
  <2>3. CASE InsertRow(r)
    BY <2>3, InsertRowAsks
  <2>4. CASE ~CreatePayment(r) /\ ~InsertRow(r)
    <3>1. Unseen
      BY <2>1, <2>4 DEF Checkout, Unseen, StartCheckout, GetPublished, QuoteGift,
         RequireProvider, RedeemAtCheckout, ReuseOpenPayment, QuoteCharge, CreateFails, ledger
    <3> QED BY <3>1, UnseenStep
  <2> QED BY <2>2, <2>3, <2>4
<1>2. CASE \E r \in Requests : Settle(r)
  <2>1. PICK r \in Requests : Settle(r)
    BY <1>2
  <2>2. CASE SettleSucceeded(r) \/ MarkCanceled(r)
    BY <2>2, SettledUnseen
  <2>3. CASE CreateGrant(r)
    BY <2>3, CreateGrantDelivers
  <2>4. CASE ~SettleSucceeded(r) /\ ~MarkCanceled(r) /\ ~CreateGrant(r)
    <3>1. Unseen
      BY <2>1, <2>4 DEF Settle, Unseen, Poll, Webhook, LoadRow, FetchRemote, RedeemHeld,
         TellStatus, ledger
    <3> QED BY <3>1, UnseenStep
  <2> QED BY <2>2, <2>3, <2>4
<1>3. CASE \E r \in Requests : Abort(r)
  BY <1>3, UnseenStep DEF Abort, Unseen, ledger
<1>4. CASE World
  <2>1. CASE \E p \in PaymentIds : PayerPays(p) \/ GatewayCancels(p)
    BY <2>1, GatewayEnds
  <2>2. CASE \E u \in Users : DeleteAccount(u)
    BY <2>2, DeleteAccountLeaves
  <2>3. CASE ~(\E p \in PaymentIds : PayerPays(p) \/ GatewayCancels(p))
             /\ ~(\E u \in Users : DeleteAccount(u))
    <3>1. Unseen
      BY <1>4, <2>3 DEF World, Unseen, WebhookUnknown, SetPrice, DeleteCoupon, SaveCoupon,
         Toggle, NextDay, ledger
    <3> QED BY <3>1, UnseenStep
  <2> QED BY <2>1, <2>2, <2>3
<1>5. CASE UNCHANGED vars
  BY <1>5, UnseenStep DEF vars, Unseen
<1> QED BY <1>1, <1>2, <1>3, <1>4, <1>5 DEF Next

\* Checkout and settle implement Purchase: access comes from a paid order of that
\* buyer for that quest or as a gift, once, and goes with the account only, whatever
\* retries, races and deaths of handlers come in between.
THEOREM PromiseAlwaysKept == Spec => KeepsPromise
<1>1. Init => Promise!Init
  BY DEF Init, Promise!Init, OrderOf
<1> QED BY <1>1, StepKeepsPromise, Inductive, PTL DEF Spec, KeepsPromise, Promise!Spec
=============================================================================
