-------------------------- MODULE PaymentsProofs --------------------------
(***************************************************************************)
(* Proofs about module Payments, for every number of players, quests,      *)
(* coupons, payments and concurrent handlers.                              *)
(*                                                                         *)
(* The safety invariants of Payments are not inductive: they say nothing   *)
(* of what a handler holds between two of its calls.  IInv adds that: Fit  *)
(* ties the job of every handler to the row and to the gateway's word it   *)
(* was computed from, at the label where it stands.  Everything it holds   *)
(* is stable under the steps of the others because rows only settle,       *)
(* gateway payments only end, and grants go with the account only.         *)
(*                                                                         *)
(* The two statements that count redemptions rest on a second invariant,   *)
(* LogOK: a coupon is found by its code alone, and what a payment burns is *)
(* one redemption, recorded or about to be.                                *)
(***************************************************************************)
EXTENDS Payments, FiniteSetTheorems, TLAPS

CheckoutPcs == {"listing", "quote", "gate", "redeem", "reuse", "requote", "create", "insert"}
SettlePcs   == {"fetch", "flip", "burn", "cancel", "tell"}
Final       == {"succeeded", "canceled"}
Positive    == Nat \ {0}

\* A checkout under way knows who buys what, and from the quote on at what price.
FitCheckout(r) ==
  /\ job[r].user \in Users /\ job[r].quest \in Quests
  /\ job[r].via = "checkout" /\ job[r].ref = None
  /\ pc[r] \in {"quote", "redeem", "requote"} => job[r].code \in Codes
  /\ pc[r] \in {"quote", "redeem", "requote", "create", "insert"} => job[r].price \in Positive
  /\ pc[r] \in {"gate", "reuse"} => job[r].price \in Positive \cup {None}
  /\ pc[r] \in {"create", "insert"} => job[r].charge \in 1 .. job[r].price
  /\ pc[r] = "insert" => /\ job[r].pay \in PaymentIds
                         /\ rows[job[r].pay] = None /\ remote[job[r].pay] = "pending"

\* A settle under way works on a row, which it read, and on the gateway's word.
FitSettle(r) ==
  LET p == job[r].pay IN
  /\ p \in PaymentIds /\ rows[p] # None
  /\ job[r].user = rows[p].user /\ job[r].quest = rows[p].quest
  /\ job[r].code = rows[p].code /\ job[r].price = rows[p].price
  /\ job[r].source = "Payment" /\ job[r].ref = p
  /\ pc[r] = "flip" => remote[p] = "succeeded"
  /\ pc[r] = "burn" => rows[p].status = "succeeded" /\ job[r].code \in Codes
  /\ pc[r] = "cancel" => remote[p] = "canceled"
  /\ job[r].via = "webhook" => remote[p] \in Final
  /\ pc[r] = "tell" /\ job[r].via = "webhook" => remote[p] = "canceled"

\* A grant about to be made that names a payment is for that payment's buyer.
FitGrant(r) ==
  /\ job[r].user \in Users /\ job[r].quest \in Quests /\ job[r].source \in Sources
  /\ job[r].ref \in PaymentIds =>
       /\ rows[job[r].ref] # None /\ rows[job[r].ref].status = "succeeded"
       /\ rows[job[r].ref].user = job[r].user /\ rows[job[r].ref].quest = job[r].quest
       /\ job[r].source = "Payment"
  /\ job[r].via = "webhook" => job[r].pay \in PaymentIds /\ job[r].ref = job[r].pay

Fit(r) ==
  /\ pc[r] \in CheckoutPcs => FitCheckout(r)
  /\ pc[r] \in SettlePcs => FitSettle(r)
  /\ pc[r] = "grant" => FitGrant(r)

\* No two handlers are about to store a row for one payment.
OneInsert ==
  \A r, s \in Requests :
    pc[r] = "insert" /\ pc[s] = "insert" /\ job[r].pay = job[s].pay => r = s

\* The gateway notifies what ended, and nobody pays before there is a row.
GatewayOK ==
  \A p \in PaymentIds :
    /\ p \in notices => remote[p] \in Final
    /\ remote[p] = "succeeded" => rows[p] # None

IInv ==
  /\ TypeOK
  /\ RowsFollowGateway
  /\ \A r \in Requests : Fit(r)
  /\ OneInsert
  /\ GatewayOK
  /\ GrantsAreJustified
  /\ AnsweredMeansGranted

-----------------------------------------------------------------------------
(* The coupon rules and the stores' answers.                                *)

\* discount_amount, whatever the valid coupon and the price, takes off a sum
\* between nothing and the price: a charge is never negative or above the price.
LEMMA DiscountBounds ==
  ASSUME NEW d \in [kind : {"percent", "fixed"}, value : Nat], ValidDiscount(d),
         NEW price \in Nat
  PROVE  DiscountAmount(d, price) \in 0 .. price
<1>1. CASE price = 0
  BY <1>1 DEF DiscountAmount
<1>2. CASE price > 0 /\ d.kind = "percent"
  <2> DEFINE left == 100 - d.value
             due  == (price * left + 50) \div 100
  <2>1. left \in 0 .. 99 /\ price \in Nat
    BY <1>2 DEF ValidDiscount
  <2>2. price * left \in Nat /\ price * left <= price * 99
    BY <2>1
  <2>3. due \in 0 .. price
    <3> HIDE DEF left
    <3> QED BY <1>2, <2>2
  <2>4. DiscountAmount(d, price) = price - due
    BY <1>2 DEF DiscountAmount
  <2> QED BY <2>3, <2>4
<1>3. CASE price > 0 /\ d.kind = "fixed"
  BY <1>3 DEF DiscountAmount, ValidDiscount
<1> QED BY <1>1, <1>2, <1>3

\* A coupon the store may redeem exists and was saved through the form.
LEMMA RedeemableSaved ==
  ASSUME TypeOK, NEW code, NEW u, NEW q, NEW c \in Redeemable(code, u, q)
  PROVE  /\ c \in CouponIds /\ coupons[c] # None
         /\ coupons[c].discount \in [kind : {"percent", "fixed"}, value : Nat]
         /\ ValidDiscount(coupons[c].discount)
<1>1. c \in CouponIds /\ coupons[c] # None
  BY DEF Redeemable, WithCode
<1>2. coupons[c] \in CouponForms
  BY <1>1 DEF TypeOK
<1>3. coupons[c] \in CouponType /\ ValidDiscount(coupons[c].discount)
  BY <1>2, FormsAssumption
<1> QED BY <1>1, <1>3 DEF CouponType

\* quote_coupon answers a discount between nothing and the price.
LEMMA QuoteBounds ==
  ASSUME TypeOK, NEW code, NEW u, NEW q, NEW price \in Nat, NEW d \in Quote(code, u, q, price)
  PROVE  d \in 0 .. price
<1>1. PICK c \in Redeemable(code, u, q) : d = DiscountAmount(coupons[c].discount, price)
  BY DEF Quote
<1> QED BY <1>1, RedeemableSaved, DiscountBounds

\* What redeem records is a well formed redemption.
LEMMA RedemptionTyped ==
  ASSUME TypeOK, NEW code, NEW u \in Users, NEW q \in Quests, NEW price \in Nat,
         NEW by \in PaymentIds \cup {"checkout"}, NEW c \in MayRedeem(code, u, q)
  PROVE  Redemption(c, u, q, price, by) \in RedemptionType
<1>1. c \in CouponIds /\ DiscountAmount(coupons[c].discount, price) \in 0 .. price
  BY RedeemableSaved, DiscountBounds DEF MayRedeem
<1> QED BY <1>1 DEF Redemption, RedemptionType

-----------------------------------------------------------------------------
(* Frames: what a step leaves standing for the handlers it does not run.    *)

\* Rows keep what they were stored with and settle once; a payment ends once.
Steady ==
  \A p \in PaymentIds :
    /\ rows[p] # None =>
         /\ rows'[p] # None
         /\ rows'[p].user = rows[p].user /\ rows'[p].quest = rows[p].quest
         /\ rows'[p].code = rows[p].code /\ rows'[p].price = rows[p].price
         /\ rows[p].status = "succeeded" => rows'[p].status = "succeeded"
    /\ remote[p] \in Final => remote'[p] = remote[p]

\* Nobody else stores or ends the payment that s is about to store.
Spared(s) ==
  pc[s] = "insert" => /\ rows'[job[s].pay] = rows[job[s].pay]
                      /\ remote'[job[s].pay] = remote[job[s].pay]

\* A handler that does not move stays fit through any steady step that spares it.
LEMMA FitFrame ==
  ASSUME NEW s \in Requests, Fit(s), Steady, Spared(s), pc'[s] = pc[s], job'[s] = job[s]
  PROVE  Fit(s)'
<1>1. CASE pc[s] \in CheckoutPcs
  BY <1>1 DEF Fit, FitCheckout, Spared, CheckoutPcs, SettlePcs
<1>2. CASE pc[s] \in SettlePcs
  <2>1. FitSettle(s)
    BY <1>2 DEF Fit
  <2>2. FitSettle(s)'
    BY <2>1 DEF FitSettle, Steady, Final
  <2> QED BY <1>2, <2>2 DEF Fit, CheckoutPcs, SettlePcs
<1>3. CASE pc[s] = "grant"
  <2>1. FitGrant(s)
    BY <1>3 DEF Fit
  <2>2. FitGrant(s)'
    BY <2>1 DEF FitGrant, Steady
  <2> QED BY <1>3, <2>2 DEF Fit, CheckoutPcs, SettlePcs
<1>4. CASE pc[s] \notin CheckoutPcs \cup SettlePcs \cup {"grant"}
  BY <1>4 DEF Fit
<1> QED BY <1>1, <1>2, <1>3, <1>4

\* A step of handler r that writes no row, no grant and answers no notification
\* keeps IInv if it keeps the types and leaves r fit.
LEMMA QuietStep ==
  ASSUME IInv, NEW r \in Requests, TypeOK', Fit(r)', pc'[r] # "insert",
         \A s \in Requests \ {r} : pc'[s] = pc[s] /\ job'[s] = job[s],
         UNCHANGED <<rows, remote, notices, grants, deleted>>
  PROVE  IInv'
<1>1. Steady /\ \A s \in Requests : Spared(s)
  BY DEF Steady, Spared
<1>2. \A s \in Requests : Fit(s)'
  BY <1>1, FitFrame DEF IInv
<1>3. OneInsert'
  BY DEF IInv, OneInsert
<1>4. (RowsFollowGateway /\ GatewayOK /\ GrantsAreJustified /\ AnsweredMeansGranted)'
  BY DEF IInv, RowsFollowGateway, GatewayOK, GrantsAreJustified, AnsweredMeansGranted,
         Delivered, Owns
<1> QED BY <1>2, <1>3, <1>4 DEF IInv

-----------------------------------------------------------------------------
(* The moves a handler makes without writing a row or a grant.              *)

\* At most a redemption is recorded, or a handler's death counted.
QuietFrame ==
  /\ UNCHANGED <<shop, coupons, rows, remote, notices, grants, deleted>>
  /\ redemptions' \subseteq RedemptionType
  /\ aborts' \in Nat

\* A handler that stops holds nothing.
LEMMA RestStep ==
  ASSUME IInv, NEW r \in Requests, NEW label \in Resting,
         QuietFrame, Goto(r, label), job' = [job EXCEPT ![r] = NoJob]
  PROVE  IInv'
<1>1. TypeOK'
  BY DEF IInv, TypeOK, QuietFrame, Goto, NoJob, JobType, Labels, Resting, Vias, shop
<1>2. pc'[r] = label /\ \A s \in Requests \ {r} : pc'[s] = pc[s] /\ job'[s] = job[s]
  BY DEF IInv, TypeOK, Goto
<1>3. Fit(r)'
  BY <1>2 DEF Fit, CheckoutPcs, SettlePcs, Resting
<1> QED BY <1>1, <1>2, <1>3, QuietStep DEF QuietFrame, Resting

\* A checkout that moves on, short of storing a row, stays fit.
LEMMA MoveStep ==
  ASSUME IInv, NEW r \in Requests, NEW label \in CheckoutPcs \ {"insert"}, NEW j \in JobType,
         QuietFrame, Goto(r, label), job' = [job EXCEPT ![r] = j], FitCheckout(r)'
  PROVE  IInv'
<1>1. TypeOK'
  BY DEF IInv, TypeOK, QuietFrame, Goto, Labels, Resting, CheckoutPcs, shop
<1>2. pc'[r] = label /\ \A s \in Requests \ {r} : pc'[s] = pc[s] /\ job'[s] = job[s]
  BY DEF IInv, TypeOK, Goto
<1>3. Fit(r)'
  BY <1>2 DEF Fit, CheckoutPcs, SettlePcs
<1> QED BY <1>1, <1>2, <1>3, QuietStep DEF QuietFrame

\* A checkout that goes on to its grant names no payment of the gateway.
LEMMA GrantNextStep ==
  ASSUME IInv, NEW r \in Requests, NEW source \in Sources, NEW ref \in {"mock", None},
         QuietFrame, FitCheckout(r), GrantNext(r, source, ref)
  PROVE  IInv'
<1> DEFINE j == [job[r] EXCEPT !.source = source, !.ref = ref]
<1>0. j \in JobType /\ job' = [job EXCEPT ![r] = j]
  BY DEF IInv, TypeOK, GrantNext, JobType
<1>1. TypeOK'
  <2> HIDE DEF j
  <2> QED BY <1>0 DEF IInv, TypeOK, QuietFrame, GrantNext, Goto, Labels, Resting, shop
<1>2. pc'[r] = "grant" /\ \A s \in Requests \ {r} : pc'[s] = pc[s] /\ job'[s] = job[s]
  BY DEF IInv, TypeOK, GrantNext, Goto
<1>3. FitGrant(r)'
  BY MockRefAssumption, NoneAssumption
     DEF IInv, TypeOK, JobType, GrantNext, FitCheckout, FitGrant
<1>4. Fit(r)'
  BY <1>2, <1>3 DEF Fit, CheckoutPcs, SettlePcs
<1> QED BY <1>1, <1>2, <1>4, QuietStep DEF QuietFrame

-----------------------------------------------------------------------------
(* The checkout steps keep IInv.                                            *)

\* An owner goes straight to a grant that names no payment.
LEMMA StartCheckoutStep ==
  ASSUME IInv, NEW r \in Requests, NEW u \in Users, NEW q \in Quests,
         NEW code \in Codes \cup {None}, NEW provider \in Providers,
         StartCheckout(r, u, q, code, provider)
  PROVE  IInv'
<1> DEFINE j == [NoJob EXCEPT !.user = u, !.quest = q, !.code = code, !.provider = provider,
                              !.source = IF Owns(u, q) THEN "Payment" ELSE None]
<1>1. j \in JobType
  BY DEF JobType, NoJob, Vias, Sources
<1>2. /\ job' = [job EXCEPT ![r] = j] /\ job'[r] = j
      /\ Goto(r, IF Owns(u, q) THEN "grant" ELSE "listing") /\ QuietFrame
  BY DEF StartCheckout, QuietFrame, IInv, TypeOK, ledger
<1>3. CASE ~Owns(u, q)
  <2>1. FitCheckout(r)'
    BY <1>2, <1>3 DEF Goto, IInv, TypeOK, FitCheckout, NoJob
  <2> QED BY <1>1, <1>2, <1>3, <2>1, MoveStep DEF CheckoutPcs
<1>4. CASE Owns(u, q)
  <2>1. TypeOK'
    BY <1>1, <1>2, <1>4 DEF IInv, TypeOK, QuietFrame, Goto, Labels, Resting, shop
  <2>2. Fit(r)'
    BY <1>2, <1>4, NoneAssumption
       DEF IInv, TypeOK, Goto, NoJob, Fit, FitGrant, CheckoutPcs, SettlePcs, Sources
  <2> QED BY <1>2, <1>4, <2>1, <2>2, QuietStep DEF IInv, TypeOK, QuietFrame, Goto
<1> QED BY <1>3, <1>4

\* A free quest goes to its grant; a priced one carries a price above zero on.
LEMMA GetPublishedStep ==
  ASSUME IInv, NEW r \in Requests, GetPublished(r)
  PROVE  IInv'
<1> DEFINE price == published[job[r].quest]
<1>1. FitCheckout(r) /\ job[r] \in JobType /\ price \in Prices \cup {None} /\ QuietFrame
  BY DEF IInv, TypeOK, GetPublished, Fit, FitCheckout, CheckoutPcs, QuietFrame, ledger
<1>2. CASE price = 0
  BY <1>1, <1>2, NoneAssumption, GrantNextStep DEF GetPublished, Sources
<1>3. CASE price # 0
  <2> DEFINE label == IF price # None /\ job[r].code # None THEN "quote" ELSE "gate"
             j     == [job[r] EXCEPT !.price = price]
  <2>1. j \in JobType /\ job' = [job EXCEPT ![r] = j] /\ Goto(r, label)
    BY <1>1, <1>3, PricesAssumption DEF GetPublished, JobType
  <2>2. pc'[r] = label /\ job'[r] = j
    BY <2>1 DEF IInv, TypeOK, Goto
  <2>3. FitCheckout(r)'
    BY <1>1, <1>3, <2>2, PricesAssumption DEF FitCheckout, JobType, Positive
  <2> QED BY <1>1, <2>1, <2>3, MoveStep DEF CheckoutPcs
<1> QED BY <1>2, <1>3

\* A quote moves the checkout on and changes nothing.
LEMMA QuoteGiftStep ==
  ASSUME IInv, NEW r \in Requests, QuoteGift(r)
  PROVE  IInv'
<1>1. FitCheckout(r) /\ job[r] \in JobType /\ job' = [job EXCEPT ![r] = job[r]] /\ QuietFrame
  BY DEF IInv, TypeOK, QuoteGift, Fit, CheckoutPcs, QuietFrame, ledger
<1>2. PICK label \in {"redeem", "gate"} : Goto(r, label)
  BY DEF QuoteGift
<1>3. pc[r] = "quote" /\ pc'[r] = label /\ job'[r] = job[r]
  BY <1>2 DEF QuoteGift, IInv, TypeOK, Goto
<1>4. FitCheckout(r)'
  BY <1>1, <1>3 DEF FitCheckout
<1> QED BY <1>1, <1>2, <1>4, MoveStep DEF CheckoutPcs

\* A provider that is off refuses; the mock grants without naming a payment.
LEMMA RequireProviderStep ==
  ASSUME IInv, NEW r \in Requests, RequireProvider(r)
  PROVE  IInv'
<1>1. /\ FitCheckout(r) /\ job[r] \in JobType /\ pc[r] = "gate"
      /\ UNCHANGED notices => QuietFrame
  BY DEF IInv, TypeOK, RequireProvider, Refuse, GrantNext, Fit, CheckoutPcs, QuietFrame, ledger
<1>2. \/ Refuse(r)
      \/ Goto(r, "reuse") /\ UNCHANGED <<job, notices>>
      \/ GrantNext(r, "Payment", "mock") /\ UNCHANGED notices
      \/ job[r].code # None /\ job[r].price # None /\ Goto(r, "redeem") /\ UNCHANGED <<job, notices>>
  BY DEF RequireProvider
<1>3. CASE Refuse(r)
  BY <1>1, <1>3, RestStep DEF Refuse, Resting
<1>4. CASE GrantNext(r, "Payment", "mock") /\ UNCHANGED notices
  BY <1>1, <1>4, GrantNextStep DEF Sources
<1>5. ASSUME NEW label \in {"reuse", "redeem"}, Goto(r, label), UNCHANGED <<job, notices>>,
             label = "redeem" => job[r].code # None /\ job[r].price # None
      PROVE  IInv'
  <2>1. pc'[r] = label /\ job'[r] = job[r] /\ job' = [job EXCEPT ![r] = job[r]]
    BY <1>5 DEF IInv, TypeOK, Goto
  <2>2. FitCheckout(r)'
    BY <1>1, <1>5, <2>1 DEF FitCheckout, JobType
  <2> QED BY <1>1, <1>5, <2>1, <2>2, MoveStep DEF CheckoutPcs
<1> QED BY <1>2, <1>3, <1>4, <1>5

\* A redemption, recorded now or before, is granted without naming a payment.
LEMMA RedeemAtCheckoutStep ==
  ASSUME IInv, NEW r \in Requests, RedeemAtCheckout(r)
  PROVE  IInv'
<1> DEFINE u == job[r].user
           q == job[r].quest
           price == job[r].price
           Source(amount) == IF amount >= price THEN "CouponRedemption" ELSE "Payment"
           Ref(amount)    == IF amount >= price THEN None ELSE "mock"
<1>1. FitCheckout(r) /\ u \in Users /\ q \in Quests /\ price \in Nat
  BY DEF RedeemAtCheckout, IInv, Fit, FitCheckout, CheckoutPcs, Positive
<1>2. UNCHANGED <<shop, coupons, grants, rows, remote, deleted, aborts>>
  BY DEF RedeemAtCheckout
<1>3. \A amount : Source(amount) \in Sources /\ Ref(amount) \in {"mock", None}
  BY DEF Sources
<1>4. CASE \E x \in Recorded(job[r].code, u, q) :
             GrantNext(r, Source(x.amount), Ref(x.amount)) /\ UNCHANGED <<redemptions, notices>>
  <2>1. QuietFrame
    BY <1>2, <1>4 DEF QuietFrame, IInv, TypeOK
  <2>2. PICK x : GrantNext(r, Source(x.amount), Ref(x.amount))
    BY <1>4
  <2> HIDE DEF Source, Ref
  <2> QED BY <1>1, <1>3, <2>1, <2>2, GrantNextStep
<1>5. CASE \E c \in MayRedeem(job[r].code, u, q) :
             LET x == Redemption(c, u, q, price, "checkout") IN
             /\ redemptions' = redemptions \cup {x}
             /\ GrantNext(r, Source(x.amount), Ref(x.amount))
             /\ UNCHANGED notices
  <2>1. PICK c \in MayRedeem(job[r].code, u, q) :
          LET x == Redemption(c, u, q, price, "checkout") IN
          /\ redemptions' = redemptions \cup {x}
          /\ GrantNext(r, Source(x.amount), Ref(x.amount))
          /\ UNCHANGED notices
    BY <1>5
  <2>2. Redemption(c, u, q, price, "checkout") \in RedemptionType
    BY <1>1, RedemptionTyped DEF IInv
  <2>3. QuietFrame
    BY <1>2, <2>1, <2>2 DEF QuietFrame, IInv, TypeOK
  <2>4. PICK amount : GrantNext(r, Source(amount), Ref(amount))
    BY <2>1
  <2> HIDE DEF Source, Ref
  <2> QED BY <1>1, <1>3, <2>3, <2>4, GrantNextStep
<1>6. CASE Refuse(r) /\ UNCHANGED redemptions
  <2>1. QuietFrame
    BY <1>2, <1>6 DEF QuietFrame, Refuse, IInv, TypeOK
  <2> QED BY <1>6, <2>1, RestStep DEF Refuse, Resting
<1> QED BY <1>4, <1>5, <1>6 DEF RedeemAtCheckout

\* A checkout that answers leaves the notifications alone.
LEMMA CheckoutAnswerStep ==
  ASSUME IInv, NEW r \in Requests, FitCheckout(r), Answer(r),
         UNCHANGED <<shop, ledger, remote, deleted, aborts>>
  PROVE  IInv'
<1>1. QuietFrame
  BY DEF QuietFrame, Answer, FitCheckout, IInv, TypeOK, ledger
<1> QED BY <1>1, RestStep DEF Answer, Resting

\* Only an order with a price above zero goes on to a charge.
LEMMA ReuseOpenPaymentStep ==
  ASSUME IInv, NEW r \in Requests, ReuseOpenPayment(r)
  PROVE  IInv'
<1>1. /\ FitCheckout(r) /\ job[r] \in JobType /\ pc[r] = "reuse"
      /\ UNCHANGED <<shop, ledger, remote, deleted, aborts>>
      /\ UNCHANGED notices => QuietFrame
  BY DEF IInv, TypeOK, ReuseOpenPayment, Fit, CheckoutPcs, QuietFrame, ledger
<1>2. CASE Answer(r)
  BY <1>1, <1>2, CheckoutAnswerStep
<1>3. CASE Refuse(r)
  BY <1>1, <1>3, RestStep DEF Refuse, Resting
<1>4. CASE /\ job[r].price # None
           /\ job' = [job EXCEPT ![r].charge = job[r].price]
           /\ Goto(r, IF job[r].code = None THEN "create" ELSE "requote")
           /\ UNCHANGED notices
  <2> DEFINE label == IF job[r].code = None THEN "create" ELSE "requote"
             j     == [job[r] EXCEPT !.charge = job[r].price]
  <2>1. job[r].price \in Positive
    BY <1>1, <1>4 DEF FitCheckout
  <2>2. j \in JobType /\ job' = [job EXCEPT ![r] = j] /\ Goto(r, label)
    BY <1>1, <1>4, <2>1 DEF JobType, Positive
  <2>3. pc'[r] = label /\ job'[r] = j
    BY <2>2 DEF IInv, TypeOK, Goto
  <2>4. FitCheckout(r)'
    BY <1>1, <2>1, <2>3 DEF FitCheckout, JobType, Positive
  <2> QED BY <1>1, <1>4, <2>2, <2>4, MoveStep DEF CheckoutPcs
<1> QED BY <1>2, <1>3, <1>4 DEF ReuseOpenPayment

\* What is left after a partial discount is above zero and within the price.
LEMMA QuoteChargeStep ==
  ASSUME IInv, NEW r \in Requests, QuoteCharge(r)
  PROVE  IInv'
<1> DEFINE price == job[r].price
           quote == Quote(job[r].code, job[r].user, job[r].quest, price)
<1>1. /\ FitCheckout(r) /\ job[r] \in JobType /\ pc[r] = "requote" /\ price \in Positive
      /\ UNCHANGED notices => QuietFrame
  BY DEF IInv, TypeOK, QuoteCharge, Fit, FitCheckout, CheckoutPcs, QuietFrame, ledger
<1>2. CASE Refuse(r)
  BY <1>1, <1>2, RestStep DEF Refuse, Resting
<1>3. CASE Goto(r, "redeem") /\ UNCHANGED <<job, notices>>
  <2>1. pc'[r] = "redeem" /\ job'[r] = job[r] /\ job' = [job EXCEPT ![r] = job[r]]
    BY <1>3 DEF IInv, TypeOK, Goto
  <2>2. FitCheckout(r)'
    BY <1>1, <2>1 DEF FitCheckout
  <2> QED BY <1>1, <1>3, <2>1, <2>2, MoveStep DEF CheckoutPcs
<1>4. CASE /\ \E d \in quote : d < price /\ job' = [job EXCEPT ![r].charge = price - d]
           /\ Goto(r, "create") /\ UNCHANGED notices
  <2>1. PICK d \in quote : d < price /\ job' = [job EXCEPT ![r].charge = price - d]
    BY <1>4
  <2>2. d \in 0 .. price
    BY <1>1, QuoteBounds DEF IInv, Positive
  <2>3. price - d \in 1 .. price
    BY <1>1, <2>1, <2>2 DEF Positive
  <2> DEFINE j == [job[r] EXCEPT !.charge = price - d]
  <2>4. j \in JobType /\ job' = [job EXCEPT ![r] = j]
    BY <1>1, <2>1, <2>3 DEF JobType, Positive
  <2>5. pc'[r] = "create" /\ job'[r] = j
    BY <1>4, <2>4 DEF IInv, TypeOK, Goto
  <2>6. FitCheckout(r)'
    BY <1>1, <2>3, <2>5 DEF FitCheckout, JobType, Positive
  <2> QED BY <1>1, <1>4, <2>4, <2>6, MoveStep DEF CheckoutPcs
<1> QED BY <1>2, <1>3, <1>4 DEF QuoteCharge

\* A failed create answers an error and leaves nothing.
LEMMA CreateFailsStep ==
  ASSUME IInv, NEW r \in Requests, CreateFails(r)
  PROVE  IInv'
<1>1. FitCheckout(r)
  BY DEF IInv, CreateFails, Fit, CheckoutPcs
<1> QED BY <1>1, CheckoutAnswerStep DEF CreateFails

\* The fresh payment has no row, and no other handler holds it.
LEMMA CreatePaymentStep ==
  ASSUME IInv, NEW r \in Requests, CreatePayment(r)
  PROVE  IInv'
<1>1. /\ FitCheckout(r) /\ job[r] \in JobType /\ pc[r] = "create"
      /\ UNCHANGED <<shop, ledger, notices, deleted, aborts>>
  BY DEF IInv, TypeOK, CreatePayment, Fit, CheckoutPcs
<1>2. PICK p \in PaymentIds : /\ remote[p] = "none"
                              /\ remote' = [remote EXCEPT ![p] = "pending"]
                              /\ job' = [job EXCEPT ![r].pay = p]
  BY DEF CreatePayment
<1> DEFINE j == [job[r] EXCEPT !.pay = p]
<1>3. j \in JobType /\ job' = [job EXCEPT ![r] = j] /\ Goto(r, "insert")
  BY <1>1, <1>2 DEF JobType, CreatePayment
<1>4. pc'[r] = "insert" /\ job'[r] = j /\ job'[r].pay = p
  BY <1>1, <1>3 DEF IInv, TypeOK, Goto, JobType
<1>5. \A s \in Requests \ {r} : pc'[s] = pc[s] /\ job'[s] = job[s]
  BY <1>3 DEF IInv, TypeOK, Goto
<1>6. rows[p] = None /\ rows' = rows /\ remote'[p] = "pending"
      /\ \A o \in PaymentIds \ {p} : remote'[o] = remote[o]
  BY <1>1, <1>2 DEF IInv, TypeOK, RowsFollowGateway, ledger
<1>7. TypeOK'
  <2> HIDE DEF j
  <2>1. remote' \in [PaymentIds -> Statuses \cup {"none"}]
    BY <1>1, <1>2 DEF IInv, TypeOK, Statuses
  <2>2. job' \in [Requests -> JobType] /\ pc' \in [Requests -> Labels]
    BY <1>3 DEF IInv, TypeOK, Goto, Labels
  <2>3. \A s \in Requests : pc'[s] \in Resting => job'[s] = NoJob
    BY <1>4, <1>5 DEF IInv, TypeOK, Resting
  <2> QED BY <1>1, <2>1, <2>2, <2>3 DEF IInv, TypeOK, shop, ledger
<1>8. Fit(r)'
  <2>1. FitCheckout(r)'
    BY <1>1, <1>4, <1>6 DEF FitCheckout, JobType
  <2> QED BY <1>4, <2>1 DEF Fit, CheckoutPcs, SettlePcs
<1>9. \A s \in Requests \ {r} : Fit(s)' /\ (pc[s] = "insert" => job[s].pay # p)
  <2> SUFFICES ASSUME NEW s \in Requests \ {r} PROVE Fit(s)' /\ (pc[s] = "insert" => job[s].pay # p)
    OBVIOUS
  <2>1. pc[s] = "insert" => job[s].pay \in PaymentIds /\ remote[job[s].pay] = "pending"
    BY DEF IInv, Fit, FitCheckout, CheckoutPcs
  <2>2. Steady /\ Spared(s)
    BY <1>2, <1>6, <2>1 DEF Steady, Spared, Final
  <2> QED BY <1>2, <1>5, <2>1, <2>2, FitFrame DEF IInv
<1>10. OneInsert'
  <2> HIDE DEF j
  <2> QED BY <1>4, <1>5, <1>9 DEF IInv, OneInsert
<1>11. (RowsFollowGateway /\ GatewayOK)'
  BY <1>1, <1>2, <1>6 DEF IInv, RowsFollowGateway, GatewayOK, Final
<1>12. (GrantsAreJustified /\ AnsweredMeansGranted)'
  BY <1>1, <1>2, <1>6
     DEF IInv, GrantsAreJustified, AnsweredMeansGranted, Delivered, Owns, ledger
<1> QED BY <1>7, <1>8, <1>9, <1>10, <1>11, <1>12 DEF IInv

\* The row is stored where there was none: it is open, and nobody settles it yet.
LEMMA InsertRowStep ==
  ASSUME IInv, NEW r \in Requests, InsertRow(r)
  PROVE  IInv'
<1> DEFINE p   == job[r].pay
           row == [user |-> job[r].user, quest |-> job[r].quest, code |-> job[r].code,
                   amount |-> job[r].charge, price |-> job[r].price, status |-> "pending"]
<1>1. /\ FitCheckout(r) /\ job[r] \in JobType /\ pc[r] = "insert"
      /\ p \in PaymentIds /\ rows[p] = None /\ remote[p] = "pending"
  BY DEF IInv, TypeOK, InsertRow, Fit, FitCheckout, CheckoutPcs
<1>2. /\ rows' = [rows EXCEPT ![p] = row]
      /\ UNCHANGED <<shop, coupons, redemptions, grants, remote, deleted, aborts, notices>>
      /\ Goto(r, "idle") /\ job' = [job EXCEPT ![r] = NoJob]
  BY <1>1 DEF InsertRow, Answer, FitCheckout
<1>3. row \in RowType
  BY <1>1 DEF FitCheckout, JobType, RowType, Statuses, Positive
<1>4. TypeOK'
  <2> HIDE DEF row, p
  <2>1. rows' \in [PaymentIds -> RowType \cup {None}]
    BY <1>1, <1>2, <1>3 DEF IInv, TypeOK
  <2>2. /\ job' \in [Requests -> JobType] /\ pc' \in [Requests -> Labels]
        /\ \A s \in Requests : pc'[s] \in Resting => job'[s] = NoJob
    BY <1>2 DEF IInv, TypeOK, Goto, NoJob, JobType, Labels, Resting, Vias
  <2> QED BY <1>2, <2>1, <2>2 DEF IInv, TypeOK, shop
<1>5. /\ pc'[r] = "idle" /\ \A s \in Requests \ {r} : pc'[s] = pc[s] /\ job'[s] = job[s]
      /\ rows'[p] = row /\ \A o \in PaymentIds \ {p} : rows'[o] = rows[o]
  BY <1>1, <1>2 DEF IInv, TypeOK, Goto
<1>6. row # None
  BY <1>3, NoneAssumption
<1>7. \A s \in Requests : Fit(s)'
  <2> SUFFICES ASSUME NEW s \in Requests PROVE Fit(s)'
    OBVIOUS
  <2>1. CASE s = r
    BY <1>5, <2>1 DEF Fit, CheckoutPcs, SettlePcs
  <2>2. CASE s # r
    <3>1. pc[s] = "insert" => job[s].pay \in PaymentIds /\ job[s].pay # p
      BY <1>1, <2>2 DEF IInv, Fit, FitCheckout, CheckoutPcs, OneInsert
    <3>2. Steady
      BY <1>1, <1>2, <1>5 DEF Steady
    <3>3. Spared(s)
      BY <1>2, <1>5, <3>1 DEF Spared
    <3> QED BY <1>5, <2>2, <3>2, <3>3, FitFrame DEF IInv
  <2> QED BY <2>1, <2>2
<1>8. OneInsert'
  BY <1>5 DEF IInv, OneInsert
<1>9. (RowsFollowGateway /\ GatewayOK)'
  BY <1>1, <1>2, <1>5, <1>6 DEF IInv, RowsFollowGateway, GatewayOK
<1>10. (GrantsAreJustified /\ AnsweredMeansGranted)'
  BY <1>1, <1>2, <1>5 DEF IInv, GrantsAreJustified, AnsweredMeansGranted, Delivered, Owns
<1> QED BY <1>4, <1>7, <1>8, <1>9, <1>10 DEF IInv

-----------------------------------------------------------------------------
(* The settle steps keep IInv.                                              *)

\* The job settle starts with is read off the row.
LEMMA LoadRowStep ==
  ASSUME IInv, NEW r \in Requests, NEW p \in PaymentIds, NEW via \in {"poll", "webhook"},
         rows[p] # None, via = "webhook" => p \in notices, LoadRow(r, p, via)
  PROVE  IInv'
<1> DEFINE j == [NoJob EXCEPT !.user = rows[p].user, !.quest = rows[p].quest,
                              !.code = rows[p].code, !.price = rows[p].price, !.pay = p,
                              !.via = via, !.source = "Payment", !.ref = p]
           label == AfterLoad(rows[p].status)
<1>1. rows[p] \in RowType /\ (via = "webhook" => remote[p] \in Final)
  BY DEF IInv, TypeOK, GatewayOK
<1>2. /\ j \in JobType
      /\ j.user = rows[p].user /\ j.quest = rows[p].quest /\ j.code = rows[p].code
      /\ j.price = rows[p].price /\ j.pay = p /\ j.via = via /\ j.source = "Payment" /\ j.ref = p
  BY <1>1 DEF JobType, NoJob, Vias, Sources, RowType
<1>3. /\ label \in {"fetch", "grant", "tell"}
      /\ label = "grant" => rows[p].status = "succeeded"
      /\ label = "tell" => remote[p] = "canceled"
  BY <1>1 DEF AfterLoad, RowType, Statuses, IInv, RowsFollowGateway
<1>4. /\ job' = [job EXCEPT ![r] = j] /\ Goto(r, label)
      /\ UNCHANGED <<shop, ledger, remote, notices, deleted, aborts>>
  BY DEF LoadRow
<1> HIDE DEF j, label
<1>5. pc'[r] = label /\ job'[r] = j /\ \A s \in Requests \ {r} : pc'[s] = pc[s] /\ job'[s] = job[s]
  BY <1>4 DEF IInv, TypeOK, Goto
<1>6. TypeOK'
  BY <1>2, <1>3, <1>4 DEF IInv, TypeOK, Goto, Labels, Resting, shop, ledger
<1>7. rows' = rows /\ remote' = remote
  BY <1>4 DEF ledger
<1>8. label # "grant" => FitSettle(r)'
  BY <1>1, <1>2, <1>3, <1>5, <1>7 DEF FitSettle
<1>9. label = "grant" => FitGrant(r)'
  BY <1>1, <1>2, <1>3, <1>5, <1>7 DEF FitGrant, RowType, Sources
<1>10. Fit(r)'
  BY <1>3, <1>5, <1>8, <1>9 DEF Fit, CheckoutPcs, SettlePcs
<1> QED BY <1>3, <1>4, <1>5, <1>6, <1>10, QuietStep DEF ledger

\* A settle that moves on with the job it has.
LEMMA SettleMoveStep ==
  ASSUME IInv, NEW r \in Requests, NEW label \in SettlePcs \cup {"grant"},
         pc[r] \in SettlePcs, QuietFrame, Goto(r, label), UNCHANGED job,
         label \in SettlePcs => FitSettle(r)', label = "grant" => FitGrant(r)'
  PROVE  IInv'
<1>1. TypeOK'
  BY DEF IInv, TypeOK, QuietFrame, Goto, Labels, Resting, SettlePcs, shop
<1>2. pc'[r] = label /\ \A s \in Requests \ {r} : pc'[s] = pc[s] /\ job'[s] = job[s]
  BY DEF IInv, TypeOK, Goto
<1>3. Fit(r)'
  BY <1>2 DEF Fit, CheckoutPcs, SettlePcs
<1> QED BY <1>1, <1>2, <1>3, QuietStep DEF QuietFrame, SettlePcs

\* fetch_payment: the label follows the gateway's word.
LEMMA FetchRemoteStep ==
  ASSUME IInv, NEW r \in Requests, FetchRemote(r)
  PROVE  IInv'
<1> DEFINE p == job[r].pay
           label == AfterFetch(remote[p])
<1>1. FitSettle(r) /\ pc[r] = "fetch" /\ QuietFrame /\ UNCHANGED <<job, rows, remote>>
  BY DEF IInv, TypeOK, FetchRemote, Fit, SettlePcs, QuietFrame, ledger
<1>2. remote[p] \in Statuses
  BY <1>1 DEF IInv, TypeOK, RowsFollowGateway, FitSettle
<1>3. /\ label \in {"flip", "cancel", "tell"} /\ Goto(r, label)
      /\ label = "flip" => remote[p] = "succeeded"
      /\ label = "cancel" => remote[p] = "canceled"
      /\ label = "tell" => remote[p] = "pending"
  BY <1>2 DEF AfterFetch, Statuses, FetchRemote
<1> HIDE DEF label
<1>4. pc'[r] = label
  BY <1>3 DEF IInv, TypeOK, Goto
<1>5. FitSettle(r)'
  BY <1>1, <1>3, <1>4 DEF FitSettle, Final
<1> QED BY <1>1, <1>3, <1>5, SettleMoveStep DEF SettlePcs

\* The loss of a coupon's slot between the settlement and the burn does not stop
\* the grant.
LEMMA RedeemHeldStep ==
  ASSUME IInv, NEW r \in Requests, RedeemHeld(r)
  PROVE  IInv'
<1> DEFINE u == job[r].user
           q == job[r].quest
<1>1. /\ FitSettle(r) /\ pc[r] = "burn" /\ UNCHANGED <<job, rows, remote>> /\ Goto(r, "grant")
      /\ UNCHANGED <<shop, coupons, grants, rows, remote, notices, deleted, aborts>>
  BY DEF IInv, RedeemHeld, Fit, SettlePcs
<1>2. rows[job[r].pay] \in RowType
  BY <1>1 DEF FitSettle, IInv, TypeOK
<1>3. u \in Users /\ q \in Quests /\ job[r].price \in Nat /\ job[r].pay \in PaymentIds
  BY <1>1, <1>2 DEF FitSettle, RowType
<1>4. \A c \in MayRedeem(job[r].code, u, q) :
        Redemption(c, u, q, job[r].price, job[r].pay) \in RedemptionType
  BY <1>3, RedemptionTyped DEF IInv
<1>5. redemptions' \subseteq RedemptionType
  BY <1>4 DEF RedeemHeld, IInv, TypeOK
<1>6. QuietFrame
  BY <1>1, <1>5 DEF QuietFrame, IInv, TypeOK
<1>7. FitGrant(r)'
  BY <1>1, <1>2, <1>3 DEF FitSettle, FitGrant, Sources
<1> QED BY <1>1, <1>6, <1>7, SettleMoveStep DEF SettlePcs


\* A row settles as the gateway says, or stays as it is: it keeps its order, and
\* no handler loses its footing.
LEMMA RowSettled ==
  ASSUME IInv, NEW p \in PaymentIds, NEW status \in Final,
         rows[p] # None, remote[p] = status, UNCHANGED remote,
         \/ UNCHANGED rows
         \/ rows[p].status = "pending" /\ rows' = [rows EXCEPT ![p].status = status]
  PROVE  /\ rows' \in [PaymentIds -> RowType \cup {None}]
         /\ Steady /\ \A s \in Requests : Spared(s)
         /\ RowsFollowGateway'
         /\ \A o \in PaymentIds : /\ rows'[o] # None <=> rows[o] # None
                                  /\ rows'[o].user = rows[o].user
                                  /\ rows'[o].quest = rows[o].quest
<1>1. CASE UNCHANGED rows
  BY <1>1 DEF IInv, TypeOK, Steady, Spared, RowsFollowGateway
<1>2. CASE rows[p].status = "pending" /\ rows' = [rows EXCEPT ![p].status = status]
  <2> DEFINE row == [rows[p] EXCEPT !.status = status]
  <2>1. rows[p] \in RowType /\ rows' = [rows EXCEPT ![p] = row]
    BY <1>2 DEF IInv, TypeOK
  <2>2. /\ row \in RowType /\ row.user = rows[p].user /\ row.quest = rows[p].quest
        /\ row.code = rows[p].code /\ row.price = rows[p].price /\ row.status = status
    BY <2>1 DEF RowType, Statuses, Final
  <2>3. row # None
    BY <2>2, NoneAssumption
  <2> HIDE DEF row
  <2>4. rows'[p] = row /\ \A o \in PaymentIds \ {p} : rows'[o] = rows[o]
    BY <2>1 DEF IInv, TypeOK
  <2>5. rows' \in [PaymentIds -> RowType \cup {None}]
    BY <2>1, <2>2 DEF IInv, TypeOK
  <2>6. \A s \in Requests : Spared(s)
    <3> SUFFICES ASSUME NEW s \in Requests, pc[s] = "insert"
                 PROVE  rows'[job[s].pay] = rows[job[s].pay]
      BY DEF Spared
    <3>1. job[s].pay \in PaymentIds /\ rows[job[s].pay] = None
      BY DEF IInv, Fit, FitCheckout, CheckoutPcs
    <3> QED BY <2>4, <3>1
  <2>7. Steady
    BY <1>2, <2>2, <2>3, <2>4 DEF Steady
  <2>8. RowsFollowGateway'
    BY <2>2, <2>3, <2>4 DEF IInv, RowsFollowGateway, Final
  <2> QED BY <2>2, <2>3, <2>4, <2>5, <2>6, <2>7, <2>8
<1> QED BY <1>1, <1>2

\* What the settled row leaves true of the payments and of the grants.
LEMMA SettledFacts ==
  ASSUME IInv, NEW p \in PaymentIds, NEW status \in Final,
         rows[p] # None, remote[p] = status, UNCHANGED <<remote, grants, deleted>>,
         \/ UNCHANGED rows
         \/ rows[p].status = "pending" /\ rows' = [rows EXCEPT ![p].status = status],
         notices' \subseteq notices,
         \A o \in notices \ notices' : remote[o] = "canceled"
  PROVE  (RowsFollowGateway /\ GatewayOK /\ GrantsAreJustified /\ AnsweredMeansGranted)'
<1>1. /\ RowsFollowGateway' /\ Steady
      /\ \A o \in PaymentIds : /\ rows'[o] # None <=> rows[o] # None
                               /\ rows'[o].user = rows[o].user
                               /\ rows'[o].quest = rows[o].quest
  BY RowSettled
<1>2. GatewayOK'
  BY <1>1 DEF IInv, GatewayOK
<1>3. GrantsAreJustified'
  BY <1>1 DEF IInv, GrantsAreJustified, Steady
<1>4. AnsweredMeansGranted'
  BY <1>1 DEF IInv, AnsweredMeansGranted, Delivered, Owns
<1> QED BY <1>1, <1>2, <1>3, <1>4

\* A settle that answers without a grant pays nobody.
LEMMA SettleAnswerStep ==
  ASSUME IInv, NEW r \in Requests, FitSettle(r), Answer(r),
         UNCHANGED <<shop, coupons, redemptions, grants, remote, deleted, aborts>>,
         job[r].via = "webhook" => remote[job[r].pay] = "canceled",
         \/ UNCHANGED rows
         \/ /\ remote[job[r].pay] = "canceled" /\ rows[job[r].pay].status = "pending"
            /\ rows' = [rows EXCEPT ![job[r].pay].status = "canceled"]
  PROVE  IInv'
<1> DEFINE p == job[r].pay
<1>1. p \in PaymentIds /\ rows[p] # None
  BY DEF FitSettle
<1>2. pc'[r] = "idle" /\ \A s \in Requests \ {r} : pc'[s] = pc[s] /\ job'[s] = job[s]
  BY DEF IInv, TypeOK, Answer, Goto
<1>3. notices' \subseteq notices /\ \A o \in notices \ notices' : remote[o] = "canceled"
  BY DEF Answer
<1>4. /\ rows' \in [PaymentIds -> RowType \cup {None}]
      /\ Steady /\ \A s \in Requests : Spared(s)
      /\ (RowsFollowGateway /\ GatewayOK /\ GrantsAreJustified /\ AnsweredMeansGranted)'
  <2>1. CASE UNCHANGED rows
    BY <1>3, <2>1
       DEF IInv, TypeOK, Steady, Spared, RowsFollowGateway, GatewayOK, GrantsAreJustified,
           AnsweredMeansGranted, Delivered, Owns
  <2>2. CASE ~UNCHANGED rows
    BY <1>1, <1>3, <2>2, RowSettled, SettledFacts DEF Final
  <2> QED BY <2>1, <2>2
<1>5. TypeOK'
  <2>1. /\ job' \in [Requests -> JobType] /\ pc' \in [Requests -> Labels]
        /\ \A s \in Requests : pc'[s] \in Resting => job'[s] = NoJob
    BY DEF IInv, TypeOK, Answer, Goto, NoJob, JobType, Labels, Resting, Vias
  <2> QED BY <1>3, <1>4, <2>1 DEF IInv, TypeOK, shop
<1>6. \A s \in Requests : Fit(s)'
  <2> SUFFICES ASSUME NEW s \in Requests PROVE Fit(s)'
    OBVIOUS
  <2>1. CASE s = r
    BY <1>2, <2>1 DEF Fit, CheckoutPcs, SettlePcs
  <2>2. CASE s # r
    BY <1>2, <1>4, <2>2, FitFrame DEF IInv
  <2> QED BY <2>1, <2>2
<1>7. OneInsert'
  BY <1>2 DEF IInv, OneInsert
<1> QED BY <1>4, <1>5, <1>6, <1>7 DEF IInv

\* Answering "canceled" to the gateway, or what a poll saw, pays nobody.
LEMMA TellStatusStep ==
  ASSUME IInv, NEW r \in Requests, TellStatus(r)
  PROVE  IInv'
<1>1. FitSettle(r) /\ pc[r] = "tell"
  BY DEF IInv, TellStatus, Fit, SettlePcs
<1> QED BY <1>1, SettleAnswerStep DEF TellStatus, FitSettle, ledger

\* mark_canceled closes an open row only.
LEMMA MarkCanceledStep ==
  ASSUME IInv, NEW r \in Requests, MarkCanceled(r)
  PROVE  IInv'
<1>1. FitSettle(r) /\ pc[r] = "cancel" /\ remote[job[r].pay] = "canceled"
  BY DEF IInv, MarkCanceled, Fit, FitSettle, SettlePcs
<1> QED BY <1>1, SettleAnswerStep DEF MarkCanceled

\* The compare-and-set, won or lost: by then the row is settled as paid.
LEMMA SettleSucceededStep ==
  ASSUME IInv, NEW r \in Requests, SettleSucceeded(r)
  PROVE  IInv'
<1> DEFINE p == job[r].pay
<1>1. FitSettle(r) /\ pc[r] = "flip" /\ remote[p] = "succeeded" /\ p \in PaymentIds /\ rows[p] # None
  BY DEF IInv, SettleSucceeded, Fit, FitSettle, SettlePcs
<1>2. PICK label \in {"burn", "grant"} :
        Goto(r, label) /\ (label = "burn" => job[r].code # None)
  BY DEF SettleSucceeded
<1>3. UNCHANGED <<shop, coupons, redemptions, grants, remote, notices, job, deleted, aborts>>
  BY DEF SettleSucceeded
<1>4. \/ UNCHANGED rows /\ rows[p].status # "pending"
      \/ rows[p].status = "pending" /\ rows' = [rows EXCEPT ![p].status = "succeeded"]
  BY DEF SettleSucceeded
<1>5. /\ rows' \in [PaymentIds -> RowType \cup {None}]
      /\ Steady /\ \A s \in Requests : Spared(s)
      /\ rows'[p] # None
      /\ (RowsFollowGateway /\ GatewayOK /\ GrantsAreJustified /\ AnsweredMeansGranted)'
  BY <1>1, <1>3, <1>4, RowSettled, SettledFacts DEF Final
<1>6. rows[p] \in RowType /\ rows'[p] \in RowType
  BY <1>1, <1>5 DEF IInv, TypeOK
<1>7. rows'[p].status = "succeeded"
  <2>1. rows'[p].status \in Statuses /\ (rows'[p].status # "pending" => rows'[p].status = "succeeded")
    BY <1>1, <1>3, <1>5, <1>6 DEF RowsFollowGateway, RowType
  <2>2. rows'[p].status # "pending"
    BY <1>1, <1>4, <1>6 DEF IInv, TypeOK, RowType
  <2> QED BY <2>1, <2>2
<1>8. pc'[r] = label /\ job'[r] = job[r] /\ \A s \in Requests \ {r} : pc'[s] = pc[s] /\ job'[s] = job[s]
  BY <1>2, <1>3 DEF IInv, TypeOK, Goto
<1>9. TypeOK'
  BY <1>1, <1>2, <1>3, <1>5 DEF IInv, TypeOK, Goto, Labels, Resting, shop
<1>10. Fit(r)'
  <2>1. /\ rows'[p].user = rows[p].user /\ rows'[p].quest = rows[p].quest
        /\ rows'[p].code = rows[p].code /\ rows'[p].price = rows[p].price
    BY <1>1, <1>5 DEF Steady
  <2>2. label = "burn" => FitSettle(r)'
    BY <1>1, <1>2, <1>3, <1>5, <1>6, <1>7, <1>8, <2>1 DEF FitSettle, RowType
  <2>3. label = "grant" => FitGrant(r)'
    BY <1>1, <1>5, <1>6, <1>7, <1>8, <2>1 DEF FitSettle, FitGrant, RowType, Sources
  <2> QED BY <1>8, <2>2, <2>3 DEF Fit, CheckoutPcs, SettlePcs
<1>11. \A s \in Requests : Fit(s)'
  BY <1>5, <1>8, <1>10, FitFrame DEF IInv
<1>12. OneInsert'
  BY <1>2, <1>8 DEF IInv, OneInsert
<1> QED BY <1>5, <1>9, <1>11, <1>12 DEF IInv

\* The first grant of the pair names what paid for it; a notification is answered
\* only with the grant made.
LEMMA CreateGrantStep ==
  ASSUME IInv, NEW r \in Requests, CreateGrant(r)
  PROVE  IInv'
<1> DEFINE u == job[r].user
           q == job[r].quest
           g == [user |-> u, quest |-> q, source |-> job[r].source, ref |-> job[r].ref]
<1>1. FitGrant(r) /\ job[r] \in JobType /\ pc[r] = "grant"
  BY DEF IInv, TypeOK, CreateGrant, Fit
<1>2. g \in GrantType /\ g.user = u /\ g.quest = q /\ g.source = job[r].source /\ g.ref = job[r].ref
  BY <1>1 DEF FitGrant, JobType, GrantType
<1>3. /\ grants' = IF Owns(u, q) THEN grants ELSE grants \cup {g}
      /\ Goto(r, "idle") /\ job' = [job EXCEPT ![r] = NoJob]
      /\ notices' = IF job[r].via = "webhook" THEN notices \ {job[r].pay} ELSE notices
      /\ UNCHANGED <<shop, coupons, redemptions, rows, remote, deleted, aborts>>
  BY DEF CreateGrant, Answer
<1> HIDE DEF g
<1>4. pc'[r] = "idle" /\ \A s \in Requests \ {r} : pc'[s] = pc[s] /\ job'[s] = job[s]
  BY <1>3 DEF IInv, TypeOK, Goto
<1>5. grants \subseteq grants' /\ \E h \in grants' : h.user = u /\ h.quest = q
  BY <1>2, <1>3 DEF Owns
<1>6. TypeOK'
  <2>1. /\ job' \in [Requests -> JobType] /\ pc' \in [Requests -> Labels]
        /\ \A s \in Requests : pc'[s] \in Resting => job'[s] = NoJob
    BY <1>3 DEF IInv, TypeOK, Goto, NoJob, JobType, Labels, Resting, Vias
  <2>2. grants' \subseteq GrantType /\ notices' \subseteq PaymentIds
    BY <1>2, <1>3 DEF IInv, TypeOK
  <2> QED BY <1>3, <2>1, <2>2 DEF IInv, TypeOK, shop
<1>7. \A s \in Requests : Fit(s)'
  <2> SUFFICES ASSUME NEW s \in Requests PROVE Fit(s)'
    OBVIOUS
  <2>1. CASE s = r
    BY <1>4, <2>1 DEF Fit, CheckoutPcs, SettlePcs
  <2>2. CASE s # r
    <3>1. Steady /\ Spared(s)
      BY <1>3 DEF Steady, Spared
    <3> QED BY <1>4, <2>2, <3>1, FitFrame DEF IInv
  <2> QED BY <2>1, <2>2
<1>8. OneInsert'
  BY <1>4 DEF IInv, OneInsert
<1>9. (RowsFollowGateway /\ GatewayOK)'
  BY <1>3 DEF IInv, RowsFollowGateway, GatewayOK
<1>10. GrantsAreJustified'
  <2>1. CASE Owns(u, q)
    BY <1>3, <2>1 DEF IInv, GrantsAreJustified
  <2>2. CASE ~Owns(u, q)
    <3>1. \A h \in grants : h.user # u \/ h.quest # q
      BY <2>2 DEF Owns
    <3>2. g.ref \in PaymentIds =>
            /\ g.source = "Payment" /\ remote[g.ref] = "succeeded"
            /\ rows[g.ref] # None /\ rows[g.ref].status = "succeeded"
            /\ rows[g.ref].user = g.user /\ rows[g.ref].quest = g.quest
      BY <1>1, <1>2 DEF FitGrant, IInv, RowsFollowGateway
    <3>3. grants' = grants \cup {g}
      BY <1>3, <2>2
    <3> QED BY <1>2, <1>3, <3>1, <3>2, <3>3 DEF IInv, GrantsAreJustified
  <2> QED BY <2>1, <2>2
<1>11. AnsweredMeansGranted'
  <2> SUFFICES ASSUME NEW p \in PaymentIds, remote'[p] = "succeeded", p \notin notices'
               PROVE  Delivered(p)'
    BY DEF AnsweredMeansGranted
  <2>1. CASE p \notin notices
    BY <1>3, <1>5, <2>1 DEF IInv, AnsweredMeansGranted, Delivered, Owns
  <2>2. CASE p \in notices
    <3>1. p = job[r].pay /\ job[r].via = "webhook"
      BY <1>3, <2>2
    <3>2. rows[p] # None /\ rows[p].user = u /\ rows[p].quest = q
      BY <1>1, <3>1 DEF FitGrant
    <3> QED BY <1>3, <1>5, <3>2 DEF Delivered, Owns
  <2> QED BY <2>1, <2>2
<1> QED BY <1>6, <1>7, <1>8, <1>9, <1>10, <1>11 DEF IInv

-----------------------------------------------------------------------------
(* A handler's death, and the steps of the world, keep IInv.                *)

\* Whoever dies leaves an empty slot; what it wrote stays.
LEMMA AbortStep ==
  ASSUME IInv, NEW r \in Requests, Abort(r)
  PROVE  IInv'
<1>1. QuietFrame
  BY DEF Abort, QuietFrame, IInv, TypeOK, ledger
<1> QED BY <1>1, RestStep DEF Abort, Resting

\* No handler moves and no row changes; payments only end.
LEMMA WorldStep ==
  ASSUME IInv, TypeOK', UNCHANGED <<rows, pc, job>>,
         \A p \in PaymentIds : remote'[p] # remote[p] =>
            /\ remote[p] = "pending" /\ p \in notices'
            /\ remote'[p] = "succeeded" => rows[p] # None
            /\ \A r \in Requests : ~(pc[r] = "insert" /\ job[r].pay = p),
         \A p \in PaymentIds : remote[p] # "succeeded" /\ p \in notices' => remote'[p] \in Final,
         \A p \in notices \ notices' : remote[p] # "succeeded",
         grants' \subseteq grants, deleted \subseteq deleted',
         \A g \in grants \ grants' : g.user \in deleted'
  PROVE  IInv'
<1>1. Steady
  BY DEF Steady, Final
<1>2. \A s \in Requests : Spared(s)
  <2> SUFFICES ASSUME NEW s \in Requests, pc[s] = "insert"
               PROVE  rows'[job[s].pay] = rows[job[s].pay] /\ remote'[job[s].pay] = remote[job[s].pay]
    BY DEF Spared
  <2>1. job[s].pay \in PaymentIds
    BY DEF IInv, Fit, FitCheckout, CheckoutPcs
  <2> QED BY <2>1
<1>3. \A s \in Requests : Fit(s)'
  BY <1>1, <1>2, FitFrame DEF IInv
<1>4. OneInsert'
  BY DEF IInv, OneInsert
<1>5. RowsFollowGateway'
  BY DEF IInv, TypeOK, RowsFollowGateway, RowType, Statuses, Final
<1>6. GatewayOK'
  BY DEF IInv, GatewayOK, Final
<1>7. GrantsAreJustified'
  BY DEF IInv, GrantsAreJustified, RowsFollowGateway, TypeOK, GrantType
<1>8. AnsweredMeansGranted'
  BY DEF IInv, AnsweredMeansGranted, Delivered, Owns
<1> QED BY <1>3, <1>4, <1>5, <1>6, <1>7, <1>8 DEF IInv

\* The payer pays, or the gateway gives up on the payment.
LEMMA GatewayStep ==
  ASSUME IInv, NEW p \in PaymentIds, PayerPays(p) \/ GatewayCancels(p)
  PROVE  IInv'
<1>1. PICK status \in Final :
        /\ remote[p] = "pending" /\ remote' = [remote EXCEPT ![p] = status]
        /\ status = "succeeded" => rows[p] # None
        /\ \A r \in Requests : ~(pc[r] = "insert" /\ job[r].pay = p)
  BY DEF PayerPays, GatewayCancels, Final, IInv, Fit, FitCheckout, CheckoutPcs
<1>2. notices' = notices \cup {p} /\ UNCHANGED <<shop, ledger, pc, job, deleted, aborts>>
  BY DEF PayerPays, GatewayCancels
<1>3. remote'[p] = status /\ \A o \in PaymentIds \ {p} : remote'[o] = remote[o]
  BY <1>1 DEF IInv, TypeOK
<1>4. TypeOK'
  BY <1>1, <1>2 DEF IInv, TypeOK, Statuses, Final, shop, ledger
<1> QED BY <1>1, <1>2, <1>3, <1>4, WorldStep DEF IInv, GatewayOK, ledger

\* The webhook of a payment without a row: nobody can have paid it.
LEMMA WebhookUnknownStep ==
  ASSUME IInv, NEW p \in PaymentIds, WebhookUnknown(p)
  PROVE  IInv'
<1>1. TypeOK' /\ remote[p] # "succeeded"
  BY DEF WebhookUnknown, IInv, TypeOK, GatewayOK, shop, ledger
<1> QED BY <1>1, WorldStep DEF WebhookUnknown, IInv, GatewayOK, ledger

\* The grants go with the account.
LEMMA DeleteAccountStep ==
  ASSUME IInv, NEW u \in Users, DeleteAccount(u)
  PROVE  IInv'
<1>1. TypeOK'
  BY DEF DeleteAccount, IInv, TypeOK, shop
<1> QED BY <1>1, WorldStep DEF DeleteAccount, IInv, GatewayOK

\* What an admin saves, and the calendar, leave payments and grants alone.
LEMMA ShopStep ==
  ASSUME IInv,
         \/ \E q \in Quests, price \in Prices \cup {None} : SetPrice(q, price)
         \/ \E c \in CouponIds : DeleteCoupon(c) \/ \E form \in CouponForms : SaveCoupon(c, form)
         \/ \E provider \in Providers : Toggle(provider)
         \/ NextDay
  PROVE  IInv'
<1>1. UNCHANGED <<grants, rows, remote, notices, pc, job, deleted, aborts>>
  BY DEF SetPrice, DeleteCoupon, SaveCoupon, Toggle, NextDay, ledger
<1>2. /\ published' \in [Quests -> Prices \cup {None}]
      /\ enabled' \subseteq Providers
      /\ today' \in Nat /\ edits' \in Nat
  BY DEF IInv, TypeOK, SetPrice, DeleteCoupon, SaveCoupon, Toggle, NextDay, Edit, ledger
<1>3. coupons' \in [CouponIds -> CouponForms \cup {None}] /\ redemptions' \subseteq RedemptionType
  BY DEF IInv, TypeOK, SetPrice, DeleteCoupon, SaveCoupon, Toggle, NextDay, ledger
<1>4. TypeOK'
  BY <1>1, <1>2, <1>3 DEF IInv, TypeOK
<1> QED BY <1>1, <1>4, WorldStep DEF IInv, GatewayOK

-----------------------------------------------------------------------------
(* The invariant, and what follows from it.                                 *)

\* Nothing is under way in an initial state.
LEMMA InitIInv == Init => IInv
<1> SUFFICES ASSUME Init PROVE IInv
  OBVIOUS
<1>1. TypeOK
  BY DEF Init, TypeOK, NoJob, JobType, Labels, Vias
<1>2. \A r \in Requests : pc[r] = "idle"
  BY DEF Init
<1>3. (\A r \in Requests : Fit(r)) /\ OneInsert
  BY <1>2 DEF Fit, OneInsert, CheckoutPcs, SettlePcs
<1>4. RowsFollowGateway /\ GatewayOK /\ GrantsAreJustified /\ AnsweredMeansGranted
  BY DEF Init, RowsFollowGateway, GatewayOK, GrantsAreJustified, AnsweredMeansGranted
<1> QED BY <1>1, <1>3, <1>4 DEF IInv

\* No step breaks it.
LEMMA NextIInv == IInv /\ [Next]_vars => IInv'
<1> SUFFICES ASSUME IInv, [Next]_vars PROVE IInv'
  OBVIOUS
<1>1. CASE \E r \in Requests : Checkout(r)
  <2>1. PICK r \in Requests : Checkout(r)
    BY <1>1
  <2> QED BY <2>1, StartCheckoutStep, GetPublishedStep, QuoteGiftStep, RequireProviderStep,
             RedeemAtCheckoutStep, ReuseOpenPaymentStep, QuoteChargeStep, CreatePaymentStep,
             CreateFailsStep, InsertRowStep DEF Checkout
<1>2. CASE \E r \in Requests : Settle(r)
  <2>1. PICK r \in Requests : Settle(r)
    BY <1>2
  <2>2. CASE \E p \in PaymentIds : Poll(r, p) \/ Webhook(r, p)
    BY <2>2, LoadRowStep DEF Poll, Webhook
  <2>3. CASE ~\E p \in PaymentIds : Poll(r, p) \/ Webhook(r, p)
    BY <2>1, <2>3, FetchRemoteStep, SettleSucceededStep, RedeemHeldStep, MarkCanceledStep,
       TellStatusStep, CreateGrantStep DEF Settle
  <2> QED BY <2>2, <2>3
<1>3. CASE \E r \in Requests : Abort(r)
  BY <1>3, AbortStep
<1>4. CASE World
  BY <1>4, GatewayStep, WebhookUnknownStep, DeleteAccountStep, ShopStep DEF World
<1>5. CASE UNCHANGED vars
  <2>1. TypeOK'
    BY <1>5 DEF IInv, TypeOK, vars
  <2> QED BY <1>5, <2>1, WorldStep DEF IInv, GatewayOK, vars
<1> QED BY <1>1, <1>2, <1>3, <1>4, <1>5 DEF Next

\* So it holds in every state of every behaviour.
LEMMA Inductive == Spec => []IInv
BY InitIInv, NextIInv, PTL DEF Spec

\* Every variable keeps its type, and a handler that ended or died leaves nothing
\* behind, whatever the number of players, quests, coupons, payments and handlers.
THEOREM TypeCorrect == Spec => []TypeOK
<1>1. IInv => TypeOK
  BY DEF IInv
<1> QED BY <1>1, Inductive, PTL

\* settle records a payment as paid or canceled only on the gateway's word.
THEOREM RowsFollowGatewayAlways == Spec => []RowsFollowGateway
<1>1. IInv => RowsFollowGateway
  BY DEF IInv
<1> QED BY <1>1, Inductive, PTL

\* Access that names a payment was paid by that player for that quest, and a
\* player holds one grant per quest.
THEOREM GrantsAlwaysJustified == Spec => []GrantsAreJustified
<1>1. IInv => GrantsAreJustified
  BY DEF IInv
<1> QED BY <1>1, Inductive, PTL

\* Once the gateway stops notifying a paid payment, its buyer has the quest or
\* has deleted the account.
THEOREM AnsweredAlwaysGranted == Spec => []AnsweredMeansGranted
<1>1. IInv => AnsweredMeansGranted
  BY DEF IInv
<1> QED BY <1>1, Inductive, PTL

\* No coupon, price or race makes yookassa_checkout ask the gateway for nothing
\* or for more than the price.
THEOREM InsertAlwaysAccepted == Spec => []InsertIsAccepted
<1>1. IInv => InsertIsAccepted
  BY DEF IInv, Fit, FitCheckout, CheckoutPcs, InsertIsAccepted
<1> QED BY <1>1, Inductive, PTL

\* No step takes a grant away, or rewrites one, but the deletion of its owner's
\* account.
THEOREM FirstGrantAlwaysWins == Spec => FirstGrantWins
<1> DEFINE Kept == \A g \in grants \ grants' : g.user \in deleted' \ deleted
<1>1. IInv /\ [Next]_vars => [Kept]_vars
  <2> SUFFICES ASSUME Next PROVE Kept
    BY DEF vars
  <2>1. CASE \E u \in Users : DeleteAccount(u)
    BY <2>1 DEF DeleteAccount
  <2>2. CASE ~\E u \in Users : DeleteAccount(u)
    <3>1. ASSUME NEW r \in Requests, Checkout(r)
          PROVE  UNCHANGED grants
      BY <3>1 DEF Checkout, StartCheckout, GetPublished, QuoteGift, RequireProvider,
         RedeemAtCheckout, ReuseOpenPayment, QuoteCharge, CreatePayment, CreateFails,
         InsertRow, ledger
    <3>2. ASSUME NEW r \in Requests, Settle(r)
          PROVE  grants \subseteq grants'
      BY <3>2 DEF Settle, Poll, Webhook, LoadRow, FetchRemote, SettleSucceeded, RedeemHeld,
         MarkCanceled, TellStatus, CreateGrant, ledger
    <3>3. ASSUME NEW r \in Requests, Abort(r)
          PROVE  UNCHANGED grants
      BY <3>3 DEF Abort, ledger
    <3>4. World => UNCHANGED grants
      BY <2>2 DEF World, PayerPays, GatewayCancels, WebhookUnknown, SetPrice, SaveCoupon,
         DeleteCoupon, Toggle, NextDay, ledger
    <3>5. grants \subseteq grants'
      BY <3>1, <3>2, <3>3, <3>4 DEF Next
    <3> QED BY <3>5
  <2> QED BY <2>1, <2>2
<1> QED BY <1>1, Inductive, PTL DEF Spec, FirstGrantWins
-----------------------------------------------------------------------------
(* The redemption log.  That a payment burns its code once is again not      *)
(* inductive: it takes that no two coupons share a code, since a burn is one *)
(* redemption only then, and that whoever is about to burn has just won the  *)
(* compare-and-set of a row that never changes again.                        *)

\* The coupon form keeps codes unique.
CodesUnique ==
  \A c, d \in CouponIds :
    coupons[c] # None /\ coupons[d] # None /\ coupons[c].code = coupons[d].code => c = d

\* One handler burns, or one redemption is burnt, for a payment settled with a code.
BurnsOne(p) ==
  /\ \A r, s \in Requests :
       pc[r] = "burn" /\ pc[s] = "burn" /\ job[r].pay = p /\ job[s].pay = p => r = s
  /\ \A x, y \in redemptions : x.by = p /\ y.by = p => x = y
  /\ \A r \in Requests, x \in redemptions : ~(pc[r] = "burn" /\ job[r].pay = p /\ x.by = p)
  /\ \A x \in redemptions :
       x.by = p => rows[p] # None /\ rows[p].status = "succeeded" /\ rows[p].code # None

LogOK ==
  /\ CodesUnique
  /\ \A p \in PaymentIds : BurnsOne(p)
  /\ IsFiniteSet(redemptions)

\* A row settled as paid never changes again.
LEMMA PaidRowStays ==
  ASSUME IInv, [Next]_vars, NEW p \in PaymentIds, rows[p] # None, rows[p].status = "succeeded"
  PROVE  rows'[p] = rows[p]
<1>1. CASE UNCHANGED rows
  BY <1>1
<1>2. ASSUME NEW r \in Requests, InsertRow(r)
      PROVE  rows'[p] = rows[p]
  <2>1. job[r].pay # p
    BY <1>2 DEF InsertRow, IInv, Fit, FitCheckout, CheckoutPcs
  <2> QED BY <1>2, <2>1 DEF InsertRow, IInv, TypeOK
<1>3. ASSUME NEW r \in Requests, SettleSucceeded(r) \/ MarkCanceled(r)
      PROVE  rows'[p] = rows[p]
  <2>1. CASE UNCHANGED rows
    BY <2>1
  <2>2. CASE /\ rows[job[r].pay].status = "pending"
             /\ \E st \in {"succeeded", "canceled"} :
                  rows' = [rows EXCEPT ![job[r].pay].status = st]
    <3>1. job[r].pay # p
      BY <2>2
    <3> QED BY <2>2, <3>1 DEF IInv, TypeOK
  <2> QED BY <1>3, <2>1, <2>2 DEF SettleSucceeded, MarkCanceled
<1>4. CASE \E r \in Requests : Checkout(r) /\ ~InsertRow(r)
  BY <1>1, <1>4 DEF Checkout, StartCheckout, GetPublished, QuoteGift, RequireProvider,
     RedeemAtCheckout, ReuseOpenPayment, QuoteCharge, CreatePayment, CreateFails, ledger
<1>5. CASE \E r \in Requests : Settle(r) /\ ~SettleSucceeded(r) /\ ~MarkCanceled(r)
  BY <1>1, <1>5 DEF Settle, Poll, Webhook, LoadRow, FetchRemote, RedeemHeld, TellStatus,
     CreateGrant, ledger
<1>6. CASE World \/ \E r \in Requests : Abort(r)
  BY <1>1, <1>6 DEF World, PayerPays, GatewayCancels, WebhookUnknown, SetPrice, SaveCoupon,
     DeleteCoupon, Toggle, DeleteAccount, NextDay, Abort, ledger
<1>7. CASE UNCHANGED vars
  BY <1>1, <1>7 DEF vars
<1> QED BY <1>2, <1>3, <1>4, <1>5, <1>6, <1>7 DEF Next

\* A step after which nobody burns who did not, and no payment has burnt anew, keeps
\* the log in order.
LEMMA LogFrame ==
  ASSUME IInv, LogOK, [Next]_vars, CodesUnique', IsFiniteSet(redemptions'),
         \A s \in Requests : pc'[s] = "burn" => pc[s] = "burn" /\ job'[s].pay = job[s].pay,
         \A x \in redemptions' : x \in redemptions \/ x.by \notin PaymentIds
  PROVE  LogOK'
<1> SUFFICES ASSUME NEW p \in PaymentIds PROVE BurnsOne(p)'
  BY DEF LogOK
<1>1. BurnsOne(p)
  BY DEF LogOK
<1>2. \A x \in redemptions' : x.by = p => x \in redemptions
  OBVIOUS
<1>3. \A x \in redemptions' : x.by = p =>
        rows'[p] # None /\ rows'[p].status = "succeeded" /\ rows'[p].code # None
  BY <1>1, <1>2, PaidRowStays DEF BurnsOne
<1> QED BY <1>1, <1>2, <1>3 DEF BurnsOne

\* At most one coupon has the code, so what may be redeemed is one coupon.
LEMMA OneMayRedeem ==
  ASSUME CodesUnique, NEW code, NEW u, NEW q,
         NEW c \in MayRedeem(code, u, q), NEW d \in MayRedeem(code, u, q)
  PROVE  c = d
BY DEF CodesUnique, MayRedeem, Redeemable, WithCode

LEMMA RedeemAtCheckoutLog ==
  ASSUME IInv, LogOK, [Next]_vars, NEW r \in Requests, RedeemAtCheckout(r)
  PROVE  LogOK'
<1>1. CodesUnique'
  BY DEF LogOK, CodesUnique, RedeemAtCheckout
<1>2. \/ UNCHANGED redemptions
      \/ \E x : redemptions' = redemptions \cup {x} /\ x.by = "checkout"
  BY DEF RedeemAtCheckout, Redemption
<1>3. IsFiniteSet(redemptions')
  BY <1>2, FS_AddElement DEF LogOK
<1>4. \A s \in Requests : pc'[s] = "burn" => pc[s] = "burn" /\ job'[s] = job[s]
  <2>1. \E label \in {"grant", "refused"} : Goto(r, label)
    BY DEF RedeemAtCheckout, GrantNext, Refuse
  <2>2. \A s \in Requests \ {r} : job'[s] = job[s]
    BY DEF RedeemAtCheckout, GrantNext, Refuse, IInv, TypeOK
  <2> QED BY <2>1, <2>2 DEF Goto, IInv, TypeOK
<1>5. \A x \in redemptions' : x \in redemptions \/ x.by \notin PaymentIds
  BY <1>2, ByAssumption
<1> QED BY <1>1, <1>3, <1>4, <1>5, LogFrame

\* The winner of the compare-and-set finds a row nobody has burnt for.
LEMMA SettleSucceededLog ==
  ASSUME IInv, LogOK, [Next]_vars, NEW r \in Requests, SettleSucceeded(r)
  PROVE  LogOK'
<1>1. PICK p : p = job[r].pay
  OBVIOUS
<1>2. /\ p \in PaymentIds /\ pc[r] = "flip" /\ UNCHANGED <<coupons, redemptions, job>>
  BY <1>1 DEF SettleSucceeded, IInv, Fit, FitSettle, SettlePcs
<1>3. CodesUnique' /\ IsFiniteSet(redemptions')
  BY <1>2 DEF LogOK, CodesUnique
<1>4. CASE rows[p].status # "pending" \/ job[r].code = None
  <2>1. \A s \in Requests : pc'[s] = "burn" => pc[s] = "burn" /\ job'[s] = job[s]
    BY <1>1, <1>2, <1>4 DEF SettleSucceeded, Goto, IInv, TypeOK
  <2> QED BY <1>2, <1>3, <2>1, LogFrame
<1>5. CASE rows[p].status = "pending" /\ job[r].code # None
  <2>1. /\ \A x \in redemptions : x.by # p
        /\ \A s \in Requests : pc[s] = "burn" => job[s].pay # p
    BY <1>2, <1>5 DEF LogOK, BurnsOne, IInv, Fit, FitSettle, SettlePcs
  <2>2. \A s \in Requests : pc'[s] = "burn" => s = r \/ pc[s] = "burn"
    BY <1>2 DEF SettleSucceeded, Goto, IInv, TypeOK
  <2>3. ASSUME NEW o \in PaymentIds PROVE BurnsOne(o)'
    <3>1. BurnsOne(o)
      BY DEF LogOK
    <3>2. \A x \in redemptions : x.by = o =>
            rows'[o] # None /\ rows'[o].status = "succeeded" /\ rows'[o].code # None
      BY <3>1, PaidRowStays DEF BurnsOne
    <3>3. CASE o = p
      BY <1>1, <1>2, <2>1, <2>2, <3>3 DEF BurnsOne
    <3>4. CASE o # p
      BY <1>1, <1>2, <2>2, <3>1, <3>2, <3>4 DEF BurnsOne
    <3> QED BY <3>3, <3>4
  <2> QED BY <1>3, <2>3 DEF LogOK
<1> QED BY <1>4, <1>5

\* Its burn is one redemption, or none.
LEMMA RedeemHeldLog ==
  ASSUME IInv, LogOK, [Next]_vars, NEW r \in Requests, RedeemHeld(r)
  PROVE  LogOK'
<1>1. PICK p : p = job[r].pay
  OBVIOUS
<1>2. /\ p \in PaymentIds /\ pc[r] = "burn" /\ UNCHANGED <<coupons, rows, job>>
      /\ rows[p] # None /\ rows[p].status = "succeeded" /\ rows[p].code # None
  BY <1>1, NoneAssumption DEF RedeemHeld, IInv, Fit, FitSettle, SettlePcs
<1>3. CodesUnique'
  BY <1>2 DEF LogOK, CodesUnique
<1>4. \A s \in Requests : pc'[s] = "burn" => s # r /\ pc[s] = "burn"
  BY DEF RedeemHeld, Goto, IInv, TypeOK
<1>5. PICK fresh :
        /\ redemptions' = redemptions \cup fresh
        /\ fresh = {} \/ \E x : fresh = {x} /\ x.by = p
  <2>1. PICK M : M = MayRedeem(job[r].code, job[r].user, job[r].quest)
    OBVIOUS
  <2>2. \A c, d \in M : c = d
    BY <2>1, OneMayRedeem DEF LogOK
  <2>3. PICK fresh :
          /\ redemptions' = redemptions \cup fresh
          /\ \/ fresh = {}
             \/ fresh = {Redemption(c, job[r].user, job[r].quest, job[r].price, job[r].pay) :
                           c \in M}
    BY <2>1 DEF RedeemHeld
  <2>4. \A c : Redemption(c, job[r].user, job[r].quest, job[r].price, job[r].pay).by = p
    BY <1>1 DEF Redemption
  <2>5. fresh = {} \/ \E x : fresh = {x} /\ x.by = p
    <3>1. CASE M = {}
      BY <2>3, <3>1
    <3>2. ASSUME NEW c \in M
          PROVE  fresh = {} \/ \E x : fresh = {x} /\ x.by = p
      <4>1. M = {c}
        BY <2>2
      <4> QED BY <2>3, <2>4, <4>1
    <3> QED BY <3>1, <3>2
  <2> QED BY <2>3, <2>5
<1>6. IsFiniteSet(redemptions')
  BY <1>5, FS_AddElement, FS_EmptySet DEF LogOK
<1>7. ASSUME NEW o \in PaymentIds PROVE BurnsOne(o)'
  <2>1. BurnsOne(o) /\ BurnsOne(p)
    BY <1>2 DEF LogOK
  <2>2. CASE o = p
    <3>1. \A x \in redemptions : x.by # p
      BY <1>1, <1>2, <2>1 DEF BurnsOne
    <3>2. \A s \in Requests : pc'[s] = "burn" => job'[s].pay # p
      BY <1>1, <1>2, <1>4, <2>1 DEF BurnsOne
    <3> QED BY <1>2, <1>5, <2>2, <3>1, <3>2 DEF BurnsOne
  <2>3. CASE o # p
    BY <1>2, <1>4, <1>5, <2>1, <2>3 DEF BurnsOne
  <2> QED BY <2>2, <2>3
<1> QED BY <1>3, <1>6, <1>7 DEF LogOK

\* Every other step of a handler.
LEMMA HandlerLog ==
  ASSUME IInv, LogOK, [Next]_vars, NEW r \in Requests,
         \/ Checkout(r) /\ ~RedeemAtCheckout(r)
         \/ Settle(r) /\ ~SettleSucceeded(r) /\ ~RedeemHeld(r)
         \/ Abort(r)
  PROVE  LogOK'
<1>1. UNCHANGED <<coupons, redemptions>>
  BY DEF Checkout, StartCheckout, GetPublished, QuoteGift, RequireProvider, ReuseOpenPayment,
     QuoteCharge, CreatePayment, CreateFails, InsertRow, Settle, Poll, Webhook, LoadRow,
     FetchRemote, MarkCanceled, TellStatus, CreateGrant, Abort, ledger
<1>2. PICK label \in Labels \ {"burn"} : Goto(r, label)
  <2>1. CASE Checkout(r) /\ ~RedeemAtCheckout(r)
    BY <2>1 DEF Checkout, StartCheckout, GetPublished, QuoteGift, RequireProvider,
       ReuseOpenPayment, QuoteCharge, CreatePayment, CreateFails, InsertRow, GrantNext,
       Refuse, Answer, Labels
  <2>2. CASE \E p \in PaymentIds : Poll(r, p) \/ Webhook(r, p)
    <3>1. PICK p \in PaymentIds : rows[p] # None /\ Goto(r, AfterLoad(rows[p].status))
      BY <2>2 DEF Poll, Webhook, LoadRow
    <3>2. rows[p].status \in Statuses
      BY <3>1 DEF IInv, TypeOK, RowType
    <3>3. AfterLoad(rows[p].status) \in {"fetch", "grant", "tell"}
      BY <3>2 DEF AfterLoad, Statuses
    <3> QED BY <3>1, <3>3 DEF Labels
  <2>3. CASE FetchRemote(r)
    <3>1. FitSettle(r) /\ job[r].pay \in PaymentIds /\ rows[job[r].pay] # None
      BY <2>3 DEF FetchRemote, IInv, Fit, FitSettle, SettlePcs
    <3>2. remote[job[r].pay] \in Statuses
      BY <3>1 DEF IInv, TypeOK, RowsFollowGateway
    <3>3. AfterFetch(remote[job[r].pay]) \in {"flip", "cancel", "tell"}
      BY <3>2 DEF AfterFetch, Statuses
    <3> QED BY <2>3, <3>3 DEF FetchRemote, Labels
  <2>4. CASE MarkCanceled(r) \/ TellStatus(r) \/ CreateGrant(r) \/ Abort(r)
    BY <2>4 DEF MarkCanceled, TellStatus, CreateGrant, Abort, Answer, Labels
  <2> QED BY <2>1, <2>2, <2>3, <2>4 DEF Settle
<1>3. \A s \in Requests \ {r} : job'[s] = job[s]
  BY DEF Checkout, StartCheckout, GetPublished, QuoteGift, RequireProvider, ReuseOpenPayment,
     QuoteCharge, CreatePayment, CreateFails, InsertRow, Settle, Poll, Webhook, LoadRow,
     FetchRemote, MarkCanceled, TellStatus, CreateGrant, Abort, GrantNext, Refuse, Answer,
     IInv, TypeOK
<1>4. \A s \in Requests : pc'[s] = "burn" => pc[s] = "burn" /\ job'[s] = job[s]
  BY <1>2, <1>3 DEF Goto, IInv, TypeOK
<1>5. CodesUnique' /\ IsFiniteSet(redemptions')
  BY <1>1 DEF LogOK, CodesUnique
<1> QED BY <1>1, <1>4, <1>5, LogFrame

\* The coupon form keeps codes unique; a deleted coupon takes its log along.
LEMMA WorldLog ==
  ASSUME IInv, LogOK, [Next]_vars, World \/ UNCHANGED vars
  PROVE  LogOK'
<1>1. UNCHANGED <<pc, job>>
  BY DEF World, PayerPays, GatewayCancels, WebhookUnknown, SetPrice, SaveCoupon, DeleteCoupon,
     Toggle, DeleteAccount, NextDay, vars
<1>2. CASE UNCHANGED <<coupons, redemptions>>
  <2>1. CodesUnique' /\ IsFiniteSet(redemptions')
    BY <1>2 DEF LogOK, CodesUnique
  <2> QED BY <1>1, <1>2, <2>1, LogFrame
<1>3. ASSUME NEW c \in CouponIds, NEW form \in CouponForms, SaveCoupon(c, form)
      PROVE  LogOK'
  <2>1. CodesUnique'
    <3> SUFFICES ASSUME NEW d \in CouponIds, NEW e \in CouponIds,
                        coupons'[d] # None, coupons'[e] # None,
                        coupons'[d].code = coupons'[e].code, d # e
                 PROVE  FALSE
      BY DEF CodesUnique
    <3>1. /\ WithCode(form.code) \subseteq {c} /\ coupons'[c] = form
          /\ \A x \in CouponIds \ {c} : coupons'[x] = coupons[x]
      BY <1>3 DEF SaveCoupon, IInv, TypeOK
    <3>2. CASE d = c
      <4>1. e \in WithCode(form.code)
        BY <3>1, <3>2 DEF WithCode
      <4> QED BY <3>1, <3>2, <4>1
    <3>3. CASE e = c
      <4>1. d \in WithCode(form.code)
        BY <3>1, <3>3 DEF WithCode
      <4> QED BY <3>1, <3>3, <4>1
    <3>4. CASE d # c /\ e # c
      BY <3>1, <3>4 DEF LogOK, CodesUnique
    <3> QED BY <3>2, <3>3, <3>4
  <2>2. UNCHANGED redemptions
    BY <1>3 DEF SaveCoupon
  <2> QED BY <1>1, <2>1, <2>2, LogFrame DEF LogOK
<1>4. ASSUME NEW c \in CouponIds, DeleteCoupon(c)
      PROVE  LogOK'
  <2>1. CodesUnique'
    BY <1>4 DEF DeleteCoupon, LogOK, CodesUnique, IInv, TypeOK
  <2>2. redemptions' \subseteq redemptions
    BY <1>4 DEF DeleteCoupon
  <2>3. IsFiniteSet(redemptions')
    BY <2>2, FS_Subset DEF LogOK
  <2> QED BY <1>1, <2>1, <2>2, <2>3, LogFrame
<1> QED BY <1>2, <1>3, <1>4 DEF World, PayerPays, GatewayCancels, WebhookUnknown, SetPrice,
       Toggle, DeleteAccount, NextDay, ledger, vars

LEMMA InitLog == Init => LogOK
<1> SUFFICES ASSUME Init PROVE LogOK
  OBVIOUS
<1>1. CodesUnique
  BY DEF Init, CodesUnique
<1>2. \A p \in PaymentIds : BurnsOne(p)
  BY DEF Init, BurnsOne
<1> QED BY <1>1, <1>2, FS_EmptySet DEF Init, LogOK

LEMMA NextLog == IInv /\ LogOK /\ [Next]_vars => LogOK'
BY RedeemAtCheckoutLog, SettleSucceededLog, RedeemHeldLog, HandlerLog, WorldLog DEF Next

LEMMA LogAlwaysOK == Spec => []LogOK
BY InitLog, NextLog, Inductive, PTL DEF Spec

\* A set that is empty or has one member counts so.
LEMMA NoneOrOne ==
  ASSUME NEW S, S = {} \/ \E x : S = {x}
  PROVE  Cardinality(S) \in {0, 1} /\ (S = {} => Cardinality(S) = 0)
<1>1. CASE S = {}
  <2>1. Cardinality(S) = 0
    BY <1>1, FS_EmptySet
  <2> QED BY <2>1
<1>2. CASE S # {}
  <2>1. PICK x : S = {x}
    BY <1>2
  <2>2. Cardinality({x}) = 1
    BY FS_Singleton
  <2> QED BY <1>2, <2>1, <2>2
<1> QED BY <1>1, <1>2

\* "Only the CAS winner redeems the held coupon": however many polls, notifications
\* and dying handlers settle a payment, it accounts for at most one redemption,
\* recorded or about to be, and only once its row is settled as paid.
THEOREM HeldCouponAlwaysBurnsOnce == Spec => []HeldCouponBurnsOnce
<1>1. IInv /\ LogOK => HeldCouponBurnsOnce
  <2> SUFFICES ASSUME IInv, LogOK, NEW p \in PaymentIds,
                      NEW burning, burning = {r \in Requests : pc[r] = "burn" /\ job[r].pay = p},
                      NEW burnt, burnt = {x \in redemptions : x.by = p}
               PROVE  /\ Cardinality(burning) + Cardinality(burnt) <= 1
                      /\ burning \cup burnt # {} => /\ rows[p] # None
                                                    /\ rows[p].status = "succeeded"
                                                    /\ rows[p].code # None
    BY DEF HeldCouponBurnsOnce
  <2>1. BurnsOne(p)
    BY DEF LogOK
  <2>2. burning = {} \/ \E r : burning = {r}
    BY <2>1 DEF BurnsOne
  <2>3. burnt = {} \/ \E x : burnt = {x}
    BY <2>1 DEF BurnsOne
  <2>4. burning = {} \/ burnt = {}
    BY <2>1 DEF BurnsOne
  <2>5. Cardinality(burning) + Cardinality(burnt) <= 1
    <3>1. /\ Cardinality(burning) \in {0, 1} /\ Cardinality(burnt) \in {0, 1}
          /\ burning = {} => Cardinality(burning) = 0
          /\ burnt = {} => Cardinality(burnt) = 0
      BY <2>2, <2>3, NoneOrOne
    <3> QED BY <2>4, <3>1
  <2>6. ASSUME NEW r \in burning
        PROVE  rows[p] # None /\ rows[p].status = "succeeded" /\ rows[p].code # None
    BY NoneAssumption DEF IInv, Fit, FitSettle, SettlePcs
  <2>7. ASSUME NEW x \in burnt
        PROVE  rows[p] # None /\ rows[p].status = "succeeded" /\ rows[p].code # None
    BY <2>1 DEF BurnsOne
  <2> QED BY <2>5, <2>6, <2>7
<1> QED BY <1>1, Inductive, LogAlwaysOK, PTL

\* check_redeemable refuses a coupon at either of its caps.
LEMMA BelowCaps ==
  ASSUME NEW coupon, NEW quest, NEW used \in Nat, NEW mine \in Nat, NEW day,
         coupon.cap \in Nat \cup {None}, coupon.perUser \in Nat \cup {None},
         CheckRedeemable(coupon, quest, used, mine, day)
  PROVE  /\ coupon.cap # None => used < coupon.cap
         /\ coupon.perUser # None => mine < coupon.perUser
<1>1. "exhausted" \notin RefusalReasons(coupon, quest, used, mine, day)
      /\ "per_user_limit" \notin RefusalReasons(coupon, quest, used, mine, day)
  BY DEF CheckRedeemable
<1>2. ~IsExhausted(coupon.cap, used) /\ ~(coupon.perUser # None /\ mine >= coupon.perUser)
  BY <1>1 DEF RefusalReasons
<1> QED BY <1>2, NoneAssumption DEF IsExhausted

\* One more redemption adds at most one to a finite count.
LEMMA OneMore ==
  ASSUME NEW S, IsFiniteSet(S), NEW x, NEW cap \in Nat, Cardinality(S) < cap
  PROVE  Cardinality(S \cup {x}) <= cap
<1>1. Cardinality(S) \in Nat
  BY FS_CardinalityType
<1>2. Cardinality(S \cup {x}) = Cardinality(S) \/ Cardinality(S \cup {x}) = Cardinality(S) + 1
  BY FS_AddElement
<1> QED BY <1>1, <1>2

\* A redemption the store's lock lets through finds room under both caps, and no
\* earlier one of its player and quest.
LEMMA RecordWithinCaps ==
  ASSUME IInv, LogOK, NEW code, NEW u, NEW q, NEW price, NEW by,
         NEW c \in MayRedeem(code, u, q), Recorded(code, u, q) = {},
         NEW x, x = Redemption(c, u, q, price, by), redemptions' = redemptions \cup {x}
  PROVE  LET coupon == coupons[x.coupon]
             total  == Cardinality({y \in redemptions' : y.coupon = x.coupon})
             mine   == Cardinality({y \in redemptions' : y.coupon = x.coupon
                                                         /\ y.user = x.user})
             pair   == {y \in redemptions' : y.coupon = x.coupon /\ y.user = x.user
                                                                 /\ y.quest = x.quest}
         IN /\ coupon # None
            /\ coupon.cap # None => total <= coupon.cap
            /\ coupon.perUser # None => mine <= coupon.perUser
            /\ pair = {x}
<1>1. /\ c \in WithCode(code) /\ c \in CouponIds /\ coupons[c] # None
      /\ CheckRedeemable(coupons[c], q, Cardinality(UsesOf(c)), Cardinality(UsesBy(c, u)), today)
  BY DEF MayRedeem, Redeemable, WithCode
<1>2. coupons[c] \in CouponType
  BY <1>1, FormsAssumption DEF IInv, TypeOK
<1>3. coupons[c].cap \in Nat \cup {None} /\ coupons[c].perUser \in Nat \cup {None}
  BY <1>2 DEF CouponType
<1>4. IsFiniteSet(UsesOf(c)) /\ IsFiniteSet(UsesBy(c, u))
  <2>1. UsesOf(c) \in SUBSET redemptions /\ UsesBy(c, u) \in SUBSET redemptions
    BY DEF UsesOf, UsesBy
  <2> QED BY <2>1, FS_Subset DEF LogOK
<1>5. Cardinality(UsesOf(c)) \in Nat /\ Cardinality(UsesBy(c, u)) \in Nat
  BY <1>4, FS_CardinalityType
<1>6. /\ coupons[c].cap # None => Cardinality(UsesOf(c)) < coupons[c].cap
      /\ coupons[c].perUser # None => Cardinality(UsesBy(c, u)) < coupons[c].perUser
  BY <1>1, <1>3, <1>5, BelowCaps
<1>7. x.coupon = c /\ x.user = u /\ x.quest = q
  BY DEF Redemption
<1>8. /\ {y \in redemptions' : y.coupon = x.coupon} = UsesOf(c) \cup {x}
      /\ {y \in redemptions' : y.coupon = x.coupon /\ y.user = x.user} = UsesBy(c, u) \cup {x}
  BY <1>7 DEF UsesOf, UsesBy
<1>9. {y \in redemptions' : y.coupon = x.coupon /\ y.user = x.user /\ y.quest = x.quest} = {x}
  <2>1. \A y \in redemptions : ~(y.coupon = c /\ y.user = u /\ y.quest = q)
    BY <1>1 DEF Recorded
  <2> QED BY <1>7, <2>1
<1>10. coupons[c].cap # None => Cardinality(UsesOf(c) \cup {x}) <= coupons[c].cap
  BY <1>3, <1>4, <1>6, OneMore
<1>11. coupons[c].perUser # None => Cardinality(UsesBy(c, u) \cup {x}) <= coupons[c].perUser
  BY <1>3, <1>4, <1>6, OneMore
<1> QED BY <1>1, <1>7, <1>8, <1>9, <1>10, <1>11

\* redeem under the store's lock: no step of any handler, and no save of the admin,
\* records a redemption past the caps of its coupon as they stand, nor a second one for
\* one player and quest.
THEOREM CapsAlwaysHold == Spec => CapsHold
<1> DEFINE Within ==
      \A x \in redemptions' \ redemptions :
        LET coupon == coupons[x.coupon]
            total  == Cardinality({y \in redemptions' : y.coupon = x.coupon})
            mine   == Cardinality({y \in redemptions' : y.coupon = x.coupon /\ y.user = x.user})
            pair   == {y \in redemptions' : y.coupon = x.coupon /\ y.user = x.user
                                                                /\ y.quest = x.quest}
        IN /\ coupon # None
           /\ coupon.cap # None => total <= coupon.cap
           /\ coupon.perUser # None => mine <= coupon.perUser
           /\ pair = {x}
<1>1. IInv /\ LogOK /\ [Next]_vars => [Within]_vars
  <2> SUFFICES ASSUME IInv, LogOK, Next PROVE Within
    BY DEF vars
  <2>1. CASE redemptions' \subseteq redemptions
    BY <2>1
  <2>2. ASSUME NEW code, NEW u, NEW q, NEW price, NEW by, NEW c \in MayRedeem(code, u, q),
               Recorded(code, u, q) = {},
               redemptions' = redemptions \cup {Redemption(c, u, q, price, by)}
        PROVE  Within
    <3>1. PICK x : x = Redemption(c, u, q, price, by)
      OBVIOUS
    <3>2. redemptions' = redemptions \cup {x} /\ redemptions' \ redemptions \subseteq {x}
      BY <2>2, <3>1
    <3> QED BY <2>2, <3>1, <3>2, RecordWithinCaps
  <2>3. ASSUME NEW r \in Requests, RedeemAtCheckout(r)
        PROVE  Within
    BY <2>1, <2>2, <2>3 DEF RedeemAtCheckout
  <2>4. ASSUME NEW r \in Requests, RedeemHeld(r)
        PROVE  Within
    <3>1. PICK M, u, q : /\ M = MayRedeem(job[r].code, u, q)
                         /\ u = job[r].user /\ q = job[r].quest
      OBVIOUS
    <3>2. \A c, d \in M : c = d
      BY <3>1, OneMayRedeem DEF LogOK
    <3>3. CASE redemptions' = redemptions
      BY <2>1, <3>3
    <3>4. CASE /\ Recorded(job[r].code, u, q) = {}
               /\ redemptions' = redemptions \cup
                    {Redemption(c, u, q, job[r].price, job[r].pay) : c \in M}
      <4>1. CASE M = {}
        BY <2>1, <3>4, <4>1
      <4>2. ASSUME NEW c \in M PROVE Within
        <5>1. M = {c}
          BY <3>2
        <5>2. redemptions' = redemptions \cup {Redemption(c, u, q, job[r].price, job[r].pay)}
          BY <3>4, <5>1
        <5> HIDE DEF Within
        <5> QED BY <2>2, <3>1, <3>4, <5>2
      <4> QED BY <4>1, <4>2
    <3> QED BY <2>4, <3>1, <3>3, <3>4 DEF RedeemHeld
  <2>5. CASE ~\E r \in Requests : RedeemAtCheckout(r) \/ RedeemHeld(r)
    <3>1. redemptions' \subseteq redemptions
      BY <2>5 DEF Next, Checkout, StartCheckout, GetPublished, QuoteGift, RequireProvider,
         ReuseOpenPayment, QuoteCharge, CreatePayment, CreateFails, InsertRow, Settle, Poll,
         Webhook, LoadRow, FetchRemote, SettleSucceeded, MarkCanceled, TellStatus, CreateGrant,
         Abort, World, PayerPays, GatewayCancels, WebhookUnknown, SetPrice, SaveCoupon,
         DeleteCoupon, Toggle, DeleteAccount, NextDay, ledger
    <3> QED BY <2>1, <3>1
  <2> QED BY <2>3, <2>4, <2>5
<1> QED BY <1>1, Inductive, LogAlwaysOK, PTL DEF Spec, CapsHold

=============================================================================
