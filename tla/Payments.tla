------------------------------ MODULE Payments ------------------------------
(***************************************************************************)
(* Buying a quest: backend/src/payments.rs (checkout and settle), the      *)
(* routes of backend/src/handlers/payments.rs that call them, and the      *)
(* stores they write (grants, coupon redemptions, payment rows).           *)
(*                                                                         *)
(* A handler is an async task that gives up the processor at every store   *)
(* or gateway call, so each call is one step here and any other handler,   *)
(* an admin save, or the payment gateway may run in between.  A handler    *)
(* may also die between two steps (the client hangs up, the store answers  *)
(* an error, the process is restarted): see Abort.                         *)
(*                                                                         *)
(* The gateway (YooKassa) is outside the repository; it is modelled by     *)
(* what the code in src/ relies on: a payment opens pending, ends once as  *)
(* succeeded or canceled, and its end is notified until a 200 comes back.  *)
(***************************************************************************)
EXTENDS Coupons, FiniteSets

CONSTANTS
  Users, Quests, CouponIds, Codes,
  PaymentIds,     \* tokens drawn by checkout: each is one gateway payment
  Requests,       \* handler tasks that may run at the same time
  Prices,         \* prices a published quest may carry, 0 for free or unpriced
  CouponForms,    \* coupons the admin form may save
  MaxDay,         \* bound: last calendar day
  MaxEdits,       \* bound: admin saves, deletions and toggles
  MaxAborts       \* bound: handlers that die half way

Providers == {"mock", "yookassa"}
Sources   == {"Payment", "CouponRedemption", "FreeQuest"}
Vias      == {"checkout", "poll", "webhook"}

CouponType ==
  [code     : Codes,
   discount : [kind : {"percent", "fixed"}, value : Nat],
   until    : Nat \cup {None},
   cap      : Nat \cup {None},
   perUser  : Nat \cup {None},
   quests   : (SUBSET Quests) \cup {None},
   paused   : BOOLEAN]

Statuses == {"pending", "succeeded", "canceled"}

RowType ==
  [user : Users, quest : Quests, code : Codes \cup {None},
   amount : Nat, price : Nat, status : Statuses]

ASSUME PricesAssumption  == Prices \subseteq Nat /\ 0 \in Prices
ASSUME FormsAssumption   ==
  CouponForms \subseteq CouponType /\ \A f \in CouponForms : ValidDiscount(f.discount)
ASSUME BoundsAssumption  == MaxDay \in Nat /\ MaxEdits \in Nat /\ MaxAborts \in Nat
ASSUME NoneAssumption    ==
  None \notin Users \cup Quests \cup Codes \cup PaymentIds \cup CouponForms \cup Int
  /\ None \notin CouponType /\ None \notin RowType
ASSUME MockRefAssumption == "mock" \notin PaymentIds \cup {None}
ASSUME ByAssumption      == "checkout" \notin PaymentIds
ASSUME OrderAssumption   ==
  None \notin [user : Users, quest : Quests, state : {"open", "paid", "void"}]

VARIABLES
  published,    \* quest -> price on sale, None when not listed
  enabled,      \* providers configured and switched on
  today,        \* the server's calendar day
  coupons,      \* coupon id -> coupon, None when absent
  redemptions,  \* the redemption log
  grants,       \* the access grants
  rows,         \* payment id -> pending_payments row, None when absent
  remote,       \* payment id -> its status at the gateway, "none" before it exists
  notices,      \* payments whose final status the gateway still notifies
  pc,           \* request -> the call its handler makes next
  job,          \* request -> what its handler holds across the calls
  deleted,      \* accounts deleted so far
  edits, aborts \* bounded counters

shop   == <<published, enabled, today, edits>>
ledger == <<coupons, redemptions, grants, rows>>
vars   == <<published, enabled, today, coupons, redemptions, grants, rows, remote,
            notices, pc, job, deleted, edits, aborts>>

-----------------------------------------------------------------------------
(* What the stores answer.                                                  *)

Owns(u, q)       == \E g \in grants : g.user = u /\ g.quest = q
UsesOf(c)        == {x \in redemptions : x.coupon = c}
UsesBy(c, u)     == {x \in UsesOf(c) : x.user = u}
WithCode(code)   == {c \in CouponIds : coupons[c] # None /\ coupons[c].code = code}
OpenFor(u, q)    == {p \in PaymentIds : /\ rows[p] # None
                                        /\ rows[p].status = "pending"
                                        /\ rows[p].user = u
                                        /\ rows[p].quest = q}

\* The coupons (at most one) that `code` redeems for this player and quest now.
Redeemable(code, u, q) ==
  {c \in WithCode(code) :
     CheckRedeemable(coupons[c], q, Cardinality(UsesOf(c)), Cardinality(UsesBy(c, u)), today)}

\* quote_coupon: the discount `code` gives on `price`; empty when it is refused.
Quote(code, u, q, price) ==
  {DiscountAmount(coupons[c].discount, price) : c \in Redeemable(code, u, q)}

\* The redemption already on record for this coupon, player and quest.
Recorded(code, u, q) ==
  {x \in redemptions : x.coupon \in WithCode(code) /\ x.user = u /\ x.quest = q}

\* `by` says who recorded it: "checkout", or the payment that held the code.
\* The code does not store it; properties read it, no action does.
Redemption(c, u, q, price, by) ==
  [coupon |-> c, user |-> u, quest |-> q,
   amount |-> DiscountAmount(coupons[c].discount, price), by |-> by]

-----------------------------------------------------------------------------
(* Requests.                                                                *)

NoJob == [user |-> None, quest |-> None, code |-> None, provider |-> None,
          price |-> None, charge |-> 0, pay |-> None, source |-> None,
          ref |-> None, via |-> "checkout"]

\* A handler that runs nothing: never started, answered, or answered 4xx.
Resting == {"idle", "refused"}

Goto(r, label) == pc' = [pc EXCEPT ![r] = label]

\* The 2xx answer.  A webhook answered 200 is not notified again.
Answer(r) ==
  /\ Goto(r, "idle")
  /\ job' = [job EXCEPT ![r] = NoJob]
  /\ notices' = IF job[r].via = "webhook" THEN notices \ {job[r].pay} ELSE notices

\* A 4xx or 501 answer: only a checkout is refused.
Refuse(r) ==
  /\ Goto(r, "refused")
  /\ job' = [job EXCEPT ![r] = NoJob]
  /\ UNCHANGED notices

\* Go on to create_grant_idemp with this audit source and reference.
GrantNext(r, source, ref) ==
  /\ Goto(r, "grant")
  /\ job' = [job EXCEPT ![r].source = source, ![r].ref = ref]

Init ==
  /\ published \in [Quests -> Prices \cup {None}]
  /\ enabled \in SUBSET Providers
  /\ today = 0
  /\ coupons \in {cs \in [CouponIds -> CouponForms \cup {None}] :
                   \A c, d \in CouponIds : cs[c] # None /\ cs[d] # None /\ cs[c].code = cs[d].code
                                             => c = d}
  /\ redemptions = {} /\ grants = {}
  /\ rows = [p \in PaymentIds |-> None]
  /\ remote = [p \in PaymentIds |-> "none"]
  /\ notices = {}
  /\ pc = [r \in Requests |-> "idle"]
  /\ job = [r \in Requests |-> NoJob]
  /\ deleted = {}
  /\ edits = 0 /\ aborts = 0

-----------------------------------------------------------------------------
(* checkout                                                                 *)

\* has_grant: an owner goes straight to the idempotent grant.
StartCheckout(r, u, q, code, provider) ==
  /\ pc[r] \in Resting
  /\ job' = [job EXCEPT ![r] =
               [NoJob EXCEPT !.user = u, !.quest = q, !.code = code, !.provider = provider,
                             !.source = IF Owns(u, q) THEN "Payment" ELSE None]]
  /\ Goto(r, IF Owns(u, q) THEN "grant" ELSE "listing")
  /\ UNCHANGED <<shop, ledger, remote, notices, deleted, aborts>>

\* get_published: a free quest is granted, a priced one carries its price on.
GetPublished(r) ==
  /\ pc[r] = "listing"
  /\ LET price == published[job[r].quest] IN
     \/ price = 0 /\ GrantNext(r, "FreeQuest", None)
     \/ /\ price # 0
        /\ job' = [job EXCEPT ![r].price = price]
        /\ Goto(r, IF price # None /\ job[r].code # None THEN "quote" ELSE "gate")
  /\ UNCHANGED <<shop, ledger, remote, notices, deleted, aborts>>

\* A coupon that covers the price settles before any provider is asked.
QuoteGift(r) ==
  /\ pc[r] = "quote"
  /\ LET gift == \E d \in Quote(job[r].code, job[r].user, job[r].quest, job[r].price) :
                    d >= job[r].price
     IN Goto(r, IF gift THEN "redeem" ELSE "gate")
  /\ UNCHANGED <<shop, ledger, remote, notices, job, deleted, aborts>>

\* require_provider_enabled, then the dispatch on the provider.
RequireProvider(r) ==
  /\ pc[r] = "gate"
  /\ \/ job[r].provider \notin enabled /\ Refuse(r)
     \/ /\ job[r].provider \in enabled /\ job[r].provider = "yookassa"
        /\ Goto(r, "reuse") /\ UNCHANGED <<job, notices>>
     \/ /\ job[r].provider \in enabled /\ job[r].provider = "mock"
        /\ \/ job[r].code = None /\ GrantNext(r, "Payment", "mock") /\ UNCHANGED notices
           \/ job[r].code # None /\ job[r].price = None /\ Refuse(r)
           \/ /\ job[r].code # None /\ job[r].price # None
              /\ Goto(r, "redeem") /\ UNCHANGED <<job, notices>>
  /\ UNCHANGED <<shop, ledger, remote, deleted, aborts>>

\* The redemption on record is answered again; a new one passes check_redeemable
\* under the store's lock, whatever an earlier quote said.
RedeemWhatWasQuoted(code, u, q) == WithCode(code)   \* faulty: no check under the lock

MayRedeem(code, u, q) == Redeemable(code, u, q)

RedeemAtCheckout(r) ==
  /\ pc[r] = "redeem"
  /\ LET u == job[r].user  q == job[r].quest  price == job[r].price
         record  == Recorded(job[r].code, u, q)
         Source(amount) == IF amount >= price THEN "CouponRedemption" ELSE "Payment"
         Ref(amount)    == IF amount >= price THEN None ELSE "mock"
     IN \/ /\ \E x \in record : GrantNext(r, Source(x.amount), Ref(x.amount))
           /\ UNCHANGED <<redemptions, notices>>
        \/ /\ record = {}
           /\ \E c \in MayRedeem(job[r].code, u, q) :
                LET x == Redemption(c, u, q, price, "checkout") IN
                /\ redemptions' = redemptions \cup {x}
                /\ GrantNext(r, Source(x.amount), Ref(x.amount))
           /\ UNCHANGED notices
        \/ /\ record = {} /\ MayRedeem(job[r].code, u, q) = {}
           /\ Refuse(r) /\ UNCHANGED redemptions
  /\ UNCHANGED <<shop, coupons, grants, rows, remote, deleted, aborts>>

-----------------------------------------------------------------------------
(* yookassa_checkout                                                        *)

\* find_pending_for: an open payment for this order is replayed.
ReuseOpenPayment(r) ==
  /\ pc[r] = "reuse"
  /\ LET open == OpenFor(job[r].user, job[r].quest) IN
     \/ open # {} /\ Answer(r)
     \/ open = {} /\ job[r].price = None /\ Refuse(r)
     \/ /\ open = {} /\ job[r].price # None
        /\ job' = [job EXCEPT ![r].charge = job[r].price]
        /\ Goto(r, IF job[r].code = None THEN "create" ELSE "requote")
        /\ UNCHANGED notices
  /\ UNCHANGED <<shop, ledger, remote, deleted, aborts>>

\* faulty: a coupon that covers the price is charged like any other
QuoteChargeOnly(r) ==
  /\ pc[r] = "requote"
  /\ LET quote == Quote(job[r].code, job[r].user, job[r].quest, job[r].price)
     IN \/ quote = {} /\ Refuse(r)
        \/ /\ \E d \in quote : job' = [job EXCEPT ![r].charge = job[r].price - d]
           /\ Goto(r, "create") /\ UNCHANGED notices
  /\ UNCHANGED <<shop, ledger, remote, deleted, aborts>>

\* The coupon prices the charge; one that covers it leaves the gateway out.
QuoteCharge(r) ==
  /\ pc[r] = "requote"
  /\ LET price == job[r].price
         quote == Quote(job[r].code, job[r].user, job[r].quest, price)
     IN \/ quote = {} /\ Refuse(r)
        \/ /\ \E d \in quote : d >= price
           /\ Goto(r, "redeem") /\ UNCHANGED <<job, notices>>
        \/ /\ \E d \in quote : d < price /\ job' = [job EXCEPT ![r].charge = price - d]
           /\ Goto(r, "create") /\ UNCHANGED notices
  /\ UNCHANGED <<shop, ledger, remote, deleted, aborts>>

\* create_payment under a fresh token: the gateway now knows the payment.
CreatePayment(r) ==
  /\ pc[r] = "create"
  /\ \E p \in PaymentIds :
       /\ remote[p] = "none"
       /\ remote' = [remote EXCEPT ![p] = "pending"]
       /\ job' = [job EXCEPT ![r].pay = p]
  /\ Goto(r, "insert")
  /\ UNCHANGED <<shop, ledger, notices, deleted, aborts>>

\* The gateway refuses or cannot be reached: 5xx, nothing was opened.
CreateFails(r) ==
  /\ pc[r] = "create"
  /\ Answer(r)
  /\ UNCHANGED <<shop, ledger, remote, deleted, aborts>>

\* The row is stored only now; the payer's link leaves with the answer.
InsertRow(r) ==
  /\ pc[r] = "insert"
  /\ rows' = [rows EXCEPT ![job[r].pay] =
       [user |-> job[r].user, quest |-> job[r].quest, code |-> job[r].code,
        amount |-> job[r].charge, price |-> job[r].price, status |-> "pending"]]
  /\ Answer(r)
  /\ UNCHANGED <<shop, coupons, redemptions, grants, remote, deleted, aborts>>

-----------------------------------------------------------------------------
(* settle, reached from the owner's poll and from the gateway's webhook.     *)

\* faulty: any row that is no longer pending is taken for settled
AfterLoadSettled(status) == IF status = "pending" THEN "fetch" ELSE "grant"

\* A settled row needs no second look at the gateway.
AfterLoad(status) ==
  CASE status = "pending"   -> "fetch"
    [] status = "succeeded" -> "grant"
    [] status = "canceled"  -> "tell"

\* The row as it is read decides where settle starts.
LoadRow(r, p, via) ==
  /\ pc[r] \in Resting
  /\ job' = [job EXCEPT ![r] =
       [NoJob EXCEPT !.user = rows[p].user, !.quest = rows[p].quest, !.code = rows[p].code,
                     !.price = rows[p].price, !.pay = p, !.via = via,
                     !.source = "Payment", !.ref = p]]
  /\ Goto(r, AfterLoad(rows[p].status))
  /\ UNCHANGED <<shop, ledger, remote, notices, deleted, aborts>>

Poll(r, p) == rows[p] # None /\ LoadRow(r, p, "poll")

Webhook(r, p) == p \in notices /\ rows[p] # None /\ LoadRow(r, p, "webhook")

\* A notification about a payment with no row is answered 200 and forgotten.
WebhookUnknown(p) ==
  /\ p \in notices /\ rows[p] = None
  /\ notices' = notices \ {p}
  /\ UNCHANGED <<shop, ledger, remote, pc, job, deleted, aborts>>

\* faulty: what is not canceled is taken for paid
AfterFetchTrusting(status) == IF status = "canceled" THEN "cancel" ELSE "flip"

\* faulty: a payment canceled at the gateway stays open here
AfterFetchKeepsOpen(status) == IF status = "succeeded" THEN "flip" ELSE "tell"

\* fetch_payment: only the gateway's word counts, never the notification's.
AfterFetch(status) ==
  CASE status = "succeeded" -> "flip"
    [] status = "canceled"  -> "cancel"
    [] status = "pending"   -> "tell"

FetchRemote(r) ==
  /\ pc[r] = "fetch"
  /\ Goto(r, AfterFetch(remote[job[r].pay]))
  /\ UNCHANGED <<shop, ledger, remote, notices, job, deleted, aborts>>

\* faulty: every settler takes itself for the winner
SettleAlways(r) ==
  /\ pc[r] = "flip"
  /\ rows' = [rows EXCEPT ![job[r].pay].status = "succeeded"]
  /\ Goto(r, IF job[r].code # None THEN "burn" ELSE "grant")
  /\ UNCHANGED <<shop, coupons, redemptions, grants, remote, notices, job, deleted, aborts>>

\* faulty: the loser answers at once, trusting the winner to grant
SettleLoserAnswers(r) ==
  /\ pc[r] = "flip"
  /\ LET p == job[r].pay IN
     IF rows[p].status = "pending"
     THEN /\ rows' = [rows EXCEPT ![p].status = "succeeded"]
          /\ Goto(r, IF job[r].code # None THEN "burn" ELSE "grant")
          /\ UNCHANGED <<job, notices>>
     ELSE Answer(r) /\ UNCHANGED rows
  /\ UNCHANGED <<shop, coupons, redemptions, grants, remote, deleted, aborts>>

\* The compare-and-set Pending -> Succeeded; its winner burns the held code.
SettleSucceeded(r) ==
  /\ pc[r] = "flip"
  /\ LET p == job[r].pay  won == rows[p].status = "pending" IN
     /\ rows' = IF won THEN [rows EXCEPT ![p].status = "succeeded"] ELSE rows
     /\ Goto(r, IF won /\ job[r].code # None THEN "burn" ELSE "grant")
  /\ UNCHANGED <<shop, coupons, redemptions, grants, remote, notices, job, deleted, aborts>>

\* The money is taken: a coupon refused by now does not block the grant.
RedeemHeld(r) ==
  /\ pc[r] = "burn"
  /\ LET u == job[r].user  q == job[r].quest
         fresh == IF Recorded(job[r].code, u, q) # {} THEN {}
                  ELSE {Redemption(c, u, q, job[r].price, job[r].pay) :
                          c \in MayRedeem(job[r].code, u, q)}
     IN redemptions' = redemptions \cup fresh
  /\ Goto(r, "grant")
  /\ UNCHANGED <<shop, coupons, grants, rows, remote, notices, job, deleted, aborts>>

\* mark_canceled frees the player to start over; a settled row stays settled.
MarkCanceled(r) ==
  /\ pc[r] = "cancel"
  /\ LET p == job[r].pay IN
     rows' = IF rows[p].status = "pending" THEN [rows EXCEPT ![p].status = "canceled"] ELSE rows
  /\ Answer(r)
  /\ UNCHANGED <<shop, coupons, redemptions, grants, remote, deleted, aborts>>

\* Nothing to apply: the status is told and the handler is done.
TellStatus(r) ==
  /\ pc[r] = "tell"
  /\ Answer(r)
  /\ UNCHANGED <<shop, ledger, remote, deleted, aborts>>

\* create_grant_idemp: the first grant for the pair wins.
CreateGrant(r) ==
  /\ pc[r] = "grant"
  /\ grants' = IF Owns(job[r].user, job[r].quest) THEN grants
               ELSE grants \cup {[user |-> job[r].user, quest |-> job[r].quest,
                                  source |-> job[r].source, ref |-> job[r].ref]}
  /\ Answer(r)
  /\ UNCHANGED <<shop, coupons, redemptions, rows, remote, deleted, aborts>>

\* The handler dies where it stands: what it held is gone, a webhook was not
\* answered 200, so the gateway will repeat it.
Abort(r) ==
  /\ pc[r] \notin Resting
  /\ aborts < MaxAborts
  /\ aborts' = aborts + 1
  /\ Goto(r, "idle")
  /\ job' = [job EXCEPT ![r] = NoJob]
  /\ UNCHANGED <<shop, ledger, remote, notices, deleted>>

-----------------------------------------------------------------------------
(* The world around the handlers.                                           *)

\* The payer's link leaves with the checkout answer, so a paid payment has a row.
PayerPays(p) ==
  /\ remote[p] = "pending" /\ rows[p] # None
  /\ remote' = [remote EXCEPT ![p] = "succeeded"]
  /\ notices' = notices \cup {p}
  /\ UNCHANGED <<shop, ledger, pc, job, deleted, aborts>>

\* The gateway gives up on an unpaid payment, long after the request ended.
GatewayCancels(p) ==
  /\ remote[p] = "pending"
  /\ \A r \in Requests : ~(pc[r] = "insert" /\ job[r].pay = p)
  /\ remote' = [remote EXCEPT ![p] = "canceled"]
  /\ notices' = notices \cup {p}
  /\ UNCHANGED <<shop, ledger, pc, job, deleted, aborts>>

Edit == edits < MaxEdits /\ edits' = edits + 1

\* A publish, a moderation's approval, or a delisting.
SetPrice(q, price) ==
  /\ Edit
  /\ published' = [published EXCEPT ![q] = price]
  /\ UNCHANGED <<enabled, today, ledger, remote, notices, pc, job, deleted, aborts>>

\* The coupon form, for a new coupon or an existing one: its code stays unique.
SaveCoupon(c, form) ==
  /\ Edit
  /\ WithCode(form.code) \subseteq {c}
  /\ coupons' = [coupons EXCEPT ![c] = form]
  /\ UNCHANGED <<published, enabled, today, redemptions, grants, rows, remote, notices,
                 pc, job, deleted, aborts>>

\* Deleting a coupon deletes its redemption log; grants stay.
DeleteCoupon(c) ==
  /\ Edit
  /\ coupons[c] # None
  /\ coupons' = [coupons EXCEPT ![c] = None]
  /\ redemptions' = {x \in redemptions : x.coupon # c}
  /\ UNCHANGED <<published, enabled, today, grants, rows, remote, notices,
                 pc, job, deleted, aborts>>

\* An admin turns a payment method on or off.
Toggle(provider) ==
  /\ Edit
  /\ enabled' = IF provider \in enabled THEN enabled \ {provider} ELSE enabled \cup {provider}
  /\ UNCHANGED <<published, today, ledger, remote, notices, pc, job, deleted, aborts>>

NextDay ==
  /\ today < MaxDay
  /\ today' = today + 1
  /\ UNCHANGED <<published, enabled, edits, ledger, remote, notices, pc, job, deleted, aborts>>

\* delete_grants_for_user; payments and redemptions are left as they are.
DeleteAccount(u) ==
  /\ u \notin deleted
  /\ deleted' = deleted \cup {u}
  /\ grants' = {g \in grants : g.user # u}
  /\ UNCHANGED <<shop, coupons, redemptions, rows, remote, notices, pc, job, aborts>>

-----------------------------------------------------------------------------
Checkout(r) ==
  \/ \E u \in Users, q \in Quests, code \in Codes \cup {None}, provider \in Providers :
        StartCheckout(r, u, q, code, provider)
  \/ GetPublished(r) \/ QuoteGift(r) \/ RequireProvider(r) \/ RedeemAtCheckout(r)
  \/ ReuseOpenPayment(r) \/ QuoteCharge(r) \/ CreatePayment(r) \/ CreateFails(r) \/ InsertRow(r)

Settle(r) ==
  \/ \E p \in PaymentIds : Poll(r, p) \/ Webhook(r, p)
  \/ FetchRemote(r) \/ SettleSucceeded(r) \/ RedeemHeld(r)
  \/ MarkCanceled(r) \/ TellStatus(r) \/ CreateGrant(r)

World ==
  \/ \E p \in PaymentIds : PayerPays(p) \/ GatewayCancels(p) \/ WebhookUnknown(p)
  \/ \E q \in Quests, price \in Prices \cup {None} : SetPrice(q, price)
  \/ \E c \in CouponIds : DeleteCoupon(c) \/ \E form \in CouponForms : SaveCoupon(c, form)
  \/ \E provider \in Providers : Toggle(provider)
  \/ \E u \in Users : DeleteAccount(u)
  \/ NextDay

Next == (\E r \in Requests : Checkout(r) \/ Settle(r) \/ Abort(r)) \/ World

Spec == Init /\ [][Next]_vars

\* Handler tasks are run to their end unless they die, and the gateway repeats
\* a notification until it is answered 200, however busy the handlers are.
HandlerStep(r) ==
  \/ GetPublished(r) \/ QuoteGift(r) \/ RequireProvider(r) \/ RedeemAtCheckout(r)
  \/ ReuseOpenPayment(r) \/ QuoteCharge(r) \/ CreatePayment(r) \/ CreateFails(r) \/ InsertRow(r)
  \/ FetchRemote(r) \/ SettleSucceeded(r) \/ RedeemHeld(r)
  \/ MarkCanceled(r) \/ TellStatus(r) \/ CreateGrant(r)

Fairness ==
  /\ \A r \in Requests : WF_vars(HandlerStep(r))
  /\ \A p \in PaymentIds : SF_vars(\E r \in Requests : Webhook(r, p))

LiveSpec == Spec /\ Fairness

-----------------------------------------------------------------------------
(* Types.                                                                   *)

GrantType ==
  [user : Users, quest : Quests, source : Sources, ref : PaymentIds \cup {"mock", None}]

RedemptionType ==
  [coupon : CouponIds, user : Users, quest : Quests, amount : Nat,
   by : PaymentIds \cup {"checkout"}]

Labels == {"idle", "refused", "listing", "quote", "gate", "redeem", "reuse", "requote",
           "create", "insert", "fetch", "flip", "burn", "cancel", "tell", "grant"}

JobType ==
  [user : Users \cup {None}, quest : Quests \cup {None}, code : Codes \cup {None},
   provider : Providers \cup {None}, price : Nat \cup {None}, charge : Nat,
   pay : PaymentIds \cup {None}, source : Sources \cup {None},
   ref : PaymentIds \cup {"mock", None}, via : Vias]

\* Every variable has its type, and a resting slot holds nothing: a handler that
\* ended or died leaves nothing behind for the next one.
TypeOK ==
  /\ published \in [Quests -> Prices \cup {None}]
  /\ enabled \subseteq Providers
  /\ today \in Nat
  /\ coupons \in [CouponIds -> CouponForms \cup {None}]
  /\ redemptions \subseteq RedemptionType
  /\ grants \subseteq GrantType
  /\ rows \in [PaymentIds -> RowType \cup {None}]
  /\ remote \in [PaymentIds -> Statuses \cup {"none"}]
  /\ notices \subseteq PaymentIds
  /\ pc \in [Requests -> Labels]
  /\ job \in [Requests -> JobType]
  /\ \A r \in Requests : pc[r] \in Resting => job[r] = NoJob
  /\ deleted \subseteq Users
  /\ edits \in Nat /\ aborts \in Nat

-----------------------------------------------------------------------------
(* Safety.                                                                  *)

\* settle: a payment is recorded as paid or canceled only when the gateway says
\* so, whatever notifications, polls and dead handlers came in between.
RowsFollowGateway ==
  \A p \in PaymentIds :
    /\ rows[p] # None => remote[p] # "none"
    /\ rows[p] # None /\ rows[p].status # "pending" => remote[p] = rows[p].status

\* "This is the only place a redirect payment can mint a grant": access that
\* names a payment was paid at the gateway, by that player, for that quest; and
\* a pair holds one grant.
GrantsAreJustified ==
  /\ \A g \in grants : g.ref \in PaymentIds =>
       /\ g.source = "Payment" /\ remote[g.ref] = "succeeded"
       /\ rows[g.ref] # None /\ rows[g.ref].status = "succeeded"
       /\ rows[g.ref].user = g.user /\ rows[g.ref].quest = g.quest
  /\ \A g, h \in grants : g.user = h.user /\ g.quest = h.quest => g = h

\* "Only the CAS winner redeems the held coupon", and an abandoned payment never
\* burns the code: a payment accounts for at most one redemption, recorded or
\* about to be, and only once its row is settled as paid.
HeldCouponBurnsOnce ==
  \A p \in PaymentIds :
    LET burning == {r \in Requests : pc[r] = "burn" /\ job[r].pay = p}
        burnt   == {x \in redemptions : x.by = p}
    IN /\ Cardinality(burning) + Cardinality(burnt) <= 1
       /\ burning \cup burnt # {} => rows[p] # None /\ rows[p].status = "succeeded"
                                                    /\ rows[p].code # None

\* The gateway never opens a payment whose row the table's CHECKs (amount > 0,
\* price >= amount) would refuse: such a payment could be paid and never settled.
InsertIsAccepted ==
  \A r \in Requests : pc[r] \in {"create", "insert"} => job[r].charge \in 1 .. job[r].price

\* The buyer of p has the quest, or deleted the account that bought it.
Delivered(p) ==
  rows[p] # None /\ (rows[p].user \in deleted \/ Owns(rows[p].user, rows[p].quest))

\* A notification answered 200 is never repeated, so by then the player must
\* have what was paid for, unless the account is gone.
AnsweredMeansGranted ==
  \A p \in PaymentIds :
    remote[p] = "succeeded" /\ p \notin notices => Delivered(p)

\* create_grant_idemp, "first grant + first audit ref win": access, with the
\* source and reference it was first given, is lost with the account only.
FirstGrantWins == [][\A g \in grants \ grants' : g.user \in deleted' \ deleted]_vars

\* What the purchase looks like from outside: the gateway's word on the payments
\* that have a row, and the grants, told apart by the payment that bought them.
OrderOf(p) ==
  IF rows[p] = None THEN None
  ELSE [user |-> rows[p].user, quest |-> rows[p].quest,
        state |-> CASE remote[p] = "succeeded" -> "paid"
                    [] remote[p] = "canceled" -> "void"
                    [] OTHER -> "open"]

AccessOf(g) ==
  [user |-> g.user, quest |-> g.quest, by |-> IF g.ref \in PaymentIds THEN g.ref ELSE None]

Promise == INSTANCE Purchase WITH orders <- [p \in PaymentIds |-> OrderOf(p)],
                                  access <- {AccessOf(g) : g \in grants}

\* Checkout and settle, with their retries, races and deaths, keep the promise of
\* Purchase: every one of their steps is one of its steps, or none.
KeepsPromise == Promise!Spec

\* redeem under the store's lock: no step that records a redemption takes a
\* coupon past its caps as they stand, nor records one pair twice.
CapsHold ==
  [][\A x \in redemptions' \ redemptions :
       LET coupon == coupons[x.coupon]
           total  == Cardinality({y \in redemptions' : y.coupon = x.coupon})
           mine   == Cardinality({y \in redemptions' : y.coupon = x.coupon /\ y.user = x.user})
           pair   == {y \in redemptions' : y.coupon = x.coupon /\ y.user = x.user
                                                               /\ y.quest = x.quest}
       IN /\ coupon # None
          /\ coupon.cap # None => total <= coupon.cap
          /\ coupon.perUser # None => mine <= coupon.perUser
          /\ pair = {x}]_vars

-----------------------------------------------------------------------------
(* Liveness, under LiveSpec.                                                *)

\* Money taken ends in access, through lost answers, dead handlers and races of
\* the poll with the webhook.
PaidIsGranted ==
  \A p \in PaymentIds : remote[p] = "succeeded" ~> Delivered(p)

\* mark_canceled "frees the player to start a fresh checkout": no payment the
\* gateway canceled stays open here.
CanceledIsReleased ==
  \A p \in PaymentIds :
    remote[p] = "canceled" /\ rows[p] # None ~> rows[p] # None /\ rows[p].status = "canceled"

-----------------------------------------------------------------------------
(* What the source says and the code does not do.                           *)

\* payments.rs: "An open payment for this order is replayed instead of
\* double-creating at the gateway."
OneOpenPayment ==
  \A p1, p2 \in PaymentIds :
    /\ rows[p1] # None /\ rows[p2] # None
    /\ remote[p1] = "pending" /\ remote[p2] = "pending"
    /\ rows[p1].user = rows[p2].user /\ rows[p1].quest = rows[p2].quest
    => p1 = p2
=============================================================================
