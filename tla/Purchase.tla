------------------------------ MODULE Purchase ------------------------------
(***************************************************************************)
(* What buying a quest promises, without handlers, rows or retries: an     *)
(* order is asked for, paid or void; access comes from a paid order of     *)
(* that very buyer for that very quest, or as a gift; a pair gets access   *)
(* once, from whatever came first, and loses it with the account only.     *)
(* Payments implements this module.                                        *)
(***************************************************************************)
CONSTANTS Users, Quests, PaymentIds, None

States == {"open", "paid", "void"}

OrderType  == [user : Users, quest : Quests, state : States]
AccessType == [user : Users, quest : Quests, by : PaymentIds \cup {None}]

VARIABLES
  orders,   \* payment -> what it is for and how it stands, None before it is asked
  access    \* who may play what, and the payment that bought it if any

vars == <<orders, access>>

MayPlay(u, q) == \E a \in access : a.user = u /\ a.quest = q

Init ==
  /\ orders = [p \in PaymentIds |-> None]
  /\ access = {}

\* A payer is sent to the gateway.
Ask(p, u, q) ==
  /\ orders[p] = None
  /\ orders' = [orders EXCEPT ![p] = [user |-> u, quest |-> q, state |-> "open"]]
  /\ UNCHANGED access

\* The gateway ends an order once.
End(p, state) ==
  /\ orders[p] # None /\ orders[p].state = "open"
  /\ orders' = [orders EXCEPT ![p].state = state]
  /\ UNCHANGED access

Admit(u, q, by) ==
  /\ ~MayPlay(u, q)
  /\ access' = access \cup {[user |-> u, quest |-> q, by |-> by]}
  /\ UNCHANGED orders

\* A paid order admits its buyer.
Deliver(p) ==
  /\ orders[p] # None /\ orders[p].state = "paid"
  /\ Admit(orders[p].user, orders[p].quest, p)

\* A free quest, a gift coupon, or the mock provider.
Give(u, q) == Admit(u, q, None)

Leave(u) ==
  /\ access' = {a \in access : a.user # u}
  /\ UNCHANGED orders

Next ==
  \/ \E p \in PaymentIds :
       \/ \E u \in Users, q \in Quests : Ask(p, u, q)
       \/ \E state \in {"paid", "void"} : End(p, state)
       \/ Deliver(p)
  \/ \E u \in Users : Leave(u) \/ \E q \in Quests : Give(u, q)

Spec == Init /\ [][Next]_vars
=============================================================================
