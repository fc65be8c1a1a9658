---------------------------- MODULE MCPayments ----------------------------
(* Small instances of Payments for TLC.                                      *)
EXTENDS Payments, TLC

CONSTANTS u1, u2, q1, q2, c1, c2, k1, p1, p2, p3, r1, r2

Percent(n) == [kind |-> "percent", value |-> n]
Fixed(n)   == [kind |-> "fixed", value |-> n]

Form(discount, until, cap, perUser, paused) ==
  [code |-> k1, discount |-> discount, until |-> until, cap |-> cap,
   perUser |-> perUser, quests |-> None, paused |-> paused]

MCPrices == {0, 3}

\* A gift, and a half price on the first day only for the first buyer.
MCForms == {Form(Percent(100), None, None, 1, FALSE),
            Form(Percent(50), 0, 1, None, FALSE)}

\* A half price for the first buyer.
HalfForms == {Form(Percent(50), None, 1, None, FALSE)}

\* The shop the runs start from: every quest on sale at 3 rubles, card payments
\* on, and any coupons.
OnSale       == Init /\ (\A q \in Quests : published[q] = 3) /\ enabled = {"yookassa"}
SaleSpec     == OnSale /\ [][Next]_vars
LiveSaleSpec == SaleSpec /\ Fairness

Symmetry == Permutations(Requests) \cup Permutations(PaymentIds) \cup Permutations(Users)
=============================================================================
