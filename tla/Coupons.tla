------------------------------ MODULE Coupons ------------------------------
(***************************************************************************)
(* The pure coupon rules of backend/src/coupons.rs: when a coupon may be   *)
(* redeemed and what it takes off a price.  No state lives here: the       *)
(* redemption log these rules are asked about belongs to the stores        *)
(* (module Payments).                                                      *)
(*                                                                         *)
(* A coupon is a record                                                    *)
(*   code     the text a player types, already normalized                  *)
(*   discount [kind |-> "percent" | "fixed", value |-> n]                  *)
(*   until    last valid day, or None                                      *)
(*   cap      redemptions in all, or None                                  *)
(*   perUser  redemptions per player, or None                              *)
(*   quests   the quests it is limited to, or None for every paid quest    *)
(*   paused   an admin switch                                              *)
(* A calendar day is a natural number: the "YYYY-MM-DD" strings of the     *)
(* code are compared as text, which orders them as days.                   *)
(***************************************************************************)
EXTENDS Integers

CONSTANT None   \* an absent Option

\* A day a coupon dated `until` is no longer valid on.
IsExpired(until, today) == until # None /\ until < today

\* The total cap is reached.
IsExhausted(cap, used) == cap # None /\ used >= cap

\* Every reason `coupon` is refused to a player who wants it for `quest`.
RefusalReasons(coupon, quest, usedTotal, usedByPlayer, today) ==
  {reason \in {"not_applicable", "expired", "exhausted", "paused", "per_user_limit"} :
     \/ reason = "not_applicable" /\ coupon.quests # None /\ quest \notin coupon.quests
     \/ reason = "expired"        /\ IsExpired(coupon.until, today)
     \/ reason = "exhausted"      /\ IsExhausted(coupon.cap, usedTotal)
     \/ reason = "paused"         /\ coupon.paused
     \/ reason = "per_user_limit" /\ coupon.perUser # None /\ usedByPlayer >= coupon.perUser}

\* check_redeemable answers Ok exactly when no reason stands.
CheckRedeemable(coupon, quest, usedTotal, usedByPlayer, today) ==
  RefusalReasons(coupon, quest, usedTotal, usedByPlayer, today) = {}

\* faulty: a percentage subtracted the wrong way round
DiscountReversed(discount, price) ==
  IF price <= 0 THEN 0
  ELSE IF discount.kind = "percent"
       THEN (price * (100 - discount.value) + 50) \div 100 - price
       ELSE IF discount.value < price THEN discount.value ELSE price

\* Rubles `discount` takes off `price`.  A percentage rounds the final price
\* half up; a fixed sum never takes off more than the price.
DiscountAmount(discount, price) ==
  IF price <= 0 THEN 0
  ELSE IF discount.kind = "percent"
       THEN price - (price * (100 - discount.value) + 50) \div 100
       ELSE IF discount.value < price THEN discount.value ELSE price

\* What the coupon form accepts: 1..100 percent, or a positive fixed sum.
ValidDiscount(discount) ==
  \/ discount.kind = "percent" /\ discount.value \in 1..100
  \/ discount.kind = "fixed"   /\ discount.value \in Nat \ {0}
=============================================================================
