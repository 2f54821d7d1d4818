------------------------------- MODULE Prices -------------------------------
(***************************************************************************)
(* What an order costs, in cents: services/payment/service.py computes it  *)
(* for the quote (GET /payments/calculate, from a VIP level) and for the   *)
(* order (create_order, from the rate the user service looks up in a table *)
(* of its own).  Decimal numbers are exact except where they are rounded   *)
(* to cents, half up; the fault switches are off.                          *)
(***************************************************************************)
EXTENDS Integers

CONSTANTS
    Totals,         \* order totals the properties look at, in cents
    VipLevels       \* levels a user can have (0..3 in the routes and the seed)

ASSUME PriceAssumption == Totals \subseteq Int /\ VipLevels \subseteq 0..3

Coupons == {"none", "SAVE10", "SAVE20"}

\* Percentages: VIP_DISCOUNT_RATES and the list of get_vip_discount.
QuotedRate(vip) == CASE vip = 1 -> 5 [] vip = 2 -> 10 [] vip = 3 -> 15 [] OTHER -> 0
VipDiscount(vip) == <<0, 5, 10, 15>>[vip + 1]
TaxRate == 8

CouponDiscount(code) == CASE code = "SAVE10" -> 1000 [] code = "SAVE20" -> 2000 [] OTHER -> 0

\* _quantize of n / 100 cents: halves go away from zero.
HalfUp(n) == IF n < 0 THEN -((50 - n) \div 100) ELSE (n + 50) \div 100

\* Mutant of Amounts: tax is due on what the discount takes off.
AmountsTaxFirst(total, rate, coupon) ==
    LET settled == total - coupon
        discount == HalfUp(settled * rate)
        tax == HalfUp(settled * TaxRate)
    IN  [discount |-> discount, tax |-> tax, final |-> settled - discount + tax]

\* calculate_from_discount_rate: coupon, then discount, then tax.
Amounts(total, rate, coupon) ==
    LET settled == total - coupon
        discount == HalfUp(settled * rate)
        less == settled - discount
        tax == HalfUp(less * TaxRate)
    IN  [discount |-> discount, tax |-> tax, final |-> less + tax]

\* calculate_final_amount, and the amounts of create_order.
Quote(total, vip, coupon) == Amounts(total, QuotedRate(vip), coupon)
OrderAmounts(total, vip, code) == Amounts(total, VipDiscount(vip), CouponDiscount(code))

-----------------------------------------------------------------------------
(* What the arithmetic promises, over Totals *)

\* The two tables of rates give the same amounts.
QuoteIsAmounts ==
    \A total \in Totals, vip \in VipLevels, code \in Coupons :
        OrderAmounts(total, vip, code) = Quote(total, vip, CouponDiscount(code))

\* The exact price is settled * (1 - rate) * 1.08; the factor 10000 makes the
\* rates whole numbers.
Exact(total, rate, coupon) == (total - coupon) * (100 - rate) * (100 + TaxRate)
IsNear(total, rate, coupon) ==
    LET off == (Amounts(total, rate, coupon).final * 10000) - Exact(total, rate, coupon)
    IN  -10400 <= off /\ off <= 10400

WithinACent ==
    \A total \in Totals, vip \in VipLevels, code \in Coupons :
        IsNear(total, VipDiscount(vip), CouponDiscount(code))

NegativeOnlyByCoupon ==
    \A total \in Totals, vip \in VipLevels, code \in Coupons :
        OrderAmounts(total, vip, code).final < 0 => CouponDiscount(code) > total
=============================================================================
