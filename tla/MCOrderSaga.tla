---------------------------- MODULE MCOrderSaga ----------------------------
(***************************************************************************)
(* Two orders over two products: the first needs both, the second needs    *)
(* the scarce one, so that either may fail in the middle.  And prices up   *)
(* to 25.00, which is over and under both coupons.                         *)
(***************************************************************************)
EXTENDS OrderSaga

CONSTANTS o1, o2, a, b

MCOrders == {o1, o2}
MCProducts == {a, b}
Line(p, n) == [product |-> p, quantity |-> n]
MCCart == [o \in MCOrders |->
            IF o = o1 THEN <<Line(a, 1), Line(b, 1)>> ELSE <<Line(b, 2)>>]
MCStock == [p \in MCProducts |-> IF p = a THEN 1 ELSE 2]
MCTotals == 1..2500
=============================================================================
