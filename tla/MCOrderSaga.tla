---------------------------- MODULE MCOrderSaga -----------------------------
(***************************************************************************)
(* Two orders that compete for one piece each of two products, in opposite *)
(* line order, and two cancellations.                                      *)
(***************************************************************************)
EXTENDS OrderSaga, TLC

CONSTANTS o1, o2, x1, x2, p1, p2

OpposedLines ==
  [o \in Order |->
     IF o = o1 THEN <<[product |-> p1, q |-> 1], [product |-> p2, q |-> 1]>>
               ELSE <<[product |-> p2, q |-> 1], [product |-> p1, q |-> 1]>>]

OnePieceEach == [p \in Product |-> 1]
=============================================================================
