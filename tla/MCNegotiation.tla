---------------------------- MODULE MCNegotiation ----------------------------
(* Instances of Negotiation for TLC.                                       *)
EXTENDS Negotiation, TLC

MCCarry == [t \in PaymentTerms |-> IF t = "prepaid" THEN 0 ELSE 1]

Stock(sku, cost, list, floor, grid) ==
  sku :> [sku |-> sku, cost |-> cost, list |-> list, floor |-> floor, grid |-> grid]

\* The item is 1; what may be beside it is worth less or more than it.  It is priced
\* finely or in whole units, its costs and floor move, and some floors leave so little
\* that what rounding takes cannot be made up in a few steps.
MCCatalogues ==
  {Stock(2, 4, 8, 6, 4),
   Stock(1, 6, 16, 8, 1),
   Stock(1, 14, 24, 4, 1),
   Stock(1, 1, 20, 17, 1),
   Stock(1, 1, 36, 17, 4) @@ Stock(3, 20, 40, 4, 1),
   Stock(1, 0, 16, 17, 4) @@ Stock(2, 4, 8, 6, 4)}

Priced(amount, grid) == [amount |-> amount, grid |-> grid]

Wants(quantity, target, most, faster, prepay) ==
  [quantity |-> quantity, target |-> target, most |-> most, faster |-> faster, prepay |-> prepay]

MCAsks ==
  {Wants(1, Priced(-1, 1), 0, FALSE, FALSE),
   Wants(1, Priced(9, 1), 0, FALSE, FALSE),
   Wants(1, Priced(13, 1), 3, TRUE, TRUE),
   Wants(1, Priced(12, 1), 3, FALSE, FALSE),
   Wants(1, Priced(19, 1), 0, FALSE, TRUE),
   Wants(2, Priced(20, 4), 0, FALSE, FALSE),
   Wants(2, Priced(10, 1), 3, TRUE, TRUE)}

ASSUME MCOrdinary == OrdinaryCatalogues
=============================================================================
