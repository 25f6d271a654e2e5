------------------------------- MODULE Margin -------------------------------
(***************************************************************************)
(* desk/catalogue/margin.py and negotiation/terms.py: what an offer earns, *)
(* what its terms cost, and whether it holds.                              *)
(*                                                                         *)
(* Money is a whole number of the smallest amount anything is written in.  *)
(* A price also has a grid, the scale it is written at (Money.scale): 1 if *)
(* it is written that finely, Unit if it is written in whole units.  Rates *)
(* (floors, carry) are whole numbers of 1/Den, and a surplus is multiplied *)
(* by Den, so that nothing divides, as nothing does in margin.py.          *)
(*                                                                         *)
(* Sums and products are exact, as Decimal's are up to 28 digits.  A price *)
(* a buyer writes with more of them, whose total money.py rounds to 28, is *)
(* left out.                                                               *)
(***************************************************************************)
EXTENDS Integers, FiniteSetsExt

CONSTANTS
  Den,               \* rates are in 1/Den
  Unit,              \* a whole unit of the currency
  Handling,          \* TermsSheet: the cost of packing and sending any deal
  ExpressPremium,    \* what express delivery is charged at
  ExpressCost,       \* and what the courier takes
  Carry              \* the share of the goods that waiting to be paid costs

PaymentTerms == {"prepaid", "on_delivery"}

ASSUME MarginAssumption ==
  /\ Den \in Nat \ {0} /\ Unit \in Nat \ {0}
  /\ Handling \in Nat /\ ExpressPremium \in Nat /\ ExpressCost \in Nat
  /\ Carry \in [PaymentTerms -> 0..(Den - 1)]

Grids == {1, Unit}

Price == {p \in [amount : Nat, grid : Grids] : p.amount % p.grid = 0}

\* A product that meets its own floor at its own asking price; grid is how finely
\* its list price is written.
Product ==
  {p \in [sku : Nat, cost : Nat, list : Nat, floor : 0..(Den - 1), grid : Grids] :
     p.list > 0 /\ p.list % p.grid = 0 /\ Den * (p.list - p.cost) >= p.floor * p.list}

\* No companion: a line that brings nothing and is written in no scale of its own.
Nothing == [sku |-> 0, cost |-> 0, list |-> 0, floor |-> 0, grid |-> Unit]

ListPrice(product) == [amount |-> product.list, grid |-> product.grid]

\* One arrangement of a deal: how many, with one of what beside it, on which terms.
Shape(lever, quantity, companion, express, payment) ==
  [lever |-> lever, quantity |-> quantity, companion |-> companion,
   express |-> express, payment |-> payment]
-----------------------------------------------------------------------------
Goods(s, price) == price.amount * s.quantity + s.companion.list

\* A sum is written as finely as its finest part.
GoodsGrid(s, price) == Min({price.grid, s.companion.grid})

\* n/d, rounded half up to the grid.
HalfUp(grid, n, d) == grid * ((2 * n + d * grid) \div (2 * d * grid))

\* Waiting to be paid costs a share of the goods, rounded to the scale they are in.
Carried(s, price) == HalfUp(GoodsGrid(s, price), Carry[s.payment] * Goods(s, price), Den)

\* What express delivery brings: the premium less the courier's bill.
Express(s) == IF s.express THEN ExpressPremium - ExpressCost ELSE 0

Profit(product, s, price) ==
  Goods(s, price) + Express(s)
    - (product.cost * s.quantity + s.companion.cost + Handling + Carried(s, price))

\* What the lines ask for between them, in 1/Den; the charges ask for nothing.
Required(product, s, price) ==
  product.floor * price.amount * s.quantity + s.companion.floor * s.companion.list

Surplus(product, s, price) == Den * Profit(product, s, price) - Required(product, s, price)

\* inside_floor.
Holds(product, s, price) == Surplus(product, s, price) >= 0
=============================================================================
