------------------------------- MODULE Policy -------------------------------
(***************************************************************************)
(* desk/negotiation/policy.py: what FixedPolicy proposes in a position.    *)
(*                                                                         *)
(* An ask has a quantity, a target (a price; an amount of -1 is none), the *)
(* most it would take (0 is no more), and whether it wants it faster and   *)
(* can prepay.  A position is an ask, the product, and the products that   *)
(* may be put beside it.                                                   *)
(***************************************************************************)
EXTENDS Margin, Sequences

Steps == 4       \* _STEPS

NamesAPrice(ask) == ask.target.amount >= 0

\* REACH is a tenth.
OutOfReach(asked, best) == 10 * asked.amount < 9 * best.amount
-----------------------------------------------------------------------------
(* The arrangements a position makes available, the plain one first.       *)

SurplusAtList(product) == Den * (product.list - product.cost) - product.floor * product.list

Richer(a, b) ==
  \/ SurplusAtList(a) > SurplusAtList(b)
  \/ SurplusAtList(a) = SurplusAtList(b) /\ a.sku >= b.sku

\* Nothing worth more than what is asked for is put beside it.
Candidates(p) ==
  {c \in p.companions : c.sku # p.product.sku /\ c.list <= p.product.list * p.ask.quantity}

Companion(p) == CHOOSE c \in Candidates(p) : \A other \in Candidates(p) : Richer(c, other)

Plain(ask) == Shape("none", ask.quantity, Nothing, FALSE, "on_delivery")

WithLever(available, shape) == IF available THEN <<shape>> ELSE <<>>

\* In the order of CONSIDERED, one lever to a shape.
Shapes(p) ==
  <<Plain(p.ask)>>
  \o WithLever(Candidates(p) # {},
       Shape("bundle", p.ask.quantity, Companion(p), FALSE, "on_delivery"))
  \o WithLever(p.ask.most > p.ask.quantity,
       Shape("quantity_break", p.ask.most, Nothing, FALSE, "on_delivery"))
  \o WithLever(p.ask.faster,
       Shape("delivery_speed", p.ask.quantity, Nothing, TRUE, "on_delivery"))
  \o WithLever(p.ask.prepay,
       Shape("payment_terms", p.ask.quantity, Nothing, FALSE, "prepaid"))
-----------------------------------------------------------------------------
(* The least price an arrangement can be sold at: solved, then verified.   *)

\* The unit price that meets the floor exactly, were carry not rounded, is
\* Numerator / Denominator.
Numerator(product, s) ==
  s.companion.floor * s.companion.list
    - s.companion.list * (Den - Carry[s.payment])
    + Den * (product.cost * s.quantity + s.companion.cost + Handling - Express(s))

Denominator(product, s) == s.quantity * (Den - Carry[s.payment] - product.floor)

CeilingTo(grid, n, d) == grid * (-((-n) \div (d * grid)))

Solved(product, s) == CeilingTo(product.grid, Numerator(product, s), Denominator(product, s))

\* A solution below nothing becomes Decimal(0), which is written in whole units.
Start(product, s) ==
  IF Solved(product, s) < 0 THEN [amount |-> 0, grid |-> Unit]
  ELSE [amount |-> Solved(product, s), grid |-> product.grid]

Candidate(product, s, i) ==
  IF i = 0 THEN Start(product, s)
  ELSE [amount |-> Start(product, s).amount + i * product.grid, grid |-> product.grid]

\* Mutation: the step is taken before the price is tried.
StopsLate(product, s) ==
  {i \in 1..Steps : \/ Candidate(product, s, i).amount > product.list
                    \/ Holds(product, s, Candidate(product, s, i))}

\* Where the verification stops: past the list price, or at a price that holds.
Stops(product, s) ==
  {i \in 0..(Steps - 1) : \/ Candidate(product, s, i).amount > product.list
                          \/ Holds(product, s, Candidate(product, s, i))}

\* PriceUnreachable.
Stuck(product, s) == Denominator(product, s) > 0 /\ Stops(product, s) = {}

\* Mutation: the solved price is taken as it is.
LeastPriceUnverified(product, s) ==
  IF Denominator(product, s) <= 0 \/ Start(product, s).amount > product.list THEN {}
  ELSE {Start(product, s)}

\* _least_price: one price, or none.
LeastPrice(product, s) ==
  IF Denominator(product, s) <= 0 \/ Stuck(product, s) THEN {}
  ELSE LET price == Candidate(product, s, Min(Stops(product, s)))
       IN  IF price.amount <= product.list THEN {price}
           ELSE {l \in {ListPrice(product)} : Holds(product, s, l)}
-----------------------------------------------------------------------------
Proposal(move, p, shape, price) ==
  [move |-> move, product |-> p.product, shape |-> shape, price |-> price]

\* An ask that names no price, or one above list, is answered at list.
Haggles(p) == NamesAPrice(p.ask) /\ p.ask.target.amount <= p.product.list

Quote(p) ==
  Proposal(IF Holds(p.product, Plain(p.ask), ListPrice(p.product)) THEN "counter" ELSE "walk_away",
           p, Plain(p.ask), ListPrice(p.product))

\* The arrangements, by number, that hold at the price that was asked.
Reaching(p) ==
  LET shapes == Shapes(p)
  IN  {i \in DOMAIN shapes : Holds(p.product, shapes[i], p.ask.target)}

\* The prices the others could be sold at, and of which arrangement each is.
Options(p) ==
  LET shapes == Shapes(p)
  IN  UNION {{[shape |-> i, price |-> l] : l \in LeastPrice(p.product, shapes[i])} :
               i \in DOMAIN shapes}

\* The lowest; of equals, the one considered first.
Best(options) ==
  CHOOSE o \in options :
    \A other \in options :
      \/ o.price.amount < other.price.amount
      \/ o.price.amount = other.price.amount /\ o.shape <= other.shape

Refusal(p) == Proposal("walk_away", p, Plain(p.ask), p.ask.target)

\* FixedPolicy.propose raises PriceUnreachable.
Raises(p) ==
  /\ Haggles(p) /\ Reaching(p) = {}
  /\ LET shapes == Shapes(p) IN \E i \in DOMAIN shapes : Stuck(p.product, shapes[i])

\* FixedPolicy.propose.  A walk-away is about the deal that was asked for.
Propose(p) ==
  LET shapes == Shapes(p)
      reaching == Reaching(p)
      best == Best(Options(p))
  IN  CASE ~Haggles(p) -> Quote(p)
        [] Haggles(p) /\ reaching # {} ->
             Proposal(IF 1 \in reaching THEN "accept" ELSE "counter",
                      p, shapes[Min(reaching)], p.ask.target)
        [] Haggles(p) /\ reaching = {} ->
             IF Options(p) = {} \/ OutOfReach(p.ask.target, best.price) THEN Refusal(p)
             ELSE Proposal("counter", p, shapes[best.shape], best.price)
=============================================================================
