---------------------------- MODULE MCSettlement ----------------------------
(* Instances of Settlement for TLC.                                        *)
EXTENDS Settlement, TLC

CONSTANTS c1, c2, c3, d1, d2, k1, k2, p1, p2, p3, p4

\* Two deals negotiated under one Checkout Mandate; three Payment Mandates that
\* pay for it, of which p4 carries no budget; and p3, which pays for another one.
MCCheckoutOf == (d1 :> k1) @@ (d2 :> k1)
MCRefersTo == [p \in Payments |-> IF p = p3 THEN k2 ELSE k1]

\* p1 covers either deal and not both, p2 covers d1 alone.
MCAmount == (d1 :> 1) @@ (d2 :> 2)
MCCeiling == [p \in Payments |-> CASE p = p1 -> 2 [] p = p2 -> 1 [] OTHER -> 3]

CallersAreAlike == Permutations(Callers)
=============================================================================
