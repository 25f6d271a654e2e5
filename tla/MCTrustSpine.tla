---------------------------- MODULE MCTrustSpine ----------------------------
(* Instances of TrustSpine for TLC.                                        *)
EXTENDS TrustSpine, TLC

CONSTANTS ann, bob, checkout, payment, reused,
          whole, twice, borrowed, forged, priceless

\* Three presentations of Ann's: the last has the nonce of the first.
MCHeldBy == [p \in Presentations |-> ann]
MCKey == (checkout :> <<ann, 1>>) @@ (payment :> <<ann, 2>>) @@ (reused :> <<ann, 1>>)
MCExpires == (checkout :> 2) @@ (payment :> 9) @@ (reused :> 9)
MCIssuedAt == (checkout :> 0) @@ (payment :> 1) @@ (reused :> 1)

\* Bob sends what Ann holds; a stranger signs as Ann; Ann states no price.
MCClaimedBy == [r \in Requests |-> IF r = borrowed THEN bob ELSE ann]
MCAuthentic == Requests \ {forged}
MCCheckout == [r \in Requests |-> checkout]
MCPayment == [r \in Requests |-> IF r = twice THEN reused ELSE payment]
MCAmount == [r \in Requests |-> IF r = priceless THEN 0 ELSE 1]

CallersAreAlike == Permutations(Callers)
=============================================================================
