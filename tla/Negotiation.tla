---------------------------- MODULE Negotiation ----------------------------
(***************************************************************************)
(* desk/negotiation/deal.py: one negotiation, from an open to a close or a *)
(* walk-away.                                                              *)
(*                                                                         *)
(* A negotiation is one object that one thread uses.  receive is two steps *)
(* (the product is read, then its companions and the policy's answer), so  *)
(* that the catalogue may be seeded in between.  Any read and any record   *)
(* may fail; what the object holds by then stays as it is, and the caller  *)
(* may go on with it.                                                      *)
(***************************************************************************)
EXTENDS Policy

CONSTANTS
  Rounds,       \* how many messages are answered before the Desk walks
  Item,         \* the sku the negotiation is about
  Authorised,   \* the skus the Checkout Mandate authorises
  Catalogues,   \* what the catalogue may hold: products by sku
  Asks,         \* what a buyer may ask
  MaxAsks       \* how often it asks

ASSUME NegotiationAssumption ==
  /\ Rounds \in Nat \ {0} /\ MaxAsks \in Nat
  /\ \A c \in Catalogues :
       /\ DOMAIN c \subseteq Nat /\ IsFiniteSet(DOMAIN c)
       /\ \A k \in DOMAIN c : c[k] \in Product /\ c[k].sku = k
  /\ \A a \in Asks :
       /\ a.target.amount = -1 \/ a.target \in Price
       /\ a.quantity \in Nat \ {0} /\ a.most \in Nat
       /\ a.faster \in BOOLEAN /\ a.prepay \in BOOLEAN

VARIABLES
  catalogue,
  round,      \* messages answered, or at least counted
  standing,   \* the offer on the table: no deal or one
  over,
  reading,    \* the ask being answered and its product: none or one
  trail,      \* the entries of this negotiation
  heard,      \* history: the last offer the buyer was told
  lost        \* history: whether there was one after it that it was not told

vars == <<catalogue, round, standing, over, reading, trail, heard, lost>>

\* What was decided, and the position it was decided in.
Deal(position, proposal) == [position |-> position, proposal |-> proposal]

Init ==
  /\ catalogue \in Catalogues
  /\ round = 0 /\ standing = {} /\ over = FALSE
  /\ reading = {} /\ trail = <<>> /\ heard = {} /\ lost = FALSE

Entry(kind, deal) == [kind |-> kind, round |-> round, deal |-> deal]
-----------------------------------------------------------------------------
\* receive, up to the read of the product.  The round is counted first.
Receive(ask) ==
  /\ reading = {} /\ ~over /\ round < MaxAsks
  /\ round' = round + 1
  /\ Item \in DOMAIN catalogue
  /\ reading' = {[ask |-> ask, product |-> catalogue[Item]]}
  /\ UNCHANGED <<catalogue, standing, over, trail, heard, lost>>

\* The product cannot be read: UnknownProduct, or the database fails.
ReceiveUnread ==
  /\ reading = {} /\ ~over /\ round < MaxAsks
  /\ round' = round + 1
  /\ UNCHANGED <<catalogue, standing, over, reading, trail, heard, lost>>

\* The companions cannot be read, or the policy raises.
Abandon ==
  /\ reading # {}
  /\ reading' = {}
  /\ UNCHANGED <<catalogue, round, standing, over, trail, heard, lost>>

\* Stocked, authorised, and not the item itself.
Companions == {catalogue[k] : k \in (Authorised \intersect DOMAIN catalogue) \ {Item}}

Position(read) == [ask |-> read.ask, product |-> read.product, companions |-> Companions]

\* Mutation: the bound is looked at before the policy has spoken.
KindByTheBound(proposal) ==
  IF round >= Rounds \/ proposal.move = "walk_away" THEN "walked_away"
  ELSE IF proposal.move = "accept" THEN "closed" ELSE "offered"

\* What a proposal comes to.  At the bound whatever is not a close is a walk-away,
\* with the proposal it would have been.
Kind(proposal) ==
  IF proposal.move = "accept" THEN "closed"
  ELSE IF proposal.move = "walk_away" \/ round >= Rounds THEN "walked_away" ELSE "offered"

\* A counter that uses a lever is two entries.
Entries(deal) ==
  <<Entry(Kind(deal.proposal), deal)>>
  \o IF Kind(deal.proposal) = "offered" /\ deal.proposal.shape.lever # "none"
     THEN <<Entry("lever", deal)>> ELSE <<>>

\* The first n are written.  The buyer is told if nothing raised; the last record
\* may raise though it was written.
Write(entries, n, told) ==
  /\ n <= Len(entries)
  /\ told => n = Len(entries)
  /\ trail' = trail \o SubSeq(entries, 1, n)

\* Mutation: what stands is the first offer.
StandsFirst(deal) == IF standing = {} THEN {deal} ELSE standing

Stands(deal) == {deal}

\* Mutation: the negotiation is over when its ending has been recorded.
AnswerEndingLast ==
  /\ \E read \in reading : ~Raises(Position(read))
  /\ \E deal \in {Deal(Position(read), Propose(Position(read))) : read \in reading} :
       LET offers == Kind(deal.proposal) = "offered"
       IN  /\ standing' = IF offers THEN Stands(deal) ELSE standing
           /\ \E n \in 0..2, told \in BOOLEAN :
                /\ Write(Entries(deal), n, told)
                /\ over' = (~offers /\ told)
                /\ heard' = IF offers /\ told THEN {deal} ELSE heard
                /\ lost' = IF offers THEN ~told ELSE lost
  /\ reading' = {}
  /\ UNCHANGED <<catalogue, round>>

\* The rest of receive.  What stands and whether it is over are set before the
\* first record: _close, _counter, _walk.
Answer ==
  /\ \E read \in reading : ~Raises(Position(read))
  /\ \E deal \in {Deal(Position(read), Propose(Position(read))) : read \in reading} :
       LET offers == Kind(deal.proposal) = "offered"
       IN  /\ over' = ~offers
           /\ standing' = IF offers THEN Stands(deal) ELSE standing
           /\ \E n \in 0..2, told \in BOOLEAN :
                /\ Write(Entries(deal), n, told)
                /\ heard' = IF offers /\ told THEN {deal} ELSE heard
                /\ lost' = IF offers THEN ~told ELSE lost
  /\ reading' = {}
  /\ UNCHANGED <<catalogue, round>>

\* accept: nothing is decided again.
Accept ==
  /\ reading = {} /\ ~over
  /\ \E deal \in standing, n \in 0..1 : Write(<<Entry("closed", deal)>>, n, FALSE)
  /\ over' = TRUE
  /\ UNCHANGED <<catalogue, round, standing, reading, heard, lost>>

\* Catalogue.seed: products are added and changed, never removed.
Seed ==
  /\ \E c \in Catalogues : DOMAIN catalogue \subseteq DOMAIN c /\ catalogue' = c
  /\ UNCHANGED <<round, standing, over, reading, trail, heard, lost>>

Next ==
  \/ \E ask \in Asks : Receive(ask)
  \/ ReceiveUnread
  \/ Abandon
  \/ Answer
  \/ Accept
  \/ Seed

Spec == Init /\ [][Next]_vars
-----------------------------------------------------------------------------
(* What must hold.                                                         *)

Written(kinds) == {i \in DOMAIN trail : trail[i].kind \in kinds}

\* Nothing the Desk offers or closes on earns less than its lines ask for, at the
\* costs it was priced from: neither the buyer's number, nor a lever, nor a price that
\* was solved for and rounded.
NothingBelowFloor ==
  \A i \in Written({"offered", "closed"}) :
    LET deal == trail[i].deal.proposal IN Holds(deal.product, deal.shape, deal.price)

\* Whether a price would hold if waiting to be paid cost its exact share.
HoldsExactly(product, s, price) ==
  Den * (Goods(s, price) + Express(s) - product.cost * s.quantity - s.companion.cost - Handling)
    >= Carry[s.payment] * Goods(s, price) + Required(product, s, price)

\* A price the Desk names itself below list is the closest it can get: none of the
\* arrangements the position allows holds at a lower price of the product's, as
\* charged and exactly.
NamesTheLeast ==
  \A i \in Written({"offered"}) :
    LET p == trail[i].deal.position
        named == trail[i].deal.proposal.price
        arrangements == {Shapes(p)[s] : s \in DOMAIN Shapes(p)}
        lower == {x \in 0..(named.amount - 1) : x % p.product.grid = 0}
    IN  (Haggles(p) /\ named # p.ask.target) =>
          \A s \in arrangements, x \in lower :
            LET price == [amount |-> x, grid |-> p.product.grid]
            IN  ~(Holds(p.product, s, price) /\ HoldsExactly(p.product, s, price))

\* The Desk offers for less than the buyer would pay only where the rounding of the
\* cost of waiting, and nothing else, refuses the buyer's number.
UndercutsByRoundingAlone ==
  \A i \in Written({"offered"}) :
    LET p == trail[i].deal.position
        proposal == trail[i].deal.proposal
    IN  (Haggles(p) /\ proposal.price.amount < p.ask.target.amount) =>
          /\ \A s \in DOMAIN Shapes(p) : ~Holds(p.product, Shapes(p)[s], p.ask.target)
          /\ HoldsExactly(p.product, proposal.shape, p.ask.target)

\* No floor and no waiting to be paid take all of the revenue between them, and what is
\* written coarser than the item, put beside it, does not pay for the packing: elsewhere
\* policy.py may name more than the least, for it has no price where the one is so, and
\* writes a free item in whole units.
OrdinaryCatalogues ==
  \A c, d \in Catalogues :
    /\ \A k \in DOMAIN c, t \in PaymentTerms : c[k].floor + Carry[t] < Den
    /\ Item \in DOMAIN c =>
         \A k \in DOMAIN d \ {Item} :
           d[k].grid <= c[Item].grid \/ SurplusAtList(d[k]) <= Den * Handling

\* What the Desk asks for when it does not take the buyer's number (policy.py, _solve).
NamedPricesAreTheLeast == NamesTheLeast /\ UndercutsByRoundingAlone

\* A negotiation has one ending in the trail and nothing after it, whichever record
\* fails and whatever the caller then does.
EndsOnce ==
  \A i \in Written({"closed", "walked_away"}) : i = Len(trail) /\ over

\* From the last round on nothing is put on the table, whatever became of the rounds
\* before it.
PatienceRunsOut ==
  \A i \in Written({"offered", "lever"}) : trail[i].round < Rounds

\* However it goes, a negotiation is over once and in time (deal.py, receive and accept).
EndsInTime == EndsOnce /\ PatienceRunsOut

\* The Desk never walks away from a price that it could have closed on, the bound
\* notwithstanding.
NeverWalksFromADeal ==
  \A i \in Written({"walked_away"}) :
    LET p == trail[i].deal.position
    IN  Haggles(p) => ~Holds(p.product, Plain(p.ask), p.ask.target)

\* A buyer's yes closes on what the buyer was last told, unless there was an offer
\* since that it was not told (one whose record raised).
AcceptedWasSaid ==
  \A i \in Written({"closed"}) :
    trail[i].deal.proposal.move = "counter" => lost \/ heard = {trail[i].deal}
=============================================================================
