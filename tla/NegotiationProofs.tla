------------------------- MODULE NegotiationProofs -------------------------
(***************************************************************************)
(* Theorems about Negotiation: how one ends, by when, and on what, and of  *)
(* what it is about.                                                       *)
(*                                                                         *)
(* How one ends holds of any policy; that no deal is walked from uses of   *)
(* Propose only that what holds plainly is accepted.  What is said of      *)
(* prices is of FixedPolicy: every proposal holds because every candidate  *)
(* of the solve is verified (LeastPriceHolds), and none that holds is      *)
(* lower because each of its four steps starts from a number below which   *)
(* nothing holds (StartIsLeast, NothingHoldsBelow).  That a least option   *)
(* exists is well-foundedness (LeastNatural).                              *)
(***************************************************************************)
EXTENDS Negotiation, SequenceTheorems, FiniteSetTheorems, NaturalsInduction,
        WellFoundedInduction, TLAPS

\* What stands was told to the buyer, or was not and that is known.
StandingWasSaid == \A deal \in standing : lost \/ heard = {deal}

\* An answer is worked out only while the negotiation runs.
OpenWhileReading == reading # {} => ~over

Frame ==
  /\ \E S : trail \in Seq(S)
  /\ round \in Nat
  /\ over \in BOOLEAN /\ lost \in BOOLEAN

\* A walk-away is the policy's answer to its position, and was not an acceptance.
WalksAreDecided ==
  \A i \in Written({"walked_away"}) :
    LET deal == trail[i].deal
    IN  deal.proposal = Propose(deal.position) /\ deal.proposal.move # "accept"

NegInv ==
  /\ Frame
  /\ OpenWhileReading
  /\ StandingWasSaid
  /\ EndsOnce
  /\ PatienceRunsOut
  /\ AcceptedWasSaid
  /\ WalksAreDecided
-----------------------------------------------------------------------------
\* What was in the trail stays where it was, and the first n entries come after it.
LEMMA WriteAppends ==
  ASSUME NEW S, trail \in Seq(S), NEW entries, NEW T, entries \in Seq(T),
         NEW n \in Nat, NEW told, Write(entries, n, told)
  PROVE  /\ trail' \in Seq(S \union T)
         /\ Len(trail') = Len(trail) + n
         /\ n <= Len(entries)
         /\ \A i \in 1..Len(trail) : trail'[i] = trail[i]
         /\ \A i \in (Len(trail) + 1)..Len(trail') : trail'[i] = entries[i - Len(trail)]
<1> DEFINE added == SubSeq(entries, 1, n)
<1>1. n <= Len(entries) /\ trail' = trail \o added
  BY DEF Write
<1>2. trail \in Seq(S \union T) /\ entries \in Seq(S \union T)
  OBVIOUS
<1>3. /\ added \in Seq(S \union T)
      /\ Len(added) = n
      /\ \A i \in 1..n : added[i] = entries[i]
  BY <1>1, <1>2
<1> HIDE DEF added
<1> QED
  BY <1>1, <1>2, <1>3

\* What an answer may write: one ending, or an offer and at most its lever.
LEMMA EntriesShape ==
  ASSUME NEW deal
  PROVE  /\ Entries(deal) \in Seq({Entry(Kind(deal.proposal), deal), Entry("lever", deal)})
         /\ Kind(deal.proposal) # "offered" => Len(Entries(deal)) = 1
         /\ Entries(deal)[1] = Entry(Kind(deal.proposal), deal)
         /\ Len(Entries(deal)) = 2 => Entries(deal)[2] = Entry("lever", deal)
         /\ Len(Entries(deal)) \in 1..2
<1> DEFINE first == Entry(Kind(deal.proposal), deal)
           second == Entry("lever", deal)
<1>1. CASE Kind(deal.proposal) = "offered" /\ deal.proposal.shape.lever # "none"
  <2>1. Entries(deal) = <<first>> \o <<second>>
    BY <1>1 DEF Entries
  <2> HIDE DEF first, second
  <2>2. /\ <<first>> \o <<second>> \in Seq({first, second})
        /\ Len(<<first>> \o <<second>>) = 2
        /\ (<<first>> \o <<second>>)[1] = first
        /\ (<<first>> \o <<second>>)[2] = second
    <3>1. <<first>> \in Seq({first, second}) /\ <<second>> \in Seq({first, second})
      OBVIOUS
    <3> QED
      BY <3>1, ConcatProperties
  <2> QED
    BY <1>1, <2>1, <2>2 DEF first, second
<1>2. CASE ~(Kind(deal.proposal) = "offered" /\ deal.proposal.shape.lever # "none")
  <2>1. Entries(deal) = <<first>> \o <<>>
    BY <1>2 DEF Entries
  <2> HIDE DEF first, second
  <2>2. <<first>> \o <<>> = <<first>>
    <3>1. <<first>> \in Seq({first})
      OBVIOUS
    <3> QED
      BY <3>1, ConcatEmptySeq
  <2> QED
    BY <2>1, <2>2 DEF first, second
<1> QED
  BY <1>1, <1>2

\* What an answer writes, whatever the policy proposed: the entry of what it comes to,
\* after all there were, and a lever after an offer.
LEMMA AnswerWrites ==
  ASSUME NegInv, Answer
  PROVE  \E deal \in {Deal(Position(read), Propose(Position(read))) : read \in reading},
            told \in BOOLEAN :
           LET kind == Kind(deal.proposal)
               offers == kind = "offered"
           IN  /\ over' = ~offers /\ reading' = {} /\ round' = round
               /\ standing' = IF offers THEN {deal} ELSE standing
               /\ heard' = IF offers /\ told THEN {deal} ELSE heard
               /\ lost' = IF offers THEN ~told ELSE lost
               /\ \E S : trail' \in Seq(S)
               /\ \A i \in DOMAIN trail' :
                    \/ i \in DOMAIN trail /\ trail'[i] = trail[i]
                    \/ trail'[i] = Entry(kind, deal)
                    \/ trail'[i] = Entry("lever", deal) /\ offers
               /\ \A i \in DOMAIN trail' :
                    trail'[i].kind \in {"closed", "walked_away"} =>
                      ~offers /\ i = Len(trail') /\ trail'[i] = Entry(kind, deal)
<1>1. PICK deal \in {Deal(Position(read), Propose(Position(read))) : read \in reading} :
        LET offers == Kind(deal.proposal) = "offered"
        IN  /\ over' = ~offers
            /\ standing' = IF offers THEN Stands(deal) ELSE standing
            /\ \E n \in 0..2, told \in BOOLEAN :
                 /\ Write(Entries(deal), n, told)
                 /\ heard' = IF offers /\ told THEN {deal} ELSE heard
                 /\ lost' = IF offers THEN ~told ELSE lost
  BY DEF Answer
<1> DEFINE offers == Kind(deal.proposal) = "offered"
<1>2. PICK n \in 0..2, told \in BOOLEAN :
        /\ Write(Entries(deal), n, told)
        /\ heard' = IF offers /\ told THEN {deal} ELSE heard
        /\ lost' = IF offers THEN ~told ELSE lost
  BY <1>1
<1>3. /\ over' = ~offers /\ reading' = {} /\ round' = round
      /\ standing' = IF offers THEN {deal} ELSE standing
  BY <1>1 DEF Answer, Stands
<1>4. ~over
  BY <1>1 DEF NegInv, OpenWhileReading
<1>5. PICK S : trail \in Seq(S)
  BY DEF NegInv, Frame
<1> DEFINE kind == Kind(deal.proposal)
           T == {Entry(kind, deal), Entry("lever", deal)}
<1>6. /\ trail' \in Seq(S \union T)
      /\ Len(trail') = Len(trail) + n
      /\ n <= Len(Entries(deal))
      /\ \A i \in 1..Len(trail) : trail'[i] = trail[i]
      /\ \A i \in (Len(trail) + 1)..Len(trail') : trail'[i] = Entries(deal)[i - Len(trail)]
  <2>1. Entries(deal) \in Seq(T)
    BY EntriesShape
  <2>2. n \in Nat
    OBVIOUS
  <2> QED
    BY <1>2, <1>5, <2>1, <2>2, WriteAppends
<1>7. DOMAIN trail = 1..Len(trail) /\ DOMAIN trail' = 1..Len(trail') /\ Len(trail) \in Nat
  BY <1>5, <1>6
<1> DEFINE entries == Entries(deal)
<1>20. /\ Len(entries) \in 1..2
       /\ ~offers => Len(entries) = 1
       /\ entries[1] = Entry(kind, deal)
       /\ Len(entries) = 2 => entries[2] = Entry("lever", deal)
  BY EntriesShape
<1>21. n \in Nat /\ n <= Len(entries) /\ Len(trail') = Len(trail) + n
  BY <1>6
\* The entries there were, the first new one, and a lever after it.
<1>8. \A i \in DOMAIN trail' :
        \/ i \in DOMAIN trail /\ trail'[i] = trail[i]
        \/ i = Len(trail) + 1 /\ trail'[i] = Entry(kind, deal)
        \/ i = Len(trail) + 2 /\ trail'[i] = Entry("lever", deal) /\ offers
  <2> SUFFICES ASSUME NEW i \in DOMAIN trail', i \notin DOMAIN trail
               PROVE  \/ i = Len(trail) + 1 /\ trail'[i] = Entry(kind, deal)
                      \/ i = Len(trail) + 2 /\ trail'[i] = Entry("lever", deal) /\ offers
    BY <1>6, <1>7
  <2> DEFINE k == i - Len(trail)
  <2>1. i \in Int /\ k \in 1..Len(entries) /\ trail'[i] = entries[k]
    BY <1>6, <1>7, <1>20
  <2>2. CASE k = 1
    BY <1>7, <1>20, <2>1, <2>2
  <2>3. CASE k # 1
    <3>1. k = 2 /\ Len(entries) = 2
      BY <1>20, <2>1, <2>3
    <3>2. i = Len(trail) + 2
      BY <1>7, <2>1, <3>1
    <3>3. offers
      BY <1>20, <3>1
    <3>4. trail'[i] = Entry("lever", deal)
      BY <1>20, <2>1, <3>1
    <3> QED
      BY <3>2, <3>3, <3>4
  <2> QED
    BY <2>2, <2>3
\* Nothing had ended.
<1>9. \A i \in DOMAIN trail : trail[i].kind \notin {"closed", "walked_away"}
  BY <1>4 DEF NegInv, EndsOnce, Written
<1>10. \A i \in DOMAIN trail' :
         trail'[i].kind \in {"closed", "walked_away"} =>
           /\ ~offers /\ i = Len(trail') /\ trail'[i] = Entry(kind, deal)
  <2> SUFFICES ASSUME NEW i \in DOMAIN trail', trail'[i].kind \in {"closed", "walked_away"}
               PROVE  ~offers /\ i = Len(trail') /\ trail'[i] = Entry(kind, deal)
    OBVIOUS
  <2>1. i = Len(trail) + 1 /\ trail'[i] = Entry(kind, deal)
    BY <1>8, <1>9 DEF Entry
  <2>2. ~offers
    BY <2>1 DEF Entry
  <2>3. Len(entries) = 1
    BY <1>20, <2>2
  <2>4. i \in 1..Len(trail')
    BY <1>7
  <2>5. i = Len(trail')
    <3> HIDE DEF entries
    <3> QED
      BY <1>7, <1>21, <2>1, <2>3, <2>4
  <2> QED
    BY <2>1, <2>2, <2>5
<1>11. \A i \in DOMAIN trail' :
         \/ i \in DOMAIN trail /\ trail'[i] = trail[i]
         \/ trail'[i] = Entry(kind, deal)
         \/ trail'[i] = Entry("lever", deal) /\ offers
  BY <1>8
<1>12. \E U : trail' \in Seq(U)
  BY <1>6
<1> QED
  BY <1>1, <1>2, <1>3, <1>10, <1>11, <1>12

\* What an answer does, whatever the policy proposed.
LEMMA AnswerStep ==
  ASSUME NegInv, Answer
  PROVE  NegInv'
<1>1. PICK deal \in {Deal(Position(read), Propose(Position(read))) : read \in reading},
           told \in BOOLEAN :
        LET kind == Kind(deal.proposal)
            offers == kind = "offered"
        IN  /\ over' = ~offers /\ reading' = {} /\ round' = round
            /\ standing' = IF offers THEN {deal} ELSE standing
            /\ heard' = IF offers /\ told THEN {deal} ELSE heard
            /\ lost' = IF offers THEN ~told ELSE lost
            /\ \E S : trail' \in Seq(S)
            /\ \A i \in DOMAIN trail' :
                 \/ i \in DOMAIN trail /\ trail'[i] = trail[i]
                 \/ trail'[i] = Entry(kind, deal)
                 \/ trail'[i] = Entry("lever", deal) /\ offers
            /\ \A i \in DOMAIN trail' :
                 trail'[i].kind \in {"closed", "walked_away"} =>
                   ~offers /\ i = Len(trail') /\ trail'[i] = Entry(kind, deal)
  BY AnswerWrites
<1> DEFINE kind == Kind(deal.proposal)
           offers == kind = "offered"
<1>2. /\ heard' = IF offers /\ told THEN {deal} ELSE heard
      /\ lost' = IF offers THEN ~told ELSE lost
  BY <1>1
<1>3. /\ over' = ~offers /\ reading' = {} /\ round' = round
      /\ standing' = IF offers THEN {deal} ELSE standing
  BY <1>1
<1>6. \E S : trail' \in Seq(S)
  BY <1>1
<1>8. \A i \in DOMAIN trail' :
        \/ i \in DOMAIN trail /\ trail'[i] = trail[i]
        \/ trail'[i] = Entry(kind, deal)
        \/ trail'[i] = Entry("lever", deal) /\ offers
  BY <1>1
<1>10. \A i \in DOMAIN trail' :
         trail'[i].kind \in {"closed", "walked_away"} =>
           ~offers /\ i = Len(trail') /\ trail'[i] = Entry(kind, deal)
  BY <1>1
<1>11. Frame'
  BY <1>2, <1>3, <1>6 DEF NegInv, Frame
<1>12. OpenWhileReading'
  BY <1>3 DEF OpenWhileReading
<1>13. StandingWasSaid'
  BY <1>2, <1>3 DEF NegInv, StandingWasSaid
<1>14. EndsOnce'
  BY <1>3, <1>10 DEF EndsOnce, Written
<1>15. PatienceRunsOut'
  <2>1. offers => round < Rounds
    BY NegotiationAssumption DEF Kind, NegInv, Frame
  <2>2. SUFFICES ASSUME NEW i \in DOMAIN trail', trail'[i].kind \in {"offered", "lever"}
                 PROVE  trail'[i].round < Rounds
    BY DEF PatienceRunsOut, Written
  <2>3. CASE i \in DOMAIN trail /\ trail'[i] = trail[i]
    BY <2>2, <2>3 DEF NegInv, PatienceRunsOut, Written
  <2>4. CASE trail'[i] = Entry(kind, deal)
    <3>1. kind \in {"closed", "walked_away", "offered"}
      BY DEF Kind
    <3> QED
      BY <2>1, <2>2, <2>4, <3>1 DEF Entry
  <2>5. CASE trail'[i] = Entry("lever", deal) /\ offers
    BY <2>1, <2>5 DEF Entry
  <2> QED
    BY <1>8, <2>3, <2>4, <2>5
<1>16. AcceptedWasSaid'
  <2> SUFFICES ASSUME NEW i \in DOMAIN trail', trail'[i].kind = "closed"
               PROVE  trail'[i].deal.proposal.move # "counter"
    BY DEF AcceptedWasSaid, Written
  <2>1. trail'[i] = Entry(kind, deal)
    BY <1>10
  <2>2. kind = "closed"
    BY <2>1 DEF Entry
  <2> QED
    BY <2>1, <2>2 DEF Entry, Kind
<1>17. WalksAreDecided'
  <2> SUFFICES ASSUME NEW i \in DOMAIN trail', trail'[i].kind = "walked_away"
               PROVE  /\ trail'[i].deal.proposal = Propose(trail'[i].deal.position)
                      /\ trail'[i].deal.proposal.move # "accept"
    BY DEF WalksAreDecided, Written
  <2>1. trail'[i] = Entry(kind, deal)
    BY <1>10
  <2>2. kind = "walked_away" /\ trail'[i].deal = deal
    BY <2>1 DEF Entry
  <2>3. deal.proposal.move # "accept"
    BY <2>2 DEF Kind
  <2>4. deal.proposal = Propose(deal.position)
    BY <1>1 DEF Deal
  <2> QED
    BY <2>2, <2>3, <2>4
<1> QED
  BY <1>11, <1>12, <1>13, <1>14, <1>15, <1>16, <1>17 DEF NegInv

\* What a yes writes: an ending of what stands, after all there were, or nothing.
LEMMA AcceptWrites ==
  ASSUME NegInv, Accept
  PROVE  \E deal \in standing :
           /\ \E S : trail' \in Seq(S)
           /\ \A i \in DOMAIN trail' :
                \/ i \in DOMAIN trail /\ trail'[i] = trail[i]
                \/ i = Len(trail') /\ trail'[i] = Entry("closed", deal)
<1>1. PICK deal \in standing, n \in 0..1 : Write(<<Entry("closed", deal)>>, n, FALSE)
  BY DEF Accept
<1>3. PICK S : trail \in Seq(S)
  BY DEF NegInv, Frame
<1> DEFINE yes == Entry("closed", deal)
<1>4. /\ trail' \in Seq(S \union {yes})
      /\ Len(trail') = Len(trail) + n
      /\ \A i \in 1..Len(trail) : trail'[i] = trail[i]
      /\ \A i \in (Len(trail) + 1)..Len(trail') : trail'[i] = <<yes>>[i - Len(trail)]
  <2>1. <<yes>> \in Seq({yes})
    OBVIOUS
  <2>2. n \in Nat
    OBVIOUS
  <2> QED
    BY <1>1, <1>3, <2>1, <2>2, WriteAppends
<1>5. DOMAIN trail = 1..Len(trail) /\ DOMAIN trail' = 1..Len(trail') /\ Len(trail) \in Nat
  BY <1>3, <1>4
<1>6. \A i \in DOMAIN trail' :
        \/ i \in DOMAIN trail /\ trail'[i] = trail[i]
        \/ i = Len(trail') /\ trail'[i] = yes
  <2> SUFFICES ASSUME NEW i \in DOMAIN trail', i \notin DOMAIN trail
               PROVE  i = Len(trail') /\ trail'[i] = yes
    BY <1>4, <1>5
  <2>1. i = Len(trail') /\ i = Len(trail) + 1
    BY <1>4, <1>5
  <2>2. trail'[i] = <<yes>>[i - Len(trail)] /\ i - Len(trail) = 1
    BY <1>4, <1>5, <2>1
  <2> HIDE DEF yes
  <2> QED
    BY <2>1, <2>2
<1>7. \E U : trail' \in Seq(U)
  BY <1>4
<1> QED
  BY <1>6, <1>7

\* A yes: the one ending, of what stands.
LEMMA AcceptStep ==
  ASSUME NegInv, Accept
  PROVE  NegInv'
<1>1. PICK deal \in standing :
        /\ \E S : trail' \in Seq(S)
        /\ \A i \in DOMAIN trail' :
             \/ i \in DOMAIN trail /\ trail'[i] = trail[i]
             \/ i = Len(trail') /\ trail'[i] = Entry("closed", deal)
  BY AcceptWrites
<1>2. /\ ~over /\ over' = TRUE /\ reading = {} /\ reading' = {}
      /\ round' = round /\ standing' = standing /\ heard' = heard /\ lost' = lost
  BY DEF Accept
<1>6. \A i \in DOMAIN trail' :
        \/ i \in DOMAIN trail /\ trail'[i] = trail[i]
        \/ i = Len(trail') /\ trail'[i] = Entry("closed", deal)
  BY <1>1
<1>7. \A i \in DOMAIN trail : trail[i].kind \notin {"closed", "walked_away"}
  BY <1>2 DEF NegInv, EndsOnce, Written
<1>8. Frame'
  BY <1>1, <1>2 DEF NegInv, Frame
<1>9. OpenWhileReading' /\ StandingWasSaid'
  BY <1>2 DEF NegInv, OpenWhileReading, StandingWasSaid
<1>10. EndsOnce'
  BY <1>2, <1>6, <1>7 DEF EndsOnce, Written
<1>11. PatienceRunsOut'
  BY <1>6 DEF NegInv, PatienceRunsOut, Written, Entry
<1>12. AcceptedWasSaid'
  BY <1>1, <1>2, <1>6, <1>7 DEF NegInv, AcceptedWasSaid, StandingWasSaid, Written, Entry
<1>13. WalksAreDecided'
  BY <1>6 DEF NegInv, WalksAreDecided, Written, Entry
<1> QED
  BY <1>8, <1>9, <1>10, <1>11, <1>12, <1>13 DEF NegInv

\* The inductive invariant.
THEOREM NegInductive == Spec => []NegInv
<1>1. Init => NegInv
  <2> SUFFICES ASSUME Init PROVE NegInv
    OBVIOUS
  <2>1. trail \in Seq({}) /\ DOMAIN trail = {}
    BY DEF Init
  <2>2. Frame
    BY <2>1 DEF Init, Frame
  <2> QED
    BY <2>1, <2>2 DEF Init, NegInv, OpenWhileReading, StandingWasSaid, EndsOnce,
                      PatienceRunsOut, AcceptedWasSaid, WalksAreDecided, Written
<1>2. NegInv /\ [Next]_vars => NegInv'
  <2> SUFFICES ASSUME NegInv, [Next]_vars PROVE NegInv'
    OBVIOUS
  <2> USE DEF NegInv, Frame, OpenWhileReading, StandingWasSaid, EndsOnce,
              PatienceRunsOut, AcceptedWasSaid, WalksAreDecided, Written
  <2>1. CASE \E ask \in Asks : Receive(ask)
    BY <2>1 DEF Receive
  <2>2. CASE ReceiveUnread
    BY <2>2 DEF ReceiveUnread
  <2>3. CASE Abandon
    BY <2>3 DEF Abandon
  <2>4. CASE Answer
    BY <2>4, AnswerStep
  <2>5. CASE Accept
    BY <2>5, AcceptStep
  <2>6. CASE Seed
    BY <2>6 DEF Seed
  <2>7. CASE UNCHANGED vars
    BY <2>7 DEF vars
  <2> QED
    BY <2>1, <2>2, <2>3, <2>4, <2>5, <2>6, <2>7 DEF Next
<1> QED
  BY <1>1, <1>2, PTL DEF Spec

\* EndsInTime: whatever the policy, the bound, the asks and the catalogue, and whichever
\* record fails, a negotiation has one ending and nothing after it, and no offer is made
\* in or after the last round.
THEOREM NegotiationsEndInTime == Spec => []EndsInTime
<1>1. NegInv => EndsInTime
  BY DEF NegInv, EndsInTime
<1> QED
  BY <1>1, NegInductive, PTL

\* A yes closes on the last offer the buyer was told, unless one since was lost.
THEOREM YesMeansWhatWasSaid == Spec => []AcceptedWasSaid
<1>1. NegInv => AcceptedWasSaid
  BY DEF NegInv
<1> QED
  BY <1>1, NegInductive, PTL

-----------------------------------------------------------------------------
\* What is put after a sequence leaves its first element where it is.
LEMMA ConcatKeepsFirst ==
  ASSUME NEW S, NEW s \in Seq(S), NEW t \in Seq(S), s # <<>>
  PROVE  s \o t \in Seq(S) /\ s \o t # <<>> /\ (s \o t)[1] = s[1]
<1>1. Len(s) \in Nat \ {0} /\ Len(t) \in Nat
  BY EmptySeq, LenProperties
<1>2. Len(s \o t) = Len(s) + Len(t) /\ s \o t \in Seq(S)
  BY ConcatProperties
<1>3. (s \o t)[1] = s[1]
  BY <1>1, ConcatProperties
<1> QED
  BY <1>1, <1>2, <1>3

\* A lever adds its arrangement or none.
LEMMA WithLeverSeq ==
  ASSUME NEW S, NEW shape, NEW available, available => shape \in S
  PROVE  WithLever(available, shape) \in Seq(S)
<1>1. CASE available
  BY <1>1 DEF WithLever
<1>2. CASE ~available
  BY <1>2 DEF WithLever
<1> QED
  BY <1>1, <1>2

\* The first arrangement considered is the plain one, whatever the position allows.
LEMMA PlainIsFirst ==
  ASSUME NEW p
  PROVE  1 \in DOMAIN Shapes(p) /\ Shapes(p)[1] = Plain(p.ask)
<1> DEFINE a == <<Plain(p.ask)>>
           b == Shape("bundle", p.ask.quantity, Companion(p), FALSE, "on_delivery")
           c == Shape("quantity_break", p.ask.most, Nothing, FALSE, "on_delivery")
           d == Shape("delivery_speed", p.ask.quantity, Nothing, TRUE, "on_delivery")
           e == Shape("payment_terms", p.ask.quantity, Nothing, FALSE, "prepaid")
           S == {Plain(p.ask), b, c, d, e}
           wb == WithLever(Candidates(p) # {}, b)
           wc == WithLever(p.ask.most > p.ask.quantity, c)
           wd == WithLever(p.ask.faster, d)
           we == WithLever(p.ask.prepay, e)
<1>1. Shapes(p) = a \o wb \o wc \o wd \o we
  BY DEF Shapes
<1>2. a \in Seq(S) /\ a # <<>> /\ a[1] = Plain(p.ask)
  OBVIOUS
<1>3. wb \in Seq(S) /\ wc \in Seq(S) /\ wd \in Seq(S) /\ we \in Seq(S)
  <2> b \in S /\ c \in S /\ d \in S /\ e \in S
    OBVIOUS
  <2> HIDE DEF b, c, d, e, S
  <2> QED
    BY WithLeverSeq
<1> HIDE DEF a, wb, wc, wd, we, S
<1>4. a \o wb \in Seq(S) /\ a \o wb # <<>> /\ (a \o wb)[1] = a[1]
  BY <1>2, <1>3, ConcatKeepsFirst
<1>5. LET s == a \o wb \o wc IN s \in Seq(S) /\ s # <<>> /\ s[1] = a[1]
  BY <1>3, <1>4, ConcatKeepsFirst
<1>6. LET s == a \o wb \o wc \o wd IN s \in Seq(S) /\ s # <<>> /\ s[1] = a[1]
  BY <1>3, <1>5, ConcatKeepsFirst
<1>7. Shapes(p) \in Seq(S) /\ Shapes(p) # <<>> /\ Shapes(p)[1] = a[1]
  BY <1>1, <1>3, <1>6, ConcatKeepsFirst
<1> QED
  BY <1>2, <1>7, EmptySeq, LenProperties

\* A price that holds plainly is accepted.
LEMMA HoldingIsAccepted ==
  ASSUME NEW p, Haggles(p), Holds(p.product, Plain(p.ask), p.ask.target)
  PROVE  Propose(p).move = "accept"
<1>1. 1 \in Reaching(p)
  BY PlainIsFirst DEF Reaching
<1>2. Propose(p) = Proposal("accept", p, Shapes(p)[Min(Reaching(p))], p.ask.target)
  BY <1>1 DEF Propose
<1> QED
  BY <1>2 DEF Proposal

\* The Desk never walks away from a price that holds plainly, whatever the bound.
THEOREM NoDealIsWalkedFrom == Spec => []NeverWalksFromADeal
<1>1. NegInv => NeverWalksFromADeal
  BY HoldingIsAccepted DEF NegInv, WalksAreDecided, NeverWalksFromADeal
<1> QED
  BY <1>1, NegInductive, PTL
-----------------------------------------------------------------------------
(* What the state holds.                                                   *)

\* A position the policy can be asked about.
IsPosition(p) ==
  /\ p.product \in Product
  /\ p.companions \subseteq Product /\ IsFiniteSet(p.companions)
  /\ p.ask.target.amount = -1 \/ p.ask.target \in Price
  /\ p.ask.quantity \in Nat \ {0} /\ p.ask.most \in Nat

\* The catalogue is one of those there may be, and what is read comes of it or of one before.
Reads ==
  /\ catalogue \in Catalogues
  /\ \A read \in reading :
       /\ read.ask \in Asks
       /\ \E c \in Catalogues : Item \in DOMAIN c /\ read.product = c[Item]
  /\ \A one, other \in reading : one = other

\* What is read is an ask and a product, through every seeding of the catalogue.
THEOREM ReadsAreTyped == Spec => []Reads
<1>1. Init => Reads
  BY DEF Init, Reads
<1>2. Reads /\ [Next]_vars => Reads'
  <2> SUFFICES ASSUME Reads, [Next]_vars PROVE Reads'
    OBVIOUS
  <2> USE DEF Reads
  <2>1. ASSUME NEW ask \in Asks, Receive(ask) PROVE Reads'
    BY <2>1 DEF Receive
  <2>2. CASE ReceiveUnread
    BY <2>2 DEF ReceiveUnread
  <2>3. CASE Abandon
    BY <2>3 DEF Abandon
  <2>4. CASE Answer
    BY <2>4 DEF Answer
  <2>5. CASE Accept
    BY <2>5 DEF Accept
  <2>6. CASE Seed
    BY <2>6 DEF Seed
  <2>7. CASE UNCHANGED vars
    BY <2>7 DEF vars
  <2> QED
    BY <2>1, <2>2, <2>3, <2>4, <2>5, <2>6, <2>7 DEF Next
<1> QED
  BY <1>1, <1>2, PTL DEF Spec

\* Whatever is read, it and the catalogue make a position.
LEMMA ReadsArePositions ==
  ASSUME Reads, NEW read \in reading
  PROVE  IsPosition(Position(read))
<1> DEFINE skus == (Authorised \intersect DOMAIN catalogue) \ {Item}
           Of == [k \in skus |-> catalogue[k]]
<1>1. /\ IsFiniteSet(DOMAIN catalogue)
      /\ \A k \in DOMAIN catalogue : catalogue[k] \in Product /\ catalogue[k].sku = k
  BY NegotiationAssumption DEF Reads
<1>2. Companions \subseteq Product
  BY <1>1 DEF Companions
<1>3. IsFiniteSet(Companions)
  <2>1. IsFiniteSet(skus)
    BY <1>1, FS_Subset
  <2>2. Of \in Surjection(skus, Companions)
    BY DEF Surjection, Companions
  <2> HIDE DEF Of, skus
  <2> QED
    BY <2>1, <2>2, FS_Surjection
<1>4. /\ read.product \in Product
      /\ read.ask.target.amount = -1 \/ read.ask.target \in Price
      /\ read.ask.quantity \in Nat \ {0} /\ read.ask.most \in Nat
  BY NegotiationAssumption DEF Reads
<1> QED
  BY <1>2, <1>3, <1>4 DEF IsPosition, Position
-----------------------------------------------------------------------------
(* Leasts and greatests.                                                   *)

\* What is not empty has a least number.
LEMMA LeastNatural ==
  ASSUME NEW S \in SUBSET Nat, S # {}
  PROVE  \E m \in S : \A n \in S : m <= n
<1> DEFINE Less == OpToRel(<, Nat)
<1>1. PICK m \in S : \A n \in S : ~(<<n, m>> \in Less)
  <2> HIDE DEF Less
  <2>1. IsWellFoundedOn(Less, Nat)
    BY NatLessThanWellFounded DEF Less
  <2> QED
    BY <2>1, WFMin
<1>2. \A n \in S : ~(n < m)
  BY <1>1 DEF OpToRel
<1> QED
  BY <1>2

\* The minimum of a set of numbers is one of them, and the least.
LEMMA MinIsLeast ==
  ASSUME NEW S \in SUBSET Nat, S # {}
  PROVE  Min(S) \in S /\ \A n \in S : Min(S) <= n
BY LeastNatural DEF Min

\* What has a greatest whatever is left out of it but one thing: every finite set that
\* is in some order.
LEMMA FiniteHasGreatest ==
  ASSUME NEW S, IsFiniteSet(S), S # {}, NEW R,
         \A a, b \in S : <<a, b>> \in R \/ <<b, a>> \in R,
         \A a, b, c \in S : <<a, b>> \in R /\ <<b, c>> \in R => <<a, c>> \in R
  PROVE  \E g \in S : \A o \in S : <<g, o>> \in R
<1> DEFINE Has(T) == \E g \in T : \A o \in T : <<g, o>> \in R
           Bad == {n \in Nat : \E T \in SUBSET S : T # {} /\ Cardinality(T) = n /\ ~Has(T)}
<1>1. \A T \in SUBSET S : IsFiniteSet(T) /\ Cardinality(T) \in Nat
  BY FS_Subset, FS_CardinalityType
<1>2. SUFFICES ASSUME Bad # {} PROVE FALSE
  <2>1. S \in SUBSET S /\ Cardinality(S) \in Nat
    BY <1>1
  <2> QED
    BY <2>1
<1>3. PICK n \in Bad : \A m \in Bad : n <= m
  <2>1. Bad \in SUBSET Nat
    OBVIOUS
  <2> HIDE DEF Bad
  <2> QED
    BY <1>2, <2>1, LeastNatural
<1>4. PICK T \in SUBSET S : T # {} /\ Cardinality(T) = n /\ ~Has(T)
  OBVIOUS
<1>5. PICK x \in T : TRUE
  BY <1>4
<1> DEFINE U == T \ {x}
<1>6. U \in SUBSET S /\ Cardinality(U) = n - 1 /\ n \in Nat /\ Cardinality(U) \in Nat
  <2>1. Cardinality(U) = Cardinality(T) - 1
    BY <1>1, <1>5, FS_RemoveElement
  <2> QED
    BY <1>1, <1>4, <2>1
<1>7. Cardinality(U) \notin Bad
  <2> HIDE DEF Bad, U
  <2> QED
    BY <1>3, <1>6
<1>8. CASE U = {}
  BY <1>4, <1>5, <1>8
<1>9. CASE U # {}
  <2>1. Has(U)
    <3> HIDE DEF U, Has
    <3> QED
      BY <1>6, <1>7, <1>9
  <2>2. PICK g \in U : \A o \in U : <<g, o>> \in R
    BY <2>1
  <2>3. CASE <<g, x>> \in R
    BY <1>4, <2>2, <2>3
  <2>4. CASE <<x, g>> \in R
    <3>1. \A o \in U : <<x, o>> \in R
      BY <1>5, <2>2, <2>4
    <3>2. <<x, x>> \in R
      BY <1>5
    <3> QED
      BY <1>4, <1>5, <3>1, <3>2
  <2> QED
    BY <1>5, <2>2, <2>3, <2>4
<1> QED
  BY <1>8, <1>9
-----------------------------------------------------------------------------
(* The arrangements.                                                       *)

\* What an arrangement is made of.
IsArrangement(s) ==
  /\ s.quantity \in Nat \ {0}
  /\ s.companion = Nothing \/ s.companion \in Product
  /\ s.payment \in PaymentTerms

\* A product's numbers.
LEMMA ProductNumbers ==
  ASSUME NEW c \in Product
  PROVE  /\ c.sku \in Nat /\ c.cost \in Nat /\ c.list \in Nat \ {0} /\ c.floor \in 0..(Den - 1)
         /\ c.grid \in Nat \ {0} /\ c.list % c.grid = 0
         /\ SurplusAtList(c) \in Int
<1>1. Den \in Nat \ {0} /\ Unit \in Nat \ {0}
  BY MarginAssumption
<1>2. /\ c \in [sku : Nat, cost : Nat, list : Nat, floor : 0..(Den - 1), grid : Grids]
      /\ c.list > 0 /\ c.list % c.grid = 0
  BY DEF Product
<1>3. c.sku \in Nat /\ c.cost \in Nat /\ c.list \in Nat /\ c.floor \in 0..(Den - 1) /\ c.grid \in Grids
  BY <1>2
<1>4. c.grid \in Nat \ {0}
  BY <1>1, <1>3 DEF Grids
<1>5. SurplusAtList(c) \in Int
  BY <1>1, <1>3 DEF SurplusAtList
<1> QED
  BY <1>2, <1>3, <1>4, <1>5

\* There is a richest candidate, and it is the companion.
LEMMA CompanionIsCandidate ==
  ASSUME NEW p, IsPosition(p), Candidates(p) # {}
  PROVE  Companion(p) \in Candidates(p)
<1> DEFINE C == Candidates(p)
           R == {ab \in C \X C : Richer(ab[1], ab[2])}
<1>1. C \subseteq Product /\ IsFiniteSet(C)
  <2>1. C \in SUBSET p.companions
    BY DEF Candidates
  <2>2. IsFiniteSet(C)
    BY <2>1, FS_Subset DEF IsPosition
  <2> QED
    BY <2>1, <2>2 DEF IsPosition
<1> HIDE DEF C
<1>2. \A a, b \in C : <<a, b>> \in R <=> Richer(a, b)
  OBVIOUS
<1> HIDE DEF R
<1>3. \A a \in C : a.sku \in Nat /\ SurplusAtList(a) \in Int
  BY <1>1, ProductNumbers
<1>4. \A a, b \in C : Richer(a, b) \/ Richer(b, a)
  BY <1>3 DEF Richer
<1>5. \A a, b, c \in C : Richer(a, b) /\ Richer(b, c) => Richer(a, c)
  BY <1>3 DEF Richer
<1>6. \E g \in C : \A o \in C : <<g, o>> \in R
  <2>1. \A a, b \in C : <<a, b>> \in R \/ <<b, a>> \in R
    BY <1>2, <1>4
  <2>2. \A a, b, c \in C : <<a, b>> \in R /\ <<b, c>> \in R => <<a, c>> \in R
    BY <1>2, <1>5
  <2>3. C # {}
    BY DEF C
  <2> QED
    BY <1>1, <2>1, <2>2, <2>3, FiniteHasGreatest
<1>7. \E g \in C : \A o \in C : Richer(g, o)
  BY <1>2, <1>6
<1> QED
  BY <1>7 DEF C, Companion

\* Every arrangement a position makes available is one, and they are numbered.
LEMMA ShapesByNumber ==
  ASSUME NEW p, IsPosition(p)
  PROVE  /\ DOMAIN Shapes(p) \subseteq Nat
         /\ \A i \in DOMAIN Shapes(p) : IsArrangement(Shapes(p)[i])
<1> DEFINE plain == Plain(p.ask)
           b == Shape("bundle", p.ask.quantity, Companion(p), FALSE, "on_delivery")
           c == Shape("quantity_break", p.ask.most, Nothing, FALSE, "on_delivery")
           d == Shape("delivery_speed", p.ask.quantity, Nothing, TRUE, "on_delivery")
           e == Shape("payment_terms", p.ask.quantity, Nothing, FALSE, "prepaid")
           S == {s \in {plain, b, c, d, e} : IsArrangement(s)}
           wb == WithLever(Candidates(p) # {}, b)
           wc == WithLever(p.ask.most > p.ask.quantity, c)
           wd == WithLever(p.ask.faster, d)
           we == WithLever(p.ask.prepay, e)
<1>1. Shapes(p) = <<plain>> \o wb \o wc \o wd \o we
  BY DEF Shapes
<1>2. p.ask.quantity \in Nat \ {0} /\ p.ask.most \in Nat
  BY DEF IsPosition
<1>3. IsArrangement(plain) /\ IsArrangement(d) /\ IsArrangement(e)
  BY <1>2 DEF Plain, Shape, IsArrangement, PaymentTerms
<1>4. Candidates(p) # {} => IsArrangement(b)
  <2>1. Candidates(p) # {} => Companion(p) \in Product
    BY CompanionIsCandidate DEF Candidates, IsPosition
  <2> QED
    BY <1>2, <2>1 DEF Shape, IsArrangement, PaymentTerms
<1>5. p.ask.most > p.ask.quantity => IsArrangement(c)
  BY <1>2 DEF Shape, IsArrangement, PaymentTerms
<1> HIDE DEF plain, b, c, d, e
<1>6. /\ <<plain>> \in Seq(S) /\ wb \in Seq(S) /\ wc \in Seq(S)
      /\ wd \in Seq(S) /\ we \in Seq(S)
  <2>1. plain \in S /\ d \in S /\ e \in S
    BY <1>3
  <2>2. (Candidates(p) # {} => b \in S) /\ (p.ask.most > p.ask.quantity => c \in S)
    BY <1>4, <1>5
  <2> HIDE DEF S
  <2>3. <<plain>> \in Seq(S)
    BY <2>1
  <2> QED
    BY <2>1, <2>2, <2>3, WithLeverSeq
<1>7. \A s \in S : IsArrangement(s)
  OBVIOUS
<1> HIDE DEF wb, wc, wd, we, S
<1>8. <<plain>> \o wb \in Seq(S)
  BY <1>6, ConcatProperties
<1>9. <<plain>> \o wb \o wc \in Seq(S)
  BY <1>6, <1>8, ConcatProperties
<1>10. <<plain>> \o wb \o wc \o wd \in Seq(S)
  BY <1>6, <1>9, ConcatProperties
<1>11. Shapes(p) \in Seq(S)
  BY <1>1, <1>6, <1>10, ConcatProperties
<1> QED
  BY <1>7, <1>11

\* An arrangement's numbers.
LEMMA ArrangementNumbers ==
  ASSUME NEW s, IsArrangement(s)
  PROVE  /\ s.quantity \in Nat \ {0} /\ Carry[s.payment] \in 0..(Den - 1)
         /\ Express(s) \in Int
         /\ s.companion.list \in Nat /\ s.companion.cost \in Nat
         /\ s.companion.floor \in 0..(Den - 1) /\ s.companion.grid \in Nat \ {0}
<1>1. Den \in Nat \ {0} /\ Unit \in Nat \ {0}
  BY MarginAssumption
<1>2. Carry[s.payment] \in 0..(Den - 1) /\ Express(s) \in Int
  BY MarginAssumption DEF IsArrangement, Express
<1>3. CASE s.companion = Nothing
  BY <1>1, <1>2, <1>3 DEF Nothing, IsArrangement
<1>4. CASE s.companion \in Product
  BY <1>1, <1>2, <1>4, ProductNumbers DEF IsArrangement
<1> QED
  BY <1>3, <1>4 DEF IsArrangement
-----------------------------------------------------------------------------
(* The least price of an arrangement, and the best of them.                *)

\* The numbers an arrangement's price is solved from.
LEMMA SolvedNumbers ==
  ASSUME NEW product \in Product, NEW s, IsArrangement(s)
  PROVE  /\ Numerator(product, s) \in Int
         /\ Denominator(product, s) \in Int
         /\ Denominator(product, s) > 0 => Solved(product, s) \in Int
<1>1. /\ product.cost \in Nat /\ product.floor \in 0..(Den - 1) /\ product.grid \in Nat \ {0}
      /\ Den \in Nat \ {0} /\ Handling \in Nat
  BY ProductNumbers, MarginAssumption
<1>2. /\ s.quantity \in Nat \ {0} /\ Carry[s.payment] \in 0..(Den - 1)
      /\ Express(s) \in Int
      /\ s.companion.list \in Nat /\ s.companion.cost \in Nat
      /\ s.companion.floor \in 0..(Den - 1)
  BY ArrangementNumbers
<1>3. Numerator(product, s) \in Int
  BY <1>1, <1>2 DEF Numerator
<1>4. Denominator(product, s) \in Int
  BY <1>1, <1>2 DEF Denominator
<1>5. ASSUME Denominator(product, s) > 0 PROVE Solved(product, s) \in Int
  <2> DEFINE n == Numerator(product, s)
             d == Denominator(product, s)
             g == product.grid
  <2> HIDE DEF n, d
  <2>1. n \in Int /\ d \in Int /\ d > 0 /\ g \in Nat \ {0}
    BY <1>1, <1>3, <1>4, <1>5 DEF n, d
  <2> HIDE DEF g
  <2>2. d * g \in Nat \ {0}
    BY <2>1
  <2>3. (-n) \div (d * g) \in Int
    BY <2>1, <2>2
  <2>4. CeilingTo(g, n, d) \in Int
    BY <2>1, <2>3 DEF CeilingTo
  <2> QED
    BY <2>4 DEF Solved, n, d, g
<1> QED
  BY <1>3, <1>4, <1>5

\* What the verification tries is an amount.
LEMMA CandidatesAreAmounts ==
  ASSUME NEW product \in Product, NEW s, IsArrangement(s), Denominator(product, s) > 0,
         NEW i \in 0..(Steps - 1)
  PROVE  Candidate(product, s, i).amount \in Nat
<1>1. Solved(product, s) \in Int
  BY SolvedNumbers
<1>2. product.grid \in Nat /\ i \in Nat
  BY ProductNumbers DEF Steps
<1>3. Start(product, s).amount \in Nat
  BY <1>1 DEF Start
<1>4. i * product.grid \in Nat
  BY <1>2
<1>5. CASE i = 0
  BY <1>3, <1>5 DEF Candidate
<1>6. CASE i # 0
  <2> DEFINE start == Start(product, s).amount
             more == i * product.grid
  <2>1. Candidate(product, s, i).amount = start + more
    BY <1>6 DEF Candidate
  <2>2. start \in Nat /\ more \in Nat
    BY <1>3, <1>4
  <2> HIDE DEF start, more
  <2> QED
    BY <2>1, <2>2
<1> QED
  BY <1>5, <1>6

\* A least price, where there is one, holds, and is no more than the list price.
LEMMA LeastPriceHolds ==
  ASSUME NEW product \in Product, NEW s, IsArrangement(s), NEW l \in LeastPrice(product, s)
  PROVE  Holds(product, s, l) /\ l.amount \in Nat /\ l.amount <= product.list
<1>1. Denominator(product, s) > 0 /\ Stops(product, s) # {}
  BY SolvedNumbers DEF LeastPrice, Stuck
<1> DEFINE m == Min(Stops(product, s))
           price == Candidate(product, s, m)
<1>2. m \in Stops(product, s)
  <2>1. Stops(product, s) \in SUBSET Nat
    BY DEF Stops, Steps
  <2> QED
    BY <1>1, <2>1, MinIsLeast
<1>3. m \in 0..(Steps - 1)
  BY <1>2 DEF Stops
<1>4. price.amount > product.list \/ Holds(product, s, price)
  BY <1>2 DEF Stops
<1>5. price.amount \in Nat /\ product.list \in Nat
  BY <1>1, <1>3, CandidatesAreAmounts, ProductNumbers
<1>6. l \in IF price.amount <= product.list THEN {price}
           ELSE {o \in {ListPrice(product)} : Holds(product, s, o)}
  BY SolvedNumbers, <1>1 DEF LeastPrice, Stuck
<1> HIDE DEF price
<1>7. CASE price.amount <= product.list
  BY <1>4, <1>5, <1>6, <1>7
<1>8. CASE ~(price.amount <= product.list)
  <2>1. l = ListPrice(product) /\ Holds(product, s, l)
    BY <1>6, <1>8
  <2> QED
    BY <1>5, <2>1 DEF ListPrice
<1> QED
  BY <1>7, <1>8

\* Of the options there is a best, and it is the lowest.
LEMMA BestIsLowest ==
  ASSUME NEW options, options # {},
         \A o \in options : o.price.amount \in Nat /\ o.shape \in Nat
  PROVE  /\ Best(options) \in options
         /\ \A o \in options : Best(options).price.amount <= o.price.amount
<1> DEFINE Before(o, other) ==
             \/ o.price.amount < other.price.amount
             \/ o.price.amount = other.price.amount /\ o.shape <= other.shape
<1>1. PICK m \in {o.price.amount : o \in options} :
        \A n \in {o.price.amount : o \in options} : m <= n
  <2> DEFINE A == {o.price.amount : o \in options}
  <2>1. A \in SUBSET Nat /\ A # {}
    OBVIOUS
  <2> HIDE DEF A
  <2>2. \E m \in A : \A n \in A : m <= n
    BY <2>1, LeastNatural
  <2> QED
    BY <2>2 DEF A
<1> DEFINE lowest == {o \in options : o.price.amount = m}
<1>2. PICK k \in {o.shape : o \in lowest} : \A n \in {o.shape : o \in lowest} : k <= n
  <2> DEFINE A == {o.shape : o \in lowest}
  <2>1. A \in SUBSET Nat /\ A # {}
    BY <1>1
  <2> HIDE DEF A
  <2>2. \E n \in A : \A o \in A : n <= o
    BY <2>1, LeastNatural
  <2> QED
    BY <2>2 DEF A
<1>3. PICK b \in lowest : b.shape = k
  BY <1>2
<1>4. \A other \in options : Before(b, other)
  <2> SUFFICES ASSUME NEW other \in options PROVE Before(b, other)
    OBVIOUS
  <2>1. b.price.amount = m /\ m <= other.price.amount /\ m \in Nat /\ other.price.amount \in Nat
    BY <1>1, <1>3
  <2>2. other.price.amount = m => b.shape <= other.shape
    BY <1>2, <1>3
  <2> QED
    BY <2>1, <2>2
<1>5. /\ Best(options) \in options
      /\ \A other \in options : Before(Best(options), other)
  BY <1>3, <1>4 DEF Best
<1> QED
  BY <1>5

\* An option is an arrangement by number and a least price of it.
LEMMA OptionsAreLeast ==
  ASSUME NEW p, IsPosition(p), NEW o \in Options(p)
  PROVE  /\ o.shape \in DOMAIN Shapes(p) /\ o.shape \in Nat
         /\ o.price \in LeastPrice(p.product, Shapes(p)[o.shape])
         /\ Holds(p.product, Shapes(p)[o.shape], o.price)
         /\ o.price.amount \in Nat /\ o.price.amount <= p.product.list
<1>1. PICK i \in DOMAIN Shapes(p) :
        o \in {[shape |-> i, price |-> l] : l \in LeastPrice(p.product, Shapes(p)[i])}
  BY DEF Options
<1>2. PICK l \in LeastPrice(p.product, Shapes(p)[i]) : o = [shape |-> i, price |-> l]
  BY <1>1
<1>3. o.shape = i /\ o.price = l
  BY <1>2
<1>4. IsArrangement(Shapes(p)[i]) /\ i \in Nat
  BY ShapesByNumber
<1>5. p.product \in Product
  BY DEF IsPosition
<1> QED
  BY <1>3, <1>4, <1>5, LeastPriceHolds

\* Where there are options, the best is one.
LEMMA BestIsOption ==
  ASSUME NEW p, IsPosition(p), Options(p) # {}
  PROVE  /\ Best(Options(p)) \in Options(p)
         /\ \A o \in Options(p) : Best(Options(p)).price.amount <= o.price.amount
<1>1. \A o \in Options(p) : o.price.amount \in Nat /\ o.shape \in Nat
  BY OptionsAreLeast
<1> QED
  BY <1>1, BestIsLowest

\* What is proposed, but for a refusal, holds.
LEMMA ProposalHolds ==
  ASSUME NEW p, IsPosition(p), Propose(p).move # "walk_away"
  PROVE  Holds(Propose(p).product, Propose(p).shape, Propose(p).price)
<1>1. CASE ~Haggles(p)
  <2>1. Propose(p) = Quote(p)
    BY <1>1 DEF Propose
  <2> QED
    BY <2>1 DEF Quote, Proposal
<1>2. CASE Haggles(p) /\ Reaching(p) # {}
  <2>1. Propose(p) = Proposal(IF 1 \in Reaching(p) THEN "accept" ELSE "counter",
                              p, Shapes(p)[Min(Reaching(p))], p.ask.target)
    BY <1>2 DEF Propose
  <2>2. Reaching(p) \in SUBSET Nat
    BY ShapesByNumber DEF Reaching
  <2>3. Min(Reaching(p)) \in Reaching(p)
    BY <1>2, <2>2, MinIsLeast
  <2>4. Holds(p.product, Shapes(p)[Min(Reaching(p))], p.ask.target)
    BY <2>3 DEF Reaching
  <2> QED
    BY <2>1, <2>4 DEF Proposal
<1>3. CASE Haggles(p) /\ Reaching(p) = {}
  <2> DEFINE best == Best(Options(p))
  <2>1. Propose(p) = IF Options(p) = {} \/ OutOfReach(p.ask.target, best.price) THEN Refusal(p)
                     ELSE Proposal("counter", p, Shapes(p)[best.shape], best.price)
    BY <1>3 DEF Propose
  <2>2. /\ Options(p) # {}
        /\ Propose(p) = Proposal("counter", p, Shapes(p)[best.shape], best.price)
    BY <2>1 DEF Refusal, Proposal
  <2>3. Holds(p.product, Shapes(p)[best.shape], best.price)
    BY <2>2, BestIsOption, OptionsAreLeast
  <2> QED
    BY <2>2, <2>3 DEF Proposal
<1> QED
  BY <1>1, <1>2, <1>3

\* What stands holds as what was offered does, for a yes closes on it.
Sound(deal) == Holds(deal.proposal.product, deal.proposal.shape, deal.proposal.price)

DealsHold ==
  /\ \A deal \in standing : Sound(deal)
  /\ NothingBelowFloor

\* NothingBelowFloor: whatever is in the catalogue, however it is seeded while an ask is
\* answered, and whatever is asked, no offer and no close earns less than its lines ask for.
THEOREM NothingIsDealtBelowFloor == Spec => []NothingBelowFloor
<1>1. Init => DealsHold
  BY DEF Init, DealsHold, NothingBelowFloor, Written
<1>2. NegInv /\ Reads /\ DealsHold /\ [Next]_vars => DealsHold'
  <2> SUFFICES ASSUME NegInv, Reads, DealsHold, [Next]_vars PROVE DealsHold'
    OBVIOUS
  <2>0. \A i \in DOMAIN trail : trail[i].kind \in {"offered", "closed"} => Sound(trail[i].deal)
    BY DEF DealsHold, NothingBelowFloor, Written, Sound
  <2>1. ASSUME UNCHANGED <<standing, trail>> PROVE DealsHold'
    BY <2>1 DEF DealsHold, NothingBelowFloor, Written, Sound
  <2>2. CASE Answer
    <3>1. PICK deal \in {Deal(Position(read), Propose(Position(read))) : read \in reading} :
            /\ standing' = IF Kind(deal.proposal) = "offered" THEN {deal} ELSE standing
            /\ \A i \in DOMAIN trail' :
                 \/ i \in DOMAIN trail /\ trail'[i] = trail[i]
                 \/ trail'[i] = Entry(Kind(deal.proposal), deal)
                 \/ trail'[i] = Entry("lever", deal)
      BY <2>2, AnswerWrites
    <3>2. deal.proposal.move # "walk_away" => Sound(deal)
      <4>1. PICK read \in reading : deal = Deal(Position(read), Propose(Position(read)))
        OBVIOUS
      <4>2. IsPosition(Position(read))
        BY ReadsArePositions
      <4> QED
        BY <4>1, <4>2, ProposalHolds DEF Deal, Sound
    <3>3. Kind(deal.proposal) \in {"offered", "closed"} => deal.proposal.move # "walk_away"
      BY DEF Kind
    <3>4. \A d \in standing' : Sound(d)
      BY <3>1, <3>2, <3>3 DEF DealsHold
    <3>5. \A i \in DOMAIN trail' :
            trail'[i].kind \in {"offered", "closed"} => Sound(trail'[i].deal)
      BY <2>0, <3>1, <3>2, <3>3 DEF Entry
    <3> QED
      BY <3>4, <3>5 DEF DealsHold, NothingBelowFloor, Written, Sound
  <2>3. CASE Accept
    <3>1. PICK deal \in standing : \A i \in DOMAIN trail' :
            \/ i \in DOMAIN trail /\ trail'[i] = trail[i]
            \/ trail'[i] = Entry("closed", deal)
      BY <2>3, AcceptWrites
    <3>2. standing' = standing
      BY <2>3 DEF Accept
    <3>3. \A i \in DOMAIN trail' :
            trail'[i].kind \in {"offered", "closed"} => Sound(trail'[i].deal)
      BY <2>0, <3>1 DEF Entry, DealsHold
    <3> QED
      BY <3>2, <3>3 DEF DealsHold, NothingBelowFloor, Written, Sound
  <2>4. CASE \E ask \in Asks : Receive(ask)
    BY <2>1, <2>4 DEF Receive
  <2>5. CASE ReceiveUnread
    BY <2>1, <2>5 DEF ReceiveUnread
  <2>6. CASE Abandon
    BY <2>1, <2>6 DEF Abandon
  <2>7. CASE Seed
    BY <2>1, <2>7 DEF Seed
  <2>8. CASE UNCHANGED vars
    BY <2>1, <2>8 DEF vars
  <2> QED
    BY <2>2, <2>3, <2>4, <2>5, <2>6, <2>7, <2>8 DEF Next
<1>3. DealsHold => NothingBelowFloor
  BY DEF DealsHold
<1> QED
  BY <1>1, <1>2, <1>3, NegInductive, ReadsAreTyped, PTL DEF Spec
-----------------------------------------------------------------------------
(* What the Desk names is the least.                                       *)

\* What the item and what may be put beside it are, where the least can be named.
Ordinary(p) ==
  /\ \A t \in PaymentTerms : p.product.floor + Carry[t] < Den
  /\ \A c \in p.companions :
       c.grid <= p.product.grid \/ SurplusAtList(c) <= Den * Handling

\* The same of an arrangement of it.  A companion comes without express delivery.
OrdinaryShape(product, s) ==
  /\ product.floor + Carry[s.payment] < Den
  /\ \/ s.companion = Nothing
     \/ /\ s.companion \in Product
        /\ s.express = FALSE
        /\ \/ s.companion.grid <= product.grid
           \/ SurplusAtList(s.companion) <= Den * Handling

\* Every arrangement of an ordinary position is ordinary.
LEMMA ShapesAreOrdinary ==
  ASSUME NEW p, IsPosition(p), Ordinary(p), NEW i \in DOMAIN Shapes(p)
  PROVE  OrdinaryShape(p.product, Shapes(p)[i])
<1> DEFINE Good(s) == OrdinaryShape(p.product, s)
           plain == Plain(p.ask)
           b == Shape("bundle", p.ask.quantity, Companion(p), FALSE, "on_delivery")
           c == Shape("quantity_break", p.ask.most, Nothing, FALSE, "on_delivery")
           d == Shape("delivery_speed", p.ask.quantity, Nothing, TRUE, "on_delivery")
           e == Shape("payment_terms", p.ask.quantity, Nothing, FALSE, "prepaid")
           S == {s \in {plain, b, c, d, e} : Good(s)}
           wb == WithLever(Candidates(p) # {}, b)
           wc == WithLever(p.ask.most > p.ask.quantity, c)
           wd == WithLever(p.ask.faster, d)
           we == WithLever(p.ask.prepay, e)
<1>1. Shapes(p) = <<plain>> \o wb \o wc \o wd \o we
  BY DEF Shapes
<1>2. Good(plain) /\ Good(c) /\ Good(d) /\ Good(e)
  BY DEF Plain, Shape, OrdinaryShape, Ordinary, PaymentTerms
<1>3. Candidates(p) # {} => Good(b)
  <2>1. Candidates(p) # {} => Companion(p) \in p.companions /\ Companion(p) \in Product
    BY CompanionIsCandidate DEF Candidates, IsPosition
  <2> QED
    BY <2>1 DEF Shape, OrdinaryShape, Ordinary, PaymentTerms
<1> HIDE DEF plain, b, c, d, e, Good
<1>4. /\ <<plain>> \in Seq(S) /\ wb \in Seq(S) /\ wc \in Seq(S)
      /\ wd \in Seq(S) /\ we \in Seq(S)
  <2>1. plain \in S /\ c \in S /\ d \in S /\ e \in S
    BY <1>2
  <2>2. Candidates(p) # {} => b \in S
    BY <1>3
  <2> HIDE DEF S
  <2>3. <<plain>> \in Seq(S)
    BY <2>1
  <2> QED
    BY <2>1, <2>2, <2>3, WithLeverSeq
<1>5. \A s \in S : Good(s)
  OBVIOUS
<1> HIDE DEF wb, wc, wd, we, S
<1>6. <<plain>> \o wb \in Seq(S)
  BY <1>4, ConcatProperties
<1>7. <<plain>> \o wb \o wc \in Seq(S)
  BY <1>4, <1>6, ConcatProperties
<1>8. <<plain>> \o wb \o wc \o wd \in Seq(S)
  BY <1>4, <1>7, ConcatProperties
<1>9. Shapes(p) \in Seq(S)
  BY <1>1, <1>4, <1>8, ConcatProperties
<1>10. Good(Shapes(p)[i])
  BY <1>5, <1>9
<1> QED
  BY <1>10 DEF Good

\* The condition on a price and its solution are the same.
LEMMA Algebra ==
  ASSUME NEW D \in Int, NEW x \in Int, NEW q \in Int, NEW cl \in Int, NEW E \in Int,
         NEW cost \in Int, NEW cc \in Int, NEW H \in Int,
         NEW k \in Int, NEW f \in Int, NEW cf \in Int
  PROVE  (D * (x * q + cl + E - cost * q - cc - H) >= k * (x * q + cl) + (f * x * q + cf * cl))
         <=> (x * (q * (D - k - f)) >= cf * cl - cl * (D - k) + D * (cost * q + cc + H - E))
OBVIOUS

LEMMA ExactlyIsSolved ==
  ASSUME NEW product \in Product, NEW s, IsArrangement(s), NEW price, price.amount \in Nat
  PROVE  HoldsExactly(product, s, price)
           <=> price.amount * Denominator(product, s) >= Numerator(product, s)
<1>1. /\ product.cost \in Int /\ product.floor \in Int /\ Den \in Int /\ Handling \in Int
      /\ s.quantity \in Int /\ Carry[s.payment] \in Int /\ Express(s) \in Int
      /\ s.companion.list \in Int /\ s.companion.cost \in Int /\ s.companion.floor \in Int
      /\ price.amount \in Int
  BY ProductNumbers, ArrangementNumbers, MarginAssumption
<1> DEFINE D == Den  x == price.amount  q == s.quantity  cl == s.companion.list
           E == Express(s)  cost == product.cost  cc == s.companion.cost  H == Handling
           k == Carry[s.payment]  f == product.floor  cf == s.companion.floor
<1>2. HoldsExactly(product, s, price) <=>
        D * (x * q + cl + E - cost * q - cc - H) >= k * (x * q + cl) + (f * x * q + cf * cl)
  BY DEF HoldsExactly, Goods, Required
<1>3. /\ Denominator(product, s) = q * (D - k - f)
      /\ Numerator(product, s) = cf * cl - cl * (D - k) + D * (cost * q + cc + H - E)
  BY DEF Denominator, Numerator
<1>4. /\ D \in Int /\ x \in Int /\ q \in Int /\ cl \in Int /\ E \in Int /\ cost \in Int
      /\ cc \in Int /\ H \in Int /\ k \in Int /\ f \in Int /\ cf \in Int
  BY <1>1
<1> HIDE DEF D, x, q, cl, E, cost, cc, H, k, f, cf
<1>5. (D * (x * q + cl + E - cost * q - cc - H) >= k * (x * q + cl) + (f * x * q + cf * cl))
      <=> (x * (q * (D - k - f)) >= cf * cl - cl * (D - k) + D * (cost * q + cc + H - E))
  BY <1>4, Algebra
<1>6. price.amount = x
  BY DEF x
<1> QED
  BY <1>2, <1>3, <1>5, <1>6

\* What division leaves out.
LEMMA DivBounds ==
  ASSUME NEW a \in Int, NEW b \in Nat \ {0}
  PROVE  /\ a \div b \in Int
         /\ (a \div b) * b <= a
         /\ a < ((a \div b) + 1) * b
OBVIOUS

LEMMA IsMultiple ==
  ASSUME NEW x \in Int, NEW g \in Nat \ {0}, x % g = 0
  PROVE  \E y \in Int : x = g * y
<1>1. x = g * (x \div g) + (x % g)
  OBVIOUS
<1>2. x \div g \in Int
  OBVIOUS
<1>3. x = g * (x \div g)
  BY <1>1, <1>2
<1> QED
  BY <1>2, <1>3

\* CeilingTo is the least multiple of the grid that is n / d or more.
LEMMA CeilingIsLeast ==
  ASSUME NEW g \in Nat \ {0}, NEW n \in Int, NEW d \in Nat \ {0}
  PROVE  /\ CeilingTo(g, n, d) * d >= n
         /\ \E k \in Int : CeilingTo(g, n, d) = g * k
         /\ \A y \in Int : (g * y) * d >= n => g * y >= CeilingTo(g, n, d)
<1> DEFINE b == d * g
           m == (-n) \div b
<1>1. b \in Nat \ {0}
  OBVIOUS
<1> HIDE DEF b
<1>2. m \in Int /\ m * b <= -n /\ -n < (m + 1) * b
  BY <1>1, DivBounds
<1>3. CeilingTo(g, n, d) = g * (-m)
  BY DEF CeilingTo, b
<1> HIDE DEF m
<1>4. (g * (-m)) * d = -(m * b)
  BY <1>2 DEF b
<1>5. CeilingTo(g, n, d) * d >= n
  <2> DEFINE mb == m * b
             c == CeilingTo(g, n, d) * d
  <2>1. c = -mb /\ mb <= -n
    BY <1>2, <1>3, <1>4
  <2>2. mb \in Int
    BY <1>1, <1>2
  <2> HIDE DEF mb, c
  <2>3. c >= n
    BY <2>1, <2>2
  <2> QED
    BY <2>3 DEF c
<1>6. ASSUME NEW y \in Int, (g * y) * d >= n PROVE g * y >= CeilingTo(g, n, d)
  <2>1. y * b >= n
    BY <1>6 DEF b
  <2>2. (y + m + 1) * b > 0
    <3> DEFINE yb == y * b
               mb == (m + 1) * b
    <3>1. (y + m + 1) * b = yb + mb
      BY <1>1, <1>2
    <3>2. yb \in Int /\ mb \in Int /\ yb >= n /\ -n < mb
      BY <1>1, <1>2, <2>1
    <3> HIDE DEF yb, mb
    <3> QED
      BY <3>1, <3>2
  <2>3. y + m + 1 > 0
    <3> DEFINE z == y + m + 1
    <3>1. z \in Int
      BY <1>2
    <3> HIDE DEF z
    <3>2. z * b > 0 => z > 0
      BY <1>1, <3>1
    <3> QED
      BY <2>2, <3>2 DEF z
  <2>4. y >= -m
    BY <1>2, <2>3
  <2>5. g * y >= g * (-m)
    BY <1>2, <2>4
  <2> QED
    BY <1>3, <2>5
<1> QED
  BY <1>2, <1>3, <1>5, <1>6

\* Where the verification starts: on the grid, at a price that would hold exactly, and at
\* no more than any other.
LEMMA StartIsLeast ==
  ASSUME NEW product \in Product, NEW s, IsArrangement(s), Denominator(product, s) > 0
  PROVE  LET start == Start(product, s).amount
             g == product.grid
             d == Denominator(product, s)
         IN  /\ start \in Nat
             /\ start * d >= Numerator(product, s)
             /\ \E k \in Int : start = g * k
             /\ \A y \in Nat : (g * y) * d >= Numerator(product, s) => g * y >= start
<1> DEFINE start == Start(product, s).amount
           g == product.grid
           d == Denominator(product, s)
           n == Numerator(product, s)
           c == CeilingTo(g, n, d)
<1>1. g \in Nat \ {0} /\ n \in Int /\ d \in Nat \ {0} /\ Solved(product, s) \in Int
  BY ProductNumbers, SolvedNumbers
<1>2. c = Solved(product, s) /\ start = IF c < 0 THEN 0 ELSE c
  BY DEF Solved, Start
<1> HIDE DEF start, g, d, n
<1>3. /\ c * d >= n
      /\ \E k \in Int : c = g * k
      /\ \A y \in Int : (g * y) * d >= n => g * y >= c
  BY <1>1, CeilingIsLeast
<1>4. c \in Int
  BY <1>1, <1>2
<1> HIDE DEF c
<1>5. start \in Nat
  BY <1>2, <1>4
<1>6. start * d >= n
  <2>1. CASE c < 0
    <3>1. c * d < 0
      BY <1>1, <1>4, <2>1
    <3>2. n <= 0
      <4> DEFINE cd == c * d
      <4>1. cd \in Int /\ cd >= n /\ cd < 0
        BY <1>1, <1>3, <1>4, <3>1
      <4> HIDE DEF cd
      <4> QED
        BY <1>1, <4>1
    <3>3. start = 0
      BY <1>2, <2>1
    <3> QED
      BY <1>1, <3>2, <3>3
  <2>2. CASE ~(c < 0)
    BY <1>2, <1>3, <2>2
  <2> QED
    BY <2>1, <2>2
<1>7. \E k \in Int : start = g * k
  <2>1. CASE c < 0
    <3>1. start = g * 0
      BY <1>1, <1>2, <2>1
    <3> QED
      BY <3>1
  <2>2. CASE ~(c < 0)
    BY <1>2, <1>3, <2>2
  <2> QED
    BY <2>1, <2>2
<1>8. ASSUME NEW y \in Nat, (g * y) * d >= n PROVE g * y >= start
  <2>1. g * y \in Nat /\ g * y >= c
    BY <1>1, <1>3, <1>8
  <2> QED
    BY <1>2, <1>4, <2>1
<1> QED
  BY <1>5, <1>6, <1>7, <1>8 DEF start, g, d, n

\* A least price would hold exactly too, but for the list price.
LEMMA LeastPriceHoldsExactly ==
  ASSUME NEW product \in Product, NEW s, IsArrangement(s), NEW l \in LeastPrice(product, s),
         NEW x \in Nat, l.amount < x, x <= product.list
  PROVE  x * Denominator(product, s) >= Numerator(product, s)
<1>1. Denominator(product, s) > 0 /\ Stops(product, s) # {}
  BY SolvedNumbers DEF LeastPrice, Stuck
<1> DEFINE m == Min(Stops(product, s))
           price == Candidate(product, s, m)
           start == Start(product, s).amount
           d == Denominator(product, s)
           n == Numerator(product, s)
<1>2. m \in 0..(Steps - 1)
  <2>1. Stops(product, s) \in SUBSET Nat
    BY DEF Stops, Steps
  <2>2. m \in Stops(product, s)
    BY <1>1, <2>1, MinIsLeast
  <2> QED
    BY <2>2 DEF Stops
<1>3. l \in IF price.amount <= product.list THEN {price}
           ELSE {o \in {ListPrice(product)} : Holds(product, s, o)}
  BY SolvedNumbers, <1>1 DEF LeastPrice, Stuck
<1>4. l.amount \in Nat /\ l.amount = price.amount
  <2>1. l.amount \in Nat /\ product.list \in Nat
    BY LeastPriceHolds, ProductNumbers
  <2>2. l # ListPrice(product)
    BY <2>1 DEF ListPrice
  <2> HIDE DEF price
  <2> QED
    BY <1>3, <2>1, <2>2
<1>5. start \in Nat /\ start * d >= n /\ d \in Nat /\ n \in Int
  BY <1>1, StartIsLeast, SolvedNumbers
<1>6. price.amount >= start
  <2>1. m \in Nat /\ product.grid \in Nat
    BY <1>2, ProductNumbers DEF Steps
  <2>2. m * product.grid \in Nat
    <3> HIDE DEF m
    <3> QED
      BY <2>1
  <2>3. price.amount = start \/ price.amount = start + m * product.grid
    BY DEF Candidate
  <2> DEFINE more == m * product.grid
  <2> HIDE DEF more, start, price
  <2> QED
    BY <1>5, <2>2, <2>3 DEF more
<1> HIDE DEF start, price, d, n
<1>7. x >= start
  BY <1>4, <1>5, <1>6
<1>8. x * d >= start * d
  BY <1>5, <1>7
<1>9. x * d >= n
  <2> DEFINE a == x * d
             b == start * d
  <2>1. a \in Int /\ b \in Int /\ a >= b /\ b >= n
    BY <1>5, <1>8
  <2> HIDE DEF a, b
  <2>2. a >= n
    BY <1>5, <2>1
  <2> QED
    BY <2>2 DEF a
<1> QED
  BY <1>9 DEF d, n

\* An item that is free is no dearer written in whole units, in an ordinary arrangement.
LEMMA FreeHolds ==
  ASSUME NEW product \in Product, NEW s, IsArrangement(s), OrdinaryShape(product, s),
         Solved(product, s) < 0, Denominator(product, s) > 0,
         Holds(product, s, [amount |-> 0, grid |-> product.grid])
  PROVE  Holds(product, s, [amount |-> 0, grid |-> Unit])
<1> DEFINE fine == [amount |-> 0, grid |-> product.grid]
           whole == [amount |-> 0, grid |-> Unit]
<1>1. SUFFICES Carried(s, fine) = Carried(s, whole)
  <2>1. Goods(s, fine) = Goods(s, whole) /\ Required(product, s, fine) = Required(product, s, whole)
    BY DEF Goods, Required
  <2> QED
    BY <2>1 DEF Holds, Surplus, Profit
<1>2. product.grid \in {1, Unit} /\ Unit \in Nat \ {0} /\ Den \in Nat \ {0}
  BY MarginAssumption DEF Product, Grids
<1>3. CASE s.companion = Nothing
  <2>1. Goods(s, fine) = 0 /\ Goods(s, whole) = 0
    BY <1>3, ArrangementNumbers DEF Goods, Nothing
  <2>2. GoodsGrid(s, fine) \in Nat \ {0} /\ GoodsGrid(s, whole) \in Nat \ {0}
    <3>1. s.companion.grid = Unit
      BY <1>3 DEF Nothing
    <3>2. /\ {product.grid, Unit} \in SUBSET Nat /\ {product.grid, Unit} # {}
          /\ {Unit, Unit} \in SUBSET Nat /\ {Unit, Unit} # {}
      BY <1>2
    <3>3. Min({product.grid, Unit}) \in {product.grid, Unit} /\ Min({Unit, Unit}) \in {Unit, Unit}
      BY <3>2, MinIsLeast
    <3> QED
      BY <1>2, <3>1, <3>3 DEF GoodsGrid
  <2>3. \A g \in Nat \ {0} : HalfUp(g, Carry[s.payment] * 0, Den) = 0
    <3> SUFFICES ASSUME NEW g \in Nat \ {0} PROVE HalfUp(g, Carry[s.payment] * 0, Den) = 0
      OBVIOUS
    <3>1. Carry[s.payment] * 0 = 0
      BY <1>2, ArrangementNumbers
    <3> DEFINE a == Den * g
    <3>2. a \in Nat \ {0}
      BY <1>2
    <3>3. 2 * 0 + Den * g = a /\ 2 * Den * g = 2 * a
      BY <1>2
    <3>4. HalfUp(g, 0, Den) = g * (a \div (2 * a))
      BY <3>3 DEF HalfUp
    <3>5. a \div (2 * a) = 0
      <4> HIDE DEF a
      <4> DEFINE q == a \div (2 * a)
      <4>1. 2 * a \in Nat \ {0}
        BY <3>2
      <4>2. q \in Int /\ q * (2 * a) <= a /\ a < (q + 1) * (2 * a)
        BY <3>2, <4>1, DivBounds
      <4> HIDE DEF q
      <4>3. q <= 0
        <5>1. q >= 1 => q * (2 * a) >= 2 * a
          BY <3>2, <4>2
        <5> QED
          BY <3>2, <4>2, <5>1
      <4>4. q >= 0
        <5>1. q <= -1 => (q + 1) * (2 * a) <= 0
          BY <3>2, <4>2
        <5> QED
          BY <3>2, <4>2, <5>1
      <4>5. q = 0
        BY <4>2, <4>3, <4>4
      <4> QED
        BY <4>5 DEF q
    <3> QED
      BY <3>1, <3>4, <3>5
  <2> QED
    BY <2>1, <2>2, <2>3 DEF Carried
<1>4. CASE s.companion \in Product /\ s.companion.grid <= product.grid
  <2>1. s.companion.grid \in {1, Unit}
    BY <1>4 DEF Product, Grids
  <2>2. CASE product.grid = Unit
    BY <2>2
  <2>3. CASE product.grid = 1
    <3>1. s.companion.grid = 1
      BY <1>2, <1>4, <2>1, <2>3
    <3>2. /\ {1, 1} \in SUBSET Nat /\ {1, 1} # {}
          /\ {Unit, 1} \in SUBSET Nat /\ {Unit, 1} # {}
      BY <1>2
    <3>3. /\ Min({1, 1}) \in {1, 1}
          /\ Min({Unit, 1}) \in {Unit, 1} /\ Min({Unit, 1}) <= 1
      BY <3>2, MinIsLeast
    <3>4. GoodsGrid(s, fine) = GoodsGrid(s, whole)
      BY <1>2, <2>3, <3>1, <3>3 DEF GoodsGrid
    <3>5. Goods(s, fine) = Goods(s, whole)
      BY DEF Goods
    <3> QED
      BY <3>4, <3>5 DEF Carried
  <2> QED
    BY <1>2, <2>2, <2>3
\* A companion that does not pay for the packing does not make an item free.
<1>5. CASE /\ s.companion \in Product /\ s.express = FALSE
           /\ SurplusAtList(s.companion) <= Den * Handling
  <2> DEFINE cl == s.companion.list  cc == s.companion.cost  cf == s.companion.floor
             k == Carry[s.payment]  q == s.quantity  cost == product.cost
             n == Numerator(product, s)
             d == Denominator(product, s)
             c == Solved(product, s)
  <2>1. /\ cl \in Nat /\ cc \in Nat /\ cf \in Nat /\ k \in Nat /\ q \in Nat /\ cost \in Nat
        /\ Den \in Nat /\ Handling \in Nat /\ c \in Int /\ n \in Int /\ d \in Int
    BY ProductNumbers, ArrangementNumbers, MarginAssumption, SolvedNumbers
  <2>2. n = cf * cl - cl * (Den - k) + Den * (cost * q + cc + Handling - 0)
    BY <1>5 DEF Numerator, Express
  <2>3. Den * (cl - cc) - cf * cl <= Den * Handling
    BY <1>5 DEF SurplusAtList
  <2>4. c * d >= n
    <3>1. product.grid \in Nat \ {0} /\ d \in Nat \ {0}
      BY <2>1, ProductNumbers
    <3> HIDE DEF n, d
    <3>2. CeilingTo(product.grid, n, d) * d >= n
      BY <2>1, <3>1, CeilingIsLeast
    <3> QED
      BY <3>2 DEF Solved, n, d
  <2>5. d > 0 /\ c < 0
    OBVIOUS
  <2> HIDE DEF cl, cc, cf, k, q, cost, n, d, c
  <2>6. n = (Den * Handling - (Den * (cl - cc) - cf * cl)) + (cl * k + Den * (cost * q))
    BY <2>1, <2>2
  <2>7. cl * k + Den * (cost * q) >= 0
    <3>1. cl * k >= 0 /\ cost * q \in Nat
      BY <2>1
    <3>2. Den * (cost * q) >= 0
      BY <2>1, <3>1
    <3>3. cl * k \in Int /\ Den * (cost * q) \in Int
      BY <2>1
    <3> QED
      BY <3>1, <3>2, <3>3
  <2>8. n >= 0
    <3> DEFINE a == Den * Handling
               b == Den * (cl - cc) - cf * cl
               o == cl * k + Den * (cost * q)
    <3>1. a \in Int /\ b \in Int /\ o \in Int
      BY <2>1
    <3>2. n = (a - b) + o /\ b <= a /\ o >= 0
      BY <2>3, <2>6, <2>7
    <3> HIDE DEF a, b, o
    <3> QED
      BY <3>1, <3>2
  <2>9. c * d < 0
    BY <2>1, <2>5
  <2>10. FALSE
    <3> DEFINE cd == c * d
    <3>1. cd \in Int /\ cd >= n /\ cd < 0
      BY <2>1, <2>4, <2>9
    <3> HIDE DEF cd
    <3> QED
      BY <2>1, <2>8, <3>1
  <2> QED
    BY <2>10
<1> QED
  BY <1>3, <1>4, <1>5 DEF OrdinaryShape

\* Nothing that holds, as charged and exactly, is lower than the least price.
LEMMA NothingHoldsBelow ==
  ASSUME NEW product \in Product, NEW s, IsArrangement(s), OrdinaryShape(product, s),
         ~Stuck(product, s), NEW x \in Nat, x % product.grid = 0, x <= product.list,
         Holds(product, s, [amount |-> x, grid |-> product.grid]),
         HoldsExactly(product, s, [amount |-> x, grid |-> product.grid])
  PROVE  \E l \in LeastPrice(product, s) : l.amount <= x
<1> DEFINE g == product.grid
           d == Denominator(product, s)
           n == Numerator(product, s)
           start == Start(product, s).amount
           m == Min(Stops(product, s))
<1>1. g \in Nat \ {0} /\ product.list \in Nat
  BY ProductNumbers
<1>2. d > 0 /\ d \in Nat /\ n \in Int
  <2>1. /\ Den - Carry[s.payment] - product.floor \in Nat \ {0}
        /\ s.quantity \in Nat \ {0}
    <3>1. /\ product.floor \in Nat /\ Carry[s.payment] \in Nat /\ Den \in Nat
          /\ product.floor + Carry[s.payment] < Den
      BY ProductNumbers, ArrangementNumbers, MarginAssumption DEF OrdinaryShape
    <3> QED
      BY <3>1, ArrangementNumbers
  <2> DEFINE left == Den - Carry[s.payment] - product.floor
  <2>2. d = s.quantity * left
    BY DEF Denominator
  <2> HIDE DEF left
  <2>3. s.quantity * left \in Nat \ {0}
    BY <2>1 DEF left
  <2> QED
    BY <2>2, <2>3, SolvedNumbers
<1>3. Stops(product, s) # {}
  BY <1>2 DEF Stuck
<1>4. m \in Stops(product, s) /\ \A i \in Stops(product, s) : m <= i
  <2>1. Stops(product, s) \in SUBSET Nat
    BY DEF Stops, Steps
  <2> QED
    BY <1>3, <2>1, MinIsLeast
<1>5. m \in 0..(Steps - 1)
  BY <1>4 DEF Stops
<1>6. /\ start \in Nat
      /\ start * d >= n
      /\ \E k \in Int : start = g * k
      /\ \A y \in Nat : (g * y) * d >= n => g * y >= start
  BY <1>2, StartIsLeast
<1>7. x * d >= n
  BY ExactlyIsSolved
<1> HIDE DEF g, d, n, start, m
<1>8. PICK y \in Int : x = g * y
  <2>1. x \in Int /\ x % g = 0
    BY DEF g
  <2> QED
    BY <1>1, <2>1, IsMultiple
<1>9. PICK k \in Int : start = g * k
  BY <1>6
<1>10. y \in Nat
  <2>1. y < 0 => g * y < 0
    BY <1>1, <1>8
  <2> QED
    BY <1>8, <2>1
<1>11. x >= start
  BY <1>6, <1>7, <1>8, <1>10
<1> DEFINE j == y - k
<1>12. j \in Nat /\ x = start + j * g
  <2>1. x = start + j * g
    BY <1>1, <1>8, <1>9
  <2>2. j < 0 => j * g < 0
    BY <1>1, <1>8, <1>9
  <2> DEFINE jg == j * g
  <2>3. jg \in Int /\ x = start + jg
    BY <1>1, <1>8, <1>9, <2>1
  <2>4. ~(jg < 0)
    <3> HIDE DEF jg
    <3> QED
      BY <1>6, <1>11, <2>3
  <2> QED
    BY <2>1, <2>2, <2>4
<1> HIDE DEF j
\* The verification stops no later than where x is.
<1>13. m <= j
  <2>1. CASE j \notin 0..(Steps - 1)
    BY <1>5, <1>12, <2>1 DEF Steps
  <2>2. CASE j \in 0..(Steps - 1) /\ j # 0
    <3>1. Candidate(product, s, j) = [amount |-> start + j * g, grid |-> g]
      BY <2>2 DEF Candidate, start, g
    <3>2. Holds(product, s, Candidate(product, s, j))
      BY <1>12, <3>1 DEF g
    <3> QED
      BY <1>4, <2>2, <3>2 DEF Stops
  <2>3. CASE j = 0
    <3>1. x = start
      BY <1>1, <1>6, <1>12, <2>3
    <3>2. Candidate(product, s, 0) = Start(product, s)
      BY DEF Candidate
    <3>3. Holds(product, s, Start(product, s))
      <4>1. CASE Solved(product, s) < 0
        <5>1. Start(product, s) = [amount |-> 0, grid |-> Unit] /\ x = 0
          BY <3>1, <4>1 DEF Start, start
        <5> QED
          BY <1>2, <4>1, <5>1, FreeHolds DEF d
      <4>2. CASE ~(Solved(product, s) < 0)
        <5>1. Start(product, s) = [amount |-> x, grid |-> product.grid]
          BY <3>1, <4>2 DEF Start, start
        <5> QED
          BY <5>1
      <4> QED
        BY <4>1, <4>2
    <3>4. 0 \in Stops(product, s)
      BY <3>2, <3>3 DEF Stops, Steps
    <3> QED
      BY <1>4, <2>3, <3>4
  <2> QED
    BY <2>1, <2>2, <2>3
<1> DEFINE price == Candidate(product, s, m)
<1>14. price.amount \in Nat /\ price.amount <= x
  <2>1. price.amount = start \/ price.amount = start + m * g
    BY DEF Candidate, start, g
  <2>2. m \in Nat /\ m * g <= j * g
    BY <1>1, <1>5, <1>12, <1>13 DEF Steps, g
  <2> DEFINE mg == m * g
             jg == j * g
  <2>3. mg \in Nat /\ jg \in Nat
    BY <1>1, <1>12, <2>2 DEF g
  <2>4. price.amount = start \/ price.amount = start + mg
    BY <2>1
  <2>5. mg <= jg /\ x = start + jg
    BY <1>12, <2>2
  <2> HIDE DEF price, mg, jg
  <2> QED
    BY <1>6, <2>3, <2>4, <2>5
<1>15. price \in LeastPrice(product, s)
  <2>1. price.amount <= product.list
    BY <1>1, <1>14
  <2> HIDE DEF price
  <2>2. ~(Denominator(product, s) <= 0 \/ Stuck(product, s))
    BY <1>2 DEF d
  <2>3. LeastPrice(product, s) =
          IF price.amount <= product.list THEN {price}
          ELSE {l \in {ListPrice(product)} : Holds(product, s, l)}
    BY <2>2 DEF LeastPrice, price, m
  <2> QED
    BY <2>1, <2>3
<1> QED
  BY <1>14, <1>15

\* What is proposed instead of the buyer's number is the best of the options, and none of
\* the arrangements reaches the number.
LEMMA CountersAreBest ==
  ASSUME NEW p, Haggles(p), Propose(p).move # "walk_away", Propose(p).price # p.ask.target
  PROVE  /\ Reaching(p) = {} /\ Options(p) # {}
         /\ Propose(p).shape = Shapes(p)[Best(Options(p)).shape]
         /\ Propose(p).price = Best(Options(p)).price
<1> DEFINE best == Best(Options(p))
<1>1. Reaching(p) = {}
  <2> SUFFICES ASSUME Reaching(p) # {} PROVE FALSE
    OBVIOUS
  <2>1. Propose(p) = Proposal(IF 1 \in Reaching(p) THEN "accept" ELSE "counter",
                              p, Shapes(p)[Min(Reaching(p))], p.ask.target)
    BY DEF Propose
  <2> QED
    BY <2>1 DEF Proposal
<1>2. Propose(p) = IF Options(p) = {} \/ OutOfReach(p.ask.target, best.price) THEN Refusal(p)
                   ELSE Proposal("counter", p, Shapes(p)[best.shape], best.price)
  BY <1>1 DEF Propose
<1>3. /\ Options(p) # {}
      /\ Propose(p) = Proposal("counter", p, Shapes(p)[best.shape], best.price)
  BY <1>2 DEF Refusal, Proposal
<1> QED
  BY <1>1, <1>3 DEF Proposal

\* Of an ordinary position no arrangement holds for less than what is named.
LEMMA NamedIsLeast ==
  ASSUME NEW p, IsPosition(p), Ordinary(p), ~Raises(p),
         Haggles(p), Propose(p).move # "walk_away", Propose(p).price # p.ask.target,
         NEW i \in DOMAIN Shapes(p),
         NEW x \in 0..(Propose(p).price.amount - 1), x % p.product.grid = 0,
         Holds(p.product, Shapes(p)[i], [amount |-> x, grid |-> p.product.grid]),
         HoldsExactly(p.product, Shapes(p)[i], [amount |-> x, grid |-> p.product.grid])
  PROVE  FALSE
<1> DEFINE best == Best(Options(p))
           s == Shapes(p)[i]
<1>1. Reaching(p) = {} /\ Options(p) # {} /\ Propose(p).price = best.price
  BY CountersAreBest
<1>2. best \in Options(p) /\ \A o \in Options(p) : best.price.amount <= o.price.amount
  BY <1>1, BestIsOption
<1>3. best.price.amount \in Nat /\ best.price.amount <= p.product.list /\ p.product \in Product
  BY <1>2, OptionsAreLeast DEF IsPosition
<1>4. x \in Nat /\ x < best.price.amount /\ x <= p.product.list
  BY <1>1, <1>3, ProductNumbers
<1>5. ~Stuck(p.product, s)
  BY <1>1 DEF Raises
<1>6. IsArrangement(s) /\ OrdinaryShape(p.product, s) /\ i \in Nat
  BY ShapesByNumber, ShapesAreOrdinary
<1>7. PICK l \in LeastPrice(p.product, s) : l.amount <= x
  BY <1>3, <1>4, <1>5, <1>6, NothingHoldsBelow
<1> DEFINE o == [shape |-> i, price |-> l]
<1>8. o \in Options(p)
  BY DEF Options
<1>9. best.price.amount <= l.amount /\ l.amount \in Nat
  <2>1. best.price.amount <= o.price.amount /\ o.price.amount \in Nat
    BY <1>2, <1>8, OptionsAreLeast
  <2> QED
    BY <2>1
<1> QED
  BY <1>3, <1>4, <1>7, <1>9

\* Where less than the buyer's number is named, no arrangement holds at the number, and
\* the one that is named would hold at it exactly.
LEMMA UndercutIsRounding ==
  ASSUME NEW p, IsPosition(p), Haggles(p), Propose(p).move # "walk_away",
         Propose(p).price.amount < p.ask.target.amount
  PROVE  /\ \A i \in DOMAIN Shapes(p) : ~Holds(p.product, Shapes(p)[i], p.ask.target)
         /\ HoldsExactly(p.product, Propose(p).shape, p.ask.target)
<1> DEFINE best == Best(Options(p))
           s == Shapes(p)[best.shape]
           target == p.ask.target
<1>1. target.amount \in Nat /\ target.amount <= p.product.list
  BY DEF Haggles, NamesAPrice, IsPosition, Price
<1>2. Propose(p).price # target
  BY <1>1
<1>3. /\ Reaching(p) = {} /\ Options(p) # {}
      /\ Propose(p).shape = s /\ Propose(p).price = best.price
  BY <1>2, CountersAreBest
<1>4. \A i \in DOMAIN Shapes(p) : ~Holds(p.product, Shapes(p)[i], target)
  BY <1>3 DEF Reaching
<1>5. best \in Options(p)
  BY <1>3, BestIsOption
<1>6. IsArrangement(s) /\ best.price \in LeastPrice(p.product, s) /\ p.product \in Product
  BY <1>5, OptionsAreLeast, ShapesByNumber DEF IsPosition
<1>7. target.amount * Denominator(p.product, s) >= Numerator(p.product, s)
  <2>1. best.price.amount < target.amount
    BY <1>3
  <2> QED
    BY <1>1, <1>6, <2>1, LeastPriceHoldsExactly
<1>8. HoldsExactly(p.product, s, target)
  BY <1>1, <1>6, <1>7, ExactlyIsSolved
<1> QED
  BY <1>3, <1>4, <1>8

\* An offer is the policy's answer, which did not raise, to a position there was.
OffersAreDecided ==
  \A i \in Written({"offered"}) :
    LET deal == trail[i].deal
    IN  /\ deal.proposal = Propose(deal.position) /\ ~Raises(deal.position)
        /\ deal.proposal.move # "walk_away"
        /\ IsPosition(deal.position)
        /\ OrdinaryCatalogues => Ordinary(deal.position)

\* Whatever is read in ordinary catalogues makes an ordinary position.
LEMMA ReadsAreOrdinary ==
  ASSUME Reads, NEW read \in reading, OrdinaryCatalogues
  PROVE  Ordinary(Position(read))
<1>1. PICK c \in Catalogues : Item \in DOMAIN c /\ read.product = c[Item]
  BY DEF Reads
<1>2. catalogue \in Catalogues
  BY DEF Reads
<1>3. \A t \in PaymentTerms : read.product.floor + Carry[t] < Den
  BY <1>1 DEF OrdinaryCatalogues
<1>4. \A k \in DOMAIN catalogue \ {Item} :
                                  \/ catalogue[k].grid <= read.product.grid
                                  \/ SurplusAtList(catalogue[k]) <= Den * Handling
  BY <1>1, <1>2 DEF OrdinaryCatalogues
<1> QED
  BY <1>3, <1>4 DEF Ordinary, Position, Companions

\* Every offer there is was decided so.
THEOREM OffersAreThePolicys == Spec => []OffersAreDecided
<1>1. Init => OffersAreDecided
  BY DEF Init, OffersAreDecided, Written
<1>2. NegInv /\ Reads /\ OffersAreDecided /\ [Next]_vars => OffersAreDecided'
  <2> SUFFICES ASSUME NegInv, Reads, OffersAreDecided, [Next]_vars PROVE OffersAreDecided'
    OBVIOUS
  <2> DEFINE Decided(deal) ==
               /\ deal.proposal = Propose(deal.position) /\ ~Raises(deal.position)
               /\ deal.proposal.move # "walk_away"
               /\ IsPosition(deal.position)
               /\ OrdinaryCatalogues => Ordinary(deal.position)
  <2>0. \A i \in DOMAIN trail : trail[i].kind = "offered" => Decided(trail[i].deal)
    BY DEF OffersAreDecided, Written
  <2>1. ASSUME trail' = trail PROVE OffersAreDecided'
    BY <2>1 DEF OffersAreDecided, Written
  <2>2. CASE Answer
    <3>1. PICK deal \in {Deal(Position(read), Propose(Position(read))) : read \in reading} :
            \A i \in DOMAIN trail' :
              \/ i \in DOMAIN trail /\ trail'[i] = trail[i]
              \/ trail'[i] = Entry(Kind(deal.proposal), deal)
              \/ trail'[i] = Entry("lever", deal)
      BY <2>2, AnswerWrites
    <3>2. PICK read \in reading : deal = Deal(Position(read), Propose(Position(read)))
      OBVIOUS
    <3>3. deal.position = Position(read) /\ deal.proposal = Propose(deal.position)
      BY <3>2 DEF Deal
    <3>4. ~Raises(deal.position)
      <4>1. PICK other \in reading : ~Raises(Position(other))
        BY <2>2 DEF Answer
      <4>2. other = read
        BY DEF Reads
      <4> QED
        BY <3>3, <4>1, <4>2
    <3>5. IsPosition(deal.position) /\ (OrdinaryCatalogues => Ordinary(deal.position))
      BY <3>3, ReadsArePositions, ReadsAreOrdinary
    <3>6. Kind(deal.proposal) = "offered" => deal.proposal.move # "walk_away"
      BY DEF Kind
    <3>7. \A i \in DOMAIN trail' : trail'[i].kind = "offered" => Decided(trail'[i].deal)
      <4> SUFFICES ASSUME NEW i \in DOMAIN trail', trail'[i].kind = "offered"
                   PROVE  Decided(trail'[i].deal)
        OBVIOUS
      <4> HIDE DEF Decided
      <4>1. CASE i \in DOMAIN trail /\ trail'[i] = trail[i]
        BY <2>0, <4>1
      <4>2. CASE ~(i \in DOMAIN trail /\ trail'[i] = trail[i])
        <5>1. trail'[i].deal = deal /\ Kind(deal.proposal) = "offered"
          BY <3>1, <4>2 DEF Entry
        <5> QED
          BY <3>3, <3>4, <3>5, <3>6, <5>1 DEF Decided
      <4> QED
        BY <4>1, <4>2
    <3> QED
      BY <3>7 DEF OffersAreDecided, Written
  <2>3. CASE Accept
    <3>1. PICK deal \in standing : \A i \in DOMAIN trail' :
            \/ i \in DOMAIN trail /\ trail'[i] = trail[i]
            \/ trail'[i] = Entry("closed", deal)
      BY <2>3, AcceptWrites
    <3>2. \A i \in DOMAIN trail' : trail'[i].kind = "offered" => Decided(trail'[i].deal)
      <4> HIDE DEF Decided
      <4> QED
        BY <2>0, <3>1 DEF Entry
    <3> QED
      BY <3>2 DEF OffersAreDecided, Written
  <2>4. CASE \E ask \in Asks : Receive(ask)
    BY <2>1, <2>4 DEF Receive
  <2>5. CASE ReceiveUnread
    BY <2>1, <2>5 DEF ReceiveUnread
  <2>6. CASE Abandon
    BY <2>1, <2>6 DEF Abandon
  <2>7. CASE Seed
    BY <2>1, <2>7 DEF Seed
  <2>8. CASE UNCHANGED vars
    BY <2>1, <2>8 DEF vars
  <2> QED
    BY <2>2, <2>3, <2>4, <2>5, <2>6, <2>7, <2>8 DEF Next
<1> QED
  BY <1>1, <1>2, NegInductive, ReadsAreTyped, PTL DEF Spec

\* Less than the buyer's number is named only where rounding alone refuses the number:
\* of any catalogue and any ask.
THEOREM UndercutsAreRounding == Spec => []UndercutsByRoundingAlone
<1>1. OffersAreDecided => UndercutsByRoundingAlone
  BY UndercutIsRounding DEF OffersAreDecided, UndercutsByRoundingAlone
<1> QED
  BY <1>1, OffersAreThePolicys, PTL

\* NamedPricesAreTheLeast: of ordinary catalogues, no arrangement the position allows holds
\* below the price the Desk names instead of the buyer's.
THEOREM TheLeastIsNamed ==
  ASSUME OrdinaryCatalogues
  PROVE  Spec => []NamedPricesAreTheLeast
<1>1. OffersAreDecided => NamesTheLeast
  <2> SUFFICES ASSUME OffersAreDecided, NEW e \in Written({"offered"}),
                      Haggles(trail[e].deal.position),
                      trail[e].deal.proposal.price # trail[e].deal.position.ask.target,
                      NEW i \in DOMAIN Shapes(trail[e].deal.position),
                      NEW x \in 0..(trail[e].deal.proposal.price.amount - 1),
                      x % trail[e].deal.position.product.grid = 0,
                      Holds(trail[e].deal.position.product, Shapes(trail[e].deal.position)[i],
                            [amount |-> x, grid |-> trail[e].deal.position.product.grid]),
                      HoldsExactly(trail[e].deal.position.product,
                            Shapes(trail[e].deal.position)[i],
                            [amount |-> x, grid |-> trail[e].deal.position.product.grid])
               PROVE  FALSE
    BY DEF NamesTheLeast
  <2> DEFINE p == trail[e].deal.position
             proposal == trail[e].deal.proposal
  <2>1. /\ proposal = Propose(p) /\ ~Raises(p) /\ proposal.move # "walk_away"
        /\ IsPosition(p) /\ Ordinary(p)
    BY DEF OffersAreDecided
  <2> QED
    BY <2>1, NamedIsLeast
<1>2. OffersAreDecided => UndercutsByRoundingAlone
  BY UndercutIsRounding DEF OffersAreDecided, UndercutsByRoundingAlone
<1>3. OffersAreDecided => NamedPricesAreTheLeast
  BY <1>1, <1>2 DEF NamedPricesAreTheLeast
<1> QED
  BY <1>3, OffersAreThePolicys, PTL
=============================================================================
