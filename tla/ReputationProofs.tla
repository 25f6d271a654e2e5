-------------------------- MODULE ReputationProofs --------------------------
(***************************************************************************)
(* Reputation, for any ladder, any policy within its bounds, any callers   *)
(* and any stall.                                                          *)
(*                                                                         *)
(* The first part is about what a call makes of a row (OutcomeMoves); the  *)
(* second is about callers, and rests on a row being held by the one       *)
(* caller that read it.                                                    *)
(***************************************************************************)
EXTENDS Reputation, WellFoundedInduction, TLAPS

\* A row within the policy's bounds, on a rung its score reaches, blocked by the
\* signal that reaches the limit and by none before.
Sound(row) ==
  /\ MinScore <= row.score /\ row.score <= MaxScore
  /\ row.rung <= Highest(row.score)
  /\ row.signals <= BlockAfter
  /\ row.blocked <=> row.signals = BlockAfter

\* What a call may make of a row: it climbs one rung at most, its dwell served by the
\* call's instant; a new rung starts its dwell at that instant; a block stays.
Moves(row, to, now) ==
  /\ to.rung > row.rung =>
       to.rung = row.rung + 1 /\ now - row.rung_since >= Dwell[row.rung]
  /\ to.rung_since = row.rung_since \/ to.rung_since = now
  /\ to.rung # row.rung => to.rung_since = now
  /\ row.blocked => to.blocked

-----------------------------------------------------------------------------
\* What is assumed of the policy's numbers.
LEMMA PolicyNumbers ==
  /\ MinScore \in Nat /\ Baseline \in Nat /\ Start \in Nat /\ MaxScore \in Nat
  /\ MinScore <= Baseline /\ Baseline <= MaxScore
  /\ MinScore <= Start /\ Start <= MaxScore
  /\ Rise \in Nat /\ Fall \in Nat /\ Decay \in Nat
  /\ BlockAfter \in Nat \ {0} /\ DecayFloor \in Nat \ {0}
  /\ MaxStall \in Nat
  /\ Place \in Nat \ {0} /\ Grain \in Nat \ {0}
BY ReputationAssumption DEF ReputationAssumption

\* And what is assumed of the ladder's.
LEMMA LadderNumbers ==
  /\ Top \in Nat
  /\ Threshold \in [Rungs -> Nat] /\ Threshold[0] = 0
  /\ Dwell \in [Rungs -> Nat] /\ Ceiling \in [Rungs -> Nat]
  /\ 0 \in Rungs
BY ReputationAssumption DEF ReputationAssumption, Rungs
-----------------------------------------------------------------------------
\* highest_available is a rung the score reaches, and the highest of them.
LEMMA HighestIsHighest ==
  ASSUME NEW score \in Nat
  PROVE  /\ Highest(score) \in Available(score)
         /\ \A q \in Available(score) : q <= Highest(score)
<1> DEFINE Below == {Top - r : r \in Available(score)}
<1>1. Below \subseteq Nat /\ Below # {}
  <2>1. 0 \in Available(score)
    BY LadderNumbers DEF Available
  <2>2. \A r \in Available(score) : Top - r \in Nat
    BY LadderNumbers DEF Available, Rungs
  <2>3. Top - 0 \in Below
    BY <2>1
  <2> QED
    BY <2>2, <2>3
<1> DEFINE Less == OpToRel(<, Nat)
<1>2. \A n, m \in Nat : n < m => <<n, m>> \in Less
  BY DEF OpToRel
<1> HIDE DEF Less
<1>3. PICK m \in Below : \A n \in Below : m <= n
  <2> HIDE DEF Below
  <2>1. IsWellFoundedOn(Less, Nat)
    BY NatLessThanWellFounded DEF Less
  <2>2. PICK m \in Below : \A n \in Below : ~(<<n, m>> \in Less)
    BY <1>1, <2>1, WFMin
  <2>3. \A n \in Below : ~(n < m)
    BY <1>1, <1>2, <2>2
  <2> QED
    BY <1>1, <2>3
<1>4. PICK r \in Available(score) : m = Top - r
  OBVIOUS
<1>5. \A q \in Available(score) : q <= r
  <2> TAKE q \in Available(score)
  <2>1. Top - q \in Below
    OBVIOUS
  <2>2. q \in Int /\ r \in Int /\ Top \in Int
    BY LadderNumbers DEF Available, Rungs
  <2> HIDE DEF Below
  <2> QED
    BY <1>3, <1>4, <2>1, <2>2
<1> QED
  BY <1>4, <1>5 DEF Highest

\* A higher score reaches every rung a lower one does.
LEMMA HighestRises ==
  ASSUME NEW low \in Nat, NEW high \in Nat, low <= high
  PROVE  Highest(low) <= Highest(high)
<1>1. Highest(low) \in Available(low)
  BY HighestIsHighest
<1>2. Highest(low) \in Available(high)
  BY <1>1, LadderNumbers DEF Available
<1>3. Highest(low) \in Int /\ Highest(high) \in Int
  BY HighestIsHighest DEF Available, Rungs
<1> QED
  BY <1>2, <1>3, HighestIsHighest

\* Decay never raises a score, nor takes it out of its bounds.
LEMMA DecayFalls ==
  ASSUME NEW score \in Nat, MinScore <= score, NEW idle \in Int
  PROVE  /\ Decayed(score, idle) \in Nat
         /\ MinScore <= Decayed(score, idle) /\ Decayed(score, idle) <= score
<1>1. CASE score <= Baseline \/ idle <= 0
  BY <1>1, PolicyNumbers DEF Decayed
<1>2. CASE ~(score <= Baseline \/ idle <= 0)
  <2> DEFINE drop == Decay * idle
  <2>1. drop \in Nat
    BY <1>2, PolicyNumbers
  <2>2. Decayed(score, idle) = Greater(Baseline, score - drop)
    BY <1>2 DEF Decayed
  <2> HIDE DEF drop
  <2> QED
    BY <1>2, <2>1, <2>2, PolicyNumbers DEF Greater
<1> QED
  BY <1>1, <1>2

\* A drop takes the rung to one the score reaches, and never up.
LEMMA DropLands ==
  ASSUME NEW row \in Row, NEW now \in Nat
  PROVE  LET to == Dropped(row, now)
         IN  /\ to \in Row
             /\ to.rung <= row.rung /\ to.rung <= Highest(row.score)
             /\ to.score = row.score /\ to.signals = row.signals
             /\ to.blocked = row.blocked
             /\ to.rung = row.rung => to.rung_since = row.rung_since
             /\ to.rung # row.rung => to.rung_since = now
<1>1. Highest(row.score) \in Rungs
  BY HighestIsHighest DEF Available, Row
<1>2. Rungs \subseteq Int
  BY DEF Rungs
<1>3. CASE Highest(row.score) < row.rung
  <2> DEFINE high == Highest(row.score)
             to == [row EXCEPT !.rung = high, !.rung_since = now]
  <2>1. Dropped(row, now) = to
    BY <1>3 DEF Dropped
  <2>2. high \in Rungs /\ high \in Int /\ row.rung \in Int /\ high < row.rung
    BY <1>1, <1>2, <1>3 DEF Row
  <2> HIDE DEF high
  <2>3. to \in Row
    BY <2>2 DEF Row
  <2>4. /\ to.rung = high /\ to.rung_since = now /\ to.score = row.score
        /\ to.signals = row.signals /\ to.blocked = row.blocked
    BY DEF Row
  <2> HIDE DEF to
  <2>5. /\ to.rung <= row.rung /\ to.rung # row.rung
        /\ to.rung <= Highest(row.score)
    BY <2>2, <2>4 DEF high
  <2> QED
    BY <2>1, <2>3, <2>4, <2>5
<1>4. CASE ~(Highest(row.score) < row.rung)
  <2>1. row.rung \in Int /\ Highest(row.score) \in Int
    BY <1>1, <1>2 DEF Row
  <2> QED
    BY <1>4, <2>1 DEF Dropped
<1> QED
  BY <1>3, <1>4

\* A new score changes nothing else but when it was scored.
LEMMA RescoreKeeps ==
  ASSUME NEW row \in Row, NEW score \in Nat, NEW now \in Nat
  PROVE  LET to == Rescored(row, score, now)
         IN  /\ to \in Row /\ to.score = score
             /\ to.rung = row.rung /\ to.rung_since = row.rung_since
             /\ to.signals = row.signals /\ to.blocked = row.blocked
BY DEF Rescored, Row

\* Settling decay leaves a sound row no higher than it was.
LEMMA SettledMoves ==
  ASSUME NEW row \in Row, NEW now \in Nat, Sound(row)
  PROVE  LET to == Settled(row, now)
         IN  /\ to \in Row /\ Sound(to)
             /\ to.rung <= row.rung
             /\ to.rung = row.rung => to.rung_since = row.rung_since
             /\ to.rung # row.rung => to.rung_since = now
             /\ to.signals = row.signals /\ to.blocked = row.blocked
<1> DEFINE faded == Decayed(row.score, now - row.scored_at)
           next == IF row.score - faded < DecayFloor THEN row ELSE Rescored(row, faded, now)
           to == Dropped(next, now)
<1>0. Settled(row, now) = to
  BY DEF Settled
<1>1. faded \in Nat /\ MinScore <= faded /\ faded <= row.score
  <2>1. row.score \in Nat /\ now - row.scored_at \in Int /\ MinScore <= row.score
    BY DEF Row, Sound
  <2> QED
    BY <2>1, DecayFalls
<1>2. /\ next \in Row /\ next.rung = row.rung /\ next.rung_since = row.rung_since
      /\ MinScore <= next.score /\ next.score <= MaxScore
      /\ next.signals = row.signals /\ next.blocked = row.blocked
  <2> HIDE DEF faded
  <2> DEFINE scored == Rescored(row, faded, now)
  <2>1. /\ scored \in Row /\ scored.score = faded
        /\ scored.rung = row.rung /\ scored.rung_since = row.rung_since
        /\ scored.signals = row.signals /\ scored.blocked = row.blocked
    BY <1>1, RescoreKeeps
  <2>2. row.score \in Nat /\ MinScore <= row.score /\ row.score <= MaxScore
    BY DEF Sound, Row
  <2>3. next = row \/ next = scored
    OBVIOUS
  <2> HIDE DEF scored, next
  <2> QED
    BY <1>1, <2>1, <2>2, <2>3, PolicyNumbers
<1> HIDE DEF next
<1>3. /\ to \in Row /\ to.rung <= next.rung /\ to.rung <= Highest(next.score)
      /\ to.score = next.score /\ to.signals = next.signals
      /\ to.blocked = next.blocked
      /\ to.rung = next.rung => to.rung_since = next.rung_since
      /\ to.rung # next.rung => to.rung_since = now
  BY <1>2, DropLands
<1> HIDE DEF to
<1> QED
  BY <1>0, <1>2, <1>3 DEF Sound

\* A clean deal raises a sound row, and climbs if the dwell is served.
LEMMA DealMoves ==
  ASSUME NEW row \in Row, NEW now \in Nat, Sound(row)
  PROVE  LET to == AfterDeal(row, now)
         IN  /\ to \in Row /\ Sound(to)
             /\ to.rung > row.rung =>
                  to.rung = row.rung + 1 /\ now - row.rung_since >= Dwell[row.rung]
             /\ to.rung >= row.rung
             /\ to.rung_since = row.rung_since \/ to.rung_since = now
             /\ to.rung # row.rung => to.rung_since = now
             /\ to.blocked = row.blocked
<1> DEFINE score == Lesser(MaxScore, row.score + Rise)
           raised == Rescored(row, score, now)
           active == [raised EXCEPT !.last_active_at = now]
           to == Climbed(active, now)
<1>0. AfterDeal(row, now) = to
  BY DEF AfterDeal
<1>1. score \in Nat /\ row.score <= score /\ MinScore <= score /\ score <= MaxScore
  BY PolicyNumbers DEF Lesser, Row, Sound
<1>2. Highest(row.score) <= Highest(score)
  BY <1>1, HighestRises DEF Row
<1> HIDE DEF score
<1>3. /\ raised \in Row /\ raised.score = score
      /\ raised.rung = row.rung /\ raised.rung_since = row.rung_since
      /\ raised.signals = row.signals /\ raised.blocked = row.blocked
  BY <1>1, RescoreKeeps
<1> HIDE DEF raised
<1>4. /\ active \in Row /\ active.score = score
      /\ active.rung = row.rung /\ active.rung_since = row.rung_since
      /\ active.signals = row.signals /\ active.blocked = row.blocked
  BY <1>3 DEF Row
<1>5. /\ Highest(score) \in Int /\ Highest(row.score) \in Int
      /\ row.rung \in Int /\ row.rung \in Rungs
      /\ active.rung \in Rungs /\ active.rung_since \in Nat
  BY <1>1, <1>4, HighestIsHighest DEF Available, Rungs, Row
<1>6. Sound(active)
  BY <1>1, <1>2, <1>4, <1>5 DEF Sound
<1> HIDE DEF active
<1>7. CASE ~( /\ active.rung < Top
              /\ active.score >= Threshold[active.rung + 1]
              /\ now - active.rung_since >= Dwell[active.rung])
  <2>1. to = active
    BY <1>7 DEF Climbed
  <2> QED
    BY <1>0, <1>4, <1>5, <1>6, <2>1
<1>8. CASE /\ active.rung < Top
           /\ active.score >= Threshold[active.rung + 1]
           /\ now - active.rung_since >= Dwell[active.rung]
  <2>1. to = [active EXCEPT !.rung = @ + 1, !.rung_since = now]
    BY <1>8 DEF Climbed
  <2>2. active.rung + 1 \in Rungs
    <3>1. \A r \in Rungs : r < Top => r + 1 \in Rungs
      BY LadderNumbers DEF Rungs
    <3> QED
      BY <1>5, <1>8, <3>1
  <2>3. active.rung + 1 \in Available(score)
    BY <1>4, <1>8, <1>1, <2>2, LadderNumbers DEF Available
  <2>4. active.rung + 1 <= Highest(score)
    BY <1>1, <2>3, HighestIsHighest
  <2>5. /\ to \in Row /\ to.rung = active.rung + 1 /\ to.rung_since = now
        /\ to.score = active.score /\ to.signals = active.signals
        /\ to.blocked = active.blocked
    BY <1>4, <2>1, <2>2 DEF Row
  <2> HIDE DEF to
  <2>6. Sound(to)
    BY <1>4, <1>6, <2>4, <2>5 DEF Sound
  <2> QED
    BY <1>0, <1>4, <1>5, <1>8, <2>5, <2>6
<1> QED
  BY <1>7, <1>8

\* A signal lowers a sound row, drops it as far as its score asks, and blocks it at
\* the limit.
LEMMA SignalMoves ==
  ASSUME NEW row \in Row, NEW now \in Nat, Sound(row), ~row.blocked
  PROVE  LET to == AfterSignal(row, now)
         IN  /\ to \in Row /\ Sound(to)
             /\ to.rung <= row.rung
             /\ to.rung_since = row.rung_since \/ to.rung_since = now
             /\ to.rung # row.rung => to.rung_since = now
<1> DEFINE score == Greater(MinScore, row.score - Fall)
           lowered == Rescored(row, score, now)
           counted == [lowered EXCEPT !.last_active_at = now, !.signals = @ + 1]
           landed == Dropped(counted, now)
           full == counted.signals >= BlockAfter
           to == [landed EXCEPT !.blocked = full]
<1>0. AfterSignal(row, now) = to
  BY DEF AfterSignal
<1>1. score \in Nat /\ MinScore <= score /\ score <= MaxScore
  BY PolicyNumbers DEF Greater, Row, Sound
<1>2. row.signals \in Nat /\ row.signals < BlockAfter /\ row.rung \in Int
  BY PolicyNumbers DEF Row, Sound, Rungs
<1> HIDE DEF score
<1>3. /\ lowered \in Row /\ lowered.score = score
      /\ lowered.rung = row.rung /\ lowered.rung_since = row.rung_since
      /\ lowered.signals = row.signals
  BY <1>1, RescoreKeeps
<1> HIDE DEF lowered, landed, full, to
<1>4. /\ counted \in Row /\ counted.score = score
      /\ counted.rung = row.rung /\ counted.rung_since = row.rung_since
      /\ counted.signals = row.signals + 1
  <2>1. lowered.signals + 1 \in Nat
    BY <1>3 DEF Row
  <2>2. counted \in Row
    BY <1>3, <2>1 DEF Row
  <2> QED
    BY <1>3, <2>2 DEF Row
<1> HIDE DEF counted
<1>5. /\ landed \in Row /\ landed.rung <= row.rung
      /\ landed.rung <= Highest(score) /\ landed.score = score
      /\ landed.signals = row.signals + 1
      /\ landed.rung_since = row.rung_since \/ landed.rung_since = now
      /\ landed.rung # row.rung => landed.rung_since = now
  BY <1>4, DropLands DEF landed
<1>6. full \in BOOLEAN /\ (full <=> row.signals + 1 = BlockAfter)
  BY <1>2, <1>4, PolicyNumbers DEF full
<1>7. /\ to \in Row /\ to.rung = landed.rung /\ to.rung_since = landed.rung_since
      /\ to.score = landed.score /\ to.signals = landed.signals
      /\ to.blocked = full
  <2>1. to \in Row
    BY <1>5, <1>6 DEF Row, to
  <2> QED
    BY <1>5, <1>6, <2>1 DEF Row, to
<1>8. Sound(to)
  BY <1>1, <1>2, <1>5, <1>6, <1>7, PolicyNumbers DEF Sound
<1> QED
  BY <1>0, <1>5, <1>7, <1>8

\* Whatever is called, a sound row stays sound, and moves as a row may.
LEMMA OutcomeMoves ==
  ASSUME NEW row \in Row, NEW now \in Nat, NEW op \in Ops, Sound(row)
  PROVE  /\ Outcome(op, row, now) \in Row
         /\ Sound(Outcome(op, row, now))
         /\ Moves(row, Outcome(op, row, now), now)
<1> DEFINE settled == Settled(row, now)
<1>1. /\ settled \in Row /\ Sound(settled) /\ settled.rung <= row.rung
      /\ settled.rung = row.rung => settled.rung_since = row.rung_since
      /\ settled.rung # row.rung => settled.rung_since = now
      /\ settled.blocked = row.blocked
  BY SettledMoves
<1>2. row.rung \in Int /\ settled.rung \in Int
  BY <1>1 DEF Row, Rungs
<1>3. CASE settled.blocked \/ op \in {"standing", "admit"}
  <2>1. Outcome(op, row, now) = settled
    BY <1>3 DEF Outcome
  <2> HIDE DEF settled
  <2> QED
    BY <1>1, <1>2, <2>1 DEF Moves
<1>4. CASE ~settled.blocked /\ op = "deal"
  <2> DEFINE to == AfterDeal(settled, now)
  <2>1. Outcome(op, row, now) = to
    BY <1>4 DEF Outcome
  <2> HIDE DEF settled
  <2>2. /\ to \in Row /\ Sound(to)
        /\ to.rung > settled.rung =>
             /\ to.rung = settled.rung + 1
             /\ now - settled.rung_since >= Dwell[settled.rung]
        /\ to.rung >= settled.rung
        /\ to.rung_since = settled.rung_since \/ to.rung_since = now
        /\ to.rung # settled.rung => to.rung_since = now
        /\ to.blocked = settled.blocked
    BY <1>1, DealMoves
  <2> HIDE DEF to
  <2>3. to.rung \in Int
    BY <2>2 DEF Row, Rungs
  <2>4. to.rung > row.rung => settled.rung = row.rung
    BY <1>1, <1>2, <2>2, <2>3
  <2>5. to.rung > row.rung =>
          to.rung = row.rung + 1 /\ now - row.rung_since >= Dwell[row.rung]
    BY <1>1, <2>2, <2>4
  <2> QED
    BY <1>1, <1>2, <2>1, <2>2, <2>3, <2>5 DEF Moves
<1>5. CASE ~settled.blocked /\ op = "signal"
  <2> DEFINE to == AfterSignal(settled, now)
  <2>1. Outcome(op, row, now) = to
    BY <1>5 DEF Outcome
  <2> HIDE DEF settled
  <2>2. /\ to \in Row /\ Sound(to) /\ to.rung <= settled.rung
        /\ to.rung_since = settled.rung_since \/ to.rung_since = now
        /\ to.rung # settled.rung => to.rung_since = now
    BY <1>1, <1>5, SignalMoves
  <2> HIDE DEF to
  <2>3. to.rung \in Int
    BY <2>2 DEF Row, Rungs
  <2> QED
    BY <1>1, <1>2, <1>5, <2>1, <2>2, <2>3 DEF Moves
<1> QED
  BY <1>3, <1>4, <1>5 DEF Ops
-----------------------------------------------------------------------------
(* Rounding.                                                               *)

\* A whole number of places, of whatever sign.
Even(n) == \E k \in Int : n = Place * k

\* What rounding gives is a multiple that is no more than half a unit away.
LEMMA NearestIsNear ==
  ASSUME NEW unit \in Nat \ {0}, NEW n \in Int, NEW m \in Nearest(n, unit)
  PROVE  m \in Int /\ unit * m \in Int /\ HalfApart(unit * m, n, unit)
<1>1. m \in {n \div unit, (n \div unit) + 1} /\ HalfApart(unit * m, n, unit)
  BY DEF Nearest
<1>2. n \div unit \in Int
  OBVIOUS
<1>3. m \in Int
  BY <1>1, <1>2
<1> QED
  BY <1>1, <1>3

\* Rounding passes no multiple, and moves none.
LEMMA NearestPassesNone ==
  ASSUME NEW n \in Int, NEW m \in Nearest(n, Place), NEW bound \in Int, Even(bound)
  PROVE  /\ bound <= n => bound <= Place * m
         /\ n <= bound => Place * m <= bound
<1>1. PICK k \in Int : bound = Place * k
  BY DEF Even
<1>2. Place \in Nat \ {0}
  BY PolicyNumbers
<1>3. m \in Int /\ Place * m \in Int /\ 2 * (Place * m - n) <= Place /\ 2 * (n - Place * m) <= Place
  BY <1>2, NearestIsNear DEF HalfApart
<1>4. m < k => Place * m <= Place * k - Place
  <2> SUFFICES ASSUME m < k PROVE Place * m <= Place * k - Place
    OBVIOUS
  <2>1. k - 1 - m \in Nat
    BY <1>3
  <2>2. Place * (k - 1 - m) >= 0
    BY <1>2, <2>1
  <2>3. Place * (k - 1 - m) = Place * k - Place - Place * m
    BY <1>2, <1>3
  <2> QED
    BY <1>2, <1>3, <2>2, <2>3
<1>5. k < m => Place * k <= Place * m - Place
  <2> SUFFICES ASSUME k < m PROVE Place * k <= Place * m - Place
    OBVIOUS
  <2>1. m - 1 - k \in Nat
    BY <1>3
  <2>2. Place * (m - 1 - k) >= 0
    BY <1>2, <2>1
  <2>3. Place * (m - 1 - k) = Place * m - Place - Place * k
    BY <1>2, <1>3
  <2> QED
    BY <1>2, <1>3, <2>2, <2>3
<1>6. m = k => Place * m = Place * k
  OBVIOUS
<1>7. m < k \/ m = k \/ k < m
  BY <1>3
<1>8. Place * k \in Int
  BY <1>2
<1> QED
  BY <1>1, <1>2, <1>3, <1>4, <1>5, <1>6, <1>7, <1>8

\* The numbers the policy and the ladder are written with need no rounding.
LEMMA EvenNumbers ==
  /\ Even(Start) /\ Even(MinScore) /\ Even(MaxScore)
  /\ \A r \in Rungs : Even(Threshold[r])
<1>1. \A n \in Nat : Whole(n) => Even(n)
  BY DEF Whole, Even
<1> QED
  BY <1>1, PolicyNumbers, LadderNumbers, ReputationAssumption DEF ReputationAssumption

\* A sound row is stored as a sound row, of another score at most.
LEMMA StoredIsSound ==
  ASSUME NEW to \in Row, Sound(to), NEW row \in Stored(to)
  PROVE  /\ row \in Row /\ Sound(row) /\ Even(row.score)
         /\ row.rung = to.rung /\ row.rung_since = to.rung_since /\ row.blocked = to.blocked
         /\ \E k \in Nearest(to.score, Place) : row.score = Place * k
<1>1. PICK k \in Nearest(to.score, Place) : row = [to EXCEPT !.score = Place * k]
  BY DEF Stored
<1> DEFINE score == Place * k
<1>2. /\ row.score = score /\ row.rung = to.rung /\ row.rung_since = to.rung_since
      /\ row.blocked = to.blocked /\ row.signals = to.signals
  BY <1>1 DEF Row
<1>3. to.score \in Int /\ to.score \in Nat /\ Place \in Nat \ {0}
  BY PolicyNumbers DEF Row
<1>4. k \in Int /\ score \in Int
  BY <1>3, NearestIsNear
<1>5. Even(score)
  BY <1>4 DEF Even
<1>6. MinScore <= score /\ score <= MaxScore
  BY <1>3, EvenNumbers, NearestPassesNone, PolicyNumbers DEF Sound
<1>7. score \in Nat
  <2> HIDE DEF score
  <2> QED
    BY <1>4, <1>6, PolicyNumbers
<1>8. Highest(to.score) <= Highest(score)
  <2> DEFINE high == Highest(to.score)
  <2>1. high \in Rungs /\ Threshold[high] <= to.score /\ high \in Int
    BY <1>3, HighestIsHighest DEF Available, Rungs
  <2> HIDE DEF high
  <2>2. Threshold[high] <= score
    BY <1>3, <2>1, EvenNumbers, LadderNumbers, NearestPassesNone
  <2> HIDE DEF score
  <2>3. high \in Available(score)
    BY <2>1, <2>2 DEF Available
  <2>4. high <= Highest(score)
    BY <1>7, <2>3, HighestIsHighest
  <2> QED
    BY <2>4 DEF high
<1>9. /\ Highest(to.score) \in Int /\ Highest(score) \in Int /\ to.rung \in Int
  BY <1>3, <1>7, HighestIsHighest DEF Available, Rungs, Row
<1> HIDE DEF score
<1>10. row \in Row
  <2>1. row = [to EXCEPT !.score = score]
    BY <1>1 DEF score
  <2> QED
    BY <1>7, <2>1 DEF Row
<1>11. Sound(row)
  BY <1>2, <1>6, <1>8, <1>9 DEF Sound
<1> QED
  BY <1>1, <1>2, <1>5, <1>10, <1>11 DEF score

\* One more entry, or none where nothing changed.
LEMMA ToldIsNear ==
  ASSUME NEW account \in Account, NEW from \in Nat, NEW to \in Nat,
         NEW told \in Told(account, from, to),
         HalfApart(Start + Grain * account.sum, from, (Grain + Place) * account.changes)
  PROVE  /\ told \in Account /\ told.rung = account.rung /\ told.blocked = account.blocked
         /\ IF to = from THEN told = account
            ELSE /\ told.changes = account.changes + 1
                 /\ HalfApart(Grain * told.last, to, Grain)
                 /\ HalfApart(Start + Grain * told.sum, to,
                              (Grain + Place) * told.changes - Place)
<1>1. CASE to = from
  BY <1>1 DEF Told
<1>2. CASE to # from
  <2>1. PICK up \in Nearest(to - from, Grain), score \in Nearest(to, Grain) :
          told = Entered(account, up, score)
    BY <1>2 DEF Told
  <2>2. Grain \in Nat \ {0} /\ Place \in Nat \ {0} /\ Start \in Nat
    BY PolicyNumbers
  <2>3. /\ up \in Int /\ Grain * up \in Int /\ HalfApart(Grain * up, to - from, Grain)
        /\ score \in Int /\ HalfApart(Grain * score, to, Grain)
    BY <2>2, NearestIsNear
  <2>4. account.sum \in Int /\ account.changes \in Nat
    BY DEF Account
  <2>5. /\ told \in Account /\ told.rung = account.rung /\ told.blocked = account.blocked
        /\ told.sum = account.sum + up /\ told.changes = account.changes + 1
        /\ told.last = score
    <3>1. account \in [sum : Int, changes : Nat, last : Int, rung : Rungs, blocked : BOOLEAN]
      BY DEF Account
    <3> DEFINE sum == account.sum + up
               changes == account.changes + 1
    <3>2. told = [account EXCEPT !.sum = sum, !.changes = changes, !.last = score]
      BY <2>1 DEF Entered
    <3>3. sum \in Int /\ changes \in Nat /\ score \in Int
      BY <2>3, <2>4
    <3> HIDE DEF sum, changes
    <3>4. /\ told \in [sum : Int, changes : Nat, last : Int, rung : Rungs, blocked : BOOLEAN]
          /\ told.rung = account.rung /\ told.blocked = account.blocked
          /\ told.sum = sum /\ told.changes = changes /\ told.last = score
      BY <3>1, <3>2, <3>3
    <3> QED
      BY <3>4 DEF Account, sum, changes
  <2> DEFINE before == Grain * account.sum
             unit == Grain + Place
             bound == unit * account.changes
  <2>6. Grain * told.sum = before + Grain * up /\ before \in Int
    BY <2>2, <2>3, <2>4, <2>5
  <2>7. unit * told.changes = bound + unit /\ bound \in Int /\ unit \in Int
    BY <2>2, <2>4, <2>5
  <2>8. HalfApart(Start + before, from, bound)
    OBVIOUS
  <2> DEFINE step == Grain * up
  <2>9. HalfApart(step, to - from, Grain) /\ step \in Int
    BY <2>3
  <2>10. Grain * told.sum = before + step
    BY <2>6
  <2>11. unit = Grain + Place
    OBVIOUS
  <2> HIDE DEF before, bound, step, unit
  <2>12. HalfApart(Start + (before + step), to, (bound + unit) - Place)
    BY <2>2, <2>6, <2>7, <2>8, <2>9, <2>11 DEF HalfApart
  <2>13. Start + Grain * told.sum = Start + (before + step)
    BY <2>10
  <2>14. (Grain + Place) * told.changes - Place = (bound + unit) - Place
    <3>1. (Grain + Place) * told.changes = bound + unit
      BY <2>7 DEF unit
    <3> QED
      BY <3>1
  <2>15. HalfApart(Start + Grain * told.sum, to, (Grain + Place) * told.changes - Place)
    BY <2>12, <2>13, <2>14
  <2> QED
    BY <1>2, <2>3, <2>5, <2>15
<1> QED
  BY <1>1, <1>2

\* What the trail says of an agent, of its row.
Tells(account, row) ==
  /\ account.rung = row.rung /\ account.blocked = row.blocked
  /\ account.changes > 0 => HalfApart(Grain * account.last, row.score, Grain + Place)
  /\ HalfApart(Start + Grain * account.sum, row.score, (Grain + Place) * account.changes)

\* The entries of a call tell of the row it stores what those before it told of the row
\* it found: rounding into the table takes up what each entry left over.
LEMMA RecordedTells ==
  ASSUME NEW account \in Account, NEW from \in Row, Sound(from), Even(from.score),
         Tells(account, from), NEW op \in Ops, NEW now \in Nat,
         NEW told \in Recorded(account, op, from, now),
         NEW row \in Stored(Outcome(op, from, now))
  PROVE  told \in Account /\ Tells(told, row)
<1> DEFINE settled == Settled(from, now)
           to == Outcome(op, from, now)
<1>1. settled \in Row /\ to \in Row /\ Sound(to)
  BY SettledMoves, OutcomeMoves
<1>0. PICK faded \in Told(account, from.score, settled.score) :
         \E last \in Told(faded, settled.score, to.score) :
           told = Placed(last, from, to)
  BY DEF Recorded
<1>2. PICK last \in Told(faded, settled.score, to.score) :
        told = Placed(last, from, to)
  BY <1>0
<1>3. row.rung = to.rung /\ row.blocked = to.blocked /\ Even(row.score) /\ row \in Row
  BY <1>1, StoredIsSound
<1>4. PICK k \in Nearest(to.score, Place) : row.score = Place * k
  BY <1>1, StoredIsSound
<1> HIDE DEF settled, to
<1>5. from.score \in Nat /\ settled.score \in Nat /\ to.score \in Nat /\ row.score \in Nat
  BY <1>1, <1>3 DEF Row
<1>6. Grain \in Nat \ {0} /\ Place \in Nat \ {0} /\ Start \in Nat
  BY PolicyNumbers
<1>7. HalfApart(row.score, to.score, Place)
  BY <1>4, <1>5, <1>6, NearestIsNear
<1>8. /\ faded \in Account /\ faded.rung = account.rung /\ faded.blocked = account.blocked
      /\ IF settled.score = from.score THEN faded = account
         ELSE /\ faded.changes = account.changes + 1
              /\ HalfApart(Grain * faded.last, settled.score, Grain)
              /\ HalfApart(Start + Grain * faded.sum, settled.score,
                           (Grain + Place) * faded.changes - Place)
  BY <1>0, <1>5, ToldIsNear DEF Tells
<1>9. /\ account.changes \in Nat /\ faded.changes \in Nat
      /\ account.sum \in Int /\ faded.sum \in Int /\ account.last \in Int /\ faded.last \in Int
  BY <1>8 DEF Account
<1>10. /\ (Grain + Place) * faded.changes \in Int /\ Grain * faded.sum \in Int
       /\ (Grain + Place) * account.changes \in Int /\ Grain * account.sum \in Int
  BY <1>6, <1>9
<1>11. HalfApart(Start + Grain * faded.sum, settled.score, (Grain + Place) * faded.changes)
  <2>1. CASE settled.score = from.score
    BY <1>8, <2>1 DEF Tells
  <2>2. CASE settled.score # from.score
    <3> DEFINE m == Start + Grain * faded.sum
               bound == (Grain + Place) * faded.changes
    <3>1. m \in Int /\ bound \in Int /\ HalfApart(m, settled.score, bound - Place)
      BY <1>6, <1>8, <1>10, <2>2
    <3> HIDE DEF m, bound
    <3>2. HalfApart(m, settled.score, bound)
      BY <1>5, <1>6, <3>1 DEF HalfApart
    <3> QED
      BY <3>2 DEF m, bound
  <2> QED
    BY <2>1, <2>2
<1>12. /\ last \in Account /\ last.rung = faded.rung /\ last.blocked = faded.blocked
       /\ IF to.score = settled.score THEN last = faded
          ELSE /\ last.changes = faded.changes + 1
               /\ HalfApart(Grain * last.last, to.score, Grain)
               /\ HalfApart(Start + Grain * last.sum, to.score,
                            (Grain + Place) * last.changes - Place)
  BY <1>2, <1>5, <1>8, <1>11, ToldIsNear
<1>13. /\ told \in Account /\ told.rung = row.rung /\ told.blocked = row.blocked
       /\ told.sum = last.sum /\ told.changes = last.changes /\ told.last = last.last
  <2>1. account.rung = from.rung /\ account.blocked = from.blocked
    BY DEF Tells
  <2>2. to.rung \in Rungs /\ to.blocked \in BOOLEAN
    BY <1>1 DEF Row
  <2> QED
    BY <1>2, <1>3, <1>8, <1>12, <2>1, <2>2 DEF Account, Placed
\* Nothing told, and the score is what it was; or something, and a place to spare.
<1>14. \/ last = account /\ to.score = from.score
       \/ /\ last.changes > 0 /\ HalfApart(Grain * last.last, to.score, Grain)
          /\ HalfApart(Start + Grain * last.sum, to.score,
                       (Grain + Place) * last.changes - Place)
  BY <1>8, <1>9, <1>12
<1>15. CASE last = account /\ to.score = from.score
  <2>1. row.score = from.score
    <3>1. from.score \in Int /\ to.score \in Int
      BY <1>5
    <3>2. from.score <= Place * k /\ Place * k <= from.score
      BY <1>4, <1>15, <3>1, NearestPassesNone
    <3> QED
      BY <1>4, <1>5, <3>2
  <2> QED
    BY <1>13, <1>15, <2>1 DEF Tells
<1>16. CASE /\ last.changes > 0 /\ HalfApart(Grain * last.last, to.score, Grain)
            /\ HalfApart(Start + Grain * last.sum, to.score,
                         (Grain + Place) * last.changes - Place)
  <2> DEFINE m == Start + Grain * last.sum
             n == Grain * last.last
             bound == (Grain + Place) * last.changes
  <2>1. m \in Int /\ n \in Int /\ bound \in Int
    <3>1. last.sum \in Int /\ last.last \in Int /\ last.changes \in Nat
      BY <1>12 DEF Account
    <3> QED
      BY <1>6, <3>1
  <2>2. HalfApart(n, to.score, Grain) /\ HalfApart(m, to.score, bound - Place)
    BY <1>16
  <2> HIDE DEF m, n, bound
  <2>3. HalfApart(n, row.score, Grain + Place) /\ HalfApart(m, row.score, bound)
    BY <1>5, <1>6, <1>7, <2>1, <2>2 DEF HalfApart
  <2> QED
    BY <1>13, <2>3 DEF Tells, m, n, bound
<1> QED
  BY <1>13, <1>14, <1>15, <1>16
-----------------------------------------------------------------------------
\* A call judges by an instant no more than the longest stall behind the clock.
Timely(c) ==
  pc[c] \in {"wait", "decide"} =>
    call[c].at <= clock /\ clock <= call[c].at + MaxStall

\* Who decides has the row to itself, and it is as it was read.
Holds(c) ==
  pc[c] = "decide" => rowLock[call[c].agent] = c /\ call[c].row = Found(c)

\* The highest rung since the call began is kept up with, and a block is not undone.
Foreseen(c) ==
  /\ pc[c] \in {"wait", "decide"} =>
       /\ rows[call[c].agent].rung <= call[c].reach
       /\ call[c].was_blocked => rows[call[c].agent].blocked
  /\ pc[c] = "gate" =>
       /\ call[c].row.rung <= call[c].reach
       /\ call[c].was_blocked => call[c].row.blocked

\* A row's dwell began no earlier than a stall before its agent came to the rung.
Dated(a) ==
  /\ arrived[a] <= clock /\ arrived[a] <= rows[a].rung_since + MaxStall
  /\ a \notin known => rows[a] = Newcomer(0) /\ arrived[a] = 0

\* The trail tells of every row, which is as it is stored.
Reconciled == \A a \in Agents : Tells(recorded[a], rows[a]) /\ Even(rows[a].score)

RepInv ==
  /\ TypeOK
  /\ \A a \in Agents : Sound(rows[a]) /\ Dated(a)
  /\ Reconciled
  /\ \A c \in Callers : Timely(c) /\ Holds(c) /\ Foreseen(c)

USE DEF Steps, GoTo

\* What is made up for an agent nobody has asked about is a sound row.
LEMMA NewcomerIsSound ==
  ASSUME NEW now \in Nat
  PROVE  Newcomer(now) \in Row /\ Sound(Newcomer(now))
<1>1. Highest(Start) \in Rungs
  BY HighestIsHighest, PolicyNumbers DEF Available
<1>2. 0 <= Highest(Start) /\ 0 \in Rungs
  BY <1>1, LadderNumbers DEF Rungs
<1> QED
  BY <1>1, <1>2, PolicyNumbers DEF Newcomer, Sound, Row

\* What a caller holds between calls.
LEMMA NoCallIsACall == NoCall \in Call
<1>1. /\ (CHOOSE a \in Agents : TRUE) \in Agents
      /\ (CHOOSE n \in Amounts : TRUE) \in Amounts
  BY ReputationAssumption DEF ReputationAssumption
<1> QED
  BY <1>1, NewcomerIsSound, LadderNumbers DEF NoCall, Call, Ops

\* Before the first call every agent is a newcomer and nobody is at work.
LEMMA InitRep == Init => RepInv
<1> SUFFICES ASSUME Init PROVE RepInv
  OBVIOUS
<1>2. TypeOK
  BY NoCallIsACall, NewcomerIsSound, LadderNumbers, PolicyNumbers
     DEF Init, TypeOK, Account, NoEntries
<1>3. \A a \in Agents : Sound(rows[a]) /\ Dated(a)
  BY NewcomerIsSound, PolicyNumbers DEF Init, Dated, Newcomer
<1>4. Reconciled
  <2>1. Start + Grain * 0 = Start /\ (Grain + Place) * 0 = 0
    BY PolicyNumbers
  <2>2. NoEntries.changes = 0 /\ NoEntries.sum = 0 /\ NoEntries.rung = 0 /\ ~NoEntries.blocked
    BY DEF NoEntries
  <2>3. Newcomer(0).score = Start /\ Newcomer(0).rung = 0 /\ ~Newcomer(0).blocked
    BY DEF Newcomer
  <2>4. HalfApart(Start + Grain * 0, Start, (Grain + Place) * 0)
    BY <2>1, PolicyNumbers DEF HalfApart
  <2>5. NoEntries.blocked = Newcomer(0).blocked
    BY DEF NoEntries, Newcomer
  <2>6. Tells(NoEntries, Newcomer(0)) /\ Even(Newcomer(0).score)
    BY <2>2, <2>3, <2>4, <2>5, EvenNumbers DEF Tells
  <2> QED
    BY <2>6 DEF Init, Reconciled
<1> QED
  BY <1>2, <1>3, <1>4 DEF Init, RepInv, Timely, Holds, Foreseen

\* What a caller that decides goes by, and what comes of it.
LEMMA Deciding ==
  ASSUME RepInv, NEW c \in Callers, pc[c] = "decide"
  PROVE  LET a == call[c].agent
             from == call[c].row
             to == Outcome(call[c].op, from, call[c].at)
         IN  /\ a \in Agents /\ from \in Row /\ to \in Row
             /\ from.score = rows[a].score /\ from.rung = rows[a].rung
             /\ from.blocked = rows[a].blocked /\ Sound(from)
             /\ Sound(to) /\ Moves(from, to, call[c].at)
             /\ arrived[a] <= from.rung_since + MaxStall
             /\ a \notin known => from.rung_since = call[c].at
             /\ call[c].at \in Nat /\ call[c].at <= clock
             /\ clock <= call[c].at + MaxStall
<1> DEFINE a == call[c].agent
           from == call[c].row
<1>1. /\ a \in Agents /\ from \in Row /\ call[c].op \in Ops /\ call[c].at \in Nat
      /\ rows[a] \in Row
  BY DEF RepInv, TypeOK, Call
<1>2. /\ from = Found(c) /\ Sound(rows[a]) /\ Dated(a)
      /\ call[c].at <= clock /\ clock <= call[c].at + MaxStall
  BY <1>1 DEF RepInv, Holds, Timely
<1>3. CASE a \in known
  <2>1. from = rows[a]
    BY <1>2, <1>3 DEF Found
  <2> QED
    BY <1>1, <1>2, <1>3, <2>1, OutcomeMoves DEF Dated
<1>4. CASE a \notin known
  <2>1. /\ from = Newcomer(call[c].at) /\ rows[a] = Newcomer(0) /\ arrived[a] = 0
    BY <1>2, <1>4 DEF Found, Dated
  <2>2. Sound(from)
    BY <1>1, <2>1, NewcomerIsSound
  <2>3. /\ from.score = rows[a].score /\ from.rung = rows[a].rung
        /\ from.blocked = rows[a].blocked /\ from.rung_since = call[c].at
    BY <2>1 DEF Newcomer
  <2> QED
    BY <1>1, <1>2, <2>1, <2>2, <2>3, OutcomeMoves, PolicyNumbers
<1> QED
  BY <1>3, <1>4

\* The commit of a call.
LEMMA FinishKeeps ==
  ASSUME RepInv, NEW c \in Callers, Finish(c) PROVE RepInv'
<1> DEFINE a == call[c].agent
           from == call[c].row
           at == call[c].at
           op == call[c].op
           to == Outcome(op, from, at)
<1>0. PICK row \in Stored(to), told \in Recorded(recorded[a], op, from, at) :
        /\ rows' = [rows EXCEPT ![a] = row]
        /\ recorded' = [recorded EXCEPT ![a] = told]
  BY DEF Finish
<1>1. /\ pc[c] = "decide"
      /\ rows' = [rows EXCEPT ![a] = row] /\ known' = known \union {a}
      /\ rowLock' = Unlocked(c)
      /\ recorded' = [recorded EXCEPT ![a] = told]
      /\ arrived' = IF a \in known /\ to.rung = from.rung THEN arrived
                    ELSE [arrived EXCEPT ![a] = clock]
      /\ \/ /\ pc' = [pc EXCEPT ![c] = "gate"]
            /\ call' = [Reached(c, to) EXCEPT ![c].row = to]
         \/ /\ pc' = [pc EXCEPT ![c] = "idle"]
            /\ call' = [Reached(c, to) EXCEPT ![c] = NoCall]
      /\ UNCHANGED <<clock, passed, calls>>
  BY <1>0 DEF Finish
<1>2. /\ a \in Agents /\ from \in Row /\ to \in Row
      /\ from.score = rows[a].score /\ from.rung = rows[a].rung
      /\ from.blocked = rows[a].blocked
      /\ Sound(from) /\ Sound(to) /\ Moves(from, to, at)
      /\ arrived[a] <= from.rung_since + MaxStall
      /\ a \notin known => from.rung_since = at
      /\ at \in Nat /\ at <= clock /\ clock <= at + MaxStall
  BY <1>1, Deciding
<1>3. TypeOK /\ Reconciled /\ clock \in Nat /\ op \in Ops
  BY <1>2 DEF RepInv, TypeOK, Call
<1>5. /\ row \in Row /\ Sound(row) /\ Even(row.score)
      /\ row.rung = to.rung /\ row.rung_since = to.rung_since /\ row.blocked = to.blocked
  BY <1>0, <1>2, StoredIsSound
<1>6. told \in Account /\ Tells(told, row)
  <2>1. recorded[a] \in Account
    BY <1>2, <1>3 DEF TypeOK
  <2>2. Tells(recorded[a], from) /\ Even(from.score)
    BY <1>2, <1>3 DEF Reconciled, Tells
  <2> QED
    BY <1>0, <1>2, <1>3, <2>1, <2>2, RecordedTells
<1> HIDE DEF to
<1>4. /\ Reached(c, to) \in [Callers -> Call]
      /\ \A d \in Callers : to.rung \in Int /\ Reached(c, to)[d].agent = call[d].agent
  <2>1. \A d \in Callers : Reached(c, to)[d] \in Call
    <3> TAKE d \in Callers
    <3>1. call[d] \in Call /\ to.rung \in Rungs
      BY <1>2, <1>3 DEF TypeOK, Row
    <3>2. Greater(call[d].reach, to.rung) \in Rungs
      BY <3>1 DEF Greater, Call
    <3> QED
      BY <3>1, <3>2 DEF Reached, Call
  <2>2. to.rung \in Int
    BY <1>2 DEF Row, Rungs
  <2>3. \A d \in Callers : Reached(c, to)[d].agent = call[d].agent
    BY <1>3 DEF Reached, TypeOK, Call
  <2> QED
    BY <2>1, <2>2, <2>3 DEF Reached
<1>7. call' \in [Callers -> Call]
  <2>1. [Reached(c, to)[c] EXCEPT !.row = to] \in Call
    BY <1>2, <1>4 DEF Call
  <2> QED
    BY <1>1, <1>4, NoCallIsACall, <2>1
<1>8. TypeOK'
  BY <1>1, <1>2, <1>3, <1>5, <1>6, <1>7 DEF TypeOK, Unlocked
<1>9. \A b \in Agents : Sound(rows[b])'
  BY <1>1, <1>2, <1>3, <1>5 DEF RepInv, TypeOK, Sound
<1>10. \A b \in Agents : Dated(b)'
  <2> TAKE b \in Agents
  <2>1. CASE b # a
    BY <1>1, <1>2, <1>3, <2>1 DEF RepInv, TypeOK, Dated
  <2>2. CASE b = a
    <3>1. /\ row.rung_since = from.rung_since \/ row.rung_since = at
          /\ row.rung # from.rung => row.rung_since = at
      BY <1>2, <1>5 DEF Moves
    <3>2. /\ rows'[a] = row /\ clock' = clock /\ a \in known'
          /\ arrived'[a] = IF a \in known /\ row.rung = from.rung THEN arrived[a]
                           ELSE clock
      BY <1>1, <1>2, <1>3, <1>5 DEF TypeOK
    <3>3. /\ arrived[a] \in Nat /\ arrived[a] <= clock /\ MaxStall \in Nat
          /\ from.rung_since \in Nat /\ row.rung_since \in Nat
      BY <1>2, <1>3, <1>5, PolicyNumbers DEF RepInv, TypeOK, Dated, Row
    <3>4. arrived'[a] <= clock /\ arrived'[a] <= row.rung_since + MaxStall
      BY <1>2, <1>3, <3>1, <3>2, <3>3
    <3> QED
      BY <2>2, <3>2, <3>4 DEF Dated
  <2> QED
    BY <2>1, <2>2
<1>11. Reconciled'
  <2> SUFFICES ASSUME NEW b \in Agents
               PROVE  Tells(recorded'[b], rows'[b]) /\ Even(rows'[b].score)
    BY DEF Reconciled, Tells, Even
  <2>1. Tells(recorded[b], rows[b]) /\ Even(rows[b].score)
    BY <1>3 DEF Reconciled
  <2>2. CASE b # a
    <3>1. rows'[b] = rows[b] /\ recorded'[b] = recorded[b]
      BY <1>1, <1>3, <2>2 DEF TypeOK
    <3> QED
      BY <2>1, <3>1
  <2>3. CASE b = a
    <3>1. rows'[b] = row /\ recorded'[b] = told
      BY <1>1, <1>2, <1>3, <2>3 DEF TypeOK
    <3> QED
      BY <1>5, <1>6, <3>1
  <2> QED
    BY <2>2, <2>3
<1>12. \A d \in Callers : d # c /\ pc[d] = "decide" => call[d].agent # a
  BY <1>1 DEF RepInv, Holds
<1>13. ASSUME NEW d \in Callers, d # c PROVE (Timely(d) /\ Holds(d) /\ Foreseen(d))'
  <2>1. /\ pc'[d] = pc[d] /\ call'[d] = Reached(c, to)[d]
        /\ call[d] \in Call /\ call[d].agent \in Agents
    BY <1>1, <1>3, <1>4, <1>13 DEF TypeOK, Call
  <2>2. /\ call'[d].agent = call[d].agent /\ call'[d].at = call[d].at
        /\ call'[d].row = call[d].row /\ call'[d].was_blocked = call[d].was_blocked
        /\ call'[d].reach = IF call[d].agent # a THEN call[d].reach
                            ELSE Greater(call[d].reach, to.rung)
    BY <2>1 DEF Reached, Call
  <2>3. Timely(d)'
    BY <1>1, <2>1, <2>2 DEF RepInv, Timely
  <2>4. Holds(d)'
    <3> SUFFICES ASSUME pc[d] = "decide"
                 PROVE  rowLock'[call[d].agent] = d /\ call[d].row = Found(d)'
      BY <2>1, <2>2 DEF Holds
    <3>1. call[d].agent # a /\ rowLock[call[d].agent] = d /\ call[d].row = Found(d)
      BY <1>12, <1>13 DEF RepInv, Holds
    <3>2. Found(d)' = Found(d)
      BY <1>1, <1>3, <2>1, <2>2, <3>1 DEF Found, TypeOK
    <3> QED
      BY <1>1, <1>13, <2>1, <3>1, <3>2 DEF Unlocked
  <2>5. Foreseen(d)'
    <3>1. /\ call[d].reach \in Int /\ call[d].row.rung \in Int
          /\ rows[call[d].agent].rung \in Int /\ to.rung \in Int
      BY <1>2, <1>3, <2>1 DEF TypeOK, Call, Row, Rungs
    <3>2. call[d].reach <= call'[d].reach
      BY <2>2, <3>1 DEF Greater
    <3>3. call[d].agent = a => to.rung <= call'[d].reach
      BY <2>2, <3>1 DEF Greater
    <3>4. Foreseen(d)
      BY DEF RepInv
    <3>5. CASE call[d].agent = a
      <4>1. /\ rows'[a].rung = to.rung
            /\ rows'[a].blocked = to.blocked /\ (rows[a].blocked => to.blocked)
        BY <1>1, <1>2, <1>3, <1>5 DEF TypeOK, Moves
      <4>2. call'[d].reach \in Int
        BY <2>2, <3>1 DEF Greater
      <4> QED
        BY <2>1, <2>2, <3>1, <3>2, <3>3, <3>4, <3>5, <4>1, <4>2 DEF Foreseen
    <3>6. CASE call[d].agent # a
      <4>1. rows'[call[d].agent] = rows[call[d].agent] /\ call'[d].reach = call[d].reach
        BY <1>1, <1>3, <2>1, <2>2, <3>6 DEF TypeOK
      <4> QED
        BY <2>1, <2>2, <3>4, <4>1 DEF Foreseen
    <3> QED
      BY <3>5, <3>6
  <2> QED
    BY <2>3, <2>4, <2>5
<1>14. (Timely(c) /\ Holds(c) /\ Foreseen(c))'
  <2>1. pc'[c] \in {"gate", "idle"}
    BY <1>1, <1>3 DEF TypeOK
  <2>2. CASE pc'[c] = "idle"
    BY <2>2 DEF Timely, Holds, Foreseen
  <2>3. CASE pc'[c] = "gate"
    <3>1. call' = [Reached(c, to) EXCEPT ![c].row = to]
      BY <1>1, <1>3, <2>3 DEF TypeOK
    <3>2. call[c] \in Call /\ Foreseen(c)
      BY <1>3 DEF TypeOK, RepInv
    <3>3. /\ Reached(c, to)[c].was_blocked = call[c].was_blocked
          /\ Reached(c, to)[c].reach = Greater(call[c].reach, to.rung)
      BY <3>2 DEF Reached, Call
    <3>4. /\ call'[c].row = to /\ call'[c].reach = Greater(call[c].reach, to.rung)
          /\ call'[c].was_blocked = call[c].was_blocked
      BY <1>4, <3>1, <3>3 DEF Call
    <3>5. to.rung <= Greater(call[c].reach, to.rung)
      BY <1>4, <3>2 DEF Greater, Call, Rungs
    <3>6. call[c].was_blocked => to.blocked
      BY <1>1, <1>2, <3>2 DEF Foreseen, Moves
    <3> QED
      BY <2>3, <3>4, <3>5, <3>6 DEF Timely, Holds, Foreseen
  <2> QED
    BY <2>1, <2>2, <2>3
<1> QED
  BY <1>8, <1>9, <1>10, <1>11, <1>13, <1>14 DEF RepInv

\* A call that begins, or ends having written nothing, or is judged by the gate,
\* leaves every other call and every row as it was.
LEMMA OthersKeep ==
  ASSUME RepInv, NEW d \in Callers,
         clock' = clock, rows' = rows, known' = known,
         pc'[d] = pc[d], call'[d] = call[d],
         pc[d] = "decide" => rowLock'[call[d].agent] = rowLock[call[d].agent]
  PROVE  (Timely(d) /\ Holds(d) /\ Foreseen(d))'
<1>1. Timely(d) /\ Holds(d) /\ Foreseen(d)
  BY DEF RepInv
<1>2. Found(d)' = Found(d)
  BY DEF Found
<1> QED
  BY <1>1, <1>2 DEF Timely, Holds, Foreseen

\* A call that begins: its instant is the clock's.
LEMMA BeginKeeps ==
  ASSUME RepInv, NEW c \in Callers, NEW op \in Ops, NEW a \in Agents, NEW n \in Amounts,
         Begin(c, op, a, n)
  PROVE  RepInv'
<1> DEFINE new == [op |-> op, agent |-> a, amount |-> n, at |-> clock,
                   row |-> Newcomer(clock), was_blocked |-> rows[a].blocked,
                   reach |-> rows[a].rung]
<1>0. TypeOK /\ clock \in Nat
  BY DEF RepInv, TypeOK
<1>1. new \in Call
  BY <1>0, NewcomerIsSound DEF Call, TypeOK, Row
<1>2. /\ pc' = [pc EXCEPT ![c] = "wait"] /\ call' = [call EXCEPT ![c] = new]
      /\ UNCHANGED <<clock, table, trail, arrived>> /\ calls' = calls + 1
  BY DEF Begin
<1>3. /\ pc'[c] = "wait" /\ call'[c] = new
      /\ \A d \in Callers : d # c => pc'[d] = pc[d] /\ call'[d] = call[d]
  BY <1>0, <1>2 DEF TypeOK
<1>4. TypeOK'
  <2> HIDE DEF new
  <2> QED
    BY <1>0, <1>1, <1>2 DEF TypeOK, table, trail
<1>5. \A b \in Agents : (Sound(rows[b]) /\ Dated(b))'
  BY <1>2 DEF RepInv, Dated, Sound, table
<1>6. Reconciled'
  BY <1>2 DEF RepInv, Reconciled, table, trail
<1>7. \A d \in Callers : d # c => (Timely(d) /\ Holds(d) /\ Foreseen(d))'
  BY <1>2, <1>3, OthersKeep DEF table
<1>8. (Timely(c) /\ Holds(c) /\ Foreseen(c))'
  <2>1. /\ new.at = clock /\ new.agent = a /\ new.reach = rows[a].rung
        /\ new.was_blocked = rows[a].blocked /\ rows[a].rung \in Int
    BY <1>0 DEF TypeOK, Row, Rungs
  <2> HIDE DEF new
  <2> QED
    BY <1>0, <1>2, <1>3, <2>1, PolicyNumbers DEF Timely, Holds, Foreseen, table
<1> QED
  BY <1>4, <1>5, <1>6, <1>7, <1>8 DEF RepInv

\* A call that takes its agent's row: nobody else has it.
LEMMA LockKeeps ==
  ASSUME RepInv, NEW c \in Callers, Lock(c) PROVE RepInv'
<1> DEFINE a == call[c].agent
<1>0. TypeOK /\ call[c] \in Call /\ a \in Agents
  BY DEF RepInv, TypeOK, Call
<1>1. /\ pc[c] = "wait" /\ rowLock[a] = Nobody
      /\ rowLock' = [rowLock EXCEPT ![a] = c]
      /\ call' = [call EXCEPT ![c].row = Found(c)]
      /\ pc' = [pc EXCEPT ![c] = "decide"]
      /\ UNCHANGED <<clock, known, rows, trail, arrived, calls>>
  BY DEF Lock
<1>2. Found(c) \in Row
  BY <1>0, NewcomerIsSound DEF Found, TypeOK, Call
<1>3. /\ pc'[c] = "decide" /\ call'[c] = [call[c] EXCEPT !.row = Found(c)]
      /\ \A d \in Callers : d # c => pc'[d] = pc[d] /\ call'[d] = call[d]
  BY <1>0, <1>1 DEF TypeOK
<1>4. /\ call'[c] \in Call /\ call'[c].agent = a /\ call'[c].row = Found(c)
      /\ call'[c].at = call[c].at /\ call'[c].reach = call[c].reach
      /\ call'[c].was_blocked = call[c].was_blocked
  BY <1>0, <1>2, <1>3 DEF Call
<1>5. TypeOK'
  BY <1>0, <1>1, <1>4 DEF TypeOK, trail
<1>6. \A b \in Agents : (Sound(rows[b]) /\ Dated(b))'
  BY <1>1 DEF RepInv, Dated, Sound
<1>7. Reconciled'
  BY <1>1 DEF RepInv, Reconciled, trail
<1>8. \A d \in Callers : d # c => (Timely(d) /\ Holds(d) /\ Foreseen(d))'
  <2> SUFFICES ASSUME NEW d \in Callers, d # c
               PROVE  (Timely(d) /\ Holds(d) /\ Foreseen(d))'
    OBVIOUS
  <2>1. pc[d] = "decide" => rowLock[call[d].agent] = d
    BY DEF RepInv, Holds
  <2>2. pc[d] = "decide" => call[d].agent # a
    BY <1>1, <2>1, ReputationAssumption DEF ReputationAssumption
  <2>3. pc[d] = "decide" => rowLock'[call[d].agent] = rowLock[call[d].agent]
    BY <1>0, <1>1, <2>2 DEF TypeOK, Call
  <2> QED
    BY <1>1, <1>3, <2>3, OthersKeep
<1>9. (Timely(c) /\ Holds(c) /\ Foreseen(c))'
  <2>1. Found(c)' = Found(c)
    BY <1>1, <1>4 DEF Found
  <2>2. rowLock'[a] = c
    BY <1>0, <1>1 DEF TypeOK
  <2>3. Timely(c) /\ Foreseen(c)
    BY DEF RepInv
  <2> QED
    BY <1>1, <1>3, <1>4, <2>1, <2>2, <2>3 DEF Timely, Holds, Foreseen
<1> QED
  BY <1>5, <1>6, <1>7, <1>8, <1>9 DEF RepInv

\* A call that ends without a commit, given up or judged by the gate.
LEMMA ReturnKeeps ==
  ASSUME RepInv, NEW c \in Callers, Abandon(c) \/ Gate(c) PROVE RepInv'
<1>0. TypeOK
  BY DEF RepInv
<1>1. /\ pc' = [pc EXCEPT ![c] = "idle"] /\ call' = [call EXCEPT ![c] = NoCall]
      /\ rowLock' = Unlocked(c) \/ rowLock' = rowLock
      /\ passed' \in [Agents -> Nat]
      /\ UNCHANGED <<clock, known, rows, recorded, arrived, calls>>
  <2>1. CASE Abandon(c)
    BY <1>0, <2>1 DEF Abandon, Return, trail, TypeOK
  <2>2. CASE Gate(c)
    <3>1. [passed EXCEPT ![call[c].agent] = passed[call[c].agent] + 1] \in [Agents -> Nat]
      BY <1>0 DEF TypeOK, Call
    <3>2. passed \in [Agents -> Nat]
      BY <1>0 DEF TypeOK
    <3>3. /\ pc' = [pc EXCEPT ![c] = "idle"] /\ call' = [call EXCEPT ![c] = NoCall]
          /\ passed' = IF Admissible(call[c].row, call[c].amount)
                       THEN [passed EXCEPT ![call[c].agent] = passed[call[c].agent] + 1]
                       ELSE passed
          /\ rowLock' = rowLock
          /\ UNCHANGED <<clock, known, rows, recorded, arrived, calls>>
      BY <2>2 DEF Gate, Return, table
    <3> QED
      BY <3>1, <3>2, <3>3
  <2> QED
    BY <2>1, <2>2
<1>2. rowLock' \in [Agents -> Callers \union {Nobody}]
  BY <1>0, <1>1 DEF Unlocked, TypeOK
<1>3. TypeOK'
  BY <1>0, <1>1, <1>2, NoCallIsACall DEF TypeOK
<1>4. \A b \in Agents : (Sound(rows[b]) /\ Dated(b))'
  BY <1>1 DEF RepInv, Dated, Sound
<1>5. Reconciled'
  BY <1>1 DEF RepInv, Reconciled
<1>6. \A d \in Callers : d # c => (Timely(d) /\ Holds(d) /\ Foreseen(d))'
  <2> SUFFICES ASSUME NEW d \in Callers, d # c
               PROVE  (Timely(d) /\ Holds(d) /\ Foreseen(d))'
    OBVIOUS
  <2>1. pc[d] = "decide" => rowLock[call[d].agent] = d /\ call[d].agent \in Agents
    BY <1>0 DEF RepInv, Holds, TypeOK, Call
  <2>2. pc[d] = "decide" => rowLock'[call[d].agent] = rowLock[call[d].agent]
    BY <1>1, <2>1 DEF Unlocked
  <2>3. pc'[d] = pc[d] /\ call'[d] = call[d]
    BY <1>0, <1>1 DEF TypeOK
  <2> QED
    BY <1>1, <2>2, <2>3, OthersKeep
<1>7. (Timely(c) /\ Holds(c) /\ Foreseen(c))'
  <2>1. pc'[c] = "idle"
    BY <1>0, <1>1 DEF TypeOK
  <2> QED
    BY <2>1 DEF Timely, Holds, Foreseen
<1> QED
  BY <1>3, <1>4, <1>5, <1>6, <1>7 DEF RepInv

\* Time passes, and no call waits too long.
LEMMA TickKeeps == RepInv /\ Tick => RepInv'
<1> SUFFICES ASSUME RepInv, Tick PROVE RepInv'
  OBVIOUS
<1>0. TypeOK /\ clock \in Nat
  BY DEF RepInv, TypeOK
<1>1. /\ clock' = clock + 1
      /\ \A c \in Callers :
           pc[c] \in {"wait", "decide"} => clock < call[c].at + MaxStall
      /\ UNCHANGED <<pc, call, known, rows, rowLock, recorded, passed, arrived, calls>>
  BY DEF Tick, caller, table, trail
<1>2. TypeOK'
  BY <1>0, <1>1 DEF TypeOK
<1>3. \A b \in Agents : (Sound(rows[b]) /\ Dated(b))'
  BY <1>0, <1>1 DEF RepInv, Dated, Sound, TypeOK
<1>4. Reconciled'
  BY <1>1 DEF RepInv, Reconciled
<1>5. ASSUME NEW c \in Callers PROVE (Timely(c) /\ Holds(c) /\ Foreseen(c))'
  <2>1. Timely(c) /\ Holds(c) /\ Foreseen(c) /\ call[c].at \in Nat
    BY <1>0 DEF RepInv, TypeOK, Call
  <2>2. Found(c)' = Found(c)
    BY <1>1 DEF Found
  <2>3. Timely(c)'
    BY <1>0, <1>1, <2>1, PolicyNumbers DEF Timely
  <2>4. Holds(c)'
    BY <1>1, <2>1, <2>2 DEF Holds
  <2>5. Foreseen(c)'
    BY <1>1, <2>1 DEF Foreseen
  <2> QED
    BY <2>3, <2>4, <2>5
<1> QED
  BY <1>2, <1>3, <1>4, <1>5 DEF RepInv

\* Every step keeps the invariant.
LEMMA NextRep == RepInv /\ [Next]_vars => RepInv'
<1> SUFFICES ASSUME RepInv, [Next]_vars PROVE RepInv'
  OBVIOUS
<1>1. ASSUME NEW c \in Callers,
             \/ \E op \in Ops, a \in Agents, n \in Amounts : Begin(c, op, a, n)
             \/ Lock(c) \/ Finish(c) \/ Abandon(c) \/ Gate(c)
      PROVE  RepInv'
  BY <1>1, BeginKeeps, LockKeeps, FinishKeeps, ReturnKeeps
<1>2. CASE UNCHANGED vars
  BY <1>2 DEF vars, caller, table, trail, RepInv, TypeOK, Sound, Dated, Timely, Holds,
              Found, Foreseen, Reconciled
<1> QED
  BY <1>1, <1>2, TickKeeps DEF Next
-----------------------------------------------------------------------------
\* The inductive invariant of the ladder and its gate.
THEOREM RepInductive == Spec => []RepInv
BY InitRep, NextRep, PTL DEF Spec

\* Every variable of Reputation keeps its type.
THEOREM RepTyped == Spec => []TypeOK
<1>1. RepInv => TypeOK
  BY DEF RepInv
<1> QED
  BY <1>1, RepInductive, PTL

\* StandingIsSound: no ladder, policy or interleaving leaves an agent on a rung its score
\* does not reach, and the signal that reaches the limit blocks.
THEOREM StandingsStaySound == Spec => []StandingIsSound
<1>1. RepInv => StandingIsSound
  BY DEF RepInv, StandingIsSound, Sound
<1> QED
  BY <1>1, RepInductive, PTL

\* StandingIsRecorded: whatever is rounded on the way to the table and to the trail, the
\* trail alone gives an agent's rung and block, its score as near as scores are told, and
\* increments that leave no change of it out (store.py, _change_score, _q).
THEOREM StandingsAreRecorded == Spec => []StandingIsRecorded
<1>1. RepInv => StandingIsRecorded
  BY DEF RepInv, Reconciled, Tells, StandingIsRecorded
<1> QED
  BY <1>1, RepInductive, PTL

\* ClimbsAreServed: one rung at a time, its dwell served but for a stall.
THEOREM NoClimbIsUnserved == Spec => ClimbsAreServed
<1> DEFINE Served == \A a \in Agents : rows'[a].rung > rows[a].rung =>
                       /\ rows'[a].rung = rows[a].rung + 1
                       /\ clock - arrived[a] >= Dwell[rows[a].rung] - MaxStall
<1>1. RepInv /\ [Next]_vars => [Served]_vars
  <2> SUFFICES ASSUME RepInv, Next, NEW a \in Agents, rows'[a].rung > rows[a].rung
               PROVE  /\ rows'[a].rung = rows[a].rung + 1
                      /\ clock - arrived[a] >= Dwell[rows[a].rung] - MaxStall
    OBVIOUS
  <2>0. rows[a] \in Row /\ rows[a].rung \in Rungs /\ rows[a].rung \in Int
    BY DEF RepInv, TypeOK, Row, Rungs
  <2>1. rows' # rows
    BY <2>0
  <2>2. PICK c \in Callers : Finish(c)
    BY <2>1 DEF Next, Tick, Begin, Lock, Abandon, Gate, table
  <2> DEFINE from == call[c].row
             at == call[c].at
             to == Outcome(call[c].op, from, at)
  <2>3. PICK row \in Stored(to) :
          pc[c] = "decide" /\ rows' = [rows EXCEPT ![call[c].agent] = row]
    BY <2>2 DEF Finish
  <2>4. /\ call[c].agent \in Agents /\ from \in Row /\ to \in Row /\ Sound(to)
        /\ from.rung = rows[call[c].agent].rung /\ Moves(from, to, at)
        /\ arrived[call[c].agent] <= from.rung_since + MaxStall
        /\ at \in Nat /\ at <= clock
    BY <2>3, Deciding
  <2> HIDE DEF to
  <2>5. call[c].agent = a
    BY <2>0, <2>3, <2>4 DEF RepInv, TypeOK
  <2>6. rows'[a].rung = to.rung
    BY <2>3, <2>4, <2>5, StoredIsSound DEF RepInv, TypeOK
  <2>7. /\ to.rung = from.rung + 1 /\ at - from.rung_since >= Dwell[from.rung]
        /\ from.rung = rows[a].rung
    BY <2>4, <2>5, <2>6 DEF Moves
  <2>8. /\ Dwell[rows[a].rung] \in Nat /\ arrived[a] \in Nat /\ clock \in Nat
        /\ from.rung_since \in Nat /\ MaxStall \in Nat
    BY <2>0, <2>4, LadderNumbers, PolicyNumbers DEF RepInv, TypeOK, Row
  <2>9. clock - arrived[a] >= Dwell[rows[a].rung] - MaxStall
    BY <2>4, <2>5, <2>7, <2>8
  <2> QED
    BY <2>6, <2>7, <2>9
<1> QED
  BY <1>1, RepInductive, PTL DEF Spec, ClimbsAreServed

\* GateIsNotBehind, of a ladder whose ceilings do not fall as it rises.
THEOREM GateKeepsUp ==
  ASSUME \A q, r \in Rungs : q <= r => Ceiling[q] <= Ceiling[r]
  PROVE  Spec => GateIsNotBehind
<1> DEFINE Kept == \A c \in Callers :
                     (pc[c] = "gate" /\ pc'[c] = "idle" /\ passed' # passed) =>
                       ~call[c].was_blocked /\ call[c].amount <= Ceiling[call[c].reach]
<1>1. RepInv /\ [Next]_vars => [Kept]_vars
  <2> SUFFICES ASSUME RepInv, Next, NEW c \in Callers,
                      pc[c] = "gate", pc'[c] = "idle", passed' # passed
               PROVE  ~call[c].was_blocked /\ call[c].amount <= Ceiling[call[c].reach]
    OBVIOUS
  <2>1. PICK d \in Callers : Gate(d)
    BY DEF Next, Tick, Begin, Lock, Finish, Abandon, trail
  <2>2. d = c
    BY <2>1 DEF Gate, Return, RepInv, TypeOK
  <2>3. Admissible(call[c].row, call[c].amount)
    BY <2>1, <2>2 DEF Gate
  <2>4. call[c] \in Call /\ Foreseen(c)
    BY DEF RepInv, TypeOK
  <2>5. /\ call[c].row.rung \in Rungs /\ call[c].reach \in Rungs
        /\ call[c].row.rung <= call[c].reach
        /\ call[c].was_blocked => call[c].row.blocked
    BY <2>4 DEF Foreseen, Call, Row
  <2>6. Ceiling[call[c].row.rung] <= Ceiling[call[c].reach]
    BY <2>5
  <2>7. /\ call[c].amount \in Nat
        /\ Ceiling[call[c].row.rung] \in Nat /\ Ceiling[call[c].reach] \in Nat
    BY <2>4, <2>5, LadderNumbers, ReputationAssumption DEF Call, ReputationAssumption
  <2> QED
    BY <2>3, <2>5, <2>6, <2>7 DEF Admissible
<1> QED
  BY <1>1, RepInductive, PTL DEF Spec, GateIsNotBehind
=============================================================================
