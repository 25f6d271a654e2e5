--------------------------- MODULE FreshnessProofs ---------------------------
(***************************************************************************)
(* Freshness, for any callers, presentations, window and skew.             *)
(*                                                                         *)
(* ReplayOnlyAcrossASweep rests on what the table remembers of what was    *)
(* honoured (Remembered), on what an unfinished call has been told by it   *)
(* (Told), and on a sweep never forgetting by an instant later than the    *)
(* last one it is charged with.                                            *)
(***************************************************************************)
EXTENDS Freshness, TLAPS

\* A presentation that was honoured still has its row, or a sweep has forgotten it.
Remembered(p) ==
  passed[p] > 0 => RowOf(p) \in nonces \/ IssuedAt[p] < StaleBefore(forgotten)

\* A call past its judgement found its presentation fresh at the instant it read; one
\* told its nonce is new is the only one told so, and the table still has no such
\* row; one told it is a replay was told so of a nonce that is spent.
Told(c) ==
  /\ pc[c] # "idle" => Covers(IssuedAt[presented[c]], now[c])
  /\ pc[c] = "record" => ~Seen(Key[presented[c]])
  /\ pc[c] = "refuse" => HonouredKey(Key[presented[c]])

Alone(b, c) ==
  pc[b] = "record" /\ pc[c] = "record" => Key[presented[b]] # Key[presented[c]]

FreshInv ==
  /\ TypeOK
  /\ \A p \in Presentations : Remembered(p)
  /\ \A c \in Callers : Told(c)
  /\ \A b, c \in Callers : b # c => Alone(b, c)
  /\ SpentMeansHonoured

USE DEF Steps, GoTo
-----------------------------------------------------------------------------
\* Before the first presentation nothing is honoured and nothing is spent.
LEMMA InitFresh == Init => FreshInv
<1> SUFFICES ASSUME Init PROVE FreshInv
  OBVIOUS
<1>1. (CHOOSE p \in Presentations : TRUE) \in Presentations
  BY FreshnessAssumption DEF FreshnessAssumption
<1>2. TypeOK
  BY <1>1 DEF Init, TypeOK, Row
<1> QED
  BY <1>2 DEF Init, FreshInv, Remembered, Told, Alone, SpentMeansHonoured

\* Every step of check 4 and of the sweep keeps every variable's type.
LEMMA NextTyped == TypeOK /\ [Next]_vars => TypeOK'
<1> SUFFICES ASSUME TypeOK, [Next]_vars PROVE TypeOK'
  OBVIOUS
<1> USE FreshnessAssumption DEF FreshnessAssumption, TypeOK, trail, sweeper, caller
<1>1. ASSUME NEW c \in Callers, NEW p \in Presentations, Evaluate(c, p) PROVE TypeOK'
  BY <1>1 DEF Evaluate
<1>2. ASSUME NEW c \in Callers, Claim(c) PROVE TypeOK'
  BY <1>2 DEF Claim
<1>3. ASSUME NEW c \in Callers, Record(c) PROVE TypeOK'
  <2>1. RowOf(presented[c]) \in Row
    BY DEF RowOf, Row
  <2> QED
    BY <1>3, <2>1 DEF Record
<1>4. ASSUME NEW c \in Callers, Refuse(c) PROVE TypeOK'
  BY <1>4 DEF Refuse
<1>5. ASSUME NEW c \in Callers, Fault(c) PROVE TypeOK'
  BY <1>5 DEF Fault
<1>6. CASE Tick
  BY <1>6 DEF Tick
<1>7. CASE BeginSweep
  BY <1>7 DEF BeginSweep
<1>8. CASE Forget
  BY <1>8 DEF Forget, Later
<1>9. CASE UNCHANGED vars
  BY <1>9 DEF vars
<1> QED
  BY <1>1, <1>2, <1>3, <1>4, <1>5, <1>6, <1>7, <1>8, <1>9 DEF Next

\* Every step keeps what the table remembers and what unfinished calls were told.
LEMMA NextFresh == FreshInv /\ [Next]_vars => FreshInv'
<1> SUFFICES ASSUME FreshInv, [Next]_vars PROVE FreshInv'
  OBVIOUS
<1>0. /\ TypeOK /\ SpentMeansHonoured
      /\ \A p \in Presentations : Remembered(p)
      /\ \A c \in Callers : Told(c)
      /\ \A b, c \in Callers : b # c => Alone(b, c)
  BY DEF FreshInv
<1>t. TypeOK'
  BY <1>0, NextTyped
<1>1. ASSUME NEW c \in Callers, NEW p \in Presentations, Evaluate(c, p)
      PROVE  FreshInv'
  <2>1. \A b \in Callers : Told(b)'
    <3> SUFFICES ASSUME NEW b \in Callers PROVE Told(b)'
      OBVIOUS
    <3>1. CASE b = c
      BY <1>0, <1>1, <3>1 DEF Evaluate, Told, TypeOK
    <3>2. CASE b # c
      BY <1>0, <1>1, <3>2 DEF Evaluate, Told, Seen, HonouredKey, TypeOK, trail
    <3> QED
      BY <3>1, <3>2
  <2>2. \A a, b \in Callers : a # b => Alone(a, b)'
    BY <1>0, <1>1 DEF Evaluate, Alone, TypeOK
  <2> QED
    BY <1>0, <1>1, <1>t, <2>1, <2>2
    DEF FreshInv, Evaluate, Remembered, SpentMeansHonoured, HonouredKey, trail, sweeper
<1>2. ASSUME NEW c \in Callers, Claim(c) PROVE FreshInv'
  <2>1. \A b \in Callers : Told(b)'
    <3> SUFFICES ASSUME NEW b \in Callers PROVE Told(b)'
      OBVIOUS
    <3>1. CASE b = c
      BY <1>0, <1>2, <3>1
      DEF Claim, Told, Seen, HonouredKey, SpentMeansHonoured, TypeOK, trail
    <3>2. CASE b # c
      BY <1>0, <1>2, <3>2 DEF Claim, Told, Seen, HonouredKey, TypeOK, trail
    <3> QED
      BY <3>1, <3>2
  <2>2. \A a, b \in Callers : a # b => Alone(a, b)'
    BY <1>0, <1>2 DEF Claim, Claiming, Alone, TypeOK
  <2> QED
    BY <1>0, <1>2, <1>t, <2>1, <2>2
    DEF FreshInv, Claim, Remembered, SpentMeansHonoured, HonouredKey, trail, sweeper
<1>3. ASSUME NEW c \in Callers, Record(c) PROVE FreshInv'
  <2>p. PICK p \in Presentations : p = presented[c]
    BY <1>0 DEF TypeOK
  <2>0. /\ pc[c] = "record" /\ pc' = [pc EXCEPT ![c] = "idle"]
        /\ nonces' = nonces \union {RowOf(p)}
        /\ passed' = [passed EXCEPT ![p] = @ + 1]
        /\ UNCHANGED <<presented, now, replayed, forgotten>>
    BY <1>3, <2>p DEF Record, sweeper
  <2>1. HonouredKey(Key[p])'
    BY <1>0, <2>0 DEF HonouredKey, TypeOK
  <2>2. ASSUME NEW key, HonouredKey(key) PROVE HonouredKey(key)'
    BY <1>0, <2>0, <2>2 DEF HonouredKey, TypeOK
  <2>3. SpentMeansHonoured'
    BY <1>0, <2>0, <2>1, <2>2 DEF SpentMeansHonoured, RowOf
  <2>4. \A q \in Presentations : Remembered(q)'
    BY <1>0, <2>0 DEF Remembered, TypeOK
  <2>5. \A b \in Callers : Told(b)'
    <3> SUFFICES ASSUME NEW b \in Callers PROVE Told(b)'
      OBVIOUS
    <3>1. CASE b = c
      BY <1>0, <2>0, <3>1 DEF Told, TypeOK
    <3>2. CASE b # c
      <4>1. pc'[b] = pc[b] /\ (pc[b] = "record" => Key[presented[b]] # Key[p])
        BY <1>0, <2>0, <2>p, <3>2 DEF Alone, TypeOK
      <4>2. Told(b)
        BY <1>0
      <4>3. pc[b] = "record" => ~Seen(Key[presented[b]])'
        BY <2>0, <4>1, <4>2 DEF Told, Seen, RowOf
      <4> QED
        BY <2>0, <2>2, <4>1, <4>2, <4>3 DEF Told
    <3> QED
      BY <3>1, <3>2
  <2>6. \A a, b \in Callers : a # b => Alone(a, b)'
    BY <1>0, <2>0 DEF Alone, TypeOK
  <2> QED
    BY <1>t, <2>3, <2>4, <2>5, <2>6 DEF FreshInv
<1>4. ASSUME NEW c \in Callers, Refuse(c) PROVE FreshInv'
  <2>1. SpentMeansHonoured'
    BY <1>0, <1>4 DEF Refuse, SpentMeansHonoured, HonouredKey, Told, TypeOK
  <2>2. \A b \in Callers : Told(b)'
    BY <1>0, <1>4 DEF Refuse, Told, Seen, HonouredKey, TypeOK
  <2>3. \A a, b \in Callers : a # b => Alone(a, b)'
    BY <1>0, <1>4 DEF Refuse, Alone, TypeOK
  <2> QED
    BY <1>0, <1>4, <1>t, <2>1, <2>2, <2>3 DEF FreshInv, Refuse, Remembered, sweeper
<1>5. ASSUME NEW c \in Callers, Fault(c) PROVE FreshInv'
  <2>1. \A b \in Callers : Told(b)'
    BY <1>0, <1>5 DEF Fault, Told, Seen, HonouredKey, TypeOK, trail
  <2>2. \A a, b \in Callers : a # b => Alone(a, b)'
    BY <1>0, <1>5 DEF Fault, Alone, TypeOK
  <2> QED
    BY <1>0, <1>5, <1>t, <2>1, <2>2
    DEF FreshInv, Fault, Remembered, SpentMeansHonoured, HonouredKey, trail, sweeper
<1>6. CASE Forget
  <2>0. /\ nonces' = {r \in nonces : r.presented_at >= StaleBefore(sweep)}
        /\ sweep \in Nat /\ forgotten' = Later(forgotten, sweep)
        /\ UNCHANGED <<caller, trail>>
    BY <1>0, <1>6 DEF Forget, TypeOK
  <2>1. \A p \in Presentations : Remembered(p)'
    <3> SUFFICES ASSUME NEW p \in Presentations, passed[p] > 0
                 PROVE  RowOf(p) \in nonces' \/ IssuedAt[p] < StaleBefore(forgotten')
      BY <2>0 DEF Remembered, trail
    <3>1. /\ IssuedAt[p] \in Nat /\ Window \in Nat /\ Skew \in Nat
          /\ forgotten \in Int /\ forgotten' \in Int
          /\ forgotten <= forgotten' /\ sweep <= forgotten'
      BY <1>0, <2>0, FreshnessAssumption DEF FreshnessAssumption, TypeOK, Later
    <3>2. CASE IssuedAt[p] < StaleBefore(forgotten)
      BY <3>1, <3>2 DEF StaleBefore
    <3>3. CASE RowOf(p) \in nonces
      BY <2>0, <3>1, <3>3 DEF StaleBefore, RowOf
    <3> QED
      BY <1>0, <3>2, <3>3 DEF Remembered
  <2>2. \A c \in Callers : Told(c)'
    BY <1>0, <2>0 DEF Told, Seen, HonouredKey, caller, trail
  <2> QED
    BY <1>0, <1>t, <2>0, <2>1, <2>2
    DEF FreshInv, SpentMeansHonoured, HonouredKey, Alone, caller, trail
<1>7. CASE UNCHANGED <<caller, nonces, trail, forgotten>>
  BY <1>0, <1>7, <1>t DEF FreshInv, Remembered, Told, Seen, Alone, SpentMeansHonoured,
                     HonouredKey, caller, trail
<1>8. CASE Tick
  BY <1>7, <1>8 DEF Tick, sweeper
<1>9. CASE BeginSweep
  BY <1>7, <1>9 DEF BeginSweep
<1>10. CASE UNCHANGED vars
  BY <1>7, <1>10 DEF vars, sweeper
<1> QED
  BY <1>1, <1>2, <1>3, <1>4, <1>5, <1>6, <1>8, <1>9, <1>10 DEF Next

\* The inductive invariant of check 4 and its nonce store, in every reachable state.
THEOREM FreshInductive == Spec => []FreshInv
BY InitFresh, NextFresh, PTL DEF Spec

\* Type correctness of check 4's state, for every instance.
THEOREM FreshTyped == Spec => []TypeOK
<1>1. FreshInv => TypeOK
  BY DEF FreshInv
<1> QED
  BY <1>1, FreshInductive, PTL

\* No nonce is spent, and no replay refused, without a pass that explains it
\* (FreshnessCheck._spend writes both on one transaction).
THEOREM SpentAlwaysMeansHonoured == Spec => []SpentMeansHonoured
<1>1. FreshInv => SpentMeansHonoured
  BY DEF FreshInv
<1> QED
  BY <1>1, FreshInductive, PTL

\* Whatever is raced, retried or forgotten, a presentation is honoured again only by
\* a check that read the clock before a sweep did (policy.stale_before serves both).
THEOREM ReplaysNeedASweep == Spec => ReplayOnlyAcrossASweep
<1> DEFINE Excused == \A c \in Callers, p \in Presentations :
                        HonouredAgain(c, p) => now[c] < forgotten
<1>1. FreshInv /\ [Next]_vars => [Excused]_vars
  <2> SUFFICES ASSUME FreshInv, NEW c \in Callers, NEW p \in Presentations,
                      HonouredAgain(c, p)
               PROVE  now[c] < forgotten
    OBVIOUS
  <2>1. passed[p] > 0 /\ pc[c] = "record" /\ presented[c] = p
    BY DEF HonouredAgain
  <2>2. RowOf(p) \notin nonces
    BY <2>1 DEF FreshInv, Told, Seen, RowOf
  <2>3. IssuedAt[p] < StaleBefore(forgotten) /\ StaleBefore(now[c]) <= IssuedAt[p]
    BY <2>1, <2>2 DEF FreshInv, Remembered, Told, Covers
  <2>4. /\ now[c] \in Int /\ forgotten \in Int /\ IssuedAt[p] \in Int
        /\ Window \in Int /\ Skew \in Int
    BY FreshnessAssumption DEF FreshInv, TypeOK, FreshnessAssumption
  <2> QED
    BY <2>3, <2>4 DEF StaleBefore
<1> QED
  BY <1>1, FreshInductive, PTL DEF Spec, ReplayOnlyAcrossASweep
=============================================================================
