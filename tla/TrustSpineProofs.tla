-------------------------- MODULE TrustSpineProofs --------------------------
(***************************************************************************)
(* TrustSpine, for any callers, requests, presentations, window and skew,  *)
(* and History, for any number of calls at once and whatever check 5       *)
(* answers.                                                                *)
(*                                                                         *)
(* The spine is shown to use the nonce store as Freshness says, so that    *)
(* what FreshnessProofs shows of the store holds here; the rest is what a  *)
(* call's entries say has been proven of its request (Proven), and that    *)
(* each caller adds to the entries of a call of its own (At).              *)
(*                                                                         *)
(* The trail is tied to those entries by three facts: a line is of a call  *)
(* its agent made and says of check 3 what that call's entries say         *)
(* (TrueOf), a call is in the trail once it has recorded anything (Heard), *)
(* and the first of its lines, and no other, is check 1's (OpensByCheck1). *)
(* The last is what read_history goes by: where a call's lines are         *)
(* together, what is between two openings is one call's.                   *)
(***************************************************************************)
EXTENDS History, SequenceTheorems, NaturalsInduction, WellFoundedInduction, TLAPS

Fresh == INSTANCE FreshnessProofs

\* A caller inside receive has a call of its own, not yet passed, all of whose checks
\* before the one it is at have passed; and what it has found is true.
At(c) ==
  /\ step[c] = 0 => run[c] = 0 /\ finding[c] = "none" /\ pc[c] = "idle"
  /\ step[c] # 0 =>
       /\ run[c] \in DOMAIN asked \ admitted
       /\ Len(entries[run[c]]) = step[c] - 1
       /\ \A i \in DOMAIN entries[run[c]] : ~entries[run[c]][i].refused
  /\ finding[c] = "passes" => step[c] \in {2, 3} /\ HeldBy[Half(c)] = Agent(run[c])
  /\ finding[c] = "fresh" <=> pc[c] # "idle"
  /\ pc[c] # "idle" => step[c] \in {5, 6} /\ presented[c] = Half(c)

OwnCall(b, c) == step[b] # 0 /\ step[c] # 0 => run[b] # run[c]

\* What an entry that is not a refusal has shown.
Proven(k, i) ==
  /\ i = 1 => asked[k] \in Authentic
  /\ i \in {2, 3} => HeldBy[HalfAt(asked[k], i)] = Agent(k)
  /\ i \in {5, 6} => passed[HalfAt(asked[k], i)] > 0

Entries(k) ==
  /\ k \notin DOMAIN asked => entries[k] = <<>>
  /\ Len(entries[k]) <= 6
  /\ \A i \in DOMAIN entries[k] :
       /\ entries[k][i].check = Order[i]
       /\ entries[k][i].refused => i = Len(entries[k])
       /\ ~entries[k][i].refused => Proven(k, i)
  /\ k \in admitted =>
       /\ Len(entries[k]) = 6
       /\ \A i \in DOMAIN entries[k] : ~entries[k][i].refused

Honoured(k, i) == i \in {5, 6} /\ i \in DOMAIN entries[k] /\ ~entries[k][i].refused

\* Two hops honoured under one nonce had a sweep between them.
SweptBetween(j, i, k, m) ==
  Honoured(j, i) /\ Honoured(k, m) /\ <<j, i>> # <<k, m>> =>
    LET p == HalfAt(asked[j], i)
        q == HalfAt(asked[k], m)
    IN  Key[p] = Key[q] => SweptSince(p) \/ SweptSince(q)

SpineInv ==
  /\ Fresh!FreshInv
  /\ SpineTypeOK
  /\ \A c \in Callers : At(c)
  /\ \A b, c \in Callers : b # c => OwnCall(b, c)
  /\ \A k \in Run : Entries(k)
  /\ \A j, k \in Run, i, m \in {5, 6} : SweptBetween(j, i, k, m)
  /\ RefusalsSpendNothing
-----------------------------------------------------------------------------
(* The store is Freshness's.                                               *)

\* What is assumed of the store's constants is.
LEMMA StoreAssumption == Store!FreshnessAssumption
BY SpineAssumption DEF SpineAssumption, Store!FreshnessAssumption

\* The store as the spine instantiates it and as its proofs do is one store.
LEMMA SameInit == Store!Init => Fresh!Init
BY DEF Store!Init, Fresh!Init

\* So are its steps.
LEMMA SameStep == [Store!Next]_(Store!vars) => [Fresh!Next]_(Fresh!vars)
BY DEF Store!Next, Fresh!Next, Store!vars, Fresh!vars, Store!Tick, Fresh!Tick,
  Store!Evaluate, Fresh!Evaluate, Store!Claim, Fresh!Claim, Store!Record,
  Fresh!Record, Store!Refuse, Fresh!Refuse, Store!Fault, Fresh!Fault,
  Store!BeginSweep, Fresh!BeginSweep, Store!Forget, Fresh!Forget, Store!caller,
  Fresh!caller, Store!trail, Fresh!trail, Store!sweeper, Fresh!sweeper, Store!GoTo,
  Fresh!GoTo, Store!Covers, Fresh!Covers, Store!StaleBefore, Fresh!StaleBefore,
  Store!Seen, Fresh!Seen, Store!Claiming, Fresh!Claiming, Store!RowOf, Fresh!RowOf,
  Store!Later, Fresh!Later

\* A step of the store keeps what its own proofs show of it.
LEMMA StoreStep == Fresh!FreshInv /\ [Store!Next]_(Store!vars) => Fresh!FreshInv'
BY SameStep, Fresh!NextFresh, SpineAssumption DEF SpineAssumption, Fresh!FreshnessAssumption

\* Types in the one are types in the other.
LEMMA StoreTyped == Fresh!FreshInv => Store!TypeOK
BY DEF Fresh!FreshInv, Fresh!TypeOK, Store!TypeOK, Fresh!Steps, Store!Steps, Fresh!Row, Store!Row

\* And after a step.
LEMMA StoreTypedNext == Fresh!FreshInv' => Store!TypeOK'
BY DEF Fresh!FreshInv, Fresh!TypeOK, Store!TypeOK, Fresh!Steps, Store!Steps, Fresh!Row, Store!Row
-----------------------------------------------------------------------------
(* What a step writes.                                                     *)

\* The order has six checks, each of them one of four.
LEMMA OrderIs ==
  /\ Len(Order) = 6 /\ DOMAIN Order = 1..6
  /\ Order[1] = 1 /\ Order[2] = 2 /\ Order[3] = 2
  /\ Order[4] = 3 /\ Order[5] = 4 /\ Order[6] = 4
BY DEF Order

\* The half of a request that a check reads is a presentation.
LEMMA HalvesArePresentations ==
  ASSUME NEW r \in Requests, NEW k
  PROVE  HalfAt(r, k) \in Presentations
BY SpineAssumption DEF SpineAssumption, HalfAt

\* A caller that is inside receive is in one of its calls.
LEMMA InACall ==
  ASSUME SpineInv, NEW c \in Callers, step[c] # 0
  PROVE  /\ run[c] \in DOMAIN asked /\ run[c] \in Run /\ run[c] \notin admitted
         /\ Request(c) \in Requests /\ Half(c) \in Presentations
         /\ step[c] \in 1..6
<1>1. run[c] \in DOMAIN asked /\ run[c] \notin admitted
  BY DEF SpineInv, At
<1>2. DOMAIN asked = 1..Len(asked) /\ Len(asked) \in Nat /\ Len(asked) <= MaxRuns
  BY DEF SpineInv, SpineTypeOK
<1>3. run[c] \in Run
  BY <1>1, <1>2, SpineAssumption DEF Run, SpineAssumption
<1>4. Request(c) \in Requests
  BY <1>1, ElementOfSeq DEF SpineInv, SpineTypeOK, Request
<1> QED
  BY <1>1, <1>3, <1>4, HalvesArePresentations, OrderIs DEF SpineInv, SpineTypeOK, Half

\* A verdict comes after the call's other entries, and in no other call's.
LEMMA Written ==
  ASSUME SpineInv, NEW c \in Callers, step[c] # 0, NEW refused \in BOOLEAN, Write(c, refused)
  PROVE  /\ entries' \in [Run -> Seq(Entry)]
         /\ DOMAIN entries'[run[c]] = 1..step[c] /\ Len(entries'[run[c]]) = step[c]
         /\ entries'[run[c]][step[c]].check = Order[step[c]]
         /\ entries'[run[c]][step[c]].refused = refused
         /\ entries'[run[c]][step[c]].amount =
              IF Order[step[c]] = 3 THEN Amount[Request(c)] ELSE 0
         /\ \A i \in 1..(step[c] - 1) :
              i \in DOMAIN entries[run[c]] /\ entries'[run[c]][i] = entries[run[c]][i]
         /\ \A k \in Run \ {run[c]} : entries'[k] = entries[k]
<1> DEFINE e == [check |-> Order[step[c]], refused |-> refused,
                 amount |-> IF Order[step[c]] = 3 THEN Amount[Request(c)] ELSE 0]
           old == entries[run[c]]
<1>1. run[c] \in Run /\ step[c] \in 1..6 /\ Request(c) \in Requests
  BY InACall
<1>2. entries \in [Run -> Seq(Entry)]
  BY DEF SpineInv, SpineTypeOK
<1>3. entries' = [entries EXCEPT ![run[c]] = Append(old, e)]
  BY DEF Write
<1>4. Order[step[c]] \in 1..4
  BY <1>1, OrderIs
<1>5. Amount[Request(c)] \in Nat
  BY <1>1, SpineAssumption DEF SpineAssumption
<1>6. e \in Entry
  BY <1>4, <1>5 DEF Entry
<1>7. old \in Seq(Entry) /\ Len(old) = step[c] - 1
  BY <1>1, <1>2 DEF SpineInv, At
<1> HIDE DEF e, old
<1>8. /\ Append(old, e) \in Seq(Entry) /\ Len(Append(old, e)) = Len(old) + 1
      /\ \A i \in 1..Len(old) : Append(old, e)[i] = old[i]
      /\ Append(old, e)[Len(old) + 1] = e
  BY <1>6, <1>7, AppendProperties
<1>9. entries'[run[c]] = Append(old, e) /\ \A k \in Run \ {run[c]} : entries'[k] = entries[k]
  BY <1>1, <1>2, <1>3
<1>10. entries' \in [Run -> Seq(Entry)]
  BY <1>1, <1>2, <1>3, <1>8
<1>11. DOMAIN entries'[run[c]] = 1..step[c] /\ Len(entries'[run[c]]) = step[c]
  BY <1>1, <1>7, <1>8, <1>9
<1>12. /\ e.check = Order[step[c]] /\ e.refused = refused
       /\ e.amount = IF Order[step[c]] = 3 THEN Amount[Request(c)] ELSE 0
  BY DEF e
<1>13. DOMAIN old = 1..(step[c] - 1)
  BY <1>1, <1>7
<1> QED
  BY <1>1, <1>7, <1>8, <1>9, <1>10, <1>11, <1>12, <1>13 DEF old
-----------------------------------------------------------------------------
(* The store's steps, and what they leave of the rest.                     *)

\* A hop is judged of one of the request's own presentations: every step of the
\* spine is a step of the store, or leaves it alone.
LEMMA SpineStepsStore == SpineInv /\ [SpineNext]_spineVars => [Store!Next]_(Store!vars)
<1> SUFFICES ASSUME SpineInv, [SpineNext]_spineVars PROVE [Store!Next]_(Store!vars)
  OBVIOUS
<1> USE DEF Store!vars, Store!caller, Store!trail, Store!sweeper, store
<1>1. CASE UNCHANGED spineVars
  BY <1>1 DEF spineVars
<1>2. CASE Around
  BY <1>2 DEF Around, Store!Next
<1>3. ASSUME NEW c \in Callers, Handle(c) PROVE [Store!Next]_(Store!vars)
  <2>1. CASE JudgeHop(c)
    <3>1. Half(c) \in Presentations
      BY <2>1, InACall DEF JudgeHop
    <3> QED
      BY <2>1, <3>1 DEF JudgeHop, Store!Next
  <2>2. CASE Claim(c) \/ Honour(c) \/ Replayed(c)
    BY <2>2 DEF Claim, Honour, Replayed, Store!Next
  <2>3. CASE Die(c)
    BY <2>3 DEF Die, Store!Next
  <2>4. CASE \E r \in Requests : Receive(c, r)
    BY <2>4 DEF Receive
  <2>5. CASE Identify(c) \/ JudgeMandate(c) \/ Authorise(c) \/ Answer(c)
    BY <2>5 DEF Identify, JudgeMandate, Authorise, Answer
  <2> QED
    BY <1>3, <2>1, <2>2, <2>3, <2>4, <2>5 DEF Handle
<1> QED
  BY <1>1, <1>2, <1>3 DEF SpineNext

\* So every step keeps the store's invariant.
LEMMA StoreKept == SpineInv /\ [SpineNext]_spineVars => Fresh!FreshInv' /\ Store!TypeOK'
BY SpineStepsStore, StoreStep, StoreTypedNext DEF SpineInv

\* A call that is told a verdict is told it in its own entries: what other calls'
\* entries say stays said.
LEMMA StillCleared ==
  ASSUME SpineInv, NEW c \in Callers, step[c] # 0, NEW refused \in BOOLEAN, Write(c, refused),
         NEW k \in Run, NEW check, Cleared(k, check)
  PROVE  Cleared(k, check)'
<1>1. PICK i \in DOMAIN entries[k] : entries[k][i].check = check /\ ~entries[k][i].refused
  BY DEF Cleared
<1>2. CASE k # run[c]
  BY <1>1, <1>2, Written DEF Cleared
<1>3. CASE k = run[c]
  <2>1. Len(entries[k]) = step[c] - 1 /\ entries[k] \in Seq(Entry)
    BY <1>3 DEF SpineInv, At, SpineTypeOK
  <2>2. i \in 1..(step[c] - 1) /\ step[c] \in 1..6
    BY <1>1, <2>1, InACall
  <2>3. i \in DOMAIN entries'[k] /\ entries'[k][i] = entries[k][i]
    BY <1>3, <2>2, Written
  <2> QED
    BY <1>1, <2>3 DEF Cleared
<1> QED
  BY <1>2, <1>3

\* A verdict that leaves the nonces alone, and passes only what it has shown, keeps
\* the invariant.
LEMMA Concluding ==
  ASSUME SpineInv, NEW c \in Callers, step[c] # 0, NEW ok \in BOOLEAN, Conclude(c, ok),
         ok => step[c] \in 1..4 /\ Proven(run[c], step[c]),
         UNCHANGED <<passed, admitted, presented, nonces, forgotten>>,
         pc' = [pc EXCEPT ![c] = "idle"],
         Fresh!FreshInv', Store!TypeOK'
  PROVE  SpineInv'
<1>k. PICK k \in Run : k = run[c]
  BY InACall
<1>i. /\ SpineTypeOK /\ RefusalsSpendNothing
      /\ \A b \in Callers : At(b)
      /\ \A a, b \in Callers : a # b => OwnCall(a, b)
      /\ \A j \in Run : Entries(j)
      /\ \A j, m \in Run, i, n \in {5, 6} : SweptBetween(j, i, m, n)
  BY DEF SpineInv
<1>0. /\ k \in DOMAIN asked /\ k \in Run /\ k \notin admitted
      /\ step[c] \in 1..6 /\ Request(c) \in Requests
  BY <1>k, InACall
<1>l. Len(asked) \in Nat /\ DOMAIN asked = 1..Len(asked) /\ DOMAIN asked \subseteq Run
  <2>1. asked \in Seq(Requests) /\ Len(asked) <= MaxRuns /\ MaxRuns \in Nat
    BY <1>i, SpineAssumption DEF SpineTypeOK, SpineAssumption
  <2>2. Len(asked) \in Nat /\ DOMAIN asked = 1..Len(asked)
    BY <2>1
  <2> QED
    BY <2>1, <2>2 DEF Run
<1>r. \A i \in 1..step[c] : i = step[c] \/ i \in 1..(step[c] - 1)
  BY <1>0
<1>w. /\ entries' \in [Run -> Seq(Entry)]
      /\ DOMAIN entries'[k] = 1..step[c] /\ Len(entries'[k]) = step[c]
      /\ entries'[k][step[c]].check = Order[step[c]]
      /\ entries'[k][step[c]].refused = ~ok
      /\ \A i \in 1..(step[c] - 1) : i \in DOMAIN entries[k] /\ entries'[k][i] = entries[k][i]
      /\ \A j \in Run \ {k} : entries'[j] = entries[j]
  BY <1>k, Written DEF Conclude
<1>t. /\ step \in [Callers -> 0..6] /\ finding \in [Callers -> Findings]
      /\ run \in [Callers -> 0..Len(asked)] /\ pc \in [Callers -> Store!Steps]
  BY <1>i, OrderIs DEF SpineTypeOK, Store!TypeOK
<1>g. /\ step' = [step EXCEPT ![c] = IF ok THEN step[c] + 1 ELSE 0]
      /\ finding' = [finding EXCEPT ![c] = "none"]
      /\ run' = [run EXCEPT ![c] = IF ok THEN k ELSE 0]
      /\ asked' = asked
  <2>1. GoTo(c, IF ok THEN step[c] + 1 ELSE 0)
    BY DEF Conclude
  <2>2. (IF ok THEN step[c] + 1 ELSE 0) = 0 <=> ~ok
    BY <1>0
  <2>3. run' = [run EXCEPT ![c] = IF ok THEN run[c] ELSE 0]
    BY <2>1, <2>2 DEF GoTo
  <2> QED
    BY <1>k, <2>1, <2>3 DEF GoTo
<1>o. Len(entries[k]) = step[c] - 1 /\ DOMAIN entries[k] = 1..(step[c] - 1)
      /\ \A i \in DOMAIN entries[k] : ~entries[k][i].refused
  BY <1>0, <1>i, <1>k DEF At, SpineTypeOK
<1>1. SpineTypeOK'
  <2>1. step' \in [Callers -> 0..6]
    BY <1>0, <1>t, <1>g
  <2>2. finding' \in [Callers -> Findings] /\ run' \in [Callers -> 0..Len(asked)]
    BY <1>0, <1>i, <1>t, <1>g DEF Findings, SpineTypeOK
  <2> QED
    BY <1>i, <1>w, <1>g, <2>1, <2>2, OrderIs DEF SpineTypeOK
<1>2. ASSUME NEW b \in Callers PROVE At(b)'
  <2>1. CASE b = c
    <3>1. \A i \in 1..(step[c] - 1) : ~entries[k][i].refused
      BY <1>o
    <3>2. pc'[c] = "idle" /\ finding'[c] = "none"
      BY <1>t, <1>g
    <3>3. CASE ok
      <4>1. step'[c] = step[c] + 1 /\ run'[c] = k /\ admitted' = admitted
        BY <1>t, <1>g, <3>3
      <4>2. \A i \in DOMAIN entries'[k] : ~entries'[k][i].refused
        BY <1>r, <1>w, <3>1, <3>3
      <4> QED
        BY <1>0, <1>w, <1>g, <2>1, <3>2, <4>1, <4>2 DEF At
    <3>4. CASE ~ok
      <4>1. step'[c] = 0 /\ run'[c] = 0
        BY <1>t, <1>g, <3>4
      <4> QED
        BY <2>1, <3>2, <4>1 DEF At
    <3> QED
      BY <3>3, <3>4
  <2>2. CASE b # c
    <3>1. At(b) /\ (step[b] # 0 => run[b] # k /\ run[b] \in Run)
      BY <1>0, <1>i, <1>k, <2>2, InACall DEF OwnCall
    <3> QED
      BY <1>w, <1>t, <1>g, <2>2, <3>1 DEF At, Half, Request, Agent
  <2> QED
    BY <2>1, <2>2
<1>3. \A a, b \in Callers : a # b => OwnCall(a, b)'
  BY <1>0, <1>i, <1>k, <1>t, <1>g DEF OwnCall
<1>4. ASSUME NEW j \in Run PROVE Entries(j)'
  <2>1. CASE j # k
    BY <1>i, <1>w, <1>g, <2>1 DEF Entries, Proven, Agent
  <2>2. CASE j = k
    <3>1. \A i \in 1..(step[c] - 1) : ~entries[k][i].refused /\ entries[k][i].check = Order[i]
                                   /\ Proven(k, i)
      BY <1>i, <1>k, <1>o DEF Entries
    <3>2. \A i \in 1..step[c] : ~entries'[k][i].refused => Proven(k, i)
      BY <1>k, <1>r, <1>w, <3>1
    <3>3. \A i : Proven(k, i) => Proven(k, i)'
      BY <1>g DEF Proven, Agent
    <3>4. \A i \in 1..step[c] : /\ entries'[k][i].check = Order[i]
                                /\ entries'[k][i].refused => i = step[c]
      BY <1>r, <1>w, <3>1
    <3> QED
      BY <1>0, <1>w, <1>g, <2>2, <3>2, <3>3, <3>4 DEF Entries
  <2> QED
    BY <2>1, <2>2
<1>5. ASSUME NEW j \in Run, NEW i \in {5, 6}, Honoured(j, i)' PROVE Honoured(j, i)
  <2>1. CASE j # k
    BY <1>5, <1>w, <2>1 DEF Honoured
  <2>2. CASE j = k
    <3>1. i # step[c]
      <4>1. ~entries'[k][i].refused
        BY <1>5, <2>2 DEF Honoured
      <4>2. CASE ok
        BY <4>2
      <4>3. CASE ~ok
        BY <1>w, <4>1, <4>3
      <4> QED
        BY <4>2, <4>3
    <3>2. i \in 1..(step[c] - 1)
      BY <1>5, <1>r, <1>w, <2>2, <3>1 DEF Honoured
    <3> QED
      BY <1>5, <1>w, <2>2, <3>2 DEF Honoured
  <2> QED
    BY <2>1, <2>2
<1>6. \A j, m \in Run, i, n \in {5, 6} : SweptBetween(j, i, m, n)'
  BY <1>i, <1>5, <1>g DEF SweptBetween, SweptSince, Store!StaleBefore
<1>7. RefusalsSpendNothing'
  <2>1. \A j \in DOMAIN asked : \A check : Cleared(j, check) => Cleared(j, check)'
    BY <1>l, StillCleared DEF Conclude
  <2> QED
    BY <1>i, <1>g, <2>1 DEF RefusalsSpendNothing, Agent, Halves
<1> QED
  BY <1>1, <1>2, <1>3, <1>4, <1>6, <1>7 DEF SpineInv

\* What is about to be honoured has a nonce that only presentations a sweep has
\* forgotten can have been honoured under.
LEMMA NewNonce ==
  ASSUME SpineInv, NEW c \in Callers, pc[c] = "record",
         NEW p \in Presentations, passed[p] > 0, Key[p] = Key[Half(c)]
  PROVE  SweptSince(p)
<1>1. presented[c] = Half(c)
  BY DEF SpineInv, At
<1>2. Fresh!Told(c) /\ Fresh!Remembered(p)
  BY DEF SpineInv, Fresh!FreshInv
<1>3. ~Fresh!Seen(Key[p])
  BY <1>1, <1>2 DEF Fresh!Told
<1>4. Fresh!RowOf(p) \notin nonces
  BY <1>3 DEF Fresh!Seen, Fresh!RowOf
<1> QED
  BY <1>2, <1>4 DEF Fresh!Remembered, Fresh!StaleBefore, SweptSince, Store!StaleBefore

\* The hop that is honoured was proven in order, and its nonce is new.
LEMMA Honouring ==
  ASSUME SpineInv, NEW c \in Callers, Honour(c), Fresh!FreshInv', Store!TypeOK'
  PROVE  SpineInv'
<1>i. /\ SpineTypeOK /\ RefusalsSpendNothing
      /\ \A b \in Callers : At(b)
      /\ \A a, b \in Callers : a # b => OwnCall(a, b)
      /\ \A j \in Run : Entries(j)
      /\ \A j, m \in Run, i, o \in {5, 6} : SweptBetween(j, i, m, o)
  BY DEF SpineInv
<1>p. /\ pc[c] = "record" /\ pc' = [pc EXCEPT ![c] = "idle"]
      /\ nonces' = nonces \union {Store!RowOf(presented[c])}
      /\ passed' = [passed EXCEPT ![presented[c]] = @ + 1]
      /\ presented' = presented /\ forgotten' = forgotten
  BY DEF Honour, Store!Record, Store!GoTo, Store!sweeper
<1>s. step[c] \in {5, 6} /\ presented[c] = Half(c)
  BY <1>i, <1>p DEF At
<1>n. PICK n \in {5, 6} : n = step[c] /\ step[c] # 0
  BY <1>s
<1>f. Write(c, FALSE) /\ FALSE \in BOOLEAN
  BY DEF Honour
<1>k. PICK k \in Run : k = run[c]
  BY <1>s, InACall
<1>0. /\ k \in DOMAIN asked /\ k \notin admitted
      /\ step[c] \in 1..6 /\ Request(c) \in Requests /\ Half(c) \in Presentations
      /\ asked[k] = Request(c)
  BY <1>k, <1>s, InACall DEF Request
<1>d. DOMAIN asked \subseteq Run
  <2>1. asked \in Seq(Requests) /\ Len(asked) <= MaxRuns /\ MaxRuns \in Nat
    BY <1>i, SpineAssumption DEF SpineTypeOK, SpineAssumption
  <2> QED
    BY <2>1 DEF Run
<1>r. \A i \in 1..step[c] : i = step[c] \/ i \in 1..(step[c] - 1)
  BY <1>0
<1>w. /\ entries' \in [Run -> Seq(Entry)]
      /\ DOMAIN entries'[k] = 1..step[c] /\ Len(entries'[k]) = step[c]
      /\ entries'[k][step[c]].check = Order[step[c]]
      /\ ~entries'[k][step[c]].refused
      /\ \A i \in 1..(step[c] - 1) : i \in DOMAIN entries[k] /\ entries'[k][i] = entries[k][i]
      /\ \A j \in Run \ {k} : entries'[j] = entries[j]
  <2>1. /\ entries' \in [Run -> Seq(Entry)]
        /\ DOMAIN entries'[run[c]] = 1..step[c] /\ Len(entries'[run[c]]) = step[c]
        /\ entries'[run[c]][step[c]].check = Order[step[c]]
        /\ entries'[run[c]][step[c]].refused = FALSE
        /\ \A i \in 1..(step[c] - 1) :
             i \in DOMAIN entries[run[c]] /\ entries'[run[c]][i] = entries[run[c]][i]
        /\ \A j \in Run \ {run[c]} : entries'[j] = entries[j]
    BY <1>f, <1>n, Written
  <2> QED
    BY <1>k, <2>1
<1>t. /\ step \in [Callers -> 0..6] /\ finding \in [Callers -> Findings]
      /\ run \in [Callers -> 0..Len(asked)] /\ pc \in [Callers -> Store!Steps]
      /\ passed \in [Presentations -> Nat]
  BY <1>i, OrderIs DEF SpineTypeOK, Store!TypeOK
<1>g. /\ step' = [step EXCEPT ![c] = IF step[c] = 6 THEN 0 ELSE step[c] + 1]
      /\ finding' = [finding EXCEPT ![c] = "none"]
      /\ run' = [run EXCEPT ![c] = IF step[c] = 6 THEN 0 ELSE k]
      /\ asked' = asked
      /\ admitted' = admitted \union (IF step[c] = 6 THEN {k} ELSE {})
  <2>1. GoTo(c, IF step[c] = 6 THEN 0 ELSE step[c] + 1)
    BY OrderIs DEF Honour
  <2>2. (IF step[c] = 6 THEN 0 ELSE step[c] + 1) = 0 <=> step[c] = 6
    BY <1>0
  <2>3. run' = [run EXCEPT ![c] = IF step[c] = 6 THEN 0 ELSE run[c]]
    BY <2>1, <2>2 DEF GoTo
  <2>4. admitted' = admitted \union (IF step[c] = 6 THEN {k} ELSE {})
    BY <1>k, OrderIs DEF Honour
  <2> QED
    BY <1>k, <2>1, <2>3, <2>4 DEF GoTo
<1>o. Len(entries[k]) = step[c] - 1 /\ DOMAIN entries[k] = 1..(step[c] - 1)
      /\ \A i \in DOMAIN entries[k] : ~entries[k][i].refused
  BY <1>0, <1>i, <1>k, <1>n DEF At, SpineTypeOK
<1>e. \A i \in 1..step[c] : ~entries'[k][i].refused
  BY <1>o, <1>r, <1>w
<1>m. passed'[Half(c)] > 0 /\ \A p \in Presentations : passed[p] > 0 => passed'[p] > 0
  BY <1>0, <1>p, <1>s, <1>t
<1>1. SpineTypeOK'
  <2>1. step' \in [Callers -> 0..6]
    BY <1>0, <1>t, <1>g
  <2>2. finding' \in [Callers -> Findings] /\ run' \in [Callers -> 0..Len(asked)]
    BY <1>0, <1>i, <1>k, <1>t, <1>g DEF Findings, SpineTypeOK
  <2>3. admitted' \subseteq DOMAIN asked'
    BY <1>0, <1>i, <1>g DEF SpineTypeOK
  <2> QED
    BY <1>i, <1>w, <1>g, <2>1, <2>2, <2>3, OrderIs DEF SpineTypeOK
<1>2. ASSUME NEW b \in Callers PROVE At(b)'
  <2>1. CASE b = c
    <3>1. pc'[c] = "idle" /\ finding'[c] = "none"
      BY <1>p, <1>t, <1>g
    <3>2. CASE step[c] = 6
      <4>1. step'[c] = 0 /\ run'[c] = 0
        BY <1>t, <1>g, <3>2
      <4> QED
        BY <2>1, <3>1, <4>1 DEF At
    <3>3. CASE step[c] = 5
      <4>1. step'[c] = 6 /\ run'[c] = k /\ admitted' = admitted
        BY <1>t, <1>g, <3>3
      <4> QED
        BY <1>0, <1>e, <1>w, <1>g, <2>1, <3>1, <3>3, <4>1 DEF At
    <3> QED
      BY <1>s, <3>2, <3>3
  <2>2. CASE b # c
    <3>1. At(b) /\ (step[b] # 0 => run[b] # k /\ run[b] \in Run)
      BY <1>0, <1>i, <1>k, <1>s, <2>2, InACall DEF OwnCall
    <3> QED
      BY <1>p, <1>w, <1>t, <1>g, <2>2, <3>1 DEF At, Half, Request, Agent
  <2> QED
    BY <2>1, <2>2
<1>3. \A a, b \in Callers : a # b => OwnCall(a, b)'
  BY <1>0, <1>i, <1>k, <1>s, <1>t, <1>g DEF OwnCall
<1>c. \A j \in Run, i \in 1..6 :
        j \in DOMAIN asked /\ Proven(j, i) => Proven(j, i)'
  <2> SUFFICES ASSUME NEW j \in Run, NEW i \in 1..6, j \in DOMAIN asked, Proven(j, i)
               PROVE  Proven(j, i)'
    OBVIOUS
  <2>1. HalfAt(asked[j], i) \in Presentations
    BY <1>i, ElementOfSeq, HalvesArePresentations DEF SpineTypeOK
  <2> QED
    BY <1>g, <1>m, <2>1 DEF Proven, Agent
<1>4. ASSUME NEW j \in Run PROVE Entries(j)'
  <2>1. CASE j # k
    <3>1. Entries(j) /\ entries'[j] = entries[j] /\ (j \in admitted' <=> j \in admitted)
      BY <1>i, <1>w, <1>g, <2>1
    <3>2. \A i \in DOMAIN entries[j] : i \in 1..6 /\ j \in DOMAIN asked
      BY <1>i, <3>1 DEF Entries, SpineTypeOK
    <3> QED
      BY <1>c, <1>g, <3>1, <3>2 DEF Entries
  <2>2. CASE j = k
    <3>1. \A i \in 1..(step[c] - 1) : entries[k][i].check = Order[i] /\ Proven(k, i)
      BY <1>i, <1>o DEF Entries
    <3>2. Proven(k, n)'
      BY <1>0, <1>g, <1>m, <1>n, <1>s DEF Proven, Half, Request
    <3>3. \A i \in 1..(step[c] - 1) : Proven(k, i)'
      BY <1>0, <1>c, <3>1
    <3>4. \A i \in 1..step[c] : entries'[k][i].check = Order[i] /\ Proven(k, i)'
      BY <1>n, <1>r, <1>w, <3>1, <3>2, <3>3
    <3> QED
      <4>1. k \in admitted' => step[c] = 6
        BY <1>0, <1>g
      <4>2. \A i \in DOMAIN entries'[k] :
              entries'[k][i].check = Order[i] /\ ~entries'[k][i].refused /\ Proven(k, i)'
        BY <1>e, <1>w, <3>4
      <4>3. k \in DOMAIN asked' /\ Len(entries'[k]) <= 6
        BY <1>0, <1>g, <1>w
      <4> QED
        BY <1>w, <2>2, <4>1, <4>2, <4>3 DEF Entries
  <2> QED
    BY <2>1, <2>2
<1>5. ASSUME NEW j \in Run, NEW i \in {5, 6}, Honoured(j, i)'
      PROVE  \/ Honoured(j, i) /\ passed[HalfAt(asked[j], i)] > 0
                /\ HalfAt(asked[j], i) \in Presentations
             \/ j = k /\ i = step[c]
  <2>1. CASE j = k /\ i # step[c]
    <3>1. i \in 1..(step[c] - 1)
      BY <1>5, <1>r, <1>w, <2>1 DEF Honoured
    <3>2. Honoured(j, i) /\ Proven(k, i)
      BY <1>5, <1>i, <1>o, <1>w, <2>1, <3>1 DEF Honoured, Entries
    <3> QED
      BY <1>0, <2>1, <3>2, HalvesArePresentations DEF Proven
  <2>2. CASE j # k
    <3>1. Honoured(j, i)
      BY <1>5, <1>w, <2>2 DEF Honoured
    <3>2. Proven(j, i) /\ j \in DOMAIN asked
      BY <1>i, <3>1 DEF Entries, Honoured
    <3>3. asked[j] \in Requests
      BY <1>i, <3>2, ElementOfSeq DEF SpineTypeOK
    <3> QED
      BY <3>1, <3>2, <3>3, HalvesArePresentations DEF Proven
  <2> QED
    BY <2>1, <2>2
<1>6. ASSUME NEW j \in Run, NEW m \in Run, NEW i \in {5, 6}, NEW o \in {5, 6}
      PROVE  SweptBetween(j, i, m, o)'
  <2> SUFFICES ASSUME Honoured(j, i)', Honoured(m, o)', <<j, i>> # <<m, o>>,
                      Key[HalfAt(asked[j], i)] = Key[HalfAt(asked[m], o)]
               PROVE  SweptSince(HalfAt(asked[j], i)) \/ SweptSince(HalfAt(asked[m], o))
    BY <1>p, <1>g DEF SweptBetween, SweptSince, Store!StaleBefore
  <2>1. CASE Honoured(j, i) /\ Honoured(m, o)
    BY <1>i, <2>1 DEF SweptBetween
  <2>2. CASE j = k /\ i = step[c] /\ ~(m = k /\ o = step[c])
    <3>1. passed[HalfAt(asked[m], o)] > 0 /\ HalfAt(asked[m], o) \in Presentations
      BY <1>5, <2>2
    <3>2. HalfAt(asked[j], i) = Half(c)
      BY <1>0, <2>2 DEF Half
    <3> QED
      BY <1>p, <3>1, <3>2, NewNonce
  <2>3. CASE m = k /\ o = step[c] /\ ~(j = k /\ i = step[c])
    <3>1. passed[HalfAt(asked[j], i)] > 0 /\ HalfAt(asked[j], i) \in Presentations
      BY <1>5, <2>3
    <3>2. HalfAt(asked[m], o) = Half(c)
      BY <1>0, <2>3 DEF Half
    <3> QED
      BY <1>p, <3>1, <3>2, NewNonce
  <2> QED
    BY <1>5, <2>1, <2>2, <2>3
<1>7. RefusalsSpendNothing'
  <2>1. \A j \in DOMAIN asked : \A check : Cleared(j, check) => Cleared(j, check)'
    BY <1>d, <1>f, <1>n, StillCleared
  <2>2. ASSUME NEW row \in nonces PROVE
          \E j \in DOMAIN asked' :
            /\ asked'[j] \in Authentic /\ Agent(j)' = row.key[1]
            /\ \E p \in Halves(j)' : Key[p] = row.key
            /\ \A check \in 1..4 : Cleared(j, check)'
    BY <1>i, <1>g, <2>1 DEF RefusalsSpendNothing, Agent, Halves
  <2>3. /\ asked[k] \in Authentic
        /\ HeldBy[Half(c)] = Agent(k)
        /\ Half(c) \in Halves(k)
    <3>1. Proven(k, 1) /\ Proven(k, 2) /\ Proven(k, 3)
      <4>1. 1 \in DOMAIN entries[k] /\ 2 \in DOMAIN entries[k] /\ 3 \in DOMAIN entries[k]
        BY <1>o, <1>s
      <4> QED
        BY <1>i, <1>o, <4>1 DEF Entries
    <3> QED
      BY <1>0, <1>s, <3>1 DEF Proven, Half, HalfAt, Halves
  <2>4. Key[Half(c)][1] = Agent(k)
    BY <1>0, <2>3, SpineAssumption DEF SpineAssumption
  <2>5. \A check \in 1..4 : Cleared(k, check)'
    <3>1. /\ 1 \in 1..step[c] /\ 2 \in 1..step[c] /\ 4 \in 1..step[c] /\ step[c] \in 1..step[c]
          /\ Order[step[c]] = 4
      BY <1>s, OrderIs
    <3>2. \A i \in 1..step[c] : entries'[k][i].check = Order[i]
      BY <1>4, <1>w DEF Entries
    <3>3. ASSUME NEW i \in 1..step[c], NEW check, Order[i] = check PROVE Cleared(k, check)'
      BY <1>e, <1>w, <3>2, <3>3 DEF Cleared
    <3>4. Cleared(k, 1)' /\ Cleared(k, 2)' /\ Cleared(k, 3)' /\ Cleared(k, 4)'
      BY <3>1, <3>3, OrderIs
    <3> QED
      BY <3>4
  <2>6. ASSUME NEW row \in nonces', row \notin nonces PROVE row.key = Key[Half(c)]
    BY <1>p, <1>s, <2>6 DEF Store!RowOf
  <2> QED
    BY <1>0, <1>g, <2>2, <2>3, <2>4, <2>5, <2>6 DEF RefusalsSpendNothing, Agent, Halves
<1> QED
  BY <1>1, <1>2, <1>3, <1>4, <1>6, <1>7 DEF SpineInv

\* A step that writes nothing and spends no nonce keeps the invariant if it keeps what
\* the callers it moves know.
LEMMA Quiet ==
  ASSUME SpineInv, NEW S \in SUBSET Callers,
         UNCHANGED <<entries, admitted, asked, passed>>, forgotten' >= forgotten,
         nonces' \subseteq nonces,
         \A b \in Callers \ S :
           /\ step'[b] = step[b] /\ finding'[b] = finding[b] /\ run'[b] = run[b]
           /\ pc'[b] = pc[b] /\ presented'[b] = presented[b],
         \A b \in S : step'[b] # 0 => step[b] # 0 /\ run'[b] = run[b],
         \A b \in S : At(b)',
         SpineTypeOK', Fresh!FreshInv'
  PROVE  SpineInv'
<1>i. /\ SpineTypeOK /\ RefusalsSpendNothing
      /\ \A b \in Callers : At(b)
      /\ \A a, b \in Callers : a # b => OwnCall(a, b)
      /\ \A j \in Run : Entries(j)
      /\ \A j, m \in Run, i, n \in {5, 6} : SweptBetween(j, i, m, n)
  BY DEF SpineInv
<1>1. ASSUME NEW b \in Callers PROVE At(b)'
  <2>1. CASE b \in S
    BY <2>1
  <2>2. CASE b \notin S
    <3>1. At(b) /\ step'[b] = step[b] /\ finding'[b] = finding[b] /\ run'[b] = run[b]
          /\ pc'[b] = pc[b] /\ presented'[b] = presented[b]
      BY <1>i, <2>2
    <3> QED
      BY <3>1 DEF At, Half, Request, Agent
  <2> QED
    BY <2>1, <2>2
<1>2. \A a, b \in Callers : a # b => OwnCall(a, b)'
  BY <1>i DEF OwnCall
<1>3. \A j \in Run : Entries(j)'
  BY <1>i DEF Entries, Proven, Agent
<1>4. \A p \in Presentations : SweptSince(p) => SweptSince(p)'
  <2>1. /\ forgotten \in Int /\ forgotten' \in Int /\ Window \in Int /\ Skew \in Int
        /\ IssuedAt \in [Presentations -> Nat]
    <3>1. Store!TypeOK /\ Store!TypeOK'
      BY <1>i DEF SpineTypeOK
    <3>2. forgotten \in Int /\ forgotten' \in Int
      BY <3>1 DEF Store!TypeOK
    <3> QED
      BY <3>2, SpineAssumption DEF SpineAssumption
  <2> QED
    BY <2>1 DEF SweptSince, Store!StaleBefore
<1>5. \A j \in Run, i \in {5, 6} : Honoured(j, i) => HalfAt(asked[j], i) \in Presentations
  <2> SUFFICES ASSUME NEW j \in Run, NEW i \in {5, 6}, Honoured(j, i)
               PROVE  HalfAt(asked[j], i) \in Presentations
    OBVIOUS
  <2>1. j \in DOMAIN asked
    BY <1>i DEF Entries, Honoured
  <2> QED
    BY <1>i, <2>1, ElementOfSeq, HalvesArePresentations DEF SpineTypeOK
<1>6. \A j, m \in Run, i, n \in {5, 6} : SweptBetween(j, i, m, n)'
  <2>1. \A j \in Run, i \in {5, 6} : Honoured(j, i)' <=> Honoured(j, i)
    BY DEF Honoured
  <2> QED
    BY <1>i, <1>4, <1>5, <2>1 DEF SweptBetween
<1>7. RefusalsSpendNothing'
  BY <1>i DEF RefusalsSpendNothing, Cleared, Agent, Halves
<1> QED
  BY <1>1, <1>2, <1>3, <1>6, <1>7 DEF SpineInv

\* A new call is nobody else's, and has no entries.
LEMMA Receiving ==
  ASSUME SpineInv, NEW c \in Callers, NEW r \in Requests, Receive(c, r),
         Fresh!FreshInv', Store!TypeOK'
  PROVE  SpineInv'
<1>i. /\ SpineTypeOK /\ RefusalsSpendNothing
      /\ \A b \in Callers : At(b)
      /\ \A a, b \in Callers : a # b => OwnCall(a, b)
      /\ \A j \in Run : Entries(j)
      /\ \A j, m \in Run, i, n \in {5, 6} : SweptBetween(j, i, m, n)
  BY DEF SpineInv
<1>1. PICK k \in Nat : k = Len(asked) + 1
  BY <1>i DEF SpineTypeOK
<1>2. /\ asked \in Seq(Requests) /\ asked' \in Seq(Requests)
      /\ DOMAIN asked = 1..(k - 1) /\ DOMAIN asked' = 1..k
      /\ Len(asked') = k /\ k \in Run
      /\ \A j \in DOMAIN asked : asked'[j] = asked[j]
  <2>1. asked \in Seq(Requests) /\ asked' = Append(asked, r) /\ Len(asked) < MaxRuns
    BY <1>i DEF Receive, SpineTypeOK
  <2>2. /\ asked' \in Seq(Requests) /\ Len(asked') = Len(asked) + 1
        /\ \A j \in 1..Len(asked) : asked'[j] = asked[j]
    BY <2>1, AppendProperties
  <2>3. Len(asked) = k - 1 /\ Len(asked) \in Nat /\ MaxRuns \in Nat
    BY <1>1, <2>1, SpineAssumption DEF SpineAssumption
  <2>4. DOMAIN asked = 1..(k - 1) /\ DOMAIN asked' = 1..k
    BY <2>1, <2>2, <2>3
  <2>5. k \in Run
    BY <2>1, <2>3 DEF Run
  <2> QED
    BY <2>1, <2>2, <2>3, <2>4, <2>5
<1>3. k \notin DOMAIN asked /\ k \in DOMAIN asked' /\ DOMAIN asked \subseteq DOMAIN asked'
  <2>1. k \notin 1..(k - 1) /\ k \in 1..k /\ 1..(k - 1) \subseteq 1..k
    BY <1>2 DEF Run
  <2> QED
    BY <1>2, <2>1
<1>4. /\ step' = [step EXCEPT ![c] = 1] /\ run' = [run EXCEPT ![c] = k]
      /\ finding' = finding /\ entries' = entries /\ admitted' = admitted
      /\ pc' = pc /\ presented' = presented /\ nonces' = nonces
      /\ passed' = passed /\ forgotten' = forgotten /\ step[c] = 0
  BY <1>1 DEF Receive, store
<1>5. /\ step \in [Callers -> 0..6] /\ run \in [Callers -> 0..(k - 1)]
      /\ entries \in [Run -> Seq(Entry)]
  BY <1>i, <1>1, OrderIs DEF SpineTypeOK
<1>6. entries[k] = <<>>
  BY <1>i, <1>2, <1>3 DEF Entries
<1>7. SpineTypeOK'
  <2>1. run' \in [Callers -> 0..k] /\ step' \in [Callers -> 0..6]
    BY <1>4, <1>5
  <2>2. k <= MaxRuns
    BY <1>2 DEF Run
  <2> QED
    BY <1>i, <1>2, <1>3, <1>4, <2>1, <2>2, OrderIs DEF SpineTypeOK
<1>8. \A j \in DOMAIN asked : Agent(j)' = Agent(j)
  BY <1>2 DEF Agent
<1>9. ASSUME NEW b \in Callers PROVE At(b)'
  <2>1. CASE b = c
    <3>1. step'[c] = 1 /\ run'[c] = k /\ finding'[c] = "none" /\ pc'[c] = "idle"
      BY <1>i, <1>4, <1>5 DEF At
    <3>2. k \notin admitted
      BY <1>i, <1>3 DEF SpineTypeOK
    <3> QED
      BY <1>3, <1>4, <1>6, <2>1, <3>1, <3>2 DEF At
  <2>2. CASE b # c
    <3>1. step'[b] = step[b] /\ run'[b] = run[b]
      BY <1>4, <1>5, <2>2
    <3>2. CASE step[b] = 0
      BY <1>i, <1>4, <3>1, <3>2 DEF At
    <3>3. CASE step[b] # 0
      <4>1. PICK j \in DOMAIN asked : j = run[b] /\ j \notin admitted
        BY <1>i, <3>3 DEF At
      <4>2. j \in DOMAIN asked' /\ asked'[j] = asked[j] /\ run'[b] = j
        BY <1>2, <1>3, <3>1, <4>1
      <4>3. Half(b)' = Half(b) /\ Agent(run[b])' = Agent(run[b])
        BY <3>1, <4>1, <4>2 DEF Half, Request, HalfAt, Agent
      <4> QED
        BY <1>i, <1>4, <3>1, <3>3, <4>1, <4>2, <4>3 DEF At
    <3> QED
      BY <3>2, <3>3
  <2> QED
    BY <2>1, <2>2
<1>10. ASSUME NEW a \in Callers, NEW b \in Callers, a # b PROVE OwnCall(a, b)'
  <2>1. \A d \in Callers \ {c} : step[d] # 0 => run[d] # k
    BY <1>i, <1>3 DEF At
  <2> QED
    BY <1>i, <1>4, <1>5, <1>10, <2>1 DEF OwnCall
<1>11. ASSUME NEW j \in Run PROVE Entries(j)'
  <2>1. CASE j \in DOMAIN asked
    BY <1>i, <1>2, <1>3, <1>4, <1>8, <2>1 DEF Entries, Proven
  <2>2. CASE j \notin DOMAIN asked
    <3>1. entries[j] = <<>> /\ j \notin admitted
      BY <1>i, <2>2 DEF Entries, SpineTypeOK
    <3> QED
      BY <1>4, <3>1 DEF Entries
  <2> QED
    BY <2>1, <2>2
<1>12. ASSUME NEW j \in Run, NEW m \in Run, NEW i \in {5, 6}, NEW n \in {5, 6}
       PROVE  SweptBetween(j, i, m, n)'
  <2>1. \A d \in Run, e \in {5, 6} : Honoured(d, e) => d \in DOMAIN asked
    BY <1>i DEF Entries, Honoured
  <2>2. \A d \in Run, e \in {5, 6} : Honoured(d, e)' <=> Honoured(d, e)
    BY <1>4 DEF Honoured
  <2> QED
    BY <1>i, <1>2, <1>4, <2>1, <2>2 DEF SweptBetween, SweptSince, Store!StaleBefore
<1>13. RefusalsSpendNothing'
  <2> SUFFICES ASSUME NEW row \in nonces
               PROVE  \E j \in DOMAIN asked' :
                        /\ asked'[j] \in Authentic /\ Agent(j)' = row.key[1]
                        /\ \E p \in Halves(j)' : Key[p] = row.key
                        /\ \A check \in 1..4 : Cleared(j, check)'
    BY <1>4 DEF RefusalsSpendNothing
  <2>1. PICK j \in DOMAIN asked :
          /\ asked[j] \in Authentic /\ Agent(j) = row.key[1]
          /\ \E p \in Halves(j) : Key[p] = row.key
          /\ \A check \in 1..4 : Cleared(j, check)
    BY <1>i DEF RefusalsSpendNothing
  <2>2. /\ j \in DOMAIN asked' /\ asked'[j] = asked[j]
        /\ Agent(j)' = Agent(j) /\ Halves(j)' = Halves(j)
    BY <1>2, <1>3 DEF Agent, Halves
  <2>3. \A check \in 1..4 : Cleared(j, check)'
    BY <1>4, <2>1 DEF Cleared
  <2> QED
    BY <2>1, <2>2, <2>3
<1> QED
  BY <1>7, <1>9, <1>10, <1>11, <1>12, <1>13 DEF SpineInv

\* Before the first call there is nothing to have shown.
LEMMA InitSpine == SpineInit => SpineInv
<1> SUFFICES ASSUME SpineInit PROVE SpineInv
  OBVIOUS
<1>1. Fresh!FreshInv
  BY SameInit, Fresh!InitFresh, SpineAssumption
     DEF SpineInit, SpineAssumption, Fresh!FreshnessAssumption
<1>2. asked = <<>> /\ asked \in Seq(Requests) /\ Len(asked) = 0 /\ DOMAIN asked = {}
  BY DEF SpineInit
<1>3. /\ step = [c \in Callers |-> 0] /\ finding = [c \in Callers |-> "none"]
      /\ run = [c \in Callers |-> 0] /\ entries = [k \in Run |-> <<>>]
      /\ admitted = {} /\ nonces = {} /\ pc = [c \in Callers |-> "idle"]
  BY DEF SpineInit, Store!Init
<1>4. SpineTypeOK
  BY <1>1, <1>2, <1>3, StoreTyped, OrderIs, SpineAssumption
     DEF SpineTypeOK, Findings, SpineAssumption
<1>5. \A c \in Callers : At(c)
  BY <1>3 DEF At
<1>6. \A k \in Run : Entries(k) /\ DOMAIN entries[k] = {}
  BY <1>3 DEF Entries
<1> QED
  BY <1>1, <1>3, <1>4, <1>5, <1>6
     DEF SpineInv, OwnCall, SweptBetween, Honoured, RefusalsSpendNothing

\* Whether a request is among the authentic ones is an answer, yes or no.
LEMMA MembershipIsAnAnswer ==
  ASSUME NEW x, NEW S
  PROVE  \E ok \in BOOLEAN : ok = (x \in S)
<1>1. CASE x \in S
  <2>1. TRUE = (x \in S)
    BY <1>1
  <2> QED
    BY <2>1
<1>2. CASE x \notin S
  <2>1. FALSE = (x \in S)
    BY <1>2
  <2> QED
    BY <2>1
<1> QED
  BY <1>1, <1>2

\* One step of a caller.
LEMMA HandleKeeps ==
  ASSUME SpineInv, NEW c \in Callers, Handle(c), Fresh!FreshInv', Store!TypeOK'
  PROVE  SpineInv'
<1>i. /\ SpineTypeOK /\ Store!TypeOK
      /\ \A b \in Callers : At(b)
      /\ \A j \in Run : Entries(j)
  BY DEF SpineInv, SpineTypeOK
<1>t. /\ step \in [Callers -> 0..Len(Order)] /\ finding \in [Callers -> Findings]
      /\ run \in [Callers -> 0..Len(asked)] /\ pc \in [Callers -> Store!Steps]
      /\ presented \in [Callers -> Presentations]
      /\ 0 \in 0..Len(Order) /\ 0 \in 0..Len(asked) /\ forgotten \in Int
  <2>1. asked \in Seq(Requests)
    BY <1>i DEF SpineTypeOK
  <2>2. Len(asked) \in Nat
    BY <2>1
  <2>3. /\ step \in [Callers -> 0..Len(Order)] /\ finding \in [Callers -> Findings]
        /\ run \in [Callers -> 0..Len(asked)]
    BY <1>i DEF SpineTypeOK
  <2>4. /\ pc \in [Callers -> Store!Steps] /\ presented \in [Callers -> Presentations]
        /\ forgotten \in Int
    BY <1>i DEF Store!TypeOK
  <2> QED
    BY <2>2, <2>3, <2>4, OrderIs
<1>1. CASE \E r \in Requests : Receive(c, r)
  BY <1>1, Receiving
<1>2. CASE Identify(c)
  <2>1. step[c] = 1 /\ Conclude(c, Request(c) \in Authentic) /\ UNCHANGED <<store, admitted>>
    BY <1>2 DEF Identify
  <2>2. PICK ok \in BOOLEAN : ok = (Request(c) \in Authentic)
    BY MembershipIsAnAnswer
  <2>3. Conclude(c, ok)
    BY <2>1, <2>2
  <2>4. ok => step[c] \in 1..4 /\ Proven(run[c], step[c])
    <3>1. ok => asked[run[c]] \in Authentic
      BY <2>2 DEF Request
    <3>2. step[c] \in 1..4 /\ step[c] \notin {2, 3} /\ step[c] \notin {5, 6}
      BY <2>1
    <3> QED
      BY <3>1, <3>2 DEF Proven
  <2>5. pc[c] = "idle"
    BY <1>i, <2>1 DEF At
  <2>6. pc' = [pc EXCEPT ![c] = "idle"]
    BY <1>t, <2>1, <2>5 DEF store
  <2>7. UNCHANGED <<passed, admitted, presented, nonces, forgotten>> /\ step[c] # 0
    BY <2>1 DEF store
  <2> QED
    BY <2>3, <2>4, <2>6, <2>7, Concluding
<1>3. CASE Authorise(c)
  <2>1. step[c] = 4 /\ UNCHANGED <<store, admitted>>
    BY <1>3 DEF Authorise
  <2>2. PICK covered \in BOOLEAN : Conclude(c, Fits(Request(c), covered))
    BY <1>3 DEF Authorise
  <2>3. PICK ok \in BOOLEAN : ok = Fits(Request(c), covered)
    BY DEF Fits
  <2>4. step[c] \in 1..4 /\ Proven(run[c], step[c])
    BY <2>1 DEF Proven
  <2>5. pc[c] = "idle"
    BY <1>i, <2>1 DEF At
  <2>6. pc' = [pc EXCEPT ![c] = "idle"]
    BY <1>t, <2>1, <2>5 DEF store
  <2>7. UNCHANGED <<passed, admitted, presented, nonces, forgotten>> /\ step[c] # 0
    BY <2>1 DEF store
  <2>8. Conclude(c, ok)
    BY <2>2, <2>3
  <2> QED
    BY <2>4, <2>6, <2>7, <2>8, Concluding
<1>4. CASE Answer(c)
  <2>1. /\ finding[c] \in {"passes", "fails"} /\ Conclude(c, finding[c] = "passes")
        /\ UNCHANGED <<store, admitted>>
    BY <1>4 DEF Answer
  <2>2. PICK ok \in BOOLEAN : ok = (finding[c] = "passes")
    OBVIOUS
  <2>3. pc[c] = "idle" /\ step[c] # 0
    BY <1>i, <2>1 DEF At
  <2>4. pc' = [pc EXCEPT ![c] = "idle"]
    BY <1>t, <2>1, <2>3 DEF store
  <2>5. ok => step[c] \in 1..4 /\ Proven(run[c], step[c])
    <3>1. finding[c] = "passes" => step[c] \in {2, 3} /\ HeldBy[Half(c)] = Agent(run[c])
      BY <1>i DEF At
    <3>2. Half(c) = HalfAt(asked[run[c]], step[c])
      BY DEF Half, Request
    <3>3. step[c] \in {2, 3} => step[c] \in 1..4 /\ step[c] # 1 /\ step[c] \notin {5, 6}
      OBVIOUS
    <3>4. ok => finding[c] = "passes"
      BY <2>2
    <3> QED
      BY <3>1, <3>2, <3>3, <3>4 DEF Proven
  <2> QED
    BY <2>1, <2>2, <2>3, <2>4, <2>5, Concluding DEF store
<1>5. CASE Replayed(c)
  <2>1. /\ pc[c] = "refuse" /\ pc' = [pc EXCEPT ![c] = "idle"]
        /\ UNCHANGED <<passed, admitted, presented, nonces, forgotten>>
        /\ Conclude(c, FALSE)
    BY <1>5 DEF Replayed, Store!Refuse, Store!GoTo, Store!sweeper
  <2>2. step[c] # 0
    BY <1>i, <2>1 DEF At
  <2> QED
    BY <2>1, <2>2, Concluding
<1>6. CASE Honour(c)
  BY <1>6, Honouring
<1>7. CASE JudgeMandate(c)
  <2>1. /\ step[c] \in {2, 3} /\ finding[c] = "none"
        /\ UNCHANGED <<store, entries, admitted, step, run, asked>>
        /\ finding' = [finding EXCEPT ![c] =
                         IF Verifies(Half(c), ClaimedBy[Request(c)]) THEN "passes" ELSE "fails"]
    BY <1>7 DEF JudgeMandate, Found
  <2>2. /\ finding'[c] \in {"passes", "fails"}
        /\ finding'[c] = "passes" => HeldBy[Half(c)] = Agent(run[c])
        /\ \A b \in Callers \ {c} : finding'[b] = finding[b]
    BY <1>t, <2>1 DEF Verifies, Agent, Request
  <2>3. SpineTypeOK'
    BY <1>i, <1>t, <2>1, <2>2 DEF SpineTypeOK, Findings
  <2>4. pc[c] = "idle"
    BY <1>i, <2>1 DEF At
  <2>5. At(c)'
    BY <1>i, <2>1, <2>2, <2>4 DEF At, Half, Request, Agent, store
  <2>6. {c} \in SUBSET Callers /\ forgotten' >= forgotten
    BY <1>t, <2>1 DEF store
  <2> QED
    BY <2>1, <2>2, <2>3, <2>5, <2>6, Quiet DEF store
<1>8. CASE JudgeHop(c)
  <2>1. /\ step[c] \in {5, 6} /\ finding[c] = "none"
        /\ UNCHANGED <<entries, admitted, step, run, asked, passed, nonces, forgotten>>
        /\ presented' = [presented EXCEPT ![c] = Half(c)]
        /\ pc[c] = "idle" /\ pc'[c] \in {"claim", "idle"}
        /\ \A b \in Callers \ {c} : pc'[b] = pc[b]
        /\ finding' = [finding EXCEPT ![c] = IF pc'[c] = "claim" THEN "fresh" ELSE "fails"]
    BY <1>8, <1>t DEF JudgeHop, Found, Store!Evaluate, Store!GoTo, Store!trail, Store!sweeper
  <2>2. /\ finding'[c] \in {"fresh", "fails"} /\ (finding'[c] = "fresh" <=> pc'[c] # "idle")
        /\ presented'[c] = Half(c)
        /\ \A b \in Callers \ {c} : finding'[b] = finding[b] /\ presented'[b] = presented[b]
    BY <1>t, <2>1
  <2>3. SpineTypeOK'
    BY <1>i, <1>t, <2>1, <2>2 DEF SpineTypeOK, Findings
  <2>4. At(c)'
    BY <1>i, <2>1, <2>2 DEF At, Half, Request, Agent
  <2>5. {c} \in SUBSET Callers /\ forgotten' >= forgotten
    BY <1>t, <2>1
  <2> QED
    BY <2>1, <2>2, <2>3, <2>4, <2>5, Quiet
<1>9. CASE Claim(c)
  <2>1. /\ UNCHANGED <<entries, admitted, step, finding, run, asked, passed, nonces,
                       presented, forgotten>>
        /\ pc[c] = "claim" /\ pc'[c] \in {"refuse", "record"}
        /\ \A b \in Callers \ {c} : pc'[b] = pc[b]
    BY <1>9, <1>t DEF Claim, thread, Store!Claim, Store!GoTo, Store!trail, Store!sweeper
  <2>2. SpineTypeOK'
    BY <1>i, <2>1 DEF SpineTypeOK
  <2>3. At(c)'
    BY <1>i, <2>1 DEF At, Half, Request, Agent
  <2>4. {c} \in SUBSET Callers /\ forgotten' >= forgotten
    BY <1>t, <2>1
  <2> QED
    BY <2>1, <2>2, <2>3, <2>4, Quiet
<1>10. CASE Die(c)
  <2>1. /\ UNCHANGED <<entries, admitted, asked, passed, nonces, presented, forgotten>>
        /\ pc'[c] = "idle" /\ \A b \in Callers \ {c} : pc'[b] = pc[b]
    BY <1>10, <1>t DEF Die, store, GoTo, Store!Fault, Store!GoTo, Store!trail, Store!sweeper
  <2>2. /\ step' = [step EXCEPT ![c] = 0] /\ finding' = [finding EXCEPT ![c] = "none"]
        /\ run' = [run EXCEPT ![c] = 0]
    BY <1>10 DEF Die, GoTo
  <2>3. /\ step'[c] = 0 /\ finding'[c] = "none" /\ run'[c] = 0
        /\ \A b \in Callers \ {c} :
             step'[b] = step[b] /\ finding'[b] = finding[b] /\ run'[b] = run[b]
    BY <1>t, <2>2
  <2>4. step' \in [Callers -> 0..Len(Order)] /\ run' \in [Callers -> 0..Len(asked)]
        /\ finding' \in [Callers -> Findings]
    BY <1>t, <2>2 DEF Findings
  <2>5. SpineTypeOK'
    BY <1>i, <2>1, <2>4 DEF SpineTypeOK
  <2>6. At(c)'
    BY <2>1, <2>3 DEF At
  <2>7. {c} \in SUBSET Callers /\ forgotten' >= forgotten
    BY <1>t, <2>1
  <2> QED
    BY <2>1, <2>3, <2>5, <2>6, <2>7, Quiet
<1> QED
  BY <1>1, <1>2, <1>3, <1>4, <1>5, <1>6, <1>7, <1>8, <1>9, <1>10 DEF Handle

\* Every step keeps the invariant.
LEMMA NextSpine == SpineInv /\ [SpineNext]_spineVars => SpineInv'
<1> SUFFICES ASSUME SpineInv, [SpineNext]_spineVars PROVE SpineInv'
  OBVIOUS
<1>1. Fresh!FreshInv' /\ Store!TypeOK'
  BY StoreKept
<1>i. SpineTypeOK /\ forgotten \in Int /\ clock \in Int /\ sweep \in Int
  BY DEF SpineInv, SpineTypeOK, Store!TypeOK
<1>2. ASSUME NEW c \in Callers, Handle(c) PROVE SpineInv'
  BY <1>1, <1>2, HandleKeeps
<1>3. ASSUME UNCHANGED <<thread, entries, admitted, pc, presented, passed>>,
             nonces' \subseteq nonces, forgotten' >= forgotten
      PROVE  SpineInv'
  <2>1. SpineTypeOK'
    BY <1>1, <1>i, <1>3 DEF SpineTypeOK, thread
  <2>2. {} \in SUBSET Callers
    OBVIOUS
  <2>3. /\ UNCHANGED <<entries, admitted, asked, passed>>
        /\ step' = step /\ finding' = finding /\ run' = run
        /\ pc' = pc /\ presented' = presented
    BY <1>3 DEF thread
  <2> QED
    BY <1>1, <1>3, <2>1, <2>2, <2>3, Quiet
<1>4. CASE Around
  <2>1. UNCHANGED <<thread, entries, admitted, pc, presented, passed>>
    BY <1>4 DEF Around, Store!Tick, Store!BeginSweep, Store!Forget, Store!caller, Store!trail
  <2>2. nonces' \subseteq nonces /\ forgotten' >= forgotten
    BY <1>4, <1>i DEF Around, Store!Tick, Store!BeginSweep, Store!Forget, Store!sweeper, Store!Later
  <2> QED
    BY <1>3, <2>1, <2>2
<1>5. CASE UNCHANGED spineVars
  <2>1. UNCHANGED <<thread, entries, admitted, pc, presented, passed, nonces, forgotten>>
    BY <1>5 DEF spineVars, store
  <2> QED
    BY <1>3, <1>i, <2>1
<1> QED
  BY <1>2, <1>4, <1>5 DEF SpineNext
-----------------------------------------------------------------------------
(* What holds of every behaviour of the spine.                             *)

\* The spine's invariant, for any number of callers and requests.
THEOREM SpineInductive == SpineSpec => []SpineInv
BY InitSpine, NextSpine, PTL DEF SpineSpec

\* Type correctness.
THEOREM SpineTyped == SpineSpec => []SpineTypeOK
<1>1. SpineInv => SpineTypeOK
  BY DEF SpineInv
<1> QED
  BY <1>1, SpineInductive, PTL

\* What a call has written is the checks in order from the first, nothing after a
\* refusal, and all of them passed if the call was let through.
THEOREM RunsKeepOrder == SpineSpec => []RunsAreInOrder
<1>1. SpineInv => RunsAreInOrder
  <2> SUFFICES ASSUME SpineInv, NEW k \in DOMAIN asked
               PROVE  /\ \A i \in DOMAIN entries[k] :
                           /\ entries[k][i].check = Order[i]
                           /\ entries[k][i].refused => i = Len(entries[k])
                      /\ k \in admitted =>
                           /\ Len(entries[k]) = Len(Order)
                           /\ \A i \in DOMAIN entries[k] : ~entries[k][i].refused
    BY DEF RunsAreInOrder
  <2>1. asked \in Seq(Requests) /\ Len(asked) <= MaxRuns /\ MaxRuns \in Nat
    BY SpineAssumption DEF SpineInv, SpineTypeOK, SpineAssumption
  <2>2. k \in Run
    BY <2>1 DEF Run
  <2>3. Entries(k)
    BY <2>2 DEF SpineInv
  <2> QED
    BY <2>3, OrderIs DEF Entries
<1> QED
  BY <1>1, SpineInductive, PTL

\* A nonce is spent only by its own agent's authentic request that every check passed.
THEOREM RefusalsNeverSpend == SpineSpec => []RefusalsSpendNothing
<1>1. SpineInv => RefusalsSpendNothing
  BY DEF SpineInv
<1> QED
  BY <1>1, SpineInductive, PTL

\* A nonce is carried by one passed request, unless a sweep has forgotten one of the
\* presentations as stale.
THEOREM NoncesPassOnce == SpineSpec => []ANoncePassesOnce
<1>1. ASSUME SpineInv PROVE ANoncePassesOnce
  <2>1. asked \in Seq(Requests) /\ Len(asked) <= MaxRuns /\ MaxRuns \in Nat
        /\ admitted \subseteq DOMAIN asked
    BY <1>1, SpineAssumption DEF SpineInv, SpineTypeOK, SpineAssumption
  <2>2. \A k \in admitted : k \in Run
    BY <2>1 DEF Run
  <2>3. ASSUME NEW k \in admitted, NEW i \in {5, 6} PROVE Honoured(k, i)
    <3>1. Entries(k) /\ entries[k] \in Seq(Entry)
      BY <1>1, <2>2 DEF SpineInv, SpineTypeOK
    <3>2. Len(entries[k]) = 6 /\ \A n \in DOMAIN entries[k] : ~entries[k][n].refused
      BY <3>1 DEF Entries
    <3>3. DOMAIN entries[k] = 1..6
      BY <3>1, <3>2
    <3> QED
      BY <3>2, <3>3 DEF Honoured
  <2>4. ASSUME NEW j \in admitted, NEW k \in admitted, NEW i \in {5, 6}, NEW m \in {5, 6},
               <<j, i>> # <<k, m>>,
               Key[HalfAt(asked[j], i)] = Key[HalfAt(asked[k], m)]
        PROVE  SweptSince(HalfAt(asked[j], i)) \/ SweptSince(HalfAt(asked[k], m))
    BY <1>1, <2>2, <2>3, <2>4 DEF SpineInv, SweptBetween
  <2>5. \A k : HalfAt(asked[k], 5) = Checkout[asked[k]] /\ HalfAt(asked[k], 6) = Payment[asked[k]]
    BY DEF HalfAt
  <2>6. ASSUME NEW j \in admitted, NEW k \in admitted, NEW p \in Halves(j), NEW q \in Halves(k),
               j # k, Key[p] = Key[q]
        PROVE  SweptSince(p) \/ SweptSince(q)
    <3>1. PICK i \in {5, 6} : p = HalfAt(asked[j], i)
      BY <2>5 DEF Halves
    <3>2. PICK m \in {5, 6} : q = HalfAt(asked[k], m)
      BY <2>5 DEF Halves
    <3> QED
      BY <2>4, <2>6, <3>1, <3>2
  <2>7. ASSUME NEW k \in admitted, Key[Checkout[asked[k]]] = Key[Payment[asked[k]]]
        PROVE  \E p \in Halves(k) : SweptSince(p)
    BY <2>4, <2>5, <2>7 DEF Halves
  <2> QED
    BY <2>6, <2>7 DEF ANoncePassesOnce
<1> QED
  BY <1>1, SpineInductive, PTL

\* The spine uses the nonce store as check 4 says: no order of checks, refusals and
\* deaths spends a nonce in another way.
THEOREM SpineChecksFreshness == SpineSpec => ChecksFreshness
<1>1. SpineInit => Store!Init
  BY DEF SpineInit
<1> QED
  BY <1>1, SpineInductive, SpineStepsStore, PTL DEF SpineSpec, ChecksFreshness, Store!Spec
-----------------------------------------------------------------------------
(* The trail that the history is read out of.                              *)

Line == [run : Nat, check : 1..5, refused : BOOLEAN, amount : Nat]

TrueOf(a, line) ==
  /\ line.run \in DOMAIN asked
  /\ Agent(line.run) = a
  /\ line.check = 3 => line.amount = Amount[asked[line.run]]
  /\ line.check = 3 /\ ~line.refused => Cleared(line.run, 3)

Heard(k) == Trace(k) = {} <=> entries[k] = <<>>

OpensByCheck1(k) ==
  \A i \in Trace(k) :
    trail[Agent(k)][i].check = 1 <=> \A j \in Trace(k) : i <= j

HistoryInv ==
  /\ SpineInv
  /\ trail \in [Agents -> Seq(Line)]
  /\ \A a \in Agents : \A i \in DOMAIN trail[a] : TrueOf(a, trail[a][i])
  /\ \A k \in DOMAIN asked : Heard(k) /\ OpensByCheck1(k)
-----------------------------------------------------------------------------
(* What a step of the spine writes, and what it leaves.                    *)

\* A caller that writes anything writes one verdict, in its own call.
LEMMA HandleWrites ==
  ASSUME SpineInv, NEW c \in Callers, Handle(c), entries' # entries
  PROVE  /\ step[c] # 0 /\ asked' = asked
         /\ \E refused \in BOOLEAN : Write(c, refused)
<1>i. At(c)
  BY DEF SpineInv
<1>n. ASSUME NEW ok \in BOOLEAN, Write(c, ~ok) PROVE \E refused \in BOOLEAN : Write(c, refused)
  <2>1. PICK refused \in BOOLEAN : refused = ~ok
    OBVIOUS
  <2> QED
    BY <1>n, <2>1
<1>1. CASE Identify(c)
  <2>1. PICK ok \in BOOLEAN : ok = (Request(c) \in Authentic)
    BY MembershipIsAnAnswer
  <2>2. Write(c, ~ok) /\ asked' = asked /\ step[c] = 1
    BY <1>1, <2>1 DEF Identify, Conclude, GoTo
  <2> QED
    BY <1>n, <2>2
<1>2. CASE Authorise(c)
  <2>1. PICK covered \in BOOLEAN : Conclude(c, Fits(Request(c), covered))
    BY <1>2 DEF Authorise
  <2>2. PICK ok \in BOOLEAN : ok = Fits(Request(c), covered)
    BY DEF Fits
  <2>3. Write(c, ~ok) /\ asked' = asked /\ step[c] = 4
    BY <1>2, <2>1, <2>2 DEF Authorise, Conclude, GoTo
  <2> QED
    BY <1>n, <2>3
<1>3. CASE Answer(c)
  <2>1. PICK ok \in BOOLEAN : ok = (finding[c] = "passes")
    OBVIOUS
  <2>2. Write(c, ~ok) /\ asked' = asked /\ finding[c] # "none"
    BY <1>3, <2>1 DEF Answer, Conclude, GoTo
  <2> QED
    BY <1>i, <1>n, <2>2 DEF At
<1>4. CASE Replayed(c)
  <2>1. Write(c, ~FALSE) /\ asked' = asked /\ pc[c] # "idle"
    BY <1>4 DEF Replayed, Conclude, GoTo, Store!Refuse
  <2> QED
    BY <1>i, <2>1 DEF At
<1>5. CASE Honour(c)
  <2>1. Write(c, FALSE) /\ asked' = asked /\ pc[c] # "idle"
    BY <1>5 DEF Honour, GoTo, Store!Record
  <2> QED
    BY <1>i, <2>1 DEF At
<1>6. CASE JudgeMandate(c) \/ JudgeHop(c) \/ Claim(c) \/ Die(c) \/ \E r \in Requests : Receive(c, r)
  BY <1>6 DEF JudgeMandate, JudgeHop, Claim, Die, Receive
<1> QED
  BY <1>1, <1>2, <1>3, <1>4, <1>5, <1>6 DEF Handle

\* A call is of the request it was made with.
LEMMA AskedStays ==
  ASSUME SpineInv, NEW c \in Callers, Handle(c)
  PROVE  /\ DOMAIN asked \subseteq DOMAIN asked'
         /\ \A k \in DOMAIN asked : asked'[k] = asked[k]
         /\ entries' # entries => asked' = asked
         /\ \A k \in DOMAIN asked' \ DOMAIN asked : k \in Run
<1>t. asked \in Seq(Requests) /\ Len(asked) \in Nat /\ MaxRuns \in Nat
  BY SpineAssumption DEF SpineInv, SpineTypeOK, SpineAssumption
<1>1. CASE \E r \in Requests : Receive(c, r)
  <2>1. PICK r \in Requests : asked' = Append(asked, r) /\ Len(asked) < MaxRuns /\ entries' = entries
    BY <1>1 DEF Receive
  <2>2. Len(asked') = Len(asked) + 1 /\ \A k \in 1..Len(asked) : asked'[k] = asked[k]
    BY <1>t, <2>1, AppendProperties
  <2>3. DOMAIN asked' = 1..(Len(asked) + 1) /\ DOMAIN asked = 1..Len(asked)
    BY <1>t, <2>1, AppendProperties
  <2> QED
    BY <1>t, <2>1, <2>2, <2>3 DEF Run
<1>2. CASE ~\E r \in Requests : Receive(c, r)
  <2>1. asked' = asked
    BY <1>2 DEF Handle, Identify, Authorise, Answer, Replayed, Honour, JudgeMandate, JudgeHop,
      Claim, Die, Conclude, GoTo, Found, thread
  <2> QED
    BY <2>1
<1> QED
  BY <1>1, <1>2

\* The agent that a call is of.
LEMMA AgentsCall ==
  ASSUME SpineInv, NEW k \in DOMAIN asked
  PROVE  Agent(k) \in Agents /\ asked[k] \in Requests /\ k \in Run /\ Amount[asked[k]] \in Nat
<1>1. asked \in Seq(Requests) /\ Len(asked) <= MaxRuns /\ MaxRuns \in Nat
  BY SpineAssumption DEF SpineInv, SpineTypeOK, SpineAssumption
<1>2. asked[k] \in Requests /\ k \in Run
  BY <1>1, ElementOfSeq DEF Run
<1>3. ClaimedBy[asked[k]] \in Agents /\ Amount[asked[k]] \in Nat
  BY <1>2, SpineAssumption DEF SpineAssumption
<1> QED
  BY <1>2, <1>3 DEF Agent

\* What check 3 has passed stays passed.
LEMMA ClearedStays ==
  ASSUME SpineInv, NEW c \in Callers, Handle(c), NEW k \in DOMAIN asked, Cleared(k, 3)
  PROVE  Cleared(k, 3)'
<1>1. CASE entries' = entries
  BY <1>1 DEF Cleared
<1>2. CASE entries' # entries
  <2>1. step[c] # 0 /\ \E refused \in BOOLEAN : Write(c, refused)
    BY <1>2, HandleWrites
  <2> QED
    BY <2>1, AgentsCall, StillCleared
<1> QED
  BY <1>1, <1>2
-----------------------------------------------------------------------------
(* A line more in the trail.                                               *)

\* A line is told at the end of its agent's trail, and of no other's.
LEMMA TellAppends ==
  ASSUME HistoryInv, NEW k \in DOMAIN asked, NEW e, Tell(k, e),
         e.check \in 1..5, e.refused \in BOOLEAN, e.amount \in Nat
  PROVE  LET s == trail[Agent(k)]
             t == trail'[Agent(k)]
         IN  /\ trail' \in [Agents -> Seq(Line)]
             /\ Len(s) \in Nat /\ DOMAIN s = 1..Len(s)
             /\ DOMAIN t = 1..(Len(s) + 1)
             /\ \A i \in 1..Len(s) : t[i] = s[i]
             /\ t[Len(s) + 1].run = k /\ t[Len(s) + 1].check = e.check
             /\ t[Len(s) + 1].refused = e.refused /\ t[Len(s) + 1].amount = e.amount
             /\ \A a \in Agents \ {Agent(k)} : trail'[a] = trail[a]
<1> DEFINE a == Agent(k)
           s == trail[a]
           told == [run |-> k, check |-> e.check, refused |-> e.refused, amount |-> e.amount]
<1>1. a \in Agents /\ k \in Nat
  BY AgentsCall DEF HistoryInv, Run
<1>2. trail \in [Agents -> Seq(Line)] /\ s \in Seq(Line)
  BY <1>1 DEF HistoryInv
<1>3. told \in Line
  BY <1>1 DEF Line
<1>4. trail' = [trail EXCEPT ![a] = Append(s, told)]
  BY DEF Tell, Agent
<1>5. told.run = k /\ told.check = e.check /\ told.refused = e.refused /\ told.amount = e.amount
  OBVIOUS
<1> HIDE DEF told, a, s
<1>6. /\ Append(s, told) \in Seq(Line) /\ Len(Append(s, told)) = Len(s) + 1
      /\ \A i \in 1..Len(s) : Append(s, told)[i] = s[i]
      /\ Append(s, told)[Len(s) + 1] = told
  BY <1>2, <1>3, AppendProperties
<1>7. Len(s) \in Nat /\ DOMAIN s = 1..Len(s) /\ DOMAIN Append(s, told) = 1..(Len(s) + 1)
  BY <1>2, <1>6
<1>8. trail'[a] = Append(s, told) /\ \A b \in Agents \ {a} : trail'[b] = trail[b]
  BY <1>1, <1>2, <1>4
<1>9. trail' \in [Agents -> Seq(Line)]
  BY <1>2, <1>4, <1>6
<1> QED
  BY <1>5, <1>6, <1>7, <1>8, <1>9 DEF a, s

\* A line that says of its call what the call's entries say, told where none of check
\* 1 follows another, keeps the invariant.
LEMMA Telling ==
  ASSUME HistoryInv, SpineInv', asked' = asked,
         NEW k \in DOMAIN asked, NEW e, Tell(k, e),
         e.check \in 1..5, e.refused \in BOOLEAN, e.amount \in Nat,
         e.check = 3 => e.amount = Amount[asked[k]],
         e.check = 3 /\ ~e.refused => Cleared(k, 3)',
         e.check = 1 <=> entries[k] = <<>>,
         entries'[k] # <<>>,
         \A j \in DOMAIN asked \ {k} : entries'[j] = entries[j],
         \A j \in DOMAIN asked : Cleared(j, 3) => Cleared(j, 3)'
  PROVE  HistoryInv'
<1> DEFINE n == Len(trail[Agent(k)]) + 1
<1>i. /\ SpineInv
      /\ \A a \in Agents : \A i \in DOMAIN trail[a] : TrueOf(a, trail[a][i])
      /\ \A j \in DOMAIN asked : Heard(j) /\ OpensByCheck1(j)
  BY DEF HistoryInv
<1>a. \A j \in DOMAIN asked : Agent(j) \in Agents /\ Agent(j)' = Agent(j)
  BY <1>i, AgentsCall DEF Agent
<1>t. /\ trail' \in [Agents -> Seq(Line)]
      /\ Len(trail[Agent(k)]) \in Nat
      /\ DOMAIN trail[Agent(k)] = 1..Len(trail[Agent(k)])
      /\ DOMAIN trail'[Agent(k)] = 1..(Len(trail[Agent(k)]) + 1)
      /\ \A i \in 1..Len(trail[Agent(k)]) : trail'[Agent(k)][i] = trail[Agent(k)][i]
      /\ trail'[Agent(k)][n].run = k /\ trail'[Agent(k)][n].check = e.check
      /\ trail'[Agent(k)][n].refused = e.refused /\ trail'[Agent(k)][n].amount = e.amount
      /\ \A a \in Agents \ {Agent(k)} : trail'[a] = trail[a]
  BY TellAppends
<1>n. /\ n \in Nat /\ n \in DOMAIN trail'[Agent(k)]
      /\ \A i \in DOMAIN trail[Agent(k)] : i \in Nat /\ i < n /\ i \in DOMAIN trail'[Agent(k)]
      /\ \A i \in DOMAIN trail'[Agent(k)] : i = n \/ i \in DOMAIN trail[Agent(k)]
  BY <1>t
<1>e. \A i \in DOMAIN trail[Agent(k)] : trail'[Agent(k)][i] = trail[Agent(k)][i]
  BY <1>t
<1> HIDE DEF n
<1>1. ASSUME NEW a \in Agents, NEW i \in DOMAIN trail'[a] PROVE TrueOf(a, trail[a][i])'
  <2>1. ASSUME NEW line, TrueOf(a, line) PROVE TrueOf(a, line)'
    <3>1. line.run \in DOMAIN asked /\ Agent(line.run) = a
          /\ (line.check = 3 => line.amount = Amount[asked[line.run]])
          /\ (line.check = 3 /\ ~line.refused => Cleared(line.run, 3))
      BY <2>1 DEF TrueOf
    <3>2. Agent(line.run)' = a
      BY <1>a, <3>1
    <3>3. line.check = 3 /\ ~line.refused => Cleared(line.run, 3)'
      BY <3>1
    <3> QED
      BY <3>1, <3>2, <3>3 DEF TrueOf
  <2>2. CASE i \in DOMAIN trail[a] /\ trail'[a][i] = trail[a][i]
    <3>1. PICK line : line = trail[a][i]
      OBVIOUS
    <3>2. TrueOf(a, line)
      BY <1>i, <2>2, <3>1
    <3>3. TrueOf(a, line)'
      BY <2>1, <3>2
    <3> QED
      BY <2>2, <3>1, <3>3 DEF TrueOf, Cleared, Agent
  <2>3. CASE a = Agent(k) /\ i = n
    <3>1. k \in DOMAIN asked' /\ Agent(k)' = a /\ asked'[k] = asked[k]
      BY <1>a, <2>3
    <3>2. /\ trail'[a][i].run = k /\ trail'[a][i].check = e.check
          /\ trail'[a][i].refused = e.refused /\ trail'[a][i].amount = e.amount
      BY <1>t, <2>3
    <3> QED
      BY <3>1, <3>2 DEF TrueOf, Cleared, Agent
  <2> QED
    BY <1>t, <1>n, <1>e, <2>2, <2>3
<1>2. ASSUME NEW j \in DOMAIN asked, j # k
      PROVE  /\ \A i : i \in Trace(j)' <=> i \in Trace(j)
             /\ \A i \in Trace(j) : trail'[Agent(j)][i] = trail[Agent(j)][i]
  <2>1. CASE Agent(j) # Agent(k)
    BY <1>a, <1>t, <2>1 DEF Trace
  <2>2. CASE Agent(j) = Agent(k)
    <3>1. Agent(j)' = Agent(k) /\ trail'[Agent(k)][n].run # j
      BY <1>a, <1>t, <1>2, <2>2
    <3>2. \A i \in Trace(j) : i \in DOMAIN trail[Agent(k)] /\ trail[Agent(k)][i].run = j
      BY <2>2 DEF Trace
    <3>3. \A i : i \in Trace(j)' <=> i \in DOMAIN trail'[Agent(k)] /\ trail'[Agent(k)][i].run = j
      BY <3>1 DEF Trace
    <3>4. \A i \in Trace(j) : i \in Trace(j)' /\ trail'[Agent(j)][i] = trail[Agent(j)][i]
      BY <1>n, <1>e, <2>2, <3>2, <3>3
    <3>5. \A i \in Trace(j)' : i \in Trace(j)
      BY <1>n, <1>e, <2>2, <3>1, <3>3 DEF Trace
    <3> QED
      BY <3>4, <3>5
  <2> QED
    BY <2>1, <2>2
<1>3. /\ \A i : i \in Trace(k)' <=> i \in Trace(k) \/ i = n
      /\ \A i \in Trace(k) : trail'[Agent(k)][i] = trail[Agent(k)][i] /\ i \in Nat /\ i < n
  BY <1>a, <1>t, <1>n, <1>e DEF Trace
<1>4. ASSUME NEW j \in DOMAIN asked, j # k PROVE Heard(j)' /\ OpensByCheck1(j)'
  <2>1. Heard(j) /\ OpensByCheck1(j) /\ entries'[j] = entries[j] /\ Agent(j)' = Agent(j)
    BY <1>i, <1>a, <1>4
  <2>2. Heard(j)'
    BY <1>2, <1>4, <2>1 DEF Heard
  <2>3. OpensByCheck1(j)'
    BY <1>2, <1>4, <2>1 DEF OpensByCheck1
  <2> QED
    BY <2>2, <2>3
<1>5. Heard(k)'
  BY <1>3 DEF Heard
<1>6. OpensByCheck1(k)'
  <2>1. OpensByCheck1(k) /\ Heard(k) /\ Agent(k)' = Agent(k)
    BY <1>i, <1>a
  <2>2. ASSUME NEW i \in Trace(k)'
        PROVE  trail'[Agent(k)][i].check = 1 <=> \A j \in Trace(k)' : i <= j
    <3>1. CASE i \in Trace(k)
      BY <1>3, <1>n, <2>1, <3>1 DEF OpensByCheck1
    <3>2. CASE i = n /\ Trace(k) = {}
      BY <1>3, <1>n, <1>t, <2>1, <3>2 DEF Heard
    <3>3. CASE i = n /\ Trace(k) # {}
      <4>1. PICK m \in Trace(k) : m \in Nat /\ m < n /\ m \in Trace(k)'
        BY <1>3, <3>3
      <4>2. e.check # 1
        BY <2>1, <3>3 DEF Heard
      <4> QED
        BY <1>n, <1>t, <3>3, <4>1, <4>2
    <3> QED
      BY <1>3, <3>1, <3>2, <3>3
  <2> QED
    BY <2>1, <2>2 DEF OpensByCheck1
<1>7. \A j \in DOMAIN asked' : Heard(j)' /\ OpensByCheck1(j)'
  BY <1>4, <1>5, <1>6
<1> QED
  BY <1>t, <1>1, <1>7 DEF HistoryInv
-----------------------------------------------------------------------------
(* The invariant.                                                          *)

\* Before the first request there is no trail.
LEMMA InitHistory == HistoryInit => HistoryInv
<1> SUFFICES ASSUME HistoryInit PROVE HistoryInv
  OBVIOUS
<1>1. SpineInv /\ asked = <<>> /\ DOMAIN asked = {}
  BY InitSpine DEF HistoryInit, SpineInit
<1>2. trail = [a \in Agents |-> <<>>]
  BY DEF HistoryInit
<1>3. trail \in [Agents -> Seq(Line)] /\ \A a \in Agents : DOMAIN trail[a] = {}
  BY <1>2
<1> QED
  BY <1>1, <1>3 DEF HistoryInv

\* A step that writes nothing.
LEMMA NothingTold ==
  ASSUME HistoryInv, SpineInv', entries' = entries, trail' = trail,
         DOMAIN asked \subseteq DOMAIN asked', \A k \in DOMAIN asked : asked'[k] = asked[k],
         \A k \in DOMAIN asked' \ DOMAIN asked : k \in Run
  PROVE  HistoryInv'
<1>i. /\ SpineInv /\ trail \in [Agents -> Seq(Line)]
      /\ \A a \in Agents : \A i \in DOMAIN trail[a] : TrueOf(a, trail[a][i])
      /\ \A j \in DOMAIN asked : Heard(j) /\ OpensByCheck1(j)
  BY DEF HistoryInv
<1>1. ASSUME NEW a \in Agents, NEW i \in DOMAIN trail[a] PROVE TrueOf(a, trail[a][i])'
  <2>1. TrueOf(a, trail[a][i])
    BY <1>i
  <2>2. PICK k \in DOMAIN asked : k = trail[a][i].run
    BY <2>1 DEF TrueOf
  <2>3. Agent(k)' = Agent(k) /\ (Cleared(k, 3) => Cleared(k, 3)') /\ k \in DOMAIN asked'
        /\ asked'[k] = asked[k]
    BY DEF Agent, Cleared
  <2>4. TrueOf(a, trail[a][i])' <=>
          /\ k \in DOMAIN asked' /\ Agent(k)' = a
          /\ trail[a][i].check = 3 => trail[a][i].amount = Amount[asked'[k]]
          /\ trail[a][i].check = 3 /\ ~trail[a][i].refused => Cleared(k, 3)'
    BY <2>2 DEF TrueOf, Cleared, Agent
  <2>5. /\ Agent(k) = a
        /\ trail[a][i].check = 3 => trail[a][i].amount = Amount[asked[k]]
        /\ trail[a][i].check = 3 /\ ~trail[a][i].refused => Cleared(k, 3)
    BY <2>1, <2>2 DEF TrueOf
  <2> QED
    BY <2>3, <2>4, <2>5
<1>2. ASSUME NEW k \in DOMAIN asked PROVE Heard(k)' /\ OpensByCheck1(k)'
  <2>1. Agent(k)' = Agent(k) /\ entries'[k] = entries[k]
    BY DEF Agent
  <2>2. Trace(k)' = Trace(k)
    BY <2>1 DEF Trace
  <2>3. Heard(k) /\ OpensByCheck1(k)
    BY <1>i
  <2> QED
    BY <2>1, <2>2, <2>3 DEF Heard, OpensByCheck1
<1>3. ASSUME NEW k \in DOMAIN asked' \ DOMAIN asked PROVE Heard(k)' /\ OpensByCheck1(k)'
  <2>1. entries'[k] = <<>>
    BY <1>i DEF SpineInv, Entries
  <2>2. Agent(k)' \in Agents
    <3>1. asked' \in Seq(Requests)
      BY DEF SpineInv, SpineTypeOK
    <3>2. asked'[k] \in Requests
      BY <3>1, ElementOfSeq
    <3> QED
      BY <3>2, SpineAssumption DEF SpineAssumption, Agent
  <2>3. \A i \in DOMAIN trail'[Agent(k)'] : trail'[Agent(k)'][i].run \in DOMAIN asked
    BY <1>i, <2>2 DEF TrueOf
  <2>4. \A i : i \notin Trace(k)'
    BY <2>3 DEF Trace
  <2> QED
    BY <2>1, <2>4 DEF Heard, OpensByCheck1
<1> QED
  BY <1>i, <1>1, <1>2, <1>3 DEF HistoryInv

\* A check of the spine's that records, and the line told of it.
LEMMA SpineTells ==
  ASSUME HistoryInv, SpineInv', NEW c \in Callers, Handle(c),
         NEW k \in DOMAIN asked, entries'[k] # entries[k],
         Tell(k, entries'[k][Len(entries'[k])])
  PROVE  HistoryInv'
<1>i. SpineInv /\ \A b \in Callers : At(b)
  BY DEF HistoryInv, SpineInv
<1>1. /\ step[c] # 0 /\ asked' = asked
      /\ \E refused \in BOOLEAN : Write(c, refused)
  BY <1>i, HandleWrites
<1>2. PICK refused \in BOOLEAN : Write(c, refused)
  BY <1>1
<1>3. k \in Run /\ Amount[asked[k]] \in Nat
  BY <1>i, AgentsCall
<1>w. /\ Len(entries'[run[c]]) = step[c] /\ DOMAIN entries'[run[c]] = 1..step[c]
      /\ entries'[run[c]][step[c]].check = Order[step[c]]
      /\ entries'[run[c]][step[c]].refused = refused
      /\ entries'[run[c]][step[c]].amount = IF Order[step[c]] = 3 THEN Amount[Request(c)] ELSE 0
      /\ \A j \in Run \ {run[c]} : entries'[j] = entries[j]
  BY <1>i, <1>1, <1>2, Written
<1>4. k = run[c] /\ step[c] \in 1..6 /\ Request(c) = asked[k]
  BY <1>i, <1>1, <1>3, <1>w, InACall DEF Request
<1>5. PICK e : e = entries'[k][Len(entries'[k])]
  OBVIOUS
<1>6. /\ e.check = Order[step[c]] /\ e.refused = refused
      /\ e.amount = IF Order[step[c]] = 3 THEN Amount[asked[k]] ELSE 0
      /\ e = entries'[k][step[c]] /\ step[c] \in DOMAIN entries'[k]
  BY <1>w, <1>4, <1>5
<1>7. e.check \in 1..5 /\ e.amount \in Nat /\ e.refused \in BOOLEAN
  BY <1>3, <1>4, <1>6, OrderIs
<1>8. e.check = 3 => e.amount = Amount[asked[k]]
  BY <1>6
<1>9. e.check = 3 /\ ~e.refused => Cleared(k, 3)'
  BY <1>6 DEF Cleared
<1>10. e.check = 1 <=> entries[k] = <<>>
  <2>1. entries[k] \in Seq(Entry) /\ Len(entries[k]) = step[c] - 1
    BY <1>i, <1>1, <1>3, <1>4 DEF SpineInv, SpineTypeOK, At
  <2>2. entries[k] = <<>> <=> step[c] = 1
    BY <1>4, <2>1, EmptySeq
  <2>3. Order[step[c]] = 1 <=> step[c] = 1
    BY <1>4, OrderIs
  <2> QED
    BY <1>6, <2>2, <2>3
<1>11. entries'[k] # <<>>
  BY <1>4, <1>6, <1>w
<1>12. \A j \in DOMAIN asked \ {k} : entries'[j] = entries[j]
  BY <1>i, <1>4, <1>w, AgentsCall
<1>13. \A j \in DOMAIN asked : Cleared(j, 3) => Cleared(j, 3)'
  BY <1>i, ClearedStays
<1> QED
  BY <1>1, <1>5, <1>7, <1>8, <1>9, <1>10, <1>11, <1>12, <1>13, Telling

\* Check 5's two halves: they record, and leave the spine as it was.
LEMMA ExaminingTells ==
  ASSUME HistoryInv, SpineInv', NEW k \in DOMAIN asked, NEW half, Examine(k, half)
  PROVE  HistoryInv'
<1>i. SpineInv
  BY DEF HistoryInv
<1>1. PICK refused \in BOOLEAN : Tell(k, [check |-> 5, refused |-> refused, amount |-> 0])
  BY DEF Examine
<1>2. PICK e : e = [check |-> 5, refused |-> refused, amount |-> 0]
  OBVIOUS
<1>3. asked' = asked /\ entries' = entries
  BY DEF Examine, spineVars, thread
<1>4. entries[k] # <<>>
  <2>1. k \in admitted /\ k \in Run
    BY <1>i, AgentsCall DEF Examine
  <2>2. Len(entries[k]) = 6
    BY <1>i, <2>1 DEF SpineInv, Entries
  <2> QED
    BY <2>2
<1>5. e.check = 5 /\ e.refused \in BOOLEAN /\ e.amount = 0
  BY <1>2
<1>6. \A j \in DOMAIN asked : Cleared(j, 3) => Cleared(j, 3)'
  BY <1>3 DEF Cleared
<1> QED
  BY <1>1, <1>2, <1>3, <1>4, <1>5, <1>6, Telling

\* Check 5 or none, the spine takes its own steps.
LEMMA HistoryStepsSpine == [HistoryNext]_historyVars => [SpineNext]_spineVars
BY DEF HistoryNext, historyVars, Spine, Examine, SpineNext

\* Every step keeps the invariant.
LEMMA NextHistory == HistoryInv /\ [HistoryNext]_historyVars => HistoryInv'
<1> SUFFICES ASSUME HistoryInv, [HistoryNext]_historyVars PROVE HistoryInv'
  OBVIOUS
<1>i. SpineInv
  BY DEF HistoryInv
<1>1. SpineInv'
  BY <1>i, HistoryStepsSpine, NextSpine
<1>2. ASSUME NEW c \in Callers, Spine(c) PROVE HistoryInv'
  <2>1. Handle(c)
    BY <1>2 DEF Spine
  <2>2. CASE entries' = entries /\ UNCHANGED trail
    BY <1>i, <1>1, <2>1, <2>2, AskedStays, NothingTold
  <2>3. CASE \E k \in DOMAIN asked :
               entries'[k] # entries[k] /\ Tell(k, entries'[k][Len(entries'[k])])
    BY <1>1, <2>1, <2>3, SpineTells
  <2> QED
    BY <1>2, <2>2, <2>3 DEF Spine
<1>3. ASSUME NEW k \in DOMAIN asked, Examine(k, "inspection") \/ Examine(k, "behaviour")
      PROVE  HistoryInv'
  BY <1>1, <1>3, ExaminingTells
<1>4. CASE UNCHANGED historyVars
  <2>1. entries' = entries /\ trail' = trail /\ asked' = asked
    BY <1>4 DEF historyVars, spineVars, thread
  <2> QED
    BY <1>1, <2>1, NothingTold
<1> QED
  BY <1>2, <1>3, <1>4 DEF HistoryNext
-----------------------------------------------------------------------------
(* What read_history reads.                                                *)

\* There is a first of any indices.
LEMMA FirstIs ==
  ASSUME NEW S \in SUBSET Nat, S # {}
  PROVE  First(S) \in S /\ \A j \in S : First(S) <= j
<1> DEFINE Less == OpToRel(<, Nat)
<1>1. PICK i \in S : \A j \in S : ~(<<j, i>> \in Less)
  <2> HIDE DEF Less
  <2>1. IsWellFoundedOn(Less, Nat)
    BY NatLessThanWellFounded DEF Less
  <2> QED
    BY <2>1, WFMin
<1>2. \A j \in S : ~(j < i)
  BY <1>1 DEF OpToRel
<1>3. \A j \in S : i <= j
  BY <1>2
<1> QED
  BY <1>3 DEF First

\* The lines of a call that no other overlaps are one span: none of another's opens
\* among them, and what another's opening follows is another's.
LEMMA AloneIsASpan ==
  ASSUME HistoryInv, NEW k \in Told, Alone(k)
  PROVE  /\ Opened(k) \in Openings(trail[Agent(k)])
         /\ \A j : j \in Span(trail[Agent(k)], Opened(k)) <=> j \in Trace(k)
<1> DEFINE s == trail[Agent(k)]
           o == Opened(k)
<1>0. k \in DOMAIN asked /\ Trace(k) # {}
  BY DEF Told
<1>1. s \in Seq(Line) /\ Len(s) \in Nat /\ DOMAIN s = 1..Len(s)
  BY <1>0, AgentsCall DEF HistoryInv
<1>2. \A j \in DOMAIN asked : Trace(j) \in SUBSET Nat /\ OpensByCheck1(j)
  <2>1. ASSUME NEW j \in DOMAIN asked PROVE Trace(j) \in SUBSET Nat
    <3>1. trail[Agent(j)] \in Seq(Line)
      BY AgentsCall DEF HistoryInv
    <3> QED
      BY <3>1 DEF Trace
  <2> QED
    BY <2>1 DEF HistoryInv
<1>3. o \in Trace(k) /\ \A j \in Trace(k) : o <= j
  BY <1>0, <1>2, FirstIs DEF Opened
<1>4. o \in DOMAIN s /\ s[o].check = 1 /\ s[o].run = k
  BY <1>0, <1>2, <1>3 DEF Trace, OpensByCheck1
<1>5. ASSUME NEW j \in DOMAIN s, s[j].run # k
      PROVE  /\ s[j].run \in Told \ {k} /\ Agent(s[j].run) = Agent(k)
             /\ j \in Trace(s[j].run)
  BY <1>0, <1>5, AgentsCall DEF HistoryInv, TrueOf, Told, Trace
<1> HIDE DEF o
<1>6. ASSUME NEW j \in Trace(k) PROVE j \in Span(s, o)
  <2>1. j \in o..Len(s) /\ s[j].run = k
    BY <1>1, <1>3, <1>4, <1>6 DEF Trace
  <2>2. ASSUME NEW m \in (o+1)..j PROVE s[m].check # 1
    <3>1. m \in DOMAIN s /\ o < m /\ m <= j /\ m \in Nat
      BY <1>1, <1>4, <2>1
    <3>2. CASE s[m].run = k
      <4>1. m \in Trace(k)
        BY <3>1, <3>2 DEF Trace
      <4>2. ~(m <= o)
        BY <1>1, <1>4, <3>1
      <4> QED
        BY <1>0, <1>2, <1>3, <4>1, <4>2 DEF OpensByCheck1
    <3>3. CASE s[m].run # k
      <4>1. Precedes(s[m].run, k) \/ Precedes(k, s[m].run)
        BY <1>5, <3>1, <3>3 DEF Alone
      <4>2. m < o \/ j < m
        BY <1>3, <1>5, <1>6, <3>1, <3>3, <4>1 DEF Precedes
      <4> QED
        BY <1>1, <1>4, <2>1, <3>1, <4>2
    <3> QED
      BY <3>2, <3>3
  <2> QED
    BY <2>1, <2>2 DEF Span
<1>7. ASSUME NEW j \in Span(s, o) PROVE j \in Trace(k)
  <2>1. j \in DOMAIN s /\ j \in Nat /\ o <= j /\ \A m \in (o+1)..j : s[m].check # 1
    BY <1>1, <1>4 DEF Span
  <2>2. CASE s[j].run # k
    <3>1. PICK l \in Told \ {k} : l = s[j].run /\ Agent(l) = Agent(k) /\ j \in Trace(l)
      BY <1>5, <2>1, <2>2
    <3>2. l \in DOMAIN asked
      BY DEF Told
    <3>3. PICK m \in Trace(l) : \A n \in Trace(l) : m <= n
      BY <1>2, <3>1, <3>2, FirstIs
    <3>4. m \in DOMAIN s /\ s[m].check = 1 /\ m <= j /\ m \in Nat
      BY <1>2, <3>1, <3>2, <3>3 DEF OpensByCheck1, Trace
    <3>5. Precedes(l, k) \/ Precedes(k, l)
      BY <3>1 DEF Alone
    <3>6. j < o \/ o < m
      BY <1>3, <3>1, <3>3, <3>5 DEF Precedes
    <3>7. m \in (o+1)..j
      BY <1>1, <1>4, <2>1, <3>4, <3>6
    <3> QED
      BY <2>1, <3>4, <3>7
  <2> QED
    BY <2>1, <2>2 DEF Trace
<1>8. o \in Openings(s)
  BY <1>4 DEF Openings
<1> QED
  BY <1>6, <1>7, <1>8 DEF o
-----------------------------------------------------------------------------
(* What holds of every behaviour of the history.                           *)

\* The trail is of what the spine recorded, for any number of calls at once.
THEOREM TrailIsKept == HistorySpec => []HistoryInv
BY InitHistory, NextHistory, PTL DEF HistorySpec

\* Check 5 reads and records beside the spine, and takes no step of it.
THEOREM HistoryIsBesideTheSpine == HistorySpec => SpineSpec
<1>1. HistoryInit => SpineInit
  BY DEF HistoryInit
<1> QED
  BY <1>1, HistoryStepsSpine, PTL DEF HistorySpec, SpineSpec

\* A request that no other of its agent's overlapped is in the history as it was:
\* whether anything refused it, and what it asked for.
THEOREM AloneIsRead == HistorySpec => []AloneIsToldTrue
<1>1. ASSUME HistoryInv PROVE AloneIsToldTrue
  <2> SUFFICES ASSUME NEW k \in Told, Alone(k)
               PROVE  /\ Opened(k) \in Openings(trail[Agent(k)])
                      /\ Event(trail[Agent(k)], Opened(k)) =
                           [refused |-> WasRefused(k), amount |-> AskedAt3(k)]
    BY DEF AloneIsToldTrue
  <2> DEFINE s == trail[Agent(k)]
             o == Opened(k)
  <2>1. o \in Openings(s) /\ \A j : j \in Span(s, o) <=> j \in Trace(k)
    BY <1>1, AloneIsASpan
  <2>2. k \in DOMAIN asked /\ Agent(k) \in Agents /\ Trace(k) \in SUBSET Nat
    <3>1. k \in DOMAIN asked
      BY DEF Told
    <3>2. Agent(k) \in Agents /\ s \in Seq(Line)
      BY <1>1, <3>1, AgentsCall DEF HistoryInv
    <3> QED
      BY <3>1, <3>2 DEF Trace
  <2>3. \A j \in Trace(k) : s[j].run = k /\ (s[j].check = 3 => s[j].amount = Amount[asked[k]])
    BY <1>1, <2>2 DEF HistoryInv, TrueOf, Trace
  <2>4. (\E j \in Span(s, o) : s[j].refused) <=> WasRefused(k)
    BY <2>1 DEF WasRefused
  <2>5. (IF Asks(s, o) = {} THEN 0 ELSE s[First(Asks(s, o))].amount) = AskedAt3(k)
    <3>1. \A j : j \in Asks(s, o) <=> j \in Trace(k) /\ s[j].check = 3
      BY <2>1 DEF Asks
    <3>2. CASE Asks(s, o) = {}
      BY <3>1, <3>2 DEF AskedAt3
    <3>3. CASE Asks(s, o) # {}
      <4>1. Asks(s, o) \in SUBSET Nat
        BY <2>2, <3>1
      <4>2. First(Asks(s, o)) \in Asks(s, o)
        BY <3>3, <4>1, FirstIs
      <4>3. s[First(Asks(s, o))].amount = Amount[asked[k]]
        BY <2>3, <3>1, <4>2
      <4>4. \E j \in Trace(k) : s[j].check = 3
        BY <3>1, <4>2
      <4> QED
        BY <3>3, <4>3, <4>4 DEF AskedAt3
    <3> QED
      BY <3>2, <3>3
  <2>6. (\E j \in Span(s, o) : s[j].refused) = WasRefused(k)
    BY <2>4 DEF WasRefused
  <2>7. Event(s, o) = [refused |-> WasRefused(k), amount |-> AskedAt3(k)]
    BY <2>5, <2>6 DEF Event
  <2> QED
    BY <2>1, <2>7
<1> QED
  BY <1>1, TrailIsKept, PTL

\* However requests overlap, an amount in the baseline was asked for by a request of
\* that agent's which check 3 had passed.
THEOREM BaselinesAreAuthorised == HistorySpec => []BaselineWasAuthorised
<1>1. ASSUME HistoryInv PROVE BaselineWasAuthorised
  <2> SUFFICES ASSUME NEW a \in Agents, NEW i \in Openings(trail[a]),
                      Event(trail[a], i).amount # 0, ~Event(trail[a], i).refused
               PROVE  \E k \in Told : /\ Agent(k) = a /\ Cleared(k, 3)
                                      /\ Amount[asked[k]] = Event(trail[a], i).amount
    BY DEF BaselineWasAuthorised
  <2> DEFINE s == trail[a]
  <2>1. s \in Seq(Line) /\ Len(s) \in Nat /\ DOMAIN s = 1..Len(s) /\ i \in DOMAIN s
    BY <1>1 DEF HistoryInv, Openings
  <2>2. Event(s, i).amount = IF Asks(s, i) = {} THEN 0 ELSE s[First(Asks(s, i))].amount
    BY DEF Event
  <2>3. \A j \in Span(s, i) : ~s[j].refused
    BY DEF Event
  <2>4. Asks(s, i) # {} /\ Asks(s, i) \in SUBSET Nat
    BY <2>1, <2>2 DEF Asks, Span
  <2>5. PICK j \in Asks(s, i) : j = First(Asks(s, i))
    BY <2>4, FirstIs
  <2>6. j \in DOMAIN s /\ s[j].check = 3 /\ ~s[j].refused /\ s[j].amount = Event(s, i).amount
    <3>1. j \in Span(s, i) /\ s[j].check = 3
      BY DEF Asks
    <3>2. j \in DOMAIN s
      BY <2>1, <3>1 DEF Span
    <3> QED
      BY <2>2, <2>3, <2>4, <2>5, <3>1, <3>2
  <2>7. PICK k : k = s[j].run
    OBVIOUS
  <2>8. k \in DOMAIN asked /\ Agent(k) = a /\ s[j].amount = Amount[asked[k]] /\ Cleared(k, 3)
    <3>1. TrueOf(a, s[j])
      BY <1>1, <2>6 DEF HistoryInv
    <3> QED
      BY <2>6, <2>7, <3>1 DEF TrueOf
  <2>9. j \in Trace(k)
    BY <2>6, <2>7, <2>8 DEF Trace
  <2> QED
    BY <2>6, <2>8, <2>9 DEF Told
<1> QED
  BY <1>1, TrailIsKept, PTL
=============================================================================
