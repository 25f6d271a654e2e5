-------------------------- MODULE SettlementProofs --------------------------
(***************************************************************************)
(* Settlement, for any callers, deals, mandates, pool and number of calls. *)
(*                                                                         *)
(* LedgerWithinCeiling is not inductive: a Commit keeps it only because    *)
(* what was checked at the draw-down still holds when it lands, which is   *)
(* what LocksProtect says; and LocksProtect survives other callers'        *)
(* commits only because they hold locks of their own.                      *)
(*                                                                         *)
(* A total is a fold over the receipts.  What the library says of folds    *)
(* takes an operator, so what is needed of sums is shown of the function   *)
(* that sums from one number up, by the least number it would fail at      *)
(* (SumOfOneMore).  What is said of how many callers are where follows     *)
(* from a step moving one caller (CountMoves).                             *)
(***************************************************************************)
EXTENDS Settlement, FiniteSetTheorems, NaturalsInduction, WellFoundedInduction, TLAPS

\* What holds at nought and of every next number holds of all.
LEMMA UpFromZero ==
  ASSUME NEW S, 0 \in S, \A n \in Nat : n \in S => n + 1 \in S
  PROVE  \A n \in Nat : n \in S
<1> DEFINE Rest == Nat \ S
           Less == OpToRel(<, Nat)
<1> SUFFICES ASSUME Rest # {} PROVE FALSE
  OBVIOUS
<1>1. PICK m \in Rest : \A n \in Rest : ~(<<n, m>> \in Less)
  <2> HIDE DEF Less
  <2>1. IsWellFoundedOn(Less, Nat)
    BY NatLessThanWellFounded DEF Less
  <2>2. Rest \subseteq Nat
    OBVIOUS
  <2> HIDE DEF Rest
  <2> QED
    BY <2>1, <2>2, WFMin
<1>2. m # 0 /\ m \in Nat /\ m - 1 \in Nat
  OBVIOUS
<1>3. m - 1 \in S
  <2>1. <<m - 1, m>> \in Less
    BY <1>2 DEF OpToRel
  <2> QED
    BY <1>1, <1>2, <2>1
<1> QED
  BY <1>2, <1>3
-----------------------------------------------------------------------------
(* What a set of receipts adds up to.  A fold takes the elements of a set  *)
(* in an order of its own; these lemmas are why the order does not matter. *)

First(s) == CHOOSE r \in s : TRUE

\* sum adds up every member of D, by its first receipt and the rest.
Adds(sum, D) ==
  sum = [s \in D |-> IF s = {} THEN 0
                     ELSE Amount[First(s).deal] + sum[s \ {First(s)}]]

Sums(U) == CHOOSE sum : Adds(sum, SUBSET U)

SumOf(s) == Sums(s)[s]

\* The sum that Charged takes is this one.
LEMMA FoldIsSum ==
  ASSUME NEW s
  PROVE  MapThenSumSet(LAMBDA r : Amount[r.deal], s) = SumOf(s)
BY DEF MapThenSumSet, MapThenFoldSet, SumOf, Sums, Adds, First

\* There is such a function, whatever finite set it adds up the subsets of.
LEMMA SumsExist ==
  ASSUME NEW U, IsFiniteSet(U)
  PROVE  Adds(Sums(U), SUBSET U)
<1> DEFINE Level(n) == {s \in SUBSET U : Cardinality(s) <= n}
           Reached == {n \in Nat : \E sum : Adds(sum, Level(n))}
<1>1. \A s \in SUBSET U : IsFiniteSet(s) /\ Cardinality(s) \in Nat
  BY FS_Subset, FS_CardinalityType
<1>2. 0 \in Reached
  <2>1. \A s \in Level(0) : s = {}
    BY <1>1, FS_EmptySet
  <2>2. Adds([s \in Level(0) |-> 0], Level(0))
    BY <2>1 DEF Adds
  <2> QED
    BY <2>2
<1>3. ASSUME NEW n \in Nat, n \in Reached PROVE n + 1 \in Reached
  <2>1. PICK sum : Adds(sum, Level(n))
    BY <1>3
  <2> DEFINE more == [s \in Level(n + 1) |->
                        IF s = {} THEN 0 ELSE Amount[First(s).deal] + sum[s \ {First(s)}]]
  <2>2. \A s \in Level(n + 1) : s # {} => s \ {First(s)} \in Level(n)
    <3> SUFFICES ASSUME NEW s \in Level(n + 1), s # {} PROVE s \ {First(s)} \in Level(n)
      OBVIOUS
    <3>1. First(s) \in s
      BY DEF First
    <3>2. IsFiniteSet(s) /\ Cardinality(s) \in Nat /\ Cardinality(s) <= n + 1
      BY <1>1
    <3>3. Cardinality(s \ {First(s)}) = Cardinality(s) - 1
      BY <3>1, <3>2, FS_RemoveElement
    <3> QED
      BY <3>2, <3>3
  <2>3. \A s \in Level(n) : s \in Level(n + 1) /\ sum[s] = more[s]
    <3>1. \A s \in Level(n) : s \in Level(n + 1)
      BY <1>1
    <3> QED
      BY <2>1, <3>1 DEF Adds
  <2>4. Adds(more, Level(n + 1))
    <3>1. \A s \in Level(n + 1) : s # {} => sum[s \ {First(s)}] = more[s \ {First(s)}]
      BY <2>2, <2>3
    <3> HIDE DEF Level
    <3> QED
      BY <3>1 DEF Adds
  <2> QED
    BY <2>4
<1>4. Cardinality(U) \in Nat /\ Level(Cardinality(U)) = SUBSET U
  <2>1. \A s \in SUBSET U : Cardinality(s) <= Cardinality(U)
    BY FS_Subset
  <2> QED
    BY <2>1, FS_CardinalityType
<1>5. Cardinality(U) \in Reached
  <2>1. \A n \in Nat : n \in Reached
    <3> HIDE DEF Reached
    <3> QED
      BY <1>2, <1>3, UpFromZero
  <2> QED
    BY <1>4, <2>1
<1>6. \E sum : Adds(sum, SUBSET U)
  BY <1>4, <1>5
<1> QED
  BY <1>6 DEF Sums

\* Of which set a set is taken to be a subset does not change what it adds up to.
LEMMA SumsAgree ==
  ASSUME NEW U, IsFiniteSet(U), NEW s \in SUBSET U
  PROVE  Sums(U)[s] = SumOf(s)
<1> DEFINE Same == {n \in Nat : \A t \in SUBSET s : Cardinality(t) <= n => Sums(U)[t] = Sums(s)[t]}
<1>1. IsFiniteSet(s) /\ Adds(Sums(U), SUBSET U) /\ Adds(Sums(s), SUBSET s)
  BY FS_Subset, SumsExist
<1>2. \A t \in SUBSET s : IsFiniteSet(t) /\ Cardinality(t) \in Nat
  BY <1>1, FS_Subset, FS_CardinalityType
<1>3. Sums(U)[{}] = 0 /\ Sums(s)[{}] = 0
  BY <1>1 DEF Adds
<1>4. \A t \in SUBSET s : t # {} =>
        /\ Sums(U)[t] = Amount[First(t).deal] + Sums(U)[t \ {First(t)}]
        /\ Sums(s)[t] = Amount[First(t).deal] + Sums(s)[t \ {First(t)}]
  BY <1>1 DEF Adds
<1>5. 0 \in Same
  BY <1>2, <1>3, FS_EmptySet
<1>6. ASSUME NEW n \in Nat, n \in Same PROVE n + 1 \in Same
  <2> SUFFICES ASSUME NEW t \in SUBSET s, Cardinality(t) <= n + 1
               PROVE  Sums(U)[t] = Sums(s)[t]
    OBVIOUS
  <2>0. CASE t = {}
    BY <1>3, <2>0
  <2> SUFFICES ASSUME t # {} PROVE Sums(U)[t] = Sums(s)[t]
    BY <2>0
  <2>1. First(t) \in t
    BY DEF First
  <2>2. Cardinality(t \ {First(t)}) = Cardinality(t) - 1
    BY <1>2, <2>1, FS_RemoveElement
  <2>3. Cardinality(t \ {First(t)}) <= n
    BY <1>2, <2>2
  <2>4. Sums(U)[t \ {First(t)}] = Sums(s)[t \ {First(t)}]
    BY <1>6, <2>3
  <2> QED
    BY <1>4, <2>4
<1>7. \A n \in Nat : n \in Same
  <2> HIDE DEF Same
  <2> QED
    BY <1>5, <1>6, UpFromZero
<1> QED
  BY <1>2, <1>7 DEF SumOf

\* Nothing adds up to nought, and a set to its first receipt and the rest.
LEMMA SumByFirst ==
  ASSUME NEW s, IsFiniteSet(s)
  PROVE  /\ s = {} => SumOf(s) = 0
         /\ s # {} => SumOf(s) = Amount[First(s).deal] + SumOf(s \ {First(s)})
<1>1. Adds(Sums(s), SUBSET s)
  BY SumsExist
<1>2. Sums(s)[s \ {First(s)}] = SumOf(s \ {First(s)})
  BY SumsAgree
<1>3. Sums(s)[s] = IF s = {} THEN 0 ELSE Amount[First(s).deal] + Sums(s)[s \ {First(s)}]
  BY <1>1 DEF Adds
<1> QED
  BY <1>2, <1>3 DEF SumOf

\* A set of receipts adds up to any one of them and the rest.
LEMMA SumByAny ==
  ASSUME NEW U \in SUBSET Receipt, IsFiniteSet(U)
  PROVE  /\ SumOf(U) \in Nat
         /\ \A r \in U : SumOf(U) = Amount[r.deal] + SumOf(U \ {r})
<1> DEFINE Fine(t) == /\ SumOf(t) \in Nat
                      /\ \A r \in t : SumOf(t) = Amount[r.deal] + SumOf(t \ {r})
           Good == {n \in Nat : \A t \in SUBSET U : Cardinality(t) <= n => Fine(t)}
<1>1. \A t \in SUBSET U : IsFiniteSet(t) /\ Cardinality(t) \in Nat
  BY FS_Subset, FS_CardinalityType
<1>2. Fine({})
  <2>1. SumOf({}) = 0
    BY FS_EmptySet, SumByFirst
  <2> QED
    BY <2>1
<1>3. 0 \in Good
  BY <1>1, <1>2, FS_EmptySet
<1>4. ASSUME NEW n \in Nat, n \in Good PROVE n + 1 \in Good
  <2> SUFFICES ASSUME NEW t \in SUBSET U, Cardinality(t) <= n + 1, t # {} PROVE Fine(t)
    BY <1>2
  <2> DEFINE f == First(t)
  <2>1. f \in t /\ \A r \in t : Amount[r.deal] \in Nat
    BY SettlementAssumption DEF First, Receipt
  <2> HIDE DEF f
  <2>2. \A r \in t : Cardinality(t \ {r}) <= n /\ t \ {r} \in SUBSET U
    <3> TAKE r \in t
    <3>1. Cardinality(t \ {r}) = Cardinality(t) - 1
      BY <1>1, FS_RemoveElement
    <3> QED
      BY <1>1, <3>1
  <2>3. \A r \in t : Fine(t \ {r})
    BY <1>4, <2>2
  <2>4. SumOf(t) = Amount[f.deal] + SumOf(t \ {f})
    BY <1>1, SumByFirst DEF f
  <2>5. SumOf(t) \in Nat
    BY <2>1, <2>3, <2>4
  <2>6. ASSUME NEW r \in t PROVE SumOf(t) = Amount[r.deal] + SumOf(t \ {r})
    <3>1. CASE r = f
      BY <2>4, <3>1
    <3>2. CASE r # f
      <4>1. SumOf(t \ {f}) = Amount[r.deal] + SumOf((t \ {f}) \ {r})
        BY <2>1, <2>3, <3>2
      <4>2. SumOf(t \ {r}) = Amount[f.deal] + SumOf((t \ {r}) \ {f})
        BY <2>1, <2>3, <3>2
      <4>3. (t \ {f}) \ {r} = (t \ {r}) \ {f}
        OBVIOUS
      <4>4. SumOf((t \ {f}) \ {r}) \in Nat
        <5>1. IsFiniteSet(t \ {f}) /\ Cardinality((t \ {f}) \ {r}) <= Cardinality(t \ {f})
          BY <1>1, <2>1, <2>2, FS_Subset
        <5>2. /\ (t \ {f}) \ {r} \in SUBSET U
              /\ Cardinality((t \ {f}) \ {r}) \in Nat
              /\ Cardinality(t \ {f}) \in Nat /\ Cardinality(t \ {f}) <= n
          BY <1>1, <2>1, <2>2
        <5>3. Cardinality((t \ {f}) \ {r}) <= n
          BY <5>1, <5>2
        <5> QED
          BY <1>4, <5>2, <5>3
      <4>5. Amount[r.deal] \in Nat /\ Amount[f.deal] \in Nat
        BY <2>1
      <4> DEFINE rest == SumOf((t \ {f}) \ {r})
      <4>6. SumOf(t) = Amount[f.deal] + (Amount[r.deal] + rest)
        BY <2>4, <4>1
      <4>7. SumOf(t \ {r}) = Amount[f.deal] + rest
        BY <4>2, <4>3
      <4>8. rest \in Nat
        BY <4>4
      <4> HIDE DEF rest, Fine, Good
      <4> QED
        BY <4>5, <4>6, <4>7, <4>8
    <3> QED
      BY <3>1, <3>2
  <2> QED
    BY <2>5, <2>6
<1>5. \A n \in Nat : n \in Good
  <2> HIDE DEF Good
  <2> QED
    BY <1>3, <1>4, UpFromZero
<1>6. Cardinality(U) \in Good /\ Cardinality(U) \in Nat
  BY <1>1, <1>5
<1> QED
  BY <1>6

\* One more receipt adds what its deal totals.
LEMMA SumOfOneMore ==
  ASSUME NEW U \in SUBSET Receipt, IsFiniteSet(U), NEW r \in Receipt, r \notin U
  PROVE  SumOf(U \union {r}) = SumOf(U) + Amount[r.deal]
<1> DEFINE more == U \union {r}
<1>1. IsFiniteSet(more) /\ more \in SUBSET Receipt /\ r \in more
  BY FS_AddElement
<1>2. more \ {r} = U
  OBVIOUS
<1>3. SumOf(more) = Amount[r.deal] + SumOf(more \ {r})
  <2> HIDE DEF more
  <2> QED
    BY <1>1, SumByAny
<1>4. SumOf(U) \in Nat /\ Amount[r.deal] \in Nat
  BY SumByAny, SettlementAssumption DEF Receipt
<1>5. SumOf(more) = Amount[r.deal] + SumOf(U)
  BY <1>2, <1>3
<1>6. SumOf(U) + Amount[r.deal] = Amount[r.deal] + SumOf(U)
  BY <1>4
<1> QED
  BY <1>5, <1>6
-----------------------------------------------------------------------------
\* A call under way was let in by ChainsTo, and every receipt came from one.
ChainHolds ==
  /\ \A c \in Callers : pc[c] # "idle" => RefersTo[payment[c]] = CheckoutOf[deal[c]]
  /\ \A r \in receipts : RefersTo[r.payment] = CheckoutOf[r.deal]

\* No running total is past its mandate's ceiling.
LedgerWithinCeiling == \A p \in Payments : spent[p] <= Ceiling[p]

IInv == TypeOK /\ LocksProtect /\ LedgerWithinCeiling /\ ChainHolds

USE DEF InTransaction, AfterLock, AfterDraw, AfterCharge, Steps, Endings, Events

\* Initially every variable has its type: nothing is settled and no one holds
\* anything (settle.py before its first call).
LEMMA InitTyped == Init => TypeOK
<1> SUFFICES ASSUME Init PROVE TypeOK
  OBVIOUS
<1>1. (CHOOSE d \in Deals : TRUE) \in Deals
  BY SettlementAssumption DEF SettlementAssumption
<1>2. (CHOOSE p \in Payments : TRUE) \in Payments
  BY SettlementAssumption DEF SettlementAssumption
<1> QED
  BY <1>1, <1>2 DEF Init, TypeOK

\* Giving back the locks and the connection keeps them well typed.
LEMMA ReleaseTyped ==
  ASSUME TypeOK, NEW c \in Callers, Release(c)
  PROVE  /\ dealLock' \in [Deals -> Callers \union {Nobody}]
         /\ rowLock' \in [Payments -> Callers \union {Nobody}]
         /\ chainLock' \in Callers \union {Nobody}
         /\ connected' \subseteq Callers
BY DEF TypeOK, Release

\* Every step of settle keeps every variable's type.
LEMMA NextTyped == TypeOK /\ [Next]_vars => TypeOK'
<1> SUFFICES ASSUME TypeOK, [Next]_vars PROVE TypeOK'
  OBVIOUS
<1>1. CASE UNCHANGED vars
  BY <1>1 DEF TypeOK, vars, callers, tables, locks, rail
<1>2. ASSUME NEW c \in Callers, NEW d \in Deals, NEW k \in Checkouts,
             NEW p \in Payments, Begin(c, d, k, p)
      PROVE  TypeOK'
  BY <1>2 DEF TypeOK, Begin, GoTo, tables, locks, rail
<1>3. ASSUME NEW c \in Callers, Step(c) PROVE TypeOK'
  <2>1. CASE Find(c)
    BY <2>1 DEF TypeOK, Find, GoTo, tables, locks, rail
  <2>2. CASE Connect(c) \/ Attempt(c)
    <3>1. CASE Connect(c)
      BY <3>1 DEF TypeOK, Connect, callers, tables, rail
    <3>2. CASE Attempt(c)
      BY <3>2 DEF TypeOK, Attempt, Write, GoTo, tables, rail
    <3> QED
      BY <2>2, <3>1, <3>2
  <2>3. CASE OpenTransaction(c)
    BY <2>3 DEF TypeOK, OpenTransaction, GoTo, tables, rail
  <2>4. CASE LockDeal(c)
    BY <2>4 DEF TypeOK, LockDeal, GoTo, tables, rail
  <2>5. CASE FindAgain(c)
    BY <2>5, ReleaseTyped DEF TypeOK, FindAgain, Rollback, GoTo, tables, locks, rail
  <2>6. CASE Draw(c)
    BY <2>6, ReleaseTyped DEF TypeOK, Draw, Rollback, GoTo, tables, rail
  <2>7. CASE DrawRaises(c)
    BY <2>7, ReleaseTyped DEF TypeOK, DrawRaises, Rollback, GoTo, tables, rail
  <2>8. CASE RailAnswers(c)
    <3>1. CASE RailCompletes(c)
      BY <3>1 DEF TypeOK, RailCompletes, GoTo, tables, locks
    <3>2. CASE RailDeclines(c)
      BY <3>2, ReleaseTyped DEF TypeOK, RailDeclines, Rollback, GoTo, tables, rail
    <3>3. CASE RailNeverAnswers(c)
      BY <3>3, ReleaseTyped DEF TypeOK, RailNeverAnswers, Rollback, GoTo, tables
    <3> QED
      BY <2>8, <3>1, <3>2, <3>3 DEF RailAnswers
  <2>9. CASE Store(c)
    BY <2>9, ReleaseTyped DEF TypeOK, Store, Rollback, GoTo, tables, locks, rail
  <2>10. CASE Record(c)
    BY <2>10 DEF TypeOK, Record, GoTo, tables, rail
  <2>11. CASE Commit(c)
    <3>1. [deal |-> deal[c], payment |-> payment[c]] \in Receipt
      BY DEF TypeOK, Receipt
    <3>2. Amount[deal[c]] \in Nat
      BY SettlementAssumption DEF TypeOK, SettlementAssumption
    <3> QED
      BY <2>11, <3>1, <3>2, ReleaseTyped DEF TypeOK, Commit, GoTo, rail
  <2>12. CASE Incomplete(c)
    BY <2>12 DEF TypeOK, Incomplete, Write, GoTo, tables, rail
  <2> QED
    BY <1>3, <2>1, <2>2, <2>3, <2>4, <2>5, <2>6, <2>7, <2>8, <2>9, <2>10,
       <2>11, <2>12 DEF Step
<1>4. ASSUME NEW c \in Callers, Fault(c) PROVE TypeOK'
  BY <1>4, ReleaseTyped DEF TypeOK, Fault, Rollback, GoTo, tables
<1> QED
  BY <1>1, <1>2, <1>3, <1>4 DEF Next

\* Type correctness of settle's state, for every instance.
THEOREM SettlementTyped == Spec => []TypeOK
BY InitTyped, NextTyped, PTL DEF Spec
-----------------------------------------------------------------------------
\* A step that leaves receipts, totals and the other callers' locks alone, and
\* leaves c outside its transaction, keeps what the locks protect: a rollback.
LEMMA RollbackProtects ==
  ASSUME TypeOK, LocksProtect, NEW c \in Callers, Rollback(c),
         UNCHANGED <<deal, payment>>,
         NEW step \in Steps \ InTransaction, pc' = [pc EXCEPT ![c] = step]
  PROVE  LocksProtect'
<1> SUFFICES ASSUME NEW other \in Callers
             PROVE  Protected(other)'
  BY DEF LocksProtect
<1>1. deal' = deal /\ payment' = payment /\ receipts' = receipts /\ spent' = spent
  BY DEF Rollback, tables
<1>2. CASE other = c
  BY <1>2 DEF TypeOK, Protected
<1>3. CASE other # c
  <2>1. pc'[other] = pc[other]
    BY <1>3 DEF TypeOK
  <2>2. deal[other] \in Deals /\ payment[other] \in Payments
    BY DEF TypeOK
  <2>3. dealLock[deal[other]] = other => dealLock'[deal[other]] = other
    BY <1>3, <2>2 DEF Rollback, Release, TypeOK
  <2>4. rowLock[payment[other]] = other => rowLock'[payment[other]] = other
    BY <1>3, <2>2 DEF Rollback, Release, TypeOK
  <2> QED
    BY <1>1, <2>1, <2>3, <2>4 DEF LocksProtect, Protected, Has, Covers
<1> QED
  BY <1>2, <1>3

\* A step that changes only c's pc, to one that promises no more than before,
\* and no lock, receipt or total, keeps what the locks protect.
LEMMA QuietStepProtects ==
  ASSUME TypeOK, LocksProtect, NEW c \in Callers,
         UNCHANGED <<deal, payment, tables, dealLock, rowLock>>,
         NEW step \in Steps, pc' = [pc EXCEPT ![c] = step],
         step \in AfterLock => pc[c] \in AfterLock,
         step \in {"draw"} \union AfterDraw =>
           pc[c] \in {"draw"} \union AfterDraw \/ ~Has(deal[c]),
         step \in AfterDraw => pc[c] \in AfterDraw
  PROVE  LocksProtect'
BY DEF TypeOK, LocksProtect, Protected, Has, Covers, tables

\* A deal's or a mandate's lock has one holder, so no two callers are past it.
LEMMA OneHolder ==
  ASSUME LocksProtect, NEW a \in Callers, NEW b \in Callers, a # b
  PROVE  /\ pc[a] \in AfterLock /\ pc[b] \in AfterLock => deal[a] # deal[b]
         /\ pc[a] \in AfterDraw /\ pc[b] \in AfterDraw => payment[a] # payment[b]
BY DEF LocksProtect, Protected

\* What c commits is a deal no other caller is past the lock of, and a mandate
\* no other caller has drawn on: the others' facts survive.
LEMMA CommitProtects ==
  ASSUME TypeOK, LocksProtect, NEW c \in Callers, Commit(c)
  PROVE  LocksProtect'
<1> SUFFICES ASSUME NEW other \in Callers
             PROVE  Protected(other)'
  BY DEF LocksProtect
<1>1. /\ deal' = deal /\ payment' = payment
      /\ receipts' = receipts \union {[deal |-> deal[c], payment |-> payment[c]]}
      /\ spent' = [spent EXCEPT ![payment[c]] = @ + Amount[deal[c]]]
      /\ pc[c] = "commit" /\ pc' = [pc EXCEPT ![c] = "idle"]
  BY DEF Commit, GoTo
<1>2. CASE other = c
  BY <1>1, <1>2 DEF TypeOK, Protected
<1>3. CASE other # c
  <2>1. pc'[other] = pc[other]
    BY <1>1, <1>3 DEF TypeOK
  <2>2. deal[other] \in Deals /\ payment[other] \in Payments
    BY DEF TypeOK
  <2>3. pc[other] \in AfterLock => dealLock'[deal[other]] = other
    BY <1>3, <2>2 DEF Commit, Release, TypeOK, LocksProtect, Protected
  <2>4. pc[other] \in AfterLock /\ ~Has(deal[other]) => ~Has(deal[other])'
    BY <1>1, <1>3, OneHolder DEF Has
  <2>5. pc[other] \in AfterDraw =>
          /\ rowLock'[payment[other]] = other
          /\ spent'[payment[other]] = spent[payment[other]]
    <3>1. pc[other] \in AfterDraw => rowLock'[payment[other]] = other
      BY <1>3, <2>2 DEF Commit, Release, TypeOK, LocksProtect, Protected
    <3>2. pc[other] \in AfterDraw => payment[other] # payment[c]
      BY <1>1, <1>3, OneHolder
    <3> QED
      BY <1>1, <2>2, <3>1, <3>2 DEF TypeOK
  <2> QED
    BY <1>1, <2>1, <2>3, <2>4, <2>5 DEF LocksProtect, Protected, Covers
<1> QED
  BY <1>2, <1>3

\* Every step of settle keeps what the locks protect.
LEMMA NextProtects == TypeOK /\ LocksProtect /\ [Next]_vars => LocksProtect'
<1> SUFFICES ASSUME TypeOK, LocksProtect, [Next]_vars PROVE LocksProtect'
  OBVIOUS
<1>1. CASE UNCHANGED vars
  BY <1>1 DEF LocksProtect, Protected, Has, Covers, vars, callers, tables, locks
<1>2. ASSUME NEW c \in Callers, NEW d \in Deals, NEW k \in Checkouts,
             NEW p \in Payments, Begin(c, d, k, p)
      PROVE  LocksProtect'
  <2> SUFFICES ASSUME NEW other \in Callers PROVE Protected(other)'
    BY DEF LocksProtect
  <2>1. CASE other = c
    BY <1>2, <2>1 DEF Begin, GoTo, Protected, TypeOK
  <2>2. CASE other # c
    BY <1>2, <2>2 DEF Begin, GoTo, LocksProtect, Protected, TypeOK, Has, Covers,
                      tables, locks
  <2> QED
    BY <2>1, <2>2
<1>3. ASSUME NEW c \in Callers, Step(c) PROVE LocksProtect'
  <2>1. CASE Find(c)
    <3>1. PICK step \in {"idle", "attempt"} : pc' = [pc EXCEPT ![c] = step]
      BY <2>1 DEF Find, GoTo
    <3> QED
      BY <2>1, <3>1, QuietStepProtects DEF Find, locks
  <2>2. CASE Connect(c) \/ Attempt(c)
    <3>1. CASE Connect(c)
      BY <3>1 DEF Connect, LocksProtect, Protected, Has, Covers, callers, tables
    <3>2. CASE Attempt(c)
      BY <3>2, QuietStepProtects DEF Attempt, Write, GoTo
    <3> QED
      BY <2>2, <3>1, <3>2
  <2>3. CASE OpenTransaction(c)
    BY <2>3, QuietStepProtects DEF OpenTransaction, GoTo
  <2>4. CASE LockDeal(c)
    <3> SUFFICES ASSUME NEW other \in Callers PROVE Protected(other)'
      BY DEF LocksProtect
    <3>1. CASE other = c
      BY <2>4, <3>1 DEF LockDeal, GoTo, Protected, TypeOK
    <3>2. CASE other # c
      <4>1. pc[other] \in AfterLock => deal[other] # deal[c]
        BY <2>4, SettlementAssumption
        DEF LockDeal, LocksProtect, Protected, SettlementAssumption
      <4> QED
        BY <2>4, <3>2, <4>1 DEF LockDeal, GoTo, LocksProtect, Protected, TypeOK,
                                Has, Covers, tables
    <3> QED
      BY <3>1, <3>2
  <2>5. CASE FindAgain(c)
    <3>1. CASE Has(deal[c])
      BY <2>5, <3>1, RollbackProtects DEF FindAgain, GoTo
    <3>2. CASE ~Has(deal[c])
      BY <2>5, <3>2, QuietStepProtects DEF FindAgain, GoTo, locks
    <3> QED
      BY <3>1, <3>2
  <2>6. CASE Draw(c)
    <3>1. CASE Covers(payment[c], Amount[deal[c]])
      <4> SUFFICES ASSUME NEW other \in Callers PROVE Protected(other)'
        BY DEF LocksProtect
      <4>1. CASE other = c
        BY <2>6, <3>1, <4>1 DEF Draw, GoTo, LocksProtect, Protected, TypeOK, Has,
                                Covers, tables
      <4>2. CASE other # c
        <5>1. pc[other] \in AfterDraw => payment[other] # payment[c]
          BY <2>6, <3>1, SettlementAssumption
          DEF Draw, LocksProtect, Protected, SettlementAssumption
        <5> QED
          BY <2>6, <3>1, <4>2, <5>1 DEF Draw, GoTo, LocksProtect, Protected,
                                        TypeOK, Has, Covers, tables
      <4> QED
        BY <4>1, <4>2
    <3>2. CASE ~Covers(payment[c], Amount[deal[c]])
      BY <2>6, <3>2, RollbackProtects DEF Draw, GoTo
    <3> QED
      BY <3>1, <3>2
  <2>7. CASE DrawRaises(c)
    BY <2>7, RollbackProtects DEF DrawRaises, GoTo
  <2>8. CASE RailAnswers(c)
    <3>1. CASE RailCompletes(c)
      BY <3>1, QuietStepProtects DEF RailCompletes, GoTo, locks
    <3>2. CASE RailDeclines(c)
      BY <3>2, RollbackProtects DEF RailDeclines, GoTo
    <3>3. CASE RailNeverAnswers(c)
      <4> DEFINE step == IF AdapterAnswers THEN "declined" ELSE "idle"
      <4>1. step \in Steps \ InTransaction
        OBVIOUS
      <4>2. /\ Rollback(c) /\ UNCHANGED <<deal, payment>>
            /\ pc' = [pc EXCEPT ![c] = step]
        BY <3>3 DEF RailNeverAnswers, GoTo
      <4> HIDE DEF step
      <4> QED
        BY <4>1, <4>2, RollbackProtects
    <3> QED
      BY <2>8, <3>1, <3>2, <3>3 DEF RailAnswers
  <2>9. CASE Store(c)
    <3>1. CASE Has(deal[c])
      BY <2>9, <3>1, RollbackProtects DEF Store, GoTo
    <3>2. CASE ~Has(deal[c])
      BY <2>9, <3>2, QuietStepProtects DEF Store, GoTo, locks
    <3> QED
      BY <3>1, <3>2
  <2>10. CASE Record(c)
    BY <2>10, QuietStepProtects DEF Record, GoTo
  <2>11. CASE Commit(c)
    BY <2>11, CommitProtects
  <2>12. CASE Incomplete(c)
    BY <2>12, QuietStepProtects DEF Incomplete, Write, GoTo
  <2> QED
    BY <1>3, <2>1, <2>2, <2>3, <2>4, <2>5, <2>6, <2>7, <2>8, <2>9, <2>10,
       <2>11, <2>12 DEF Step
<1>4. ASSUME NEW c \in Callers, Fault(c) PROVE LocksProtect'
  BY <1>4, RollbackProtects DEF Fault, GoTo
<1> QED
  BY <1>1, <1>2, <1>3, <1>4 DEF Next

\* Only a Commit changes a receipt, a row or a total.
LEMMA OnlyCommitWrites ==
  ASSUME [Next]_vars, ~\E c \in Callers : Commit(c)
  PROVE  UNCHANGED <<rows, spent, receipts>>
BY DEF Next, Step, RailAnswers, Begin, Find, Connect, Attempt, OpenTransaction, LockDeal,
       FindAgain, Draw, DrawRaises, RailCompletes, RailDeclines, RailNeverAnswers,
       Store, Record, Incomplete, Fault, Rollback, vars, tables

\* No settlement takes a mandate past its ceiling.
LEMMA NextKeepsCeiling == IInv /\ [Next]_vars => LedgerWithinCeiling'
<1> SUFFICES ASSUME IInv, [Next]_vars PROVE LedgerWithinCeiling'
  OBVIOUS
<1>1. CASE \E c \in Callers : Commit(c)
  <2>1. PICK c \in Callers : Commit(c)
    BY <1>1
  <2>2. Covers(payment[c], Amount[deal[c]])
    BY <2>1 DEF Commit, IInv, LocksProtect, Protected
  <2> QED
    BY <2>1, <2>2 DEF Commit, IInv, TypeOK, LedgerWithinCeiling, Covers
<1>2. CASE ~\E c \in Callers : Commit(c)
  BY <1>2, OnlyCommitWrites DEF IInv, LedgerWithinCeiling
<1> QED
  BY <1>1, <1>2

\* A step other than a Begin starts no call and gives no caller another chain.
LEMMA StepKeepsCalls ==
  ASSUME TypeOK, NEW c \in Callers, Step(c) \/ Fault(c)
  PROVE  /\ UNCHANGED <<deal, payment>>
         /\ \A other \in Callers : pc'[other] # "idle" => pc[other] # "idle"
<1>1. UNCHANGED <<deal, payment>>
  BY DEF Step, RailAnswers, Find, Connect, Attempt, OpenTransaction, LockDeal, FindAgain,
         Draw, DrawRaises, RailCompletes, RailDeclines, RailNeverAnswers, Store,
         Record, Commit, Incomplete, Fault, callers
<1>2. CASE Connect(c)
  BY <1>1, <1>2 DEF Connect, callers
<1>3. CASE ~Connect(c)
  <2>1. pc[c] # "idle" /\ \E step \in Steps : pc' = [pc EXCEPT ![c] = step]
    BY <1>3 DEF Step, RailAnswers, Find, Attempt, OpenTransaction, LockDeal, FindAgain,
         Draw, DrawRaises, RailCompletes, RailDeclines, RailNeverAnswers, Store,
         Record, Commit, Incomplete, Fault, GoTo
  <2> QED
    BY <1>1, <2>1 DEF TypeOK
<1> QED
  BY <1>2, <1>3

\* Every receipt, and every call under way, stays a chain (settle.py, _chains_to).
LEMMA NextKeepsChain == IInv /\ [Next]_vars => ChainHolds'
<1> SUFFICES ASSUME IInv, [Next]_vars PROVE ChainHolds'
  OBVIOUS
<1>1. \A c \in Callers : pc'[c] # "idle" => RefersTo[payment'[c]] = CheckoutOf[deal'[c]]
  <2>1. CASE UNCHANGED vars
    BY <2>1 DEF IInv, ChainHolds, vars, callers
  <2>2. ASSUME NEW c \in Callers, NEW d \in Deals, NEW k \in Checkouts,
               NEW p \in Payments, Begin(c, d, k, p)
        PROVE  \A other \in Callers :
                 pc'[other] # "idle" => RefersTo[payment'[other]] = CheckoutOf[deal'[other]]
    BY <2>2 DEF Begin, ChainsTo, GoTo, IInv, ChainHolds, TypeOK
  <2>3. ASSUME NEW c \in Callers, Step(c) \/ Fault(c)
        PROVE  \A other \in Callers :
                 pc'[other] # "idle" => RefersTo[payment'[other]] = CheckoutOf[deal'[other]]
    BY <2>3, StepKeepsCalls DEF IInv, ChainHolds
  <2> QED
    BY <2>1, <2>2, <2>3 DEF Next
<1>2. \A r \in receipts' : RefersTo[r.payment] = CheckoutOf[r.deal]
  <2>1. CASE \E c \in Callers : Commit(c)
    <3>1. PICK c \in Callers : Commit(c)
      BY <2>1
    <3> QED
      BY <3>1 DEF Commit, IInv, ChainHolds
  <2>2. CASE ~\E c \in Callers : Commit(c)
    BY <2>2, OnlyCommitWrites DEF IInv, ChainHolds
  <2> QED
    BY <2>1, <2>2
<1> QED
  BY <1>1, <1>2 DEF ChainHolds

\* Before the first call of settle nothing is drawn, settled or locked.
LEMMA InitInductive == Init => IInv
<1> SUFFICES ASSUME Init PROVE IInv
  OBVIOUS
<1>1. TypeOK
  BY InitTyped
<1> QED
  BY <1>1, SettlementAssumption
  DEF Init, IInv, LocksProtect, Protected, LedgerWithinCeiling, ChainHolds,
      SettlementAssumption

\* Every step of settle keeps types, locks, ceilings and chains together.
LEMMA NextInductive == IInv /\ [Next]_vars => IInv'
BY NextTyped, NextProtects, NextKeepsCeiling, NextKeepsChain DEF IInv

\* The inductive invariant of settle.py, in every reachable state.
THEOREM Inductive == Spec => []IInv
BY InitInductive, NextInductive, PTL DEF Spec
-----------------------------------------------------------------------------
\* However settlements race, no mandate is drawn past its ceiling.
THEOREM CeilingIsNeverPassed == Spec => []LedgerWithinCeiling
<1>1. IInv => LedgerWithinCeiling
  BY DEF IInv
<1> QED
  BY <1>1, Inductive, PTL

\* Whoever is charging holds both locks, the deal is unsettled and the ceiling
\* still covers it.
THEOREM LocksAlwaysProtect == Spec => []LocksProtect
<1>1. IInv => LocksProtect
  BY DEF IInv
<1> QED
  BY <1>1, Inductive, PTL

\* A deal that has its receipt is never charged again.
THEOREM SettledDealsStayUncharged == Spec => SettledDealsAreNotCharged
<1>1. IInv /\ [Next]_vars => [\A d \in Deals : Has(d) => taken'[d] = taken[d]]_vars
  <2> SUFFICES ASSUME IInv, Next, NEW d \in Deals, Has(d) PROVE taken'[d] = taken[d]
    OBVIOUS
  <2>1. ASSUME NEW c \in Callers, RailCompletes(c) \/ RailNeverAnswers(c)
        PROVE  taken'[d] = taken[d]
    <3>1. deal[c] # d
      BY <2>1 DEF RailCompletes, RailNeverAnswers, IInv, LocksProtect, Protected
    <3> QED
      BY <2>1, <3>1 DEF RailCompletes, RailNeverAnswers, IInv, TypeOK
  <2>2. CASE ~\E c \in Callers : RailCompletes(c) \/ RailNeverAnswers(c)
    BY <2>2 DEF Next, Step, RailAnswers, Begin, Find, Connect, Attempt, OpenTransaction,
       LockDeal, FindAgain, Draw, DrawRaises, RailDeclines, Store, Record, Commit,
       Incomplete, Fault, rail
  <2> QED
    BY <2>1, <2>2
<1> QED
  BY <1>1, Inductive, PTL DEF Spec, SettledDealsAreNotCharged

\* Settlement implements the ledger that settles each deal in one step: a
\* Commit is that step, and everything else is invisible to it.
THEOREM Refinement == Spec => SettlesAtomically
<1>1. Init => Ledger!AbstractInit
  BY DEF Init, Ledger!AbstractInit
<1>2. IInv /\ [Next]_vars => [Ledger!AbstractNext]_(Ledger!abstractVars)
  <2> SUFFICES ASSUME IInv, [Next]_vars
               PROVE  [Ledger!AbstractNext]_(Ledger!abstractVars)
    OBVIOUS
  <2>1. ASSUME NEW c \in Callers, Commit(c)
        PROVE  Ledger!Settle(deal[c], payment[c])
    BY <2>1 DEF Commit, IInv, TypeOK, LocksProtect, Protected, ChainHolds, Has,
                Covers, Ledger!Settle, Ledger!IsSettled, Ledger!Authorises
  <2>2. CASE \E c \in Callers : Commit(c)
    BY <2>1, <2>2 DEF IInv, TypeOK, Ledger!AbstractNext
  <2>3. CASE ~\E c \in Callers : Commit(c)
    BY <2>3, OnlyCommitWrites DEF Ledger!abstractVars
  <2> QED
    BY <2>2, <2>3
<1> QED
  BY <1>1, <1>2, Inductive, PTL DEF Spec, SettlesAtomically, Ledger!AbstractSpec
-----------------------------------------------------------------------------
(* The ledger and its receipts.                                            *)

\* What is drawn is what the receipts add up to, and the rows are theirs.
TotalsMatch ==
  /\ IsFiniteSet(receipts)
  /\ \A p \in Payments :
       /\ spent[p] = SumOf({r \in receipts : r.payment = p})
       /\ p \in rows <=> \E r \in receipts : r.payment = p

\* Nothing is settled and nothing is drawn.
LEMMA InitMatches == Init => TotalsMatch
<1> SUFFICES ASSUME Init, NEW p \in Payments
             PROVE  spent[p] = SumOf({r \in receipts : r.payment = p})
  BY FS_EmptySet DEF Init, TotalsMatch
<1>1. {r \in receipts : r.payment = p} = {}
  BY DEF Init
<1>2. SumOf({}) = 0
  BY FS_EmptySet, SumByFirst
<1> QED
  BY <1>1, <1>2 DEF Init

\* A Commit adds one receipt to those of its mandate, and its total to the sum.
LEMMA CommitMatches ==
  ASSUME IInv, TotalsMatch, NEW c \in Callers, Commit(c)
  PROVE  TotalsMatch'
<1> DEFINE new == [deal |-> deal[c], payment |-> payment[c]]
           Of(p) == {r \in receipts : r.payment = p}
<1>1. /\ receipts' = receipts \union {new}
      /\ spent' = [spent EXCEPT ![payment[c]] = @ + Amount[deal[c]]]
      /\ rows' = rows \union {payment[c]}
  BY DEF Commit
<1>2. new \in Receipt /\ new.deal = deal[c] /\ new.payment = payment[c]
  BY DEF IInv, TypeOK, Receipt
<1>3. new \notin receipts
  <2>1. ~Has(deal[c])
    BY DEF Commit, IInv, LocksProtect, Protected
  <2> QED
    BY <1>2, <2>1 DEF Has
<1> HIDE DEF new
<1>4. IsFiniteSet(receipts')
  BY <1>1, FS_AddElement DEF TotalsMatch
<1>5. ASSUME NEW p \in Payments
      PROVE  spent'[p] = SumOf({r \in receipts' : r.payment = p})
  <2>1. Of(p) \in SUBSET Receipt /\ IsFiniteSet(Of(p)) /\ spent[p] = SumOf(Of(p))
    <3>1. Of(p) \in SUBSET receipts
      OBVIOUS
    <3>2. IsFiniteSet(Of(p))
      BY <3>1, FS_Subset DEF TotalsMatch
    <3> QED
      BY <3>1, <3>2 DEF TotalsMatch, IInv, TypeOK
  <2>2. CASE p = payment[c]
    <3>1. {r \in receipts' : r.payment = p} = Of(p) \union {new}
      BY <1>1, <1>2, <2>2
    <3>2. new \notin Of(p)
      BY <1>3
    <3> HIDE DEF Of
    <3>3. SumOf(Of(p) \union {new}) = SumOf(Of(p)) + Amount[new.deal]
      BY <1>2, <2>1, <3>2, SumOfOneMore
    <3> QED
      BY <1>1, <1>2, <2>1, <2>2, <3>1, <3>3 DEF IInv, TypeOK
  <2>3. CASE p # payment[c]
    <3>1. {r \in receipts' : r.payment = p} = Of(p)
      BY <1>1, <1>2, <2>3
    <3> HIDE DEF Of
    <3> QED
      BY <1>1, <2>1, <2>3, <3>1 DEF IInv, TypeOK
  <2> QED
    BY <2>2, <2>3
<1>6. \A p \in Payments : p \in rows' <=> \E r \in receipts' : r.payment = p
  BY <1>1, <1>2 DEF TotalsMatch
<1> QED
  BY <1>4, <1>5, <1>6 DEF TotalsMatch

\* LedgerMatchesReceipts: whatever the callers, the mandates and the faults, the running
\* total of a mandate is what its receipts add up to and within its ceiling, and it has
\* a row exactly if it has a receipt (accumulator.py and store.py, one transaction).
THEOREM LedgerAlwaysMatches == Spec => []LedgerMatchesReceipts
<1>1. IInv /\ TotalsMatch /\ [Next]_vars => TotalsMatch'
  <2> SUFFICES ASSUME IInv, TotalsMatch, [Next]_vars PROVE TotalsMatch'
    OBVIOUS
  <2>1. CASE \E c \in Callers : Commit(c)
    BY <2>1, CommitMatches
  <2>2. CASE ~\E c \in Callers : Commit(c)
    BY <2>2, OnlyCommitWrites DEF TotalsMatch
  <2> QED
    BY <2>1, <2>2
<1>2. IInv /\ TotalsMatch => LedgerMatchesReceipts
  BY FoldIsSum DEF IInv, LedgerWithinCeiling, TotalsMatch, LedgerMatchesReceipts, Charged
<1> QED
  BY <1>1, <1>2, InitMatches, Inductive, PTL DEF Spec
-----------------------------------------------------------------------------
(* Every taking and every attempt is accounted for.                        *)

\* How many callers are at one of the steps X, about d.
Counted(where, about, X, d) == Cardinality({c \in Callers : where[c] \in X /\ about[c] = d})

\* A caller that moves is counted at one more, at one less, or as it was.
LEMMA CountMoves ==
  ASSUME TypeOK, NEW c \in Callers, NEW step, GoTo(c, step), deal' = deal,
         NEW X, NEW d
  PROVE  /\ Counted(pc, deal, X, d) \in Nat
         /\ d # deal[c] \/ (pc[c] \in X <=> step \in X) =>
              Counted(pc', deal', X, d) = Counted(pc, deal, X, d)
         /\ d = deal[c] /\ pc[c] \notin X /\ step \in X =>
              Counted(pc', deal', X, d) = Counted(pc, deal, X, d) + 1
         /\ d = deal[c] /\ pc[c] \in X /\ step \notin X =>
              Counted(pc', deal', X, d) = Counted(pc, deal, X, d) - 1
<1> DEFINE now == {o \in Callers : pc[o] \in X /\ deal[o] = d}
           next == {o \in Callers : pc'[o] \in X /\ deal'[o] = d}
<1>1. Counted(pc, deal, X, d) = Cardinality(now) /\ Counted(pc', deal', X, d) = Cardinality(next)
  BY DEF Counted
<1>2. IsFiniteSet(now)
  <2>1. now \in SUBSET Callers
    OBVIOUS
  <2> HIDE DEF now
  <2> QED
    BY <2>1, SettlementAssumption, FS_Subset
<1>3. /\ d # deal[c] \/ (pc[c] \in X <=> step \in X) => next = now
      /\ d = deal[c] /\ pc[c] \notin X /\ step \in X => c \notin now /\ next = now \union {c}
      /\ d = deal[c] /\ pc[c] \in X /\ step \notin X => c \in now /\ next = now \ {c}
  BY DEF TypeOK, GoTo
<1> HIDE DEF now, next
<1>4. /\ Cardinality(now \union {c}) = IF c \in now THEN Cardinality(now) ELSE Cardinality(now) + 1
      /\ Cardinality(now \ {c}) = IF c \in now THEN Cardinality(now) - 1 ELSE Cardinality(now)
  BY <1>2, FS_AddElement, FS_RemoveElement
<1>5. Cardinality(now) \in Nat
  BY <1>2, FS_CardinalityType
<1> QED
  BY <1>1, <1>3, <1>4, <1>5

\* A call that begins is not counted anywhere yet.
LEMMA BeginNotCounted ==
  ASSUME TypeOK, NEW c \in Callers, pc[c] = "idle", GoTo(c, "find"),
         \A o \in Callers \ {c} : deal'[o] = deal[o],
         NEW X, "idle" \notin X, "find" \notin X, NEW d
  PROVE  Counted(pc', deal', X, d) = Counted(pc, deal, X, d)
<1>1. {o \in Callers : pc'[o] \in X /\ deal'[o] = d} = {o \in Callers : pc[o] \in X /\ deal[o] = d}
  BY DEF TypeOK, GoTo
<1> QED
  BY <1>1 DEF Counted

\* A caller that stays where it is goes nowhere.
LEMMA Stays ==
  ASSUME TypeOK, NEW c \in Callers, Connect(c)
  PROVE  pc[c] \in Steps /\ GoTo(c, pc[c])
BY DEF TypeOK, Connect, callers, GoTo

\* The steps that neither charge nor settle nor lose a charge.
Uncharged(c) ==
  /\ UNCHANGED <<deal, receipts, taken, lostMoney>>
  /\ \E step \in Steps :
       /\ GoTo(c, step)
       /\ pc[c] \in AfterCharge <=> step \in AfterCharge

LEMMA UnchargedSteps ==
  ASSUME TypeOK, LocksProtect, NEW c \in Callers, Step(c),
         ~(RailCompletes(c) \/ RailNeverAnswers(c) \/ Commit(c))
  PROVE  Uncharged(c)
<1> USE DEF GoTo, Uncharged, tables, rail
<1>1. CASE Find(c)
  <2>1. PICK step \in {"idle", "attempt"} : pc' = [pc EXCEPT ![c] = step]
    BY <1>1 DEF Find
  <2>2. pc[c] = "find" /\ UNCHANGED <<deal, receipts, taken, lostMoney>>
    BY <1>1 DEF Find
  <2>3. step \in Steps /\ pc[c] \notin AfterCharge /\ step \notin AfterCharge
    BY <2>2
  <2> QED
    BY <2>1, <2>2, <2>3
<1>2. CASE Connect(c) \/ Attempt(c)
  <2>1. CASE Connect(c)
    BY <2>1, Stays DEF Connect, callers
  <2>2. CASE Attempt(c)
    BY <2>2 DEF Attempt
  <2> QED
    BY <1>2, <2>1, <2>2
<1>3. CASE OpenTransaction(c)
  BY <1>3 DEF OpenTransaction
<1>4. CASE LockDeal(c)
  BY <1>4 DEF LockDeal
<1>5. CASE FindAgain(c)
  BY <1>5 DEF FindAgain, Rollback
<1>6. CASE Draw(c)
  BY <1>6 DEF Draw, Rollback
<1>7. CASE DrawRaises(c)
  BY <1>7 DEF DrawRaises, Rollback
<1>8. CASE RailDeclines(c)
  BY <1>8 DEF RailDeclines, Rollback
<1>9. CASE Store(c)
  BY <1>9 DEF Store, LocksProtect, Protected
<1>10. CASE Record(c)
  BY <1>10 DEF Record
<1>11. CASE Incomplete(c)
  BY <1>11 DEF Incomplete
<1> QED
  BY <1>1, <1>2, <1>3, <1>4, <1>5, <1>6, <1>7, <1>8, <1>9, <1>10, <1>11
  DEF Step, RailAnswers

\* MoneyIsAccountedFor: however calls race and wherever they die, each taking of a deal's
\* money is its receipt's, or that of a settlement under way, or one lost to the rail's
\* silence or a fault (settle.py charges inside the transaction that stores the receipt).
THEOREM TakingsAreAccountedFor == Spec => []MoneyIsAccountedFor
<1>1. Init => MoneyIsAccountedFor
  <2> SUFFICES ASSUME Init, NEW d \in Deals
               PROVE  taken[d] = (IF Has(d) THEN 1 ELSE 0)
                                  + Cardinality(At(AfterCharge, d)) + lostMoney[d]
    BY DEF MoneyIsAccountedFor
  <2>1. At(AfterCharge, d) = {} /\ ~Has(d) /\ taken[d] = 0 /\ lostMoney[d] = 0
    BY DEF Init, At, Has
  <2>2. Cardinality(At(AfterCharge, d)) = 0
    BY <2>1, FS_EmptySet
  <2> QED
    BY <2>1, <2>2
<1>2. IInv /\ MoneyIsAccountedFor /\ [Next]_vars => MoneyIsAccountedFor'
  <2> SUFFICES ASSUME TypeOK, LocksProtect, MoneyIsAccountedFor, [Next]_vars, NEW d \in Deals
               PROVE  taken'[d] = (IF Has(d)' THEN 1 ELSE 0)
                                   + Counted(pc', deal', AfterCharge, d) + lostMoney'[d]
    BY DEF IInv, MoneyIsAccountedFor, At, Counted, AfterCharge
  <2> DEFINE count == Counted(pc, deal, AfterCharge, d)
             next == Counted(pc', deal', AfterCharge, d)
  <2>0. /\ taken[d] = (IF Has(d) THEN 1 ELSE 0) + count + lostMoney[d]
        /\ taken[d] \in Nat /\ lostMoney[d] \in Nat
    BY DEF MoneyIsAccountedFor, TypeOK, At, Counted
  <2>1. CASE UNCHANGED vars
    <3>1. UNCHANGED <<pc, deal, receipts, taken, lostMoney>>
      BY <2>1 DEF vars, callers, tables, rail
    <3> QED
      BY <2>0, <3>1 DEF Has
  <2>2. ASSUME NEW c \in Callers, NEW e \in Deals, NEW k \in Checkouts,
               NEW p \in Payments, Begin(c, e, k, p)
        PROVE  /\ next = count
               /\ UNCHANGED <<receipts, taken, lostMoney>>
    <3>1. /\ pc[c] = "idle" /\ GoTo(c, "find") /\ \A o \in Callers \ {c} : deal'[o] = deal[o]
          /\ "idle" \notin AfterCharge /\ "find" \notin AfterCharge
      BY <2>2 DEF Begin, AfterCharge, TypeOK
    <3>2. next = count
      BY <3>1, BeginNotCounted
    <3> QED
      BY <2>2, <3>2 DEF Begin, tables, rail
  <2>3. ASSUME NEW c \in Callers, Uncharged(c)
        PROVE  /\ next = count
               /\ UNCHANGED <<receipts, taken, lostMoney>>
    <3>1. PICK step \in Steps :
            /\ GoTo(c, step)
            /\ pc[c] \in AfterCharge <=> step \in AfterCharge
      BY <2>3 DEF Uncharged
    <3>2. deal' = deal
      BY <2>3 DEF Uncharged
    <3>3. next = count
      BY <3>1, <3>2, CountMoves
    <3> QED
      BY <2>3, <3>3 DEF Uncharged
  <2>4. ASSUME NEW c \in Callers, RailCompletes(c)
        PROVE  taken'[d] = (IF Has(d)' THEN 1 ELSE 0) + next + lostMoney'[d]
    <3>1. /\ pc[c] = "charge" /\ GoTo(c, "store")
          /\ deal' = deal /\ receipts' = receipts /\ lostMoney' = lostMoney
          /\ taken' = [taken EXCEPT ![deal[c]] = @ + 1]
          /\ pc[c] \notin AfterCharge /\ "store" \in AfterCharge
      BY <2>4 DEF RailCompletes, tables, AfterCharge
    <3>2. /\ count \in Nat
          /\ d # deal[c] => next = count
          /\ d = deal[c] => next = count + 1
      BY <3>1, CountMoves
    <3>3. Has(d)' = Has(d)
      BY <3>1 DEF Has
    <3>4. /\ d = deal[c] => taken'[d] = taken[d] + 1
          /\ d # deal[c] => taken'[d] = taken[d]
          /\ lostMoney' = lostMoney
      BY <3>1 DEF TypeOK
    <3> HIDE DEF count, next
    <3> QED
      BY <2>0, <3>2, <3>3, <3>4
  <2>5. ASSUME NEW c \in Callers, RailNeverAnswers(c)
        PROVE  taken'[d] = (IF Has(d)' THEN 1 ELSE 0) + next + lostMoney'[d]
    <3>1. PICK n \in {0, 1} :
            /\ taken' = [taken EXCEPT ![deal[c]] = @ + n]
            /\ lostMoney' = [lostMoney EXCEPT ![deal[c]] = @ + n]
      BY <2>5 DEF RailNeverAnswers
    <3>2. PICK step \in {"declined", "idle"} : GoTo(c, step)
      BY <2>5 DEF RailNeverAnswers
    <3>3. /\ pc[c] \notin AfterCharge /\ step \notin AfterCharge
          /\ deal' = deal /\ receipts' = receipts
      BY <2>5 DEF RailNeverAnswers, Rollback, tables, AfterCharge
    <3>4. count \in Nat /\ next = count
      BY <3>2, <3>3, CountMoves
    <3>5. Has(d)' = Has(d)
      BY <3>3 DEF Has
    <3>6. CASE d = deal[c]
      <4> HIDE DEF count, next
      <4> QED
        BY <2>0, <3>1, <3>4, <3>5, <3>6 DEF TypeOK
    <3>7. CASE d # deal[c]
      <4> HIDE DEF count, next
      <4> QED
        BY <2>0, <3>1, <3>4, <3>5, <3>7 DEF TypeOK
    <3> QED
      BY <3>6, <3>7
  <2>6. ASSUME NEW c \in Callers, Commit(c)
        PROVE  taken'[d] = (IF Has(d)' THEN 1 ELSE 0) + next + lostMoney'[d]
    <3>1. /\ pc[c] = "commit" /\ GoTo(c, "idle")
          /\ deal' = deal /\ taken' = taken /\ lostMoney' = lostMoney
          /\ receipts' = receipts \union {[deal |-> deal[c], payment |-> payment[c]]}
          /\ pc[c] \in AfterCharge /\ "idle" \notin AfterCharge
      BY <2>6 DEF Commit, rail, AfterCharge
    <3>2. /\ count \in Nat
          /\ d # deal[c] => next = count
          /\ d = deal[c] => next = count - 1
      BY <3>1, CountMoves
    <3>3. ~Has(deal[c])
      BY <3>1 DEF LocksProtect, Protected
    <3>4. /\ d = deal[c] => Has(d)'
          /\ d # deal[c] => (Has(d)' <=> Has(d))
      <4> DEFINE new == [deal |-> deal[c], payment |-> payment[c]]
      <4>1. new.deal = deal[c] /\ receipts' = receipts \union {new}
        BY <3>1
      <4> HIDE DEF new
      <4> QED
        BY <4>1 DEF Has
    <3> HIDE DEF count, next
    <3> QED
      BY <2>0, <3>1, <3>2, <3>3, <3>4
  <2>7. ASSUME NEW c \in Callers, Fault(c)
        PROVE  taken'[d] = (IF Has(d)' THEN 1 ELSE 0) + next + lostMoney'[d]
    <3>1. /\ GoTo(c, "idle")
          /\ deal' = deal /\ taken' = taken /\ receipts' = receipts
          /\ lostMoney' = IF pc[c] \in AfterCharge
                          THEN [lostMoney EXCEPT ![deal[c]] = @ + 1] ELSE lostMoney
          /\ "idle" \notin AfterCharge
      BY <2>7 DEF Fault, Rollback, tables, AfterCharge
    <3>2. /\ count \in Nat
          /\ d # deal[c] \/ pc[c] \notin AfterCharge => next = count
          /\ d = deal[c] /\ pc[c] \in AfterCharge => next = count - 1
      BY <3>1, CountMoves
    <3>3. Has(d)' = Has(d)
      BY <3>1 DEF Has
    <3>4. /\ d = deal[c] /\ pc[c] \in AfterCharge => lostMoney'[d] = lostMoney[d] + 1
          /\ d # deal[c] \/ pc[c] \notin AfterCharge => lostMoney'[d] = lostMoney[d]
      BY <3>1 DEF TypeOK
    <3> HIDE DEF count, next
    <3> QED
      BY <2>0, <3>1, <3>2, <3>3, <3>4
  <2>8. CASE \E c \in Callers : Uncharged(c)
    BY <2>0, <2>3, <2>8 DEF Has
  <2>9. CASE \E c \in Callers, e \in Deals, k \in Checkouts, p \in Payments : Begin(c, e, k, p)
    BY <2>0, <2>2, <2>9 DEF Has
  <2> QED
    BY <2>1, <2>4, <2>5, <2>6, <2>7, <2>8, <2>9, UnchargedSteps DEF Next
<1> QED
  BY <1>1, <1>2, Inductive, PTL DEF Spec

\* The steps inside an attempt, which neither start nor end one.
Inside(c, X) ==
  /\ UNCHANGED <<deal, trail, unheard>>
  /\ \E step \in Steps : GoTo(c, step) /\ (pc[c] \in X <=> step \in X)

InCall == {"open", "stopped", "declined"} \union InTransaction

LEMMA InsideSteps ==
  ASSUME TypeOK, LocksProtect, NEW c \in Callers, Step(c), Drawable = Payments,
         ~(Attempt(c) \/ RailNeverAnswers(c) \/ Commit(c) \/ Incomplete(c))
  PROVE  Inside(c, InCall)
<1> USE DEF Inside, InCall, rail
<1>1. CASE Find(c)
  <2>1. PICK step \in {"idle", "attempt"} : GoTo(c, step)
    BY <1>1 DEF Find
  <2>2. pc[c] = "find" /\ UNCHANGED <<deal, trail, unheard>>
    BY <1>1 DEF Find
  <2>3. step \in Steps /\ pc[c] \notin InCall /\ step \notin InCall
    BY <2>2
  <2> QED
    BY <2>1, <2>2, <2>3
<1>2. CASE Connect(c) \/ OpenTransaction(c)
  <2>1. CASE Connect(c)
    BY <2>1, Stays DEF Connect, callers
  <2>2. CASE OpenTransaction(c)
    BY <2>2 DEF OpenTransaction
  <2> QED
    BY <1>2, <2>1, <2>2
<1>3. CASE LockDeal(c)
  BY <1>3 DEF LockDeal
<1>4. CASE FindAgain(c)
  BY <1>4 DEF FindAgain, Rollback
<1>5. CASE Draw(c)
  BY <1>5 DEF Draw, Rollback
<1>6. CASE DrawRaises(c)
  BY <1>6 DEF DrawRaises, TypeOK
<1>7. CASE RailCompletes(c)
  BY <1>7 DEF RailCompletes
<1>8. CASE RailDeclines(c)
  BY <1>8 DEF RailDeclines, Rollback
<1>9. CASE Store(c)
  BY <1>9 DEF Store, LocksProtect, Protected
<1>10. CASE Record(c)
  BY <1>10 DEF Record
<1> QED
  BY <1>1, <1>2, <1>3, <1>4, <1>5, <1>6, <1>7, <1>8, <1>9, <1>10 DEF Step, RailAnswers

\* DanglingMeansUnheard: if the rail's adapter raises when it is not answered, every
\* mandate can be drawn on and no process dies, then an attempt in the trail with no
\* ending is under way, or its rail call was never answered.
THEOREM AttemptsAreEnded ==
  ASSUME ~AdapterAnswers, ~Faults, Drawable = Payments
  PROVE  Spec => []DanglingMeansUnheard
<1>1. Init => DanglingMeansUnheard
  <2> SUFFICES ASSUME Init, NEW d \in Deals
               PROVE  trail[d]["attempted"] = Ended(d) + Cardinality(UnderWay(d)) + unheard[d]
    BY DEF DanglingMeansUnheard
  <2>1. UnderWay(d) = {} /\ unheard[d] = 0 /\ trail[d]["attempted"] = 0 /\ Ended(d) = 0
    BY DEF Init, At, UnderWay, Ended
  <2>2. Cardinality(UnderWay(d)) = 0
    BY <2>1, FS_EmptySet
  <2> QED
    BY <2>1, <2>2
<1>2. IInv /\ DanglingMeansUnheard /\ [Next]_vars => DanglingMeansUnheard'
  <2> SUFFICES ASSUME TypeOK, LocksProtect, DanglingMeansUnheard, [Next]_vars, NEW d \in Deals
               PROVE  trail'[d]["attempted"] =
                        Ended(d)' + Counted(pc', deal', InCall, d) + unheard'[d]
    BY DEF IInv, DanglingMeansUnheard, UnderWay, At, Counted, InCall
  <2> DEFINE count == Counted(pc, deal, InCall, d)
             next == Counted(pc', deal', InCall, d)
  <2>0. /\ trail[d]["attempted"] = Ended(d) + count + unheard[d]
        /\ trail[d] \in [Events -> Nat] /\ unheard[d] \in Nat /\ Ended(d) \in Nat
    BY DEF DanglingMeansUnheard, UnderWay, At, Counted, InCall, TypeOK, Ended
  <2>1. CASE UNCHANGED vars
    <3>1. UNCHANGED <<pc, deal, trail, unheard>>
      BY <2>1 DEF vars, callers, rail
    <3> QED
      BY <2>0, <3>1 DEF Ended
  <2>2. ASSUME NEW c \in Callers, NEW e \in Deals, NEW k \in Checkouts,
               NEW p \in Payments, Begin(c, e, k, p)
        PROVE  next = count /\ UNCHANGED <<trail, unheard>>
    <3>1. /\ pc[c] = "idle" /\ GoTo(c, "find") /\ \A o \in Callers \ {c} : deal'[o] = deal[o]
          /\ "idle" \notin InCall /\ "find" \notin InCall
      BY <2>2 DEF Begin, InCall, TypeOK
    <3>2. next = count
      BY <3>1, BeginNotCounted
    <3> QED
      BY <2>2, <3>2 DEF Begin, rail
  <2>3. ASSUME NEW c \in Callers, Inside(c, InCall)
        PROVE  next = count /\ UNCHANGED <<trail, unheard>>
    <3>1. PICK step \in Steps : GoTo(c, step) /\ (pc[c] \in InCall <=> step \in InCall)
      BY <2>3 DEF Inside
    <3>2. deal' = deal
      BY <2>3 DEF Inside
    <3>3. next = count
      BY <3>1, <3>2, CountMoves
    <3> QED
      BY <2>3, <3>3 DEF Inside
  <2>4. ASSUME NEW c \in Callers, Attempt(c)
        PROVE  trail'[d]["attempted"] = Ended(d)' + next + unheard'[d]
    <3>1. /\ pc[c] = "attempt" /\ GoTo(c, "open") /\ deal' = deal /\ unheard' = unheard
          /\ trail' = [trail EXCEPT ![deal[c]]["attempted"] = @ + 1]
          /\ pc[c] \notin InCall /\ "open" \in InCall
      BY <2>4 DEF Attempt, Write, rail, InCall
    <3>2. /\ count \in Nat
          /\ d # deal[c] => next = count
          /\ d = deal[c] => next = count + 1
      BY <3>1, CountMoves
    <3>3. /\ d = deal[c] => trail'[d]["attempted"] = trail[d]["attempted"] + 1
          /\ d # deal[c] => trail'[d]["attempted"] = trail[d]["attempted"]
          /\ Ended(d)' = Ended(d)
      BY <3>1 DEF TypeOK, Ended
    <3> HIDE DEF count, next
    <3> QED
      BY <2>0, <3>1, <3>2, <3>3
  <2>5. ASSUME NEW c \in Callers, NEW kind \in Endings,
               pc[c] \in InCall, GoTo(c, "idle"), deal' = deal, unheard' = unheard,
               trail' = [trail EXCEPT ![deal[c]][kind] = @ + 1]
        PROVE  trail'[d]["attempted"] = Ended(d)' + next + unheard'[d]
    <3>1. /\ count \in Nat
          /\ d # deal[c] => next = count
          /\ d = deal[c] => next = count - 1
      <4>1. "idle" \notin InCall
        BY DEF InCall
      <4> QED
        BY <2>5, <4>1, CountMoves
    <3>2. /\ d = deal[c] => Ended(d)' = Ended(d) + 1
          /\ d # deal[c] => Ended(d)' = Ended(d)
          /\ trail'[d]["attempted"] = trail[d]["attempted"]
      BY <2>5 DEF TypeOK, Ended
    <3> HIDE DEF count, next
    <3> QED
      BY <2>0, <2>5, <3>1, <3>2
  <2>6. ASSUME NEW c \in Callers, RailNeverAnswers(c)
        PROVE  trail'[d]["attempted"] = Ended(d)' + next + unheard'[d]
    <3>1. /\ pc[c] \in InCall /\ GoTo(c, "idle") /\ "idle" \notin InCall
          /\ deal' = deal /\ trail' = trail
          /\ unheard' = [unheard EXCEPT ![deal[c]] = @ + 1]
      BY <2>6 DEF RailNeverAnswers, Rollback, InCall
    <3>2. /\ count \in Nat
          /\ d # deal[c] => next = count
          /\ d = deal[c] => next = count - 1
      BY <3>1, CountMoves
    <3>3. /\ d = deal[c] => unheard'[d] = unheard[d] + 1
          /\ d # deal[c] => unheard'[d] = unheard[d]
          /\ trail'[d]["attempted"] = trail[d]["attempted"] /\ Ended(d)' = Ended(d)
      BY <3>1 DEF TypeOK, Ended
    <3> HIDE DEF count, next
    <3> QED
      BY <2>0, <3>2, <3>3
  <2>7. ASSUME NEW c \in Callers, Commit(c)
        PROVE  trail'[d]["attempted"] = Ended(d)' + next + unheard'[d]
    <3>1. /\ pc[c] \in InCall /\ GoTo(c, "idle") /\ deal' = deal /\ unheard' = unheard
          /\ trail' = [trail EXCEPT ![deal[c]]["issued"] = @ + 1]
      BY <2>7 DEF Commit, rail, InCall
    <3> QED
      BY <2>5, <3>1
  <2>8. ASSUME NEW c \in Callers, Incomplete(c)
        PROVE  trail'[d]["attempted"] = Ended(d)' + next + unheard'[d]
    <3>1. /\ pc[c] \in Endings /\ pc[c] \in InCall
          /\ GoTo(c, "idle") /\ deal' = deal /\ unheard' = unheard
          /\ trail' = [trail EXCEPT ![deal[c]][pc[c]] = @ + 1]
      BY <2>8 DEF Incomplete, Write, rail, InCall
    <3> QED
      BY <2>5, <3>1
  <2>9. CASE \E c \in Callers : Inside(c, InCall)
    BY <2>0, <2>3, <2>9 DEF Ended
  <2>10. CASE \E c \in Callers, e \in Deals, k \in Checkouts, p \in Payments : Begin(c, e, k, p)
    BY <2>0, <2>2, <2>10 DEF Ended
  <2>11. CASE \E c \in Callers : Step(c)
    BY <2>4, <2>6, <2>7, <2>8, <2>9, <2>11, InsideSteps
  <2> QED
    BY <2>1, <2>10, <2>11 DEF Next, Fault
<1> QED
  BY <1>1, <1>2, Inductive, PTL DEF Spec
=============================================================================
