-------------------------- MODULE AuditTrailProofs --------------------------
(***************************************************************************)
(* AuditTrail, for any writers, payloads and number of entries.            *)
(*                                                                         *)
(* That the committed table verifies is not inductive: a commit adds what  *)
(* a transaction has pending.  What is inductive is that every transaction *)
(* sees a chain, that only the holder of the chain lock has anything       *)
(* pending, and that the head it read is still the head it sees.           *)
(*                                                                         *)
(* What verify makes of another table in the place of the committed one is *)
(* then a matter of two tables, with no steps: rows that verify are        *)
(* numbered from one (VerifiedNumbers) and chained (VerifiedIsChained),    *)
(* and two chained tables that have a hash in common are the same up to    *)
(* the row that has it (SameHashSameRows), since its digest is of the row  *)
(* before.                                                                 *)
(***************************************************************************)
EXTENDS AuditTrail, FiniteSetTheorems, WellFoundedInduction, TLAPS

\* A table whose rows are 1..n, each once, each chained onto the one before it.
Chained(table) ==
  /\ \E n \in Nat : {e.seq : e \in table} = 1..n
  /\ \A e, f \in table : e.seq = f.seq => e = f
  /\ \A e \in table : IF e.seq = 1 THEN e.prev = Genesis
                      ELSE \E f \in table : f.seq = e.seq - 1 /\ f.hash = e.prev
  /\ \A e \in table : e.hash = DigestOf(e.seq, e.body, e.prev)

\* A writer's turn at the chain.
InTurn(w) ==
  /\ pc[w] \in {"locked", "read"} \/ pending[w] # {} => chainLock = w
  /\ Chained(Visible(w))
  /\ pc[w] = "read" => head[w] = HeadOf(Visible(w))

ChainInv == TypeOK /\ Chained(entries) /\ \A w \in Writers : InTurn(w)
-----------------------------------------------------------------------------
(* What the helpers of trail.py return over a chained table.               *)

\* The last row of a chained table is one of its rows and has the highest seq.
LEMMA LastRow ==
  ASSUME NEW table, Chained(table), table # {}
  PROVE  /\ LastOf(table) \in table
         /\ LastOf(table).seq \in Nat \ {0}
         /\ {e.seq : e \in table} = 1..LastOf(table).seq
<1>1. PICK n \in Nat : {e.seq : e \in table} = 1..n
  BY DEF Chained
<1>2. n \in 1..n
  BY <1>1
<1>3. PICK last \in table : last.seq = n
  BY <1>1, <1>2
<1>4. \A f \in table : f.seq \in 1..n
  BY <1>1
<1>5. \E e \in table : \A f \in table : f.seq <= e.seq
  BY <1>3, <1>4
<1>6. LastOf(table) \in table /\ \A f \in table : f.seq <= LastOf(table).seq
  BY <1>5 DEF LastOf
<1>7. LastOf(table).seq = n
  BY <1>3, <1>4, <1>6
<1> QED
  BY <1>1, <1>2, <1>6, <1>7

\* _head over a chained table: the highest seq, or zero when there is none.
LEMMA HeadRow ==
  ASSUME NEW table, Chained(table)
  PROVE  /\ HeadOf(table).seq \in Nat
         /\ {e.seq : e \in table} = 1..HeadOf(table).seq
         /\ table # {} => /\ HeadOf(table).seq # 0
                          /\ \E e \in table : /\ e.seq = HeadOf(table).seq
                                              /\ e.hash = HeadOf(table).hash
         /\ table = {} => HeadOf(table) = EmptyHead
<1>1. CASE table = {}
  BY <1>1 DEF HeadOf, EmptyHead
<1>2. CASE table # {}
  BY <1>2, LastRow DEF HeadOf
<1> QED
  BY <1>1, <1>2

\* The entry drawn up after the head of a chained table is accepted by it, and
\* leaves it chained.
LEMMA OneMore ==
  ASSUME NEW table, Chained(table), NEW e,
         e.seq = HeadOf(table).seq + 1, e.prev = HeadOf(table).hash,
         e.hash = DigestOf(e.seq, e.body, e.prev)
  PROVE  Accepts(table, e) /\ Chained(table \union {e})
<1> DEFINE n == HeadOf(table).seq
           longer == table \union {e}
<1>1. n \in Nat /\ {f.seq : f \in table} = 1..n
  BY HeadRow
<1>2. \A f \in table : f.seq \in 1..n
  BY <1>1
<1>3. \A f \in table : f.seq # e.seq
  BY <1>1, <1>2
<1>4. IF e.seq = 1 THEN e.prev = Genesis
      ELSE \E f \in table : f.seq = e.seq - 1 /\ f.hash = e.prev
  <2>1. CASE table = {}
    BY <2>1, HeadRow DEF EmptyHead
  <2>2. CASE table # {}
    BY <1>1, <2>2, HeadRow
  <2> QED
    BY <2>1, <2>2
<1>5. {f.seq : f \in longer} = 1..(n + 1)
  BY <1>1
<1>6. \A f, g \in longer : f.seq = g.seq => f = g
  BY <1>3 DEF Chained
<1>7. \A f \in longer : IF f.seq = 1 THEN f.prev = Genesis
                        ELSE \E g \in longer : g.seq = f.seq - 1 /\ g.hash = f.prev
  BY <1>4 DEF Chained
<1>8. \A f \in longer : f.hash = DigestOf(f.seq, f.body, f.prev)
  BY DEF Chained
<1>9. n + 1 \in Nat
  BY <1>1
<1>10. \E m \in Nat : {f.seq : f \in longer} = 1..m
  BY <1>5, <1>9
<1> QED
  BY <1>3, <1>4, <1>6, <1>7, <1>8, <1>10 DEF Accepts, Chained

\* verify finds no break in a chained table.
LEMMA ChainedVerifies ==
  ASSUME NEW table, Chained(table)
  PROVE  Verifies(table)
<1> SUFFICES ASSUME NEW e \in table PROVE Intact(table, e)
  BY DEF Verifies
<1> DEFINE before == {f \in table : f.seq < e.seq}
           k == e.seq - 1
<1>1. PICK n \in Nat : {f.seq : f \in table} = 1..n
  BY DEF Chained
<1>2. e.seq \in 1..n /\ k \in Nat /\ \A f \in table : f.seq \in 1..n
  BY <1>1
<1>3. \A i \in 1..n : \E f \in table : f.seq = i
  BY <1>1
<1>4. {f.seq : f \in before} = 1..k
  <2>1. \A f \in before : f.seq \in 1..k
    BY <1>2
  <2>2. \A i \in 1..k : \E f \in before : f.seq = i
    <3> TAKE i \in 1..k
    <3>1. i \in 1..n /\ i < e.seq
      BY <1>2
    <3>2. PICK f \in table : f.seq = i
      BY <1>3, <3>1
    <3> QED
      BY <3>1, <3>2
  <2> QED
    BY <2>1, <2>2
<1>5. Cardinality(before) = k
  <2> DEFINE Row == [i \in 1..k |-> CHOOSE f \in before : f.seq = i]
  <2>1. \A i \in 1..k : Row[i] \in before /\ Row[i].seq = i
    BY <1>4
  <2>2. \A f \in before : f.seq \in 1..k /\ Row[f.seq] = f
    BY <1>4, <2>1 DEF Chained
  <2>3. Row \in [1..k -> before]
    BY <2>1
  <2>4. \A i, j \in 1..k : Row[i] = Row[j] => i = j
    BY <2>1
  <2>5. Row \in Bijection(1..k, before)
    <3> HIDE DEF Row
    <3> QED
      BY <2>2, <2>3, <2>4 DEF Bijection, Injection, Surjection, IsInjective
  <2>6. ExistsBijection(1..k, before)
    BY <2>5 DEF ExistsBijection
  <2> HIDE DEF k, before
  <2>7. IsFiniteSet(1..k) /\ Cardinality(1..k) = k
    <3>1. k \in Nat
      BY <1>2
    <3>2. 1 \in Int /\ k \in Int
      BY <3>1
    <3>3. /\ IsFiniteSet(1..k)
          /\ Cardinality(1..k) = IF 1 > k THEN 0 ELSE k - 1 + 1
      BY <3>2, FS_Interval
    <3> QED
      BY <3>1, <3>3
  <2> QED
    BY <2>6, <2>7, FS_Bijection
<1>6. e.prev = HeadOf(before).hash
  <2>1. CASE e.seq = 1
    <3>1. before = {}
      BY <1>2, <2>1
    <3> QED
      BY <2>1, <3>1 DEF Chained, HeadOf, EmptyHead
  <2>2. CASE e.seq # 1
    <3>1. PICK f \in table : f.seq = k /\ f.hash = e.prev
      BY <2>2 DEF Chained
    <3>2. f \in before /\ \A g \in before : g.seq <= f.seq
      BY <1>2, <3>1
    <3>3. LastOf(before) \in before /\ \A g \in before : g.seq <= LastOf(before).seq
      BY <3>2 DEF LastOf
    <3>4. LastOf(before).seq = f.seq
      BY <1>2, <3>2, <3>3
    <3>5. LastOf(before) = f
      BY <3>2, <3>3, <3>4 DEF Chained
    <3> QED
      BY <3>1, <3>2, <3>5 DEF HeadOf
  <2> QED
    BY <2>1, <2>2
<1> QED
  BY <1>2, <1>5, <1>6 DEF Intact, Chained

\* A non-empty set of rows numbered no higher than n has a last row (what ORDER
\* BY seq DESC LIMIT 1 finds).
LEMMA SomeRowIsLast ==
  ASSUME NEW page, page # {}, NEW n \in Nat, \A e \in page : e.seq \in 1..n
  PROVE  LastOf(page) \in page /\ \A f \in page : f.seq <= LastOf(page).seq
<1> DEFINE Gap == {n - e.seq : e \in page}
           Less == OpToRel(<, Nat)
<1>1. Gap \subseteq Nat /\ Gap # {}
  OBVIOUS
<1>2. PICK x \in Gap : \A y \in Gap : ~(<<y, x>> \in Less)
  <2> HIDE DEF Gap, Less
  <2>1. IsWellFoundedOn(Less, Nat)
    BY NatLessThanWellFounded DEF Less
  <2> QED
    BY <1>1, <2>1, WFMin
<1>3. \A y \in Gap : ~(y < x)
  <2> TAKE y \in Gap
  <2>1. x \in Nat /\ y \in Nat
    BY <1>1
  <2>2. y < x => <<y, x>> \in Less
    BY <2>1 DEF OpToRel
  <2> QED
    BY <1>2, <2>2
<1>4. PICK last \in page : x = n - last.seq
  BY <1>2
<1>5. \A f \in page : f.seq <= last.seq
  <2> TAKE f \in page
  <2>1. ~(n - f.seq < x)
    BY <1>3
  <2>2. f.seq \in 1..n /\ last.seq \in 1..n
    OBVIOUS
  <2> QED
    BY <1>4, <2>1, <2>2
<1> QED
  BY <1>4, <1>5 DEF LastOf
-----------------------------------------------------------------------------
(* Types and turns.                                                        *)

\* Initially the trail is empty, chained, and nobody's turn (GENESIS_HASH).
LEMMA InitChained == Init => ChainInv
<1> SUFFICES ASSUME Init PROVE ChainInv
  OBVIOUS
<1>1. Chained({})
  <2>1. {e.seq : e \in {}} = 1..0 /\ 0 \in Nat
    OBVIOUS
  <2> QED
    BY <2>1 DEF Chained
<1>2. \A w \in Writers : Visible(w) = {}
  BY DEF Init, Visible
<1>3. TypeOK
  BY DEF Init, TypeOK, EmptyHead, Kinds, Steps
<1>4. \A w \in Writers : InTurn(w)
  BY <1>1, <1>2 DEF Init, InTurn
<1> QED
  BY <1>1, <1>3, <1>4 DEF ChainInv, Init

\* Ending a transaction keeps the types, whether its rows are kept or dropped.
LEMMA EndTyped ==
  ASSUME TypeOK, NEW w \in Writers, EndTransaction(w),
         entries' = entries \/ entries' = Visible(w),
         applied' \subseteq Nat
  PROVE  TypeOK'
<1>1. entries \subseteq entries'
  BY DEF Visible
<1>2. \A v \in Writers : pending'[v] \subseteq UNION {pending[u] : u \in Writers} \union {}
  BY DEF EndTransaction
<1> QED
  BY <1>1, <1>2 DEF TypeOK, EndTransaction, EmptyHead, tail, Visible, Steps

\* Every step of a writer or of the reader keeps every variable's type.
LEMMA NextTyped == ChainInv /\ [Next]_vars => TypeOK'
<1> SUFFICES ASSUME ChainInv, [Next]_vars PROVE TypeOK'
  OBVIOUS
<1> USE DEF Kinds, Steps
<1>0. TypeOK
  BY DEF ChainInv
<1>1. CASE UNCHANGED vars
  BY <1>0, <1>1 DEF TypeOK, vars, writer, tail
<1>2. ASSUME NEW w \in Writers, NEW k \in Kinds, Open(w, k) PROVE TypeOK'
  BY <1>0, <1>2 DEF TypeOK, Open, tail
<1>3. ASSUME NEW w \in Writers, ChangeState(w) PROVE TypeOK'
  BY <1>0, <1>3 DEF TypeOK, ChangeState, tail
<1>4. ASSUME NEW w \in Writers, LockChain(w) PROVE TypeOK'
  BY <1>0, <1>4 DEF TypeOK, LockChain, tail
<1>5. ASSUME NEW w \in Writers, ReadHead(w) PROVE TypeOK'
  <2>1. HeadOf(Visible(w)).seq \in Nat
    BY HeadRow DEF ChainInv, InTurn
  <2> QED
    BY <1>0, <1>5, <2>1 DEF TypeOK, ReadHead, tail
<1>6. ASSUME NEW w \in Writers, NEW payload \in Payloads, Insert(w, payload)
      PROVE  TypeOK'
  <2> DEFINE e == Entry(w, payload)
  <2>1. e.seq \in Nat \ {0} /\ e.body \in BodyType
    BY <1>0, TrailAssumption DEF TypeOK, Entry, BodyType, TrailAssumption
  <2>2. CASE Accepts(Visible(w), e)
    <3>1. /\ pending' = [pending EXCEPT ![w] = @ \union {e}]
          /\ written' = [written EXCEPT ![w] = @ + 1]
          /\ pc' = [pc EXCEPT ![w] = "open"]
          /\ UNCHANGED <<kind, op, head, changed, chainLock, ops, tail, entries, applied>>
      BY <1>6, <2>2 DEF Insert
    <3> HIDE DEF e
    <3>2. \A f \in entries \union UNION {pending'[v] : v \in Writers} :
            f = e \/ f \in entries \union UNION {pending[v] : v \in Writers}
      BY <1>0, <3>1 DEF TypeOK
    <3> QED
      BY <1>0, <2>1, <3>1, <3>2 DEF TypeOK, tail
  <2>3. CASE ~Accepts(Visible(w), e)
    BY <1>0, <1>6, <2>3, EndTyped DEF Insert, TypeOK
  <2> QED
    BY <2>2, <2>3
<1>7. ASSUME NEW w \in Writers, Commit(w) PROVE TypeOK'
  BY <1>0, <1>7, EndTyped DEF Commit, TypeOK, Visible
<1>8. ASSUME NEW w \in Writers, Rollback(w) PROVE TypeOK'
  BY <1>0, <1>8, EndTyped DEF Rollback, TypeOK
<1>9. ASSUME NEW n \in 1..MaxRecords, Poll(n) PROVE TypeOK'
  <2> DEFINE page == FirstOf({e \in entries : e.seq > cursor}, n)
  <2>1. page \subseteq entries /\ page # {}
    BY <1>9 DEF Poll, FirstOf
  <2>2. PICK m \in Nat : {e.seq : e \in entries} = 1..m
    BY DEF ChainInv, Chained
  <2>3. \A e \in page : e.seq \in 1..m
    BY <2>1, <2>2
  <2>4. delivered' = delivered \union page /\ cursor' = HeadOf(page).seq
        /\ UNCHANGED <<writer, chainLock, entries, applied, ops>>
    BY <1>9 DEF Poll
  <2> HIDE DEF page
  <2>5. LastOf(page) \in page
    BY <2>1, <2>2, <2>3, SomeRowIsLast
  <2>6. cursor' \in Nat
    BY <2>1, <2>3, <2>4, <2>5 DEF HeadOf
  <2> QED
    BY <1>0, <2>1, <2>4, <2>6 DEF TypeOK, writer
<1> QED
  BY <1>1, <1>2, <1>3, <1>4, <1>5, <1>6, <1>7, <1>8, <1>9 DEF Next
-----------------------------------------------------------------------------
\* Ending a transaction, with what it has pending kept or dropped, leaves every
\* writer its turn: only the holder of the chain lock had anything pending.
LEMMA EndKeepsTurns ==
  ASSUME ChainInv, NEW w \in Writers, EndTransaction(w),
         entries' = entries \/ entries' = Visible(w)
  PROVE  Chained(entries') /\ \A v \in Writers : InTurn(v)'
<1>1. Chained(entries')
  BY DEF ChainInv, InTurn
<1>2. ASSUME NEW v \in Writers, v # w PROVE InTurn(v)'
  <2>1. /\ pc'[v] = pc[v] /\ pending'[v] = pending[v] /\ head'[v] = head[v]
        /\ chainLock = v => chainLock' = v
    BY <1>2 DEF ChainInv, TypeOK, EndTransaction
  <2>2. CASE entries' = entries
    BY <2>1, <2>2 DEF ChainInv, InTurn, Visible
  <2>3. CASE pending[v] = {} /\ pc[v] # "read"
    BY <1>1, <2>1, <2>3 DEF ChainInv, InTurn, Visible
  <2>4. CASE entries' = Visible(w) /\ (pending[v] # {} \/ pc[v] = "read")
    <3>1. pending[w] = {}
      BY <1>2, <2>4 DEF ChainInv, InTurn
    <3> QED
      BY <2>1, <2>2, <2>4, <3>1 DEF Visible
  <2> QED
    BY <2>2, <2>3, <2>4
<1>3. InTurn(w)'
  <2>1. pc'[w] = "idle" /\ pending'[w] = {}
    BY DEF ChainInv, TypeOK, EndTransaction
  <2> QED
    BY <1>1, <2>1 DEF InTurn, Visible
<1> QED
  BY <1>1, <1>2, <1>3

\* Every step leaves the table and every writer's view of it chained.
LEMMA NextChained == ChainInv /\ [Next]_vars => ChainInv'
<1> SUFFICES ASSUME ChainInv, [Next]_vars
             PROVE  Chained(entries') /\ \A v \in Writers : InTurn(v)'
  BY NextTyped DEF ChainInv
<1>0. TypeOK /\ Chained(entries) /\ \A v \in Writers : InTurn(v)
  BY DEF ChainInv
<1>1. CASE UNCHANGED vars
  BY <1>0, <1>1 DEF InTurn, Visible, vars, writer
<1>2. ASSUME NEW w \in Writers, NEW k \in Kinds, Open(w, k)
      PROVE  Chained(entries') /\ \A v \in Writers : InTurn(v)'
  BY <1>0, <1>2 DEF Open, InTurn, Visible, TypeOK
<1>3. ASSUME NEW w \in Writers, ChangeState(w)
      PROVE  Chained(entries') /\ \A v \in Writers : InTurn(v)'
  BY <1>0, <1>3 DEF ChangeState, InTurn, Visible
<1>4. ASSUME NEW w \in Writers, LockChain(w)
      PROVE  Chained(entries') /\ \A v \in Writers : InTurn(v)'
  BY <1>0, <1>4, TrailAssumption DEF LockChain, InTurn, Visible, TypeOK, TrailAssumption
<1>5. ASSUME NEW w \in Writers, ReadHead(w)
      PROVE  Chained(entries') /\ \A v \in Writers : InTurn(v)'
  BY <1>0, <1>5 DEF ReadHead, InTurn, Visible, TypeOK
<1>6. ASSUME NEW w \in Writers, NEW payload \in Payloads, Insert(w, payload)
      PROVE  Chained(entries') /\ \A v \in Writers : InTurn(v)'
  <2> DEFINE e == Entry(w, payload)
  <2>1. Chained(Visible(w)) /\ head[w] = HeadOf(Visible(w)) /\ chainLock = w
    BY <1>0, <1>6 DEF Insert, InTurn
  <2>2. /\ e.seq = HeadOf(Visible(w)).seq + 1
        /\ e.prev = HeadOf(Visible(w)).hash
        /\ e.hash = DigestOf(e.seq, e.body, e.prev)
    BY <2>1 DEF Entry
  <2>3. Accepts(Visible(w), e) /\ Chained(Visible(w) \union {e})
    <3> HIDE DEF e
    <3> QED
      BY <2>1, <2>2, OneMore
  <2>4. /\ pending' = [pending EXCEPT ![w] = @ \union {e}]
        /\ pc' = [pc EXCEPT ![w] = "open"]
        /\ UNCHANGED <<head, chainLock, entries>>
    BY <1>6, <2>3 DEF Insert
  <2>5. Visible(w)' = Visible(w) \union {e}
    BY <1>0, <2>4 DEF Visible, TypeOK
  <2>6. InTurn(w)'
    BY <1>0, <2>1, <2>3, <2>4, <2>5 DEF InTurn, TypeOK
  <2>7. ASSUME NEW v \in Writers, v # w PROVE InTurn(v)'
    BY <1>0, <2>4, <2>7 DEF InTurn, Visible, TypeOK
  <2> QED
    BY <1>0, <2>4, <2>6, <2>7
<1>7. ASSUME NEW w \in Writers, Commit(w)
      PROVE  Chained(entries') /\ \A v \in Writers : InTurn(v)'
  BY <1>7, EndKeepsTurns DEF Commit, Visible
<1>8. ASSUME NEW w \in Writers, Rollback(w)
      PROVE  Chained(entries') /\ \A v \in Writers : InTurn(v)'
  BY <1>8, EndKeepsTurns DEF Rollback
<1>9. ASSUME NEW n \in 1..MaxRecords, Poll(n)
      PROVE  Chained(entries') /\ \A v \in Writers : InTurn(v)'
  BY <1>0, <1>9 DEF Poll, InTurn, Visible, writer
<1> QED
  BY <1>1, <1>2, <1>3, <1>4, <1>5, <1>6, <1>7, <1>8, <1>9 DEF Next

\* Whatever is recorded, committed or rolled back, the types, the chain and the
\* writers' turns hold (the inductive invariant of trail.py's appends).
THEOREM TrailInductive == Spec => []ChainInv
BY InitChained, NextChained, PTL DEF Spec

\* Type correctness of the trail's state, for every instance.
THEOREM TrailTyped == Spec => []TypeOK
<1>1. ChainInv => TypeOK
  BY DEF ChainInv
<1> QED
  BY <1>1, TrailInductive, PTL

\* verify never accuses a trail nobody tampered with (AuditTrail.verify).
THEOREM HonestTrailsVerify == Spec => []HonestTrailVerifies
<1>1. ChainInv => HonestTrailVerifies
  BY ChainedVerifies DEF ChainInv, HonestTrailVerifies
<1> QED
  BY <1>1, TrailInductive, PTL

\* An entry drawn up after the head read under the lock is always accepted by the
\* primary key and by the chain trigger (AuditTrail._append).
THEOREM RecordsNeverCollide == Spec => []RecordNeverCollides
<1>1. ChainInv => RecordNeverCollides
  <2> SUFFICES ASSUME ChainInv, NEW w \in Writers, pc[w] = "read",
                      NEW payload \in Payloads
               PROVE  Accepts(Visible(w), Entry(w, payload))
    BY DEF RecordNeverCollides
  <2> DEFINE e == Entry(w, payload)
  <2>1. Chained(Visible(w)) /\ head[w] = HeadOf(Visible(w))
    BY DEF ChainInv, InTurn
  <2>2. /\ e.seq = HeadOf(Visible(w)).seq + 1
        /\ e.prev = HeadOf(Visible(w)).hash
        /\ e.hash = DigestOf(e.seq, e.body, e.prev)
    BY <2>1 DEF Entry
  <2> HIDE DEF e
  <2>3. Accepts(Visible(w), e)
    BY <2>1, <2>2, OneMore
  <2> QED
    BY <2>3 DEF e
<1> QED
  BY <1>1, TrailInductive, PTL
-----------------------------------------------------------------------------
(* The reader: nothing commits behind its cursor.                          *)

\* What a writer has pending comes after everything that is committed.
InFront(w) == \A e \in pending[w], f \in entries : f.seq < e.seq

TailInv ==
  /\ TailMissesNothing
  /\ cursor <= HeadOf(entries).seq
  /\ \A w \in Writers : InFront(w)

\* The reader's cursor never runs past the last committed entry, and every step
\* that commits an entry puts it in front of the cursor.
LEMMA NextKeepsTail == ChainInv /\ TailInv /\ [Next]_vars => TailInv'
<1> SUFFICES ASSUME ChainInv, TailInv, [Next]_vars PROVE TailInv'
  OBVIOUS
<1>0. /\ TypeOK /\ Chained(entries)
      /\ \A v \in Writers : InTurn(v) /\ InFront(v)
      /\ TailMissesNothing /\ cursor <= HeadOf(entries).seq
  BY DEF ChainInv, TailInv
<1>1. CASE UNCHANGED <<entries, pending, tail>>
  BY <1>0, <1>1 DEF TailInv, TailMissesNothing, InFront, tail
<1>2. ASSUME NEW w \in Writers, EndTransaction(w), entries' = entries PROVE TailInv'
  <2>1. \A v \in Writers : pending'[v] \subseteq pending[v]
    BY <1>0, <1>2 DEF EndTransaction, TypeOK
  <2> QED
    BY <1>0, <1>2, <2>1 DEF TailInv, TailMissesNothing, InFront, EndTransaction, tail
<1>3. ASSUME NEW w \in Writers, Commit(w) PROVE TailInv'
  <2>1. CASE pending[w] = {}
    BY <1>2, <1>3, <2>1 DEF Commit
  <2>2. CASE pending[w] # {}
    <3>1. \A v \in Writers : pending'[v] = {}
      BY <1>0, <1>3, <2>2 DEF Commit, EndTransaction, InTurn, TypeOK
    <3>2. entries' = Visible(w) /\ Chained(Visible(w)) /\ UNCHANGED <<cursor, delivered>>
      BY <1>0, <1>3 DEF Commit, EndTransaction, InTurn, Visible, tail
    <3>3. \A e \in pending[w] : e.seq \in Nat /\ HeadOf(entries).seq < e.seq
      <4>1. \A e \in pending[w] : e.seq \in Nat \ {0}
        BY <1>0 DEF TypeOK
      <4>2. CASE entries = {}
        BY <1>0, <4>1, <4>2, HeadRow DEF EmptyHead
      <4>3. CASE entries # {}
        BY <1>0, <4>1, <4>3, HeadRow DEF InFront
      <4> QED
        BY <4>2, <4>3
    <3>4. TailMissesNothing'
      <4>1. \A e \in pending[w] : ~(e.seq <= cursor)
        BY <1>0, <3>3, HeadRow DEF TypeOK
      <4> QED
        BY <1>0, <3>2, <4>1 DEF TailMissesNothing, Visible
    <3>5. cursor <= HeadOf(entries').seq
      <4>1. HeadOf(entries).seq \in Nat /\ HeadOf(entries').seq \in Nat
        BY <1>0, <3>2, HeadRow
      <4>2. PICK e \in pending[w] : TRUE
        BY <2>2
      <4>3. e.seq \in 1..HeadOf(entries').seq
        BY <3>2, HeadRow DEF Visible
      <4> QED
        BY <1>0, <3>3, <4>1, <4>3 DEF TypeOK
    <3> QED
      BY <3>1, <3>2, <3>4, <3>5 DEF TailInv, InFront
  <2> QED
    BY <2>1, <2>2
<1>4. ASSUME NEW w \in Writers, NEW payload \in Payloads, Insert(w, payload)
      PROVE  TailInv'
  <2> DEFINE e == Entry(w, payload)
  <2>1. CASE Accepts(Visible(w), e)
    <3>1. /\ pending' = [pending EXCEPT ![w] = @ \union {e}]
          /\ UNCHANGED <<entries, tail>>
      BY <1>4, <2>1 DEF Insert
    <3>2. \A f \in entries : f.seq < e.seq
      <4>1. e.seq = HeadOf(Visible(w)).seq + 1 /\ Chained(Visible(w))
        BY <1>0, <1>4 DEF Insert, InTurn, Entry
      <4>2. \A f \in Visible(w) : f.seq \in 1..HeadOf(Visible(w)).seq
        BY <4>1, HeadRow
      <4>3. HeadOf(Visible(w)).seq \in Nat
        BY <4>1, HeadRow
      <4> HIDE DEF e
      <4> QED
        BY <4>1, <4>2, <4>3 DEF Visible
    <3> HIDE DEF e
    <3>3. \A v \in Writers : InFront(v)'
      BY <1>0, <3>1, <3>2 DEF InFront, TypeOK
    <3> QED
      BY <1>0, <3>1, <3>3 DEF TailInv, TailMissesNothing, tail
  <2>2. CASE ~Accepts(Visible(w), e)
    BY <1>2, <1>4, <2>2 DEF Insert
  <2> QED
    BY <2>1, <2>2
<1>5. ASSUME NEW n \in 1..MaxRecords, Poll(n) PROVE TailInv'
  <2> DEFINE fresh == {e \in entries : e.seq > cursor}
             page == FirstOf(fresh, n)
  <2>1. page # {} /\ delivered' = delivered \union page /\ cursor' = HeadOf(page).seq
        /\ UNCHANGED <<pending, entries>>
    BY <1>5 DEF Poll, writer
  <2>2. page = {e \in fresh : Cardinality({f \in fresh : f.seq < e.seq}) < n}
    BY DEF FirstOf
  <2>3. HeadOf(entries).seq \in Nat /\ \A e \in entries : e.seq \in 1..HeadOf(entries).seq
    BY <1>0, HeadRow
  <2>4. page \subseteq fresh /\ fresh \subseteq entries
    BY <2>2
  <2> DEFINE last == LastOf(page)
  <2>5. last \in page /\ cursor' = last.seq
    <3> HIDE DEF page
    <3> QED
      BY <2>1, <2>3, <2>4, SomeRowIsLast DEF HeadOf
  <2>6. ASSUME NEW e \in fresh, e.seq <= last.seq PROVE e \in page
    <3> DEFINE before(g) == {f \in fresh : f.seq < g.seq}
    <3>1. IsFiniteSet(before(last))
      <4>1. \A f, g \in before(last) : f.seq = g.seq => f = g
        BY <1>0, <2>4 DEF Chained
      <4>2. DOMAIN [f \in before(last) |-> f.seq] = before(last)
        OBVIOUS
      <4>3. [f \in before(last) |-> f.seq]
              \in Injection(before(last), 1..HeadOf(entries).seq)
        BY <2>3, <2>4, <4>1 DEF Injection, IsInjective
      <4>4. IsFiniteSet(1..HeadOf(entries).seq)
        BY <2>3, FS_Interval
      <4> HIDE DEF before
      <4> QED
        BY <4>3, <4>4, FS_Injection
    <3>2. before(e) \subseteq before(last)
      <4> SUFFICES ASSUME NEW f \in fresh, f.seq < e.seq PROVE f.seq < last.seq
        OBVIOUS
      <4>1. f.seq \in Nat /\ e.seq \in Nat /\ last.seq \in Nat
        <5>1. f \in entries /\ e \in entries /\ last \in entries
          BY <2>4, <2>5
        <5> HIDE DEF last
        <5> QED
          BY <2>3, <5>1
      <4> HIDE DEF last
      <4> QED
        BY <2>6, <4>1
    <3>3. Cardinality(before(e)) \in Nat /\ Cardinality(before(last)) \in Nat
          /\ Cardinality(before(e)) <= Cardinality(before(last))
      <4> HIDE DEF before
      <4> QED
        BY <3>1, <3>2, FS_Subset, FS_CardinalityType
    <3>4. Cardinality(before(last)) < n
      BY <2>2, <2>5
    <3>5. Cardinality(before(e)) < n
      BY <3>3, <3>4
    <3> QED
      BY <2>2, <3>5
  <2>7. TailMissesNothing'
    <3> SUFFICES ASSUME NEW e \in entries, e.seq <= last.seq
                 PROVE  e \in delivered'
      BY <2>1, <2>5 DEF TailMissesNothing
    <3>1. CASE e.seq <= cursor
      BY <1>0, <2>1, <3>1 DEF TailMissesNothing
    <3>2. CASE ~(e.seq <= cursor)
      <4>1. e \in fresh
        BY <1>0, <2>3, <3>2 DEF TypeOK
      <4> HIDE DEF page, fresh
      <4> QED
        BY <2>1, <2>6, <4>1
    <3> QED
      BY <3>1, <3>2
  <2>8. cursor' <= HeadOf(entries').seq
    BY <2>1, <2>3, <2>4, <2>5
  <2> QED
    BY <1>0, <2>1, <2>7, <2>8 DEF TailInv, InFront
<1>6. ASSUME NEW w \in Writers, Rollback(w) PROVE TailInv'
  BY <1>2, <1>6 DEF Rollback
<1>7. ASSUME NEW w \in Writers,
             \/ \E k \in Kinds : Open(w, k)
             \/ ChangeState(w) \/ LockChain(w) \/ ReadHead(w)
      PROVE  TailInv'
  BY <1>1, <1>7 DEF Open, ChangeState, LockChain, ReadHead
<1>8. CASE UNCHANGED vars
  BY <1>1, <1>8 DEF vars, writer
<1> QED
  BY <1>3, <1>4, <1>5, <1>6, <1>7, <1>8 DEF Next

\* A reader that polls with after_seq is never passed by an entry that commits late
\* with an earlier seq (AuditTrail.query, as the control room tails it).
THEOREM TailsMissNothing == Spec => []TailMissesNothing
<1>1. Init => TailInv
  <2> SUFFICES ASSUME Init PROVE TailInv
    OBVIOUS
  <2> QED
    BY DEF Init, TailInv, TailMissesNothing, InFront, HeadOf, EmptyHead
<1>2. TailInv => TailMissesNothing
  BY DEF TailInv
<1> QED
  BY <1>1, <1>2, NextKeepsTail, TrailInductive, PTL DEF Spec
-----------------------------------------------------------------------------
(* A state change and its entries.                                         *)

\* Where a writer's transaction stands: what it has pending is its own operation's,
\* nothing of that operation is committed, and it records only what it has changed.
InHand(w) ==
  /\ pc[w] = "idle" => pending[w] = {} /\ written[w] = 0 /\ ~changed[w]
  /\ pc[w] # "idle" => /\ op[w] \in 1..ops
                       /\ op[w] \notin applied
                       /\ \A e \in entries : e.body.op # op[w]
  /\ pending[w] # {} <=> written[w] > 0
  /\ \A e \in pending[w] : e.body.op = op[w] /\ e.body.kind = kind[w]
  /\ changed[w] => kind[w] = "enlisted"
  /\ kind[w] = "enlisted" /\ (written[w] > 0 \/ pc[w] \in {"locked", "read"})
       => changed[w]

Apart(v, w) == pc[v] # "idle" /\ pc[w] # "idle" => op[v] # op[w]

StateInv ==
  /\ \A w \in Writers : InHand(w)
  /\ \A v, w \in Writers : v # w => Apart(v, w)
  /\ applied \subseteq 1..ops
  /\ \A e \in entries : e.body.op \in 1..ops
  /\ StateMatchesTrail

\* A transaction that ends without committing leaves the state and the trail as
\* they were.
LEMMA EndKeepsState ==
  ASSUME TypeOK, StateInv, NEW w \in Writers, EndTransaction(w),
         UNCHANGED <<entries, applied>>
  PROVE  StateInv'
<1>1. \A v \in Writers : InHand(v)'
  <2> SUFFICES ASSUME NEW v \in Writers PROVE InHand(v)'
    OBVIOUS
  <2>1. CASE v = w
    BY <2>1 DEF TypeOK, StateInv, InHand, EndTransaction
  <2>2. CASE v # w
    BY <2>2 DEF TypeOK, StateInv, InHand, EndTransaction
  <2> QED
    BY <2>1, <2>2
<1>2. \A u, v \in Writers : u # v => Apart(u, v)'
  BY DEF TypeOK, StateInv, Apart, EndTransaction
<1> QED
  BY <1>1, <1>2 DEF StateInv, StateMatchesTrail, EndTransaction

\* Every step keeps the state and the trail agreed, and every open transaction able
\* to commit without breaking that.
LEMMA NextKeepsState == TypeOK /\ StateInv /\ [Next]_vars => StateInv'
<1> SUFFICES ASSUME TypeOK, StateInv, [Next]_vars PROVE StateInv'
  OBVIOUS
<1>1. CASE UNCHANGED <<writer, entries, applied, ops>>
  BY <1>1 DEF StateInv, InHand, Apart, StateMatchesTrail, writer
<1>2. ASSUME NEW w \in Writers, NEW k \in Kinds, Open(w, k) PROVE StateInv'
  <2>1. \A v \in Writers : InHand(v)'
    <3> SUFFICES ASSUME NEW v \in Writers PROVE InHand(v)'
      OBVIOUS
    <3>1. CASE v = w
      BY <1>2, <3>1 DEF TypeOK, StateInv, InHand, Open
    <3>2. CASE v # w
      BY <1>2, <3>2 DEF TypeOK, StateInv, InHand, Open
    <3> QED
      BY <3>1, <3>2
  <2>2. \A u, v \in Writers : u # v => Apart(u, v)'
    BY <1>2 DEF TypeOK, StateInv, InHand, Apart, Open
  <2>3. StateMatchesTrail'
    BY <1>2 DEF TypeOK, StateInv, StateMatchesTrail, Open
  <2> QED
    BY <1>2, <2>1, <2>2, <2>3 DEF TypeOK, StateInv, Open
<1>3. ASSUME NEW w \in Writers, ChangeState(w) \/ LockChain(w) \/ ReadHead(w)
      PROVE  StateInv'
  <2>1. /\ UNCHANGED <<kind, op, written, pending, entries, applied, ops>>
        /\ \A v \in Writers : pc'[v] = "idle" <=> pc[v] = "idle"
    BY <1>3 DEF TypeOK, ChangeState, LockChain, MayRecord, ReadHead
  <2>2. \A v \in Writers : InHand(v)'
    BY <1>3, <2>1 DEF TypeOK, StateInv, InHand, ChangeState, LockChain, MayRecord,
                      ReadHead
  <2> QED
    BY <2>1, <2>2 DEF StateInv, StateMatchesTrail, Apart
<1>4. ASSUME NEW w \in Writers, NEW payload \in Payloads, Insert(w, payload)
      PROVE  StateInv'
  <2> DEFINE e == Entry(w, payload)
  <2>1. CASE Accepts(Visible(w), e)
    <3>1. /\ pc[w] = "read"
          /\ pending' = [pending EXCEPT ![w] = @ \union {e}]
          /\ written' = [written EXCEPT ![w] = @ + 1]
          /\ pc' = [pc EXCEPT ![w] = "open"]
          /\ UNCHANGED <<kind, op, changed, ops, entries, applied>>
      BY <1>4, <2>1 DEF Insert
    <3>2. e.body.op = op[w] /\ e.body.kind = kind[w]
      BY DEF Entry
    <3> HIDE DEF e
    <3>3. \A v \in Writers : InHand(v)'
      <4> SUFFICES ASSUME NEW v \in Writers PROVE InHand(v)'
        OBVIOUS
      <4>1. CASE v = w
        BY <3>1, <3>2, <4>1 DEF TypeOK, StateInv, InHand
      <4>2. CASE v # w
        BY <3>1, <4>2 DEF TypeOK, StateInv, InHand
      <4> QED
        BY <4>1, <4>2
    <3> QED
      BY <3>1, <3>3 DEF TypeOK, StateInv, StateMatchesTrail, Apart
  <2>2. CASE ~Accepts(Visible(w), e)
    BY <1>4, <2>2, EndKeepsState DEF Insert
  <2> QED
    BY <2>1, <2>2
<1>5. ASSUME NEW w \in Writers, Commit(w) PROVE StateInv'
  <2>1. /\ pc[w] = "open" /\ pending[w] # {}
        /\ changed[w] <=> kind[w] = "enlisted"
        /\ op[w] \in 1..ops /\ op[w] \notin applied
        /\ \A e \in entries : e.body.op # op[w]
        /\ \A e \in pending[w] : e.body.op = op[w] /\ e.body.kind = kind[w]
    BY <1>5 DEF Commit, StateInv, InHand, TypeOK
  <2>2. /\ entries' = entries \union pending[w]
        /\ applied' = IF changed[w] THEN applied \union {op[w]} ELSE applied
        /\ EndTransaction(w)
        /\ UNCHANGED <<kind, op, ops>>
    BY <1>5 DEF Commit, EndTransaction
  <2>3. \A v \in Writers : InHand(v)'
    <3> SUFFICES ASSUME NEW v \in Writers PROVE InHand(v)'
      OBVIOUS
    <3>1. CASE v = w
      BY <2>2, <3>1 DEF TypeOK, StateInv, InHand, EndTransaction
    <3>2. CASE v # w
      <4>1. pc[v] # "idle" => op[v] # op[w]
        BY <2>1, <3>2 DEF StateInv, Apart
      <4>2. InHand(v)
        BY DEF StateInv
      <4>3. UNCHANGED <<pc[v], pending[v], written[v], changed[v], kind[v], op[v], ops>>
        BY <2>2, <3>2 DEF TypeOK, EndTransaction
      <4> QED
        BY <2>1, <2>2, <4>1, <4>2, <4>3 DEF InHand
    <3> QED
      BY <3>1, <3>2
  <2>4. \A u, v \in Writers : u # v => Apart(u, v)'
    BY <2>2 DEF TypeOK, StateInv, Apart, EndTransaction
  <2>5. StateMatchesTrail'
    <3> SUFFICES ASSUME NEW n \in 1..ops
                 PROVE  n \in applied' <=>
                          \E e \in entries' : e.body.op = n /\ e.body.kind = "enlisted"
      BY <2>2 DEF StateMatchesTrail
    <3>1. CASE n = op[w]
      BY <2>1, <2>2, <3>1
    <3>2. CASE n # op[w]
      BY <2>1, <2>2, <3>2 DEF StateInv, StateMatchesTrail
    <3> QED
      BY <3>1, <3>2
  <2> QED
    BY <2>1, <2>2, <2>3, <2>4, <2>5 DEF StateInv
<1>6. ASSUME NEW w \in Writers, Rollback(w) PROVE StateInv'
  BY <1>6, EndKeepsState DEF Rollback
<1>7. ASSUME NEW n \in 1..MaxRecords, Poll(n) PROVE StateInv'
  BY <1>1, <1>7 DEF Poll
<1>8. CASE UNCHANGED vars
  BY <1>1, <1>8 DEF vars
<1> QED
  BY <1>2, <1>3, <1>4, <1>5, <1>6, <1>7, <1>8 DEF Next

\* Every transaction that is open could commit without the two coming apart.
THEOREM StateIsKept == Spec => []StateInv
<1>1. Init => StateInv
  <2> SUFFICES ASSUME Init PROVE StateInv
    OBVIOUS
  <2> QED
    BY DEF Init, StateInv, InHand, Apart, StateMatchesTrail
<1> QED
  BY <1>1, NextKeepsState, TrailTyped, PTL DEF Spec

\* A state change is committed exactly when an entry recording it is (a caller that
\* passes conn to AuditTrail.record).
THEOREM StateAlwaysMatchesTrail == Spec => []StateMatchesTrail
<1>1. StateInv => StateMatchesTrail
  BY DEF StateInv
<1> QED
  BY <1>1, StateIsKept, PTL
-----------------------------------------------------------------------------
(* Tampering.                                                              *)

\* GENESIS_HASH is nothing's digest.
GenesisIsNoDigest == \A seq, body, prev : DigestOf(seq, body, prev) # Genesis

\* A row of the table has its four columns.
IsRow(e) == e = [seq |-> e.seq, body |-> e.body, prev |-> e.prev, hash |-> e.hash]

\* Digests of what differs differ.
LEMMA DigestsDiffer ==
  ASSUME NEW s1, NEW b1, NEW p1, NEW s2, NEW b2, NEW p2,
         DigestOf(s1, b1, p1) = DigestOf(s2, b2, p2)
  PROVE  s1 = s2 /\ b1 = b2 /\ p1 = p2
<1>1. DigestOf(s1, b1, p1).digest_of = <<s1, b1, p1>>
  BY DEF DigestOf
<1>2. DigestOf(s2, b2, p2).digest_of = <<s2, b2, p2>>
  BY DEF DigestOf
<1>3. <<s1, b1, p1>> = <<s2, b2, p2>>
  BY <1>1, <1>2
<1> QED
  BY <1>3

\* Where the numbers of a table's rows are apart, and one row is last, it is the head.
LEMMA HeadIs ==
  ASSUME NEW table, NEW r \in table,
         \A f \in table : f.seq \in Nat /\ f.seq <= r.seq /\ (f.seq = r.seq => f = r)
  PROVE  LastOf(table) = r /\ HeadOf(table).hash = r.hash
<1>1. LastOf(table) \in table /\ \A f \in table : f.seq <= LastOf(table).seq
  BY DEF LastOf
<1>2. LastOf(table).seq = r.seq
  BY <1>1
<1> QED
  BY <1>1, <1>2 DEF HeadOf

\* A table of a row to a number that verifies has the numbers from one on.
LEMMA VerifiedNumbers ==
  ASSUME NEW table, IsFiniteSet(table), Verifies(table),
         \A e \in table : e.seq \in Nat,
         \A e, f \in table : e.seq = f.seq => e = f
  PROVE  {e.seq : e \in table} = 1..Cardinality(table)
<1> DEFINE seqs == {e.seq : e \in table}
           n == Cardinality(table)
           SeqOf == [e \in table |-> e.seq]
<1>1. SeqOf \in Bijection(table, seqs)
  BY DEF Bijection, Injection, Surjection, IsInjective
<1>2. IsFiniteSet(seqs) /\ Cardinality(seqs) = n /\ n \in Nat
  <2> HIDE DEF SeqOf, seqs
  <2>1. ExistsBijection(table, seqs)
    BY <1>1 DEF ExistsBijection
  <2> QED
    BY <2>1, FS_Bijection, FS_CardinalityType
\* Fewer rows come before a row than there are.
<1>3. \A e \in table : e.seq \in 1..n
  <2> SUFFICES ASSUME NEW e \in table PROVE e.seq \in 1..n
    OBVIOUS
  <2> DEFINE before == {f \in table : f.seq < e.seq}
  <2>1. e.seq = Cardinality(before) + 1
    BY DEF Verifies, Intact
  <2>2. before \in SUBSET table /\ e \notin before
    OBVIOUS
  <2>3. before # table
    BY <2>2
  <2> HIDE DEF before
  <2>4. /\ IsFiniteSet(before) /\ Cardinality(before) \in Nat
        /\ Cardinality(before) <= n /\ Cardinality(before) # n
    BY <2>2, <2>3, FS_Subset, FS_CardinalityType
  <2> QED
    BY <1>2, <2>1, <2>4
<1>4. seqs \in SUBSET (1..n)
  BY <1>3
<1>5. IsFiniteSet(1..n) /\ Cardinality(1..n) = n
  <2> HIDE DEF n
  <2>1. 1 \in Int /\ n \in Int
    BY <1>2
  <2>2. /\ IsFiniteSet(1..n)
        /\ Cardinality(1..n) = IF 1 > n THEN 0 ELSE n - 1 + 1
    BY <2>1, FS_Interval
  <2> QED
    BY <1>2, <2>2
<1> HIDE DEF seqs, n
<1>6. seqs = 1..n
  BY <1>2, <1>4, <1>5, FS_Subset
<1> QED
  BY <1>6 DEF seqs, n

\* A chained table has finitely many rows.
LEMMA ChainedIsFinite ==
  ASSUME NEW table, Chained(table)
  PROVE  IsFiniteSet(table)
<1> DEFINE SeqOf == [e \in table |-> e.seq]
<1>1. PICK n \in Nat : {e.seq : e \in table} = 1..n
  BY DEF Chained
<1>2. SeqOf \in Injection(table, 1..n)
  BY <1>1 DEF Chained, Injection, IsInjective
<1>3. IsFiniteSet(1..n)
  BY FS_Interval
<1> HIDE DEF SeqOf
<1> QED
  BY <1>2, <1>3, FS_Injection

\* The first rows of a chained table are those numbered no higher, and chained.
LEMMA FirstRows ==
  ASSUME NEW table, Chained(table), NEW n \in Nat
  PROVE  /\ FirstOf(table, n) = {e \in table : e.seq <= n}
         /\ Chained(FirstOf(table, n))
<1> DEFINE first == {e \in table : e.seq <= n}
<1>1. PICK m \in Nat : {e.seq : e \in table} = 1..m
  BY DEF Chained
<1>2. \A e \in table : e.seq \in 1..m
  BY <1>1
<1>3. \A e \in table : Cardinality({f \in table : f.seq < e.seq}) = e.seq - 1
  <2> SUFFICES ASSUME NEW e \in table
               PROVE  Cardinality({f \in table : f.seq < e.seq}) = e.seq - 1
    OBVIOUS
  <2> DEFINE before == {f \in table : f.seq < e.seq}
  <2>1. e.seq = Cardinality(before) + 1
    BY ChainedVerifies DEF Verifies, Intact
  <2>2. Cardinality(before) \in Nat
    <3>1. before \in SUBSET table
      OBVIOUS
    <3> HIDE DEF before
    <3> QED
      BY <3>1, ChainedIsFinite, FS_Subset, FS_CardinalityType
  <2> HIDE DEF before
  <2>3. Cardinality(before) = e.seq - 1
    BY <2>1, <2>2
  <2> QED
    BY <2>3 DEF before
<1>4. \A e \in table : Cardinality({f \in table : f.seq < e.seq}) < n <=> e.seq <= n
  BY <1>2, <1>3
<1>5. FirstOf(table, n) = first
  BY <1>4 DEF FirstOf
<1>6. \E k \in Nat : {e.seq : e \in first} = 1..k
  <2>1. CASE n <= m
    <3>1. {e.seq : e \in first} = 1..n
      <4>1. \A e \in first : e.seq \in 1..n
        BY <1>2
      <4>2. \A i \in 1..n : \E e \in first : e.seq = i
        <5> TAKE i \in 1..n
        <5>1. i \in 1..m /\ i <= n
          BY <2>1
        <5>2. PICK e \in table : e.seq = i
          BY <1>1, <5>1
        <5> QED
          BY <5>1, <5>2
      <4> QED
        BY <4>1, <4>2
    <3> QED
      BY <3>1
  <2>2. CASE ~(n <= m)
    <3>1. first = table
      BY <1>2, <2>2
    <3> QED
      BY <1>1, <3>1
  <2> QED
    BY <2>1, <2>2
<1>7. \A e \in first : IF e.seq = 1 THEN e.prev = Genesis
                       ELSE \E f \in first : f.seq = e.seq - 1 /\ f.hash = e.prev
  <2> SUFFICES ASSUME NEW e \in first, e.seq # 1
               PROVE  \E f \in first : f.seq = e.seq - 1 /\ f.hash = e.prev
    BY DEF Chained
  <2>1. PICK f \in table : f.seq = e.seq - 1 /\ f.hash = e.prev
    BY DEF Chained
  <2>2. f.seq <= n
    BY <1>2, <2>1
  <2> QED
    BY <2>1, <2>2
<1>8. Chained(first)
  <2>1. \A e, f \in first : e.seq = f.seq => e = f
    BY DEF Chained
  <2>2. \A e \in first : e.hash = DigestOf(e.seq, e.body, e.prev)
    BY DEF Chained
  <2> HIDE DEF first
  <2> QED
    BY <1>6, <1>7, <2>1, <2>2 DEF Chained
<1> QED
  BY <1>5, <1>8

\* A table in which verify finds no break is chained.
LEMMA VerifiedIsChained ==
  ASSUME NEW table, IsTable(table), Verifies(table)
  PROVE  Chained(table)
<1> DEFINE n == Cardinality(table)
<1>1. n \in Nat /\ {e.seq : e \in table} = 1..n
  BY VerifiedNumbers, FS_CardinalityType DEF IsTable
<1>2. \A e \in table : e.seq \in 1..n
  BY <1>1
<1>3. \A e, f \in table : e.seq = f.seq => e = f
  BY DEF IsTable
<1>4. ASSUME NEW e \in table
      PROVE  IF e.seq = 1 THEN e.prev = Genesis
             ELSE \E f \in table : f.seq = e.seq - 1 /\ f.hash = e.prev
  <2> DEFINE before == {f \in table : f.seq < e.seq}
  <2>1. e.prev = HeadOf(before).hash
    BY DEF Verifies, Intact
  <2>2. CASE e.seq = 1
    <3>1. before = {}
      BY <1>2, <2>2
    <3> QED
      BY <2>1, <2>2, <3>1 DEF HeadOf, EmptyHead
  <2>3. CASE e.seq # 1
    <3>1. e.seq - 1 \in 1..n
      BY <1>1, <1>2, <2>3
    <3>2. PICK f \in table : f.seq = e.seq - 1
      BY <1>1, <3>1
    <3>3. f \in before /\ \A g \in before : g.seq \in Nat /\ g.seq <= f.seq
      BY <1>2, <3>2
    <3>4. \A g \in before : g.seq = f.seq => g = f
      BY <1>3
    <3> HIDE DEF before
    <3>5. HeadOf(before).hash = f.hash
      BY <3>3, <3>4, HeadIs
    <3> QED
      BY <2>1, <2>3, <3>2, <3>5
  <2> QED
    BY <2>2, <2>3
<1>5. \A e \in table : e.hash = DigestOf(e.seq, e.body, e.prev)
  BY DEF Verifies, Intact
<1> QED
  BY <1>1, <1>3, <1>4, <1>5 DEF Chained

\* The rows up to one are those up to the one before it, and itself.
LEMMA OneRowOn ==
  ASSUME NEW table, Chained(table), NEW e \in table
  PROVE  /\ e.seq \in Nat
         /\ e.seq = 1 => UpTo(table, e) = {e}
         /\ \A d \in table : d.seq = e.seq - 1 => UpTo(table, e) = UpTo(table, d) \union {e}
<1>1. PICK n \in Nat : {f.seq : f \in table} = 1..n
  BY DEF Chained
<1>2. \A f \in table : f.seq \in 1..n
  BY <1>1
<1>3. \A f \in table : f.seq = e.seq => f = e
  BY DEF Chained
<1>4. e.seq = 1 => UpTo(table, e) = {e}
  BY <1>2, <1>3 DEF UpTo
<1>5. ASSUME NEW d \in table, d.seq = e.seq - 1
      PROVE  UpTo(table, e) = UpTo(table, d) \union {e}
  BY <1>2, <1>3, <1>5 DEF UpTo
<1> QED
  BY <1>2, <1>4, <1>5

\* Where two tables are chained and a row of each has the same hash, they are the same
\* up to there: of the lowest rows this could fail for, the digests are of the same
\* links, so it would fail for the rows before them.
LEMMA SameHashSameRows ==
  ASSUME NEW table, Chained(table), \A e \in table : IsRow(e),
         NEW other, Chained(other), \A f \in other : IsRow(f),
         NEW e \in table, NEW f \in other, e.hash = f.hash
  PROVE  UpTo(table, e) = UpTo(other, f)
<1> DEFINE Bad(x) == \E y \in other : x.hash = y.hash /\ UpTo(table, x) # UpTo(other, y)
           seqs == {x.seq : x \in {x \in table : Bad(x)}}
           Less == OpToRel(<, Nat)
<1> SUFFICES ASSUME seqs # {} PROVE FALSE
  OBVIOUS
<1>1. seqs \subseteq Nat
  BY OneRowOn
<1>2. PICK low \in seqs : \A n \in seqs : ~(<<n, low>> \in Less)
  <2> HIDE DEF seqs, Less
  <2>1. IsWellFoundedOn(Less, Nat)
    BY NatLessThanWellFounded DEF Less
  <2> QED
    BY <1>1, <2>1, WFMin
<1>3. \A n \in seqs : ~(n < low)
  <2> TAKE n \in seqs
  <2>1. n \in Nat /\ low \in Nat
    BY <1>1
  <2>2. n < low => <<n, low>> \in Less
    BY <2>1 DEF OpToRel
  <2> QED
    BY <1>2, <2>2
<1>4. PICK x \in table, y \in other :
        x.seq = low /\ x.hash = y.hash /\ UpTo(table, x) # UpTo(other, y)
  BY <1>2
<1>5. x.seq = y.seq /\ x.body = y.body /\ x.prev = y.prev
  <2>1. /\ x.hash = DigestOf(x.seq, x.body, x.prev)
        /\ y.hash = DigestOf(y.seq, y.body, y.prev)
    BY DEF Chained
  <2> HIDE DEF seqs
  <2>2. DigestOf(x.seq, x.body, x.prev) = DigestOf(y.seq, y.body, y.prev)
    BY <1>4, <2>1
  <2> QED
    BY <2>2, DigestsDiffer
<1>6. x = y
  BY <1>4, <1>5 DEF IsRow
<1>7. x.seq # 1
  BY <1>4, <1>6, OneRowOn
<1>8. PICK d \in table : d.seq = x.seq - 1 /\ d.hash = x.prev
  BY <1>7 DEF Chained
<1>9. PICK g \in other : g.seq = y.seq - 1 /\ g.hash = y.prev
  BY <1>5, <1>7 DEF Chained
<1>10. /\ UpTo(table, x) = UpTo(table, d) \union {x}
       /\ UpTo(other, y) = UpTo(other, g) \union {y}
  BY <1>8, <1>9, OneRowOn
<1>11. d.hash = g.hash /\ UpTo(table, d) # UpTo(other, g)
  BY <1>4, <1>5, <1>6, <1>8, <1>9, <1>10
<1>12. d.seq \in seqs
  BY <1>11
<1>13. d.seq < low
  BY <1>1, <1>4, <1>8, <1>12
<1> QED
  BY <1>3, <1>12, <1>13

\* What verify says of any table put in the place of a chained one.
LEMMA AnyTableTells ==
  ASSUME NEW table, Chained(table), \A e \in table : IsRow(e), GenesisIsNoDigest,
         NEW other, IsTable(other)
  PROVE  Tells(table, other)
<1>1. \A f \in other : IsRow(f)
  BY DEF IsTable, IsRow
<1>2. ASSUME Verifies(other), NEW e \in table, NEW f \in other, e.hash = f.hash
      PROVE  UpTo(table, e) = UpTo(other, f)
  BY <1>1, <1>2, VerifiedIsChained, SameHashSameRows
<1>3. VerifiesTo(table, HeadOf(table).hash)
  BY ChainedVerifies DEF VerifiesTo
\* The last rows have the same hash, so the tables are the same up to them.
<1>4. ASSUME VerifiesTo(other, HeadOf(table).hash) PROVE other = table
  <2>1. Verifies(other) /\ HeadOf(other).hash = HeadOf(table).hash
    BY <1>4 DEF VerifiesTo
  <2>2. Chained(other)
    BY <2>1, VerifiedIsChained
  <2>3. \A e \in table \union other : e.hash # Genesis
    BY <2>2 DEF Chained, GenesisIsNoDigest
  <2>4. table = {} <=> other = {}
    <3>1. table = {} => HeadOf(table).hash = Genesis
      BY DEF HeadOf, EmptyHead
    <3>2. other = {} => HeadOf(other).hash = Genesis
      BY DEF HeadOf, EmptyHead
    <3>3. table # {} => \E e \in table : e.hash = HeadOf(table).hash
      BY HeadRow
    <3>4. other # {} => \E e \in other : e.hash = HeadOf(other).hash
      BY <2>2, HeadRow
    <3> QED
      BY <2>1, <2>3, <3>1, <3>2, <3>3, <3>4
  <2>5. CASE table # {}
    <3>1. PICK e \in table : e.seq = HeadOf(table).seq /\ e.hash = HeadOf(table).hash
      BY <2>5, HeadRow
    <3>2. PICK f \in other : f.seq = HeadOf(other).seq /\ f.hash = HeadOf(other).hash
      BY <2>2, <2>4, <2>5, HeadRow
    <3>3. UpTo(table, e) = UpTo(other, f)
      BY <1>2, <2>1, <3>1, <3>2
    <3>4. UpTo(table, e) = table
      <4>1. HeadOf(table).seq \in Nat /\ {g.seq : g \in table} = 1..HeadOf(table).seq
        BY HeadRow
      <4>2. \A g \in table : g.seq <= e.seq
        BY <3>1, <4>1
      <4> QED
        BY <4>2 DEF UpTo
    <3>5. UpTo(other, f) = other
      <4>1. HeadOf(other).seq \in Nat /\ {g.seq : g \in other} = 1..HeadOf(other).seq
        BY <2>2, HeadRow
      <4>2. \A g \in other : g.seq <= f.seq
        BY <3>2, <4>1
      <4> QED
        BY <4>2 DEF UpTo
    <3> QED
      BY <3>3, <3>4, <3>5
  <2> QED
    BY <2>4, <2>5
<1> QED
  BY <1>2, <1>3, <1>4 DEF Tells
-----------------------------------------------------------------------------
\* Every row there is, committed or not, has its four columns.
Rows ==
  \A e \in entries \union UNION {pending[w] : w \in Writers} :
    e = [seq |-> e.seq, body |-> e.body, prev |-> e.prev, hash |-> e.hash]

LEMMA RowsHaveColumns == Spec => []Rows
<1>1. Init => Rows
  BY DEF Init, Rows
<1>2. TypeOK /\ Rows /\ [Next]_vars => Rows'
  <2> SUFFICES ASSUME TypeOK, Rows, [Next]_vars PROVE Rows'
    OBVIOUS
  <2>1. ASSUME \A e \in entries' \union UNION {pending'[w] : w \in Writers} :
                 \/ e \in entries \union UNION {pending[w] : w \in Writers}
                 \/ \E w \in Writers, payload \in Payloads : e = Entry(w, payload)
        PROVE  Rows'
    <3> SUFFICES ASSUME NEW e \in entries' \union UNION {pending'[w] : w \in Writers}
                 PROVE  e = [seq |-> e.seq, body |-> e.body, prev |-> e.prev, hash |-> e.hash]
      BY DEF Rows
    <3>1. CASE e \in entries \union UNION {pending[w] : w \in Writers}
      BY <3>1 DEF Rows
    <3>2. ASSUME NEW w \in Writers, NEW payload \in Payloads, e = Entry(w, payload)
          PROVE  e = [seq |-> e.seq, body |-> e.body, prev |-> e.prev, hash |-> e.hash]
      <4>1. PICK s, b, p, h : e = [seq |-> s, body |-> b, prev |-> p, hash |-> h]
        BY <3>2 DEF Entry
      <4> QED
        BY <4>1
    <3> QED
      BY <2>1, <3>1, <3>2
  <2>2. ASSUME NEW w \in Writers, EndTransaction(w),
               entries' = entries \/ entries' = entries \union pending[w]
        PROVE  Rows'
    <3>1. \A v \in Writers : pending'[v] \subseteq pending[v]
      BY <2>2 DEF EndTransaction, TypeOK
    <3> QED
      BY <2>1, <2>2, <3>1
  <2>3. ASSUME UNCHANGED <<entries, pending>> PROVE Rows'
    BY <2>3 DEF Rows
  <2>4. ASSUME NEW w \in Writers, NEW payload \in Payloads, Insert(w, payload) PROVE Rows'
    <3>1. CASE Accepts(Visible(w), Entry(w, payload))
      <4>1. /\ pending' = [pending EXCEPT ![w] = @ \union {Entry(w, payload)}]
            /\ entries' = entries
        BY <2>4, <3>1 DEF Insert
      <4>2. \A v \in Writers : pending'[v] \subseteq pending[v] \union {Entry(w, payload)}
        BY <4>1 DEF TypeOK
      <4> QED
        BY <2>1, <4>1, <4>2
    <3>2. CASE ~Accepts(Visible(w), Entry(w, payload))
      BY <2>2, <2>4, <3>2 DEF Insert
    <3> QED
      BY <3>1, <3>2
  <2>5. ASSUME NEW w \in Writers, Commit(w) PROVE Rows'
    BY <2>2, <2>5 DEF Commit
  <2>6. ASSUME NEW w \in Writers, Rollback(w) PROVE Rows'
    BY <2>2, <2>6 DEF Rollback
  <2>7. ASSUME NEW w \in Writers,
               \/ \E k \in Kinds : Open(w, k)
               \/ ChangeState(w) \/ LockChain(w) \/ ReadHead(w)
        PROVE  Rows'
    BY <2>3, <2>7 DEF Open, ChangeState, LockChain, ReadHead
  <2>8. ASSUME NEW n \in 1..MaxRecords, Poll(n) PROVE Rows'
    BY <2>3, <2>8 DEF Poll, writer
  <2>9. CASE UNCHANGED vars
    BY <2>3, <2>9 DEF vars, writer
  <2> QED
    BY <2>4, <2>5, <2>6, <2>7, <2>8, <2>9 DEF Next
<1> QED
  BY <1>1, <1>2, TrailTyped, PTL DEF Spec

\* Whatever the trail has come to, and whatever table is put in its place: with the hash
\* of the head, verify passes the trail alone; without, a table that passes is the trail
\* up to the last entry whose hash it keeps (trail.py, verify).
THEOREM AnyTamperingShows ==
  ASSUME GenesisIsNoDigest, NEW table, IsTable(table)
  PROVE  Spec => []Tells(entries, table)
<1>1. ChainInv /\ Rows => Tells(entries, table)
  BY AnyTableTells DEF ChainInv, Rows, IsRow
<1> QED
  BY <1>1, TrailInductive, RowsHaveColumns, PTL

\* TamperingShows: the edits the run tries are tables, and every first part of a trail
\* is one that verifies (trail.py, verify).
THEOREM TamperingAlwaysShows ==
  ASSUME GenesisIsNoDigest
  PROVE  Spec => []TamperingShows
<1>1. ChainInv /\ Rows => TamperingShows
  <2> SUFFICES ASSUME ChainInv, Rows PROVE TamperingShows
    OBVIOUS
  <2>1. Chained(entries) /\ \A e \in entries : IsRow(e)
    BY DEF ChainInv, Rows, IsRow
  <2>2. \A t : IsTable(t) => Tells(entries, t)
    BY <2>1, AnyTableTells
  <2>3. Cardinality(entries) \in Nat
    BY <2>1, ChainedIsFinite, FS_CardinalityType
  <2>4. \A n \in 0..Cardinality(entries) : Verifies(FirstOf(entries, n))
    BY <2>1, <2>3, FirstRows, ChainedVerifies
  <2> QED
    BY <2>2, <2>4 DEF TamperingShows
<1> QED
  BY <1>1, TrailInductive, RowsHaveColumns, PTL
=============================================================================
