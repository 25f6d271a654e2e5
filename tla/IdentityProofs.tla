--------------------------- MODULE IdentityProofs ---------------------------
(***************************************************************************)
(* Identity, for any callers, processes, pools and calls.                  *)
(*                                                                         *)
(* What is told rests on what is in the tables: no two rows clash, and     *)
(* none clashes with one that is inserted and not committed, nor do two of *)
(* these (Insert waits for the one and looks at the other).  What a caller *)
(* has found at each statement (Knows) then holds whatever is committed    *)
(* next, because rows are only ever added.                                 *)
(***************************************************************************)
EXTENDS Identity, FiniteSetTheorems, TLAPS

\* What a request must be that check 1 identified.
Genuine(request) ==
  /\ request.signer = request.kid
  /\ request.typ = AGENT_REQUEST_TYP
  /\ request.body = "object"
  /\ \E f \in trail : f.event = "registered" /\ f.claimed.id = request.signer

\* What was found for a call that is answered.
Fits(a, n, seen) ==
  /\ a.op \in {"register", "enrol"} => seen = {RowOf(a, n)}
  /\ a.op = "vault" => seen # {} /\ \A r \in seen : SameName(r, RowOf(a, n))

\* What a caller holds and has found, statement by statement.
Holding(c) ==
  /\ pc[c] \in {"idle", "connect", "record"} => conns[c] = 0
  /\ pc[c] \in {"find", "insert", "again", "refuse"} => conns[c] = 1
  /\ pc[c] = "refusing" => conns[c] = 2
  /\ pc[c] # "idle" => call[c] \in Calls[c] /\ serial[c] \in 1..started
  /\ pc[c] = "idle" => found[c] = {}
  /\ pending[c] # {} =>
       /\ pc[c] \in {"again", "commit", "raise"}
       /\ call[c].op \in {"register", "enrol", "vault"}
       /\ call[c].op = "register" => pc[c] = "commit"

Knows(c) ==
  /\ pc[c] = "find" => call[c].op # "enrol"
  /\ pc[c] \in {"insert", "again", "commit"} => call[c].op \in {"register", "enrol", "vault"}
  /\ pc[c] = "again" /\ pending[c] = {} => \E r \in rows : Clash(r, Wanted(c))
  /\ pc[c] = "commit" =>
       Fits(call[c], serial[c], found[c]) /\ found[c] \subseteq rows \union pending[c]
  /\ pc[c] = "return" /\ call[c].op # "verify" =>
       Fits(call[c], serial[c], found[c]) /\ found[c] \subseteq rows
  /\ pc[c] \in {"refuse", "refusing"} =>
       call[c].op = "register" /\ found[c] # {Wanted(c)} /\ found[c] \subseteq rows
  /\ pc[c] \in {"record", "recording"} =>
       /\ call[c].op = "verify" /\ found[c] \subseteq rows
       /\ \A r \in found[c] : SameName(r, Wanted(c))

\* What the trail and the answers say of a call that is under way.
Told(c) ==
  pc[c] # "idle" =>
    /\ \A x \in answers : x.serial # serial[c]
    /\ \A e \in trail : e.serial = serial[c] =>
         /\ e.event = "refused" => pc[c] = "raise" /\ call[c].op = "register"
         /\ e.event = "identified" => pc[c] = "return" /\ Genuine(call[c].request)
    /\ pc[c] = "raise" /\ call[c].op = "register" /\ Readable(call[c]) =>
         \E e \in trail : e.event = "refused" /\ e.serial = serial[c]

\* Two callers are in two calls, and have not both inserted what only one may.
Apart(c, d) ==
  /\ pc[c] # "idle" /\ pc[d] # "idle" => serial[c] # serial[d]
  /\ \A r \in pending[c], s \in pending[d] : ~Clash(r, s)

Uncontested(c) == \A r \in pending[c], s \in rows : ~Clash(r, s)

RowsApart == \A r, s \in rows : Clash(r, s) => r = s

Entered(e) ==
  /\ e.serial \in 1..started
  /\ e.event = "refused" => e.found # {e.claimed} /\ e.found \subseteq rows

\* What an answer was, of the call it was to.
Settled(x) ==
  /\ x.serial \in 1..started
  /\ x.outcome = "returned" /\ x.call.op # "verify" =>
       Fits(x.call, x.serial, x.found) /\ x.found \subseteq rows
  /\ x.call.op = "register" =>
       /\ x.outcome = "conflict" => \E e \in trail : e.event = "refused" /\ e.serial = x.serial
       /\ x.outcome = "returned" => \A e \in trail : e.event = "refused" => e.serial # x.serial
  /\ \A e \in trail : e.event = "identified" /\ e.serial = x.serial => Genuine(x.call.request)

Callings == \A c \in Callers : Holding(c) /\ Knows(c) /\ Told(c)

IdentityInv ==
  /\ TypeOK
  /\ Callings
  /\ \A c, d \in Callers : c # d => Apart(c, d)
  /\ \A c \in Callers : Uncontested(c)
  /\ RowsApart
  /\ ArrivalsAreOnTheTrail
  /\ \A e \in trail : Entered(e)
  /\ \A x \in answers : Settled(x)

\* A caller that a step leaves alone.
Same(c) ==
  /\ pc'[c] = pc[c] /\ call'[c] = call[c] /\ serial'[c] = serial[c]
  /\ conns'[c] = conns[c] /\ pending'[c] = pending[c] /\ found'[c] = found[c]

-----------------------------------------------------------------------------
\* The rows that calls want, by their operation.
LEMMA RegisterRow ==
  ASSUME NEW a, a.op = "register", NEW n
  PROVE  /\ RowOf(a, n) = [table |-> "agent_identity", id |-> a.jwk.bytes, value |-> a.principal]
BY DEF RowOf, AgentKey

LEMMA EnrolRow ==
  ASSUME NEW a, a.op = "enrol", NEW n
  PROVE  RowOf(a, n) = [table |-> "principal_key", id |-> a.principal, value |-> a.jwk.bytes]
BY DEF RowOf, PrincipalKey

LEMMA VaultRow ==
  ASSUME NEW a, a.op = "vault", NEW n
  PROVE  RowOf(a, n) = [table |-> "desk_key", id |-> a.purpose, value |-> n]
BY DEF RowOf

LEMMA VerifyRow ==
  ASSUME NEW a, a.op = "verify", NEW n
  PROVE  RowOf(a, n) = [table |-> "agent_identity", id |-> a.request.kid, value |-> n]
BY DEF RowOf

LEMMA ClashIsMutual == ASSUME NEW r, NEW s PROVE Clash(r, s) <=> Clash(s, r)
BY DEF Clash, SameName

\* An operation of a call under way is one of the four.
LEMMA OpOf ==
  ASSUME TypeOK, NEW c \in Callers, Holding(c), pc[c] # "idle"
  PROVE  call[c].op \in Operations
BY IdentityAssumption DEF IdentityAssumption, Holding
-----------------------------------------------------------------------------
\* What others commit takes nothing from what a caller knows: rows are only added.
LEMMA BystanderKeeps ==
  ASSUME NEW c \in Callers, Holding(c), Knows(c), Same(c), rows \subseteq rows',
         started \in Nat, started' \in Nat, started <= started'
  PROVE  Holding(c)' /\ Knows(c)'
<1>1. Holding(c)'
  BY DEF Holding, Same
<1>2. Wanted(c)' = Wanted(c)
  BY DEF Wanted, Same
<1>3. Knows(c)'
  BY <1>2 DEF Knows, Same
<1> QED
  BY <1>1, <1>3

\* Nor does what others write and are answered, of other calls.
LEMMA ToldStays ==
  ASSUME NEW c \in Callers, Told(c), Same(c), trail \subseteq trail',
         pc[c] # "idle" =>
           /\ \A e \in trail' \ trail : e.serial # serial[c]
           /\ \A x \in answers' \ answers : x.serial # serial[c]
  PROVE  Told(c)'
BY DEF Told, Same, Genuine

LEMMA SettledStays ==
  ASSUME NEW x, Settled(x), rows \subseteq rows', trail \subseteq trail',
         started \in Nat, started' \in Nat, started <= started',
         \A e \in trail' \ trail : e.event # "registered" => e.serial # x.serial
  PROVE  Settled(x)'
BY DEF Settled, Genuine

LEMMA EnteredStays ==
  ASSUME NEW e, Entered(e), rows \subseteq rows',
         started \in Nat, started' \in Nat, started <= started'
  PROVE  Entered(e)'
BY DEF Entered

\* A caller's step on its own variables, with the tables, the trail and the answers as
\* they were.
LEMMA LocalStep ==
  ASSUME IdentityInv, TypeOK', NEW c \in Callers,
         UNCHANGED <<call, serial, rows, trail, answers, started, crashes>>,
         \A d \in Callers \ {c} : Same(d),
         pc[c] # "idle", pc'[c] # "idle",
         Holding(c)', Knows(c)', Told(c)', Uncontested(c)',
         \A d \in Callers \ {c} : \A r \in pending'[c], s \in pending[d] : ~Clash(r, s)
  PROVE  IdentityInv'
<1>1. started \in Nat
  BY IdentityAssumption DEF IdentityInv, TypeOK, IdentityAssumption
<1>2. ASSUME NEW d \in Callers PROVE (Holding(d) /\ Knows(d) /\ Told(d))'
  <2>1. CASE d = c
    BY <2>1
  <2>2. CASE d # c
    BY <1>1, <2>2, BystanderKeeps, ToldStays DEF IdentityInv, Callings
  <2> QED
    BY <2>1, <2>2
<1>3. \A d, b \in Callers : d # b => Apart(d, b)'
  BY ClashIsMutual DEF IdentityInv, Apart, Same
<1>4. \A d \in Callers : Uncontested(d)'
  BY DEF IdentityInv, Uncontested, Same
<1>5. RowsApart' /\ ArrivalsAreOnTheTrail'
  BY DEF IdentityInv, RowsApart, ArrivalsAreOnTheTrail
<1>6. \A e \in trail' : Entered(e)'
  BY <1>1, EnteredStays DEF IdentityInv
<1>7. \A x \in answers' : Settled(x)'
  BY <1>1, SettledStays DEF IdentityInv
<1> QED
  BY <1>2, <1>3, <1>4, <1>5, <1>6, <1>7 DEF IdentityInv, Callings
-----------------------------------------------------------------------------
\* The connections of a pool that are lent are finitely many.
LEMMA HeldIsFinite == ASSUME NEW p \in Processes PROVE IsFiniteSet(Held(p))
<1>1. IsFiniteSet({1, 2})
  <2>1. IsFiniteSet({1}) /\ {1, 2} = {1} \union {2}
    BY FS_Singleton
  <2>2. IsFiniteSet({1} \union {2})
    BY <2>1, FS_AddElement
  <2> QED
    BY <2>1, <2>2, Zenon
<1>2. IsFiniteSet(Callers \X {1, 2})
  BY <1>1, FS_Product, IdentityAssumption DEF IdentityAssumption
<1> QED
  BY <1>2, FS_Subset DEF Held

\* A step that takes no connection leaves every pool within its size.
LEMMA PoolKept ==
  ASSUME TypeOK, NEW p \in Processes, conns' \in [Callers -> 0 .. 2],
         \A d \in Callers : conns'[d] <= conns[d]
  PROVE  Cardinality(Held(p)') <= PoolSize[p]
<1>1. Held(p)' \in SUBSET Held(p)
  <2>1. ASSUME NEW lent \in Callers \X {1, 2}, lent[2] <= conns'[lent[1]]
        PROVE  lent[2] <= conns[lent[1]]
    BY <2>1 DEF TypeOK
  <2> QED
    BY <2>1 DEF Held
<1>2. Cardinality(Held(p)') <= Cardinality(Held(p)) /\ Cardinality(Held(p)') \in Nat
  BY <1>1, HeldIsFinite, FS_Subset, FS_CardinalityType
<1>3. Cardinality(Held(p)) <= PoolSize[p] /\ PoolSize[p] \in Nat
  BY IdentityAssumption DEF IdentityAssumption, TypeOK
<1>4. Cardinality(Held(p)) \in Nat
  BY HeldIsFinite, FS_CardinalityType
<1> QED
  BY <1>2, <1>3, <1>4

\* Init.
LEMMA InitIdentity == Init => IdentityInv
<1> SUFFICES ASSUME Init PROVE IdentityInv
  OBVIOUS
<1>1. \A p \in Processes : Held(p) = {}
  BY DEF Init, Held
<1>2. TypeOK
  <2>1. Cardinality({}) = 0
    BY FS_EmptySet
  <2>2. ASSUME NEW p \in Processes PROVE Cardinality(Held(p)) <= PoolSize[p]
    <3>1. Cardinality(Held(p)) = 0
      BY <1>1, <2>1, Zenon
    <3>2. PoolSize[p] \in Nat
      BY IdentityAssumption DEF IdentityAssumption
    <3> QED
      BY <3>1, <3>2
  <2> QED
    BY <2>2, IdentityAssumption DEF Init, TypeOK, Steps, IdentityAssumption
<1> QED
  BY <1>2 DEF Init, IdentityInv, Callings, Holding, Knows, Told, Apart, Uncontested,
              RowsApart, ArrivalsAreOnTheTrail

\* Connect: one connection of those that are free.
LEMMA ConnectKeeps == ASSUME IdentityInv, NEW c \in Callers, Connect(c) PROVE IdentityInv'
<1>0. TypeOK /\ Holding(c) /\ Knows(c) /\ Told(c) /\ Uncontested(c)
  BY DEF IdentityInv, Callings
<1>1. pc[c] \in {"connect", "refuse", "record"} /\ pending[c] = {}
  BY <1>0 DEF Connect, WaitsForConnection, Holding
<1>2. call[c].op \in Operations
  BY <1>0, <1>1, OpOf
<1>3. /\ pc[c] = "refuse" => pc'[c] = "refusing"
      /\ pc[c] = "record" => pc'[c] = "recording"
      /\ pc[c] = "connect" /\ call[c].op = "enrol" => pc'[c] = "insert"
      /\ pc[c] = "connect" /\ call[c].op # "enrol" => pc'[c] = "find"
  <2>1. c \in DOMAIN pc
    BY <1>0 DEF TypeOK
  <2> QED
    BY <1>1, <2>1 DEF Connect
<1>4. /\ conns[c] \in {0, 1} /\ conns' = [conns EXCEPT ![c] = conns[c] + 1]
      /\ pc[c] \in {"connect", "record"} => conns[c] = 0
  BY <1>0, <1>1 DEF Connect, Holding
<1>5. TypeOK'
  <2>1. conns' \in [Callers -> 0 .. 2]
    BY <1>0, <1>4 DEF TypeOK
  <2>2. ASSUME NEW p \in Processes PROVE Cardinality(Held(p)') <= PoolSize[p]
    <3> DEFINE one == <<c, conns[c] + 1>>
    <3>1. Held(p)' \subseteq Held(p) \union (IF p = ProcessOf[c] THEN {one} ELSE {})
      <4> SUFFICES ASSUME NEW lent \in Held(p)', lent \notin Held(p)
                   PROVE  p = ProcessOf[c] /\ lent = one
        OBVIOUS
      <4>1. /\ lent \in Callers \X {1, 2} /\ ProcessOf[lent[1]] = p
            /\ lent[2] <= conns'[lent[1]] /\ ~(lent[2] <= conns[lent[1]])
        BY DEF Held
      <4>2. lent[1] = c
        BY <1>0, <1>4, <4>1 DEF TypeOK
      <4>3. lent[2] = conns[c] + 1
        BY <1>0, <1>4, <4>1, <4>2 DEF TypeOK
      <4> QED
        BY <4>1, <4>2, <4>3
    <3>2. /\ IsFiniteSet(Held(p)) /\ Cardinality(Held(p)) \in Nat /\ PoolSize[p] \in Nat
          /\ Cardinality(Held(p)) <= PoolSize[p]
      BY <1>0, HeldIsFinite, FS_CardinalityType, IdentityAssumption
      DEF IdentityAssumption, TypeOK
    <3>3. CASE p = ProcessOf[c]
      <4>1. Cardinality(Held(p)) < PoolSize[p]
        BY <3>3 DEF Connect, Free
      <4>2. /\ IsFiniteSet(Held(p) \union {one})
            /\ Cardinality(Held(p) \union {one}) <= Cardinality(Held(p)) + 1
            /\ Cardinality(Held(p) \union {one}) \in Nat
        <5>1. IsFiniteSet(Held(p) \union {one})
          BY <3>2, FS_AddElement
        <5>2. Cardinality(Held(p) \union {one}) \in {Cardinality(Held(p)), Cardinality(Held(p)) + 1}
          BY <3>2, FS_AddElement
        <5> QED
          BY <3>2, <5>1, <5>2
      <4>3. Held(p)' \in SUBSET (Held(p) \union {one})
        BY <3>1, <3>3
      <4>4. Cardinality(Held(p)') <= Cardinality(Held(p) \union {one}) /\ IsFiniteSet(Held(p)')
        BY <4>2, <4>3, FS_Subset
      <4> QED
        BY <3>2, <4>1, <4>2, <4>4, FS_CardinalityType
    <3>4. CASE p # ProcessOf[c]
      <4>1. Held(p)' \in SUBSET Held(p)
        BY <3>1, <3>4
      <4>2. Cardinality(Held(p)') <= Cardinality(Held(p)) /\ IsFiniteSet(Held(p)')
        BY <3>2, <4>1, FS_Subset
      <4> QED
        BY <3>2, <4>2, FS_CardinalityType
    <3> QED
      BY <3>3, <3>4
  <2>3. pc' \in [Callers -> Steps]
    BY <1>0, <1>1, <1>3 DEF Connect, TypeOK, Steps
  <2> QED
    BY <1>0, <2>1, <2>2, <2>3 DEF Connect, TypeOK, Wanted
<1>6. \A d \in Callers \ {c} : Same(d)
  BY <1>0 DEF Connect, Same, TypeOK
<1>7. Holding(c)'
  BY <1>0, <1>1, <1>3, <1>4 DEF Connect, Holding, TypeOK
<1>8. Knows(c)'
  BY <1>0, <1>1, <1>2, <1>3 DEF Connect, Knows, Operations, Wanted
<1>9. Told(c)'
  BY <1>0, <1>1, <1>3 DEF Connect, Told, Genuine
<1> QED
  BY <1>0, <1>1, <1>3, <1>5, <1>6, <1>7, <1>8, <1>9, LocalStep DEF Connect, Uncontested

\* The types, after a caller's step on its own variables.
LEMMA TypesKept ==
  ASSUME TypeOK, UNCHANGED <<call, serial, started, crashes>>,
         pc' \in [Callers -> Steps], conns' \in [Callers -> 0 .. 2],
         \A d \in Callers : conns'[d] <= conns[d],
         DOMAIN pending' = Callers, DOMAIN found' = Callers,
         \A d \in Callers : pending'[d] = {} \/ pending'[d] = {Wanted(d)}
  PROVE  TypeOK'
<1>1. \A p \in Processes : Cardinality(Held(p)') <= PoolSize[p]
  BY PoolKept
<1>2. \A d \in Callers : Wanted(d)' = Wanted(d)
  BY DEF Wanted
<1> QED
  BY <1>1, <1>2 DEF TypeOK

\* Find: what is read decides where the call goes.
LEMMA FindKeeps == ASSUME IdentityInv, NEW c \in Callers, Find(c) PROVE IdentityInv'
<1>0. TypeOK /\ Holding(c) /\ Knows(c) /\ Told(c) /\ Uncontested(c)
  BY DEF IdentityInv, Callings
<1>1. pc[c] = "find" /\ pending[c] = {} /\ conns[c] = 1 /\ call[c].op # "enrol"
  BY <1>0 DEF Find, Holding, Knows
<1>2. call[c].op \in Operations
  BY <1>0, <1>1, OpOf
<1>3. /\ pc' = [pc EXCEPT ![c] = pc'[c]] /\ found' = [found EXCEPT ![c] = Named(c)]
      /\ call[c].op = "verify" => pc'[c] = "record" /\ conns'[c] = 0
      /\ call[c].op # "verify" => conns'[c] = 1
      /\ call[c].op # "verify" /\ Named(c) = {} => pc'[c] = "insert"
      /\ call[c].op = "register" /\ Named(c) # {} => pc'[c] = Returning(c, Named(c))
      /\ call[c].op = "vault" /\ Named(c) # {} => pc'[c] = "commit"
  BY <1>0, <1>1 DEF Find, TypeOK
<1>4. pc'[c] \in {"record", "insert", "commit", "refuse"}
  BY <1>1, <1>2, <1>3 DEF Returning, Operations
<1>5. TypeOK'
  <2>1. conns' \in [Callers -> 0 .. 2] /\ \A d \in Callers : conns'[d] <= conns[d]
    BY <1>0, <1>1 DEF Find, TypeOK
  <2>2. pc' \in [Callers -> Steps]
    BY <1>0, <1>3, <1>4 DEF TypeOK, Steps
  <2> QED
    BY <1>0, <2>1, <2>2, TypesKept DEF Find, TypeOK
<1>6. \A d \in Callers \ {c} : Same(d)
  BY <1>0 DEF Find, Same, TypeOK
<1>7. /\ found'[c] = Named(c) /\ Named(c) \subseteq rows
      /\ \A r \in Named(c) : SameName(r, Wanted(c))
      /\ Wanted(c)' = Wanted(c)
  BY <1>0, <1>1, <1>3 DEF Named, TypeOK, Find, Wanted
<1>8. Holding(c)'
  BY <1>0, <1>1, <1>2, <1>3, <1>4, <1>5 DEF Holding, Find, Returning, Operations
<1>9. Knows(c)'
  <2>1. Named(c) = {Wanted(c)} => Fits(call[c], serial[c], Named(c))
    BY DEF Fits, Wanted, SameName
  <2>2. call[c].op = "vault" /\ Named(c) # {} => Fits(call[c], serial[c], Named(c))
    BY <1>7 DEF Fits, Wanted
  <2>3. pc'[c] = "commit" => Fits(call[c], serial[c], Named(c))
    BY <1>1, <1>2, <1>3, <2>1, <2>2 DEF Returning, Operations
  <2>4. pc'[c] = "refuse" => call[c].op = "register" /\ Named(c) # {Wanted(c)}
    BY <1>1, <1>2, <1>3 DEF Returning, Operations
  <2>5. pc'[c] \in {"insert", "commit"} => call[c].op \in {"register", "enrol", "vault"}
    BY <1>2, <1>3 DEF Operations
  <2>6. pc'[c] = "record" => call[c].op = "verify"
    BY <1>1, <1>2, <1>3 DEF Operations, Returning
  <2> QED
    BY <1>1, <1>4, <1>7, <2>3, <2>4, <2>5, <2>6 DEF Knows, Find
<1>10. Told(c)'
  BY <1>0, <1>1, <1>4 DEF Find, Told, Genuine
<1> QED
  BY <1>0, <1>1, <1>4, <1>5, <1>6, <1>8, <1>9, <1>10, LocalStep DEF Find, Uncontested

\* Insert: the row is where nothing clashes with it, committed or not.
LEMMA InsertKeeps == ASSUME IdentityInv, NEW c \in Callers, Insert(c) PROVE IdentityInv'
<1>0. TypeOK /\ Holding(c) /\ Knows(c) /\ Told(c) /\ Uncontested(c)
  BY DEF IdentityInv, Callings
<1>1. /\ pc[c] = "insert" /\ pending[c] = {} /\ conns[c] = 1
      /\ call[c].op \in {"register", "enrol", "vault"}
  BY <1>0 DEF Insert, Holding, Knows
<1>2. Wanted(c)' = Wanted(c)
  BY DEF Insert, Wanted
<1>3. CASE \E r \in rows : Clash(r, Wanted(c))
  <2>1. pc' = [pc EXCEPT ![c] = "again"] /\ UNCHANGED <<pending, found, conns>>
    BY <1>3 DEF Insert
  <2>2. TypeOK'
    BY <1>0, <2>1, TypesKept DEF Insert, TypeOK, Steps
  <2>3. pc'[c] = "again" /\ \A d \in Callers \ {c} : Same(d)
    BY <1>0, <2>1 DEF Insert, Same, TypeOK
  <2>4. Holding(c)' /\ Knows(c)' /\ Told(c)' /\ Uncontested(c)'
    BY <1>0, <1>1, <1>2, <1>3, <2>1, <2>3
    DEF Insert, Holding, Knows, Told, Genuine, Uncontested
  <2> QED
    BY <1>1, <2>1, <2>2, <2>3, <2>4, LocalStep DEF Insert
<1>4. CASE ~ \E r \in rows : Clash(r, Wanted(c))
  <2>1. /\ pc' = [pc EXCEPT ![c] = AfterInsert(c)]
        /\ pending' = [pending EXCEPT ![c] = {Wanted(c)}]
        /\ found' = [found EXCEPT ![c] = {Wanted(c)}]
        /\ UNCHANGED conns
    BY <1>4 DEF Insert
  <2>2. TypeOK'
    BY <1>0, <2>1, TypesKept DEF Insert, TypeOK, Steps, AfterInsert
  <2>3. /\ pc'[c] = AfterInsert(c) /\ pending'[c] = {Wanted(c)} /\ found'[c] = {Wanted(c)}
        /\ \A d \in Callers \ {c} : Same(d)
    BY <1>0, <2>1 DEF Insert, Same, TypeOK
  <2>4. Fits(call[c], serial[c], {Wanted(c)})
    BY DEF Fits, Wanted, SameName
  <2>5. Holding(c)'
    BY <1>0, <1>1, <2>1, <2>3 DEF Insert, Holding, AfterInsert
  <2>6. Knows(c)'
    BY <1>0, <1>1, <1>2, <2>3, <2>4 DEF Insert, Knows, AfterInsert
  <2>7. Told(c)'
    BY <1>0, <1>1, <2>3 DEF Insert, Told, Genuine, AfterInsert
  <2>8. Uncontested(c)'
    BY <1>4, <2>3, ClashIsMutual DEF Insert, Uncontested
  <2>9. \A d \in Callers \ {c} : \A r \in pending'[c], s \in pending[d] : ~Clash(r, s)
    BY <2>3, ClashIsMutual DEF Insert, Unblocked
  <2> QED
    BY <1>1, <2>2, <2>3, <2>5, <2>6, <2>7, <2>8, <2>9, LocalStep DEF Insert, AfterInsert
<1> QED
  BY <1>3, <1>4

\* FindAgain: register finds the agent whose row was in the way.
LEMMA FindAgainKeeps == ASSUME IdentityInv, NEW c \in Callers, FindAgain(c) PROVE IdentityInv'
<1>0. TypeOK /\ Holding(c) /\ Knows(c) /\ Told(c) /\ Uncontested(c)
  BY DEF IdentityInv, Callings
<1>1. /\ pc[c] = "again" /\ conns[c] = 1 /\ call[c].op \in {"register", "enrol", "vault"}
      /\ call[c].op = "register" => pending[c] = {}
  BY <1>0 DEF FindAgain, Holding, Knows
<1>2. Wanted(c)' = Wanted(c)
  BY DEF FindAgain, Wanted
<1>3. call[c].op = "register" => Named(c) # {}
  <2> SUFFICES ASSUME call[c].op = "register" PROVE Named(c) # {}
    OBVIOUS
  <2>1. PICK r \in rows : Clash(r, Wanted(c))
    BY <1>0, <1>1 DEF Knows
  <2>2. Wanted(c).table = "agent_identity"
    BY RegisterRow DEF Wanted
  <2>3. SameName(r, Wanted(c))
    BY <2>1, <2>2 DEF Clash
  <2> QED
    BY <2>3 DEF Named
<1>4. /\ pc' = [pc EXCEPT ![c] = pc'[c]] /\ found' = [found EXCEPT ![c] = Named(c)]
      /\ call[c].op = "register" => pc'[c] = Returning(c, Named(c))
      /\ call[c].op = "enrol" =>
           pc'[c] = IF Named(c) = {Wanted(c)} THEN "commit" ELSE "raise"
      /\ call[c].op = "vault" => pc'[c] = IF Named(c) = {} THEN "raise" ELSE "commit"
  BY <1>0, <1>1, <1>3 DEF FindAgain, TypeOK
<1>5. pc'[c] \in {"raise", "commit", "refuse"}
  BY <1>1, <1>4 DEF Returning
<1>6. TypeOK'
  <2>1. pc' \in [Callers -> Steps]
    BY <1>0, <1>4, <1>5 DEF TypeOK, Steps
  <2> QED
    BY <1>0, <2>1, TypesKept DEF FindAgain, TypeOK
<1>7. \A d \in Callers \ {c} : Same(d)
  BY <1>0 DEF FindAgain, Same, TypeOK
<1>8. /\ found'[c] = Named(c) /\ Named(c) \subseteq rows \union pending[c]
      /\ \A r \in Named(c) : SameName(r, Wanted(c))
  BY <1>0, <1>4 DEF Named, TypeOK
<1>9. Holding(c)'
  BY <1>0, <1>1, <1>4, <1>5 DEF Holding, FindAgain
<1>10. Knows(c)'
  <2>1. Named(c) = {Wanted(c)} => Fits(call[c], serial[c], Named(c))
    BY DEF Fits, Wanted, SameName
  <2>2. call[c].op = "vault" /\ Named(c) # {} => Fits(call[c], serial[c], Named(c))
    BY <1>8 DEF Fits, Wanted
  <2>3. pc'[c] = "commit" => Fits(call[c], serial[c], Named(c))
    BY <1>1, <1>4, <2>1, <2>2 DEF Returning
  <2>4. pc'[c] = "refuse" =>
          call[c].op = "register" /\ Named(c) # {Wanted(c)} /\ pending[c] = {}
    BY <1>1, <1>4 DEF Returning
  <2> QED
    BY <1>1, <1>2, <1>5, <1>8, <2>3, <2>4 DEF Knows, FindAgain
<1>11. Told(c)'
  <2>1. pc'[c] = "raise" => call[c].op # "register"
    BY <1>4 DEF Returning
  <2> QED
    BY <1>0, <1>1, <1>5, <2>1 DEF FindAgain, Told, Genuine
<1> QED
  BY <1>0, <1>1, <1>5, <1>6, <1>7, <1>9, <1>10, <1>11, LocalStep
  DEF FindAgain, Uncontested, IdentityInv, Apart
-----------------------------------------------------------------------------
\* Commit: the row stands alone, and the trail says once that it is there.
LEMMA CommitKeeps == ASSUME IdentityInv, NEW c \in Callers, Commit(c) PROVE IdentityInv'
<1>0. /\ TypeOK /\ Holding(c) /\ Knows(c) /\ Told(c) /\ Uncontested(c)
      /\ started \in Nat /\ rows \subseteq rows' /\ trail \subseteq trail'
  BY IdentityAssumption DEF IdentityInv, Callings, IdentityAssumption, TypeOK, Commit
<1>1. /\ pc[c] = "commit" /\ call[c].op \in {"register", "enrol", "vault"}
      /\ pending[c] = {} \/ pending[c] = {Wanted(c)}
  BY <1>0 DEF Commit, Knows, TypeOK
<1>2. /\ pc'[c] = "return" /\ pending'[c] = {} /\ conns'[c] = 0 /\ found'[c] = found[c]
      /\ \A d \in Callers \ {c} : Same(d)
  BY <1>0 DEF Commit, Same, TypeOK
<1>3. TypeOK'
  BY <1>0, TypesKept DEF Commit, TypeOK, Steps
<1>4. ASSUME NEW d \in Callers PROVE (Holding(d) /\ Knows(d) /\ Told(d))'
  <2>1. CASE d = c
    BY <1>0, <1>1, <1>2, <2>1
    DEF Commit, Holding, Knows, Told, Arrivals, Entry, Genuine
  <2>2. CASE d # c
    <3>1. Holding(d) /\ Knows(d) /\ Told(d) /\ Same(d)
      BY <1>2, <2>2 DEF IdentityInv, Callings
    <3>2. pc[d] # "idle" => \A e \in trail' \ trail : e.serial # serial[d]
      BY <1>1, <2>2 DEF IdentityInv, Apart, Commit, Arrivals, Entry
    <3> QED
      BY <1>0, <3>1, <3>2, BystanderKeeps, ToldStays DEF Commit
  <2> QED
    BY <2>1, <2>2
<1>5. \A d, b \in Callers : d # b => Apart(d, b)'
  BY <1>1, <1>2 DEF IdentityInv, Apart, Same, Commit
<1>6. ASSUME NEW d \in Callers PROVE Uncontested(d)'
  BY <1>2 DEF IdentityInv, Apart, Uncontested, Same, Commit
<1>7. RowsApart'
  <2>1. ASSUME NEW r \in rows', NEW s \in rows', Clash(r, s) PROVE r = s
    BY <1>0, <1>1, <2>1, ClashIsMutual DEF IdentityInv, RowsApart, Uncontested, Commit
  <2> QED
    BY <2>1 DEF RowsApart
<1>8. ArrivalsAreOnTheTrail'
  <2>1. CASE Arrivals(c) = {}
    <3>1. \A r \in pending[c] : r.table # "agent_identity"
      BY <1>1, <2>1, EnrolRow, VaultRow DEF Arrivals, Wanted
    <3>2. trail' = trail /\ rows' = rows \union pending[c]
      BY <2>1 DEF Commit
    <3> QED
      BY <3>1, <3>2 DEF IdentityInv, ArrivalsAreOnTheTrail
  <2>2. CASE Arrivals(c) # {}
    <3>1. /\ Arrivals(c) = {Entry(c, "registered")} /\ pending[c] = {Wanted(c)}
          /\ call[c].op = "register"
      BY <1>1, <2>2 DEF Arrivals
    <3>2. Wanted(c).table = "agent_identity"
      BY <3>1, RegisterRow DEF Wanted
    <3>3. trail' = trail \union {Entry(c, "registered")} /\ rows' = rows \union {Wanted(c)}
      BY <3>1 DEF Commit
    <3>4. Entry(c, "registered").event = "registered"
          /\ Entry(c, "registered").claimed = Wanted(c)
      BY DEF Entry
    <3>5. \A e \in trail : e.event = "registered" =>
            e.claimed \in rows /\ ~SameName(e.claimed, Wanted(c))
      BY <1>0, <3>1, ClashIsMutual
      DEF IdentityInv, ArrivalsAreOnTheTrail, Uncontested, Clash, SameName
    <3>6. {r \in rows' : r.table = "agent_identity"}
            = {e.claimed : e \in {e \in trail' : e.event = "registered"}}
      BY <3>2, <3>3, <3>4 DEF IdentityInv, ArrivalsAreOnTheTrail
    <3>7. ASSUME NEW e \in trail', NEW f \in trail', e.event = "registered",
                 f.event = "registered", SameName(e.claimed, f.claimed)
          PROVE  e = f
      BY <3>3, <3>4, <3>5, <3>7 DEF IdentityInv, ArrivalsAreOnTheTrail, SameName
    <3> QED
      BY <3>6, <3>7 DEF ArrivalsAreOnTheTrail
  <2> QED
    BY <2>1, <2>2
<1>9. \A e \in trail' : Entered(e)'
  <2>1. \A e \in trail : Entered(e)'
    BY <1>0, EnteredStays DEF IdentityInv, Commit
  <2>2. \A e \in Arrivals(c) : e.event = "registered" /\ e.serial \in 1..started
    BY <1>0, <1>1 DEF Arrivals, Entry, Holding
  <2> QED
    BY <2>1, <2>2 DEF Commit, Entered
<1>10. \A x \in answers' : Settled(x)'
  <2>1. \A e \in trail' \ trail : e.event = "registered"
    BY DEF Commit, Arrivals, Entry
  <2> QED
    BY <1>0, <2>1, SettledStays DEF IdentityInv, Commit
<1> QED
  BY <1>3, <1>4, <1>5, <1>6, <1>7, <1>8, <1>9, <1>10 DEF IdentityInv, Callings

\* An entry that a caller writes and that tells no arrival: the caller's own step apart.
LEMMA EntryKeeps ==
  ASSUME IdentityInv, TypeOK', NEW c \in Callers, NEW e,
         UNCHANGED <<call, serial, pending, found, rows, answers, started, crashes>>,
         \A d \in Callers \ {c} : Same(d),
         pc[c] # "idle", pc'[c] # "idle",
         trail' = trail \union {e}, e.serial = serial[c], e.event # "registered",
         Entered(e), Holding(c)', Knows(c)', Told(c)'
  PROVE  IdentityInv'
<1>0. /\ TypeOK /\ Holding(c) /\ Told(c)
      /\ started \in Nat /\ rows \subseteq rows' /\ trail \subseteq trail'
  BY IdentityAssumption DEF IdentityInv, Callings, IdentityAssumption, TypeOK
<1>1. ASSUME NEW d \in Callers PROVE (Holding(d) /\ Knows(d) /\ Told(d))'
  <2>1. CASE d = c
    BY <2>1
  <2>2. CASE d # c
    <3>1. Holding(d) /\ Knows(d) /\ Told(d) /\ Same(d)
      BY <2>2 DEF IdentityInv, Callings
    <3>2. pc[d] # "idle" => \A f \in trail' \ trail : f.serial # serial[d]
      BY <2>2 DEF IdentityInv, Apart
    <3> QED
      BY <1>0, <3>1, <3>2, BystanderKeeps, ToldStays
  <2> QED
    BY <2>1, <2>2
<1>2. \A d, b \in Callers : d # b => Apart(d, b)'
  BY DEF IdentityInv, Apart, Same
<1>3. \A d \in Callers : Uncontested(d)'
  BY DEF IdentityInv, Uncontested
<1>4. RowsApart' /\ ArrivalsAreOnTheTrail'
  BY DEF IdentityInv, RowsApart, ArrivalsAreOnTheTrail
<1>5. \A f \in trail' : Entered(f)'
  BY <1>0, EnteredStays DEF IdentityInv
<1>6. \A x \in answers' : Settled(x)'
  BY <1>0, SettledStays DEF IdentityInv, Told
<1> QED
  BY <1>1, <1>2, <1>3, <1>4, <1>5, <1>6 DEF IdentityInv, Callings

\* Refuse: the refusal is on the trail before the call raises.
LEMMA RefuseKeeps == ASSUME IdentityInv, NEW c \in Callers, Refuse(c) PROVE IdentityInv'
<1>0. TypeOK /\ Holding(c) /\ Knows(c) /\ Told(c)
  BY DEF IdentityInv, Callings
<1>1. /\ pc[c] = "refusing" /\ pending[c] = {} /\ call[c].op = "register"
      /\ found[c] # {Wanted(c)} /\ found[c] \subseteq rows /\ serial[c] \in 1..started
  BY <1>0 DEF Refuse, Holding, Knows
<1>2. pc'[c] = "raise" /\ conns'[c] = 1 /\ \A d \in Callers \ {c} : Same(d)
  BY <1>0 DEF Refuse, Same, TypeOK
<1>3. trail' = trail \union {Entry(c, "refused")}
  BY DEF Refuse
<1>4. /\ Entry(c, "refused").event = "refused" /\ Entry(c, "refused").serial = serial[c]
      /\ Entry(c, "refused").found = found[c] /\ Entry(c, "refused").claimed = Wanted(c)
  BY DEF Entry
<1>5. TypeOK'
  <2>1. conns[c] = 2
    BY <1>0 DEF Refuse, Holding
  <2> QED
    BY <1>0, <2>1, TypesKept DEF Refuse, TypeOK, Steps
<1>6. Entered(Entry(c, "refused"))
  BY <1>1, <1>4 DEF Entered
<1>7. Holding(c)' /\ Knows(c)'
  BY <1>0, <1>1, <1>2 DEF Refuse, Holding, Knows
<1>8. Told(c)'
  BY <1>0, <1>1, <1>2, <1>3, <1>4 DEF Refuse, Told, Genuine
<1> QED
  BY <1>1, <1>2, <1>3, <1>4, <1>5, <1>6, <1>7, <1>8, EntryKeeps DEF Refuse

\* Record: what check 1 calls identified is signed with a registered key.
LEMMA RecordKeeps == ASSUME IdentityInv, NEW c \in Callers, Record(c) PROVE IdentityInv'
<1>0. TypeOK /\ Holding(c) /\ Knows(c) /\ Told(c)
  BY DEF IdentityInv, Callings
<1>1. /\ pc[c] = "recording" /\ pending[c] = {} /\ call[c].op = "verify"
      /\ found[c] \subseteq rows /\ \A r \in found[c] : SameName(r, Wanted(c))
      /\ serial[c] \in 1..started
  BY <1>0 DEF Record, Holding, Knows
<1>2. pc'[c] = "return" /\ conns'[c] = 0 /\ \A d \in Callers \ {c} : Same(d)
  BY <1>0 DEF Record, Same, TypeOK
<1>3. PICK event \in {"identified", "unidentified"} :
        /\ trail' = trail \union {Entry(c, event)}
        /\ event = "identified" => \E r \in found[c] : VerifiesRequest(call[c].request, r)
  BY DEF Record
<1>4. /\ Entry(c, event).event = event /\ Entry(c, event).serial = serial[c]
      /\ Entry(c, event).claimed = Wanted(c)
  BY DEF Entry
<1>5. TypeOK'
  <2>1. conns[c] \in 0..2
    BY <1>0 DEF TypeOK
  <2> QED
    BY <1>0, <2>1, TypesKept DEF Record, TypeOK, Steps
<1>6. Entered(Entry(c, event))
  BY <1>1, <1>3, <1>4 DEF Entered
<1>7. Holding(c)' /\ Knows(c)'
  BY <1>0, <1>1, <1>2 DEF Record, Holding, Knows
<1>8. event = "identified" => Genuine(call[c].request)'
  <2> SUFFICES ASSUME event = "identified" PROVE Genuine(call[c].request)'
    OBVIOUS
  <2>1. PICK r \in found[c] : VerifiesRequest(call[c].request, r)
    BY <1>3
  <2>2. r.table = "agent_identity" /\ r.id = call[c].request.kid
    BY <1>1, VerifyRow DEF SameName, Wanted
  <2>3. \E f \in trail : f.event = "registered" /\ f.claimed = r
    BY <1>1, <2>2 DEF IdentityInv, ArrivalsAreOnTheTrail
  <2> QED
    BY <1>3, <2>1, <2>2, <2>3 DEF VerifiesRequest, Genuine, Record
<1>9. Told(c)'
  <2>1. ASSUME NEW e \in trail', e.serial = serial[c]
        PROVE  e.event # "refused" /\ (e.event = "identified" => Genuine(call[c].request)')
    <3>1. CASE e \in trail
      BY <1>0, <1>1, <2>1, <3>1 DEF Told
    <3>2. CASE e = Entry(c, event)
      BY <1>3, <1>4, <1>8, <3>2
    <3> QED
      BY <1>3, <2>1, <3>1, <3>2
  <2> QED
    BY <1>0, <1>1, <1>2, <2>1 DEF Record, Told, Genuine
<1> QED
  BY <1>1, <1>2, <1>3, <1>4, <1>5, <1>6, <1>7, <1>9, EntryKeeps DEF Record
-----------------------------------------------------------------------------
\* Start: a number no call, entry or answer has had.
LEMMA StartKeeps ==
  ASSUME IdentityInv, NEW c \in Callers, NEW a \in Calls[c], Start(c, a) PROVE IdentityInv'
<1>0. /\ TypeOK /\ Holding(c)
      /\ started \in Nat /\ started' = started + 1 /\ started' \in 0..MaxCalls
  BY IdentityAssumption DEF IdentityInv, Callings, IdentityAssumption, TypeOK, Start
<1>1. pc[c] = "idle" /\ pending[c] = {} /\ found[c] = {} /\ conns[c] = 0
  BY <1>0 DEF Start, Holding
<1>2. /\ pc'[c] \in {"raise", "record", "connect"}
      /\ pc'[c] = "raise" => ~Readable(a)
      /\ pc'[c] = "record" => a.op = "verify"
      /\ call'[c] = a /\ serial'[c] = started'
      /\ \A d \in Callers \ {c} : Same(d)
  BY <1>0 DEF Start, Same, TypeOK
<1>3. TypeOK'
  <2>1. pc' \in [Callers -> Steps]
    BY <1>0 DEF Start, TypeOK, Steps
  <2>2. \A d \in Callers : call'[d] \in Calls[d] \union {NoCall}
    BY <1>0, <1>2 DEF TypeOK, Same
  <2>3. \A d \in Callers : pending'[d] = {} \/ pending'[d] = {Wanted(d)'}
    BY <1>0, <1>1, <1>2 DEF TypeOK, Wanted, Same, Start
  <2>4. \A p \in Processes : Cardinality(Held(p)') <= PoolSize[p]
    BY <1>0 DEF Start, TypeOK, Held
  <2> QED
    BY <1>0, <2>1, <2>2, <2>3, <2>4 DEF Start, TypeOK
<1>4. ASSUME NEW d \in Callers PROVE (Holding(d) /\ Knows(d) /\ Told(d))'
  <2>1. CASE d = c
    <3>1. Holding(c)'
      BY <1>0, <1>1, <1>2 DEF Start, Holding
    <3>2. Knows(c)'
      BY <1>1, <1>2 DEF Start, Knows
    <3>3. \A e \in trail : e.serial # serial'[c]
      BY <1>0, <1>2 DEF IdentityInv, Entered
    <3>4. \A x \in answers : x.serial # serial'[c]
      BY <1>0, <1>2 DEF IdentityInv, Settled
    <3>5. Told(c)'
      BY <1>2, <3>3, <3>4 DEF Start, Told, Readable
    <3> QED
      BY <2>1, <3>1, <3>2, <3>5
  <2>2. CASE d # c
    <3>1. Holding(d) /\ Knows(d) /\ Told(d) /\ Same(d)
      BY <1>2, <2>2 DEF IdentityInv, Callings
    <3> QED
      BY <1>0, <3>1, BystanderKeeps, ToldStays DEF Start
  <2> QED
    BY <2>1, <2>2
<1>5. ASSUME NEW d \in Callers, NEW b \in Callers, d # b PROVE Apart(d, b)'
  <2>1. \A x \in Callers \ {c} : pc[x] # "idle" => serial[x] # serial'[c]
    BY <1>0, <1>2 DEF IdentityInv, Callings, Holding
  <2>2. UNCHANGED pending
    BY DEF Start
  <2> QED
    BY <1>2, <1>5, <2>1, <2>2 DEF IdentityInv, Apart, Same
<1>6. \A d \in Callers : Uncontested(d)'
  BY DEF IdentityInv, Uncontested, Start
<1>7. RowsApart' /\ ArrivalsAreOnTheTrail'
  BY DEF IdentityInv, RowsApart, ArrivalsAreOnTheTrail, Start
<1>8. \A e \in trail' : Entered(e)'
  BY <1>0, EnteredStays DEF IdentityInv, Start
<1>9. \A x \in answers' : Settled(x)'
  BY <1>0, SettledStays DEF IdentityInv, Start
<1> QED
  BY <1>3, <1>4, <1>5, <1>6, <1>7, <1>8, <1>9 DEF IdentityInv, Callings

\* Some callers' calls are over, answered or not.
LEMMA RestKeeps ==
  ASSUME IdentityInv, TypeOK', NEW over \in SUBSET Callers,
         UNCHANGED <<rows, trail, started>>,
         \A d \in over : /\ pc'[d] = "idle" /\ conns'[d] = 0
                         /\ pending'[d] = {} /\ found'[d] = {},
         \A d \in Callers \ over : Same(d),
         answers \subseteq answers',
         \A x \in answers' \ answers :
           /\ Settled(x)
           /\ \A d \in Callers \ over : pc[d] # "idle" => x.serial # serial[d]
  PROVE  IdentityInv'
<1>0. started \in Nat
  BY IdentityAssumption DEF IdentityInv, IdentityAssumption, TypeOK
<1>1. ASSUME NEW d \in Callers PROVE (Holding(d) /\ Knows(d) /\ Told(d))'
  <2>1. CASE d \in over
    BY <2>1 DEF Holding, Knows, Told
  <2>2. CASE d \notin over
    <3>1. Holding(d) /\ Knows(d) /\ Told(d) /\ Same(d)
      BY <2>2 DEF IdentityInv, Callings
    <3> QED
      BY <1>0, <2>2, <3>1, BystanderKeeps, ToldStays
  <2> QED
    BY <2>1, <2>2
<1>2. ASSUME NEW d \in Callers, NEW b \in Callers, d # b PROVE Apart(d, b)'
  BY <1>2 DEF IdentityInv, Apart, Same
<1>3. \A d \in Callers : Uncontested(d)'
  BY DEF IdentityInv, Uncontested, Same
<1>4. RowsApart' /\ ArrivalsAreOnTheTrail'
  BY DEF IdentityInv, RowsApart, ArrivalsAreOnTheTrail
<1>5. \A e \in trail' : Entered(e)'
  BY <1>0, EnteredStays DEF IdentityInv
<1>6. \A x \in answers' : Settled(x)'
  BY <1>0, SettledStays DEF IdentityInv
<1> QED
  BY <1>1, <1>2, <1>3, <1>4, <1>5, <1>6 DEF IdentityInv, Callings

\* The types, when some callers' calls are over.
LEMMA RestTypes ==
  ASSUME TypeOK, NEW over \in SUBSET Callers, started' = started, crashes' \in 0..MaxCrashes,
         pc' \in [Callers -> Steps], serial' \in [Callers -> 0..MaxCalls],
         conns' \in [Callers -> 0..2],
         DOMAIN call' = Callers, DOMAIN pending' = Callers, DOMAIN found' = Callers,
         \A d \in over : call'[d] = NoCall /\ conns'[d] = 0 /\ pending'[d] = {},
         \A d \in Callers \ over : Same(d)
  PROVE  TypeOK'
<1>1. \A d \in Callers : conns'[d] <= conns[d]
  BY DEF TypeOK, Same
<1>2. \A p \in Processes : Cardinality(Held(p)') <= PoolSize[p]
  BY <1>1, PoolKept
<1>3. \A d \in Callers : pending'[d] = {} \/ pending'[d] = {Wanted(d)'}
  BY DEF TypeOK, Same, Wanted
<1>4. \A d \in Callers : call'[d] \in Calls[d] \union {NoCall}
  BY DEF TypeOK, Same
<1> QED
  BY <1>2, <1>3, <1>4 DEF TypeOK

\* Return, Raise and PoolTimeout: an answer of the call's own number, or none.
LEMMA EndKeeps ==
  ASSUME IdentityInv, NEW c \in Callers, NEW outcome, End(c, outcome),
         outcome # "none" =>
           /\ pc[c] # "idle"
           /\ Settled([call |-> call[c], serial |-> serial[c],
                       outcome |-> outcome, found |-> found[c]])
  PROVE  IdentityInv'
<1>0. TypeOK
  BY DEF IdentityInv
<1>1. /\ pc'[c] = "idle" /\ call'[c] = NoCall /\ conns'[c] = 0
      /\ pending'[c] = {} /\ found'[c] = {}
      /\ \A d \in Callers \ {c} : Same(d)
  BY <1>0 DEF End, Same, TypeOK
<1>2. TypeOK'
  <2>1. /\ pc' \in [Callers -> Steps] /\ conns' \in [Callers -> 0..2]
        /\ DOMAIN call' = Callers /\ DOMAIN pending' = Callers /\ DOMAIN found' = Callers
    BY <1>0 DEF End, TypeOK, Steps
  <2>2. serial' \in [Callers -> 0..MaxCalls]
    BY <1>0, IdentityAssumption DEF End, TypeOK, IdentityAssumption
  <2>3. started' = started /\ crashes' \in 0..MaxCrashes
    BY <1>0 DEF End, TypeOK
  <2> QED
    BY <1>0, <1>1, <2>1, <2>2, <2>3, RestTypes, {c} \in SUBSET Callers
<1>3. answers \subseteq answers'
  BY DEF End
<1>4. ASSUME NEW x \in answers' \ answers
      PROVE  /\ Settled(x)
             /\ \A d \in Callers \ {c} : pc[d] # "idle" => x.serial # serial[d]
  <2>1. /\ outcome # "none"
        /\ x = [call |-> call[c], serial |-> serial[c], outcome |-> outcome, found |-> found[c]]
    BY <1>4 DEF End
  <2> QED
    BY <2>1 DEF IdentityInv, Apart
<1> QED
  <2>1. {c} \in SUBSET Callers /\ UNCHANGED <<rows, trail, started>>
    BY DEF End
  <2> QED
    BY <1>1, <1>2, <1>3, <1>4, <2>1, RestKeeps

LEMMA ReturnKeeps == ASSUME IdentityInv, NEW c \in Callers, Return(c) PROVE IdentityInv'
<1>0. Holding(c) /\ Knows(c) /\ Told(c) /\ pc[c] = "return"
  BY DEF IdentityInv, Callings, Return
<1>1. Settled([call |-> call[c], serial |-> serial[c],
               outcome |-> "returned", found |-> found[c]])
  BY <1>0 DEF Settled, Holding, Knows, Told
<1> QED
  BY <1>0, <1>1, EndKeeps DEF Return

LEMMA RaiseKeeps == ASSUME IdentityInv, NEW c \in Callers, Raise(c) PROVE IdentityInv'
<1>0. Holding(c) /\ Told(c) /\ pc[c] = "raise"
  BY DEF IdentityInv, Callings, Raise
<1>1. CASE Readable(call[c])
  <2>1. Settled([call |-> call[c], serial |-> serial[c],
                 outcome |-> "conflict", found |-> found[c]])
    BY <1>0, <1>1 DEF Settled, Holding, Told
  <2> QED
    BY <1>0, <1>1, <2>1, EndKeeps DEF Raise
<1>2. CASE ~Readable(call[c])
  BY <1>2, EndKeeps DEF Raise
<1> QED
  BY <1>1, <1>2

LEMMA PoolTimeoutKeeps ==
  ASSUME IdentityInv, NEW c \in Callers, PoolTimeout(c) PROVE IdentityInv'
BY EndKeeps DEF PoolTimeout

\* Crash: every call of the process, unanswered.
LEMMA CrashKeeps == ASSUME IdentityInv, NEW p \in Processes, Crash(p) PROVE IdentityInv'
<1> DEFINE over == {d \in Callers : ProcessOf[d] = p}
<1>0. TypeOK
  BY DEF IdentityInv
<1>1. /\ \A d \in over : /\ pc'[d] = "idle" /\ call'[d] = NoCall /\ conns'[d] = 0
                         /\ pending'[d] = {} /\ found'[d] = {}
      /\ \A d \in Callers \ over : Same(d)
  BY <1>0 DEF Crash, Same, TypeOK
<1>2. /\ pc' \in [Callers -> Steps] /\ conns' \in [Callers -> 0..2]
      /\ DOMAIN call' = Callers /\ DOMAIN pending' = Callers /\ DOMAIN found' = Callers
  BY <1>0 DEF Crash, TypeOK, Steps
<1>3. serial' \in [Callers -> 0..MaxCalls]
  BY <1>0, IdentityAssumption DEF Crash, TypeOK, IdentityAssumption
<1>4. started' = started /\ crashes' \in 0..MaxCrashes
  BY <1>0, IdentityAssumption DEF Crash, TypeOK, IdentityAssumption
<1>5. TypeOK'
  BY <1>0, <1>1, <1>2, <1>3, <1>4, RestTypes
<1> QED
  BY <1>1, <1>5, RestKeeps DEF Crash

LEMMA StutterKeeps == ASSUME IdentityInv, UNCHANGED vars PROVE IdentityInv'
<1>1. TypeOK' /\ \A d \in Callers \ {} : Same(d)
  BY DEF vars, caller, IdentityInv, TypeOK, Same, Held, Wanted
<1>2. {} \in SUBSET Callers /\ UNCHANGED <<rows, trail, started>> /\ answers' = answers
  BY DEF vars
<1> QED
  BY <1>1, <1>2, RestKeeps

LEMMA NextIdentity == IdentityInv /\ [Next]_vars => IdentityInv'
<1> SUFFICES ASSUME IdentityInv, [Next]_vars PROVE IdentityInv'
  OBVIOUS
<1>1. ASSUME NEW c \in Callers, NEW a \in Calls[c], Start(c, a) PROVE IdentityInv'
  BY <1>1, StartKeeps
<1>2. ASSUME NEW c \in Callers, Works(c) PROVE IdentityInv'
  BY <1>2, FindKeeps, InsertKeeps, FindAgainKeeps, CommitKeeps, RefuseKeeps, RecordKeeps,
     ReturnKeeps, RaiseKeeps DEF Works
<1>3. ASSUME NEW c \in Callers, Waits(c) PROVE IdentityInv'
  BY <1>3, ConnectKeeps, PoolTimeoutKeeps DEF Waits
<1>4. ASSUME NEW p \in Processes, Crash(p) PROVE IdentityInv'
  BY <1>4, CrashKeeps
<1>5. CASE UNCHANGED vars
  BY <1>5, StutterKeeps
<1> QED
  BY <1>1, <1>2, <1>3, <1>4, <1>5 DEF Next

-----------------------------------------------------------------------------
\* The invariant, of every run of the four operations.
THEOREM IdentityInductive == Spec => []IdentityInv
<1> QED
  BY InitIdentity, NextIdentity, PTL DEF Spec

\* The types, and that no pool of a process lends more connections than it has
\* (psycopg_pool).
THEOREM IdentityTyped == Spec => []TypeOK
<1>1. IdentityInv => TypeOK
  BY DEF IdentityInv
<1> QED
  BY <1>1, IdentityInductive, PTL

\* No name has two rows and no principal's key is another's (schema.py), however many
\* processes insert and die.
THEOREM KeysKeepOneHuman == Spec => []OneKeyOneHuman
<1>1. IdentityInv => OneKeyOneHuman
  BY DEF IdentityInv, RowsApart, OneKeyOneHuman, Clash, SameName
<1> QED
  BY <1>1, IdentityInductive, PTL

\* The trail tells every arrival once, and every principal change that was refused before
\* the refusal is raised (registry.py, register and _refuse_principal_change).
THEOREM RegistrationsAreTold == Spec => []TrailTellsRegistrations
<1>1. IdentityInv => TrailTellsRegistrations
  BY DEF IdentityInv, TrailTellsRegistrations, RefusalsAreRecorded, Entered, Settled
<1> QED
  BY <1>1, IdentityInductive, PTL

\* What a call was told of an agent, a principal or a purpose is what every other call is
\* told of it (registry.py, principals.py, vault.py).
THEOREM AnswersAlwaysAgree == Spec => []AnswersAgree
<1>1. ASSUME IdentityInv PROVE AnswersAgree
  <2>0. \A x \in answers : x.outcome = "returned" /\ x.call.op # "verify" =>
          Fits(x.call, x.serial, x.found) /\ x.found \subseteq rows
    BY <1>1 DEF IdentityInv, Settled
  <2>1. AgentsAgree
    <3> SUFFICES ASSUME NEW x \in Answered("register"), NEW y \in Answered("register"),
                        x.call.jwk.bytes = y.call.jwk.bytes
                 PROVE  x.call.principal = y.call.principal /\ x.found = y.found
      BY DEF AgentsAgree
    <3> DEFINE r == RowOf(x.call, x.serial)
               s == RowOf(y.call, y.serial)
    <3>1. x.found = {r} /\ y.found = {s} /\ r \in rows /\ s \in rows
      BY <2>0 DEF Answered, Fits
    <3>2. Clash(r, s) /\ r.value = x.call.principal /\ s.value = y.call.principal
      BY RegisterRow DEF Answered, Clash, SameName
    <3> QED
      BY <1>1, <3>1, <3>2 DEF IdentityInv, RowsApart
  <2>2. PrincipalsAgree
    <3> SUFFICES ASSUME NEW x \in Answered("enrol"), NEW y \in Answered("enrol")
                 PROVE  x.call.principal = y.call.principal <=> x.call.jwk.bytes = y.call.jwk.bytes
      BY DEF PrincipalsAgree
    <3> DEFINE r == RowOf(x.call, x.serial)
               s == RowOf(y.call, y.serial)
    <3>1. r \in rows /\ s \in rows
      BY <2>0 DEF Answered, Fits
    <3>2. /\ r = [table |-> "principal_key", id |-> x.call.principal, value |-> x.call.jwk.bytes]
          /\ s = [table |-> "principal_key", id |-> y.call.principal, value |-> y.call.jwk.bytes]
      BY EnrolRow DEF Answered
    <3>3. r.id = s.id \/ r.value = s.value => r = s
      BY <1>1, <3>1, <3>2 DEF IdentityInv, RowsApart, Clash, SameName
    <3> QED
      BY <3>2, <3>3
  <2>3. DeskKeysAgree
    <3> SUFFICES ASSUME NEW x \in Answered("vault"), NEW y \in Answered("vault"),
                        x.call.purpose = y.call.purpose
                 PROVE  x.found = y.found
      BY DEF DeskKeysAgree
    <3>1. /\ x.found # {} /\ x.found \subseteq rows /\ y.found # {} /\ y.found \subseteq rows
          /\ \A r \in x.found : SameName(r, RowOf(x.call, x.serial))
          /\ \A s \in y.found : SameName(s, RowOf(y.call, y.serial))
      BY <2>0 DEF Answered, Fits
    <3>2. SameName(RowOf(x.call, x.serial), RowOf(y.call, y.serial))
      BY VaultRow DEF Answered, SameName
    <3>3. \A r \in x.found, s \in y.found : r = s
      BY <1>1, <3>1, <3>2 DEF IdentityInv, RowsApart, Clash, SameName
    <3> QED
      BY <3>1, <3>3
  <2> QED
    BY <2>1, <2>2, <2>3 DEF AnswersAgree
<1> QED
  BY <1>1, IdentityInductive, PTL

\* Check 1 identifies nobody but a registered agent that signed the request, as a request
\* (check.py, verify).
THEOREM SignersAreNamed == Spec => []CheckOneNamesTheSigner
<1>1. IdentityInv => CheckOneNamesTheSigner
  BY DEF IdentityInv, CheckOneNamesTheSigner, Settled, Genuine, AGENT_REQUEST_TYP
<1> QED
  BY <1>1, IdentityInductive, PTL
=============================================================================
