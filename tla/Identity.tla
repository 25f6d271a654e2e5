------------------------------ MODULE Identity ------------------------------
(***************************************************************************)
(* desk/identity: who the Desk has met.  Agents register a key             *)
(* (registry.py), principals enrol one (principals.py), the Desk makes its *)
(* own two on first use (vault.py), and check 1 looks a request's key up   *)
(* (check.py).                                                             *)
(*                                                                         *)
(* The first three each put one row into a table with ON CONFLICT DO       *)
(* NOTHING and read back what is there, on a connection of a pool that is  *)
(* the process's.  Rows are never changed and never deleted.  A process    *)
(* may die between any two steps; its uncommitted rows go with it.         *)
(*                                                                         *)
(* An entry on the trail is one step here, its chain lock, its insert and  *)
(* its commit: AuditTrail.tla has them apart.                              *)
(***************************************************************************)
EXTENDS Integers, FiniteSets, Sequences

CONSTANTS
  Callers, Processes,
  ProcessOf,       \* the process each caller is a thread of
  PoolSize,        \* connections in each process's pool
  Calls,           \* what each may be asked to call
  OnCurve,         \* the byte strings that are points on P-256
  MaxCalls, MaxCrashes

\* A call is an operation and what it takes.  A JWK has a coordinate as it is written
\* (text), the bytes that decodes to, and how many; several texts decode to the same.
Operations == {"register", "enrol", "vault", "verify"}

ASSUME IdentityAssumption ==
  /\ IsFiniteSet(Callers)
  /\ ProcessOf \in [Callers -> Processes]
  /\ PoolSize \in [Processes -> Nat \ {0}]
  /\ DOMAIN Calls = Callers
  /\ \A c \in Callers : \A a \in Calls[c] : a.op \in Operations
  /\ MaxCalls \in Nat /\ MaxCrashes \in Nat

VARIABLES
  pc, call, serial,  \* each caller, its call and the call's number
  conns,             \* how many pooled connections it holds
  pending,           \* the row its transaction has inserted, if it has
  found,             \* the row it last read, if there was one
  rows, trail,       \* committed
  answers,           \* what calls came to: an answer, or a conflict
  started, crashes

caller == <<pc, call, serial, conns, pending, found>>
vars == <<caller, rows, trail, answers, started, crashes>>

NoCall == [op |-> "none"]

Init ==
  /\ pc = [c \in Callers |-> "idle"]
  /\ call = [c \in Callers |-> NoCall]
  /\ serial = [c \in Callers |-> 0]
  /\ conns = [c \in Callers |-> 0]
  /\ pending = [c \in Callers |-> {}]
  /\ found = [c \in Callers |-> {}]
  /\ rows = {}
  /\ trail = {}
  /\ answers = {}
  /\ started = 0
  /\ crashes = 0

-----------------------------------------------------------------------------
\* Keys.  A key is its bytes; an agent's identity and a key's thumbprint follow from them.

\* Mutation: the identity is taken over the key as it was written.
AgentKeyAsWritten(jwk) == jwk.text

AgentKey(jwk) == jwk.bytes
PrincipalKey(jwk) == jwk.bytes

IsAgentKey(jwk) == jwk.kty = "OKP" /\ jwk.crv = "Ed25519" /\ jwk.size = 32
IsPrincipalKey(jwk) ==
  jwk.kty = "EC" /\ jwk.crv = "P-256" /\ jwk.size = 65 /\ jwk.bytes \in OnCurve

\* Whether a call's key can be read at all.
Readable(a) ==
  CASE a.op = "register" -> IsAgentKey(a.jwk)
    [] a.op = "enrol" -> IsPrincipalKey(a.jwk)
    [] OTHER -> TRUE

\* The row a call would have there be.  A desk key is fresh: no two calls make the same.
RowOf(a, n) ==
  CASE a.op = "register" ->
         [table |-> "agent_identity", id |-> AgentKey(a.jwk), value |-> a.principal]
    [] a.op = "enrol" ->
         [table |-> "principal_key", id |-> a.principal, value |-> PrincipalKey(a.jwk)]
    [] a.op = "vault" -> [table |-> "desk_key", id |-> a.purpose, value |-> n]
    [] a.op = "verify" -> [table |-> "agent_identity", id |-> a.request.kid, value |-> n]

Wanted(c) == RowOf(call[c], serial[c])

SameName(r, s) == r.table = s.table /\ r.id = s.id

\* The tables' own constraints: the name is the primary key, and a public key is UNIQUE.
\* In agent_identity the name is the key, and a desk key is never made twice.
Clash(r, s) ==
  SameName(r, s) \/ (r.table = "principal_key" /\ s.table = "principal_key" /\ r.value = s.value)

-----------------------------------------------------------------------------
\* The pool.
Held(p) == {lent \in Callers \X {1, 2} : ProcessOf[lent[1]] = p /\ lent[2] <= conns[lent[1]]}

Free(c) == Cardinality(Held(ProcessOf[c])) < PoolSize[ProcessOf[c]]

WaitsForConnection(c) == pc[c] \in {"connect", "refuse", "record"}

\* The call is over: its connections go back and what it had not committed is gone.
End(c, outcome) ==
  /\ pc' = [pc EXCEPT ![c] = "idle"]
  /\ call' = [call EXCEPT ![c] = NoCall]
  /\ serial' = [serial EXCEPT ![c] = 0]
  /\ conns' = [conns EXCEPT ![c] = 0]
  /\ pending' = [pending EXCEPT ![c] = {}]
  /\ found' = [found EXCEPT ![c] = {}]
  /\ answers' = IF outcome = "none" THEN answers ELSE answers \union
       {[call |-> call[c], serial |-> serial[c], outcome |-> outcome, found |-> found[c]]}
  /\ UNCHANGED <<rows, trail, started, crashes>>

Start(c, a) ==
  /\ pc[c] = "idle"
  /\ started < MaxCalls
  /\ started' = started + 1
  /\ call' = [call EXCEPT ![c] = a]
  /\ serial' = [serial EXCEPT ![c] = started + 1]
  /\ pc' = [pc EXCEPT ![c] =
              IF ~Readable(a) THEN "raise"
              ELSE IF a.op = "verify" /\ a.request.kid = "none" THEN "record"
              ELSE "connect"]
  /\ UNCHANGED <<conns, pending, found, rows, trail, answers, crashes>>

\* A connection, for the call, for the entry that records its refusal, or for check 1's.
Connect(c) ==
  /\ WaitsForConnection(c)
  /\ Free(c)
  /\ conns' = [conns EXCEPT ![c] = @ + 1]
  /\ pc' = [pc EXCEPT ![c] =
              IF pc[c] = "refuse" THEN "refusing"
              ELSE IF pc[c] = "record" THEN "recording"
              ELSE IF call[c].op = "enrol" THEN "insert" ELSE "find"]
  /\ UNCHANGED <<call, serial, pending, found, rows, trail, answers, started, crashes>>

\* Mutation: a caller waits for a connection for as long as it takes.
WaitsForEver(c) == FALSE /\ UNCHANGED vars

\* PoolTimeout, where every connection stays taken.  It is raised through the call.
PoolTimeout(c) ==
  /\ WaitsForConnection(c)
  /\ ~Free(c)
  /\ End(c, "none")

-----------------------------------------------------------------------------
\* _find, over what is committed and what this transaction inserted.
Named(c) == {r \in rows \union pending[c] : SameName(r, Wanted(c))}

\* Where register goes once it has found a row: _returning_agent.
Returning(c, read) == IF read = {Wanted(c)} THEN "commit" ELSE "refuse"

\* The first read: by register and the vault of a row that makes theirs unnecessary, by
\* check 1 of the agent the request claims to be from.
Find(c) ==
  /\ pc[c] = "find"
  /\ found' = [found EXCEPT ![c] = Named(c)]
  /\ conns' = [conns EXCEPT ![c] = IF call[c].op = "verify" THEN 0 ELSE @]
  /\ pc' = [pc EXCEPT ![c] =
              IF call[c].op = "verify" THEN "record"
              ELSE IF Named(c) = {} THEN "insert"
              ELSE IF call[c].op = "register" THEN Returning(c, Named(c)) ELSE "commit"]
  /\ UNCHANGED <<call, serial, pending, rows, trail, answers, started, crashes>>

\* Once its row is in, register has only its entry to write, on the same connection.
AfterInsert(c) == IF call[c].op = "register" THEN "commit" ELSE "again"

\* Mutation: an insert does not wait for one that is not committed yet.
Undisturbed(c) == TRUE

\* Nothing another transaction has inserted and not committed stands in the way.
Unblocked(c) == \A d \in Callers \ {c} : \A r \in pending[d] : ~Clash(r, Wanted(c))

\* INSERT .. ON CONFLICT DO NOTHING.
Insert(c) ==
  /\ pc[c] = "insert"
  /\ Unblocked(c)
  /\ IF \E r \in rows : Clash(r, Wanted(c))
     THEN /\ pc' = [pc EXCEPT ![c] = "again"]
          /\ UNCHANGED <<pending, found>>
     ELSE /\ pending' = [pending EXCEPT ![c] = {Wanted(c)}]
          /\ found' = [found EXCEPT ![c] = {Wanted(c)}]
          /\ pc' = [pc EXCEPT ![c] = AfterInsert(c)]
  /\ UNCHANGED <<call, serial, conns, rows, trail, answers, started, crashes>>

\* The read after the insert.  The vault takes what is there; enrol wants its own key;
\* register is back where a returning agent is.
FindAgain(c) ==
  /\ pc[c] = "again"
  /\ found' = [found EXCEPT ![c] = Named(c)]
  /\ pc' = [pc EXCEPT ![c] =
              IF Named(c) = {} THEN "raise"
              ELSE IF call[c].op = "register" THEN Returning(c, Named(c))
              ELSE IF call[c].op = "enrol" /\ Named(c) # {Wanted(c)} THEN "raise" ELSE "commit"]
  /\ UNCHANGED <<call, serial, conns, pending, rows, trail, answers, started, crashes>>

\* An entry says what it is about and, so that calls can be told apart, whose it is.
Entry(c, event) == [event |-> event, serial |-> serial[c], claimed |-> Wanted(c), found |-> found[c]]

\* agent_registered, for a row that was not there.
Arrivals(c) ==
  IF call[c].op = "register" /\ pending[c] # {} THEN {Entry(c, "registered")} ELSE {}

\* The block ends: the row and the entry about it commit together.
Commit(c) ==
  /\ pc[c] = "commit"
  /\ rows' = rows \union pending[c]
  /\ trail' = trail \union Arrivals(c)
  /\ pending' = [pending EXCEPT ![c] = {}]
  /\ conns' = [conns EXCEPT ![c] = 0]
  /\ pc' = [pc EXCEPT ![c] = "return"]
  /\ UNCHANGED <<call, serial, found, answers, started, crashes>>

\* Mutation: the refusal is recorded on the transaction that raising rolls back.
RefuseOnTheSame(c) ==
  /\ pc[c] = "refusing"
  /\ conns' = [conns EXCEPT ![c] = 1]
  /\ pc' = [pc EXCEPT ![c] = "raise"]
  /\ UNCHANGED <<call, serial, pending, found, rows, trail, answers, started, crashes>>

\* _refuse_principal_change: the attempt on the trail, on the second connection, and then
\* the first block ends by raising.
Refuse(c) ==
  /\ pc[c] = "refusing"
  /\ trail' = trail \union {Entry(c, "refused")}
  /\ conns' = [conns EXCEPT ![c] = 1]
  /\ pc' = [pc EXCEPT ![c] = "raise"]
  /\ UNCHANGED <<call, serial, pending, found, rows, answers, started, crashes>>

-----------------------------------------------------------------------------
AGENT_REQUEST_ALG == "EdDSA"
AGENT_REQUEST_TYP == "stitchai-request+jws"

\* Mutation: what the signature is over is not asked.
VerifiesWhatever(request, row) ==
  request.alg = AGENT_REQUEST_ALG /\ request.signer = row.id /\ request.body = "object"

\* verify_request, against the key a row holds: in agent_identity, the key its name is of.
VerifiesRequest(request, row) ==
  /\ request.alg = AGENT_REQUEST_ALG
  /\ request.typ = AGENT_REQUEST_TYP
  /\ request.signer = row.id
  /\ request.body = "object"

\* Check 1's one entry, on a connection of its own.
Record(c) ==
  /\ pc[c] = "recording"
  /\ \E event \in {IF \E r \in found[c] : VerifiesRequest(call[c].request, r)
                   THEN "identified" ELSE "unidentified"} :
       trail' = trail \union {Entry(c, event)}
  /\ conns' = [conns EXCEPT ![c] = 0]
  /\ pc' = [pc EXCEPT ![c] = "return"]
  /\ UNCHANGED <<call, serial, pending, found, rows, answers, started, crashes>>

-----------------------------------------------------------------------------
Return(c) == pc[c] = "return" /\ End(c, "returned")

\* RegistrationConflict, PrincipalConflict, or a key that could not be read.
Raise(c) ==
  /\ pc[c] = "raise"
  /\ End(c, IF Readable(call[c]) THEN "conflict" ELSE "none")

\* The process dies and comes back: its transactions are rolled back, its pool is new.
Crash(p) ==
  /\ crashes < MaxCrashes
  /\ crashes' = crashes + 1
  /\ \E c \in Callers : ProcessOf[c] = p /\ pc[c] # "idle"
  /\ LET Spared(old, new) == [c \in Callers |-> IF ProcessOf[c] = p THEN new ELSE old[c]]
     IN  /\ pc' = Spared(pc, "idle")
         /\ call' = Spared(call, NoCall)
         /\ serial' = Spared(serial, 0)
         /\ conns' = Spared(conns, 0)
         /\ pending' = Spared(pending, {})
         /\ found' = Spared(found, {})
  /\ UNCHANGED <<rows, trail, answers, started>>

Works(c) ==
  \/ Find(c)
  \/ Insert(c)
  \/ FindAgain(c)
  \/ Commit(c)
  \/ Refuse(c)
  \/ Record(c)
  \/ Return(c)
  \/ Raise(c)

Waits(c) == Connect(c) \/ PoolTimeout(c)

Next ==
  \/ \E c \in Callers : \E a \in Calls[c] : Start(c, a)
  \/ \E c \in Callers : Works(c)
  \/ \E c \in Callers : Waits(c)
  \/ \E p \in Processes : Crash(p)

\* A call that has begun is run on, and one that waits for a connection gets it or its
\* timeout.
Spec == Init /\ [][Next]_vars /\ \A c \in Callers : WF_vars(Works(c)) /\ WF_vars(Waits(c))

-----------------------------------------------------------------------------
Steps == {"idle", "connect", "find", "insert", "again", "commit", "refuse", "refusing",
          "record", "recording", "return", "raise"}

\* The variables have their types, and no pool lends more connections than it has
\* (psycopg_pool).
TypeOK ==
  /\ pc \in [Callers -> Steps]
  /\ DOMAIN call = Callers /\ \A c \in Callers : call[c] \in Calls[c] \union {NoCall}
  /\ serial \in [Callers -> 0 .. MaxCalls]
  /\ conns \in [Callers -> 0 .. 2]
  /\ DOMAIN pending = Callers /\ \A c \in Callers : pending[c] = {} \/ pending[c] = {Wanted(c)}
  /\ DOMAIN found = Callers
  /\ \A p \in Processes : Cardinality(Held(p)) <= PoolSize[p]
  /\ started \in 0 .. MaxCalls /\ crashes \in 0 .. MaxCrashes

\* One key is one identity, one human and one purpose, whoever else was inserting: no
\* name has two rows, and no principal's key is another principal's (schema.py).
OneKeyOneHuman ==
  \A r, s \in rows :
    /\ r.table = s.table /\ r.id = s.id => r = s
    /\ r.table = "principal_key" /\ s.table = "principal_key" /\ r.value = s.value => r = s

\* A registered agent the trail never saw arrive, an arrival of an agent that was never
\* registered, and an arrival told twice: none of them, whatever died or timed out
\* (registry.py, register).
ArrivalsAreOnTheTrail ==
  LET arrivals == {e \in trail : e.event = "registered"}
      agents == {r \in rows : r.table = "agent_identity"}
  IN  /\ agents = {e.claimed : e \in arrivals}
      /\ \A e, f \in arrivals : SameName(e.claimed, f.claimed) => e = f

\* Those a call of one operation was answered, whenever and by whichever process.
Answered(op) == {a \in answers : a.outcome = "returned" /\ a.call.op = op}

AgentsAgree ==
  \A x, y \in Answered("register") :
    x.call.jwk.bytes = y.call.jwk.bytes => x.call.principal = y.call.principal /\ x.found = y.found
PrincipalsAgree ==
  \A x, y \in Answered("enrol") :
    x.call.principal = y.call.principal <=> x.call.jwk.bytes = y.call.jwk.bytes
DeskKeysAgree ==
  \A x, y \in Answered("vault") : x.call.purpose = y.call.purpose => x.found = y.found

\* What a call was told agrees with what every other was told, before and after a restart
\* and in every process: an agent's key, however it was written, acts for one principal;
\* a principal has one key and a key one principal; a purpose has one secret for ever
\* (registry.py, principals.py, vault.py).
AnswersAgree == AgentsAgree /\ PrincipalsAgree /\ DeskKeysAgree

\* A registration refused for its principal is on the trail before it is raised, against
\* the principal the key has and not the one it claimed; and a call that was answered is
\* on the trail as no refusal (registry.py, _refuse_principal_change).
RefusalsAreRecorded ==
  LET refusals == {e \in trail : e.event = "refused"}
  IN  /\ \A e \in refusals : e.found # {e.claimed} /\ e.found \subseteq rows
      /\ \A x \in answers :
           x.call.op = "register" =>
             /\ x.outcome = "conflict" => \E e \in refusals : e.serial = x.serial
             /\ x.outcome = "returned" => \A e \in refusals : e.serial # x.serial

\* The trail tells who arrived and who was turned away, once each (registry.py).
TrailTellsRegistrations == ArrivalsAreOnTheTrail /\ RefusalsAreRecorded

\* A request that passed is one a registered agent signed, with the key it is registered
\* under and as a request, not as something else it signs (check.py, verify; jws.py).
CheckOneNamesTheSigner ==
  \A e \in trail :
    \A x \in {a \in answers : a.serial = e.serial} :
      e.event = "identified" =>
        LET r == x.call.request
        IN  /\ r.signer = r.kid /\ r.typ = "stitchai-request+jws" /\ r.body = "object"
            /\ \E f \in trail : f.event = "registered" /\ f.claimed.id = r.signer

\* Every call ends, one that holds a connection and waits for another included
\* (registry.py, _refuse_principal_change).
CallsReturn == \A c \in Callers : pc[c] # "idle" ~> pc[c] = "idle"
=============================================================================
