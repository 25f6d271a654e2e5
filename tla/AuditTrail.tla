----------------------------- MODULE AuditTrail -----------------------------
(***************************************************************************)
(* desk/audit/trail.py and schema.py: the append-only, hash-chained table  *)
(* every other part of the Desk writes to, and a reader that tails it.     *)
(*                                                                         *)
(* A writer is one database transaction at a time: either record() on a    *)
(* connection of its own, or record() enlisted in a caller's transaction   *)
(* that changes some state and must commit with its entries or not at all. *)
(* A transaction sees what is committed and its own inserts.               *)
(*                                                                         *)
(* A digest is what it is a digest of: DigestOf is one-to-one.             *)
(***************************************************************************)
EXTENDS Integers, FiniteSets

CONSTANTS
  Writers,
  Payloads,      \* payloads, as Python writes them and as Postgres holds them
  Jsonb,         \* what Postgres holds of each: jsonb rewrites some numbers
  Genesis,       \* GENESIS_HASH
  Nobody,        \* holder of the chain lock when it is free
  MaxOps,        \* bound: transactions in one behaviour
  MaxRecords     \* bound: entries one transaction writes

ASSUME TrailAssumption ==
  /\ Jsonb \in [Payloads -> Payloads]
  /\ MaxOps \in Nat
  /\ MaxRecords \in Nat \ {0}
  /\ Nobody \notin Writers

VARIABLES
  pc, kind, op, written,  \* each writer's transaction
  head,                   \* the head it read: seq and hash
  pending,                \* entries it has inserted and not committed
  changed,                \* whether it has made its state change
  chainLock,              \* pg_advisory_xact_lock(_CHAIN_LOCK_KEY)
  entries,                \* the committed table
  applied,                \* committed state changes, by operation
  ops,
  cursor, delivered       \* the tail: after_seq, and the entries it was given

writer == <<pc, kind, op, written, head, pending, changed>>
tail == <<cursor, delivered>>
vars == <<writer, chainLock, entries, applied, ops, tail>>

Kinds == {"own", "enlisted"}
Steps == {"idle", "open", "locked", "read"}

DigestOf(seq, body, prev) == [digest_of |-> <<seq, body, prev>>]

EmptyHead == [seq |-> 0, hash |-> Genesis]

\* The last row of a table, where it has one.
LastOf(table) == CHOOSE e \in table : \A f \in table : f.seq <= e.seq

\* What _head returns over a table: its last entry, or nothing yet.
HeadOf(table) ==
  IF table = {} THEN EmptyHead
  ELSE [seq |-> LastOf(table).seq, hash |-> LastOf(table).hash]

Visible(w) == entries \union pending[w]

Init ==
  /\ pc = [w \in Writers |-> "idle"]
  /\ kind = [w \in Writers |-> "own"]
  /\ op = [w \in Writers |-> 0]
  /\ written = [w \in Writers |-> 0]
  /\ head = [w \in Writers |-> EmptyHead]
  /\ pending = [w \in Writers |-> {}]
  /\ changed = [w \in Writers |-> FALSE]
  /\ chainLock = Nobody
  /\ entries = {}
  /\ applied = {}
  /\ ops = 0
  /\ cursor = 0
  /\ delivered = {}
-----------------------------------------------------------------------------
\* A transaction opens, for record() itself or for a caller that passes conn.
Open(w, k) ==
  /\ pc[w] = "idle"
  /\ ops < MaxOps
  /\ ops' = ops + 1
  /\ pc' = [pc EXCEPT ![w] = "open"]
  /\ kind' = [kind EXCEPT ![w] = k]
  /\ op' = [op EXCEPT ![w] = ops + 1]
  /\ UNCHANGED <<written, head, pending, changed, chainLock, entries, applied,
                 tail>>

\* The caller's own statements, before it records them.
ChangeState(w) ==
  /\ pc[w] = "open"
  /\ kind[w] = "enlisted"
  /\ ~changed[w]
  /\ changed' = [changed EXCEPT ![w] = TRUE]
  /\ UNCHANGED <<pc, kind, op, written, head, pending, chainLock, entries,
                 applied, ops, tail>>

MayRecord(w) ==
  /\ pc[w] = "open"
  /\ kind[w] = "enlisted" => changed[w]
  /\ written[w] < (IF kind[w] = "own" THEN 1 ELSE MaxRecords)

\* The chain lock is the transaction's, and one it already holds it takes again.
LockChain(w) ==
  /\ MayRecord(w)
  /\ chainLock \in {w, Nobody}
  /\ chainLock' = w
  /\ pc' = [pc EXCEPT ![w] = "locked"]
  /\ UNCHANGED <<kind, op, written, head, pending, changed, entries, applied,
                 ops, tail>>

ReadHead(w) ==
  /\ pc[w] = "locked"
  /\ head' = [head EXCEPT ![w] = HeadOf(Visible(w))]
  /\ pc' = [pc EXCEPT ![w] = "read"]
  /\ UNCHANGED <<kind, op, written, pending, changed, chainLock, entries, applied,
                 ops, tail>>

\* Mutation: the hash is taken over the payload as Python wrote it.
EntryHashedBeforeStored(w, payload) ==
  LET stored == [op |-> op[w], kind |-> kind[w], payload |-> Jsonb[payload]]
      body == [stored EXCEPT !.payload = payload]
  IN  [seq |-> head[w].seq + 1, body |-> stored, prev |-> head[w].hash,
       hash |-> DigestOf(head[w].seq + 1, body, head[w].hash)]

\* The entry after the head the writer read, over the payload as it will be held.
Entry(w, payload) ==
  LET body == [op |-> op[w], kind |-> kind[w], payload |-> Jsonb[payload]]
  IN  [seq |-> head[w].seq + 1, body |-> body, prev |-> head[w].hash,
       hash |-> DigestOf(head[w].seq + 1, body, head[w].hash)]

\* The table's own rules for a new row: the primary key is not there, and the
\* trigger finds the entry before it with the hash it chains onto.
Accepts(table, e) ==
  /\ \A f \in table : f.seq # e.seq
  /\ IF e.seq = 1 THEN e.prev = Genesis
     ELSE \E f \in table : f.seq = e.seq - 1 /\ f.hash = e.prev

\* What ends with a transaction, either way it ends.
EndTransaction(w) ==
  /\ pc' = [pc EXCEPT ![w] = "idle"]
  /\ written' = [written EXCEPT ![w] = 0]
  /\ head' = [head EXCEPT ![w] = EmptyHead]
  /\ pending' = [pending EXCEPT ![w] = {}]
  /\ changed' = [changed EXCEPT ![w] = FALSE]
  /\ chainLock' = IF chainLock = w THEN Nobody ELSE chainLock
  /\ UNCHANGED <<kind, op, ops, tail>>

\* Mutation: the entry is written on a connection of its own, and committed.
InsertOnOwnConnection(w, payload) ==
  /\ pc[w] = "read"
  /\ Accepts(Visible(w), Entry(w, payload))
  /\ entries' = entries \union {Entry(w, payload)}
  /\ written' = [written EXCEPT ![w] = @ + 1]
  /\ pc' = [pc EXCEPT ![w] = "open"]
  /\ UNCHANGED <<kind, op, head, pending, changed, chainLock, applied, ops, tail>>

\* An insert waits for another transaction's uncommitted row of the same key, and
\* one the table does not accept raises, which rolls its transaction back.
Insert(w, payload) ==
  /\ pc[w] = "read"
  /\ \A v \in Writers \ {w} : \A f \in pending[v] : f.seq # Entry(w, payload).seq
  /\ IF Accepts(Visible(w), Entry(w, payload))
     THEN /\ pending' = [pending EXCEPT ![w] = @ \union {Entry(w, payload)}]
          /\ written' = [written EXCEPT ![w] = @ + 1]
          /\ pc' = [pc EXCEPT ![w] = "open"]
          /\ UNCHANGED <<kind, op, head, changed, chainLock, ops, tail>>
     ELSE EndTransaction(w)
  /\ UNCHANGED <<entries, applied>>

Commit(w) ==
  /\ pc[w] = "open"
  /\ written[w] > 0
  /\ entries' = entries \union pending[w]
  /\ applied' = IF changed[w] THEN applied \union {op[w]} ELSE applied
  /\ EndTransaction(w)

\* An exception leaves the block, a refusal unwinds it, or the process dies.
Rollback(w) ==
  /\ pc[w] # "idle"
  /\ EndTransaction(w)
  /\ UNCHANGED <<entries, applied>>

\* The first n rows of a table, in seq order.
FirstOf(table, n) ==
  {e \in table : Cardinality({f \in table : f.seq < e.seq}) < n}

\* Mutation: the reader moves on to the head of the trail, past its own limit.
PollToHead(n) ==
  LET page == FirstOf({e \in entries : e.seq > cursor}, n)
  IN  /\ page # {}
      /\ delivered' = delivered \union page
      /\ cursor' = HeadOf(entries).seq
      /\ UNCHANGED <<writer, chainLock, entries, applied, ops>>

\* query(after_seq=cursor, limit=n): the control room reads on from where it was.
Poll(n) ==
  LET page == FirstOf({e \in entries : e.seq > cursor}, n)
  IN  /\ page # {}
      /\ delivered' = delivered \union page
      /\ cursor' = HeadOf(page).seq
      /\ UNCHANGED <<writer, chainLock, entries, applied, ops>>

Next ==
  \/ \E w \in Writers :
       \/ \E k \in Kinds : Open(w, k)
       \/ ChangeState(w) \/ LockChain(w) \/ ReadHead(w)
       \/ \E payload \in Payloads : Insert(w, payload)
       \/ Commit(w) \/ Rollback(w)
  \/ \E n \in 1..MaxRecords : Poll(n)

Spec == Init /\ [][Next]_vars
-----------------------------------------------------------------------------
\* Mutation: a row is not compared with the one before it.
IntactAlone(table, e) ==
  /\ e.seq = Cardinality({f \in table : f.seq < e.seq}) + 1
  /\ e.hash = DigestOf(e.seq, e.body, e.prev)

\* verify: the walk in seq order.  The rows before a row say which seq it should
\* have and which hash it should chain onto; its own fields say what it should hash
\* to.  Each conjunct is one ChainBreak: entry_missing, link_broken, content_altered.
Intact(table, e) ==
  LET before == {f \in table : f.seq < e.seq}
  IN  /\ e.seq = Cardinality(before) + 1
      /\ e.prev = HeadOf(before).hash
      /\ e.hash = DigestOf(e.seq, e.body, e.prev)

Verifies(table) == \A e \in table : Intact(table, e)

\* verify(expected_head_hash), and head_unexpected.
VerifiesTo(table, expected) == Verifies(table) /\ HeadOf(table).hash = expected
-----------------------------------------------------------------------------
(* What must hold.                                                         *)

BodyType == [op : Nat, kind : Kinds, payload : Payloads]

TypeOK ==
  /\ pc \in [Writers -> Steps]
  /\ kind \in [Writers -> Kinds]
  /\ op \in [Writers -> Nat]
  /\ written \in [Writers -> Nat]
  /\ DOMAIN head = Writers /\ \A w \in Writers : head[w].seq \in Nat
  /\ DOMAIN pending = Writers
  /\ changed \in [Writers -> BOOLEAN]
  /\ chainLock \in Writers \union {Nobody}
  /\ \A e \in entries \union UNION {pending[w] : w \in Writers} :
       e.seq \in Nat \ {0} /\ e.body \in BodyType
  /\ applied \subseteq Nat
  /\ ops \in Nat /\ cursor \in Nat
  /\ delivered \subseteq entries

\* verify never accuses a trail nobody tampered with, whenever it is run and
\* whichever transactions are open or were rolled back (no gap, no broken link).
HonestTrailVerifies == Verifies(entries)

\* No decision goes unrecorded for want of a place in the chain: an entry drawn up
\* after the head its writer read is one the table still accepts.
RecordNeverCollides ==
  \A w \in Writers : pc[w] = "read" =>
    \A payload \in Payloads : Accepts(Visible(w), Entry(w, payload))

\* A state change and the record of it are committed together or not at all.
StateMatchesTrail ==
  \A n \in 1..ops :
    n \in applied <=> \E e \in entries : e.body.op = n /\ e.body.kind = "enlisted"

\* A reader that polls with after_seq is never passed by an entry that commits
\* late with an earlier seq.
TailMissesNothing == \A e \in entries : e.seq <= cursor => e \in delivered

\* What the table holds whatever is done to it: rows of four columns, one to a number.
IsTable(table) ==
  /\ IsFiniteSet(table)
  /\ \A e \in table :
       /\ e = [seq |-> e.seq, body |-> e.body, prev |-> e.prev, hash |-> e.hash]
       /\ e.seq \in Nat
  /\ \A e, f \in table : e.seq = f.seq => e = f

\* A table with its i-th to its k-th row numbered, linked and hashed anew, as record
\* would have written them.
Rechained(table, i, k) ==
  LET nth(j) == CHOOSE e \in table : Cardinality({f \in table : f.seq < e.seq}) = j - 1
      row[j \in 1..Cardinality(table)] ==
        LET body == nth(j).body
            prev == IF j = 1 THEN Genesis ELSE row[j - 1].hash
        IN  IF j \in i..k
            THEN [seq |-> j, body |-> body, prev |-> prev, hash |-> DigestOf(j, body, prev)]
            ELSE nth(j)
  IN  {row[j] : j \in 1..Cardinality(table)}

\* What someone with the table in hand might make of it: any rows taken out, the body
\* of any rows changed, or two rows exchanged, and then nothing made good, or one row,
\* or every row from some row on.
Removed(table) == SUBSET table
Rewritten(table) ==
  {{IF e \in some THEN [e EXCEPT !.body.op = 0] ELSE e : e \in table} : some \in SUBSET table}
Exchanged(table) ==
  {(table \ {e, f}) \union {[e EXCEPT !.seq = f.seq], [f EXCEPT !.seq = e.seq]} :
     e, f \in table}
Edits(table) ==
  LET edited == Removed(table) \union Rewritten(table) \union Exchanged(table)
  IN  edited \union
        UNION {{Rechained(t, i, k) : k \in {i, Cardinality(t)}} :
                 t \in edited, i \in 1..Cardinality(table)}

\* A row of a table and those before it.
UpTo(table, e) == {f \in table : f.seq <= e.seq}

\* What verify says of a table put in the place of another: with the hash of the head
\* it passes that other alone; without, it may pass what has a new hash on every row
\* from the first that differs to the last, or what is a first part of it.
Tells(table, other) ==
  /\ VerifiesTo(other, HeadOf(table).hash) <=> other = table
  /\ Verifies(other) =>
       \A e \in table, f \in other : e.hash = f.hash => UpTo(table, e) = UpTo(other, f)

\* No edit of the trail passes for it once the hash of its head is known.  Without that
\* hash a first part of the trail passes, and so may a trail rewritten to its end, but
\* every hash after the first change is another, so one noted of any entry after it
\* gives it away (trail.py, verify).
TamperingShows ==
  /\ \A t \in Edits(entries) : IsTable(t) => Tells(entries, t)
  /\ \A n \in 0..Cardinality(entries) : Verifies(FirstOf(entries, n))
=============================================================================
