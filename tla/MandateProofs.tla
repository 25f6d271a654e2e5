----------------------------- MODULE MandateProofs -----------------------------
(***************************************************************************)
(* The documents, for any that were signed and any way of putting them     *)
(* together (Presentation), and what is decided on them, for any callers,  *)
(* requests and closes (SpendAuthority).                                   *)
(*                                                                         *)
(* What a presentation says is what is under its places, level by level    *)
(* (Disclosure's Levels), and induction goes up the levels.  Where every   *)
(* digest is answered the disclosures sent are a set that the signed part  *)
(* alone determines (OneDisclosureInFull); what is said, how it is named   *)
(* and what becomes of it follow.                                          *)
(*                                                                         *)
(* What a caller has been told stays true of its request while the others  *)
(* move: what the documents say does not change (Stage), and what the      *)
(* ledger says only goes one way (Told).  That the ledger's rows are the   *)
(* mandates' own rests on how sdjwt.py names a mandate (MandatesAreNamed), *)
(* which the first part proves of what verifies; what the documents say of *)
(* what was granted is assumed by name (WalletIsAsSigned).                 *)
(***************************************************************************)
EXTENDS SpendAuthority, Presentation, FiniteSetTheorems, NaturalsInduction, SequenceTheorems,
        WellFoundedInduction, TLAPS

\* Induction, over a set of numbers.
LEMMA UpFromZero ==
  ASSUME NEW S, 0 \in S, \A n \in Nat : n \in S => n + 1 \in S
  PROVE  \A n \in Nat : n \in S
<1> DEFINE Rest == Nat \ S
           Less == OpToRel(<, Nat)
<1> SUFFICES ASSUME Rest # {} PROVE FALSE
  OBVIOUS
<1>1. PICK m \in Rest : \A n \in Rest : ~(<<n, m>> \in Less)
  <2> HIDE DEF Less
  <2>1. IsWellFoundedOn(Less, Nat)
    BY NatLessThanWellFounded DEF Less
  <2>2. Rest \subseteq Nat
    OBVIOUS
  <2> HIDE DEF Rest
  <2> QED
    BY <2>1, <2>2, WFMin
<1>2. m # 0 /\ m \in Nat /\ m - 1 \in Nat
  OBVIOUS
<1>3. m - 1 \in S
  <2>1. <<m - 1, m>> \in Less
    BY <1>2 DEF OpToRel
  <2> QED
    BY <1>1, <1>2, <2>1
<1> QED
  BY <1>2, <1>3
-----------------------------------------------------------------------------
(* The levels of a document.                                               *)

\* The recursive function of a document's levels is there: what is built up to one level is
\* built up to the next.
LEMMA LevelsExist ==
  ASSUME NEW payload, NEW available
  PROVE  Levels(payload, available) =
           [n \in 0..(MaxNesting + 1) |->
              IF n = 0 THEN {Place(<<>>, payload)}
              ELSE UNION {Under(p, available) : p \in Levels(payload, available)[n - 1]}]
<1> DEFINE Root == {Place(<<>>, payload)}
           Beneath(places) == UNION {Under(p, available) : p \in places}
           Down(f, m) == f = [n \in 0..m |-> IF n = 0 THEN Root ELSE Beneath(f[n - 1])]
           Reached == {m \in Nat : \E f : Down(f, m)}
<1>1. 0 \in Reached
  <2>1. Down([n \in 0..0 |-> Root], 0)
    OBVIOUS
  <2> QED
    BY <2>1
<1>2. ASSUME NEW m \in Nat, m \in Reached PROVE m + 1 \in Reached
  <2>1. PICK f : Down(f, m)
    BY <1>2
  <2> DEFINE g == [n \in 0..(m + 1) |-> IF n = m + 1 THEN Beneath(f[m]) ELSE f[n]]
  <2> HIDE DEF Root, Beneath
  <2>2. Down(g, m + 1)
    BY <2>1
  <2> HIDE DEF g, Down
  <2> QED
    BY <2>2
<1>3. MaxNesting + 1 \in Reached
  <2> HIDE DEF Reached
  <2> QED
    BY <1>1, <1>2, UpFromZero, NestingAssumption
<1>4. PICK f : Down(f, MaxNesting + 1)
  BY <1>3
<1> QED
  BY <1>4 DEF Levels

\* The root is at the top, and each level is what is under the one above it.
LEMMA LevelsAre ==
  ASSUME NEW payload, NEW available
  PROVE  /\ Levels(payload, available)[0] = {Place(<<>>, payload)}
         /\ \A n \in 0..MaxNesting :
              Levels(payload, available)[n + 1] =
                UNION {Under(p, available) : p \in Levels(payload, available)[n]}
<1> DEFINE L == Levels(payload, available)
           Root == {Place(<<>>, payload)}
           Beneath(places) == UNION {Under(p, available) : p \in places}
<1>1. L = [n \in 0..(MaxNesting + 1) |-> IF n = 0 THEN Root ELSE Beneath(L[n - 1])]
  BY LevelsExist
<1> HIDE DEF L, Root, Beneath
<1>2. L[0] = Root /\ \A n \in 0..MaxNesting : L[n + 1] = Beneath(L[n])
  <2>1. MaxNesting \in Nat
    BY NestingAssumption
  <2> DEFINE body(n) == IF n = 0 THEN Root ELSE Beneath(L[n - 1])
  <2>2. L[0] = body(0) /\ \A n \in 0..MaxNesting : L[n + 1] = body(n + 1)
    <3> HIDE DEF body
    <3>1. L = [n \in 0..(MaxNesting + 1) |-> body(n)]
      BY <1>1 DEF body
    <3> QED
      BY <2>1, <3>1
  <2> QED
    BY <2>1, <2>2
<1> QED
  BY <1>2 DEF L, Root, Beneath
-----------------------------------------------------------------------------
(* What is disclosed in full.                                              *)

\* Where two sets of disclosures answer every digest in a place, and answer alike, the
\* same is under it.
LEMMA UnderAlike ==
  ASSUME NEW p, NEW a, NEW b,
         \A s \in Standing(p) : s.digest \in DOMAIN a /\ s.digest \in DOMAIN b,
         \A d \in DOMAIN a \intersect DOMAIN b : a[d] = b[d]
  PROVE  Under(p, a) = Under(p, b)
<1> \A s \in Standing(p) : a[s.digest] = b[s.digest]
  OBVIOUS
<1>1. {t \in Standing(p) : t.digest \in DOMAIN a} = Standing(p)
  OBVIOUS
<1>2. {t \in Standing(p) : t.digest \in DOMAIN b} = Standing(p)
  OBVIOUS
<1>3. {Place(s.at, a[s.digest].value) : s \in Standing(p)}
        = {Place(s.at, b[s.digest].value) : s \in Standing(p)}
  OBVIOUS
<1> QED
  BY <1>1, <1>2, <1>3 DEF Under

\* So it is for whole documents, level by level,
LEMMA LevelsAlike ==
  ASSUME NEW payload, NEW a, NEW b,
         \A s \in Slots(payload, a) : s.digest \in DOMAIN a,
         \A s \in Slots(payload, b) : s.digest \in DOMAIN b,
         \A d \in DOMAIN a \intersect DOMAIN b : a[d] = b[d]
  PROVE  \A n \in 0..MaxNesting : Levels(payload, a)[n] = Levels(payload, b)[n]
<1> DEFINE A == Levels(payload, a)
           B == Levels(payload, b)
           Alike == {n \in Nat : n <= MaxNesting => A[n] = B[n]}
<1>1. MaxNesting \in Nat
  BY NestingAssumption
<1>2. 0 \in Alike
  BY LevelsAre
<1>3. ASSUME NEW n \in Nat, n \in Alike PROVE n + 1 \in Alike
  <2> SUFFICES ASSUME n + 1 <= MaxNesting PROVE A[n + 1] = B[n + 1]
    OBVIOUS
  <2>1. A[n] = B[n] /\ n \in 0..MaxNesting /\ n + 1 \in 0..(MaxNesting + 1)
    BY <1>1, <1>3
  <2>2. A[n + 1] = UNION {Under(p, a) : p \in A[n]} /\ B[n + 1] = UNION {Under(p, b) : p \in B[n]}
    BY <2>1, LevelsAre
  <2>3. ASSUME NEW p \in A[n] PROVE Under(p, a) = Under(p, b)
    <3>1. Standing(p) \subseteq Slots(payload, a) /\ Standing(p) \subseteq Slots(payload, b)
      BY <2>1 DEF Slots, Places
    <3> QED
      BY <3>1, UnderAlike
  <2> HIDE DEF A, B
  <2> QED
    BY <2>1, <2>2, <2>3
<1>4. \A n \in Nat : n \in Alike
  <2> HIDE DEF Alike
  <2> QED
    BY <1>2, <1>3, UpFromZero
<1> QED
  BY <1>1, <1>4

\* and for the digests that stand in them.
LEMMA SlotsAlike ==
  ASSUME NEW payload, NEW a, NEW b,
         \A s \in Slots(payload, a) : s.digest \in DOMAIN a,
         \A s \in Slots(payload, b) : s.digest \in DOMAIN b,
         \A d \in DOMAIN a \intersect DOMAIN b : a[d] = b[d]
  PROVE  Slots(payload, a) = Slots(payload, b)
<1>1. \A n \in 0..MaxNesting : Levels(payload, a)[n] = Levels(payload, b)[n]
  BY LevelsAlike
<1>2. Places(payload, a) = Places(payload, b)
  BY <1>1 DEF Places
<1> QED
  BY <1>2 DEF Slots

\* Each disclosure sent answers its own digest, and nothing else is answered.
LEMMA AvailableIs ==
  ASSUME NEW w, NEW alg
  PROVE  /\ DOMAIN Available(w, alg) = {Digest(alg, <<s>>) : s \in ToSet(Sent(w))}
         /\ \A s \in ToSet(Sent(w)) : Available(w, alg)[Digest(alg, <<s>>)] = s
<1>1. \A s : Digest(alg, <<s>>).over[1] = s
  BY DEF Digest
<1> QED
  BY <1>1 DEF Available

\* There is one set of disclosures, if any, that what was signed can be read in full with.
THEOREM OneDisclosureInFull ==
  ASSUME NEW payload, NEW alg, NEW v, NEW w,
         Resolves(payload, Available(v, alg)), Resolves(payload, Available(w, alg))
  PROVE  ToSet(Sent(v)) = ToSet(Sent(w))
<1> DEFINE a == Available(v, alg)
           b == Available(w, alg)
           Digests(S) == {Digest(alg, <<s>>) : s \in S}
<1>1. DOMAIN a = {s.digest : s \in Slots(payload, a)}
  BY DEF Resolves
<1>2. DOMAIN b = {s.digest : s \in Slots(payload, b)}
  BY DEF Resolves
<1>3. \A d \in DOMAIN a \intersect DOMAIN b : a[d] = b[d]
  BY DEF Available
<1>4. Slots(payload, a) = Slots(payload, b)
  <2> HIDE DEF a, b
  <2> QED
    BY <1>1, <1>2, <1>3, SlotsAlike
<1>5. Digests(ToSet(Sent(v))) = Digests(ToSet(Sent(w)))
  BY <1>1, <1>2, <1>4, AvailableIs
<1>6. \A s, t : Digest(alg, <<s>>) = Digest(alg, <<t>>) => s = t
  <2> SUFFICES ASSUME NEW s, NEW t, Digest(alg, <<s>>) = Digest(alg, <<t>>) PROVE s = t
    OBVIOUS
  <2>1. <<s>> = <<t>>
    BY DEF Digest
  <2> QED
    BY <2>1
<1>7. ASSUME NEW P, NEW Q, Digests(P) = Digests(Q), NEW s \in P PROVE s \in Q
  <2>0. Digest(alg, <<s>>) \in Digests(Q)
    BY <1>7
  <2>1. PICK t \in Q : Digest(alg, <<s>>) = Digest(alg, <<t>>)
    BY <2>0
  <2> QED
    BY <1>6, <2>1
<1> QED
  BY <1>5, <1>7

\* What is disclosed in full says one thing.
LEMMA ReadAlike ==
  ASSUME NEW v, NEW w, ToSet(Sent(v)) = ToSet(Sent(w)),
         IssuerJws(v).payload = IssuerJws(w).payload
  PROVE  /\ \A alg : Available(v, alg) = Available(w, alg)
         /\ Presented(v).claims = Presented(w).claims
<1>1. \A alg : Available(v, alg) = Available(w, alg)
  BY DEF Available
<1> QED
  BY <1>1 DEF Presented

\* Which presentations of a JWS verify is a matter of what is disclosed with it alone.
LEMMA VerifiesAlike ==
  ASSUME NEW v, NEW w, NEW key, NEW other,
         VerifiesUnder(v, key), VerifiesUnder(w, other),
         IssuerJws(v).payload = IssuerJws(w).payload
  PROVE  ToSet(Sent(v)) = ToSet(Sent(w))
BY OneDisclosureInFull DEF VerifiesUnder

\* What is in plain sight stands there whatever is disclosed.
LEMMA PlainSlots ==
  ASSUME NEW payload, NEW available
  PROVE  InPlainSight(payload) \subseteq Slots(payload, available)
<1> DEFINE L == Levels(payload, available)
           root == Place(<<>>, payload)
<1>1. 0 \in 0..MaxNesting /\ 1 \in 0..MaxNesting
  BY NestingAssumption
<1>2. root \in L[0] /\ L[1] = UNION {Under(p, available) : p \in L[0]}
  <2>1. L[0] = {root} /\ L[0 + 1] = UNION {Under(p, available) : p \in L[0]}
    BY <1>1, LevelsAre
  <2> HIDE DEF L, root
  <2> QED
    BY <2>1
<1>3. Shown(root) \subseteq L[1]
  <2> HIDE DEF L, root
  <2> QED
    BY <1>2 DEF Under
<1>4. L[0] \subseteq Places(payload, available) /\ L[1] \subseteq Places(payload, available)
  BY <1>1 DEF Places
<1>5. {root} \union Shown(root) \subseteq Places(payload, available)
  BY <1>2, <1>3, <1>4
<1> HIDE DEF L
<1> QED
  BY <1>5 DEF Slots, InPlainSight

\* The disclosure that answers a digest, of those sent.
LEMMA Answered ==
  ASSUME NEW payload, NEW alg, NEW w, Resolves(payload, Available(w, alg)),
         NEW s \in Slots(payload, Available(w, alg))
  PROVE  \E d \in ToSet(Sent(w)) : s.digest = Digest(alg, <<d>>) /\ Available(w, alg)[s.digest] = d
<1>1. s.digest \in DOMAIN Available(w, alg)
  BY DEF Resolves
<1>2. s.digest \in {Digest(alg, <<d>>) : d \in ToSet(Sent(w))}
  <2>1. DOMAIN Available(w, alg) = {Digest(alg, <<d>>) : d \in ToSet(Sent(w))}
    BY AvailableIs
  <2> QED
    BY <1>1, <2>1
<1>3. PICK d \in ToSet(Sent(w)) : s.digest = Digest(alg, <<d>>)
  BY <1>2
<1> QED
  BY <1>3, AvailableIs

\* What is unfit is refused, whatever is disclosed with it.
LEMMA UnfitIsRefused ==
  ASSUME NEW w, NEW key, VerifiesUnder(w, key), Unfit(IssuerJws(w)),
         \A d \in ToSet(Sent(w)) : ParsesAsDisclosure(d) => d \in Disclosures
  PROVE  FALSE
<1> DEFINE payload == IssuerJws(w).payload
           alg == SdAlg(payload)
           a == Available(w, alg)
           slots == InPlainSight(payload)
           Answers(d, s) == s.digest = Digest(alg, <<d>>)
<1>1. Resolves(payload, a) /\ IssuerJws(w).header.alg = MANDATE_ALG /\ SdAlgKnown(payload)
  BY DEF VerifiesUnder
<1>2. \A d \in ToSet(Sent(w)) : ParsesAsDisclosure(d) /\ d \in Disclosures
  BY DEF VerifiesUnder, ToSet
<1>3. slots \subseteq Slots(payload, a)
  BY PlainSlots
<1>4. \A s \in Slots(payload, a) : \E d \in Disclosures :
        Answers(d, s) /\ a[s.digest] = d /\ ParsesAsDisclosure(d)
  BY <1>1, <1>2, Answered
<1>5. /\ \A s, t \in Slots(payload, a) : s.digest = t.digest => s = t
      /\ Fits(Slots(payload, a), a)
  BY <1>1 DEF Resolves
<1>6. CASE \E s, t \in slots : s # t /\ s.digest = t.digest
  BY <1>3, <1>5, <1>6
<1>7. CASE \E s \in slots : \A d \in Disclosures :
             /\ Answers(d, s) /\ ParsesAsDisclosure(d)
             => IF s.role = "array" THEN d.is # "element"
                ELSE d.is # "property" \/ d.name \in s.among
  <2> HIDE DEF a, slots
  <2> QED
    BY <1>3, <1>4, <1>5, <1>7 DEF Fits
<1>8. CASE \E s, t \in slots :
             /\ s # t /\ s.role = "object" /\ t.role = "object" /\ Front(s.at) = Front(t.at)
             /\ \A d, e \in Disclosures : Answers(d, s) /\ Answers(e, t) =>
                  d.is = "property" /\ e.is = "property" /\ d.name = e.name
  <2>1. PICK s \in slots, t \in slots :
          /\ s # t /\ s.role = "object" /\ t.role = "object" /\ Front(s.at) = Front(t.at)
          /\ \A d, e \in Disclosures : Answers(d, s) /\ Answers(e, t) =>
               d.is = "property" /\ e.is = "property" /\ d.name = e.name
    BY <1>8
  <2>2. s \in Slots(payload, a) /\ t \in Slots(payload, a)
    BY <1>3
  <2>3. PICK d \in Disclosures, e \in Disclosures :
          Answers(d, s) /\ Answers(e, t) /\ a[s.digest] = d /\ a[t.digest] = e
    <3> HIDE DEF a, slots, Answers
    <3> QED
      BY <1>4, <2>2
  <2> HIDE DEF a, slots
  <2> QED
    BY <1>5, <2>1, <2>2, <2>3 DEF Fits, Answers
<1> QED
  BY <1>1, <1>6, <1>7, <1>8 DEF Unfit
-----------------------------------------------------------------------------
(* What is put together.                                                   *)

\* What a presentation can be put together from.
Segments == Jwss \union Disclosures \union HopJwss \union {Nothing}

\* A presentation starts with a JWS, and no other part of it is an issuer's.
PartsInPlace ==
  /\ wire \in Seq(Segments)
  /\ wire # <<>> => wire[1] \in Jwss
  /\ \A i \in 2..Len(wire) : wire[i] \in Disclosures \union HopJwss \union {Nothing}

\* However its holder puts a presentation together, its parts stay in place.
THEOREM PartsStayInPlace == Presenting => []PartsInPlace
<1>1. Unstarted => PartsInPlace
  BY DEF Unstarted, PartsInPlace
<1>2. PartsInPlace /\ [PutTogether]_wire => PartsInPlace'
  <2> SUFFICES ASSUME PartsInPlace, [PutTogether]_wire PROVE PartsInPlace'
    OBVIOUS
  <2>1. CASE UNCHANGED wire
    BY <2>1 DEF PartsInPlace
  <2>2. ASSUME NEW jws \in Jwss, StartWith(jws) PROVE PartsInPlace'
    BY <2>2 DEF PartsInPlace, StartWith, Segments
  <2>3. ASSUME wire # <<>>, NEW part \in Disclosures \union HopJwss \union {Nothing},
               wire' = Append(wire, part)
        PROVE  PartsInPlace'
    <3>1. part \in Segments /\ wire \in Seq(Segments) /\ Len(wire) \in Nat /\ Len(wire) # 0
      BY <2>3 DEF PartsInPlace, Segments
    <3>2. wire' \in Seq(Segments) /\ Len(wire') = Len(wire) + 1 /\ wire'[1] = wire[1]
      BY <2>3, <3>1
    <3>3. \A i \in 2..Len(wire') : wire'[i] \in Disclosures \union HopJwss \union {Nothing}
      BY <2>3, <3>1, <3>2 DEF PartsInPlace
    <3> QED
      BY <2>3, <3>2, <3>3 DEF PartsInPlace, Segments, Jwss, HopJwss, FormsOf
  <2> QED
    BY <2>1, <2>2, <2>3 DEF PutTogether, Disclose, BindWith, EndUnbound
<1> QED
  BY <1>1, <1>2, PTL DEF Presenting

\* What is sent between the JWS and the hop.
LEMMA SentAre ==
  ASSUME NEW S, NEW w \in Seq(S), Len(w) >= 2
  PROVE  /\ Sent(w) \in Seq(S) /\ Len(Sent(w)) = Len(w) - 2
         /\ \A i \in 1..(Len(w) - 2) : Sent(w)[i] = w[i + 1]
         /\ SdJwt(w) \in Seq(S) /\ Len(SdJwt(w)) = Len(w) - 1
         /\ \A i \in 1..(Len(w) - 1) : SdJwt(w)[i] = w[i]
         /\ KeyBindingJwt(w) = w[Len(w)]
<1>1. /\ SdJwt(w) \in Seq(S) /\ Len(SdJwt(w)) = Len(w) - 1
      /\ \A i \in 1..(Len(w) - 1) : SdJwt(w)[i] = w[i]
  BY DEF SdJwt, Front
<1> QED
  BY <1>1 DEF Sent, KeyBindingJwt, Last

\* What verifies was sent with disclosures alone.
LEMMA SentAreDisclosures ==
  ASSUME PartsInPlace, PartsAreOfTheirKind, NEW key, VerifiesUnder(wire, key)
  PROVE  \A d \in ToSet(Sent(wire)) : d \in Disclosures
<1> SUFFICES ASSUME NEW d \in ToSet(Sent(wire)) PROVE d \in Disclosures
  OBVIOUS
<1>1. wire \in Seq(Segments) /\ Len(wire) >= 2 /\ ParsesAsDisclosure(d)
  BY DEF PartsInPlace, VerifiesUnder, IsPresentation, ToSet
<1>2. PICK i \in DOMAIN Sent(wire) : d = Sent(wire)[i]
  BY DEF ToSet
<1>3. i + 1 \in 2..Len(wire) /\ d = wire[i + 1]
  BY <1>1, <1>2, SentAre
<1>4. d \in Disclosures \union HopJwss \union {Nothing}
  BY <1>3 DEF PartsInPlace
<1>5. d # Nothing
  BY <1>1 DEF ParsesAsDisclosure, Nothing
<1>6. d \notin HopJwss
  <2> SUFFICES ASSUME d \in HopJwss PROVE FALSE
    OBVIOUS
  <2>1. IsJws(d)
    BY DEF HopJwss, PartsAreOfTheirKind
  <2>2. d.is = "jws"
    BY <2>1 DEF IsJws, Jws
  <2> QED
    BY <1>1, <2>2 DEF ParsesAsDisclosure
<1> QED
  BY <1>4, <1>5, <1>6

\* The form of its signature changes nothing a JWS says (sdjwt.py takes either).
LEMMA FormsVerifyAlike ==
  ASSUME NEW jws, IsJws(jws), NEW k \in FormsOf(jws)
  PROVE  /\ IsJws(k)
         /\ k.payload = jws.payload /\ k.by = jws.by /\ k.header = jws.header
         /\ SigningInput(k) = SigningInput(jws)
<1>1. PICK f \in SignatureForms : k = [jws EXCEPT !.form = f]
  BY DEF FormsOf
<1>2. jws = Jws(jws.header, jws.payload, jws.by, jws.form)
  BY DEF IsJws
<1>3. k = Jws(jws.header, jws.payload, jws.by, f)
  <2> DEFINE h == jws.header
             p == jws.payload
             b == jws.by
             o == jws.form
  <2>1. jws = [is |-> "jws", header |-> h, payload |-> p, by |-> b, form |-> o]
    BY <1>2 DEF Jws
  <2> HIDE DEF h, p, b, o
  <2>2. k = [is |-> "jws", header |-> h, payload |-> p, by |-> b, form |-> f]
    BY <1>1, <2>1
  <2> QED
    BY <2>2 DEF Jws, h, p, b
<1> QED
  BY <1>3 DEF IsJws, Jws, SigningInput
-----------------------------------------------------------------------------
(* Counting what is sent.                                                  *)

\* A sequence has as many elements as places exactly where none is in it twice.
LEMMA InjectiveCounts ==
  ASSUME NEW S, NEW q \in Seq(S)
  PROVE  /\ IsFiniteSet(ToSet(q))
         /\ IsInjective(q) <=> Len(q) = Cardinality(ToSet(q))
<1> DEFINE n == Len(q)
<1>1. n \in Nat /\ DOMAIN q = 1..n /\ q \in [1..n -> ToSet(q)]
  BY DEF ToSet
<1>2. q \in Surjection(1..n, ToSet(q))
  BY <1>1 DEF Surjection, ToSet
<1>3. IsFiniteSet(1..n) /\ Cardinality(1..n) = n
  BY <1>1, FS_Interval
<1>4. IsFiniteSet(ToSet(q))
  BY <1>2, <1>3, FS_Surjection
<1>5. ASSUME IsInjective(q) PROVE n = Cardinality(ToSet(q))
  <2>1. q \in Injection(1..n, ToSet(q))
    BY <1>1, <1>5 DEF Injection
  <2> QED
    BY <1>2, <1>3, <1>4, <2>1, FS_Injection
<1>6. ASSUME n = Cardinality(ToSet(q)) PROVE IsInjective(q)
  <2>1. q \in Injection(1..n, ToSet(q))
    BY <1>2, <1>3, <1>6, FS_SurjSameCardinalityImpliesInj
  <2> QED
    BY <2>1 DEF Injection
<1> QED
  BY <1>4, <1>5, <1>6

\* A finite set put in some order.
LEMMA SetToSeqIs ==
  ASSUME NEW S, IsFiniteSet(S)
  PROVE  /\ SetToSeq(S) \in Seq(S) /\ Len(SetToSeq(S)) = Cardinality(S)
         /\ ToSet(SetToSeq(S)) = S
<1> DEFINE n == Cardinality(S)
           q == SetToSeq(S)
<1>1. n \in Nat /\ ExistsBijection(1..n, S)
  BY FS_CardinalityType
<1>2. \E f \in [1..n -> S] : IsInjective(f)
  BY <1>1 DEF ExistsBijection, Bijection, Injection
<1>3. q \in [1..n -> S] /\ IsInjective(q)
  BY <1>2 DEF SetToSeq
<1> HIDE DEF q
<1>4. q \in Surjection(1..n, S)
  <2>1. q \in Injection(1..n, S)
    BY <1>3 DEF Injection
  <2>2. Cardinality(1..n) = n
    BY <1>1, FS_Interval
  <2> QED
    BY <2>1, <2>2, FS_Injection
<1>5. q \in Seq(S) /\ Len(q) = n
  BY <1>1, <1>3
<1>6. ToSet(q) = S
  BY <1>3, <1>4 DEF ToSet, Surjection
<1> QED
  BY <1>5, <1>6 DEF q

\* A mandate as it is issued.
LEMMA AsIssuedIs ==
  ASSUME NEW m, IsFiniteSet(m.parts)
  PROVE  /\ IssuerJws(AsIssued(m)) = m.jws
         /\ ToSet(Sent(AsIssued(m))) = m.parts
<1> DEFINE q == SetToSeq(m.parts)
           S == m.parts \union {m.jws, Nothing}
           w == AsIssued(m)
<1>1. q \in Seq(S) /\ ToSet(q) = m.parts
  BY SetToSeqIs
<1>2. /\ w \in Seq(S) /\ Len(w) = Len(q) + 2 /\ w[1] = m.jws
      /\ \A i \in 1..Len(q) : w[i + 1] = q[i]
  <2> HIDE DEF q
  <2>1. m.jws \in S /\ Nothing \in S
    OBVIOUS
  <2> HIDE DEF S
  <2> QED
    BY <1>1, <2>1 DEF AsIssued, q
<1>3. Len(w) >= 2 /\ Len(q) \in Nat
  BY <1>1, <1>2
<1>4. Sent(w) \in Seq(S) /\ Len(Sent(w)) = Len(w) - 2 /\ \A i \in 1..(Len(w) - 2) : Sent(w)[i] = w[i + 1]
  <2> HIDE DEF q, w, S
  <2> QED
    BY <1>2, <1>3, SentAre
<1>5. Len(Sent(w)) = Len(q) /\ \A i \in 1..Len(q) : Sent(w)[i] = q[i]
  <2>1. Len(w) - 2 = Len(q)
    <3> HIDE DEF q, w, S
    <3> QED
      BY <1>2, <1>3
  <2> HIDE DEF q, w, S
  <2> QED
    BY <1>2, <1>4, <2>1
<1>6. DOMAIN Sent(w) = DOMAIN q
  <2> HIDE DEF q, w, S
  <2> QED
    BY <1>1, <1>4, <1>5
<1>7. ToSet(Sent(w)) = ToSet(q)
  <2> HIDE DEF q, w, S
  <2> QED
    BY <1>1, <1>5, <1>6 DEF ToSet
<1> QED
  BY <1>1, <1>2, <1>7 DEF IssuerJws
-----------------------------------------------------------------------------
(* Mandates.                                                               *)

\* A presentation of a mandate that verifies sends what the mandate was issued with.
LEMMA SentAsIssued ==
  ASSUME PartsInPlace, PartsAreOfTheirKind, MandatesAreIssued,
         NEW m \in Mandates, IsOf(m), NEW key, VerifiesUnder(wire, key)
  PROVE  /\ ToSet(Sent(wire)) = m.parts
         /\ m.key = key /\ Presented(wire).claims = m.means
<1>1. IsJws(m.jws) /\ IsFiniteSet(m.parts)
  BY DEF PartsAreOfTheirKind, MandatesAreIssued
<1>2. VerifiesUnder(AsIssued(m), m.key) /\ Presented(AsIssued(m)).claims = m.means
  BY DEF MandatesAreIssued
<1>3. IssuerJws(AsIssued(m)) = m.jws /\ ToSet(Sent(AsIssued(m))) = m.parts
  BY <1>1, AsIssuedIs
<1>4. IssuerJws(wire).payload = m.jws.payload /\ IssuerJws(wire).by = m.jws.by
  BY <1>1, FormsVerifyAlike DEF IsOf, IssuerJws
<1>5. ToSet(Sent(wire)) = ToSet(Sent(AsIssued(m)))
  BY <1>2, <1>3, <1>4, VerifiesAlike
<1>6. Presented(wire).claims = Presented(AsIssued(m)).claims
  BY <1>3, <1>4, <1>5, ReadAlike
<1>7. m.key = key
  BY <1>2, <1>3, <1>4 DEF VerifiesUnder
<1> QED
  BY <1>2, <1>3, <1>5, <1>6, <1>7

\* ClaimsAreWhatWasSigned: what verifies under a principal's key was signed as a mandate,
\* and is read as that mandate.
LEMMA ReadAsWhatWasSigned ==
  ASSUME PartsInPlace, PartsAreOfTheirKind, MandatesAreIssued, SignaturesAreTheirs
  PROVE  ClaimsAreWhatWasSigned
<1> SUFFICES ASSUME NEW key \in Signers, VerifiesUnder(wire, key)
             PROVE  \E m \in Mandates : IsOf(m) /\ m.key = key /\ Presented(wire).claims = m.means
  BY DEF ClaimsAreWhatWasSigned, Signers
<1>1. wire # <<>> /\ wire[1] \in Jwss /\ wire[1].by = key
  BY DEF PartsInPlace, VerifiesUnder, IsPresentation, IssuerJws
<1>2. CASE \E m \in Mandates : wire[1] \in FormsOf(m.jws)
  BY <1>1, <1>2, SentAsIssued DEF IsOf
<1>3. CASE \E d \in Deals : wire[1] \in FormsOf(d.jws)
  <2>1. PICK d \in Deals : wire[1] \in FormsOf(d.jws)
    BY <1>3
  <2>2. wire[1].by = DeskMandateKey
    BY <2>1, FormsVerifyAlike DEF PartsAreOfTheirKind, SignaturesAreTheirs
  <2> QED
    BY <1>1, <2>2 DEF SignaturesAreTheirs
<1>4. CASE wire[1] \in {d.jws : d \in Misissued}
  <2>1. Unfit(IssuerJws(wire))
    BY <1>4 DEF SignaturesAreTheirs, IssuerJws
  <2> QED
    BY <2>1, SentAreDisclosures, UnfitIsRefused
<1>5. CASE wire[1] \in ForeignJwss
  BY <1>1, <1>5 DEF SignaturesAreTheirs
<1> QED
  BY <1>1, <1>2, <1>3, <1>4, <1>5 DEF Jwss

\* AnyOrderNothingElse: it verifies with what it was issued with, in any order, and with
\* nothing else.
LEMMA ReadInAnyOrder ==
  ASSUME PartsInPlace, PartsAreOfTheirKind, MandatesAreIssued
  PROVE  AnyOrderNothingElse
<1> SUFFICES ASSUME NEW m \in Mandates, IsOf(m)
             PROVE  VerifiesUnder(wire, m.key) <=>
                      /\ IsPresentation(wire)
                      /\ Len(Sent(wire)) = Cardinality(m.parts) /\ ToSet(Sent(wire)) = m.parts
  BY DEF AnyOrderNothingElse
<1>1. wire \in Seq(Segments)
  BY DEF PartsInPlace
<1>2. ASSUME IsPresentation(wire)
      PROVE  /\ Sent(wire) \in Seq(Segments)
             /\ IsInjective(Sent(wire)) <=> Len(Sent(wire)) = Cardinality(ToSet(Sent(wire)))
  BY <1>1, <1>2, SentAre, InjectiveCounts DEF IsPresentation
<1>3. ASSUME VerifiesUnder(wire, m.key)
      PROVE  /\ IsPresentation(wire)
             /\ Len(Sent(wire)) = Cardinality(m.parts) /\ ToSet(Sent(wire)) = m.parts
  BY <1>2, <1>3, SentAsIssued DEF VerifiesUnder
<1>4. ASSUME IsPresentation(wire), Len(Sent(wire)) = Cardinality(m.parts),
             ToSet(Sent(wire)) = m.parts
      PROVE  VerifiesUnder(wire, m.key)
  <2>1. IsJws(m.jws) /\ IsFiniteSet(m.parts) /\ VerifiesUnder(AsIssued(m), m.key)
    BY DEF PartsAreOfTheirKind, MandatesAreIssued
  <2>2. IssuerJws(AsIssued(m)) = m.jws /\ ToSet(Sent(AsIssued(m))) = m.parts
    BY <2>1, AsIssuedIs
  <2>3. /\ IssuerJws(wire).payload = m.jws.payload /\ IssuerJws(wire).by = m.jws.by
        /\ IssuerJws(wire).header = m.jws.header /\ IsJws(IssuerJws(wire))
    BY <2>1, FormsVerifyAlike DEF IsOf, IssuerJws
  <2>4. IssuerJws(wire).is = "jws"
    BY <2>3 DEF IsJws, Jws
  <2>5. \A alg : Available(wire, alg) = Available(AsIssued(m), alg)
    BY <1>4, <2>2 DEF Available
  <2>6. \A i \in DOMAIN Sent(wire) : ParsesAsDisclosure(Sent(wire)[i])
    <3>1. \A d \in m.parts : ParsesAsDisclosure(d)
      BY <2>1, <2>2 DEF VerifiesUnder, ToSet
    <3> QED
      BY <1>4, <3>1 DEF ToSet
  <2>7. IsInjective(Sent(wire))
    BY <1>2, <1>4
  <2> QED
    BY <1>4, <2>1, <2>2, <2>3, <2>4, <2>5, <2>6, <2>7 DEF VerifiesUnder
<1> QED
  BY <1>3, <1>4

\* OnlyWhatWasSigned: whatever mandates there are and whatever else is signed, a holder
\* makes of a mandate what was signed, or nothing that is read.
THEOREM ReadAsSigned ==
  ASSUME PartsAreOfTheirKind, MandatesAreIssued, SignaturesAreTheirs
  PROVE  Presenting => []OnlyWhatWasSigned
<1>1. PartsInPlace => OnlyWhatWasSigned
  BY ReadAsWhatWasSigned, ReadInAnyOrder DEF OnlyWhatWasSigned
<1> QED
  BY <1>1, PartsStayInPlace, PTL

\* OneMandateOneName: both names are of the signed part alone.
LEMMA MandatesKeepTheirNames ==
  ASSUME PartsAreOfTheirKind, MandatesAreIssued
  PROVE  OneMandateOneName
<1> SUFFICES ASSUME NEW m \in Mandates, IsOf(m)
             PROVE  /\ Presented(wire).mandate_id = Presented(AsIssued(m)).mandate_id
                    /\ wire[1] = m.jws => Presented(wire).digest = Presented(AsIssued(m)).digest
  BY DEF OneMandateOneName
<1>1. IsJws(m.jws) /\ IsFiniteSet(m.parts)
  BY DEF PartsAreOfTheirKind, MandatesAreIssued
<1>2. IssuerJws(AsIssued(m)) = m.jws
  BY <1>1, AsIssuedIs
<1>3. /\ IssuerJws(wire).payload = m.jws.payload
      /\ SigningInput(IssuerJws(wire)) = SigningInput(m.jws)
  BY <1>1, FormsVerifyAlike DEF IsOf, IssuerJws
<1>4. Presented(wire).mandate_id = Presented(AsIssued(m)).mandate_id
  BY <1>2, <1>3 DEF Presented, SignedDigestOf
<1>5. ASSUME wire[1] = m.jws PROVE Presented(wire).digest = Presented(AsIssued(m)).digest
  BY <1>2, <1>5 DEF Presented, DigestOf, IssuerJws
<1> QED
  BY <1>4, <1>5

\* HopSpeaksForOnePresentation: whatever hops agents made, one lifted onto a
\* presentation it was not made over is refused.
THEOREM HopsAreNotLifted ==
  ASSUME PartsAreOfTheirKind, HopsNameWhatTheyAreFor
  PROVE  Presenting => []HopSpeaksForOnePresentation
<1>1. PartsInPlace => HopSpeaksForOnePresentation
  <2> SUFFICES ASSUME PartsInPlace, NEW key, VerifiesUnder(wire, key), NEW alg,
                      ReadsKeyBinding(wire, EndorsedKey, alg)
               PROVE  \E h \in Hops : h.jws = KeyBindingJwt(wire) /\ h.over = SdJwt(wire)
    BY DEF HopSpeaksForOnePresentation
  <2>1. wire \in Seq(Segments) /\ Len(wire) >= 2 /\ KeyBindingJwt(wire) = wire[Len(wire)]
    BY SentAre DEF PartsInPlace, VerifiesUnder, IsPresentation
  <2>2. KeyBindingJwt(wire).is = "jws"
    BY DEF ReadsKeyBinding
  <2>3. KeyBindingJwt(wire) \in HopJwss
    <3>1. wire[Len(wire)] \in Disclosures \union HopJwss \union {Nothing}
      BY <2>1 DEF PartsInPlace
    <3> QED
      BY <2>1, <2>2, <3>1 DEF PartsAreOfTheirKind, Nothing
  <2>4. PICK h \in Hops : h.jws = KeyBindingJwt(wire)
    BY <2>3 DEF HopJwss
  <2>5. PICK a \in HashAlgorithms :
          Get(h.jws.payload, "sd_hash") = DigestText(Digest(a, h.over))
    BY DEF HopsNameWhatTheyAreFor
  <2>6. Get(h.jws.payload, "sd_hash") = DigestText(Digest(alg, SdJwt(wire)))
    BY <2>4 DEF ReadsKeyBinding, SdHashOf
  <2>7. h.over = SdJwt(wire)
    BY <2>5, <2>6 DEF DigestText, Digest
  <2> QED
    BY <2>4, <2>7
<1> QED
  BY <1>1, PartsStayInPlace, PTL
-----------------------------------------------------------------------------
(* Documents with nothing hidden in them.                                  *)

\* The recursive function of a document's readings is there, and each is of the one below.
LEMMA ReadingsAre ==
  ASSUME NEW payload, NEW available, NEW place \in Places(payload, available)
  PROVE  /\ Readings(payload, available)[0][place.value] = place.value
         /\ \A n \in 0..MaxNesting : n # 0 =>
              Readings(payload, available)[n][place.value] =
                Put(place.value, available, Readings(payload, available)[n - 1])
<1> DEFINE Values == {p.value : p \in Places(payload, available)}
           First == [v \in Values |-> v]
           Then(said) == [v \in Values |-> Put(v, available, said)]
           Body(f, n) == [v \in Values |-> IF n = 0 THEN v ELSE Put(v, available, f[n - 1])]
           Down(f, m) == f = [n \in 0..m |-> Body(f, n)]
           Reached == {m \in Nat : \E f : Down(f, m)}
<1>1. \A f : Body(f, 0) = First
  OBVIOUS
<1>2. \A f, n : n # 0 => Body(f, n) = Then(f[n - 1])
  OBVIOUS
<1>3. 0 \in Reached
  <2> DEFINE f == [n \in 0..0 |-> First]
  <2>1. Down(f, 0)
    <3> HIDE DEF Body, First
    <3>1. \A n \in 0..0 : Body(f, n) = First
      BY <1>1
    <3> QED
      BY <3>1
  <2> QED
    BY <2>1
<1>4. ASSUME NEW m \in Nat, m \in Reached PROVE m + 1 \in Reached
  <2>1. PICK f : Down(f, m)
    BY <1>4
  <2> DEFINE g == [n \in 0..(m + 1) |-> IF n = m + 1 THEN Then(f[m]) ELSE f[n]]
  <2> HIDE DEF Then, First
  <2>2. Down(g, m + 1)
    <3>1. \A n \in 0..m : f[n] = Body(f, n)
      <4> HIDE DEF Body
      <4> QED
        BY <2>1
    <3>2. \A n \in 0..(m + 1) : g[n] = Body(g, n)
      <4> SUFFICES ASSUME NEW n \in 0..(m + 1) PROVE g[n] = Body(g, n)
        OBVIOUS
      <4> HIDE DEF Body
      <4>1. CASE n = 0
        BY <1>1, <3>1, <4>1
      <4>2. CASE n # 0
        <5>1. n - 1 \in 0..m /\ g[n - 1] = f[n - 1]
          BY <4>2
        <5>2. CASE n = m + 1
          BY <1>2, <4>2, <5>1, <5>2
        <5>3. CASE n # m + 1
          BY <1>2, <3>1, <4>2, <5>1, <5>3
        <5> QED
          BY <5>2, <5>3
      <4> QED
        BY <4>1, <4>2
    <3> HIDE DEF Body
    <3> QED
      BY <3>2
  <2> HIDE DEF g, Down
  <2> QED
    BY <2>2
<1>5. MaxNesting \in Reached
  <2> HIDE DEF Reached
  <2> QED
    BY <1>3, <1>4, UpFromZero, NestingAssumption
<1>6. PICK f : Down(f, MaxNesting)
  BY <1>5
<1> DEFINE R == Readings(payload, available)
<1>7. R = [n \in 0..MaxNesting |-> Body(R, n)]
  BY <1>6 DEF Readings
<1>8. place.value \in Values /\ 0 \in 0..MaxNesting
  BY NestingAssumption
<1>9. \A n \in 0..MaxNesting : R[n] = Body(R, n)
  <2> HIDE DEF R, Body
  <2> QED
    BY <1>7
<1>10. \A n \in 0..MaxNesting :
        R[n][place.value] = IF n = 0 THEN place.value ELSE Put(place.value, available, R[n - 1])
  <2> HIDE DEF R, Values
  <2> QED
    BY <1>8, <1>9
<1> QED
  BY <1>8, <1>10

\* A value with no parts.
Leaf(v) == v.kind \notin {"object", "array", "hidden"}

\* A value with nothing hidden right in it.
Built(v) ==
  \/ Leaf(v)
  \/ v = Object([n \in DOMAIN v.members |-> v.members[n]])
  \/ /\ v = Array([i \in DOMAIN v.items |-> v.items[i]])
     /\ \A i \in DOMAIN v.items : ~Hidden(v, i)

\* What a value is made of.
Parts(v) ==
  CASE v.kind = "object" -> {v.members[n] : n \in DOMAIN v.members}
    [] v.kind = "array" -> {v.items[i] : i \in DOMAIN v.items}
    [] OTHER -> {}

\* One with nothing hidden in it anywhere, and nothing deeper than so many levels.
Plain1(v) == Built(v) /\ \A u \in Parts(v) : Leaf(u)
Plain2(v) == Built(v) /\ \A u \in Parts(v) : Plain1(u)
Plain3(v) == Built(v) /\ \A u \in Parts(v) : Plain2(u)

\* An object's fields.
LEMMA ObjectsAre ==
  ASSUME NEW members
  PROVE  /\ Object(members).kind = "object" /\ Object(members).members = members
         /\ Object(members).sd = <<>>
BY DEF Object, Hiding

\* What has no parts hides nothing.
LEMMA LeavesAre ==
  ASSUME NEW v, Leaf(v)
  PROVE  Built(v) /\ Parts(v) = {}
BY DEF Leaf, Built, Parts

\* No digest stands in what is built, and under it are its parts.
LEMMA BuiltStands ==
  ASSUME NEW p, NEW available, Built(p.value)
  PROVE  /\ Standing(p) = {}
         /\ {q.value : q \in Under(p, available)} = Parts(p.value)
<1> DEFINE v == p.value
<1>1. CASE Leaf(v)
  <2>1. Standing(p) = {} /\ Shown(p) = {} /\ Parts(v) = {}
    BY <1>1 DEF Standing, Shown, Parts, Leaf
  <2> QED
    BY <2>1 DEF Under
<1>2. CASE v = Object([n \in DOMAIN v.members |-> v.members[n]])
  <2>1. v.kind = "object" /\ v.sd = <<>>
    BY <1>2, ObjectsAre
  <2> HIDE DEF v
  <2>2. Standing(p) = {}
    BY <2>1 DEF Standing, v
  <2>3. Shown(p) = {Place(Append(p.at, <<"member", n>>), v.members[n]) : n \in DOMAIN v.members}
    BY <2>1 DEF Shown, v
  <2>4. {q.value : q \in Shown(p)} = {v.members[n] : n \in DOMAIN v.members}
    <3>1. \A steps, u : Place(steps, u).value = u
      BY DEF Place
    <3>2. ASSUME NEW q \in Shown(p) PROVE \E n \in DOMAIN v.members : q.value = v.members[n]
      <4>1. PICK n \in DOMAIN v.members : q = Place(Append(p.at, <<"member", n>>), v.members[n])
        BY <2>3
      <4> QED
        BY <3>1, <4>1
    <3>3. ASSUME NEW n \in DOMAIN v.members PROVE \E q \in Shown(p) : q.value = v.members[n]
      <4>1. Place(Append(p.at, <<"member", n>>), v.members[n]) \in Shown(p)
        BY <2>3
      <4> QED
        BY <3>1, <4>1
    <3> QED
      BY <3>2, <3>3
  <2>5. Under(p, available) = Shown(p)
    BY <2>2 DEF Under
  <2> QED
    BY <2>1, <2>2, <2>4, <2>5 DEF Parts, v
<1>3. CASE v = Array([i \in DOMAIN v.items |-> v.items[i]]) /\ \A i \in DOMAIN v.items : ~Hidden(v, i)
  <2>1. v.kind = "array"
    BY <1>3 DEF Array
  <2> HIDE DEF v
  <2>2. Standing(p) = {}
    BY <1>3, <2>1 DEF Standing, v
  <2>3. Shown(p) = {Place(Append(p.at, <<"item", i>>), v.items[i]) : i \in DOMAIN v.items}
    BY <1>3, <2>1 DEF Shown, v
  <2>4. {q.value : q \in Shown(p)} = {v.items[i] : i \in DOMAIN v.items}
    <3>1. \A steps, u : Place(steps, u).value = u
      BY DEF Place
    <3>2. ASSUME NEW q \in Shown(p) PROVE \E i \in DOMAIN v.items : q.value = v.items[i]
      <4>1. PICK i \in DOMAIN v.items : q = Place(Append(p.at, <<"item", i>>), v.items[i])
        BY <2>3
      <4> QED
        BY <3>1, <4>1
    <3>3. ASSUME NEW i \in DOMAIN v.items PROVE \E q \in Shown(p) : q.value = v.items[i]
      <4>1. Place(Append(p.at, <<"item", i>>), v.items[i]) \in Shown(p)
        BY <2>3
      <4> QED
        BY <3>1, <4>1
    <3> QED
      BY <3>2, <3>3
  <2>5. Under(p, available) = Shown(p)
    BY <2>2 DEF Under
  <2> QED
    BY <2>1, <2>2, <2>4, <2>5 DEF Parts, v
<1> QED
  BY <1>1, <1>2, <1>3 DEF Built

\* What is built of parts that say themselves says itself.
LEMMA BuiltSays ==
  ASSUME NEW v, NEW available, NEW said, Built(v), \A u \in Parts(v) : said[u] = u
  PROVE  Put(v, available, said) = v
<1>1. CASE Leaf(v)
  BY <1>1 DEF Put, Leaf
<1>2. CASE v = Object([n \in DOMAIN v.members |-> v.members[n]])
  <2>1. v.kind = "object" /\ v.sd = <<>>
    BY <1>2, ObjectsAre
  <2>2. ToSet(v.sd) = {}
    BY <2>1 DEF ToSet
  <2>3. Put(v, available, said) = Object([n \in DOMAIN v.members |-> said[v.members[n]]])
    BY <2>1, <2>2 DEF Put
  <2>4. \A n \in DOMAIN v.members : said[v.members[n]] = v.members[n]
    BY <2>1 DEF Parts
  <2>5. [n \in DOMAIN v.members |-> said[v.members[n]]] = [n \in DOMAIN v.members |-> v.members[n]]
    BY <2>4
  <2> QED
    BY <1>2, <2>3, <2>5
<1>3. CASE v = Array([i \in DOMAIN v.items |-> v.items[i]]) /\ \A i \in DOMAIN v.items : ~Hidden(v, i)
  <2>1. v.kind = "array"
    BY <1>3 DEF Array
  <2>2. \A i \in DOMAIN v.items : said[v.items[i]] = v.items[i]
    BY <2>1 DEF Parts
  <2>3. Put(v, available, said) = Array([i \in DOMAIN v.items |-> v.items[i]])
    BY <1>3, <2>1, <2>2 DEF Put
  <2> QED
    BY <1>3, <2>3
<1> QED
  BY <1>1, <1>2, <1>3 DEF Built

\* Under what is built, the next level has the parts of this one.
LEMMA PartsAreBelow ==
  ASSUME NEW payload, NEW available, NEW n \in 0..MaxNesting,
         \A p \in Levels(payload, available)[n] : Built(p.value)
  PROVE  /\ \A q \in Levels(payload, available)[n + 1] :
              \E p \in Levels(payload, available)[n] : q.value \in Parts(p.value)
         /\ \A p \in Levels(payload, available)[n] : \A u \in Parts(p.value) :
              \E q \in Levels(payload, available)[n + 1] : q.value = u
         /\ \A p \in Levels(payload, available)[n] : Standing(p) = {}
<1> DEFINE L == Levels(payload, available)
<1>1. L[n + 1] = UNION {Under(p, available) : p \in L[n]}
  BY LevelsAre
<1>2. \A p \in L[n] : Standing(p) = {} /\ {q.value : q \in Under(p, available)} = Parts(p.value)
  BY BuiltStands
<1> HIDE DEF L
<1>3. ASSUME NEW q \in L[n + 1] PROVE \E p \in L[n] : q.value \in Parts(p.value)
  <2>1. PICK p \in L[n] : q \in Under(p, available)
    BY <1>1
  <2>2. q.value \in {r.value : r \in Under(p, available)}
    BY <2>1
  <2> QED
    BY <1>2, <2>2
<1>4. ASSUME NEW p \in L[n], NEW u \in Parts(p.value) PROVE \E q \in L[n + 1] : q.value = u
  <2>1. u \in {q.value : q \in Under(p, available)}
    BY <1>2
  <2>2. PICK q \in Under(p, available) : q.value = u
    BY <2>1
  <2> QED
    BY <1>1, <2>2
<1> QED
  BY <1>2, <1>3, <1>4 DEF L

\* Where a level is empty so are those below it.
LEMMA NothingBelowNothing ==
  ASSUME NEW payload, NEW available, NEW k \in 0..(MaxNesting + 1),
         Levels(payload, available)[k] = {}
  PROVE  \A n \in k..(MaxNesting + 1) : Levels(payload, available)[n] = {}
<1> DEFINE L == Levels(payload, available)
           Bare == {n \in Nat : n \in k..(MaxNesting + 1) => L[n] = {}}
<1>1. MaxNesting \in Nat
  BY NestingAssumption
<1>2. 0 \in Bare
  BY <1>1
<1>3. ASSUME NEW n \in Nat, n \in Bare PROVE n + 1 \in Bare
  <2> SUFFICES ASSUME n + 1 \in k..(MaxNesting + 1), n + 1 # k PROVE L[n + 1] = {}
    OBVIOUS
  <2>1. L[n] = {} /\ n \in 0..MaxNesting
    BY <1>1, <1>3
  <2>2. L[n + 1] = UNION {Under(p, available) : p \in L[n]}
    BY <2>1, LevelsAre
  <2> HIDE DEF L
  <2> QED
    BY <2>1, <2>2
<1>4. \A n \in Nat : n \in Bare
  <2> HIDE DEF Bare
  <2> QED
    BY <1>2, <1>3, UpFromZero
<1> QED
  BY <1>1, <1>4

\* Places that are built, of parts among them, say what is there.
LEMMA SayThemselves ==
  ASSUME NEW payload, NEW available, NEW S \in SUBSET Places(payload, available),
         \A p \in S : Built(p.value) /\ \A u \in Parts(p.value) : \E q \in S : q.value = u
  PROVE  \A n \in 0..MaxNesting, p \in S : Readings(payload, available)[n][p.value] = p.value
<1> DEFINE R == Readings(payload, available)
           Same == {n \in Nat : n \in 0..MaxNesting => \A p \in S : R[n][p.value] = p.value}
<1>1. MaxNesting \in Nat
  BY NestingAssumption
<1>2. 0 \in Same
  BY ReadingsAre
<1>3. ASSUME NEW n \in Nat, n \in Same PROVE n + 1 \in Same
  <2> SUFFICES ASSUME n + 1 \in 0..MaxNesting, NEW p \in S PROVE R[n + 1][p.value] = p.value
    OBVIOUS
  <2>1. R[n + 1][p.value] = Put(p.value, available, R[n])
    <3>1. n + 1 # 0 /\ (n + 1) - 1 = n
      OBVIOUS
    <3>2. R[n + 1][p.value] = Put(p.value, available, R[(n + 1) - 1])
      BY <3>1, ReadingsAre
    <3> QED
      BY <3>1, <3>2
  <2>2. \A q \in S : R[n][q.value] = q.value
    BY <1>1, <1>3
  <2>3. \A u \in Parts(p.value) : R[n][u] = u
    BY <2>2
  <2> HIDE DEF R
  <2> QED
    BY <2>1, <2>3, BuiltSays
<1>4. \A n \in Nat : n \in Same
  <2> HIDE DEF Same
  <2> QED
    BY <1>2, <1>3, UpFromZero
<1> QED
  BY <1>1, <1>4

\* A document with nothing hidden in it says itself.
LEMMA PlainDocument ==
  ASSUME NEW payload, NEW available, Plain3(payload)
  PROVE  /\ Slots(payload, available) = {} /\ Levels(payload, available)[MaxNesting + 1] = {}
         /\ Resolved(payload, available) = payload
<1> DEFINE L == Levels(payload, available)
           all == Places(payload, available)
<1>1. MaxNesting \in Nat /\ MaxNesting >= 4
  BY NestingAssumption
<1>2. L[0] = {Place(<<>>, payload)}
  BY LevelsAre
<1>3. \A n \in 0..MaxNesting : (\A p \in L[n] : Built(p.value)) =>
        /\ \A q \in L[n + 1] : \E p \in L[n] : q.value \in Parts(p.value)
        /\ \A p \in L[n] : \A u \in Parts(p.value) : \E q \in L[n + 1] : q.value = u
        /\ \A p \in L[n] : Standing(p) = {}
  BY PartsAreBelow
<1>4. all = UNION {L[n] : n \in 0..MaxNesting}
  BY DEF Places
<1>5. \A n \in 0..MaxNesting : L[n + 1] = UNION {Under(p, available) : p \in L[n]}
  BY LevelsAre
<1>6. \A k \in 0..(MaxNesting + 1) : L[k] = {} => \A n \in k..(MaxNesting + 1) : L[n] = {}
  BY NothingBelowNothing
<1> HIDE DEF L, all
<1>7. \A p \in L[0] : Plain3(p.value)
  BY <1>2 DEF Place
<1>8. \A p \in L[1] : Plain2(p.value)
  <2>1. \A q \in L[0 + 1] : \E p \in L[0] : q.value \in Parts(p.value)
    BY <1>1, <1>3, <1>7 DEF Plain3
  <2> QED
    BY <2>1, <1>7 DEF Plain3
<1>9. \A p \in L[2] : Plain1(p.value)
  <2>1. \A q \in L[1 + 1] : \E p \in L[1] : q.value \in Parts(p.value)
    BY <1>1, <1>3, <1>8 DEF Plain2
  <2> QED
    BY <2>1, <1>8 DEF Plain2
<1>10. \A p \in L[3] : Leaf(p.value)
  <2>1. \A q \in L[2 + 1] : \E p \in L[2] : q.value \in Parts(p.value)
    BY <1>1, <1>3, <1>9 DEF Plain1
  <2> QED
    BY <2>1, <1>9 DEF Plain1
<1>11. L[4] = {}
  <2>1. \A q \in L[3 + 1] : \E p \in L[3] : q.value \in Parts(p.value)
    <3>1. 3 \in 0..MaxNesting /\ \A p \in L[3] : Built(p.value)
      BY <1>1, <1>10, LeavesAre
    <3> QED
      BY <1>3, <3>1
  <2> QED
    BY <2>1, <1>10, LeavesAre
<1>12. \A n \in 4..(MaxNesting + 1) : L[n] = {}
  BY <1>1, <1>6, <1>11
<1>13. \A n \in 0..MaxNesting : \A p \in L[n] : Built(p.value)
  <2> SUFFICES ASSUME NEW n \in 0..MaxNesting, NEW p \in L[n] PROVE Built(p.value)
    OBVIOUS
  <2>1. n = 0 \/ n = 1 \/ n = 2 \/ n = 3 \/ n \in 4..(MaxNesting + 1)
    BY <1>1
  <2> QED
    BY <2>1, <1>7, <1>8, <1>9, <1>10, <1>12, LeavesAre DEF Plain3, Plain2, Plain1
<1>14. \A p \in all : Built(p.value) /\ Standing(p) = {}
  BY <1>3, <1>4, <1>13
<1>15. \A p \in all : \A u \in Parts(p.value) : \E q \in all : q.value = u
  <2> SUFFICES ASSUME NEW n \in 0..MaxNesting, NEW p \in L[n], NEW u \in Parts(p.value)
               PROVE  \E q \in all : q.value = u
    BY <1>4
  <2>1. PICK q \in L[n + 1] : q.value = u
    BY <1>3, <1>13
  <2>2. n + 1 \in 0..MaxNesting
    <3> SUFFICES ASSUME n = MaxNesting PROVE FALSE
      BY <1>1
    <3>1. n + 1 \in 4..(MaxNesting + 1)
      BY <1>1
    <3> QED
      BY <2>1, <3>1, <1>12
  <2> QED
    BY <1>4, <2>1, <2>2
<1>16. Slots(payload, available) = {}
  BY <1>14 DEF Slots, all
<1>17. Resolved(payload, available) = payload
  <2>1. Place(<<>>, payload) \in all /\ Place(<<>>, payload).value = payload
    BY <1>1, <1>2, <1>4 DEF Place
  <2>2. \A n \in 0..MaxNesting, p \in all : Readings(payload, available)[n][p.value] = p.value
    <3>1. all \in SUBSET Places(payload, available)
      BY DEF all
    <3> QED
      BY <1>14, <1>15, <3>1, SayThemselves
  <2> QED
    BY <1>1, <2>1, <2>2 DEF Resolved
<1>18. L[MaxNesting + 1] = {}
  BY <1>1, <1>12
<1> QED
  BY <1>16, <1>17, <1>18 DEF L
-----------------------------------------------------------------------------
(* Documents that hide one content, as the Desk issues them.               *)

\* The claims that issue.py signs, one by one.
LEMMA SdJwtClaimsAre ==
  ASSUME NEW e
  PROVE  /\ SdJwtClaims(e) = Object(SdJwtClaims(e).members)
         /\ DOMAIN SdJwtClaims(e).members = {"delegate_payload", "_sd_alg"}
         /\ SdJwtClaims(e).members["delegate_payload"] =
              Array(<<Placeholder(Digest(DEFAULT_SD_ALG, <<e>>))>>)
         /\ SdJwtClaims(e).members["_sd_alg"] = Text(DEFAULT_SD_ALG)
         /\ SdAlgKnown(SdJwtClaims(e)) /\ SdAlg(SdJwtClaims(e)) = DEFAULT_SD_ALG
<1> DEFINE M == [n \in {"delegate_payload", "_sd_alg"} |->
                   IF n = "_sd_alg" THEN Text(DEFAULT_SD_ALG)
                   ELSE Array(<<Placeholder(Digest(DEFAULT_SD_ALG, <<e>>))>>)]
<1>1. SdJwtClaims(e) = Object(M)
  BY DEF SdJwtClaims
<1>2. /\ DOMAIN M = {"delegate_payload", "_sd_alg"} /\ M["_sd_alg"] = Text(DEFAULT_SD_ALG)
      /\ M["delegate_payload"] = Array(<<Placeholder(Digest(DEFAULT_SD_ALG, <<e>>))>>)
  OBVIOUS
<1> HIDE DEF M
<1>3. SdJwtClaims(e).members = M
  BY <1>1, ObjectsAre
<1>4. Get(SdJwtClaims(e), "_sd_alg") = Text(DEFAULT_SD_ALG)
  BY <1>2, <1>3 DEF Get
<1>5. SdAlgKnown(SdJwtClaims(e)) /\ SdAlg(SdJwtClaims(e)) = DEFAULT_SD_ALG
  BY <1>4 DEF SdAlgKnown, SdAlg, DEFAULT_SD_ALG, HashAlgorithms, Text, Null
<1> QED
  BY <1>1, <1>2, <1>3, <1>5

\* The levels of a document that hides one content.
IssuedPlaces(e, content, w) ==
  LET payload == SdJwtClaims(e)
      L == Levels(payload, Available(w, DEFAULT_SD_ALG))
      within == Append(<<>>, <<"member", "delegate_payload">>)
      hides == Place(within, payload.members["delegate_payload"])
      slot == [at |-> Append(within, <<"item", 1>>), digest |-> Digest(DEFAULT_SD_ALG, <<e>>),
               role |-> "array", among |-> {}]
      algorithm == Place(Append(<<>>, <<"member", "_sd_alg">>), Text(DEFAULT_SD_ALG))
  IN  /\ L[0] = {Place(<<>>, payload)}
      /\ L[1] = {hides, algorithm}
      /\ L[2] = {Place(slot.at, content)}
      /\ Standing(Place(<<>>, payload)) = {}
      /\ Standing(hides) = {slot} /\ Standing(algorithm) = {}

\* The root, under it the placeholder's list and the hash, and under these the content.
LEMMA IssuedLevels ==
  ASSUME NEW e, NEW content, e.value = content, Plain1(content),
         NEW w, ToSet(Sent(w)) = {e}
  PROVE  IssuedPlaces(e, content, w)
<1> DEFINE payload == SdJwtClaims(e)
           M == payload.members
           a == Available(w, DEFAULT_SD_ALG)
           L == Levels(payload, a)
           d == Digest(DEFAULT_SD_ALG, <<e>>)
           within == Append(<<>>, <<"member", "delegate_payload">>)
           other == Append(<<>>, <<"member", "_sd_alg">>)
           root == Place(<<>>, payload)
           hides == Place(within, M["delegate_payload"])
           slot == [at |-> Append(within, <<"item", 1>>), digest |-> d, role |-> "array", among |-> {}]
           algorithm == Place(other, Text(DEFAULT_SD_ALG))
<1>1. L[0] = {root} /\ L[1] = UNION {Under(p, a) : p \in L[0]}
                    /\ L[2] = UNION {Under(p, a) : p \in L[1]}
  <2>1. 0 \in 0..MaxNesting /\ 1 \in 0..MaxNesting
    BY NestingAssumption
  <2>2. L[0 + 1] = UNION {Under(p, a) : p \in L[0]} /\ L[1 + 1] = UNION {Under(p, a) : p \in L[1]}
    <3>1. \A n \in 0..MaxNesting : L[n + 1] = UNION {Under(p, a) : p \in L[n]}
      BY LevelsAre
    <3> HIDE DEF L, a
    <3> QED
      BY <2>1, <3>1
  <2>3. L[0] = {root}
    BY LevelsAre
  <2> HIDE DEF L, root
  <2> QED
    BY <2>2, <2>3
<1>2. /\ payload = Object(M) /\ DOMAIN M = {"delegate_payload", "_sd_alg"}
      /\ M["delegate_payload"] = Array(<<Placeholder(d)>>) /\ M["_sd_alg"] = Text(DEFAULT_SD_ALG)
  BY SdJwtClaimsAre
<1>3. d \in DOMAIN a /\ a[d] = e
  BY AvailableIs
<1>4. Standing(root) = {} /\ Shown(root) = {hides, algorithm}
  <2>1. root.at = <<>> /\ root.value = payload
    BY DEF Place
  <2>2. payload.kind = "object" /\ payload.sd = <<>>
    BY <1>2, ObjectsAre
  <2> HIDE DEF payload
  <2>3. Standing(root) = {}
    BY <2>1, <2>2 DEF Standing
  <2>4. Shown(root) = {Place(Append(<<>>, <<"member", n>>), M[n]) : n \in DOMAIN M}
    BY <2>1, <2>2 DEF Shown
  <2>5. Place(Append(<<>>, <<"member", "_sd_alg">>), M["_sd_alg"]) = algorithm
    BY <1>2
  <2> HIDE DEF M
  <2>6. {Place(Append(<<>>, <<"member", n>>), M[n]) : n \in {"delegate_payload", "_sd_alg"}}
          = {hides, algorithm}
    <3> DEFINE F(n) == Place(Append(<<>>, <<"member", n>>), M[n])
    <3>1. F("delegate_payload") = hides /\ F("_sd_alg") = algorithm
      BY <2>5
    <3> HIDE DEF F, hides, algorithm
    <3>2. {F(n) : n \in {"delegate_payload", "_sd_alg"}} = {hides, algorithm}
      BY <3>1
    <3> QED
      BY <3>2 DEF F
  <2> QED
    BY <1>2, <2>3, <2>4, <2>6
<1>5. Standing(hides) = {slot} /\ Shown(hides) = {}
  <2>1. hides.at = within /\ hides.value = Array(<<Placeholder(d)>>)
    BY <1>2 DEF Place
  <2> DEFINE v == Array(<<Placeholder(d)>>)
  <2>2. /\ v.kind = "array" /\ DOMAIN v.items = {1} /\ Hidden(v, 1) /\ v.items[1].digest = d
    BY DEF Array, Placeholder, Hidden
  <2> HIDE DEF v, d, within
  <2>3. {j \in DOMAIN v.items : Hidden(v, j)} = {1} /\ {j \in DOMAIN v.items : ~Hidden(v, j)} = {}
    BY <2>2
  <2>4. hides.value = v /\ hides.at = within
    BY <2>1 DEF v
  <2> HIDE DEF hides
  <2>5. Standing(hides) = {slot}
    BY <2>2, <2>3, <2>4 DEF Standing
  <2>6. Shown(hides) = {}
    BY <2>2, <2>3, <2>4 DEF Shown
  <2> QED
    BY <2>5, <2>6
<1>6. Standing(algorithm) = {} /\ Shown(algorithm) = {}
  <2>1. algorithm.value.kind = "text"
    BY DEF Place, Text
  <2> QED
    BY <2>1 DEF Standing, Shown
<1>7. L[1] = {hides, algorithm}
  <2> HIDE DEF L, root, hides, algorithm
  <2>1. Under(root, a) = {hides, algorithm}
    BY <1>4 DEF Under
  <2> QED
    BY <1>1, <2>1
<1>8. L[2] = {Place(slot.at, content)}
  <2>1. {t \in {slot} : t.digest \in DOMAIN a} = {slot} /\ a[slot.digest].value = content
    BY <1>3
  <2> HIDE DEF L, hides, algorithm, slot, a
  <2>2. Under(hides, a) = {Place(slot.at, content)} /\ Under(algorithm, a) = {}
    BY <1>5, <1>6, <2>1 DEF Under
  <2> QED
    BY <1>1, <1>7, <2>2
<1> QED
  BY <1>1, <1>4, <1>5, <1>6, <1>7, <1>8 DEF IssuedPlaces

\* What is issued reads back: the one disclosure answers the one digest, and puts the
\* content where the digest stands.
LEMMA IssuedDocument ==
  ASSUME NEW e, e.is = "element", NEW content, e.value = content, Plain1(content),
         NEW w, ToSet(Sent(w)) = {e}
  PROVE  LET payload == SdJwtClaims(e)
             available == Available(w, DEFAULT_SD_ALG)
         IN  /\ Resolves(payload, available)
             /\ Resolved(payload, available) =
                  Object([n \in {"delegate_payload", "_sd_alg"} |->
                            IF n = "_sd_alg" THEN Text(DEFAULT_SD_ALG) ELSE Array(<<content>>)])
<1> DEFINE payload == SdJwtClaims(e)
           M == payload.members
           a == Available(w, DEFAULT_SD_ALG)
           L == Levels(payload, a)
           d == Digest(DEFAULT_SD_ALG, <<e>>)
           within == Append(<<>>, <<"member", "delegate_payload">>)
           root == Place(<<>>, payload)
           hides == Place(within, M["delegate_payload"])
           slot == [at |-> Append(within, <<"item", 1>>), digest |-> d, role |-> "array", among |-> {}]
           algorithm == Place(Append(<<>>, <<"member", "_sd_alg">>), Text(DEFAULT_SD_ALG))
           shown == Place(slot.at, content)
           all == Places(payload, a)
           R == Readings(payload, a)
<1>1. e.value = content /\ e.is = "element"
  OBVIOUS
<1>2. /\ L[0] = {root} /\ L[1] = {hides, algorithm} /\ L[2] = {shown}
      /\ Standing(root) = {} /\ Standing(hides) = {slot} /\ Standing(algorithm) = {}
  <2>1. IssuedPlaces(e, content, w)
    BY IssuedLevels
  <2> QED
    BY <2>1 DEF IssuedPlaces
<1>3. DOMAIN a = {d} /\ a[d] = e
  <2>1. DOMAIN a = {Digest(DEFAULT_SD_ALG, <<s>>) : s \in ToSet(Sent(w))}
    BY AvailableIs
  <2>2. \A s \in ToSet(Sent(w)) : a[Digest(DEFAULT_SD_ALG, <<s>>)] = s
    BY AvailableIs
  <2> HIDE DEF a
  <2> QED
    BY <2>1, <2>2
<1>4. /\ payload = Object(M) /\ DOMAIN M = {"delegate_payload", "_sd_alg"}
      /\ M["delegate_payload"] = Array(<<Placeholder(d)>>) /\ M["_sd_alg"] = Text(DEFAULT_SD_ALG)
  BY SdJwtClaimsAre
<1>5. shown.value = content /\ algorithm.value = Text(DEFAULT_SD_ALG)
      /\ hides.value = Array(<<Placeholder(d)>>) /\ root.value = payload
  BY <1>4 DEF Place
<1>6. slot.digest = d /\ slot.role = "array"
  OBVIOUS
<1>7. MaxNesting \in Nat /\ MaxNesting >= 4
  BY NestingAssumption
<1>8. Leaf(Text(DEFAULT_SD_ALG))
  BY DEF Leaf, Text
<1>9. \A n \in 0..MaxNesting : (\A p \in L[n] : Built(p.value)) =>
        /\ \A q \in L[n + 1] : \E p \in L[n] : q.value \in Parts(p.value)
        /\ \A p \in L[n] : \A u \in Parts(p.value) : \E q \in L[n + 1] : q.value = u
        /\ \A p \in L[n] : Standing(p) = {}
  BY PartsAreBelow
<1>10. \A k \in 0..(MaxNesting + 1) : L[k] = {} => \A n \in k..(MaxNesting + 1) : L[n] = {}
  BY NothingBelowNothing
<1>11. all = UNION {L[n] : n \in 0..MaxNesting}
  BY DEF Places
<1>12. Built(content) /\ \A u \in Parts(content) : Leaf(u)
  BY DEF Plain1
<1>13. Slots(payload, a) = UNION {Standing(p) : p \in all}
  BY DEF Slots
<1>14. all \in SUBSET Places(payload, a)
  OBVIOUS
<1> HIDE DEF L, a, all, root, hides, algorithm, shown, slot, d
<1>15. /\ \A q \in L[3] : q.value \in Parts(content)
       /\ \A u \in Parts(content) : \E q \in L[3] : q.value = u
       /\ Standing(shown) = {}
  <2>1. /\ \A q \in L[2 + 1] : \E p \in L[2] : q.value \in Parts(p.value)
        /\ \A p \in L[2] : \A u \in Parts(p.value) : \E q \in L[2 + 1] : q.value = u
        /\ \A p \in L[2] : Standing(p) = {}
    BY <1>2, <1>5, <1>7, <1>9, <1>12
  <2> QED
    BY <2>1, <1>2, <1>5
<1>16. \A q \in L[3] : Leaf(q.value) /\ Built(q.value) /\ Parts(q.value) = {}
  BY <1>12, <1>15, LeavesAre
<1>17. (\A q \in L[3] : Standing(q) = {}) /\ L[4] = {}
  <2>1. /\ \A q \in L[3 + 1] : \E p \in L[3] : q.value \in Parts(p.value)
        /\ \A p \in L[3] : Standing(p) = {}
    BY <1>7, <1>9, <1>16
  <2> QED
    BY <2>1, <1>16
<1>18. \A n \in 4..(MaxNesting + 1) : L[n] = {}
  BY <1>7, <1>10, <1>17
<1>19. all = {root, hides, algorithm, shown} \union L[3]
  <2>1. \A n \in 0..MaxNesting : n = 0 \/ n = 1 \/ n = 2 \/ n = 3 \/ L[n] = {}
    BY <1>7, <1>18
  <2>2. 0 \in 0..MaxNesting /\ 1 \in 0..MaxNesting /\ 2 \in 0..MaxNesting /\ 3 \in 0..MaxNesting
    BY <1>7
  <2>3. all \subseteq {root, hides, algorithm, shown} \union L[3]
    BY <1>2, <1>11, <2>1
  <2>4. {root, hides, algorithm, shown} \union L[3] \subseteq all
    BY <1>2, <1>11, <2>2
  <2> QED
    BY <2>3, <2>4
<1>20. Slots(payload, a) = {slot}
  BY <1>2, <1>13, <1>15, <1>17, <1>19
<1>21. Resolves(payload, a)
  <2>1. {s.digest : s \in Slots(payload, a)} = {d}
    BY <1>6, <1>20
  <2>2. Fits(Slots(payload, a), a)
    BY <1>1, <1>3, <1>6, <1>20 DEF Fits
  <2>3. L[MaxNesting + 1] = {}
    BY <1>7, <1>18
  <2> QED
    BY <1>3, <1>20, <2>1, <2>2, <2>3 DEF Resolves, L
<1>22. \A n \in 0..MaxNesting : R[n][content] = content /\ R[n][Text(DEFAULT_SD_ALG)] = Text(DEFAULT_SD_ALG)
  <2> DEFINE S == {algorithm, shown} \union L[3]
  <2>1. \A p \in S : Built(p.value) /\ \A u \in Parts(p.value) : \E q \in S : q.value = u
    <3>1. Built(algorithm.value) /\ Parts(algorithm.value) = {}
      BY <1>5, <1>8, LeavesAre
    <3> QED
      BY <3>1, <1>5, <1>12, <1>15, <1>16
  <2>2. S \in SUBSET Places(payload, a)
    BY <1>14, <1>19
  <2> HIDE DEF S
  <2>3. \A n \in 0..MaxNesting, p \in S : R[n][p.value] = p.value
    BY <2>1, <2>2, SayThemselves
  <2> QED
    BY <1>5, <2>3 DEF S
<1>23. \A n \in 0..MaxNesting : n # 0 =>
         R[n][M["delegate_payload"]] = Array(<<content>>)
  <2> SUFFICES ASSUME NEW n \in 0..MaxNesting, n # 0
               PROVE  R[n][M["delegate_payload"]] = Array(<<content>>)
    OBVIOUS
  <2> DEFINE v == Array(<<Placeholder(d)>>)
  <2>1. R[n][hides.value] = Put(hides.value, a, R[n - 1])
    BY <1>14, <1>19, ReadingsAre
  <2>2. R[n - 1][content] = content
    BY <1>7, <1>22
  <2>3. /\ v.kind = "array" /\ v.items = <<Placeholder(d)>> /\ Hidden(v, 1)
        /\ v.items[1].digest = d
    BY DEF Array, Placeholder, Hidden
  <2> HIDE DEF v, R
  <2>4. DOMAIN v.items = {1} /\ v.items[1].digest \in DOMAIN a /\ a[v.items[1].digest].value = content
    BY <1>1, <1>3, <2>3
  <2>5. Put(v, a, R[n - 1]) = Array([i \in {1} |-> content])
    BY <2>2, <2>3, <2>4 DEF Put
  <2>6. [i \in {1} |-> content] = <<content>>
    OBVIOUS
  <2> QED
    BY <1>4, <1>5, <2>1, <2>5, <2>6 DEF v
<1>24. Resolved(payload, a) =
         Object([n \in {"delegate_payload", "_sd_alg"} |->
                   IF n = "_sd_alg" THEN Text(DEFAULT_SD_ALG) ELSE Array(<<content>>)])
  <2>1. R[MaxNesting][root.value] = Put(root.value, a, R[MaxNesting - 1])
    <3>1. MaxNesting \in 0..MaxNesting /\ MaxNesting # 0
      BY <1>7
    <3> QED
      BY <1>14, <1>19, <3>1, ReadingsAre
  <2>2. /\ R[MaxNesting - 1][M["delegate_payload"]] = Array(<<content>>)
        /\ R[MaxNesting - 1][M["_sd_alg"]] = Text(DEFAULT_SD_ALG)
    BY <1>4, <1>7, <1>22, <1>23
  <2>3. payload.kind = "object" /\ payload.sd = <<>>
    BY <1>4, ObjectsAre
  <2>4. ToSet(payload.sd) = {}
    BY <2>3 DEF ToSet
  <2> HIDE DEF R
  <2>5. Put(payload, a, R[MaxNesting - 1]) = Object([n \in DOMAIN M |-> R[MaxNesting - 1][M[n]]])
    BY <2>3, <2>4 DEF Put
  <2>6. [n \in DOMAIN M |-> R[MaxNesting - 1][M[n]]]
          = [n \in {"delegate_payload", "_sd_alg"} |->
               IF n = "_sd_alg" THEN Text(DEFAULT_SD_ALG) ELSE Array(<<content>>)]
    BY <1>4, <2>2
  <2> QED
    BY <1>5, <2>1, <2>5, <2>6 DEF Resolved, R
<1> QED
  BY <1>21, <1>24 DEF a
-----------------------------------------------------------------------------
(* Closed deals.                                                           *)

\* What the Desk writes of the terms has nothing hidden in it.
LEMMA LeavesArePlain ==
  ASSUME NEW v
  PROVE  (Leaf(v) => Plain1(v)) /\ (Plain1(v) => Plain2(v)) /\ (Plain2(v) => Plain3(v))
<1>1. Leaf(v) => Plain1(v)
  BY LeavesAre DEF Plain1
<1>2. \A u : Leaf(u) => Plain1(u)
  BY LeavesAre DEF Plain1
<1>3. Plain1(v) => Plain2(v)
  BY <1>2 DEF Plain1, Plain2
<1>4. Plain2(v) => Plain3(v)
  <2>1. \A u : Plain1(u) => Plain2(u)
    BY <1>2 DEF Plain1, Plain2
  <2> QED
    BY <2>1 DEF Plain2, Plain3
<1> QED
  BY <1>1, <1>3, <1>4

\* An object of plain values is plain, one level up.
LEMMA ObjectsArePlain ==
  ASSUME NEW members, members = [n \in DOMAIN members |-> members[n]]
  PROVE  LET v == Object(members)
         IN  /\ (\A n \in DOMAIN members : Leaf(members[n])) => Plain1(v)
             /\ (\A n \in DOMAIN members : Plain1(members[n])) => Plain2(v)
             /\ (\A n \in DOMAIN members : Plain2(members[n])) => Plain3(v)
<1> DEFINE v == Object(members)
<1>1. v.kind = "object" /\ v.members = members
  BY ObjectsAre
<1>2. Built(v)
  BY <1>1 DEF Built
<1>3. Parts(v) = {members[n] : n \in DOMAIN members}
  BY <1>1 DEF Parts
<1> HIDE DEF v
<1>4. (\A n \in DOMAIN members : Leaf(members[n])) => Plain1(v)
  BY <1>2, <1>3 DEF Plain1
<1>5. (\A n \in DOMAIN members : Plain1(members[n])) => Plain2(v)
  BY <1>2, <1>3 DEF Plain2
<1>6. (\A n \in DOMAIN members : Plain2(members[n])) => Plain3(v)
  BY <1>2, <1>3 DEF Plain3
<1> QED
  BY <1>4, <1>5, <1>6 DEF v

\* And so is an array of objects.
LEMMA ArraysArePlain ==
  ASSUME NEW items, items = [i \in DOMAIN items |-> items[i]],
         \A i \in DOMAIN items : Plain1(items[i]) /\ items[i].kind = "object"
  PROVE  Plain2(Array(items))
<1> DEFINE v == Array(items)
<1>1. v.kind = "array" /\ v.items = items
  BY DEF Array
<1>2. \A i \in DOMAIN items : ~Hidden(v, i)
  BY <1>1 DEF Hidden
<1>3. Built(v)
  BY <1>1, <1>2 DEF Built
<1>4. Parts(v) = {items[i] : i \in DOMAIN items}
  BY <1>1 DEF Parts
<1> HIDE DEF v
<1> QED
  BY <1>3, <1>4 DEF Plain2, v

\* The claims of a checkout, its items' and its charges'.
ItemClaims(item) ==
  Object([id |-> Text(item.id), quantity |-> Number(item.quantity),
          unit_price |-> Amount(item.unit_price)])
ChargeClaims(charge) == Object([label |-> Text(charge.label), amount |-> Amount(charge.amount)])
Written(c) == CheckoutClaims(c).members
ClaimNames == {"merchant", "open_checkout", "currency", "line_items", "charges", "terms",
               "total", "agreed_at"}

\* What the Desk writes for each.
LEMMA ClaimsAre ==
  ASSUME NEW c
  PROVE  /\ CheckoutClaims(c) = Object(Written(c))
         /\ DOMAIN Written(c) = ClaimNames /\ Written(c) = [n \in ClaimNames |-> Written(c)[n]]
         /\ Written(c).merchant = Text("desk") /\ Written(c).open_checkout = c.open_checkout
         /\ Written(c).currency = Text(c.currency)
         /\ Written(c).line_items = Array([i \in DOMAIN c.items |-> ItemClaims(c.items[i])])
         /\ Written(c).charges = Array([i \in DOMAIN c.charges |-> ChargeClaims(c.charges[i])])
         /\ Written(c).terms = Object([n \in DOMAIN c.terms |-> Text(c.terms[n])])
         /\ Written(c).total = Amount(Total(c))
         /\ Written(c).agreed_at = Number(Seconds(c.agreed_at))
<1> DEFINE I == Array([i \in DOMAIN c.items |-> ItemClaims(c.items[i])])
           C == Array([i \in DOMAIN c.charges |-> ChargeClaims(c.charges[i])])
           T == Object([n \in DOMAIN c.terms |-> Text(c.terms[n])])
           t == Amount(Total(c))
           a == Number(Seconds(c.agreed_at))
           M == [merchant |-> Text("desk"), open_checkout |-> c.open_checkout,
                 currency |-> Text(c.currency), line_items |-> I, charges |-> C, terms |-> T,
                 total |-> t, agreed_at |-> a]
<1>1. CheckoutClaims(c) = Object(M)
  BY DEF CheckoutClaims, ItemClaims, ChargeClaims
<1> HIDE DEF I, C, T, t, a
<1>2. /\ DOMAIN M = ClaimNames /\ M = [n \in ClaimNames |-> M[n]]
      /\ M.merchant = Text("desk") /\ M.open_checkout = c.open_checkout
      /\ M.currency = Text(c.currency) /\ M.line_items = I /\ M.charges = C /\ M.terms = T
      /\ M.total = t /\ M.agreed_at = a
  BY DEF ClaimNames
<1> HIDE DEF M
<1>3. Written(c) = M
  BY <1>1, ObjectsAre DEF Written
<1> QED
  BY <1>1, <1>2, <1>3 DEF I, C, T, t, a

\* The claims of a checkout hide nothing and are three levels deep.
LEMMA CheckoutIsPlain ==
  ASSUME NEW c, IsCheckout(c)
  PROVE  Plain3(CheckoutClaims(c))
<1> DEFINE M == Written(c)
           I == [i \in DOMAIN c.items |-> ItemClaims(c.items[i])]
           C == [i \in DOMAIN c.charges |-> ChargeClaims(c.charges[i])]
           T == [n \in DOMAIN c.terms |-> Text(c.terms[n])]
<1>1. \A t : Leaf(Text(t)) /\ Leaf(Number(t)) /\ Leaf(Amount(t))
  BY DEF Leaf, Text, Number, Amount
<1>2. \A item : Plain1(ItemClaims(item)) /\ ItemClaims(item).kind = "object"
  <2> SUFFICES ASSUME NEW item
               PROVE  Plain1(ItemClaims(item)) /\ ItemClaims(item).kind = "object"
    OBVIOUS
  <2> DEFINE a == Text(item.id)
             b == Number(item.quantity)
             d == Amount(item.unit_price)
             m == [id |-> a, quantity |-> b, unit_price |-> d]
  <2>1. Leaf(a) /\ Leaf(b) /\ Leaf(d)
    BY <1>1
  <2>2. ItemClaims(item) = Object(m)
    BY DEF ItemClaims
  <2> HIDE DEF a, b, d
  <2>3. m = [n \in DOMAIN m |-> m[n]] /\ \A n \in DOMAIN m : Leaf(m[n])
    BY <2>1
  <2> HIDE DEF m
  <2> QED
    BY <2>2, <2>3, ObjectsArePlain, ObjectsAre
<1>3. \A charge : Plain1(ChargeClaims(charge)) /\ ChargeClaims(charge).kind = "object"
  <2> SUFFICES ASSUME NEW charge
               PROVE  Plain1(ChargeClaims(charge)) /\ ChargeClaims(charge).kind = "object"
    OBVIOUS
  <2> DEFINE a == Text(charge.label)
             b == Amount(charge.amount)
             m == [label |-> a, amount |-> b]
  <2>1. Leaf(a) /\ Leaf(b)
    BY <1>1
  <2>2. ChargeClaims(charge) = Object(m)
    BY DEF ChargeClaims
  <2> HIDE DEF a, b
  <2>3. m = [n \in DOMAIN m |-> m[n]] /\ \A n \in DOMAIN m : Leaf(m[n])
    BY <2>1
  <2> HIDE DEF m
  <2> QED
    BY <2>2, <2>3, ObjectsArePlain, ObjectsAre
<1>4. Plain2(Array(I))
  <2>1. I = [i \in DOMAIN I |-> I[i]]
    OBVIOUS
  <2>2. \A i \in DOMAIN I : Plain1(I[i]) /\ I[i].kind = "object"
    BY <1>2
  <2> HIDE DEF I
  <2> QED
    BY <2>1, <2>2, ArraysArePlain
<1>5. Plain2(Array(C))
  <2>1. C = [i \in DOMAIN C |-> C[i]]
    OBVIOUS
  <2>2. \A i \in DOMAIN C : Plain1(C[i]) /\ C[i].kind = "object"
    BY <1>3
  <2> HIDE DEF C
  <2> QED
    BY <2>1, <2>2, ArraysArePlain
<1>6. Plain2(Object(T))
  <2>1. T = [n \in DOMAIN T |-> T[n]] /\ \A n \in DOMAIN T : Leaf(T[n])
    BY <1>1
  <2> HIDE DEF T
  <2>2. Plain1(Object(T))
    BY <2>1, ObjectsArePlain
  <2> QED
    BY <2>2, LeavesArePlain
<1>7. Leaf(c.open_checkout)
  BY DEF IsCheckout, IsText, Leaf
<1>8. /\ CheckoutClaims(c) = Object(M) /\ DOMAIN M = ClaimNames /\ M = [n \in ClaimNames |-> M[n]]
      /\ M.merchant = Text("desk") /\ M.open_checkout = c.open_checkout
      /\ M.currency = Text(c.currency) /\ M.line_items = Array(I) /\ M.charges = Array(C)
      /\ M.terms = Object(T) /\ M.total = Amount(Total(c))
      /\ M.agreed_at = Number(Seconds(c.agreed_at))
  BY ClaimsAre
<1> HIDE DEF M, I, C, T
<1>9. \A v : Leaf(v) => Plain2(v)
  BY LeavesArePlain
<1>10. \A n \in ClaimNames : Plain2(M[n])
  <2>1. /\ Plain2(M.merchant) /\ Plain2(M.open_checkout) /\ Plain2(M.currency)
        /\ Plain2(M.total) /\ Plain2(M.agreed_at)
    BY <1>1, <1>7, <1>8, <1>9
  <2>2. Plain2(M.line_items) /\ Plain2(M.charges) /\ Plain2(M.terms)
    BY <1>4, <1>5, <1>6, <1>8
  <2> HIDE DEF M
  <2> QED
    BY <2>1, <2>2 DEF ClaimNames
<1> QED
  BY <1>8, <1>10, ObjectsArePlain

\* An instant survives the documents to the second.
LEMMA WholeSeconds ==
  ASSUME NEW t \in Int
  PROVE  /\ Seconds(t) \in Int /\ Seconds(t) * TicksPerSecond \in Int
         /\ Seconds(Seconds(t) * TicksPerSecond) = Seconds(t)
<1> DEFINE T == TicksPerSecond
           q == Seconds(t)
<1>1. T \in Nat /\ T > 0
  BY TicksAssumption
<1>2. q \in Int /\ q * T \in Int
  BY <1>1 DEF Seconds
<1>3. (q * T) \div T = q
  <2> HIDE DEF q, T
  <2> QED
    BY <1>1, <1>2
<1> QED
  BY <1>2, <1>3 DEF Seconds

\* Terms as they come back: to the second.
ToTheSecond(c) == [c EXCEPT !.agreed_at = Seconds(@) * TicksPerSecond]

\* Cutting an instant to the second changes neither what is written nor what it comes to.
LEMMA ToTheSecondIs ==
  ASSUME NEW c, IsCheckout(c)
  PROVE  /\ ToTheSecond(c) = [open_checkout |-> c.open_checkout, currency |-> c.currency,
                             items |-> c.items, charges |-> c.charges, terms |-> c.terms,
                             agreed_at |-> Seconds(c.agreed_at) * TicksPerSecond]
         /\ Total(ToTheSecond(c)) = Total(c)
         /\ CheckoutClaims(ToTheSecond(c)) = CheckoutClaims(c)
<1> DEFINE r == ToTheSecond(c)
           o == c.open_checkout
           u == c.currency
           i == c.items
           h == c.charges
           m == c.terms
           a == c.agreed_at
           s == Seconds(a) * TicksPerSecond
<1>1. c = [open_checkout |-> o, currency |-> u, items |-> i, charges |-> h, terms |-> m,
           agreed_at |-> a]
  BY DEF IsCheckout
<1>2. r = [c EXCEPT !.agreed_at = s]
  BY DEF ToTheSecond
<1>3. a \in Int /\ Seconds(s) = Seconds(a)
  BY WholeSeconds DEF IsCheckout
<1> HIDE DEF r, o, u, i, h, m, a, s
<1>4. r = [open_checkout |-> o, currency |-> u, items |-> i, charges |-> h, terms |-> m,
           agreed_at |-> s]
  BY <1>1, <1>2
<1>5. /\ r.open_checkout = c.open_checkout /\ r.currency = c.currency /\ r.items = c.items
      /\ r.charges = c.charges /\ r.terms = c.terms /\ r.agreed_at = s
  BY <1>4 DEF o, u, i, h, m
<1>6. Total(r) = Total(c)
  BY <1>5 DEF Total
<1>7. CheckoutClaims(r) = CheckoutClaims(c)
  BY <1>3, <1>5, <1>6 DEF CheckoutClaims, a
<1> QED
  BY <1>4, <1>6, <1>7 DEF r, o, u, i, h, m, a, s

\* The terms written are the terms read.
LEMMA TermsReadBack ==
  ASSUME NEW c, IsCheckout(c)
  PROVE  CheckoutOf(CheckoutClaims(c)) = ToTheSecond(c)
<1> DEFINE of == Written(c)
<1>1. CheckoutClaims(c).members = of
  BY DEF Written
<1>2. of.currency.text = c.currency
  <2>1. of.currency = Text(c.currency)
    BY ClaimsAre
  <2> QED
    BY <2>1 DEF Text
<1>3. of.agreed_at.number = Seconds(c.agreed_at)
  <2>1. of.agreed_at = Number(Seconds(c.agreed_at))
    BY ClaimsAre
  <2> QED
    BY <2>1 DEF Number
<1>4. [i \in DOMAIN of.line_items.items |->
         LET item == of.line_items.items[i].members
         IN  [id |-> item.id.text, quantity |-> item.quantity.number,
              unit_price |-> item.unit_price.amount]] = c.items
  <2> DEFINE I == [i \in DOMAIN c.items |-> ItemClaims(c.items[i])]
  <2>1. of.line_items.items = I
    <3>1. of.line_items = Array(I)
      BY ClaimsAre
    <3> HIDE DEF I, of
    <3> QED
      BY <3>1 DEF Array
  <2>2. \A item : /\ ItemClaims(item).members.id.text = item.id
                  /\ ItemClaims(item).members.quantity.number = item.quantity
                  /\ ItemClaims(item).members.unit_price.amount = item.unit_price
    <3> SUFFICES ASSUME NEW item
                 PROVE  /\ ItemClaims(item).members.id.text = item.id
                        /\ ItemClaims(item).members.quantity.number = item.quantity
                        /\ ItemClaims(item).members.unit_price.amount = item.unit_price
      OBVIOUS
    <3> DEFINE m == [id |-> Text(item.id), quantity |-> Number(item.quantity),
                     unit_price |-> Amount(item.unit_price)]
    <3>1. ItemClaims(item).members = m
      BY ObjectsAre DEF ItemClaims
    <3> QED
      BY <3>1 DEF Text, Number, Amount
  <2>3. \A i \in DOMAIN c.items :
          LET item == I[i].members
          IN  [id |-> item.id.text, quantity |-> item.quantity.number,
               unit_price |-> item.unit_price.amount]
                = [id |-> c.items[i].id, quantity |-> c.items[i].quantity,
                   unit_price |-> c.items[i].unit_price]
    BY <2>2
  <2>4. c.items = [i \in DOMAIN c.items |->
                    [id |-> c.items[i].id, quantity |-> c.items[i].quantity,
                     unit_price |-> c.items[i].unit_price]]
    BY DEF IsCheckout
  <2>5. DOMAIN I = DOMAIN c.items
    OBVIOUS
  <2> HIDE DEF I, of
  <2>6. [i \in DOMAIN I |->
         LET item == I[i].members
         IN  [id |-> item.id.text, quantity |-> item.quantity.number,
              unit_price |-> item.unit_price.amount]]
          = [i \in DOMAIN c.items |->
                    [id |-> c.items[i].id, quantity |-> c.items[i].quantity,
                     unit_price |-> c.items[i].unit_price]]
    BY <2>3, <2>5
  <2> QED
    BY <2>1, <2>4, <2>6
<1>5. [i \in DOMAIN of.charges.items |->
         LET charge == of.charges.items[i].members
         IN  [label |-> charge.label.text, amount |-> charge.amount.amount]] = c.charges
  <2> DEFINE I == [i \in DOMAIN c.charges |-> ChargeClaims(c.charges[i])]
  <2>1. of.charges.items = I
    <3>1. of.charges = Array(I)
      BY ClaimsAre
    <3> HIDE DEF I, of
    <3> QED
      BY <3>1 DEF Array
  <2>2. \A charge : /\ ChargeClaims(charge).members.label.text = charge.label
                    /\ ChargeClaims(charge).members.amount.amount = charge.amount
    <3> SUFFICES ASSUME NEW charge
                 PROVE  /\ ChargeClaims(charge).members.label.text = charge.label
                        /\ ChargeClaims(charge).members.amount.amount = charge.amount
      OBVIOUS
    <3> DEFINE m == [label |-> Text(charge.label), amount |-> Amount(charge.amount)]
    <3>1. ChargeClaims(charge).members = m
      BY ObjectsAre DEF ChargeClaims
    <3> QED
      BY <3>1 DEF Text, Amount
  <2>3. \A i \in DOMAIN c.charges :
          LET charge == I[i].members
          IN  [label |-> charge.label.text, amount |-> charge.amount.amount]
                = [label |-> c.charges[i].label, amount |-> c.charges[i].amount]
    BY <2>2
  <2>4. c.charges = [i \in DOMAIN c.charges |->
                      [label |-> c.charges[i].label, amount |-> c.charges[i].amount]]
    BY DEF IsCheckout
  <2>5. DOMAIN I = DOMAIN c.charges
    OBVIOUS
  <2> HIDE DEF I, of
  <2>6. [i \in DOMAIN I |->
         LET charge == I[i].members
         IN  [label |-> charge.label.text, amount |-> charge.amount.amount]]
          = [i \in DOMAIN c.charges |->
                      [label |-> c.charges[i].label, amount |-> c.charges[i].amount]]
    BY <2>3, <2>5
  <2> QED
    BY <2>1, <2>4, <2>6
<1>6. [n \in DOMAIN of.terms.members |-> of.terms.members[n].text] = c.terms
  <2> DEFINE T == [n \in DOMAIN c.terms |-> Text(c.terms[n])]
  <2>1. of.terms.members = T
    BY ClaimsAre, ObjectsAre
  <2>2. \A n \in DOMAIN c.terms : T[n].text = c.terms[n]
    BY DEF Text
  <2>3. c.terms = [n \in DOMAIN c.terms |-> c.terms[n]] /\ DOMAIN T = DOMAIN c.terms
    BY DEF IsCheckout
  <2> HIDE DEF T, of
  <2> QED
    BY <2>1, <2>2, <2>3
<1>7. of.open_checkout = c.open_checkout
  BY ClaimsAre
<1> HIDE DEF of
<1>8. CheckoutOf(CheckoutClaims(c))
        = [open_checkout |-> c.open_checkout, currency |-> c.currency,
           items |-> c.items, charges |-> c.charges, terms |-> c.terms,
           agreed_at |-> Seconds(c.agreed_at) * TicksPerSecond]
  BY <1>1, <1>2, <1>3, <1>4, <1>5, <1>6, <1>7, Zenon DEF CheckoutOf
<1> QED
  BY <1>8, ToTheSecondIs

\* Taking away a member that is not there.
LEMMA WithoutNothing ==
  ASSUME NEW v, NEW name, v = Object(v.members), v.members = [n \in DOMAIN v.members |-> v.members[n]],
         name \notin DOMAIN v.members
  PROVE  Without(v, name) = v
<1> DEFINE M == v.members
<1>1. DOMAIN M \ {name} = DOMAIN M
  OBVIOUS
<1>2. [n \in DOMAIN M \ {name} |-> M[n]] = M
  BY <1>1
<1>3. v = [kind |-> "object", members |-> M, sd |-> <<>>]
  BY DEF Object, Hiding
<1> HIDE DEF M
<1>4. [v EXCEPT !.members = M] = v
  BY <1>3
<1> QED
  BY <1>2, <1>4 DEF Without, M

\* The inner document of a closing says what was written in it.
LEMMA InnerSays ==
  ASSUME NEW c, IsCheckout(c)
  PROVE  LET inner == InnerJws(c, DeskMandateKey)
         IN  /\ inner.payload = CheckoutClaims(c)
             /\ \A w : w[1] = inner => Presented(w).claims = CheckoutClaims(c)
<1> DEFINE inner == InnerJws(c, DeskMandateKey)
           p == CheckoutClaims(c)
<1>1. inner.payload = p
  BY DEF InnerJws, Jws
<1>2. Without(p, "_sd_alg") = p
  <2>1. p = Object(p.members) /\ DOMAIN p.members = ClaimNames
        /\ p.members = [n \in DOMAIN p.members |-> p.members[n]]
    BY ClaimsAre DEF Written
  <2>2. "_sd_alg" \notin ClaimNames
    BY DEF ClaimNames
  <2> HIDE DEF p
  <2> QED
    BY <2>1, <2>2, WithoutNothing
<1>3. \A a : Resolved(p, a) = p
  BY CheckoutIsPlain, PlainDocument
<1> HIDE DEF inner, p
<1>4. ASSUME NEW w, w[1] = inner PROVE Presented(w).claims = p
  BY <1>1, <1>2, <1>3, <1>4 DEF Presented, IssuerJws
<1> QED
  BY <1>1, <1>4 DEF inner, p

\* What a closing's one disclosure holds (close_checkout).
ContentOf(d) ==
  LET encoded == Encoded(InnerJws(d.checkout, DeskMandateKey))
  IN  Object([vct |-> Text(CLOSED_CHECKOUT_VCT), checkout_jwt |-> encoded,
              checkout_hash |-> DigestText(HashOf(encoded)), iat |-> Number(d.issued_at)])

\* It is an object of leaves, and carries the inner document.
LEMMA ContentIs ==
  ASSUME NEW d
  PROVE  /\ Plain1(ContentOf(d)) /\ ContentOf(d).kind = "object"
         /\ Get(ContentOf(d), "checkout_jwt") = Encoded(InnerJws(d.checkout, DeskMandateKey))
<1> DEFINE encoded == Encoded(InnerJws(d.checkout, DeskMandateKey))
           v == Text(CLOSED_CHECKOUT_VCT)
           h == DigestText(HashOf(encoded))
           a == Number(d.issued_at)
           M == [vct |-> v, checkout_jwt |-> encoded, checkout_hash |-> h, iat |-> a]
<1>1. Leaf(encoded) /\ Leaf(v) /\ Leaf(h) /\ Leaf(a)
  BY DEF Leaf, Encoded, Text, DigestText, Number
<1>2. ContentOf(d) = Object(M)
  BY DEF ContentOf
<1> HIDE DEF encoded, v, h, a
<1>3. /\ M = [n \in DOMAIN M |-> M[n]] /\ (\A n \in DOMAIN M : Leaf(M[n]))
      /\ "checkout_jwt" \in DOMAIN M /\ M["checkout_jwt"] = encoded
  BY <1>1
<1> HIDE DEF M
<1>4. Object(M).members = M /\ Object(M).kind = "object"
  BY ObjectsAre
<1>5. Plain1(Object(M))
  BY <1>3, ObjectsArePlain
<1>6. Get(Object(M), "checkout_jwt") = encoded
  BY <1>3, <1>4 DEF Get
<1> QED
  BY <1>2, <1>4, <1>5, <1>6 DEF encoded

\* A deal's parts are the signed claims and the one disclosure.
LEMMA ClosingIs ==
  ASSUME DealsAreClosings, NEW d \in Deals
  PROVE  /\ IsCheckout(d.checkout)
         /\ d.jws.payload = SdJwtClaims(Element(d.salt, ContentOf(d)))
         /\ d.parts = {Element(d.salt, ContentOf(d))}
<1> DEFINE e == Element(d.salt, ContentOf(d))
           header == Header(MANDATE_ALG, "example+sd-jwt", "desk")
           jws == Jws(header, SdJwtClaims(e), DeskMandateKey, "first")
           closing == CloseCheckout(d.checkout, d.salt, DeskMandateKey, d.issued_at)
<1>1. closing = <<jws, e, Nothing>>
  BY DEF CloseCheckout, Issue, Present, ContentOf
<1>2. d.jws = closing[1] /\ d.parts = {closing[2]} /\ IsCheckout(d.checkout)
  BY DEF DealsAreClosings
<1>3. jws.payload = SdJwtClaims(e)
  BY DEF Jws
<1> HIDE DEF e, jws, closing
<1> QED
  BY <1>1, <1>2, <1>3 DEF e

\* Its claims are the one content, where they are read from.
LEMMA IssuedSays ==
  ASSUME NEW e, e.is = "element", NEW content, e.value = content, Plain1(content),
         NEW w, ToSet(Sent(w)) = {e}, IssuerJws(w).payload = SdJwtClaims(e)
  PROVE  /\ Content(Presented(w).claims) = content
         /\ content.kind = "object" => HasContent(Presented(w).claims)
<1> DEFINE p == SdJwtClaims(e)
           said == Object([n \in {"delegate_payload", "_sd_alg"} |->
                             IF n = "_sd_alg" THEN Text(DEFAULT_SD_ALG) ELSE Array(<<content>>)])
<1>1. SdAlg(p) = DEFAULT_SD_ALG
  BY SdJwtClaimsAre
<1>2. Resolved(p, Available(w, DEFAULT_SD_ALG)) = said
  BY IssuedDocument
<1>3. Presented(w).claims = Without(said, "_sd_alg")
  <2> HIDE DEF said, p
  <2> QED
    BY <1>1, <1>2 DEF Presented, p
<1>4. Get(Without(said, "_sd_alg"), "delegate_payload") = Array(<<content>>)
  <2> DEFINE a == Array(<<content>>)
             t == Text(DEFAULT_SD_ALG)
             M == [n \in {"delegate_payload", "_sd_alg"} |-> IF n = "_sd_alg" THEN t ELSE a]
  <2> HIDE DEF a, t
  <2>1. "delegate_payload" \in DOMAIN M \ {"_sd_alg"} /\ M["delegate_payload"] = a
    OBVIOUS
  <2>2. said = [kind |-> "object", members |-> M, sd |-> <<>>]
    BY DEF Object, Hiding, a, t
  <2> HIDE DEF M, said
  <2>3. Without(said, "_sd_alg").members = [n \in DOMAIN M \ {"_sd_alg"} |-> M[n]]
    BY <2>2 DEF Without
  <2> QED
    BY <2>1, <2>3 DEF Get, a
<1>5. /\ Array(<<content>>) # Null /\ Array(<<content>>).kind = "array"
      /\ Len(Array(<<content>>).items) = 1 /\ Array(<<content>>).items[1] = content
  BY DEF Array, Null
<1> HIDE DEF said
<1> QED
  BY <1>3, <1>4, <1>5 DEF Content, HasContent

\* A presentation of a closing that verifies says what was closed.
LEMMA ClosingSays ==
  ASSUME PartsAreOfTheirKind, DealsAreClosings, NEW d \in Deals, IsOf(d),
         NEW key, VerifiesUnder(wire, key)
  PROVE  Content(Presented(wire).claims) = ContentOf(d)
<1> DEFINE e == Element(d.salt, ContentOf(d))
           p == SdJwtClaims(e)
           v == <<d.jws, e, Nothing>>
<1>1. IssuerJws(wire).payload = p
  BY FormsVerifyAlike, ClosingIs DEF IsOf, IssuerJws, PartsAreOfTheirKind
<1>2. e.is = "element" /\ e.value = ContentOf(d) /\ Plain1(ContentOf(d))
  BY ContentIs DEF Element
<1>3. ToSet(Sent(v)) = {e}
  <2> HIDE DEF e
  <2> DEFINE S == {d.jws, e, Nothing}
  <2>1. v \in Seq(S) /\ Len(v) = 3 /\ v[2] = e
    OBVIOUS
  <2> HIDE DEF v, S
  <2>2. Sent(v) \in Seq(S) /\ Len(Sent(v)) = 1 /\ Sent(v)[1] = e
    <3>1. Len(v) >= 2 /\ 1 \in 1..(Len(v) - 2)
      BY <2>1
    <3>2. /\ Sent(v) \in Seq(S) /\ Len(Sent(v)) = Len(v) - 2
          /\ \A i \in 1..(Len(v) - 2) : Sent(v)[i] = v[i + 1]
      BY <2>1, <3>1, SentAre
    <3> QED
      BY <2>1, <3>1, <3>2
  <2>3. DOMAIN Sent(v) = {1}
    BY <2>2
  <2> QED
    BY <2>2, <2>3 DEF ToSet
<1>4. SdAlg(p) = DEFAULT_SD_ALG
  BY SdJwtClaimsAre
<1> HIDE DEF e, v
<1>5. Resolves(p, Available(v, DEFAULT_SD_ALG))
  BY <1>2, <1>3, IssuedDocument
<1>6. Resolves(p, Available(wire, DEFAULT_SD_ALG))
  BY <1>1, <1>4 DEF VerifiesUnder
<1>7. ToSet(Sent(wire)) = {e}
  BY <1>3, <1>5, <1>6, OneDisclosureInFull
<1> QED
  BY <1>1, <1>2, <1>7, IssuedSays

\* What is agreed on is something, and so many of it.
Agreed(c) ==
  /\ IsCheckout(c) /\ DOMAIN c.items # {}
  /\ \A i \in DOMAIN c.items : c.items[i].quantity \in Int /\ c.items[i].quantity >= 1

\* What was agreed on passes every refusal of _read_checkout.
LEMMA TermsAreRead ==
  ASSUME NEW c, Agreed(c)
  PROVE  ReadsCheckout(CheckoutClaims(c))
<1> DEFINE p == CheckoutClaims(c)
           M == Written(c)
           I == [i \in DOMAIN c.items |-> ItemClaims(c.items[i])]
           C == [i \in DOMAIN c.charges |-> ChargeClaims(c.charges[i])]
           t == Amount(Total(c))
           a == Number(Seconds(c.agreed_at))
<1>1. /\ p.members = M /\ DOMAIN M = ClaimNames /\ M.open_checkout = c.open_checkout
      /\ M.currency = Text(c.currency) /\ M.line_items = Array(I) /\ M.charges = Array(C)
      /\ M.terms = Object([n \in DOMAIN c.terms |-> Text(c.terms[n])])
      /\ M.total = t /\ M.agreed_at = a
  BY ClaimsAre DEF Written
<1>2. Total(CheckoutOf(p)) = Total(c)
  BY TermsReadBack, ToTheSecondIs DEF Agreed
<1>3. M.terms.kind = "object"
  BY <1>1, ObjectsAre
<1> HIDE DEF p, M
<1>4. \A n \in ClaimNames : Get(p, n) = M[n]
  BY <1>1 DEF Get
<1>5. /\ Get(p, "open_checkout") = c.open_checkout /\ Get(p, "currency") = Text(c.currency)
      /\ Get(p, "line_items") = Array(I) /\ Get(p, "charges") = Array(C)
      /\ Get(p, "terms").kind = "object" /\ Get(p, "total") = t /\ Get(p, "agreed_at") = a
  <2> HIDE DEF I, C, t, a
  <2> QED
    BY <1>1, <1>3, <1>4 DEF ClaimNames
<1>6. IsInteger(a) /\ IsText(Text(c.currency)) /\ IsText(c.open_checkout)
  BY DEF IsInteger, Number, IsText, Text, Agreed, IsCheckout
<1>7. \A v : Array(v).kind = "array" /\ Array(v).items = v
  BY DEF Array
<1>8. I # <<>>
  <2>1. DOMAIN I # {}
    BY DEF Agreed
  <2> HIDE DEF I
  <2> QED
    BY <2>1
<1>9. \A e \in ToSet(I) : /\ e.kind = "object" /\ IsText(Get(e, "id")) /\ IsAmount(Get(e, "unit_price"))
                         /\ IsInteger(Get(e, "quantity")) /\ Get(e, "quantity").number >= 1
  <2>1. \A e \in ToSet(I) : \E i \in DOMAIN c.items : e = ItemClaims(c.items[i])
    BY DEF ToSet
  <2>2. ASSUME NEW item, item.quantity >= 1
        PROVE  LET e == ItemClaims(item)
               IN  /\ e.kind = "object" /\ IsText(Get(e, "id")) /\ IsAmount(Get(e, "unit_price"))
                   /\ IsInteger(Get(e, "quantity")) /\ Get(e, "quantity").number >= 1
    <3> DEFINE e == ItemClaims(item)
               x == Text(item.id)
               y == Number(item.quantity)
               z == Amount(item.unit_price)
               m == [id |-> x, quantity |-> y, unit_price |-> z]
    <3>1. e.kind = "object" /\ e.members = m
      BY ObjectsAre DEF ItemClaims
    <3>2. IsText(x) /\ IsAmount(z) /\ IsInteger(y) /\ y.number >= 1
      BY <2>2 DEF IsText, Text, IsAmount, Amount, IsInteger, Number
    <3> HIDE DEF e, x, y, z
    <3>3. Get(e, "id") = x /\ Get(e, "quantity") = y /\ Get(e, "unit_price") = z
      BY <3>1 DEF Get
    <3> QED
      BY <3>1, <3>2, <3>3 DEF e
  <2>3. \A i \in DOMAIN c.items : c.items[i].quantity >= 1
    BY DEF Agreed
  <2> HIDE DEF I
  <2> QED
    BY <2>1, <2>2, <2>3
<1>10. \A e \in ToSet(C) : e.kind = "object" /\ IsText(Get(e, "label")) /\ IsAmount(Get(e, "amount"))
  <2>1. \A e \in ToSet(C) : \E i \in DOMAIN c.charges : e = ChargeClaims(c.charges[i])
    BY DEF ToSet
  <2>2. ASSUME NEW charge
        PROVE  LET e == ChargeClaims(charge)
               IN  e.kind = "object" /\ IsText(Get(e, "label")) /\ IsAmount(Get(e, "amount"))
    <3> DEFINE e == ChargeClaims(charge)
               x == Text(charge.label)
               z == Amount(charge.amount)
               m == [label |-> x, amount |-> z]
    <3>1. e.kind = "object" /\ e.members = m
      BY ObjectsAre DEF ChargeClaims
    <3>2. IsText(x) /\ IsAmount(z)
      BY DEF IsText, Text, IsAmount, Amount
    <3> HIDE DEF e, x, z
    <3>3. Get(e, "label") = x /\ Get(e, "amount") = z
      BY <3>1 DEF Get
    <3> QED
      BY <3>1, <3>2, <3>3 DEF e
  <2> HIDE DEF C
  <2> QED
    BY <2>1, <2>2
<1> HIDE DEF I, C, a, t
<1>11. Get(p, "total") = Amount(Total(CheckoutOf(p)))
  BY <1>2, <1>5 DEF t
<1> QED
  BY <1>5, <1>6, <1>7, <1>8, <1>9, <1>10, <1>11 DEF ReadsCheckout, p

\* The inner document verifies on its own.
LEMMA InnerVerifies ==
  ASSUME NEW c, IsCheckout(c)
  PROVE  VerifiesUnder(<<InnerJws(c, DeskMandateKey), Nothing>>, DeskMandateKey)
<1> DEFINE inner == InnerJws(c, DeskMandateKey)
           p == CheckoutClaims(c)
           w == <<inner, Nothing>>
           a == Available(w, SdAlg(p))
<1>1. /\ inner.is = "jws" /\ inner.header.alg = MANDATE_ALG /\ inner.by = DeskMandateKey
      /\ inner.payload = p
  BY DEF InnerJws, Jws, Header
<1>2. p.kind = "object" /\ p.members = Written(c) /\ DOMAIN Written(c) = ClaimNames
  <2>1. p = Object(Written(c)) /\ DOMAIN Written(c) = ClaimNames
    BY ClaimsAre
  <2> HIDE DEF p
  <2> QED
    BY <2>1, ObjectsAre
<1>3. SdAlgKnown(p)
  <2> HIDE DEF p
  <2> QED
    BY <1>2 DEF SdAlgKnown, Get, ClaimNames
<1>4. Slots(p, a) = {} /\ Levels(p, a)[MaxNesting + 1] = {}
  BY CheckoutIsPlain, PlainDocument
<1> HIDE DEF inner, p
<1>5. w \in Seq({inner, Nothing}) /\ Len(w) = 2 /\ w[1] = inner
  OBVIOUS
<1> HIDE DEF w
<1>6. Sent(w) \in Seq({inner, Nothing}) /\ Len(Sent(w)) = 0
  <2>1. Len(w) >= 2 /\ Len(w) - 2 = 0
    BY <1>5
  <2> QED
    BY <1>5, <2>1, SentAre
<1>7. DOMAIN Sent(w) = {} /\ ToSet(Sent(w)) = {}
  BY <1>6 DEF ToSet
<1>8. DOMAIN a = {}
  <2>1. DOMAIN a = {Digest(SdAlg(p), <<s>>) : s \in ToSet(Sent(w))}
    BY AvailableIs
  <2> QED
    BY <1>7, <2>1
<1>9. Resolves(p, a)
  BY <1>4, <1>8 DEF Resolves, Fits
<1>10. IsInjective(Sent(w)) /\ IsPresentation(w)
  BY <1>5, <1>7 DEF IsInjective, IsPresentation
<1>11. IssuerJws(w) = inner
  BY <1>5 DEF IssuerJws
<1> HIDE DEF a
<1>12. VerifiesUnder(w, DeskMandateKey)
  BY <1>1, <1>2, <1>3, <1>7, <1>9, <1>10, <1>11 DEF VerifiesUnder, a
<1> QED
  BY <1>12 DEF w, inner

\* What the Desk closes, it reads: the deal can be settled (close_checkout,
\* read_closed_checkout).
THEOREM WhatIsClosedIsRead ==
  ASSUME NEW c, Agreed(c), NEW salt, NEW issued_at
  PROVE  ReadsClosed(CloseCheckout(c, salt, DeskMandateKey, issued_at), DeskMandateKey)
<1> DEFINE inner == InnerJws(c, DeskMandateKey)
           d == [checkout |-> c, issued_at |-> issued_at]
           content == ContentOf(d)
           e == Element(salt, content)
           p == SdJwtClaims(e)
           jws == Jws(Header(MANDATE_ALG, "example+sd-jwt", "desk"), p, DeskMandateKey, "first")
           w == <<jws, e, Nothing>>
           a == Available(w, DEFAULT_SD_ALG)
<1>1. CloseCheckout(c, salt, DeskMandateKey, issued_at) = w
  BY DEF CloseCheckout, Issue, Present, ContentOf
<1>2. e.is = "element" /\ e.value = content /\ Plain1(content) /\ content.kind = "object"
  BY ContentIs DEF Element
<1>3. /\ jws.is = "jws" /\ jws.header.alg = MANDATE_ALG /\ jws.by = DeskMandateKey
      /\ jws.payload = p
  BY DEF Jws, Header
<1>4. /\ p.kind = "object" /\ SdAlgKnown(p) /\ SdAlg(p) = DEFAULT_SD_ALG
  <2>1. p = Object(p.members)
    BY SdJwtClaimsAre
  <2>2. SdAlgKnown(p) /\ SdAlg(p) = DEFAULT_SD_ALG
    BY SdJwtClaimsAre
  <2> HIDE DEF p
  <2> QED
    BY <2>1, <2>2, ObjectsAre
<1>5. /\ Get(content, "vct") = Text(CLOSED_CHECKOUT_VCT)
      /\ Get(content, "checkout_jwt") = Encoded(inner)
      /\ Get(content, "checkout_hash") = DigestText(HashOf(Encoded(inner)))
      /\ IsInteger(Get(content, "iat"))
  <2> DEFINE x == Text(CLOSED_CHECKOUT_VCT)
             y == Encoded(inner)
             z == DigestText(HashOf(y))
             n == Number(issued_at)
             m == [vct |-> x, checkout_jwt |-> y, checkout_hash |-> z, iat |-> n]
  <2>1. content.members = m
    BY ObjectsAre DEF ContentOf
  <2>2. IsInteger(n)
    BY DEF IsInteger, Number
  <2> HIDE DEF content, x, y, z, n
  <2>3. /\ Get(content, "vct") = x /\ Get(content, "checkout_jwt") = y
        /\ Get(content, "checkout_hash") = z /\ Get(content, "iat") = n
    BY <2>1 DEF Get
  <2> QED
    BY <2>2, <2>3 DEF x, y, z
<1>6. "encodes" \in DOMAIN Encoded(inner) /\ Encoded(inner).encodes = inner
  BY DEF Encoded
<1>7. /\ VerifiesUnder(<<inner, Nothing>>, DeskMandateKey)
      /\ ReadsCheckout(Presented(<<inner, Nothing>>).claims)
  <2>1. IsCheckout(c)
    BY DEF Agreed
  <2>2. Presented(<<inner, Nothing>>).claims = CheckoutClaims(c)
    BY <2>1, InnerSays
  <2> HIDE DEF inner
  <2> QED
    BY <2>1, <2>2, InnerVerifies, TermsAreRead DEF inner
<1> HIDE DEF content, inner, e, p, jws
<1>8. IsPresentation(w) /\ IssuerJws(w) = jws /\ w \in Seq({jws, e, Nothing}) /\ Len(w) = 3 /\ w[2] = e
  <2>1. e # Nothing
    BY <1>2 DEF Nothing
  <2> QED
    BY <2>1 DEF IsPresentation, IssuerJws
<1> HIDE DEF w
<1>9. Sent(w) \in Seq({jws, e, Nothing}) /\ Len(Sent(w)) = 1 /\ Sent(w)[1] = e
  <2>1. Len(w) >= 2 /\ Len(w) - 2 = 1 /\ 1 \in 1..(Len(w) - 2)
    BY <1>8
  <2>2. /\ Sent(w) \in Seq({jws, e, Nothing}) /\ Len(Sent(w)) = Len(w) - 2
        /\ \A i \in 1..(Len(w) - 2) : Sent(w)[i] = w[i + 1]
    BY <1>8, <2>1, SentAre
  <2> QED
    BY <1>8, <2>1, <2>2
<1>10. DOMAIN Sent(w) = {1} /\ ToSet(Sent(w)) = {e}
  <2>1. DOMAIN Sent(w) = {1}
    BY <1>9
  <2> QED
    BY <1>9, <2>1 DEF ToSet
<1>11. Resolves(p, a)
  BY <1>2, <1>10, IssuedDocument DEF p
<1>12. VerifiesUnder(w, DeskMandateKey)
  <2>1. IsInjective(Sent(w)) /\ \A i \in DOMAIN Sent(w) : ParsesAsDisclosure(Sent(w)[i])
    BY <1>2, <1>9, <1>10 DEF IsInjective, ParsesAsDisclosure
  <2> HIDE DEF a
  <2> QED
    BY <1>3, <1>4, <1>8, <1>11, <2>1 DEF VerifiesUnder, a
<1>13. /\ HasContent(Presented(w).claims) /\ Content(Presented(w).claims) = content
  BY <1>2, <1>3, <1>4, <1>8, <1>10, IssuedSays DEF p
<1>14. ReadsClosed(w, DeskMandateKey)
  BY <1>5, <1>6, <1>7, <1>12, <1>13 DEF ReadsClosed
<1> QED
  BY <1>1, <1>14 DEF w

\* A closing that reads back says the deal it closed, by the name of that deal.
LEMMA ClosingReadsBack ==
  ASSUME PartsAreOfTheirKind, DealsAreClosings, NEW d \in Deals, IsOf(d),
         ReadsClosed(wire, DeskMandateKey)
  PROVE  /\ ClosedAs(wire).checkout = ToTheSecond(d.checkout)
         /\ ClosedAs(wire).checkout_hash = d.name
         /\ Total(ClosedAs(wire).checkout) = d.pays
<1> DEFINE inner == InnerJws(d.checkout, DeskMandateKey)
           claims == Presented(<<inner, Nothing>>).claims
           t == ToTheSecond(d.checkout)
           h == HashOf(Encoded(inner))
<1>1. Content(Presented(wire).claims) = ContentOf(d)
  BY ClosingSays DEF ReadsClosed
<1>2. Get(ContentOf(d), "checkout_jwt") = Encoded(inner)
  BY ContentIs
<1>3. IsCheckout(d.checkout) /\ d.name = h /\ d.pays = ToPay(d.checkout)
  BY DEF DealsAreClosings
<1>4. CheckoutOf(claims) = t
  <2>1. claims = CheckoutClaims(d.checkout)
    BY <1>3, InnerSays
  <2> HIDE DEF claims
  <2> QED
    BY <1>3, <2>1, TermsReadBack
<1>5. Encoded(inner).encodes = inner
  BY DEF Encoded
<1>6. Total(t) = ToPay(d.checkout)
  <2>1. Total(t) = Total(d.checkout)
    BY <1>3, ToTheSecondIs
  <2> QED
    BY <2>1 DEF Total, ToPay
<1> HIDE DEF inner, t
<1>7. ClosedAs(wire) = [checkout |-> t, checkout_hash |-> h]
  BY <1>1, <1>2, <1>4, <1>5 DEF ClosedAs
<1> HIDE DEF h
<1> QED
  BY <1>3, <1>6, <1>7 DEF t

\* What reads back as a closing is one of the Desk's.
LEMMA OnlyClosings ==
  ASSUME PartsInPlace, PartsAreOfTheirKind, MandatesAreIssued, SignaturesAreTheirs,
         DealsAreClosings, ReadsClosed(wire, DeskMandateKey)
  PROVE  \E d \in Deals : IsOf(d)
<1>1. VerifiesUnder(wire, DeskMandateKey)
  BY DEF ReadsClosed
<1>2. wire # <<>> /\ wire[1] \in Jwss /\ wire[1].by = DeskMandateKey
  BY <1>1 DEF PartsInPlace, VerifiesUnder, IsPresentation, IssuerJws
<1>3. CASE \E m \in Mandates : wire[1] \in FormsOf(m.jws)
  <2>1. PICK m \in Mandates : IsOf(m)
    BY <1>2, <1>3 DEF IsOf
  <2>2. m.key = DeskMandateKey
    BY <1>1, <2>1, SentAsIssued
  <2> QED
    BY <2>2 DEF SignaturesAreTheirs, Signers
<1>4. CASE \E d \in Deals : wire[1] \in FormsOf(d.jws)
  BY <1>2, <1>4 DEF IsOf
<1>5. CASE wire[1] \in {d.jws : d \in Misissued}
  <2>1. Unfit(IssuerJws(wire))
    BY <1>5 DEF SignaturesAreTheirs, IssuerJws
  <2> QED
    BY <1>1, <2>1, SentAreDisclosures, UnfitIsRefused
<1>6. CASE wire[1] \in ForeignJwss
  <2>1. PICK d \in Deals : wire[1] = InnerJws(d.checkout, DeskMandateKey)
    BY <1>2, <1>6 DEF DealsAreClosings
  <2> DEFINE p == CheckoutClaims(d.checkout)
  <2>2. Presented(wire).claims = p
    BY <2>1, InnerSays DEF DealsAreClosings
  <2>3. p.members = Written(d.checkout) /\ DOMAIN Written(d.checkout) = ClaimNames
    BY ClaimsAre DEF Written
  <2> HIDE DEF p
  <2>4. Get(p, "delegate_payload") = Null /\ Get(p, "vct") = Null
    BY <2>3 DEF Get, ClaimNames
  <2>5. Content(p) = p
    BY <2>4 DEF Content
  <2>6. Get(p, "vct") = Text(CLOSED_CHECKOUT_VCT)
    BY <2>2, <2>5 DEF ReadsClosed
  <2> QED
    BY <2>4, <2>6 DEF Null, Text
<1> QED
  BY <1>2, <1>3, <1>4, <1>5, <1>6 DEF Jwss

\* ReadsOnlyWhatItClosed: nothing but its own closings is read as one, and to the second.
LEMMA OnlyWhatItClosed ==
  ASSUME PartsInPlace, PartsAreOfTheirKind, MandatesAreIssued, SignaturesAreTheirs,
         DealsAreClosings
  PROVE  ReadsOnlyWhatItClosed
<1> SUFFICES ASSUME ReadsClosed(wire, DeskMandateKey)
             PROVE  \E d \in Deals :
                      /\ IsOf(d) /\ ClosedAs(wire).checkout = ToTheSecond(d.checkout)
                      /\ Total(ClosedAs(wire).checkout) = d.pays
  BY DEF ReadsOnlyWhatItClosed, ToTheSecond
<1>1. PICK d \in Deals : IsOf(d)
  BY OnlyClosings
<1> QED
  BY <1>1, ClosingReadsBack

\* A receipt signed for a closed deal and a charge reads back as what it was signed for.
LEMMA ReceiptReadsBack ==
  ASSUME NEW closed, NEW c, NEW mandate, NEW charge, NEW agent, NEW instant, NEW sum,
         IsCheckout(c), closed.checkout = ToTheSecond(c),
         charge = [completed |-> TRUE, rail |-> charge.rail, status |-> charge.status,
                   charge_id |-> charge.charge_id],
         BLANK \notin {agent, charge.rail, charge.status, charge.charge_id}
  PROVE  LET signed == IssueReceipt(closed, mandate, charge, sum, agent, instant)
             receipt == ReceiptAs(signed)
         IN  /\ ReadsReceipt(signed)
             /\ receipt.receipt_id = closed.checkout_hash /\ receipt.charged = sum
             /\ receipt.agreed = CheckoutClaims(c)
             /\ receipt.chain.open_checkout = c.open_checkout
             /\ receipt.chain.open_payment = DigestText(mandate)
             /\ receipt.charge = charge
<1> DEFINE signed == IssueReceipt(closed, mandate, charge, sum, agent, instant)
           k == closed.checkout_hash
           o == c.open_checkout
           u == c.currency
           agreed == CheckoutClaims(c)
           chain == [open_checkout |-> o, open_payment |-> DigestText(mandate),
                     closed_checkout |-> DigestText(k)]
           paid == [amount |-> Amount(sum), currency |-> Text(u)]
           rail == [rail |-> Text(charge.rail), status |-> Text(charge.status),
                    charge_id |-> Text(charge.charge_id)]
           when == Number(Seconds(instant))
           claims == [iss |-> Text("desk"), jti |-> DigestText(k), sub |-> Text(agent),
                      iat |-> when, mandate_chain |-> Object(chain), agreed |-> agreed,
                      charged |-> Object(paid), rail |-> Object(rail)]
           jws == Jws(Header(DESK_RECEIPT_ALG, RECEIPT_TYP, DESK_RECEIPT_KEY_ID), Object(claims),
                      DeskReceiptKey, "first")
<1>1. /\ closed.checkout.open_checkout = o /\ closed.checkout.currency = u
      /\ CheckoutClaims(closed.checkout) = agreed
  BY ToTheSecondIs
<1>2. signed = jws
  BY <1>1 DEF IssueReceipt
<1>3. agreed.kind = "object" /\ IsText(o) /\ o # Text(BLANK) /\ u # BLANK
  <2>1. IsText(o) /\ o # Text(BLANK) /\ u # BLANK
    BY DEF IsCheckout
  <2>2. agreed = Object(Written(c))
    BY ClaimsAre
  <2> HIDE DEF agreed
  <2> QED
    BY <2>1, <2>2, ObjectsAre
<1> HIDE DEF signed, k, o, u, agreed
<1>4. /\ \A link \in {"open_checkout", "open_payment", "closed_checkout"} :
           link \in DOMAIN chain /\ Named(chain[link])
      /\ chain.closed_checkout = DigestText(k) /\ chain.open_checkout = o
      /\ chain.open_payment = DigestText(mandate)
  BY <1>3 DEF Named, IsText, Text, DigestText
<1>5. /\ \A n \in {"rail", "status", "charge_id"} : n \in DOMAIN rail /\ Named(rail[n])
      /\ rail.rail.text = charge.rail /\ rail.status.text = charge.status
      /\ rail.charge_id.text = charge.charge_id
  BY DEF Named, IsText, Text
<1>6. /\ DOMAIN paid = {"amount", "currency"} /\ Named(paid.currency)
      /\ IsAmount(paid.amount) /\ paid.amount.amount = sum
  BY <1>3 DEF Named, IsText, Text, IsAmount, Amount
<1>7. IsInteger(when) /\ Named(Text(agent)) /\ Named(DigestText(k)) /\ DigestText(k).digest = k
  BY DEF IsInteger, Number, Named, IsText, Text, DigestText
<1> HIDE DEF chain, paid, rail, when
<1>8. /\ DOMAIN claims = {"iss", "jti", "sub", "iat", "mandate_chain", "agreed", "charged", "rail"}
      /\ claims.iss = Text("desk") /\ claims.jti = DigestText(k) /\ claims.sub = Text(agent)
      /\ claims.iat = when /\ claims.mandate_chain = Object(chain) /\ claims.agreed = agreed
      /\ claims.charged = Object(paid) /\ claims.rail = Object(rail)
  OBVIOUS
<1> HIDE DEF claims
<1>9. /\ jws.is = "jws" /\ jws.by = DeskReceiptKey /\ jws.payload = Object(claims)
      /\ jws.header.alg = DESK_RECEIPT_ALG /\ jws.header.typ = RECEIPT_TYP
      /\ jws.header.kid = DESK_RECEIPT_KEY_ID
  BY DEF Jws, Header
<1> HIDE DEF jws
<1>10. \A m : Object(m).kind = "object" /\ Object(m).members = m
  BY ObjectsAre
<1>11. ReadsReceipt(jws)
  BY <1>3, <1>4, <1>5, <1>6, <1>7, <1>8, <1>9, <1>10 DEF ReadsReceipt, Get
<1>12. /\ ReceiptAs(jws).receipt_id = k /\ ReceiptAs(jws).charged = sum
       /\ ReceiptAs(jws).agreed = agreed
       /\ ReceiptAs(jws).chain = chain
       /\ ReceiptAs(jws).charge = charge
  BY <1>5, <1>6, <1>7, <1>8, <1>9, <1>10 DEF ReceiptAs
<1> QED
  BY <1>2, <1>4, <1>11, <1>12 DEF signed, k, o, agreed

\* ReceiptTellsTheDeal: from any presentation of a closing that is read.
LEMMA ReceiptsTellTheDeal ==
  ASSUME PartsAreOfTheirKind, DealsAreClosings, ChargesAreTold
  PROVE  ReceiptTellsTheDeal
<1> SUFFICES ASSUME NEW d \in Deals, NEW c \in Charges, IsOf(d),
                    ReadsClosed(wire, DeskMandateKey), MayReceipt(c.charge)
             PROVE  LET closed == ClosedAs(wire)
                        signed == IssueReceipt(closed, c.mandate, c.charge, Total(closed.checkout),
                                               c.agent, c.at)
                        receipt == ReceiptAs(signed)
                    IN  /\ ReadsReceipt(signed)
                        /\ receipt.receipt_id = d.name /\ receipt.charged = d.pays
                        /\ receipt.agreed = CheckoutClaims(d.checkout)
                        /\ receipt.chain.open_checkout = d.checkout.open_checkout
                        /\ receipt.chain.open_payment = DigestText(c.mandate)
                        /\ receipt.charge = c.charge
  BY DEF ReceiptTellsTheDeal
<1> DEFINE closed == ClosedAs(wire)
           charge == c.charge
           total == Total(closed.checkout)
<1>1. /\ closed.checkout = ToTheSecond(d.checkout) /\ closed.checkout_hash = d.name
      /\ total = d.pays
  BY ClosingReadsBack
<1>2. /\ charge = [completed |-> TRUE, rail |-> charge.rail, status |-> charge.status,
                   charge_id |-> charge.charge_id]
      /\ BLANK \notin {c.agent, charge.rail, charge.status, charge.charge_id}
  BY DEF ChargesAreTold, MayReceipt
<1>3. IsCheckout(d.checkout)
  BY DEF DealsAreClosings
<1> HIDE DEF closed, charge, total
<1>4. LET signed == IssueReceipt(closed, c.mandate, charge, total, c.agent, c.at)
          receipt == ReceiptAs(signed)
      IN  /\ ReadsReceipt(signed)
          /\ receipt.receipt_id = closed.checkout_hash /\ receipt.charged = total
          /\ receipt.agreed = CheckoutClaims(d.checkout)
          /\ receipt.chain.open_checkout = d.checkout.open_checkout
          /\ receipt.chain.open_payment = DigestText(c.mandate)
          /\ receipt.charge = charge
  BY <1>1, <1>2, <1>3, ReceiptReadsBack
<1> QED
  BY <1>1, <1>4 DEF closed, charge, total

\* OneDocumentOneName: whatever mandates there are and whatever was closed, no holder
\* varies the name a budget is drawn on or a settlement is found again by.
THEOREM NamesDoNotVary ==
  ASSUME PartsAreOfTheirKind, MandatesAreIssued, DealsAreClosings
  PROVE  Presenting => []OneDocumentOneName
<1>1. OneDealOneName
  BY ClosingReadsBack DEF OneDealOneName
<1>2. OneDocumentOneName
  BY <1>1, MandatesKeepTheirNames DEF OneDocumentOneName
<1> QED
  BY <1>2, PTL

\* DealsReadBack: whatever terms were agreed, however finely the clock ticks and whatever
\* the rail answered, what was closed is what is charged for and what the receipt says.
THEOREM DealsAreToldToTheEnd ==
  ASSUME PartsAreOfTheirKind, MandatesAreIssued, SignaturesAreTheirs, DealsAreClosings,
         ChargesAreTold
  PROVE  Presenting => []DealsReadBack
<1>1. PartsInPlace => DealsReadBack
  BY OnlyWhatItClosed, ReceiptsTellTheDeal DEF DealsReadBack
<1> QED
  BY <1>1, PartsStayInPlace, PTL
-----------------------------------------------------------------------------
(* From the documents to the ledger.                                       *)

\* What a caller's presentations are read as is what verify_presentation returns.
ClaimsAreRead(key) ==
  \A p \in DOMAIN Claims : VerifiesUnder(Wire[p], key) /\ Presented(Wire[p]).claims = Claims[p]

\* The name the ledger draws a mandate under is its own: whatever was signed, two
\* presentations that verify and share it are of one mandate and are read as one thing.
THEOREM LedgerNamesAreMandates ==
  ASSUME NEW key, ClaimsAreRead(key), MandatesAreSigned
  PROVE  MandatesAreNamed
<1> SUFFICES ASSUME NEW p \in PaymentsRead, NEW q \in PaymentsRead
             PROVE  /\ MandateOf[p] = MandateOf[q] <=> SignedName(p) = SignedName(q)
                    /\ SignedName(p) = SignedName(q) => Contents[p] = Contents[q]
  BY DEF MandatesAreNamed
<1> DEFINE v == Wire[p]
           w == Wire[q]
           i == SigningInput(IssuerJws(v))
           j == SigningInput(IssuerJws(w))
<1>1. /\ VerifiesUnder(v, key) /\ Presented(v).claims = Claims[p]
      /\ VerifiesUnder(w, key) /\ Presented(w).claims = Claims[q]
  BY DEF ClaimsAreRead, PaymentsRead
<1>2. /\ SignedName(p) = Digest(SdAlg(IssuerJws(v).payload), <<i>>)
      /\ SignedName(q) = Digest(SdAlg(IssuerJws(w).payload), <<j>>)
  BY DEF SignedName, SignedDigestOf, AlgOf
<1>3. i = j => IssuerJws(v).payload = IssuerJws(w).payload
  BY DEF SigningInput
<1>4. SignedName(p) = SignedName(q) <=> i = j
  <2> HIDE DEF v, w, i, j
  <2>1. \A a, b : Digest(a, <<i>>) = Digest(b, <<j>>) => i = j
    <3> SUFFICES ASSUME NEW a, NEW b, Digest(a, <<i>>) = Digest(b, <<j>>) PROVE i = j
      OBVIOUS
    <3>1. <<i>> = <<j>>
      BY DEF Digest
    <3> QED
      BY <3>1
  <2> QED
    BY <1>2, <1>3, <2>1
<1>5. MandateOf[p] = MandateOf[q] <=> i = j
  BY DEF MandatesAreSigned
<1>6. ASSUME i = j PROVE Contents[p] = Contents[q]
  <2>1. IssuerJws(v).payload = IssuerJws(w).payload
    BY <1>3, <1>6
  <2>2. ToSet(Sent(v)) = ToSet(Sent(w))
    BY <1>1, <2>1, VerifiesAlike
  <2>3. Claims[p] = Claims[q]
    BY <1>1, <2>1, <2>2, ReadAlike
  <2> QED
    BY <2>3 DEF Contents, PaymentsRead
<1> QED
  BY <1>4, <1>5, <1>6
-----------------------------------------------------------------------------
(* The decimal context.                                                    *)

\* Of any numbers one is the least.
LEMMA OneIsLeast ==
  ASSUME NEW S, S \subseteq Nat, S # {}
  PROVE  \E m \in S : \A n \in S : m <= n
<1> DEFINE Less == OpToRel(<, Nat)
<1>1. PICK m \in S : \A n \in S : ~(<<n, m>> \in Less)
  <2> HIDE DEF Less
  <2>1. IsWellFoundedOn(Less, Nat)
    BY NatLessThanWellFounded DEF Less
  <2> QED
    BY <2>1, WFMin
<1>2. ASSUME NEW n \in S PROVE m <= n
  <2>1. m \in Nat /\ n \in Nat
    OBVIOUS
  <2>2. ~(n < m)
    BY <1>1, <2>1 DEF OpToRel
  <2> QED
    BY <2>1, <2>2
<1> QED
  BY <1>2

\* What a number comes to is a decimal, and none is nearer.
LEMMA RoundedIsNearest ==
  ASSUME NEW n \in Int
  PROVE  /\ Rounded(n) \in Decimals /\ Rounded(n) \in Nat
         /\ \A e \in Decimals : Distance(Rounded(n), n) <= Distance(e, n)
<1>1. Decimals \subseteq Nat /\ 0 \in Decimals
  BY SpendAssumption DEF SpendAssumption
<1> DEFINE Distances == {Distance(d, n) : d \in Decimals}
<1>2. Distances \subseteq Nat /\ Distances # {}
  <2>1. ASSUME NEW d \in Decimals PROVE Distance(d, n) \in Nat
    BY <1>1 DEF Distance
  <2> QED
    BY <1>1, <2>1
<1>3. PICK m \in Distances : \A k \in Distances : m <= k
  <2> HIDE DEF Distances
  <2> QED
    BY <1>2, OneIsLeast
<1>4. PICK d \in Decimals : m = Distance(d, n)
  BY <1>3
<1>5. \A e \in Decimals : Distance(d, n) <= Distance(e, n)
  BY <1>3, <1>4
<1>6. /\ Rounded(n) \in Decimals
      /\ \A e \in Decimals : Distance(Rounded(n), n) <= Distance(e, n)
  BY <1>5 DEF Rounded
<1> QED
  BY <1>1, <1>6

\* A decimal comes to itself.
LEMMA DecimalsAreHeld ==
  ASSUME NEW n \in Decimals
  PROVE  n \in Nat /\ Rounded(n) = n
<1>1. n \in Nat
  BY SpendAssumption DEF SpendAssumption
<1>2. Rounded(n) \in Nat /\ Distance(Rounded(n), n) <= Distance(n, n)
  BY <1>1, RoundedIsNearest
<1> QED
  BY <1>1, <1>2 DEF Distance

\* More comes to no less: of two numbers the nearest decimals do not change places.
LEMMA RoundedGrows ==
  ASSUME NEW m \in Int, NEW n \in Int, m <= n
  PROVE  Rounded(m) <= Rounded(n)
<1> DEFINE low == Rounded(m)
           high == Rounded(n)
<1>1. /\ low \in Nat /\ high \in Nat
      /\ Distance(low, m) <= Distance(high, m) /\ Distance(high, n) <= Distance(low, n)
  BY RoundedIsNearest
<1>2. CASE m = n
  BY <1>1, <1>2
<1>3. CASE m < n
  <2> HIDE DEF low, high
  <2>1. low <= high
    BY <1>1, <1>3 DEF Distance
  <2> QED
    BY <2>1 DEF low, high
<1> QED
  BY <1>2, <1>3
-----------------------------------------------------------------------------
(* The ledger's rows, and what callers have been told.                     *)

\* The row of a mandate's presentation, so much having been spent.
Row(p, n) ==
  [ceiling |-> Maximum(Contents[p]), currency |-> Currency(Contents[p]), spent |-> n]

\* A row was opened for a mandate that sets a ceiling, and is within it.
Ledger ==
  \A id \in DOMAIN ledger :
    \E p \in PaymentsRead, n \in Nat :
      /\ LedgerKey(p) = id /\ HasBudget(Contents[p])
      /\ n <= Maximum(Contents[p]) /\ ledger[id] = Row(p, n)

\* Check 2 has read the checkout mandate and found it bound to the agent.
BoundCheckout(a) == a.checkout \in CheckoutsRead /\ Binds(Contents[a.checkout], AgentKey)

\* What check 3 passed was within the ceiling as its sums came out, with what was spent.
Forecast(r) ==
  /\ r.already_spent \in Nat
  /\ ~Overflows(r.already_spent + r.ask.amount)
  /\ Rounded(r.already_spent + r.ask.amount) <= Maximum(Contents[r.ask.payment])

\* What check 2 or check 3 has said of a caller's request, the documents bear out.
Stage(r) ==
  /\ r.stage \in {"idle", "checkout", "verified", "authorised", "closed", "ceiling", "failed",
                  "refused"}
  /\ r.stage # "idle" => r.ask \in Asks
  /\ r.stage = "checkout" => BoundCheckout(r.ask)
  /\ r.stage = "verified" => r.ask \in Bound
  /\ r.stage \in {"authorised", "ceiling", "failed"} =>
       r.ask \in Bound /\ Authorises(r.ask) /\ Forecast(r)
  /\ r.stage = "authorised" =>
       r.when \in 0..MaxClock /\ Open(Contents[r.ask.payment], r.when)
  /\ r.stage = "refused" /\ r.reason = "category_not_authorised" =>
       r.ask \in Bound /\ ~Authorises(r.ask)

\* The inductive invariant, whatever the documents are.
SpendInv ==
  /\ now \in 0..MaxClock
  /\ DOMAIN at = Callers
  /\ charged \in [{MandateOf[a.payment] : a \in Asks} -> Nat]
  /\ Ledger
  /\ \A c \in Callers : Stage(at[c])

\* What is charged against a mandate is what its row has.
Charged ==
  /\ \A a \in Asks : a.payment \in PaymentsRead /\ HasBudget(Contents[a.payment]) =>
       charged[MandateOf[a.payment]] = SpentAgainst(a.payment).spent
  /\ \A m \in DOMAIN charged : charged[m] # 0 =>
       \E a \in Asks : a.payment \in PaymentsRead /\ MandateOf[a.payment] = m

\* A draw that the context or the database raises over.
Fails(row, amount) ==
  Overflows(row.spent + amount) \/ ~WithinCeiling(Drawn(row, amount))

\* What the ledger has told a caller it still says.
Told(r) ==
  /\ r.stage = "refused" /\ r.reason = "exceeds_remaining_balance" =>
       /\ r.ask.payment \in PaymentsRead
       /\ \/ ~HasBudget(Contents[r.ask.payment])
          \/ ~Covers(SpentAgainst(r.ask.payment), r.ask.amount)
  /\ r.stage = "ceiling" =>
       r.amount \in Nat /\ ~Covers(SpentAgainst(r.ask.payment), r.amount)
  /\ r.stage = "failed" =>
       r.amount \in Nat /\ Fails(SpentAgainst(r.ask.payment), r.amount)

\* And where every mandate has one name, what else is inductive beside it.
NamedInv ==
  /\ SpendInv
  /\ Charged
  /\ \A c \in Callers : Told(at[c])
-----------------------------------------------------------------------------
(* The documents.                                                          *)

\* A ceiling is an amount.
LEMMA CeilingsAreAmounts ==
  ASSUME NEW p \in PaymentsRead, HasBudget(Contents[p])
  PROVE  Maximum(Contents[p]) \in Nat
<1>1. ReadsOpenPayment(Claims[p]) /\ Contents[p] = Content(Claims[p])
  BY DEF PaymentsRead, Contents
<1>2. ReadsBudget(Contents[p])
  BY <1>1 DEF ReadsOpenPayment
<1>3. Maximum(Contents[p]) > 0
  BY <1>2 DEF ReadsBudget
<1>4. Maximum(Contents[p]) \in Int
  BY SpendAssumption DEF SpendAssumption
<1> QED
  BY <1>3, <1>4

\* Whether a presentation is among those read is an answer, yes or no.
LEMMA MembershipIsAnAnswer ==
  ASSUME NEW x, NEW S
  PROVE  \E yes \in BOOLEAN : yes = (x \in S)
<1>1. CASE x \in S
  <2>1. TRUE = (x \in S)
    BY <1>1
  <2> QED
    BY <2>1
<1>2. CASE x \notin S
  <2>1. FALSE = (x \in S)
    BY <1>2
  <2> QED
    BY <2>1
<1> QED
  BY <1>1, <1>2

\* What check 2 passes has been read, and is bound to the agent's key.
LEMMA Check2Passes ==
  ASSUME NEW content, NEW key, NEW instant, NEW is_read \in BOOLEAN
  PROVE  /\ Check2(is_read, content, key, instant) = "passed" => is_read /\ Binds(content, key)
         /\ Check2(is_read, content, key, instant) \in
              {"passed", "mandate_signature_invalid", "mandate_expired", "agent_mandate_mismatch"}
BY DEF Check2

\* A checkout that check 2 reads has one constraint on merchants or none, so that check
\* 3 can read it again.
LEMMA CheckoutsReadAgain ==
  ASSUME NEW p \in CheckoutsRead
  PROVE  Single(Contents[p], ALLOWED_MERCHANTS)
BY DEF CheckoutsRead, Contents, ReadsOpenCheckout
-----------------------------------------------------------------------------
(* The ledger.                                                             *)

\* What is spent against a mandate that sets a ceiling is some row within its ceiling.
LEMMA SpentIsARow ==
  ASSUME Ledger, NEW p \in PaymentsRead, HasBudget(Contents[p])
  PROVE  \E q \in PaymentsRead, n \in Nat :
           /\ LedgerKey(q) = LedgerKey(p) /\ HasBudget(Contents[q])
           /\ n <= Maximum(Contents[q]) /\ SpentAgainst(p) = Row(q, n)
           /\ LedgerKey(p) \notin DOMAIN ledger => n = 0
<1>1. CASE LedgerKey(p) \in DOMAIN ledger
  BY <1>1 DEF Ledger, SpentAgainst
<1>2. CASE LedgerKey(p) \notin DOMAIN ledger
  <2>1. SpentAgainst(p) = Row(p, 0)
    BY <1>2 DEF SpentAgainst, NoSpend, Row
  <2>2. 0 <= Maximum(Contents[p])
    BY CeilingsAreAmounts
  <2> QED
    BY <2>1, <2>2
<1> QED
  BY <1>1, <1>2

\* Where mandates have one name each, it is the mandate's own.
LEMMA SpentIsItsOwn ==
  ASSUME MandatesAreNamed, Ledger, NEW p \in PaymentsRead, HasBudget(Contents[p])
  PROVE  \E n \in Nat :
           /\ n <= Maximum(Contents[p]) /\ SpentAgainst(p) = Row(p, n)
           /\ LedgerKey(p) \notin DOMAIN ledger => n = 0
<1>1. PICK q \in PaymentsRead, n \in Nat :
        /\ LedgerKey(q) = LedgerKey(p) /\ HasBudget(Contents[q])
        /\ n <= Maximum(Contents[q]) /\ SpentAgainst(p) = Row(q, n)
        /\ LedgerKey(p) \notin DOMAIN ledger => n = 0
  BY SpentIsARow
<1>2. Contents[q] = Contents[p]
  BY <1>1 DEF MandatesAreNamed, SignedName, LedgerKey
<1> QED
  BY <1>1, <1>2 DEF Row
-----------------------------------------------------------------------------
(* Check 3.                                                                *)

\* What each answer of check 3 says.
LEMMA Check3Says ==
  ASSUME NEW a
  PROVE  /\ Check3(a) = "passed" =>
              /\ Authorises(a) /\ Open(Contents[a.payment], now)
              /\ AgreesWith(SpentAgainst(a.payment), a.payment)
              /\ ~Overflows(SpentAgainst(a.payment).spent + a.amount)
              /\ Covers(SpentAgainst(a.payment), a.amount)
         /\ a \in Bound /\ Check3(a) = "category_not_authorised" => ~Authorises(a)
         /\ Check3(a) = "exceeds_remaining_balance" =>
              \/ ~HasBudget(Contents[a.payment])
              \/ ~Covers(SpentAgainst(a.payment), a.amount)
         /\ Check3(a) = "raised" =>
              \/ a \in Paired /\ ~Single(Contents[a.checkout], ALLOWED_MERCHANTS)
              \/ /\ HasBudget(Contents[a.payment])
                 /\ \/ ~AgreesWith(SpentAgainst(a.payment), a.payment)
                    \/ Overflows(SpentAgainst(a.payment).spent + a.amount)
                    \/ Overflows(SpentAgainst(a.payment).ceiling
                                   - SpentAgainst(a.payment).spent)
                    \/ /\ Covers(SpentAgainst(a.payment), a.amount)
                       /\ Overdraws(SpentAgainst(a.payment), a.amount)
BY DEF Check3, Balance, Authorises, RefersTo, Paired, ReferenceOf, Bound

\* It answers, where no two mandates share a row, over sums that are held as they are.
LEMMA Check3Answers ==
  ASSUME MandatesAreNamed, Ledger, NEW a \in Bound,
         Exact(SpentAgainst(a.payment).spent + a.amount),
         Exact(SpentAgainst(a.payment).ceiling - SpentAgainst(a.payment).spent)
  PROVE  Check3(a) # "raised"
<1>1. a.checkout \in CheckoutsRead /\ a.payment \in PaymentsRead /\ a.amount \in Nat
  BY SpendAssumption DEF Bound, SpendAssumption
<1>2. Single(Contents[a.checkout], ALLOWED_MERCHANTS)
  BY <1>1, CheckoutsReadAgain
<1>3. CASE HasBudget(Contents[a.payment])
  <2>1. PICK n \in Nat : SpentAgainst(a.payment) = Row(a.payment, n)
    BY <1>1, <1>3, SpentIsItsOwn
  <2>2. AgreesWith(SpentAgainst(a.payment), a.payment)
    BY <2>1 DEF AgreesWith, Row
  <2> DEFINE row == SpentAgainst(a.payment)
             total == row.spent + a.amount
             left == row.ceiling - row.spent
  <2>3. row.spent = n /\ row.ceiling = Maximum(Contents[a.payment]) /\ row.ceiling \in Nat
    BY <1>1, <1>3, <2>1, CeilingsAreAmounts DEF Row
  <2>4. /\ Rounded(total) = total /\ Rounded(left) = left
        /\ total < Limit /\ left < Limit /\ Limit \in Nat
    BY DecimalsAreHeld, SpendAssumption DEF Exact, SpendAssumption
  <2>5. ~Overflows(total) /\ ~Overflows(left)
    <3>1. total \in Int /\ left \in Int
      BY <1>1, <2>3
    <3> HIDE DEF total, left
    <3> QED
      BY <2>4, <3>1 DEF Overflows
  <2>6. Covers(row, a.amount) => ~Overdraws(row, a.amount)
    <3>1. Covers(row, a.amount) => total <= row.ceiling
      BY <2>4 DEF Covers
    <3>2. Covers(row, a.amount) => a.amount <= left
      BY <1>1, <2>3, <3>1
    <3>3. Left(row) = left /\ left \in Int
      BY <2>3, <2>4 DEF Left
    <3> HIDE DEF left, row
    <3> QED
      BY <1>1, <3>2, <3>3 DEF Overdraws
  <2> QED
    BY <1>2, <2>2, <2>5, <2>6, Check3Says
<1> QED
  BY <1>2, <1>3, Check3Says

\* What it passes is a forecast.
LEMMA PassesAreForecasts ==
  ASSUME Ledger, NEW a \in Bound, Check3(a) = "passed", NEW r,
         r.ask = a, r.already_spent = SpentAgainst(a.payment).spent
  PROVE  Forecast(r)
<1>1. a.payment \in PaymentsRead
  BY DEF Bound
<1>2. /\ HasBudget(Contents[a.payment]) /\ Covers(SpentAgainst(a.payment), a.amount)
      /\ AgreesWith(SpentAgainst(a.payment), a.payment)
      /\ ~Overflows(SpentAgainst(a.payment).spent + a.amount)
  BY Check3Says DEF Authorises
<1>3. PICK q \in PaymentsRead, n \in Nat : SpentAgainst(a.payment) = Row(q, n)
  BY <1>1, <1>2, SpentIsARow
<1>4. SpentAgainst(a.payment).spent \in Nat
  BY <1>3 DEF Row
<1> QED
  BY <1>2, <1>4 DEF Forecast, Covers, AgreesWith
-----------------------------------------------------------------------------
(* A close.                                                                *)

\* A draw the database lets stand leaves every row within its ceiling.
LEMMA DrawsStayWithin ==
  ASSUME Ledger, NEW p \in PaymentsRead, HasBudget(Contents[p]), NEW amount \in Nat,
         WithinCeiling(Drawn(SpentAgainst(p), amount)),
         ledger' = [id \in DOMAIN ledger \union {LedgerKey(p)} |->
                      IF id = LedgerKey(p) THEN Drawn(SpentAgainst(p), amount) ELSE ledger[id]]
  PROVE  Ledger'
<1>1. PICK q \in PaymentsRead, n \in Nat :
        /\ LedgerKey(q) = LedgerKey(p) /\ HasBudget(Contents[q])
        /\ n <= Maximum(Contents[q]) /\ SpentAgainst(p) = Row(q, n)
  BY SpentIsARow
<1>2. Maximum(Contents[q]) \in Nat
  BY <1>1, CeilingsAreAmounts
<1>3. n + amount \in Nat /\ n + amount <= Maximum(Contents[q])
  BY <1>1, <1>2 DEF WithinCeiling, Drawn, Row
<1>4. Drawn(SpentAgainst(p), amount) = Row(q, n + amount)
  BY <1>1 DEF Drawn, Row
<1>5. ASSUME NEW id \in DOMAIN ledger'
      PROVE  \E r \in PaymentsRead, m \in Nat :
               /\ LedgerKey(r) = id /\ HasBudget(Contents[r])
               /\ m <= Maximum(Contents[r]) /\ ledger'[id] = Row(r, m)
  <2>1. CASE id = LedgerKey(p)
    BY <1>1, <1>3, <1>4, <2>1
  <2>2. CASE id # LedgerKey(p)
    BY <2>2 DEF Ledger
  <2> QED
    BY <2>1, <2>2
<1> QED
  BY <1>5 DEF Ledger

\* It is a draw on the mandate it was made on, and on no other.
LEMMA DrawsAddUp ==
  ASSUME MandatesAreNamed, Ledger, NEW p \in PaymentsRead, HasBudget(Contents[p]),
         NEW amount \in Nat,
         ledger' = [id \in DOMAIN ledger \union {LedgerKey(p)} |->
                      IF id = LedgerKey(p) THEN Drawn(SpentAgainst(p), amount) ELSE ledger[id]],
         NEW q \in PaymentsRead
  PROVE  /\ LedgerKey(q) # LedgerKey(p) => SpentAgainst(q)' = SpentAgainst(q)
         /\ LedgerKey(q) = LedgerKey(p) =>
              \E n \in Nat : SpentAgainst(q) = Row(q, n) /\ SpentAgainst(q)' = Row(q, n + amount)
<1>1. CASE LedgerKey(q) # LedgerKey(p)
  BY <1>1 DEF SpentAgainst
<1>2. CASE LedgerKey(q) = LedgerKey(p)
  <2>1. Contents[q] = Contents[p]
    BY <1>2 DEF MandatesAreNamed, SignedName, LedgerKey
  <2>2. PICK n \in Nat : SpentAgainst(p) = Row(p, n)
    BY SpentIsItsOwn
  <2>3. SpentAgainst(q) = Row(q, n)
    BY <1>2, <2>1, <2>2 DEF SpentAgainst, NoSpend, Row
  <2>4. Drawn(SpentAgainst(p), amount) = Row(q, n + amount)
    BY <2>1, <2>2 DEF Drawn, Row
  <2>5. SpentAgainst(q)' = Row(q, n + amount)
    BY <1>2, <2>4 DEF SpentAgainst
  <2> QED
    BY <1>2, <2>3, <2>5
<1> QED
  BY <1>1, <1>2
-----------------------------------------------------------------------------
(* The invariant of the stages.                                            *)

\* One caller goes on to what the documents bear out, and the others stay.
LEMMA Moves ==
  ASSUME SpendInv, NEW c \in Callers, NEW r, Stage(r), at' = [at EXCEPT ![c] = r],
         now' = now, Ledger', charged' \in [{MandateOf[a.payment] : a \in Asks} -> Nat]
  PROVE  SpendInv'
<1>1. DOMAIN at' = Callers /\ \A b \in Callers : at'[b] = at[b] \/ at'[b] = r
  BY DEF SpendInv
<1>2. ASSUME NEW b \in Callers PROVE Stage(at[b])'
  <2>1. PICK q : q = at'[b] /\ Stage(q)
    BY <1>1 DEF SpendInv
  <2> QED
    BY <2>1 DEF Stage
<1> QED
  BY <1>1, <1>2 DEF SpendInv

\* The ledger is as it was where nobody draws on it.
LEMMA LedgerStays == ASSUME Ledger, ledger' = ledger PROVE Ledger'
BY DEF Ledger

\* Nobody has asked for anything, and nothing is spent.
LEMMA InitSpend == Init => SpendInv
<1> SUFFICES ASSUME Init PROVE SpendInv
  OBVIOUS
<1>1. at = [c \in Callers |-> [stage |-> "idle"]]
  BY DEF Init
<1>2. \A c \in Callers : Stage(at[c])
  BY <1>1 DEF Stage
<1>3. DOMAIN ledger = {} /\ now = 0
  BY DEF Init
<1>4. charged \in [{MandateOf[a.payment] : a \in Asks} -> Nat]
  BY DEF Init
<1> QED
  BY <1>1, <1>2, <1>3, <1>4, SpendAssumption DEF SpendInv, Ledger, SpendAssumption

\* Check 2, on the one mandate and on the other.
LEMMA VerifyingKeeps ==
  ASSUME SpendInv, NEW c \in Callers, VerifyCheckout(c) \/ VerifyPayment(c)
  PROVE  /\ SpendInv' /\ at' = [at EXCEPT ![c] = at'[c]]
         /\ UNCHANGED <<now, ledger, charged>>
         /\ at'[c].stage \in {"checkout", "verified", "refused"}
         /\ at'[c].stage = "refused" =>
              at'[c].reason \notin {"raised", "exceeds_remaining_balance"}
<1>i. DOMAIN at = Callers /\ Stage(at[c]) /\ Ledger
      /\ charged \in [{MandateOf[a.payment] : a \in Asks} -> Nat]
  BY DEF SpendInv
<1>1. UNCHANGED <<now, ledger, charged>>
  BY DEF VerifyCheckout, VerifyPayment
<1>2. CASE VerifyCheckout(c)
  <2>1. PICK a \in Asks : \E answer \in {CheckoutAnswer(a.checkout)} :
          at' = [at EXCEPT ![c] = IF answer = "passed" THEN [stage |-> "checkout", ask |-> a]
                                  ELSE [stage |-> "refused", ask |-> a, reason |-> answer]]
    BY <1>2 DEF VerifyCheckout
  <2>2. PICK answer : /\ answer = CheckoutAnswer(a.checkout)
                      /\ at' = [at EXCEPT ![c] =
                                  IF answer = "passed" THEN [stage |-> "checkout", ask |-> a]
                                  ELSE [stage |-> "refused", ask |-> a, reason |-> answer]]
    BY <2>1
  <2>3. /\ answer = "passed" => BoundCheckout(a)
        /\ answer \in {"passed", "mandate_signature_invalid", "mandate_expired",
                       "agent_mandate_mismatch"}
    <3>1. PICK is_read \in BOOLEAN : is_read = (a.checkout \in CheckoutsRead)
      BY MembershipIsAnAnswer
    <3>2. answer = Check2(is_read, Contents[a.checkout], AgentKey, now)
      BY <2>2, <3>1 DEF CheckoutAnswer
    <3> QED
      BY <3>1, <3>2, Check2Passes DEF BoundCheckout
  <2>4. PICK r : /\ at' = [at EXCEPT ![c] = r]
                 /\ r = IF answer = "passed" THEN [stage |-> "checkout", ask |-> a]
                        ELSE [stage |-> "refused", ask |-> a, reason |-> answer]
    BY <2>2
  <2>5. /\ Stage(r) /\ r.stage \in {"checkout", "verified", "refused"}
        /\ r.stage = "refused" => r.reason \notin {"raised", "exceeds_remaining_balance"}
    <3>1. CASE answer = "passed"
      BY <2>3, <2>4, <3>1 DEF Stage
    <3>2. CASE answer # "passed"
      BY <2>3, <2>4, <3>2 DEF Stage
    <3> QED
      BY <3>1, <3>2
  <2>6. at'[c] = r
    BY <1>i, <2>4
  <2>7. Ledger'
    BY <1>i, <1>1, LedgerStays
  <2>8. SpendInv'
    BY <1>i, <1>1, <2>4, <2>5, <2>7, Moves
  <2> QED
    BY <1>1, <2>4, <2>5, <2>6, <2>8
<1>3. CASE VerifyPayment(c)
  <2>1. PICK a : /\ a = at[c].ask
                 /\ \E answer \in {PaymentAnswer(a.payment)} :
                      at' = [at EXCEPT ![c] =
                               IF answer = "passed" THEN [stage |-> "verified", ask |-> a]
                               ELSE [stage |-> "refused", ask |-> a, reason |-> answer]]
    BY <1>3 DEF VerifyPayment
  <2>2. PICK answer : /\ answer = PaymentAnswer(a.payment)
                      /\ at' = [at EXCEPT ![c] =
                                  IF answer = "passed" THEN [stage |-> "verified", ask |-> a]
                                  ELSE [stage |-> "refused", ask |-> a, reason |-> answer]]
    BY <2>1
  <2>3. a \in Asks /\ BoundCheckout(a)
    BY <1>i, <1>3, <2>1 DEF Stage, VerifyPayment
  <2>4. /\ answer = "passed" => a \in Bound
        /\ answer \in {"passed", "mandate_signature_invalid", "mandate_expired",
                       "agent_mandate_mismatch"}
    <3>1. PICK is_read \in BOOLEAN : is_read = (a.payment \in PaymentsRead)
      BY MembershipIsAnAnswer
    <3>2. answer = Check2(is_read, Contents[a.payment], AgentKey, now)
      BY <2>2, <3>1 DEF PaymentAnswer
    <3> QED
      BY <2>3, <3>1, <3>2, Check2Passes DEF BoundCheckout, Bound
  <2>5. PICK r : /\ at' = [at EXCEPT ![c] = r]
                 /\ r = IF answer = "passed" THEN [stage |-> "verified", ask |-> a]
                        ELSE [stage |-> "refused", ask |-> a, reason |-> answer]
    BY <2>2
  <2>6. /\ Stage(r) /\ r.stage \in {"checkout", "verified", "refused"}
        /\ r.stage = "refused" => r.reason \notin {"raised", "exceeds_remaining_balance"}
    <3>1. CASE answer = "passed"
      BY <2>3, <2>4, <2>5, <3>1 DEF Stage
    <3>2. CASE answer # "passed"
      BY <2>3, <2>4, <2>5, <3>2 DEF Stage
    <3> QED
      BY <3>1, <3>2
  <2>7. at'[c] = r
    BY <1>i, <2>5
  <2>8. Ledger'
    BY <1>i, <1>1, LedgerStays
  <2>9. SpendInv'
    BY <1>i, <1>1, <2>5, <2>6, <2>8, Moves
  <2> QED
    BY <1>1, <2>5, <2>6, <2>7, <2>9
<1> QED
  BY <1>2, <1>3

\* Check 3.
LEMMA EvaluatingKeeps ==
  ASSUME SpendInv, NEW c \in Callers, Evaluate(c)
  PROVE  /\ SpendInv' /\ UNCHANGED <<now, ledger, charged>>
         /\ at' = [at EXCEPT ![c] = at'[c]]
         /\ at[c].ask \in Bound
         /\ \/ at'[c].stage = "authorised"
            \/ /\ at'[c].stage = "refused" /\ at'[c].ask = at[c].ask
               /\ at'[c].reason = Check3(at[c].ask)
<1>i. DOMAIN at = Callers /\ Stage(at[c]) /\ Ledger /\ now \in 0..MaxClock
      /\ charged \in [{MandateOf[a.payment] : a \in Asks} -> Nat]
  BY DEF SpendInv
<1>1. UNCHANGED <<now, ledger, charged>> /\ at[c].stage = "verified"
  BY DEF Evaluate
<1>2. PICK a : a = at[c].ask
  OBVIOUS
<1>3. a \in Bound /\ a \in Asks
  BY <1>i, <1>1, <1>2 DEF Stage
<1>4. PICK r : /\ at' = [at EXCEPT ![c] = r]
               /\ r = IF Check3(a) = "passed"
                      THEN [stage |-> "authorised", ask |-> a, when |-> now,
                            already_spent |-> SpentAgainst(a.payment).spent]
                      ELSE [stage |-> "refused", ask |-> a, reason |-> Check3(a)]
  BY <1>2 DEF Evaluate
<1>5. CASE Check3(a) = "passed"
  <2>1. Authorises(a) /\ Open(Contents[a.payment], now)
    BY <1>5, Check3Says
  <2>2. /\ r.stage = "authorised" /\ r.ask = a /\ r.when = now
        /\ r.already_spent = SpentAgainst(a.payment).spent
    BY <1>4, <1>5
  <2>3. Forecast(r)
    BY <1>i, <1>3, <1>5, <2>2, PassesAreForecasts
  <2>4. Stage(r)
    BY <1>i, <1>3, <2>1, <2>2, <2>3 DEF Stage
  <2> QED
    BY <1>i, <1>1, <1>2, <1>3, <1>4, <2>2, <2>4, LedgerStays, Moves
<1>6. CASE Check3(a) # "passed"
  <2>1. r.stage = "refused" /\ r.ask = a /\ r.reason = Check3(a)
    BY <1>4, <1>6
  <2>2. Check3(a) = "category_not_authorised" => ~Authorises(a)
    BY <1>3, Check3Says
  <2>3. Stage(r)
    BY <1>3, <2>1, <2>2 DEF Stage
  <2> QED
    BY <1>i, <1>1, <1>2, <1>3, <1>4, <2>1, <2>3, LedgerStays, Moves
<1> QED
  BY <1>5, <1>6

\* A deal that closes.
LEMMA ClosingKeeps ==
  ASSUME SpendInv, NEW c \in Callers, NEW amount \in CloseAmounts, Close(c, amount)
  PROVE  \E p \in PaymentsRead :
           /\ SpendInv' /\ now' = now
           /\ p = at[c].ask.payment /\ at[c].ask \in Asks
           /\ HasBudget(Contents[p]) /\ amount \in Nat
           /\ at' = [at EXCEPT ![c] = at'[c]] /\ at'[c].stage = "closed"
           /\ charged' = [charged EXCEPT ![MandateOf[p]] = @ + amount]
           /\ ledger' = [id \in DOMAIN ledger \union {LedgerKey(p)} |->
                           IF id = LedgerKey(p) THEN Drawn(SpentAgainst(p), amount)
                           ELSE ledger[id]]
<1>i. DOMAIN at = Callers /\ Stage(at[c]) /\ Ledger /\ now \in 0..MaxClock
      /\ charged \in [{MandateOf[a.payment] : a \in Asks} -> Nat]
  BY DEF SpendInv
<1>1. PICK a : a = at[c].ask
  OBVIOUS
<1>2. /\ at[c].stage = "authorised" /\ now' = now
      /\ WithinCeiling(Drawn(SpentAgainst(a.payment), amount))
      /\ ledger' = [id \in DOMAIN ledger \union {LedgerKey(a.payment)} |->
                      IF id = LedgerKey(a.payment) THEN Drawn(SpentAgainst(a.payment), amount)
                      ELSE ledger[id]]
      /\ charged' = [charged EXCEPT ![MandateOf[a.payment]] = @ + amount]
      /\ at' = [at EXCEPT ![c] = [stage |-> "closed", ask |-> a]]
  BY <1>1 DEF Close
<1>3. a \in Asks /\ a \in Bound /\ Authorises(a)
  BY <1>i, <1>1, <1>2 DEF Stage
<1>4. a.payment \in PaymentsRead /\ HasBudget(Contents[a.payment])
  BY <1>3 DEF Bound, Authorises
<1>5. amount \in Nat
  BY SpendAssumption DEF SpendAssumption
<1>6. Ledger'
  BY <1>i, <1>2, <1>4, <1>5, DrawsStayWithin
<1>7. charged' \in [{MandateOf[b.payment] : b \in Asks} -> Nat]
  <2>1. MandateOf[a.payment] \in {MandateOf[b.payment] : b \in Asks}
    BY <1>3
  <2>2. charged[MandateOf[a.payment]] + amount \in Nat
    BY <1>i, <1>5, <2>1
  <2> QED
    BY <1>i, <1>2, <2>2
<1>8. PICK r : at' = [at EXCEPT ![c] = r] /\ r = [stage |-> "closed", ask |-> a]
  BY <1>2
<1>9. Stage(r) /\ r.stage = "closed"
  BY <1>3, <1>8 DEF Stage
<1>10. SpendInv'
  BY <1>2, <1>6, <1>7, <1>8, <1>9, Moves
<1>11. at'[c] = r
  BY <1>i, <1>8
<1> QED
  BY <1>1, <1>2, <1>3, <1>4, <1>5, <1>8, <1>9, <1>10, <1>11

\* A deal that is over the ceiling, or whose draw raises.
LEMMA RaisingKeeps ==
  ASSUME SpendInv, NEW c \in Callers, NEW amount \in CloseAmounts, CloseRaises(c, amount)
  PROVE  /\ SpendInv' /\ UNCHANGED <<now, ledger, charged>>
         /\ at' = [at EXCEPT ![c] = at'[c]]
         /\ at'[c].ask = at[c].ask /\ at'[c].amount = amount /\ amount \in Nat
         /\ \/ /\ at'[c].stage = "ceiling" /\ ~Covers(SpentAgainst(at[c].ask.payment), amount)
            \/ at'[c].stage = "failed" /\ Fails(SpentAgainst(at[c].ask.payment), amount)
<1>i. DOMAIN at = Callers /\ Stage(at[c]) /\ Ledger
      /\ charged \in [{MandateOf[a.payment] : a \in Asks} -> Nat]
  BY DEF SpendInv
<1>1. PICK stage \in {"ceiling", "failed"} :
        /\ stage = "ceiling" => ~Covers(SpentAgainst(at[c].ask.payment), amount)
        /\ stage = "failed" => Fails(SpentAgainst(at[c].ask.payment), amount)
        /\ at' = [at EXCEPT ![c] = [stage |-> stage, ask |-> at[c].ask, amount |-> amount,
                                    already_spent |-> at[c].already_spent]]
  BY DEF CloseRaises, Fails
<1>2. PICK r : /\ at' = [at EXCEPT ![c] = r]
               /\ r = [stage |-> stage, ask |-> at[c].ask, amount |-> amount,
                       already_spent |-> at[c].already_spent]
  BY <1>1
<1>3. at[c].stage = "authorised" /\ UNCHANGED <<now, ledger, charged>>
  BY DEF CloseRaises
<1>4. /\ r.stage = stage /\ r.ask = at[c].ask /\ r.amount = amount
      /\ r.already_spent = at[c].already_spent
  BY <1>2
<1>5. Stage(r)
  BY <1>i, <1>1, <1>3, <1>4 DEF Stage, Forecast
<1>6. amount \in Nat
  BY SpendAssumption DEF SpendAssumption
<1>7. SpendInv'
  BY <1>i, <1>2, <1>3, <1>5, LedgerStays, Moves
<1> QED
  BY <1>i, <1>1, <1>2, <1>3, <1>4, <1>6, <1>7

\* A caller that has its answer.
LEMMA FinishingKeeps ==
  ASSUME SpendInv, NEW c \in Callers, Finish(c)
  PROVE  /\ SpendInv' /\ UNCHANGED <<now, ledger, charged>>
         /\ at' = [at EXCEPT ![c] = at'[c]] /\ at'[c].stage = "idle"
<1>i. DOMAIN at = Callers /\ Ledger
      /\ charged \in [{MandateOf[a.payment] : a \in Asks} -> Nat]
  BY DEF SpendInv
<1>1. PICK r : at' = [at EXCEPT ![c] = r] /\ r = [stage |-> "idle"]
  BY DEF Finish
<1>2. UNCHANGED <<now, ledger, charged>>
  BY DEF Finish
<1>3. Stage(r) /\ r.stage = "idle"
  BY <1>1 DEF Stage
<1>4. SpendInv'
  BY <1>i, <1>1, <1>2, <1>3, LedgerStays, Moves
<1> QED
  BY <1>i, <1>1, <1>2, <1>3, <1>4

\* The clock.
LEMMA ClockKeeps ==
  ASSUME SpendInv, UNCHANGED <<ledger, at, charged>>, now' = now \/ Tick
  PROVE  SpendInv'
<1>1. now' \in 0..MaxClock
  BY SpendAssumption DEF SpendInv, Tick, SpendAssumption
<1>2. Ledger'
  BY LedgerStays DEF SpendInv
<1>3. \A c \in Callers : Stage(at[c])'
  BY DEF SpendInv, Stage
<1> QED
  BY <1>1, <1>2, <1>3 DEF SpendInv

\* Every step keeps the invariant.
LEMMA NextSpend == SpendInv /\ [Next]_vars => SpendInv'
<1> SUFFICES ASSUME SpendInv, [Next]_vars PROVE SpendInv'
  OBVIOUS
<1>1. CASE Tick \/ UNCHANGED vars
  BY <1>1, ClockKeeps DEF Tick, vars
<1>2. ASSUME NEW c \in Callers,
             \/ VerifyCheckout(c) \/ VerifyPayment(c) \/ Evaluate(c) \/ Finish(c)
             \/ \E amount \in CloseAmounts : Close(c, amount) \/ CloseRaises(c, amount)
      PROVE  SpendInv'
  <2>1. CASE VerifyCheckout(c) \/ VerifyPayment(c)
    BY <2>1, VerifyingKeeps
  <2>2. CASE Evaluate(c)
    BY <2>2, EvaluatingKeeps
  <2>3. CASE Finish(c)
    BY <2>3, FinishingKeeps
  <2>4. ASSUME NEW amount \in CloseAmounts, Close(c, amount) PROVE SpendInv'
    BY <2>4, ClosingKeeps
  <2>5. ASSUME NEW amount \in CloseAmounts, CloseRaises(c, amount) PROVE SpendInv'
    BY <2>5, RaisingKeeps
  <2> QED
    BY <1>2, <2>1, <2>2, <2>3, <2>4, <2>5
<1> QED
  BY <1>1, <1>2 DEF Next
-----------------------------------------------------------------------------
(* The invariant of what the ledger says, where mandates have one name.    *)

\* What a row could not cover, or a draw would raise over, it still cannot, and would,
\* after another draw.
LEMMA StillShort ==
  ASSUME MandatesAreNamed, Ledger, NEW p \in PaymentsRead, HasBudget(Contents[p]),
         NEW amount \in Nat,
         ledger' = [id \in DOMAIN ledger \union {LedgerKey(p)} |->
                      IF id = LedgerKey(p) THEN Drawn(SpentAgainst(p), amount) ELSE ledger[id]],
         NEW q \in PaymentsRead, HasBudget(Contents[q]), NEW more \in Nat
  PROVE  /\ ~Covers(SpentAgainst(q), more) => ~Covers(SpentAgainst(q), more)'
         /\ Fails(SpentAgainst(q), more) => Fails(SpentAgainst(q), more)'
<1>1. CASE LedgerKey(q) # LedgerKey(p)
  <2>1. SpentAgainst(q)' = SpentAgainst(q)
    BY <1>1, DrawsAddUp
  <2> QED
    BY <2>1 DEF Covers, Fails, Overflows, WithinCeiling, Drawn
<1>2. CASE LedgerKey(q) = LedgerKey(p)
  <2>1. PICK n \in Nat : SpentAgainst(q) = Row(q, n) /\ SpentAgainst(q)' = Row(q, n + amount)
    BY <1>2, DrawsAddUp
  <2>2. Maximum(Contents[q]) \in Nat /\ Limit \in Nat
    BY CeilingsAreAmounts, SpendAssumption DEF SpendAssumption
  <2> DEFINE before == n + more
             after == (n + amount) + more
  <2>3. before \in Nat /\ after \in Nat /\ before <= after
    OBVIOUS
  <2>4. Rounded(before) \in Nat /\ Rounded(after) \in Nat /\ Rounded(before) <= Rounded(after)
    BY <2>3, RoundedIsNearest, RoundedGrows
  <2>5. /\ SpentAgainst(q).spent = n /\ SpentAgainst(q)'.spent = n + amount
        /\ SpentAgainst(q).ceiling = Maximum(Contents[q])
        /\ SpentAgainst(q)'.ceiling = Maximum(Contents[q])
    BY <2>1 DEF Row
  <2>6. /\ Drawn(SpentAgainst(q), more) = Row(q, before)
        /\ Drawn(SpentAgainst(q), more)' = Row(q, after)
    BY <2>1 DEF Drawn, Row
  <2> HIDE DEF before, after
  <2>7. /\ ~(Rounded(before) <= Maximum(Contents[q])) => ~(Rounded(after) <= Maximum(Contents[q]))
        /\ Rounded(before) >= Limit => Rounded(after) >= Limit
        /\ ~(before <= Maximum(Contents[q])) => ~(after <= Maximum(Contents[q]))
    BY <2>2, <2>3, <2>4
  <2>8. ~Covers(SpentAgainst(q), more) => ~Covers(SpentAgainst(q), more)'
    BY <2>5, <2>7 DEF Covers, before, after
  <2>9. Overflows(SpentAgainst(q).spent + more) => Overflows(SpentAgainst(q).spent + more)'
    BY <2>5, <2>7 DEF Overflows, before, after
  <2>10. ~WithinCeiling(Drawn(SpentAgainst(q), more)) =>
           ~WithinCeiling(Drawn(SpentAgainst(q), more))'
    BY <2>6, <2>7 DEF WithinCeiling, Row
  <2> QED
    BY <2>8, <2>9, <2>10 DEF Fails
<1> QED
  BY <1>1, <1>2

\* A close tells nobody anything that is no longer so.
LEMMA ToldThroughAClose ==
  ASSUME MandatesAreNamed, Ledger, NEW p \in PaymentsRead, HasBudget(Contents[p]),
         NEW amount \in Nat,
         ledger' = [id \in DOMAIN ledger \union {LedgerKey(p)} |->
                      IF id = LedgerKey(p) THEN Drawn(SpentAgainst(p), amount) ELSE ledger[id]],
         NEW r, Stage(r), Told(r)
  PROVE  Told(r)'
<1>1. CASE r.stage = "refused" /\ r.reason = "exceeds_remaining_balance"
  <2>1. /\ r.ask.payment \in PaymentsRead /\ r.ask.amount \in Nat
        /\ \/ ~HasBudget(Contents[r.ask.payment])
           \/ ~Covers(SpentAgainst(r.ask.payment), r.ask.amount)
    BY <1>1, SpendAssumption DEF Stage, Told, SpendAssumption
  <2>2. CASE ~HasBudget(Contents[r.ask.payment])
    BY <1>1, <2>1, <2>2 DEF Told
  <2>3. CASE HasBudget(Contents[r.ask.payment])
    <3>1. ~Covers(SpentAgainst(r.ask.payment), r.ask.amount)'
      BY <2>1, <2>3, StillShort
    <3> QED
      BY <1>1, <2>1, <3>1 DEF Told
  <2> QED
    BY <2>2, <2>3
<1>2. CASE r.stage = "ceiling"
  <2>1. /\ r.ask.payment \in PaymentsRead /\ HasBudget(Contents[r.ask.payment])
        /\ r.amount \in Nat /\ ~Covers(SpentAgainst(r.ask.payment), r.amount)
    BY <1>2 DEF Stage, Told, Bound, Authorises
  <2>2. ~Covers(SpentAgainst(r.ask.payment), r.amount)'
    BY <2>1, StillShort
  <2> QED
    BY <1>2, <2>1, <2>2 DEF Told
<1>3. CASE r.stage = "failed"
  <2>1. /\ r.ask.payment \in PaymentsRead /\ HasBudget(Contents[r.ask.payment])
        /\ r.amount \in Nat /\ Fails(SpentAgainst(r.ask.payment), r.amount)
    BY <1>3 DEF Stage, Told, Bound, Authorises
  <2>2. Fails(SpentAgainst(r.ask.payment), r.amount)'
    BY <2>1, StillShort
  <2> QED
    BY <1>3, <2>1, <2>2 DEF Told
<1>4. CASE /\ r.stage \notin {"ceiling", "failed"}
           /\ ~(r.stage = "refused" /\ r.reason = "exceeds_remaining_balance")
  BY <1>4 DEF Told
<1> QED
  BY <1>1, <1>2, <1>3, <1>4

\* A close is charged against the mandate whose row it is drawn on.
LEMMA ChargedThroughAClose ==
  ASSUME MandatesAreNamed, Ledger, Charged,
         charged \in [{MandateOf[a.payment] : a \in Asks} -> Nat],
         NEW p \in PaymentsRead, HasBudget(Contents[p]), NEW amount \in Nat,
         \E a \in Asks : a.payment = p,
         ledger' = [id \in DOMAIN ledger \union {LedgerKey(p)} |->
                      IF id = LedgerKey(p) THEN Drawn(SpentAgainst(p), amount) ELSE ledger[id]],
         charged' = [charged EXCEPT ![MandateOf[p]] = @ + amount]
  PROVE  Charged'
<1>1. MandateOf[p] \in DOMAIN charged /\ DOMAIN charged' = DOMAIN charged
  OBVIOUS
<1>2. /\ charged'[MandateOf[p]] = charged[MandateOf[p]] + amount
      /\ \A m \in DOMAIN charged : m # MandateOf[p] => charged'[m] = charged[m]
  BY <1>1
<1>3. ASSUME NEW a \in Asks, a.payment \in PaymentsRead, HasBudget(Contents[a.payment])
      PROVE  charged'[MandateOf[a.payment]] = SpentAgainst(a.payment)'.spent
  <2>1. charged[MandateOf[a.payment]] = SpentAgainst(a.payment).spent
        /\ MandateOf[a.payment] \in DOMAIN charged
    BY <1>3 DEF Charged
  <2>2. CASE MandateOf[a.payment] = MandateOf[p]
    <3>1. LedgerKey(a.payment) = LedgerKey(p)
      BY <1>3, <2>2 DEF MandatesAreNamed, SignedName, LedgerKey
    <3>2. PICK n \in Nat : /\ SpentAgainst(a.payment) = Row(a.payment, n)
                           /\ SpentAgainst(a.payment)' = Row(a.payment, n + amount)
      BY <1>3, <3>1, DrawsAddUp
    <3>3. charged[MandateOf[p]] = n /\ SpentAgainst(a.payment)'.spent = n + amount
      BY <2>1, <2>2, <3>2 DEF Row
    <3> QED
      BY <1>2, <2>2, <3>3
  <2>3. CASE MandateOf[a.payment] # MandateOf[p]
    <3>1. LedgerKey(a.payment) # LedgerKey(p)
      BY <1>3, <2>3 DEF MandatesAreNamed, SignedName, LedgerKey
    <3>2. SpentAgainst(a.payment)' = SpentAgainst(a.payment)
      BY <1>3, <3>1, DrawsAddUp
    <3> QED
      BY <1>2, <2>1, <2>3, <3>2
  <2> QED
    BY <2>2, <2>3
<1>4. ASSUME NEW m \in DOMAIN charged', charged'[m] # 0
      PROVE  \E a \in Asks : a.payment \in PaymentsRead /\ MandateOf[a.payment] = m
  <2>1. CASE m = MandateOf[p]
    BY <2>1
  <2>2. CASE m # MandateOf[p]
    <3>1. charged[m] # 0 /\ m \in DOMAIN charged
      BY <1>1, <1>2, <1>4, <2>2
    <3> QED
      BY <3>1 DEF Charged
  <2> QED
    BY <2>1, <2>2
<1> QED
  BY <1>3, <1>4 DEF Charged

\* Where nothing is drawn, what was told is so.
LEMMA NamedMoves ==
  ASSUME NamedInv, SpendInv', ledger' = ledger, charged' = charged,
         NEW c \in Callers, NEW r, Told(r), at' = [at EXCEPT ![c] = r]
  PROVE  NamedInv'
<1>1. \A q : SpentAgainst(q)' = SpentAgainst(q)
  BY DEF SpentAgainst
<1>2. Charged'
  BY <1>1 DEF NamedInv, Charged
<1>3. ASSUME NEW b \in Callers PROVE Told(at[b])'
  <2>1. PICK q : q = at'[b] /\ Told(q)
    BY DEF NamedInv, SpendInv
  <2>2. Told(q)'
    BY <1>1, <2>1 DEF Told
  <2> QED
    BY <2>1, <2>2 DEF Told
<1> QED
  BY <1>2, <1>3 DEF NamedInv

\* Before anything is asked.
LEMMA InitNamed == Init => NamedInv
<1> SUFFICES ASSUME Init PROVE NamedInv
  OBVIOUS
<1>1. /\ at = [c \in Callers |-> [stage |-> "idle"]] /\ DOMAIN ledger = {}
      /\ charged = [m \in {MandateOf[a.payment] : a \in Asks} |-> 0]
  BY DEF Init
<1>2. \A c \in Callers : Told(at[c])
  BY <1>1 DEF Told
<1>3. Charged
  BY <1>1 DEF Charged, SpentAgainst, NoSpend
<1> QED
  BY <1>2, <1>3, InitSpend DEF NamedInv

\* Every step keeps what was told true, where no two mandates share a name.
LEMMA NextNamed ==
  ASSUME MandatesAreNamed
  PROVE  NamedInv /\ [Next]_vars => NamedInv'
<1> SUFFICES ASSUME NamedInv, [Next]_vars PROVE NamedInv'
  OBVIOUS
<1>i. SpendInv /\ Charged /\ Ledger /\ \A c \in Callers : Told(at[c])
  BY DEF NamedInv, SpendInv
<1>s. SpendInv'
  BY <1>i, NextSpend
<1>1. CASE Tick \/ UNCHANGED vars
  <2>1. UNCHANGED <<ledger, at, charged>>
    BY <1>1 DEF Tick, vars
  <2>2. Charged'
    BY <1>i, <2>1 DEF Charged, SpentAgainst
  <2>3. \A c \in Callers : Told(at[c])'
    BY <1>i, <2>1 DEF Told, SpentAgainst
  <2> QED
    BY <1>s, <2>2, <2>3 DEF NamedInv
<1>2. ASSUME NEW c \in Callers, VerifyCheckout(c) \/ VerifyPayment(c) PROVE NamedInv'
  <2>1. PICK r : r = at'[c]
    OBVIOUS
  <2>2. /\ at' = [at EXCEPT ![c] = r] /\ ledger' = ledger /\ charged' = charged
        /\ r.stage \in {"checkout", "verified", "refused"}
        /\ r.stage = "refused" => r.reason \notin {"raised", "exceeds_remaining_balance"}
    BY <1>i, <1>2, <2>1, VerifyingKeeps
  <2>3. Told(r)
    BY <2>2 DEF Told
  <2> QED
    BY <1>s, <2>2, <2>3, NamedMoves
<1>3. ASSUME NEW c \in Callers, Evaluate(c) PROVE NamedInv'
  <2>1. PICK r, a : r = at'[c] /\ a = at[c].ask
    OBVIOUS
  <2>2. /\ at' = [at EXCEPT ![c] = r] /\ ledger' = ledger /\ charged' = charged
        /\ a \in Bound
        /\ \/ r.stage = "authorised"
           \/ r.stage = "refused" /\ r.ask = a /\ r.reason = Check3(a)
    BY <1>i, <1>3, <2>1, EvaluatingKeeps
  <2>3. a.payment \in PaymentsRead
    BY <2>2 DEF Bound
  <2>4. Check3(a) = "exceeds_remaining_balance" =>
          \/ ~HasBudget(Contents[a.payment])
          \/ ~Covers(SpentAgainst(a.payment), a.amount)
    BY Check3Says
  <2>5. Told(r)
    BY <2>2, <2>3, <2>4 DEF Told
  <2> QED
    BY <1>s, <2>2, <2>5, NamedMoves
<1>4. ASSUME NEW c \in Callers, Finish(c) PROVE NamedInv'
  <2>1. PICK r : r = at'[c]
    OBVIOUS
  <2>2. at' = [at EXCEPT ![c] = r] /\ ledger' = ledger /\ charged' = charged /\ r.stage = "idle"
    BY <1>i, <1>4, <2>1, FinishingKeeps
  <2>3. Told(r)
    BY <2>2 DEF Told
  <2> QED
    BY <1>s, <2>2, <2>3, NamedMoves
<1>5. ASSUME NEW c \in Callers, NEW amount \in CloseAmounts, CloseRaises(c, amount)
      PROVE  NamedInv'
  <2>1. PICK r : r = at'[c]
    OBVIOUS
  <2>2. /\ at' = [at EXCEPT ![c] = r] /\ ledger' = ledger /\ charged' = charged
        /\ r.amount = amount /\ amount \in Nat
        /\ \/ r.stage = "ceiling" /\ ~Covers(SpentAgainst(r.ask.payment), amount)
           \/ r.stage = "failed" /\ Fails(SpentAgainst(r.ask.payment), amount)
    BY <1>i, <1>5, <2>1, RaisingKeeps
  <2>3. Told(r)
    BY <2>2 DEF Told
  <2> QED
    BY <1>s, <2>2, <2>3, NamedMoves
<1>6. ASSUME NEW c \in Callers, NEW amount \in CloseAmounts, Close(c, amount)
      PROVE  NamedInv'
  <2>1. PICK p \in PaymentsRead :
          /\ p = at[c].ask.payment /\ at[c].ask \in Asks
          /\ HasBudget(Contents[p]) /\ amount \in Nat
          /\ at' = [at EXCEPT ![c] = at'[c]] /\ at'[c].stage = "closed"
          /\ charged' = [charged EXCEPT ![MandateOf[p]] = @ + amount]
          /\ ledger' = [id \in DOMAIN ledger \union {LedgerKey(p)} |->
                          IF id = LedgerKey(p) THEN Drawn(SpentAgainst(p), amount)
                          ELSE ledger[id]]
    BY <1>i, <1>6, ClosingKeeps
  <2>2. Charged'
    <3>1. \E a \in Asks : a.payment = p
      BY <2>1
    <3>2. charged \in [{MandateOf[a.payment] : a \in Asks} -> Nat]
      BY <1>i DEF SpendInv
    <3> QED
      BY <1>i, <2>1, <3>1, <3>2, ChargedThroughAClose
  <2>3. ASSUME NEW b \in Callers PROVE Told(at[b])'
    <3>1. PICK r : r = at'[b]
      OBVIOUS
    <3>2. CASE b = c
      BY <2>1, <3>2 DEF Told
    <3>3. CASE b # c
      <4>1. r = at[b]
        BY <1>i, <2>1, <3>1, <3>3 DEF SpendInv
      <4>2. Stage(r) /\ Told(r)
        BY <1>i, <4>1 DEF SpendInv
      <4>3. Told(r)'
        BY <1>i, <2>1, <4>2, ToldThroughAClose
      <4> QED
        BY <3>1, <4>3 DEF Told
    <3> QED
      BY <3>2, <3>3
  <2> QED
    BY <1>s, <2>2, <2>3 DEF NamedInv
<1> QED
  BY <1>1, <1>2, <1>3, <1>4, <1>5, <1>6 DEF Next
-----------------------------------------------------------------------------
(* What holds of every behaviour.                                          *)

\* Whatever the documents are, every row of the ledger is a mandate's own ceiling and
\* no more than it, and a caller goes on only as far as the documents take it.
THEOREM SpendInductive == Spec => []SpendInv
BY InitSpend, NextSpend, PTL DEF Spec

\* What the ledger has told a caller it still says, and what is charged against a
\* mandate is what its row has.
THEOREM NamedInductive ==
  ASSUME NEW key, ClaimsAreRead(key), MandatesAreSigned
  PROVE  Spec => []NamedInv
<1>1. MandatesAreNamed
  BY LedgerNamesAreMandates
<1>2. Init => NamedInv
  BY InitNamed
<1>3. NamedInv /\ [Next]_vars => NamedInv'
  BY <1>1, NextNamed
<1> QED
  BY <1>2, <1>3, PTL DEF Spec

\* What is charged against one signed Payment Mandate stays within the ceiling its
\* principal signed, over every presentation of it and every pair of closes; and every
\* row stays within its own ceiling.
THEOREM CeilingsAreTheMandates ==
  ASSUME NEW key, ClaimsAreRead(key), MandatesAreSigned, WalletIsAsSigned
  PROVE  Spec => []CeilingIsTheMandates
<1>n. MandatesAreNamed
  BY LedgerNamesAreMandates
<1>1. ASSUME NamedInv PROVE CeilingIsTheMandates
  <2>i. Ledger /\ Charged /\ charged \in [{MandateOf[a.payment] : a \in Asks} -> Nat]
    BY <1>1 DEF NamedInv, SpendInv
  <2>1. ASSUME NEW g \in Grants PROVE charged[g.payment] <= g.ceiling
    <3>1. g.ceiling \in Nat /\ g.payment \in DOMAIN charged /\ charged[g.payment] \in Nat
      BY <2>i, SpendAssumption DEF SpendAssumption
    <3>2. CASE charged[g.payment] = 0
      BY <3>1, <3>2
    <3>3. CASE charged[g.payment] # 0
      <4>1. PICK a \in Asks : a.payment \in PaymentsRead /\ MandateOf[a.payment] = g.payment
        BY <2>i, <3>1, <3>3 DEF Charged
      <4>2. HasBudget(Contents[a.payment]) /\ Maximum(Contents[a.payment]) = g.ceiling
        BY <4>1 DEF WalletIsAsSigned
      <4>3. PICK n \in Nat : n <= Maximum(Contents[a.payment])
                             /\ SpentAgainst(a.payment) = Row(a.payment, n)
        BY <2>i, <4>1, <4>2, SpentIsItsOwn, <1>n
      <4>4. charged[g.payment] = n
        BY <2>i, <4>1, <4>2, <4>3 DEF Charged, Row
      <4> QED
        BY <4>2, <4>3, <4>4
    <3> QED
      BY <3>2, <3>3
  <2>2. ASSUME NEW id \in DOMAIN ledger PROVE ledger[id].spent \in 0..ledger[id].ceiling
    <3>1. PICK p \in PaymentsRead, n \in Nat :
            HasBudget(Contents[p]) /\ n <= Maximum(Contents[p]) /\ ledger[id] = Row(p, n)
      BY <2>i DEF Ledger
    <3>2. Maximum(Contents[p]) \in Nat
      BY <3>1, CeilingsAreAmounts
    <3>3. ledger[id].spent = n /\ ledger[id].ceiling = Maximum(Contents[p])
      BY <3>1 DEF Row
    <3> QED
      BY <3>1, <3>2, <3>3
  <2> QED
    BY <2>1, <2>2 DEF CeilingIsTheMandates
<1> QED
  BY <1>1, NamedInductive, PTL

\* Check 3 answers every request it is asked on mandates check 2 verified, whatever was
\* drawn on the mandate before, and raises over none but one whose sum with what is spent,
\* or the ceiling's difference from it, the decimal context cannot hold as it is.
THEOREM CheckThreeAlwaysAnswers ==
  ASSUME NEW key, ClaimsAreRead(key), MandatesAreSigned
  PROVE  Spec => CheckThreeAnswers
<1>n. MandatesAreNamed
  BY LedgerNamesAreMandates
<1>1. ASSUME NamedInv, [Next]_vars, NEW c \in Callers, Raises(c)
      PROVE  ~SumsAreExact(at[c].ask)
  <2>i. SpendInv /\ Ledger /\ DOMAIN at = Callers
    BY <1>1 DEF NamedInv, SpendInv
  <2>1. at'[c] # at[c]
    BY <1>1 DEF Raises
  <2>2. PICK b \in Callers :
          \/ VerifyCheckout(b) \/ VerifyPayment(b) \/ Evaluate(b) \/ Finish(b)
          \/ \E amount \in CloseAmounts : Close(b, amount) \/ CloseRaises(b, amount)
    BY <1>1, <2>1 DEF Next, Tick, vars
  <2>3. at' = [at EXCEPT ![b] = at'[b]]
    BY <2>i, <2>2, VerifyingKeeps, EvaluatingKeeps, FinishingKeeps, ClosingKeeps, RaisingKeeps
  <2>4. b = c
    BY <2>i, <2>1, <2>3
  <2>5. Evaluate(c)
    BY <1>1, <2>2, <2>4 DEF Raises, VerifyCheckout, VerifyPayment, Finish, Close, CloseRaises
  <2>6. at[c].ask \in Bound /\ Check3(at[c].ask) = "raised"
    BY <1>1, <2>i, <2>5, EvaluatingKeeps DEF Raises
  <2> QED
    BY <1>n, <2>i, <2>6, Check3Answers DEF SumsAreExact
<1>2. NamedInv /\ [Next]_vars => [\A c \in Callers : Raises(c) => ~SumsAreExact(at[c].ask)]_vars
  BY <1>1
<1> QED
  BY <1>2, NamedInductive, PTL DEF Spec, CheckThreeAnswers

\* A request is refused as not authorised, or passed, by what the principal granted, and
\* passed only while the principal's own window is open: neither the clock, which moves
\* between the reads of check 2 and those of check 3, nor the other callers change it.
THEOREM GrantsDecide ==
  ASSUME WalletIsAsSigned
  PROVE  Spec => []PassesWhatWasGranted
<1>1. ASSUME SpendInv PROVE PassesWhatWasGranted
  <2>1. ASSUME NEW c \in Callers, at[c].stage = "refused",
               at[c].reason = "category_not_authorised"
        PROVE  GrantsFor(at[c].ask) = {}
    <3>1. at[c].ask \in Bound /\ ~Authorises(at[c].ask)
      BY <1>1, <2>1 DEF SpendInv, Stage
    <3> QED
      BY <3>1 DEF WalletIsAsSigned
  <2>2. ASSUME NEW c \in Callers, at[c].stage = "authorised"
        PROVE  /\ GrantsFor(at[c].ask) # {}
               /\ \E g \in GrantsFor(at[c].ask) : at[c].when \in g.opens..g.closes
    <3>1. /\ at[c].ask \in Bound /\ Authorises(at[c].ask)
          /\ at[c].when \in 0..MaxClock /\ Open(Contents[at[c].ask.payment], at[c].when)
      BY <1>1, <2>2 DEF SpendInv, Stage
    <3> QED
      BY <3>1 DEF WalletIsAsSigned
  <2> QED
    BY <2>1, <2>2 DEF PassesWhatWasGranted, PairsAreThePrincipals, PassedInsideTheWindow
<1> QED
  BY <1>1, SpendInductive, PTL

\* What check 3 says of the balance: a deal that closes for no more than was asked and is
\* refused by the ceiling lost a race to another, or adds up to what 28 digits do not
\* hold; and what a mandate could not cover it never can again.
THEOREM ForecastsAreKept ==
  ASSUME NEW key, ClaimsAreRead(key), MandatesAreSigned
  PROVE  Spec => []ForecastsHold
<1>n. MandatesAreNamed
  BY LedgerNamesAreMandates
<1>1. ASSUME NamedInv PROVE ForecastsHold
  <2>i. /\ Ledger /\ Charged
        /\ \A c \in Callers : Stage(at[c]) /\ Told(at[c])
    BY <1>1 DEF NamedInv, SpendInv
  <2>1. ASSUME NEW c \in Callers, at[c].stage \in {"ceiling", "failed"},
               at[c].amount <= at[c].ask.amount,
               ~(charged[MandateOf[at[c].ask.payment]] > at[c].already_spent)
        PROVE  at[c].stage = "failed" /\ at[c].already_spent + at[c].ask.amount \notin Decimals
    <3>1. PICK a, s, amount : a = at[c].ask /\ s = at[c].already_spent /\ amount = at[c].amount
      OBVIOUS
    <3>2. /\ a \in Bound /\ Authorises(a) /\ s \in Nat /\ ~Overflows(s + a.amount)
          /\ Rounded(s + a.amount) <= Maximum(Contents[a.payment])
      BY <2>i, <2>1, <3>1 DEF Stage, Forecast
    <3>3. /\ amount \in Nat
          /\ at[c].stage = "ceiling" => ~Covers(SpentAgainst(a.payment), amount)
          /\ at[c].stage = "failed" => Fails(SpentAgainst(a.payment), amount)
      BY <2>i, <2>1, <3>1 DEF Told
    <3>4. /\ a \in Asks /\ a.payment \in PaymentsRead /\ a.amount \in Nat
          /\ HasBudget(Contents[a.payment]) /\ Limit \in Nat
      BY <3>2, SpendAssumption DEF Bound, Authorises, SpendAssumption
    <3>5. Maximum(Contents[a.payment]) \in Nat
      BY <3>4, CeilingsAreAmounts
    <3>6. PICK n \in Nat : SpentAgainst(a.payment) = Row(a.payment, n)
      BY <1>n, <2>i, <3>4, SpentIsItsOwn
    <3>7. charged[MandateOf[a.payment]] = n
      BY <2>i, <3>4, <3>6 DEF Charged, Row
    <3>8. amount <= a.amount /\ ~(n > s)
      BY <2>1, <3>1, <3>7
    <3> DEFINE total == n + amount
               most == s + a.amount
               max == Maximum(Contents[a.payment])
    <3>9. total \in Nat /\ most \in Nat /\ total <= most
      BY <3>2, <3>3, <3>4, <3>8
    <3>10. /\ Rounded(total) \in Nat /\ Rounded(most) \in Nat
           /\ Rounded(total) <= Rounded(most)
      BY <3>9, RoundedIsNearest, RoundedGrows
    <3>11. /\ SpentAgainst(a.payment).spent + amount = total
           /\ SpentAgainst(a.payment).ceiling = max
           /\ Drawn(SpentAgainst(a.payment), amount) = Row(a.payment, total)
      BY <3>6 DEF Drawn, Row
    <3>12. ~(Rounded(most) >= Limit) /\ Rounded(most) <= max
      BY <3>2 DEF Overflows
    <3>13. max \in Nat
      BY <3>5
    <3>14. Row(a.payment, total).spent = total /\ Row(a.payment, total).ceiling = max
      BY DEF Row
    <3> HIDE DEF total, most, max
    <3>15. Covers(SpentAgainst(a.payment), amount)
      BY <3>10, <3>11, <3>12, <3>13 DEF Covers
    <3>16. ~Overflows(total)
      BY <3>4, <3>10, <3>12 DEF Overflows
    <3>17. at[c].stage = "failed" /\ ~(total <= max)
      BY <2>1, <3>3, <3>11, <3>14, <3>15, <3>16 DEF Fails, WithinCeiling
    <3>18. most \notin Decimals
      BY <3>9, <3>12, <3>13, <3>17, DecimalsAreHeld
    <3> QED
      BY <3>1, <3>17, <3>18 DEF most
  <2>2. ASSUME NEW c \in Callers, at[c].stage = "refused",
               at[c].reason = "exceeds_remaining_balance"
        PROVE  Check3(at[c].ask) # "passed"
    BY <2>i, <2>2, Check3Says DEF Told, Authorises
  <2>3. OnlyARaceBreaksAForecast
    BY <2>1 DEF OnlyARaceBreaksAForecast
  <2>4. BalanceRefusalIsFinal
    BY <2>2 DEF BalanceRefusalIsFinal
  <2> QED
    BY <2>3, <2>4 DEF ForecastsHold
<1> QED
  BY <1>1, NamedInductive, PTL
=============================================================================
