------------------------------ MODULE Disclosure ------------------------------
(***************************************************************************)
(* desk/mandate/sdjwt.py and issue.py: what the Desk takes a presentation  *)
(* to say, its disclosures put where their digests stand.  No variables.   *)
(*                                                                         *)
(* Every refusal of the code is one exception, so what is left of a check  *)
(* here is a predicate, and of the order of the checks nothing.            *)
(***************************************************************************)
EXTENDS Envelope

\* Bound: how deep a document may be nested and be walked at all.  The code's own is the
\* interpreter's, and past it verify_presentation does not return either.
CONSTANT MaxNesting

\* There is room at least for what the Desk writes itself.
ASSUME NestingAssumption == MaxNesting \in Nat /\ MaxNesting >= 4

MANDATE_ALG == "ES256"
Reserved == {"_sd", "..."}
-----------------------------------------------------------------------------
(* Resolving the disclosures.                                              *)

ParsesAsDisclosure(segment) ==
  \/ segment.is = "element"
  \/ segment.is = "property" /\ segment.name \notin Reserved

\* The disclosures sent, by the digest each answers.
Available(wire, alg) ==
  LET sent == ToSet(Sent(wire))
  IN  [d \in {Digest(alg, <<s>>) : s \in sent} |-> d.over[1]]

\* A place in a document: the steps that lead to it, and the value there.
Place(steps, value) == [at |-> steps, value |-> value]

Hidden(v, i) == v.items[i].kind = "hidden"

\* The digests that stand right in a place: for a member of an object, and among which,
\* or for an element of an array.
Standing(place) ==
  LET v == place.value
  IN  CASE v.kind = "object" ->
             {[at |-> Append(place.at, <<"_sd", i>>), digest |-> v.sd[i], role |-> "object",
               among |-> DOMAIN v.members] : i \in DOMAIN v.sd}
        [] v.kind = "array" ->
             {[at |-> Append(place.at, <<"item", i>>), digest |-> v.items[i].digest,
               role |-> "array", among |-> {}] : i \in {j \in DOMAIN v.items : Hidden(v, j)}}
        [] OTHER -> {}

\* The places right under one that are there to be seen.
Shown(place) ==
  LET v == place.value
  IN  CASE v.kind = "object" ->
             {Place(Append(place.at, <<"member", n>>), v.members[n]) : n \in DOMAIN v.members}
        [] v.kind = "array" ->
             {Place(Append(place.at, <<"item", i>>), v.items[i]) :
                i \in {j \in DOMAIN v.items : ~Hidden(v, j)}}
        [] OTHER -> {}

\* And with those that the disclosures sent put there.
Under(place, available) ==
  Shown(place) \union
    {Place(s.at, available[s.digest].value) :
       s \in {t \in Standing(place) : t.digest \in DOMAIN available}}

\* The places of a document, by how deep they are.
Levels(payload, available) ==
  LET level[n \in 0..(MaxNesting + 1)] ==
        IF n = 0 THEN {Place(<<>>, payload)}
        ELSE UNION {Under(p, available) : p \in level[n - 1]}
  IN  level

Places(payload, available) ==
  UNION {Levels(payload, available)[n] : n \in 0..MaxNesting}

Slots(payload, available) == UNION {Standing(p) : p \in Places(payload, available)}

\* A value, each disclosure put where its digest stands and what is under it being `said'.
Put(v, available, said) ==
  CASE v.kind = "object" ->
         LET shown == {available[d] : d \in ToSet(v.sd) \intersect DOMAIN available}
             Claim(n) == (CHOOSE s \in shown : s.name = n).value
         IN  Object([n \in DOMAIN v.members \union {s.name : s \in shown} |->
                       said[IF n \in DOMAIN v.members THEN v.members[n] ELSE Claim(n)]])
    [] v.kind = "array" ->
         Array([i \in DOMAIN v.items |->
                  IF ~Hidden(v, i) THEN said[v.items[i]]
                  ELSE IF v.items[i].digest \in DOMAIN available
                       THEN said[available[v.items[i].digest].value] ELSE v.items[i]])
    [] OTHER -> v

\* What each value of a document says, so many levels down.
Readings(payload, available) ==
  LET values == {p.value : p \in Places(payload, available)}
      said[n \in 0..MaxNesting] ==
        [v \in values |-> IF n = 0 THEN v ELSE Put(v, available, said[n - 1])]
  IN  said

Resolved(payload, available) == Readings(payload, available)[MaxNesting][payload]

\* A disclosure has a name exactly where it stands in an object, and there takes
\* nobody else's.
Fits(slots, available) ==
  \A s \in slots :
    LET said == available[s.digest]
    IN  IF s.role = "array" THEN said.is = "element"
        ELSE /\ said.is = "property"
             /\ said.name \notin s.among
             /\ \A t \in slots \ {s} :
                  /\ t.role = "object" /\ Front(t.at) = Front(s.at)
                  /\ available[t.digest].is = "property"
                  => available[t.digest].name # said.name

\* Mutation: RFC 9901's own rule, by which a holder leaves out what it likes.
ResolvesWithheld(payload, available) ==
  LET slots == {s \in Slots(payload, available) : s.digest \in DOMAIN available}
  IN  /\ DOMAIN available = {s.digest : s \in slots}
      /\ \A s, t \in slots : s.digest = t.digest => s = t
      /\ Fits(slots, available)

\* _resolve: none unused, none withheld, none spent twice, each in its place.
Resolves(payload, available) ==
  LET slots == Slots(payload, available)
  IN  /\ Levels(payload, available)[MaxNesting + 1] = {}
      /\ DOMAIN available = {s.digest : s \in slots}
      /\ \A s, t \in slots : s.digest = t.digest => s = t
      /\ Fits(slots, available)

\* Whether verify_presentation returns, under the key it is given.
VerifiesUnder(wire, key) ==
  /\ IsPresentation(wire)
  /\ LET jws == IssuerJws(wire)
     IN  /\ jws.is = "jws" /\ jws.header.alg = MANDATE_ALG /\ jws.by = key
         /\ jws.payload.kind = "object"
         /\ SdAlgKnown(jws.payload)
         /\ IsInjective(Sent(wire))
         /\ \A i \in DOMAIN Sent(wire) : ParsesAsDisclosure(Sent(wire)[i])
         /\ Resolves(jws.payload, Available(wire, SdAlg(jws.payload)))

\* What it returns: the claims proven, and the two digests that name the mandate.
Presented(wire) ==
  LET payload == IssuerJws(wire).payload
      alg == SdAlg(payload)
  IN  [claims |-> Without(Resolved(payload, Available(wire, alg)), "_sd_alg"),
       digest |-> DigestOf(wire, alg),
       mandate_id |-> SignedDigestOf(wire, alg)]
-----------------------------------------------------------------------------
(* Issuing: one disclosure of the whole content, under the digest of it.   *)

SdJwtClaims(disclosure) ==
  Object([n \in {"delegate_payload", "_sd_alg"} |->
            IF n = "_sd_alg" THEN Text(DEFAULT_SD_ALG)
            ELSE Array(<<Placeholder(Digest(DEFAULT_SD_ALG, <<disclosure>>))>>)])

Present(jws, disclosure) == <<jws, disclosure, Nothing>>

\* An SD-JWT of one nested mandate, as issue.py has it made and signed.
Issue(content, salt, kid, by, form) ==
  LET disclosure == Element(salt, content)
  IN  Present(Jws(Header(MANDATE_ALG, "example+sd-jwt", kid), SdJwtClaims(disclosure), by, form),
              disclosure)
=============================================================================
