---------------------------- MODULE MCPresentation ----------------------------
(* The documents, and the parts they can be put together from, for TLC.    *)
EXTENDS Presentation

MCTicksPerSecond == 2
MCDeskMandateKey == "desk"
MCDeskReceiptKey == "desk-receipt"
MCBLANK == "  "
MCOVERLONG == "too long to store"
MCEndorsedKey == "agent"
MCSignatureForms == {"first", "second"}

Principal == "principal"
PrincipalJws(payload) == Jws(Header("ES256", "example+sd-jwt", "ann"), payload, Principal, "first")
Sha256(d) == Digest("sha-256", <<d>>)

Open == "vct" :> Text("open")
Ceiling == Property("s1", "ceiling", Number(5))
OnlyFrom == Property("s2", "only_from", Array(<<Text("desk")>>))
Overwrites == Property("s3", "vct", Text("closed"))
Introduces == Property("s4", "_sd", Array(<<>>))
Twin == Property("s5", "ceiling", Number(9))
Elsewhere == Element("s6", Text("shop"))
Nested == Element("s7", Object(Open @@ "ceiling" :> Number(5)))
Outer == Property("s8", "limits", Hiding("floor" :> Number(1), <<Sha256(Ceiling)>>))

-----------------------------------------------------------------------------
Issued == [
  nested |-> [jws |-> PrincipalJws(SdJwtClaims(Nested)), key |-> Principal, parts |-> {Nested},
              means |-> Object("delegate_payload" :> Array(<<Nested.value>>))],
  flat |-> [jws |-> PrincipalJws(Hiding(Open, <<Sha256(Ceiling), Sha256(OnlyFrom)>>)),
            key |-> Principal, parts |-> {Ceiling, OnlyFrom},
            means |-> Object(Open @@ "ceiling" :> Number(5)
                                  @@ "only_from" :> Array(<<Text("desk")>>))],
  sha512 |-> [jws |-> PrincipalJws(Hiding(Open @@ "_sd_alg" :> Text("sha-512"),
                                          <<Digest("sha-512", <<Ceiling>>)>>)),
              key |-> Principal, parts |-> {Ceiling},
              means |-> Object(Open @@ "ceiling" :> Number(5))],
  within |-> [jws |-> PrincipalJws(Hiding(Open, <<Sha256(Outer)>>)),
              key |-> Principal, parts |-> {Outer, Ceiling},
              means |-> Object(Open @@ "limits" :>
                          Object("floor" :> Number(1) @@ "ceiling" :> Number(5)))]]

MCMandates == {Issued[n] : n \in DOMAIN Issued}

\* Signed, and nothing an honest wallet writes: a claim written over, two claims of one
\* name, one digest in two places, a named claim in an array, an element in an object, a
\* digest nothing answers, a hash and a signature scheme the Desk does not know.
MisissuedPayloads ==
  {Hiding(Open, <<Sha256(Overwrites)>>),
   Hiding(Open, <<Sha256(Ceiling), Sha256(Twin)>>),
   Hiding(Open, <<Sha256(Ceiling), Sha256(Ceiling)>>),
   Object(Open @@ "list" :> Array(<<Placeholder(Sha256(Ceiling))>>)),
   Hiding(Open, <<Sha256(Elsewhere)>>),
   Hiding(Open, <<Sha256(Ceiling), Sha256(Element("s0", Null))>>),
   Hiding(Open, <<Sha256(Introduces)>>),
   Hiding(Open @@ "_sd_alg" :> Text("md5"), <<Digest("md5", <<Ceiling>>)>>)}

MCMisissued ==
  {[jws |-> PrincipalJws(p), key |-> Principal] : p \in MisissuedPayloads}
    \union {[jws |-> [Issued.flat.jws EXCEPT !.header.alg = "EdDSA"], key |-> Principal]}

-----------------------------------------------------------------------------
DealOf(quantity, terms, at) ==
  [open_checkout |-> DigestText(Digest("sha-256", <<SigningInput(Issued.nested.jws)>>)),
   currency |-> "USD",
   items |-> <<[id |-> "chair", quantity |-> quantity, unit_price |-> 7]>>,
   charges |-> <<[label |-> "express", amount |-> 2]>>,
   terms |-> "delivery" :> terms,
   agreed_at |-> at]

Closed(checkout, by) == CloseCheckout(checkout, "s9", by, Seconds(checkout.agreed_at))

DealWith(checkout, pays) ==
  LET wire_ == Closed(checkout, MCDeskMandateKey)
  IN  [jws |-> wire_[1], parts |-> {wire_[2]}, checkout |-> checkout, pays |-> pays,
       salt |-> "s9", issued_at |-> Seconds(checkout.agreed_at),
       name |-> HashOf(Encoded(InnerJws(checkout, MCDeskMandateKey)))]

MCDeals == {DealWith(DealOf(1, "express", 3), 9), DealWith(DealOf(2, "express", 4), 16)}

\* A closing somebody else signed, in the Desk's name, and one whose envelope alone is
\* the Desk's.
Foreign == Closed(DealOf(1, "express", 2), "other")
MCForeignJwss == {Foreign[1], [Issued.flat.jws EXCEPT !.by = "other"],
                  InnerJws(DealOf(1, "express", 3), MCDeskMandateKey)}

MCDisclosures ==
  {Ceiling, OnlyFrom, Overwrites, Introduces, Twin, Elsewhere, Nested, Outer, Foreign[2],
   Unreadable} \union UNION {d.parts : d \in MCDeals}

-----------------------------------------------------------------------------
HopClaims(over, alg) ==
  [nonce |-> Text("n1"), aud |-> Text("desk"), iat |-> Number(1),
   sd_hash |-> DigestText(Digest(alg, over))]

Hop(typ, by, claims) ==
  Jws(Header("EdDSA", typ, "agent"), Object(claims), by, "first")

HopOver(over, alg) ==
  [jws |-> Hop("kb+jwt", MCEndorsedKey, HopClaims(over, alg)), over |-> over]

OverNested == <<Issued.nested.jws, Nested>>
Again == HopClaims(OverNested, "sha-256")

\* Hops over presentations that are read, in the orders and forms they come in; ones
\* made over a document's JWS alone and under another hash; and ones of another shape.
MCHops ==
  {HopOver(OverNested, "sha-256"), HopOver(OverNested, "sha-512"),
   HopOver(<<[Issued.nested.jws EXCEPT !.form = "second"], Nested>>, "sha-256"),
   HopOver(<<Issued.nested.jws>>, "sha-256"),
   HopOver(<<Issued.flat.jws, Ceiling, OnlyFrom>>, "sha-256"),
   HopOver(<<Issued.sha512.jws, Ceiling>>, "sha-512")}
  \union {[jws |-> h, over |-> OverNested] : h \in
           {Hop("kb+sd-jwt", MCEndorsedKey, Again), Hop("kb+jwt", "other", Again),
            [Hop("kb+jwt", MCEndorsedKey, Again) EXCEPT !.header.alg = "ES256"],
            Hop("kb+jwt", MCEndorsedKey, [Again EXCEPT !.nonce = Text(MCBLANK)]),
            Hop("kb+jwt", MCEndorsedKey, [Again EXCEPT !.nonce = Text(MCOVERLONG)]),
            Hop("kb+jwt", MCEndorsedKey, [Again EXCEPT !.aud = Null]),
            Hop("kb+jwt", MCEndorsedKey, [Again EXCEPT !.iat = Flag(TRUE)])}}

MCCharges ==
  {[charge |-> [completed |-> c, rail |-> "paypal", status |-> "done", charge_id |-> "ch1"],
    mandate |-> Digest("sha-256", <<"payment mandate">>), agent |-> "agent", at |-> 5] :
     c \in BOOLEAN}

\* These parts are what the theorems ask of any.
ASSUME MCPartsAssumption ==
  /\ PartsAreOfTheirKind /\ MandatesAreIssued
  /\ SignaturesAreTheirs /\ HopsNameWhatTheyAreFor
  /\ DealsAreClosings /\ ChargesAreTold
=============================================================================
