----------------------------- MODULE Presentation -----------------------------
(***************************************************************************)
(* A presentation on the wire.  Whoever holds an issued document puts the  *)
(* parts together, in any order, with any of them left out and any others  *)
(* beside them, and hands the Desk the result; the Desk's readers are the  *)
(* operators of Disclosure and Documents.                                  *)
(*                                                                         *)
(* Only the parts exist that somebody could have made: a JWS carries the   *)
(* signature of the party that made it, and a hop the digest of the        *)
(* presentation its agent made it over.                                    *)
(***************************************************************************)
EXTENDS Documents

CONSTANTS
  Mandates,      \* documents issued: [jws, key, parts, means]
  Misissued,     \* JWSs signed over digests no honest issuer writes: [jws, key]
  Deals,         \* what the Desk closed: [jws, parts, checkout, salt, issued_at, pays, name]
  ForeignJwss,   \* JWSs signed by somebody the Desk is not asking about
  Disclosures,   \* every disclosure there is, and what does not decode to one
  Hops,          \* the hops agents made: [jws, over], `over' the parts hashed
  Charges,       \* what the rail may answer: [charge, mandate, agent, at]
  EndorsedKey,   \* the key the mandates endorse
  SignatureForms,
  MaxSegments

VARIABLE wire

\* The forms of a JWS that verify as it does: its signature is not part of what it covers.
FormsOf(jws) == {[jws EXCEPT !.form = f] : f \in SignatureForms}

Jwss ==
  {d.jws : d \in Misissued} \union ForeignJwss
    \union UNION {FormsOf(d.jws) : d \in Mandates \union Deals}
HopJwss == {h.jws : h \in Hops}

Unstarted == wire = <<>>

StartWith(jws) ==
  /\ wire = <<>>
  /\ wire' = <<jws>>

\* Bound: nothing is put after a hop but the end, nor after the end.
Disclose(d) ==
  /\ wire # <<>> /\ Len(wire) < MaxSegments
  /\ Last(wire) \notin HopJwss \union {Nothing}
  /\ wire' = Append(wire, d)

BindWith(hop) ==
  /\ wire # <<>> /\ Len(wire) < MaxSegments
  /\ Last(wire) \notin HopJwss \union {Nothing}
  /\ wire' = Append(wire, hop)

EndUnbound ==
  /\ wire # <<>> /\ Len(wire) < MaxSegments
  /\ wire' = Append(wire, Nothing)

PutTogether ==
  \/ \E jws \in Jwss : StartWith(jws)
  \/ \E d \in Disclosures : Disclose(d)
  \/ \E hop \in HopJwss : BindWith(hop)
  \/ EndUnbound

Presenting == Unstarted /\ [][PutTogether]_wire
-----------------------------------------------------------------------------
(* What the parts have to be, for what follows to hold of them.            *)

Signers == {d.key : d \in Mandates \union Misissued}

IsJws(segment) ==
  segment = Jws(segment.header, segment.payload, segment.by, segment.form)

PartsAreOfTheirKind ==
  /\ \A d \in Mandates \union Deals \union Misissued \union Hops : IsJws(d.jws)
  /\ \A jws \in ForeignJwss : IsJws(jws)
  /\ \A d \in Disclosures : d.is # "jws"

AsIssued(m) == <<m.jws>> \o SetToSeq(m.parts) \o <<Nothing>>

\* What a principal issues is a mandate, and means what it is read as.
MandatesAreIssued ==
  \A m \in Mandates :
    /\ IsFiniteSet(m.parts)
    /\ VerifiesUnder(AsIssued(m), m.key) /\ Presented(AsIssued(m)).claims = m.means

\* The digests that anybody can see are signed for.
InPlainSight(payload) ==
  LET root == Place(<<>>, payload)
  IN  Standing(root) \union UNION {Standing(p) : p \in Shown(root)}

\* A JWS that has been signed over what nobody can disclose: a scheme or a hash the
\* Desk does not know, a digest that nothing answers, or nothing of its kind or with a
\* name to spare, one that stands twice, or two for claims of one name.
Unfit(jws) ==
  LET slots == InPlainSight(jws.payload)
      Answers(d, s) == s.digest = Digest(SdAlg(jws.payload), <<d>>)
  IN  \/ jws.header.alg # MANDATE_ALG
      \/ ~SdAlgKnown(jws.payload)
      \/ \E s, t \in slots : s # t /\ s.digest = t.digest
      \/ \E s \in slots : \A d \in Disclosures :
           /\ Answers(d, s) /\ ParsesAsDisclosure(d)
           => IF s.role = "array" THEN d.is # "element"
              ELSE d.is # "property" \/ d.name \in s.among
      \/ \E s, t \in slots :
           /\ s # t /\ s.role = "object" /\ t.role = "object" /\ Front(s.at) = Front(t.at)
           /\ \A d, e \in Disclosures : Answers(d, s) /\ Answers(e, t) =>
                d.is = "property" /\ e.is = "property" /\ d.name = e.name

\* A key signs for the one party it is: the Desk's is no principal's, nobody else has
\* theirs, and what a principal signs besides mandates is unfit to be one.
SignaturesAreTheirs ==
  /\ DeskMandateKey \notin Signers /\ \A d \in Deals : d.jws.by = DeskMandateKey
  /\ \A jws \in ForeignJwss : jws.by \notin Signers
  /\ \A d \in Misissued : Unfit(d.jws)

\* An agent's hop names what it was made over, under a hash of its choice.
HopsNameWhatTheyAreFor ==
  \A h \in Hops : \E alg \in HashAlgorithms :
    Get(h.jws.payload, "sd_hash") = DigestText(Digest(alg, h.over))

\* Terms that can be agreed: every part of its kind, and named by what they were agreed
\* under.
IsCheckout(c) ==
  /\ c = [open_checkout |-> c.open_checkout, currency |-> c.currency, items |-> c.items,
          charges |-> c.charges, terms |-> c.terms, agreed_at |-> c.agreed_at]
  /\ IsText(c.open_checkout) /\ c.open_checkout # Text(BLANK) /\ c.currency # BLANK
  /\ c.items = [i \in DOMAIN c.items |->
                  [id |-> c.items[i].id, quantity |-> c.items[i].quantity,
                   unit_price |-> c.items[i].unit_price]]
  /\ c.charges = [i \in DOMAIN c.charges |->
                    [label |-> c.charges[i].label, amount |-> c.charges[i].amount]]
  /\ c.terms = [n \in DOMAIN c.terms |-> c.terms[n]]
  /\ c.agreed_at \in Int

\* What the buyer is to pay: the goods at the prices agreed, and what the terms charge.
ToPay(c) ==
  SumOf([i \in DOMAIN c.items |-> c.items[i].quantity * c.items[i].unit_price])
  + SumOf([i \in DOMAIN c.charges |-> c.charges[i].amount])

\* What the Desk's mandate key signs, it signs to close a deal.
DealsAreClosings ==
  /\ \A d \in Deals :
       LET closing == CloseCheckout(d.checkout, d.salt, DeskMandateKey, d.issued_at)
       IN  /\ IsCheckout(d.checkout)
           /\ d.jws = closing[1] /\ d.parts = {closing[2]}
           /\ d.pays = ToPay(d.checkout)
           /\ d.name = HashOf(Encoded(InnerJws(d.checkout, DeskMandateKey)))
  /\ \A jws \in ForeignJwss : jws.by = DeskMandateKey =>
       \E d \in Deals : jws = InnerJws(d.checkout, DeskMandateKey)

\* The rail says what became of a charge, on which rail and under which name.
ChargesAreTold ==
  \A c \in Charges :
    /\ c.charge = [completed |-> c.charge.completed, rail |-> c.charge.rail,
                   status |-> c.charge.status, charge_id |-> c.charge.charge_id]
    /\ c.charge.completed \in BOOLEAN
    /\ BLANK \notin {c.agent, c.charge.rail, c.charge.status, c.charge.charge_id}
-----------------------------------------------------------------------------
IsOf(doc) == wire # <<>> /\ wire[1] \in FormsOf(doc.jws)

\* A mandate is read as everything its principal signed and as nothing else, however
\* its holder put it together (verify_presentation): no constraint can be left out,
\* added or written over.
ClaimsAreWhatWasSigned ==
  \A key \in {d.key : d \in Mandates \union Misissued} : VerifiesUnder(wire, key) =>
    \E m \in Mandates : IsOf(m) /\ m.key = key /\ Presented(wire).claims = m.means

\* The disclosures are a set: every order of exactly the issued ones is read, under
\* either signature form and with a hop or without, and no other presentation is.
AnyOrderNothingElse ==
  \A m \in Mandates : IsOf(m) =>
    (VerifiesUnder(wire, m.key) <=>
       /\ IsPresentation(wire)
       /\ Len(Sent(wire)) = Cardinality(m.parts) /\ ToSet(Sent(wire)) = m.parts)

\* What a holder can make of a mandate is what was signed, or nothing (sdjwt.py).
OnlyWhatWasSigned == ClaimsAreWhatWasSigned /\ AnyOrderNothingElse

\* One signed mandate has one name in the ledger, and one issuer JWS one name in a
\* payment.reference (signed_digest_of, digest_of): neither moves with the order of the
\* disclosures, and the first not with the form of the signature either.
OneMandateOneName ==
  \A m \in Mandates : IsOf(m) /\ VerifiesUnder(wire, m.key) =>
    LET asIssued == Presented(AsIssued(m))
    IN  /\ Presented(wire).mandate_id = asIssued.mandate_id
        /\ wire[1] = m.jws => Presented(wire).digest = asIssued.digest

\* A hop speaks for the one presentation it was made over, disclosures, their order and
\* the signature's form included (read_key_binding, sd_hash_of): lifted onto any other
\* it is refused.
HopSpeaksForOnePresentation ==
  \A m \in Mandates : IsOf(m) /\ VerifiesUnder(wire, m.key) =>
    LET alg == SdAlg(wire[1].payload)
    IN  ReadsKeyBinding(wire, EndorsedKey, alg) =>
          \E h \in Hops : h.jws = KeyBindingJwt(wire) /\ h.over = SdJwt(wire)

\* The Desk charges for what it closed: a closed mandate that reads back carries the
\* terms of one of its own deals, to the second it was agreed at, and comes to what the
\* buyer was to pay (read_closed_checkout).
ReadsOnlyWhatItClosed ==
  ReadsClosed(wire, DeskMandateKey) =>
    \E d \in Deals :
      /\ IsOf(d)
      /\ ClosedAs(wire).checkout =
           [d.checkout EXCEPT !.agreed_at = Seconds(@) * TicksPerSecond]
      /\ Total(ClosedAs(wire).checkout) = d.pays

\* A deal has one name, and a retried settlement finds the receipt of the first whatever
\* presentation of the closed mandate it is handed (checkout_hash, not the envelope).
OneDealOneName ==
  \A d \in Deals : IsOf(d) /\ ReadsClosed(wire, DeskMandateKey) =>
    ClosedAs(wire).checkout_hash = d.name

\* A receipt signed for a closed mandate reads back as that deal, named by it and
\* chained to the authorisation it was negotiated under, whatever presentation of the
\* closed mandate it was signed from; for a charge that did not complete there is none
\* (issue_receipt, read_receipt).
ReceiptTellsTheDeal ==
  \A d \in Deals, c \in Charges : IsOf(d) /\ ReadsClosed(wire, DeskMandateKey) =>
    LET closed == ClosedAs(wire)
        signed == IssueReceipt(closed, c.mandate, c.charge, Total(closed.checkout), c.agent, c.at)
        receipt == ReceiptAs(signed)
    IN  MayReceipt(c.charge) =>
          /\ ReadsReceipt(signed)
          /\ receipt.receipt_id = d.name /\ receipt.charged = d.pays
          /\ receipt.agreed = CheckoutClaims(d.checkout)
          /\ receipt.chain.open_checkout = d.checkout.open_checkout
          /\ receipt.chain.open_payment = DigestText(c.mandate)
          /\ receipt.charge = c.charge

\* A budget is drawn on, and a settlement found again, under a name that no holder can
\* vary (sdjwt.py, closed.py).
OneDocumentOneName == OneMandateOneName /\ OneDealOneName

\* A closed deal is told to its end as it was closed (closed.py, receipt.py).
DealsReadBack == ReadsOnlyWhatItClosed /\ ReceiptTellsTheDeal
=============================================================================
