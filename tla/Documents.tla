------------------------------ MODULE Documents -------------------------------
(***************************************************************************)
(* The documents made out of signed parts: the closed Checkout Mandate     *)
(* (desk/mandate/closed.py), the receipt (desk/settlement/receipt.py) and  *)
(* the key-binding hop (desk/freshness/key_binding.py), each as it is      *)
(* written and as it is read back.  No variables.                          *)
(*                                                                         *)
(* An amount is a whole number of minor units, and an instant one of       *)
(* ticks: the documents carry whole seconds and the clock does not.        *)
(***************************************************************************)
EXTENDS Disclosure

CONSTANTS
  TicksPerSecond,   \* how much finer than the documents the clock is
  DeskMandateKey, DeskReceiptKey,
  BLANK, OVERLONG   \* texts that strip to nothing, and ones past MAX_CLAIM_CHARS

ASSUME TicksAssumption == TicksPerSecond \in Nat \ {0}

CLOSED_CHECKOUT_VCT == "mandate.checkout.1"
Amount(n) == [kind |-> "text", amount |-> n]
IsAmount(v) == "amount" \in DOMAIN v
IsInteger(v) == v.kind = "number"
Seconds(instant) == instant \div TicksPerSecond
-----------------------------------------------------------------------------
(* The terms that were agreed.  Items are [id, quantity, unit_price],      *)
(* charges [label, amount]; open_checkout is the text that names the mandate.*)

SumOf(numbers) == FoldLeft(+, 0, numbers)

\* Mutation: the total is the goods, and what the terms charged for is left out.
TotalOfGoods(checkout) ==
  SumOf([i \in DOMAIN checkout.items |-> checkout.items[i].quantity * checkout.items[i].unit_price])

Total(checkout) ==
  SumOf([i \in DOMAIN checkout.items |-> checkout.items[i].quantity * checkout.items[i].unit_price])
  + SumOf([i \in DOMAIN checkout.charges |-> checkout.charges[i].amount])

CheckoutClaims(checkout) ==
  Object([merchant |-> Text("desk"),
          open_checkout |-> checkout.open_checkout,
          currency |-> Text(checkout.currency),
          line_items |-> Array([i \in DOMAIN checkout.items |->
             LET item == checkout.items[i]
             IN  Object([id |-> Text(item.id), quantity |-> Number(item.quantity),
                         unit_price |-> Amount(item.unit_price)])]),
          charges |-> Array([i \in DOMAIN checkout.charges |->
             LET charge == checkout.charges[i]
             IN  Object([label |-> Text(charge.label), amount |-> Amount(charge.amount)])]),
          terms |-> Object([n \in DOMAIN checkout.terms |-> Text(checkout.terms[n])]),
          total |-> Amount(Total(checkout)),
          agreed_at |-> Number(Seconds(checkout.agreed_at))])

\* The terms a payload carries, its claims being a checkout's.
CheckoutOf(claims) ==
  LET of == claims.members
  IN  [open_checkout |-> of.open_checkout,
       currency |-> of.currency.text,
       items |-> [i \in DOMAIN of.line_items.items |->
                    LET item == of.line_items.items[i].members
                    IN  [id |-> item.id.text, quantity |-> item.quantity.number,
                         unit_price |-> item.unit_price.amount]],
       charges |-> [i \in DOMAIN of.charges.items |->
                      LET charge == of.charges.items[i].members
                      IN  [label |-> charge.label.text, amount |-> charge.amount.amount]],
       terms |-> [n \in DOMAIN of.terms.members |-> of.terms.members[n].text],
       agreed_at |-> of.agreed_at.number * TicksPerSecond]

\* _read_checkout's own refusals: every part of its shape, and a total that is the sum.
ReadsCheckout(claims) ==
  /\ IsInteger(Get(claims, "agreed_at"))
  /\ IsText(Get(claims, "currency")) /\ IsText(Get(claims, "open_checkout"))
  /\ Get(claims, "terms").kind = "object"
  /\ \A list \in {"line_items", "charges"} :
       /\ Get(claims, list).kind = "array"
       /\ \A e \in ToSet(Get(claims, list).items) : e.kind = "object"
  /\ Get(claims, "line_items").items # <<>>
  /\ \A item \in ToSet(Get(claims, "line_items").items) :
       /\ IsText(Get(item, "id")) /\ IsAmount(Get(item, "unit_price"))
       /\ IsInteger(Get(item, "quantity")) /\ Get(item, "quantity").number >= 1
  /\ \A charge \in ToSet(Get(claims, "charges").items) :
       IsText(Get(charge, "label")) /\ IsAmount(Get(charge, "amount"))
  /\ Get(claims, "total") = Amount(Total(CheckoutOf(claims)))
-----------------------------------------------------------------------------
(* close_checkout and read_closed_checkout: two signatures, inner first.   *)

HashOf(encoded) == Digest(DEFAULT_SD_ALG, <<encoded>>)

InnerJws(checkout, by) ==
  Jws(Header(MANDATE_ALG, "checkout+jwt", "desk"), CheckoutClaims(checkout), by, "first")

CloseCheckout(checkout, salt, by, issued_at) ==
  LET encoded == Encoded(InnerJws(checkout, by))
  IN  Issue(Object([vct |-> Text(CLOSED_CHECKOUT_VCT), checkout_jwt |-> encoded,
                    checkout_hash |-> DigestText(HashOf(encoded)),
                    iat |-> Number(issued_at)]),
            salt, "desk", by, "first")

\* _read_checkout verifies the inner document as a presentation of no disclosures.
ReadsClosed(wire, key) ==
  /\ VerifiesUnder(wire, key)
  /\ HasContent(Presented(wire).claims)
  /\ LET content == Content(Presented(wire).claims)
         encoded == Get(content, "checkout_jwt")
     IN  /\ Get(content, "vct") = Text(CLOSED_CHECKOUT_VCT)
         /\ "encodes" \in DOMAIN encoded
         /\ Get(content, "checkout_hash") = DigestText(HashOf(encoded))
         /\ VerifiesUnder(<<encoded.encodes, Nothing>>, key)
         /\ ReadsCheckout(Presented(<<encoded.encodes, Nothing>>).claims)
         /\ Get(content, "iat") = Null \/ IsInteger(Get(content, "iat"))

ClosedAs(wire) ==
  LET content == Content(Presented(wire).claims)
      encoded == Get(content, "checkout_jwt")
  IN  [checkout |-> CheckoutOf(Presented(<<encoded.encodes, Nothing>>).claims),
       checkout_hash |-> HashOf(encoded)]
-----------------------------------------------------------------------------
(* issue_receipt and read_receipt.  A charge is the rail's own account of  *)
(* itself: [completed, rail, status, charge_id].                           *)

RECEIPT_TYP == "receipt+jwt"
DESK_RECEIPT_ALG == "EdDSA"
DESK_RECEIPT_KEY_ID == "desk-receipt"

\* There is a receipt to sign only for money that moved.
MayReceipt(charge) == charge.completed

IssueReceipt(closed, payment_mandate, charge, charged, agent_id, issued_at) ==
  Jws(Header(DESK_RECEIPT_ALG, RECEIPT_TYP, DESK_RECEIPT_KEY_ID),
      Object([iss |-> Text("desk"),
              jti |-> DigestText(closed.checkout_hash),
              sub |-> Text(agent_id),
              iat |-> Number(Seconds(issued_at)),
              mandate_chain |->
                Object([open_checkout |-> closed.checkout.open_checkout,
                        open_payment |-> DigestText(payment_mandate),
                        closed_checkout |-> DigestText(closed.checkout_hash)]),
              agreed |-> CheckoutClaims(closed.checkout),
              charged |-> Object([amount |-> Amount(charged),
                                  currency |-> Text(closed.checkout.currency)]),
              rail |-> Object([rail |-> Text(charge.rail), status |-> Text(charge.status),
                               charge_id |-> Text(charge.charge_id)])]),
      DeskReceiptKey, "first")

Named(v) == IsText(v) /\ (v # Text(BLANK))

ReadsReceipt(jws) ==
  LET claims == jws.payload
      chain == Get(claims, "mandate_chain")
      charged == Get(claims, "charged")
      rail == Get(claims, "rail")
  IN  /\ jws.is = "jws" /\ jws.by = DeskReceiptKey /\ jws.header.alg = DESK_RECEIPT_ALG
      /\ jws.header.typ = RECEIPT_TYP /\ jws.header.kid = DESK_RECEIPT_KEY_ID
      /\ claims.kind = "object" /\ Get(claims, "iss") = Text("desk")
      /\ chain.kind = "object"
      /\ \A link \in {"open_checkout", "open_payment", "closed_checkout"} : Named(Get(chain, link))
      /\ Named(Get(claims, "jti")) /\ Get(claims, "jti") = Get(chain, "closed_checkout")
      /\ Get(claims, "agreed").kind = "object" /\ Named(Get(claims, "sub"))
      /\ charged.kind = "object" /\ Named(Get(charged, "currency")) /\ IsAmount(Get(charged, "amount"))
      /\ rail.kind = "object" /\ \A n \in {"rail", "status", "charge_id"} : Named(Get(rail, n))
      /\ IsInteger(Get(claims, "iat"))

ReceiptAs(jws) ==
  LET claims == jws.payload.members
      chain == claims.mandate_chain.members
      rail == claims.rail.members
  IN  [receipt_id |-> claims.jti.digest, agent_id |-> claims.sub.text,
       chain |-> chain,
       agreed |-> claims.agreed,
       charged |-> claims.charged.members.amount.amount,
       charge |-> [completed |-> TRUE, rail |-> rail.rail.text, status |-> rail.status.text,
                   charge_id |-> rail.charge_id.text],
       issued_at |-> claims.iat.number * TicksPerSecond]
-----------------------------------------------------------------------------
(* read_key_binding: the hop on a presentation, under the endorsed key.    *)

KEY_BINDING_ALG == "EdDSA"
KEY_BINDING_TYP == "kb+jwt"

\* A claim the hop may not leave out, and may not make longer than the Desk will store.
Required(claims, name) ==
  LET v == Get(claims, name)
  IN  IsText(v) /\ v \notin {Text(BLANK), Text(OVERLONG)}

ReadsKeyBinding(wire, endorsed_key, alg) ==
  LET hop == KeyBindingJwt(wire)
  IN  /\ hop.is = "jws"
      /\ hop.header.alg = KEY_BINDING_ALG /\ hop.header.typ = KEY_BINDING_TYP
      /\ hop.by = endorsed_key
      /\ hop.payload.kind = "object"
      /\ \A name \in {"nonce", "aud", "sd_hash"} : Required(hop.payload, name)
      /\ IsInteger(Get(hop.payload, "iat"))
      /\ Get(hop.payload, "sd_hash") = DigestText(SdHashOf(wire, alg))
=============================================================================
