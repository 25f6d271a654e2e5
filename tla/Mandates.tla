------------------------------- MODULE Mandates -------------------------------
(***************************************************************************)
(* The open mandates (desk/mandate/open_mandate.py, checkout.py,           *)
(* payment.py): what check 2 reads out of verified claims, and check 2     *)
(* itself (check.py) over a presentation.  No variables.                   *)
(*                                                                         *)
(* A date is an instant already; one without an offset is UTC.  A key      *)
(* text decodes to the key it is for, whatever its spare bits.             *)
(***************************************************************************)
EXTENDS Envelope

OPEN_CHECKOUT_VCT == "mandate.checkout.open.1"
OPEN_PAYMENT_VCT == "mandate.payment.open.1"
LINE_ITEMS == "checkout.line_items"
ALLOWED_MERCHANTS == "checkout.allowed_merchants"
REFERENCE == "payment.reference"
BUDGET == "payment.budget"
EXECUTION_DATE == "payment.execution_date"

Date(instant) == [kind |-> "text", date |-> instant]
KeyText(key, form) == [kind |-> "text", key |-> key, form |-> form]
CurrencyText(code) == [kind |-> "text", currency |-> code]
IsDate(v) == "date" \in DOMAIN v
IsEpoch(v) == v.kind \in {"null", "number"}
AllObjects(v) == v.kind = "array" /\ \A e \in ToSet(v.items) : e.kind = "object"
-----------------------------------------------------------------------------
(* What every open mandate carries.                                        *)

Claimed(content) == Get(content, "constraints").items

OfType(content, type) == SelectSeq(Claimed(content), LAMBDA c : Get(c, "type") = Text(type))

\* OpenMandate.constraint raises for two of one type, and else there is one or none.
Single(content, type) == Len(OfType(content, type)) <= 1
Constraint(content, type) ==
  IF OfType(content, type) = <<>> THEN Null ELSE OfType(content, type)[1]

ReadsOpenMandate(claims, vct) ==
  /\ HasContent(claims)
  /\ LET content == Content(claims)
     IN  /\ Get(content, "vct") = Text(vct)
         /\ Get(content, "cnf").kind = "object"
         /\ "jwk" \in DOMAIN Get(content, "cnf").members
         /\ AllObjects(Get(content, "constraints"))
         /\ IsEpoch(Get(content, "iat")) /\ IsEpoch(Get(content, "exp"))

\* AgentPublicKey.from_jwk: an Ed25519 key, and no other kind with an x of its length.
IsAgentJwk(jwk) ==
  /\ jwk.kind = "object"
  /\ Get(jwk, "kty") = Text("OKP") /\ Get(jwk, "crv") = Text("Ed25519")
  /\ "key" \in DOMAIN Get(jwk, "x")

\* By thumbprint, so by the key alone.
Binds(content, key) ==
  LET jwk == Get(Get(content, "cnf"), "jwk")
  IN  IsAgentJwk(jwk) /\ Get(jwk, "x").key = key

HasExpired(content, at) ==
  LET exp == Get(content, "exp") IN exp # Null /\ at >= exp.number
-----------------------------------------------------------------------------
(* The open Checkout Mandate: what may be bought.                          *)

Requirements(content) ==
  UNION {ToSet(Get(c, "items").items) : c \in ToSet(OfType(content, LINE_ITEMS))}

AuthorisesItem(content, item_id) ==
  \E r \in Requirements(content) :
    \E i \in ToSet(Get(r, "acceptable_items").items) : Get(i, "id") = Text(item_id)

ReadsItems(content) ==
  /\ OfType(content, LINE_ITEMS) # <<>>
  /\ \A c \in ToSet(OfType(content, LINE_ITEMS)) : AllObjects(Get(c, "items"))
  /\ \A r \in Requirements(content) :
       /\ AllObjects(Get(r, "acceptable_items"))
       /\ \A i \in ToSet(Get(r, "acceptable_items").items) : IsText(Get(i, "id"))

ReadsOpenCheckout(claims) ==
  /\ ReadsOpenMandate(claims, OPEN_CHECKOUT_VCT)
  /\ ReadsItems(Content(claims))
  /\ Single(Content(claims), ALLOWED_MERCHANTS)
-----------------------------------------------------------------------------
(* The open Payment Mandate: what may be spent, and when.                  *)

CheckoutReference(content) ==
  Get(Constraint(content, REFERENCE), "conditional_transaction_id")

HasBudget(content) == OfType(content, BUDGET) # <<>>
Maximum(content) == Get(Constraint(content, BUDGET), "max").number
Currency(content) == Get(Constraint(content, BUDGET), "currency").currency

ReadsBudget(content) ==
  /\ Get(Constraint(content, BUDGET), "max").kind = "number" /\ Maximum(content) > 0
  /\ "currency" \in DOMAIN Get(Constraint(content, BUDGET), "currency")

HasWindow(content) == OfType(content, EXECUTION_DATE) # <<>>
NotBefore(content) == Get(Constraint(content, EXECUTION_DATE), "not_before")
NotAfter(content) == Get(Constraint(content, EXECUTION_DATE), "not_after")

ReadsWindow(content) ==
  /\ NotBefore(content) # Null => IsDate(NotBefore(content))
  /\ NotAfter(content) # Null => IsDate(NotAfter(content))
  /\ NotBefore(content) # Null /\ NotAfter(content) # Null =>
       NotBefore(content).date <= NotAfter(content).date

\* Both ends are inside the window.
WindowContains(content, at) ==
  /\ NotBefore(content) # Null => NotBefore(content).date <= at
  /\ NotAfter(content) # Null => at <= NotAfter(content).date

\* A payment that names no date executes at once.
ExecutesAt(content, now) ==
  IF Get(content, "execution_date") = Null THEN now ELSE Get(content, "execution_date").date

ReadsOpenPayment(claims) ==
  /\ ReadsOpenMandate(claims, OPEN_PAYMENT_VCT)
  /\ LET content == Content(claims)
     IN  /\ \A type \in {REFERENCE, BUDGET, EXECUTION_DATE} : Single(content, type)
         /\ OfType(content, REFERENCE) # <<>>
         /\ IsText(CheckoutReference(content)) /\ CheckoutReference(content) # Text("")
         /\ HasBudget(content) => ReadsBudget(content)
         /\ HasWindow(content) => ReadsWindow(content)
         /\ Get(content, "execution_date") # Null => IsDate(Get(content, "execution_date"))
-----------------------------------------------------------------------------
(* Check 2 on one presentation: what it answers, once it has been verified *)
(* under the one principal's key and read, or has not.                     *)

Check2(is_read, content, agent_key, now) ==
  IF ~is_read THEN "mandate_signature_invalid"
  ELSE IF HasExpired(content, now) THEN "mandate_expired"
  ELSE IF ~Binds(content, agent_key) THEN "agent_mandate_mismatch"
  ELSE "passed"
=============================================================================
