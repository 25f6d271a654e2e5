------------------------------- MODULE Envelope -------------------------------
(***************************************************************************)
(* desk/mandate/sdjwt.py: the envelope of an SD-JWT, which is what there   *)
(* is to see of it before its disclosures are put where they belong: its   *)
(* parts, and the digests that name it.  No variables.                     *)
(*                                                                         *)
(* A presentation is the sequence of its segments, cut at every separator: *)
(* the issuer JWS, the disclosures, and last the key-binding hop, which is *)
(* Nothing where there is none.  A segment stands for its characters; what *)
(* it decodes to are its fields.  `form' tells apart the signatures that   *)
(* verify over one signing input.  A digest is a record of what was        *)
(* hashed, so that it is one-to-one.                                       *)
(***************************************************************************)
EXTENDS Integers, TLC, SequencesExt

DEFAULT_SD_ALG == "sha-256"
HashAlgorithms == {"sha-256", "sha-384", "sha-512"}
-----------------------------------------------------------------------------
(* JSON, as far as anything here looks into it.  An object keeps its _sd   *)
(* list apart from its other members; a placeholder is an array element    *)
(* that is an object with the one member "...".                            *)

Null == [kind |-> "null"]
Text(t) == [kind |-> "text", text |-> t]
DigestText(d) == [kind |-> "text", digest |-> d]
Encoded(segment) == [kind |-> "text", encodes |-> segment]
IsText(v) == v.kind = "text"
Number(n) == [kind |-> "number", number |-> n]
Flag(b) == [kind |-> "bool", flag |-> b]
Array(items) == [kind |-> "array", items |-> items]
Placeholder(d) == [kind |-> "hidden", digest |-> d]
Hiding(members, sd) == [kind |-> "object", members |-> members, sd |-> sd]
Object(members) == Hiding(members, <<>>)

Get(v, name) == IF name \in DOMAIN v.members THEN v.members[name] ELSE Null

Without(v, name) ==
  [v EXCEPT !.members = [n \in DOMAIN v.members \ {name} |-> v.members[n]]]
-----------------------------------------------------------------------------
(* Segments, and how a presentation is cut.                                *)

Nothing == [is |-> "nothing"]
Unreadable == [is |-> "unreadable"]
Header(alg, typ, kid) == [alg |-> alg, typ |-> typ, kid |-> kid]
Jws(header, payload, by, form) ==
  [is |-> "jws", header |-> header, payload |-> payload, by |-> by, form |-> form]
Property(salt, name, value) ==
  [is |-> "property", salt |-> salt, name |-> name, value |-> value]
Element(salt, value) == [is |-> "element", salt |-> salt, value |-> value]

\* There is a separator, and none is doubled: an empty segment between two others
\* would be a hop of a delegation chain.
IsPresentation(wire) ==
  /\ Len(wire) >= 2
  /\ \A i \in 2..(Len(wire) - 1) : wire[i] # Nothing

\* split_presentation: the last segment is the hop, by its place alone.
SdJwt(wire) == Front(wire)
KeyBindingJwt(wire) == Last(wire)

IssuerJws(wire) == wire[1]
Sent(wire) == Tail(SdJwt(wire))

Digest(alg, segments) == [alg |-> alg, over |-> segments]

\* digest_of, signed_digest_of and sd_hash_of: what a payment.reference names, what
\* the ledger is keyed by, and what a hop is made over.
DigestOf(wire, alg) == Digest(alg, <<IssuerJws(wire)>>)
SigningInput(jws) == [is |-> "input", header |-> jws.header, payload |-> jws.payload]
SignedDigestOf(wire, alg) == Digest(alg, <<SigningInput(IssuerJws(wire))>>)
SdHashOf(wire, alg) == Digest(alg, SdJwt(wire))
-----------------------------------------------------------------------------
(* The hash a mandate says its digests are made with.                      *)

SdAlgKnown(payload) ==
  LET claimed == Get(payload, "_sd_alg")
  IN  claimed # Null => claimed \in {Text(a) : a \in HashAlgorithms}

SdAlg(payload) ==
  LET claimed == Get(payload, "_sd_alg")
  IN  IF claimed = Null THEN DEFAULT_SD_ALG ELSE claimed.text

-----------------------------------------------------------------------------
\* mandate_content: the claims, or the one mandate nested under delegate_payload.
HasContent(claims) ==
  LET nested == Get(claims, "delegate_payload")
  IN  nested # Null =>
        nested.kind = "array" /\ Len(nested.items) = 1 /\ nested.items[1].kind = "object"

Content(claims) ==
  LET nested == Get(claims, "delegate_payload")
  IN  IF nested = Null THEN claims ELSE nested.items[1]
=============================================================================
