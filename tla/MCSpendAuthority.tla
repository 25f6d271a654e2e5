--------------------------- MODULE MCSpendAuthority ---------------------------
(* One principal's wallet and one agent, for TLC.                          *)
EXTENDS SpendAuthority, Disclosure

MCPrincipalKey == "principal"
MCAgentKey == "agent"
MCCloseAmounts == {1, 6}

\* A context of one digit, and of base three so that amounts are few.
MCDecimals == {digit * base : digit \in 0..2, base \in {1, 3, 9, 27}}
MCLimit == 27

\* Claims is verify_presentation, applied once to each presentation.
ASSUME ClaimsAssumption ==
  /\ DOMAIN Claims = {p \in DOMAIN Wire : VerifiesUnder(Wire[p], MCPrincipalKey)}
  /\ \A p \in DOMAIN Claims : Presented(Wire[p]).claims = Claims[p]

Typed(type, members) == Object("type" :> Text(type) @@ members)
Jwk(crv, key, form) ==
  Object("kty" :> Text("OKP") @@ "crv" :> Text(crv) @@ "x" :> KeyText(key, form))
Cnf(jwk) == Object("jwk" :> jwk)
BoundTo == "cnf" :> Cnf(Jwk("Ed25519", MCAgentKey, "first"))

Signed(payload) ==
  Jws(Header(MANDATE_ALG, "example+sd-jwt", "ann"), payload, MCPrincipalKey, "first")
Second(wire) == [wire EXCEPT ![1].form = "second"]
Wallet(content, salt) == Issue(content, salt, "ann", MCPrincipalKey, "first")
Within(content) == Object("delegate_payload" :> Array(<<content>>))

\* A wallet that hides each constraint on its own, under the hash it likes.
Constraints(list) == "constraints" :> Array(list)
Flat(alg, clear, parts) ==
  Signed(Object(clear @@ "_sd_alg" :> Text(alg)
           @@ Constraints([i \in DOMAIN parts |-> Placeholder(Digest(alg, <<parts[i]>>))])))
Whole(clear, parts) == Object(clear @@ Constraints([i \in DOMAIN parts |-> parts[i].value]))

-----------------------------------------------------------------------------
Items(ids) ==
  Typed(LINE_ITEMS, "items" :> Array(<<Object("acceptable_items" :>
    Array([i \in DOMAIN ids |-> Object("id" :> Text(ids[i]))]))>>))
Merchants == Typed(ALLOWED_MERCHANTS, "allowed" :> Array(<<Text("desk")>>))

CheckoutContent(list) == Object("vct" :> Text(OPEN_CHECKOUT_VCT) @@ BoundTo @@ Constraints(list))

Chairs == <<Element("c1", Items(<<"chair">>)), Element("c2", Items(<<"lamp">>))>>

CheckoutClear == "vct" :> Text(OPEN_CHECKOUT_VCT) @@ BoundTo
ChairsJws == Flat("sha-256", CheckoutClear, Chairs)

CheckoutContents == [
  desk |-> CheckoutContent(<<Items(<<"desk">>)>>),
  merchants |-> CheckoutContent(<<Items(<<"chair">>), Merchants>>),
  merchants_twice |-> CheckoutContent(<<Items(<<"chair">>), Merchants, Merchants>>),
  nothing |-> CheckoutContent(<<>>)]

InOrder == <<ChairsJws>> \o Chairs \o <<Nothing>>

-----------------------------------------------------------------------------
Refer(checkout, alg) ==
  Typed(REFERENCE, "conditional_transaction_id" :> DigestText(DigestOf(checkout, alg)))
Budget(max, currency) == Typed(BUDGET, "max" :> Number(max) @@ "currency" :> CurrencyText(currency))
Window(from, until) ==
  Typed(EXECUTION_DATE, "not_before" :> from @@ "not_after" :> until)

PaymentContent(list, members) ==
  Object(members @@ "vct" :> Text(OPEN_PAYMENT_VCT) @@ BoundTo @@ Constraints(list))
ForChairs == Refer(InOrder, "sha-256")
MerchantsOnce == Wallet(CheckoutContents.merchants, "c4")
MerchantsTwice == Wallet(CheckoutContents.merchants_twice, "c5")

Parts == <<Element("p1", Refer(InOrder, "sha-512")), Element("p2", Budget(6, "USD"))>>
PaymentClear == "vct" :> Text(OPEN_PAYMENT_VCT) @@ BoundTo
PartsJws == Flat("sha-512", PaymentClear, Parts)

PaymentContents == [
  april |-> PaymentContent(<<ForChairs, Budget(1, "USD"), Window(Date(1), Date(1))>>, "execution_date" :> Date(1)),
  march |-> PaymentContent(<<ForChairs, Budget(1, "USD"), Window(Null, Date(0))>>, "execution_date" :> Date(0)),
  may |-> PaymentContent(<<ForChairs, Budget(2, "USD"), Window(Null, Date(0))>>, "execution_date" :> Date(2)),
  for_merchants |-> PaymentContent(<<Refer(MerchantsOnce, "sha-256"), Budget(2, "USD")>>, "iat" :> Number(0)),
  for_twice |-> PaymentContent(<<Refer(MerchantsTwice, "sha-256"), Budget(2, "USD")>>, "iat" :> Null),
  boundless |-> PaymentContent(<<ForChairs>>, "iat" :> Null),
  expiring |-> PaymentContent(<<ForChairs, Budget(1, "EUR")>>, "exp" :> Number(1) @@ "cnf" :> Cnf(Jwk("Ed25519", MCAgentKey, "second"))),
  two_budgets |-> PaymentContent(<<ForChairs, Budget(2, "USD"), Budget(9, "USD")>>, "iat" :> Null),
  never |-> PaymentContent(<<ForChairs, Budget(2, "USD"), Window(Date(2), Date(1))>>, "iat" :> Null),
  no_reference |-> PaymentContent(<<Budget(2, "USD")>>, "iat" :> Null),
  elsewhere |-> PaymentContent(<<ForChairs, Budget(2, "USD")>>, "cnf" :> Cnf(Jwk("Ed25519", "other", "first"))),
  other_curve |-> PaymentContent(<<ForChairs, Budget(2, "USD")>>, "cnf" :> Cnf(Jwk("X25519", MCAgentKey, "first")))]

-----------------------------------------------------------------------------
ChairsRead == Whole(CheckoutClear, Chairs)
PartsRead == Whole(PaymentClear, Parts)

MCClaims ==
  [chairs |-> ChairsRead, chairs_reordered |-> ChairsRead, chairs_altered |-> ChairsRead,
   parts |-> PartsRead, parts_reordered |-> PartsRead, parts_altered |-> PartsRead]
  @@ [n \in DOMAIN CheckoutContents |-> Within(CheckoutContents[n])]
  @@ [n \in DOMAIN PaymentContents |-> Within(PaymentContents[n])]

MCWire ==
  [chairs |-> InOrder, chairs_reordered |-> <<ChairsJws, Chairs[2], Chairs[1], Nothing>>,
   chairs_altered |-> Second(InOrder), chairs_short |-> <<ChairsJws, Chairs[1], Nothing>>,
   parts |-> <<PartsJws>> \o Parts \o <<Nothing>>,
   parts_reordered |-> <<PartsJws, Parts[2], Parts[1], Nothing>>,
   parts_altered |-> Second(<<PartsJws>> \o Parts \o <<Nothing>>)]
  @@ [n \in DOMAIN CheckoutContents |->
        Wallet(CheckoutContents[n],
               CASE n = "merchants" -> "c4" [] n = "merchants_twice" -> "c5" [] OTHER -> n)]
  @@ [n \in DOMAIN PaymentContents |-> Wallet(PaymentContents[n], n)]

Ask(checkout, payment, item, amount, currency) ==
  [checkout |-> checkout, payment |-> payment, item |-> item, amount |-> amount,
   currency |-> currency]
Chair(checkout, payment, amount) == Ask(checkout, payment, "chair", amount, "USD")

\* The presentations of one pair, its mandates in every order and form; a pair with a
\* window and one whose date is outside it; each way a pair falls short of authority,
\* and each way check 2 refuses one mandate of it.  The pair's ceiling is 6: 6, with 1
\* spent, is 7, held as 6, and no more than the 5 left, held as 6; 7 is held as 6 but is
\* more than the 6 left; and 27 overflows.
MCAsks ==
  {Chair("chairs_reordered", "parts_reordered", 1),
   Chair("chairs", "parts_altered", 2), Chair("chairs_altered", "parts", 1),
   Chair("chairs", "april", 1), Chair("chairs", "march", 1), Chair("chairs", "may", 1),
   Chair("desk", "parts", 1), Ask("chairs", "parts", "desk", 1, "USD"),
   Chair("merchants", "for_merchants", 1), Chair("merchants_twice", "for_twice", 1),
   Ask("chairs", "expiring", "lamp", 1, "EUR"),
   Chair("chairs", "expiring", 1), Chair("nothing", "parts", 1),
   Chair("chairs_short", "parts", 1),
   Chair("chairs", "parts", 6), Chair("chairs", "parts", 7), Chair("chairs", "parts", 27)}
  \union {Chair("chairs", n, 1) :
            n \in {"boundless", "two_budgets", "never", "no_reference", "elsewhere",
                   "other_curve"}}

MCMandateOf ==
  [n \in DOMAIN MCWire |->
     CASE n \in {"chairs_reordered", "chairs_altered", "chairs_short"} -> "chairs"
       [] n \in {"parts_reordered", "parts_altered"} -> "parts"
       [] OTHER -> n]
MCAltered == {"chairs_altered", "parts_altered"}

Grant(payment, ceiling, currency, opens, closes) ==
  [checkout |-> "chairs", payment |-> payment, items |-> {"chair", "lamp"},
   ceiling |-> ceiling, currency |-> currency, opens |-> opens, closes |-> closes]

MCGrants ==
  {Grant("parts", 6, "USD", 0, 9), Grant("april", 1, "USD", 1, 1),
   Grant("march", 1, "USD", 0, 0), Grant("may", 2, "USD", 0, -1), Grant("expiring", 1, "EUR", 0, 9)}

\* The wallet is what the theorems ask of one.
ASSUME MCWalletAssumption == MandatesAreSigned /\ MandatesAreNamed /\ WalletIsAsSigned

CallersAreAlike == Permutations(Callers)
=============================================================================
