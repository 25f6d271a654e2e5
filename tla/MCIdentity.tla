----------------------------- MODULE MCIdentity -----------------------------
(***************************************************************************)
(* Two processes: one of two threads over two connections, where two       *)
(* refusals can hold both and wait for a third, and one of one thread over *)
(* one, where a refusal waits for the connection it holds itself.          *)
(***************************************************************************)
EXTENDS Identity, TLC


MCCallers == {"t1", "t2", "t3"}
MCProcessOf == "t1" :> "left" @@ "t2" :> "left" @@ "t3" :> "right"
MCPoolSize == "left" :> 2 @@ "right" :> 1

\* One agent's key in two texts and what is not an agent's key; two principals' keys, and a
\* point that is not on the curve.
Agent(text, size) == [kty |-> "OKP", crv |-> "Ed25519", text |-> text, bytes |-> "k", size |-> size]
Human(key) == [kty |-> "EC", crv |-> "P-256", text |-> key, bytes |-> key, size |-> 65]
MCOnCurve == {"h1", "h2"}

Register(jwk, principal) == [op |-> "register", jwk |-> jwk, principal |-> principal]
Enrol(principal, jwk) == [op |-> "enrol", principal |-> principal, jwk |-> jwk]
Verify(kid, signer, typ) ==
  [op |-> "verify",
   request |-> [kid |-> kid, signer |-> signer, alg |-> "EdDSA", typ |-> typ, body |-> "object"]]

Request(typ) == Verify("k", "k", typ)
Vault == [op |-> "vault", purpose |-> "mandate"]

MCCalls ==
  "t1" :> {Register(Agent("k=", 32), "alice"), Register(Agent("k", 32), "bob"), Vault,
           Enrol("alice", Human("h1")), Request("stitchai-request+jws")}
  @@ "t2" :> {Register(Agent("k", 32), "bob"), Enrol("bob", Human("h1")), Request("kb+jwt"),
              Verify("k", "other", "stitchai-request+jws")}
  @@ "t3" :> {Register(Agent("k=", 32), "bob"), Register(Human("h1"), "bob"), Vault,
              Enrol("alice", Human("h2")), Verify("none", "k", "stitchai-request+jws")}
=============================================================================
