---------------------------- MODULE MCTokenExchange ----------------------------
(* TokenExchange with one OIDC provider of one key, and a request for each way *)
(* through the handler.  Two handlers race each other and the refresh of the   *)
(* keys, three race each other at the limiter.                                 *)
EXTENDS TokenExchange, TLC

CONSTANTS h1, h2, h3, k1

MCHandlers == {h1, h2, h3}
MCSources == {"okta"}
MCKeys == {k1}
MCTokenTypes == {"spire", "oidc", "aws"}
MCBundle == {"spire-key"}
MCSubjects == {"workload", "human", "role"}
MCMappings ==
    [s \in MCSources |-> {[claim |-> "groups", prefix |-> "group", in_tokens |-> TRUE],
                          [claim |-> "level", prefix |-> "level", in_tokens |-> FALSE]}]
MCCedar == {{<<"ops">>, <<"group", "ops">>}, {<<"dev">>}}

Token(type, subject, signer, exp) ==
    [type |-> type, wellFormed |-> TRUE, source |-> "okta", signer |-> signer, exp |-> exp,
     audience |-> TRUE, complete |-> TRUE, allowed |-> TRUE, subject |-> subject, claims |-> {}]

Request(endpoint, token, wanted, csr) ==
    [endpoint |-> endpoint, params |-> TRUE, token |-> token, certificate |-> None,
     wanted |-> wanted, csr |-> csr]

Certificate == [anchored |-> TRUE, not_after |-> 3, inTrustDomain |-> TRUE, subject |-> "workload"]

Human ==
    [Token("oidc", "human", k1, MaxTime) EXCEPT
        !.claims = {<<"groups", "dev">>, <<"level", "high">>}]

MCRequests ==
    { [Request("token", None, {}, "none") EXCEPT !.params = FALSE],
      Request("token", Token("missing", "workload", k1, 1), {}, "none"),
      Request("token", Token("gcp", "workload", k1, 1), {}, "none"),
      [Request("discovery", None, {}, "none") EXCEPT !.certificate = Certificate],
      Request("token", Token("spire", "workload", "spire-key", 2), {}, "bad"),
      Request("token", Token("aws", "role", None, 1), {<<"ops">>}, "none"),
      Request("token", [Token("aws", "role", None, 1) EXCEPT !.wellFormed = FALSE], {}, "none"),
      Request("token", Human, {<<"group", "dev">>}, "good"),
      Request("token", [Human EXCEPT !.audience = FALSE], {}, "none"),
      Request("token", [Human EXCEPT !.source = "other"], {}, "none") }

Symmetry == Permutations(MCHandlers)

\* Bound: the keys are refreshed only while all requests are of the provider's
\* subject (no other reads them), and three requests are served only if all are
\* of the workload, before the refresh.
KeysInUse == rotations > 0 \/ \E s \in Sources : refresh[s] # "waiting" \/ ticking[s]
OnlyOf(subject) ==
    /\ \A h \in Handlers : req[h] # None => Subject(req[h]) = subject
    /\ \A s \in Subjects \ {subject} : granted[s] = <<>>
Bounded ==
    /\ KeysInUse => OnlyOf("human")
    /\ Cardinality({h \in Handlers : pc[h] # "idle"}) = 3 => OnlyOf("workload") /\ ~KeysInUse
================================================================================
