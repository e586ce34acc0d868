----------------------------- MODULE MCLocalStore -----------------------------
(* One billet with two policies, a billet of its own and one key record. *)
EXTENDS LocalStore, TLC

CONSTANTS b1, b2, p1, p2, k1, v1, v2

MCBillets == {b1, b2}
MCPolicies == {p1, p2}
MCBilletOf == [p \in MCPolicies |-> b1]
MCKeyIds == {k1}
MCValues == {v1, v2}
Symmetric == Permutations(MCPolicies) \cup Permutations(MCValues)
=============================================================================
