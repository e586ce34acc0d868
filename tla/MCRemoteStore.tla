---------------------------- MODULE MCRemoteStore ----------------------------
(* One billet with two policies, one key record, and two tasks. *)
EXTENDS RemoteStore, TLC

CONSTANTS b1, t1, p1, p2, k1, c1, c2

MCClients == {c1, c2}
MCBillets == {b1}
MCTags == {t1}
MCPolicies == {p1, p2}
MCBilletOf == [p \in MCPolicies |-> b1]
MCKeyIds == {k1}
Symmetric == Permutations(MCPolicies) \cup Permutations(MCClients)
=============================================================================
