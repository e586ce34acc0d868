---------------------------- MODULE MCPolicySync ----------------------------
(* Small tables for PolicySync: two billets, one of them owning a permit     *)
(* policy that an admin may also turn into a forbid policy.                  *)
EXTENDS PolicySync

CONSTANTS b1, b2, t1, s1

MCBillets == {b1, b2}
MCTags == {t1}
MCSubjects == {s1}

MCPolicies ==
    {[billet |-> b1, id |-> 1, effect |-> e, resource |-> b1, tag |-> NoTag,
      subjects |-> {s1}] : e \in {"permit", "forbid"}}
=============================================================================
