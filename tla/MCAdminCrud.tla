---------------------------- MODULE MCAdminCrud ----------------------------
(* The two system billets and one team billet.  For the team's policy there   *)
(* is one acceptable statement and two that reach beyond the team; for the    *)
(* guardrail, the acceptable forbid and a permit.                             *)
EXTENDS AdminCrud, TLC

CONSTANTS team, s1, r0, r1, a1, a2, i1, i2

MCBillets == {Guardrails, AdminBillet, team}
MCSystemBillets == {Guardrails, AdminBillet}
MCTags == {SystemTag}
MCSubjects == {s1}
MCRoles == {r0, r1}
MCAdmins == {a1, a2}
MCInstances == {i1, i2}

Row(b, n, e, res) ==
    [billet |-> b, id |-> n, effect |-> e, resource |-> res, tag |-> NoTag, subjects |-> {s1}]

MCPolicies ==
    {Row(team, 1, "permit", team), Row(team, 1, "permit", AdminBillet),
     Row(team, 1, "forbid", AnyBillet),
     Row(Guardrails, 2, "forbid", AnyBillet), Row(Guardrails, 2, "permit", AnyBillet)}

OnBillet(o, b, ts, rs) == [op |-> o, billet |-> b, tags |-> ts, roles |-> rs, policy |-> Absent]
OnPolicy(o, p) == [op |-> o, billet |-> p.billet, tags |-> Absent, roles |-> Absent, policy |-> p]

Deletions == {OnBillet("deleteBillet", b, Absent, Absent) : b \in MCBillets}

MCRequests ==
    Deletions
    \cup {OnBillet("createBillet", team, {}, r0),
          OnBillet("updateBillet", team, {SystemTag}, Absent),
          OnBillet("updateBillet", team, Absent, r1)}
    \cup {OnPolicy(o, p) : o \in {"createPolicy", "updatePolicy"}, p \in MCPolicies}
    \cup {OnPolicy("deletePolicy", Row(team, 1, "permit", team)),
          OnPolicy("deletePolicy", Row(Guardrails, 2, "forbid", AnyBillet))}

Symmetric == Permutations(MCAdmins) \cup Permutations(MCInstances)
=============================================================================
