--------------------------- MODULE MCAdminAccess ---------------------------
(***************************************************************************)
(* Bob holds the team's billet, and with it all power over the team; his     *)
(* claims give him a billet of the identity provider too.  A guardrail       *)
(* forbids everything to billets that are tagged as frozen.  The CLI issues  *)
(* root's tokens, and may add a policy that makes Bob root.                  *)
(***************************************************************************)
EXTENDS AdminAccess

St(e, act, who, res) == [effect |-> e, action |-> act, who |-> who, resource |-> res]
Row(b, id, st) == [billet |-> b, id |-> id, st |-> st]

MCBillets == {"root", "guardrails", "team", "other", "idp:ops"}
MCSystem == {"root", "guardrails"}
MCSubjects == {"bob"}
MCImplicit == [s \in MCSubjects |-> {"idp:ops"}]

MCInitialRows ==
    [billets |-> [b \in MCBillets \ {"idp:ops"} |-> {}],
     policies |-> {
        Row("team", 2, St("permit", "assumeBillet", "bob", "team")),
        Row("team", 3, St("permit", Any, "team", "team")),
        Row("guardrails", 4, St("forbid", Any, "k:frozen", Any))}]

Ask(op, b, id, st, ts) == [op |-> op, billet |-> b, id |-> id, st |-> st, tags |-> ts]

MCRequests == {
    Ask("deletePolicy", "team", 2, None, {}),
    Ask("createPolicy", "team", 5, St("permit", Any, "team", "other"), {}),
    Ask("updatePolicy", "team", 3, St("forbid", Any, "team", "team"), {}),
    Ask("updateBillet", "team", 0, None, {"k:frozen"}),
    Ask("updateBillet", "team", 0, None, {"frozen"}),
    Ask("createBillet", "idp:ops", 0, None, {}),
    Ask("deleteBillet", "other", 0, None, {}),
    Ask("deleteBillet", "root", 0, None, {}),
    Ask("lookup", "other", 0, None, {})}

MCCliPolicies == {Row("guardrails", 6, St("permit", "assumeBillet", "bob", Any))}
=============================================================================
