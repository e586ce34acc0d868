------------------------- MODULE MCBilletResolution -------------------------
(* Tables in which a grant depends on all three reads of a request: a permit  *)
(* policy on one billet, and a guardrail that forbids every tagged billet to  *)
(* Ann.  Bob holds nothing.                                                   *)
EXTENDS BilletResolution

CONSTANTS b1, b2, t1, r1

Ann == <<"human", "ann">>
Bob == <<"human", "bob">>

MCBillets == {b1, b2}
MCTags == {t1}
MCAudiences == {<<"api">>}
MCSubjects == {Ann, Bob}
MCRequests == {r1}

MCPolicies ==
    {[billet |-> b1, id |-> 1, effect |-> "permit", resource |-> b1,
      tag |-> NoTag, subjects |-> {Ann}],
     [billet |-> b2, id |-> 2, effect |-> "forbid", resource |-> AnyBillet,
      tag |-> t1, subjects |-> {Ann}]}
=============================================================================
