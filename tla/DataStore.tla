------------------------------ MODULE DataStore ------------------------------
(***************************************************************************)
(* The DataStore trait as the rest of Quartermaster sees it: a table of     *)
(* billets and a table of Cedar policies.  Every operation is one atomic    *)
(* step, as it is under the write lock of LocalDataStore; the disk behind   *)
(* that lock is the subject of another module.                              *)
(*                                                                         *)
(* A billet row is abstracted to its name and its tags, a policy row to its *)
(* key (owning billet and policy id) and to what the Cedar engine reads of  *)
(* its statement: the effect, the resource scope, the tag a `when` clause   *)
(* asks of the resource, and the subjects it matches.                       *)
(***************************************************************************)
EXTENDS Naturals, FiniteSets

CONSTANTS
    Billets,      \* billet names
    Tags,         \* billet tags
    Subjects,     \* formatted subjects of authenticated identities
    Policies,     \* the policy rows an admin may write
    AnyBillet,    \* resource scope of a policy that names no billet
    NoTag,        \* a policy without a tag condition
    MaxWrites     \* bound on the number of admin writes

PolicyRow ==
    [billet : Billets, id : Nat, effect : {"permit", "forbid"},
     resource : Billets \cup {AnyBillet}, tag : Tags \cup {NoTag},
     subjects : SUBSET Subjects]

ASSUME StoreAssumption ==
    /\ Policies \subseteq PolicyRow
    /\ AnyBillet \notin Billets
    /\ NoTag \notin Tags
    /\ MaxWrites \in Nat

VARIABLES
    billets,      \* the names in the billets table
    tags,         \* tags[b]: the tags of row b, empty when there is no row
    policies,     \* the rows of the policies table
    writes        \* how many writes the store has taken

storeVars == <<billets, tags, policies, writes>>

\* History: the version of the two tables; 0 is before any version.
Version == writes + 1

TagMap == [Billets -> SUBSET Tags]
NoTags == [b \in Billets |-> {}]

\* Rows are keyed by (billet_name, policy_id).
SameKey(p, q) == p.billet = q.billet /\ p.id = q.id

StoreTypeOK ==
    /\ billets \subseteq Billets
    /\ tags \in TagMap
    /\ policies \subseteq Policies
    /\ writes \in 0 .. MaxWrites

\* The service starts on the tables an earlier process left.
StoreInit ==
    /\ billets \in SUBSET Billets
    /\ tags \in {tm \in TagMap : \A b \in Billets \ billets : tm[b] = {}}
    /\ policies \in {ps \in SUBSET Policies :
                        \A p, q \in ps : SameKey(p, q) => p = q}
    /\ writes = 0

Written == writes < MaxWrites /\ writes' = writes + 1

create_billet(b, ts) ==
    /\ b \notin billets
    /\ Written
    /\ billets' = billets \cup {b}
    /\ tags' = [tags EXCEPT ![b] = ts]
    /\ UNCHANGED policies

update_billet(b, ts) ==
    /\ b \in billets
    /\ Written
    /\ tags' = [tags EXCEPT ![b] = ts]
    /\ UNCHANGED <<billets, policies>>

delete_billet_cascade(b) ==
    /\ b \in billets
    /\ Written
    /\ billets' = billets \ {b}
    /\ tags' = [tags EXCEPT ![b] = {}]
    /\ policies' = {p \in policies : p.billet # b}

\* The store does not ask whether the owning billet exists: the admin layer
\* does, before it calls.
create_policy(p) ==
    /\ \A q \in policies : ~SameKey(p, q)
    /\ Written
    /\ policies' = policies \cup {p}
    /\ UNCHANGED <<billets, tags>>

update_policy(p) ==
    /\ \E q \in policies : SameKey(p, q)
    /\ Written
    /\ policies' = {q \in policies : ~SameKey(p, q)} \cup {p}
    /\ UNCHANGED <<billets, tags>>

delete_policy(p) ==
    /\ p \in policies
    /\ Written
    /\ policies' = policies \ {p}
    /\ UNCHANGED <<billets, tags>>

StoreNext ==
    \/ \E b \in Billets, ts \in SUBSET Tags :
          create_billet(b, ts) \/ update_billet(b, ts)
    \/ \E b \in Billets : delete_billet_cascade(b)
    \/ \E p \in Policies :
          create_policy(p) \/ update_policy(p) \/ delete_policy(p)

-----------------------------------------------------------------------------
(***************************************************************************)
(* The Cedar engine (a library): a request is allowed when some permit      *)
(* policy applies to it and no forbid policy does.                          *)
(***************************************************************************)
Applies(p, s, b, ts) ==
    /\ s \in p.subjects
    /\ p.resource \in {b, AnyBillet}
    /\ p.tag = NoTag \/ p.tag \in ts

is_authorized(ps, s, b, ts) ==
    /\ \E p \in ps : p.effect = "permit" /\ Applies(p, s, b, ts)
    /\ \A p \in ps : Applies(p, s, b, ts) => p.effect # "forbid"

\* The billets that subject s holds under one snapshot of both tables.
Entitled(ps, known, tagMap, s) ==
    {b \in known : is_authorized(ps, s, b, tagMap[b])}
=============================================================================
