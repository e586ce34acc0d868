--------------------------- MODULE AdminCrud_proofs ---------------------------
(***************************************************************************)
(* Theorems about AdminCrud for any number of admins, instances, billets    *)
(* and writes.                                                              *)
(***************************************************************************)
EXTENDS AdminCrud, TLAPS

(***************************************************************************)
(* The inductive invariant.                                                 *)
(***************************************************************************)

\* A request past its validation is valid, and has read what it needs.
RequestsValid ==
    \A a \in Admins :
        /\ pc[a] # "idle" => req[a] \in Requests
        /\ pc[a] \in {"read", "write", "reread"} => Valid(req[a])
        /\ pc[a] = "write" /\ req[a].op = "updateBillet" => got[a] \in BilletRecord

\* Requests are only served by an instance that has finished its bootstrap.
ServedAfterBoot ==
    \A a \in Admins : pc[a] # "idle" => \E i \in Instances : boot[i] = "ready"

RowsAcceptable == \A p \in policies : Acceptable(p)

\* While no store call has failed, an instance that has left the first billet
\* behind found or made it; and as long as the second is missing, some
\* instance is on its way to create it, or all are still at the first.
BootstrapOnTrack ==
    ~bootError =>
        /\ (\E i \in Instances : boot[i] \notin {"getGuardrails", "createGuardrails"})
              => Guardrails \in billets
        /\ AdminBillet \notin billets =>
              \/ \E i \in Instances : boot[i] \in {"getAdmin", "createAdmin"}
              \/ \A i \in Instances : boot[i] = "getGuardrails"
              \/ /\ Guardrails \notin billets
                 /\ \A i \in Instances : boot[i] \in {"getGuardrails", "createGuardrails"}

AdminInv ==
    AdminTypes /\ RequestsValid /\ ServedAfterBoot /\ RowsAcceptable /\ BootstrapOnTrack

\* The fields a request carries are the ones its operation needs (the serde
\* types of the handlers).
LEMMA RequestTyped ==
    ASSUME NEW r \in Requests
    PROVE  /\ r.billet \in Billets
           /\ r.op = "createBillet" => r.tags \in SUBSET Tags /\ r.roles \in Roles
           /\ r.op = "updateBillet" =>
                /\ r.tags = Absent \/ r.tags \in SUBSET Tags
                /\ r.roles = Absent \/ r.roles \in Roles
           /\ r.op \in {"createPolicy", "updatePolicy", "deletePolicy"} =>
                r.policy \in Policies /\ r.policy.billet = r.billet
           /\ r.op \in {"createBillet", "updateBillet", "deleteBillet",
                        "createPolicy", "updatePolicy", "deletePolicy"}
BY AdminAssumption, StoreAssumption DEF Request, PolicyRow

\* The invariant holds before the first bootstrap and the first request.
LEMMA InitEstablishesInv ==
    ASSUME AdminInit
    PROVE  AdminInv
<1>1. StoreTypeOK
  BY StoreAssumption DEF AdminInit, StoreInit, StoreTypeOK
<1>2. AdminTypes
  BY <1>1, AdminAssumption DEF AdminInit, AdminTypes, PolicyKeys, StoreTypeOK
<1>3. RequestsValid /\ ServedAfterBoot /\ RowsAcceptable
  BY DEF AdminInit, RequestsValid, ServedAfterBoot, RowsAcceptable
<1>4. BootstrapOnTrack
  BY DEF AdminInit, BootstrapOnTrack
<1> QED BY <1>2, <1>3, <1>4 DEF AdminInv

(***************************************************************************)
(* Steps that leave the tables alone.                                       *)
(***************************************************************************)

\* A step that touches neither the tables nor the bootstraps keeps what is
\* said of them.
LEMMA QuietRows ==
    ASSUME AdminInv, UNCHANGED <<rowVars, bootVars>>
    PROVE  /\ StoreTypeOK' /\ RowsAcceptable' /\ BootstrapOnTrack'
           /\ roles' \in [Billets -> Roles]
           /\ boot' = boot /\ bootError' = bootError
BY DEF AdminInv, AdminTypes, StoreTypeOK, rowVars, storeVars, bootVars, RowsAcceptable,
   Acceptable, BootstrapOnTrack

\* An early return of a handler ends the request and changes nothing else.
LEMMA AbandonPreservesInv ==
    ASSUME AdminInv, NEW a \in Admins, Abandon(a)
    PROVE  AdminInv'
<1>1. AdminTypes'
  BY QuietRows DEF AdminInv, AdminTypes, Abandon
<1>2. RequestsValid' /\ ServedAfterBoot'
  BY DEF AdminInv, AdminTypes, RequestsValid, ServedAfterBoot, bootVars, Abandon
<1> QED BY <1>1, <1>2, QuietRows DEF AdminInv, Abandon

\* A new request takes a free admin slot.
LEMMA SubmitPreservesInv ==
    ASSUME AdminInv, NEW a \in Admins, Submit(a)
    PROVE  AdminInv'
<1>0. UNCHANGED <<rowVars, bootVars>>
  BY DEF Submit
<1>1. PICK r \in Requests :
        /\ req' = [req EXCEPT ![a] = r]
        /\ IF r.op = "createPolicy"
           THEN KeyOf(r.policy) \notin used /\ used' = used \cup {KeyOf(r.policy)}
           ELSE UNCHANGED used
  BY DEF Submit
<1>2. used' \subseteq PolicyKeys
  BY <1>1, RequestTyped DEF AdminInv, AdminTypes, PolicyKeys
<1>3. AdminTypes'
  BY <1>0, <1>1, <1>2, QuietRows DEF AdminInv, AdminTypes, Submit
<1>4. RequestsValid' /\ ServedAfterBoot'
  BY <1>1 DEF AdminInv, AdminTypes, RequestsValid, ServedAfterBoot, bootVars, Submit
<1> QED BY <1>0, <1>3, <1>4, QuietRows DEF AdminInv

\* Past authentication and validation the request is valid.
LEMMA AuthenticatePreservesInv ==
    ASSUME AdminInv, NEW a \in Admins, Authenticate(a)
    PROVE  AdminInv'
<1>0. UNCHANGED <<rowVars, bootVars>>
  BY DEF Authenticate
<1>1. AdminTypes'
  BY <1>0, QuietRows DEF AdminInv, AdminTypes, Authenticate
<1>2. RequestsValid' /\ ServedAfterBoot'
  BY DEF AdminInv, AdminTypes, RequestsValid, ServedAfterBoot, bootVars, Authenticate
<1> QED BY <1>0, <1>1, <1>2, QuietRows DEF AdminInv

\* The read before the write records the billet as it is.
LEMMA ReadPreservesInv ==
    ASSUME AdminInv, NEW a \in Admins, Read(a)
    PROVE  AdminInv'
<1>0. UNCHANGED <<rowVars, bootVars>>
  BY DEF Read
<1>1. req[a].billet \in Billets
  BY RequestTyped DEF AdminInv, RequestsValid, Read
<1>2. [tags |-> tags[req[a].billet], roles |-> roles[req[a].billet]] \in BilletRecord
  BY <1>1 DEF AdminInv, AdminTypes, StoreTypeOK, TagMap, BilletRecord
<1>3. AdminTypes'
  BY <1>0, <1>2, QuietRows DEF AdminInv, AdminTypes, Read
<1>4. RequestsValid' /\ ServedAfterBoot'
  BY <1>2 DEF AdminInv, AdminTypes, RequestsValid, ServedAfterBoot, bootVars, Read
<1> QED BY <1>0, <1>3, <1>4, QuietRows DEF AdminInv

\* The read after a policy update only ends the request.
LEMMA RereadPreservesInv ==
    ASSUME AdminInv, NEW a \in Admins, Reread(a)
    PROVE  AdminInv'
<1>0. UNCHANGED <<rowVars, bootVars>>
  BY DEF Reread, Complete
<1>1. AdminTypes'
  BY <1>0, QuietRows DEF AdminInv, AdminTypes, Reread, Complete
<1>2. RequestsValid' /\ ServedAfterBoot'
  BY DEF AdminInv, AdminTypes, RequestsValid, ServedAfterBoot, bootVars, Reread, Complete
<1> QED BY <1>0, <1>1, <1>2, QuietRows DEF AdminInv

(***************************************************************************)
(* The writes.                                                              *)
(***************************************************************************)

\* The request half of a write that completes.
LEMMA CompletedRequest ==
    ASSUME AdminInv, NEW a \in Admins, Complete(a)
    PROVE  /\ RequestsValid' /\ ServedAfterBoot'
           /\ pc' \in [Admins -> {"idle", "authenticate", "read", "write", "reread"}]
           /\ req' \in [Admins -> Requests \cup {Absent}]
           /\ got' \in [Admins -> BilletRecord \cup {Absent}]
           /\ used' \subseteq PolicyKeys
           /\ boot' = boot /\ bootError' = bootError
BY DEF AdminInv, AdminTypes, RequestsValid, ServedAfterBoot, Complete, bootVars

\* A request that reached its write is valid.
LEMMA WritingIsValid ==
    ASSUME AdminInv, NEW a \in Admins, pc[a] = "write"
    PROVE  req[a] \in Requests /\ Valid(req[a])
BY DEF AdminInv, RequestsValid

\* The bootstrap only minds the two system billets, which no write removes.
LEMMA OnTrackKept ==
    ASSUME AdminInv, UNCHANGED <<boot, bootError>>,
           billets \cap ProtectedBillets \subseteq billets',
           Guardrails \in billets' /\ Guardrails \notin billets =>
              \E i \in Instances : boot[i] = "ready"
    PROVE  BootstrapOnTrack'
BY DEF AdminInv, AdminTypes, BootstrapOnTrack, ProtectedBillets

\* create_billet adds one billet and leaves the policies alone.
LEMMA CreateBilletPreservesInv ==
    ASSUME AdminInv, NEW a \in Admins, CreateBillet(a)
    PROVE  AdminInv'
<1> DEFINE b == req[a].billet
<1>1. b \in Billets /\ req[a].tags \in SUBSET Tags /\ req[a].roles \in Roles
  BY WritingIsValid, RequestTyped DEF CreateBillet
<1>2. StoreTypeOK' /\ roles' \in [Billets -> Roles] /\ policies' = policies
  BY <1>1, StoreAssumption DEF CreateBillet, create_billet, Written, AdminInv, AdminTypes,
     StoreTypeOK, TagMap
<1>3. BootstrapOnTrack'
  BY OnTrackKept DEF CreateBillet, create_billet, Complete, bootVars, AdminInv, ServedAfterBoot
<1>4. Complete(a)
  BY DEF CreateBillet
<1> QED
  BY <1>2, <1>3, <1>4, CompletedRequest DEF AdminInv, AdminTypes, RowsAcceptable, Acceptable

\* update_billet writes a merged record of a billet that exists.
LEMMA UpdateBilletPreservesInv ==
    ASSUME AdminInv, NEW a \in Admins, UpdateBillet(a)
    PROVE  AdminInv'
<1>1. req[a].billet \in Billets /\ MergedRecord(a) \in BilletRecord
  BY WritingIsValid, RequestTyped DEF UpdateBillet, AdminInv, RequestsValid, MergedRecord,
     BilletRecord
<1>2. StoreTypeOK' /\ roles' \in [Billets -> Roles] /\ policies' = policies
      /\ billets' = billets
  BY <1>1, StoreAssumption DEF UpdateBillet, update_billet, Written, AdminInv, AdminTypes,
     StoreTypeOK, TagMap, BilletRecord
<1>3. BootstrapOnTrack'
  BY <1>2, OnTrackKept DEF UpdateBillet, Complete, bootVars
<1>4. Complete(a)
  BY DEF UpdateBillet
<1> QED
  BY <1>2, <1>3, <1>4, CompletedRequest DEF AdminInv, AdminTypes, RowsAcceptable, Acceptable

\* The cascade never removes a protected billet.
LEMMA DeleteBilletPreservesInv ==
    ASSUME AdminInv, NEW a \in Admins, DeleteBillet(a)
    PROVE  AdminInv'
<1>1. req[a].billet \in Billets /\ req[a].billet \notin ProtectedBillets
  BY WritingIsValid, RequestTyped DEF DeleteBillet, Valid
<1>2. StoreTypeOK' /\ roles' \in [Billets -> Roles]
  BY <1>1, StoreAssumption, AdminAssumption DEF DeleteBillet, delete_billet_cascade, Written,
     AdminInv, AdminTypes, StoreTypeOK, TagMap
<1>3. RowsAcceptable'
  BY DEF DeleteBillet, delete_billet_cascade, AdminInv, RowsAcceptable, Acceptable
<1>4. BootstrapOnTrack'
  BY <1>1, OnTrackKept DEF DeleteBillet, delete_billet_cascade, Complete, bootVars
<1>5. Complete(a)
  BY DEF DeleteBillet
<1> QED BY <1>2, <1>3, <1>4, <1>5, CompletedRequest DEF AdminInv, AdminTypes

\* create_policy inserts a row that passed validation.
LEMMA CreatePolicyPreservesInv ==
    ASSUME AdminInv, NEW a \in Admins, CreatePolicy(a)
    PROVE  AdminInv'
<1>1. req[a].policy \in Policies /\ Acceptable(req[a].policy)
  BY WritingIsValid, RequestTyped DEF CreatePolicy, Valid
<1>2. StoreTypeOK' /\ roles' = roles /\ billets' = billets
  BY <1>1, StoreAssumption DEF CreatePolicy, create_policy, Written, AdminInv, AdminTypes,
     StoreTypeOK
<1>3. RowsAcceptable'
  BY <1>1 DEF CreatePolicy, create_policy, AdminInv, RowsAcceptable, Acceptable
<1>4. BootstrapOnTrack'
  BY <1>2, OnTrackKept DEF CreatePolicy, Complete, bootVars
<1>5. Complete(a)
  BY DEF CreatePolicy
<1> QED BY <1>2, <1>3, <1>4, <1>5, CompletedRequest DEF AdminInv, AdminTypes

\* update_policy replaces a row by one that passed validation.
LEMMA UpdatePolicyPreservesInv ==
    ASSUME AdminInv, NEW a \in Admins, UpdatePolicy(a)
    PROVE  AdminInv'
<1>1. req[a].policy \in Policies /\ Acceptable(req[a].policy)
  BY WritingIsValid, RequestTyped DEF UpdatePolicy, Valid
<1>2. StoreTypeOK' /\ roles' = roles /\ billets' = billets
  BY <1>1, StoreAssumption DEF UpdatePolicy, update_policy, Written, AdminInv, AdminTypes,
     StoreTypeOK
<1>3. RowsAcceptable'
  BY <1>1 DEF UpdatePolicy, update_policy, AdminInv, RowsAcceptable, Acceptable
<1>4. BootstrapOnTrack'
  BY <1>2, OnTrackKept DEF UpdatePolicy, bootVars
<1>5. AdminTypes'
  BY <1>2 DEF UpdatePolicy, AdminInv, AdminTypes, bootVars
<1>6. RequestsValid' /\ ServedAfterBoot'
  BY DEF UpdatePolicy, AdminInv, AdminTypes, RequestsValid, ServedAfterBoot, bootVars
<1> QED BY <1>3, <1>4, <1>5, <1>6 DEF AdminInv

\* delete_policy only removes a row.
LEMMA DeletePolicyPreservesInv ==
    ASSUME AdminInv, NEW a \in Admins, DeletePolicy(a)
    PROVE  AdminInv'
<1>1. PICK q \in policies : SameKey(q, req[a].policy) /\ delete_policy(q)
  BY DEF DeletePolicy
<1>2. StoreTypeOK' /\ roles' = roles /\ billets' = billets
  BY <1>1, StoreAssumption DEF DeletePolicy, delete_policy, Written, AdminInv, AdminTypes,
     StoreTypeOK
<1>3. RowsAcceptable'
  BY <1>1 DEF delete_policy, AdminInv, RowsAcceptable, Acceptable
<1>4. BootstrapOnTrack'
  BY <1>2, OnTrackKept DEF DeletePolicy, Complete, bootVars
<1>5. Complete(a)
  BY DEF DeletePolicy
<1> QED BY <1>2, <1>3, <1>4, <1>5, CompletedRequest DEF AdminInv, AdminTypes

(***************************************************************************)
(* The bootstrap.                                                           *)
(***************************************************************************)

\* A bootstrap step says nothing about the requests being served.
LEMMA BootstrapPreservesRequests ==
    ASSUME AdminInv, UNCHANGED reqVars,
           \A i \in Instances : boot[i] = "ready" => boot'[i] = "ready"
    PROVE  RequestsValid' /\ ServedAfterBoot'
BY DEF AdminInv, RequestsValid, ServedAfterBoot, reqVars

\* get_billet of a bootstrap decides between creating and going on.
LEMMA BootstrapGetPreservesInv ==
    ASSUME AdminInv, NEW i \in Instances, BootstrapGet(i)
    PROVE  AdminInv'
<1>1. AdminTypes' /\ RowsAcceptable'
  BY DEF BootstrapGet, AdminInv, AdminTypes, StoreTypeOK, RowsAcceptable, Acceptable, rowVars,
     storeVars, reqVars, AfterBillet, BootBillet
<1>2. RequestsValid' /\ ServedAfterBoot'
  BY BootstrapPreservesRequests DEF BootstrapGet, AdminInv, AdminTypes
<1>3. BootstrapOnTrack'
  BY DEF BootstrapGet, AdminInv, AdminTypes, BootstrapOnTrack, rowVars, storeVars, AfterBillet,
     BootBillet
<1> QED BY <1>1, <1>2, <1>3 DEF AdminInv

\* create_billet of a bootstrap puts its system billet in the table.
LEMMA BootstrapCreatePreservesInv ==
    ASSUME AdminInv, NEW i \in Instances, BootstrapCreate(i)
    PROVE  AdminInv'
<1>1. BootBillet(i) \in Billets /\ {SystemTag} \in SUBSET Tags
  BY AdminAssumption DEF BootBillet
<1>2. AdminTypes' /\ RowsAcceptable'
  BY <1>1, StoreAssumption, AdminAssumption DEF BootstrapCreate, create_billet, Written, AdminInv,
     AdminTypes, StoreTypeOK, TagMap, RowsAcceptable, Acceptable, reqVars, AfterBillet
<1>3. RequestsValid' /\ ServedAfterBoot'
  BY BootstrapPreservesRequests DEF BootstrapCreate, AdminInv, AdminTypes
<1>4. BootstrapOnTrack'
  BY DEF BootstrapCreate, create_billet, AdminInv, AdminTypes, BootstrapOnTrack, AfterBillet,
     BootBillet
<1> QED BY <1>2, <1>3, <1>4 DEF AdminInv

\* The loser of a race leaves; the winner is still on its way.
LEMMA BootstrapConflictPreservesInv ==
    ASSUME AdminInv, NEW i \in Instances, BootstrapConflict(i)
    PROVE  AdminInv'
<1>1. AdminTypes' /\ RowsAcceptable'
  BY DEF BootstrapConflict, AdminInv, AdminTypes, StoreTypeOK, RowsAcceptable, Acceptable,
     rowVars, storeVars, reqVars
<1>2. RequestsValid' /\ ServedAfterBoot'
  BY BootstrapPreservesRequests DEF BootstrapConflict, AdminInv, AdminTypes
<1>3. BootstrapOnTrack'
  BY DEF BootstrapConflict, AdminInv, AdminTypes, BootstrapOnTrack, rowVars, storeVars, BootBillet
<1> QED BY <1>1, <1>2, <1>3 DEF AdminInv

\* A bootstrap that ends on a store error sets bootError.
LEMMA BootstrapFailsPreservesInv ==
    ASSUME AdminInv, NEW i \in Instances, BootstrapFails(i)
    PROVE  AdminInv'
<1>1. AdminTypes' /\ RowsAcceptable'
  BY DEF BootstrapFails, AdminInv, AdminTypes, StoreTypeOK, RowsAcceptable, Acceptable,
     rowVars, storeVars, reqVars
<1>2. RequestsValid' /\ ServedAfterBoot'
  BY BootstrapPreservesRequests DEF BootstrapFails, AdminInv, AdminTypes
<1>3. BootstrapOnTrack'
  BY DEF BootstrapFails, BootstrapOnTrack
<1> QED BY <1>1, <1>2, <1>3 DEF AdminInv

\* A stuttering step changes nothing.
LEMMA StutterPreservesInv ==
    ASSUME AdminInv, UNCHANGED vars
    PROVE  AdminInv'
<1>1. UNCHANGED <<rowVars, bootVars>>
  BY DEF vars
<1>2. AdminTypes' /\ RequestsValid' /\ ServedAfterBoot'
  BY <1>1, QuietRows DEF vars, reqVars, AdminInv, AdminTypes, RequestsValid, ServedAfterBoot
<1> QED BY <1>1, <1>2, QuietRows DEF AdminInv

\* Every step of a request preserves the invariant.
LEMMA ServePreservesInv ==
    ASSUME AdminInv, NEW a \in Admins, Serve(a)
    PROVE  AdminInv'
BY SubmitPreservesInv, AbandonPreservesInv, AuthenticatePreservesInv, ReadPreservesInv,
   RereadPreservesInv, CreateBilletPreservesInv, UpdateBilletPreservesInv,
   DeleteBilletPreservesInv, CreatePolicyPreservesInv, UpdatePolicyPreservesInv,
   DeletePolicyPreservesInv
   DEF Serve, Refuse, Reject, ReadRefused, Write, RereadRefused, WriteRefused, StoreFails

\* The invariant holds of every reachable state.
THEOREM AdminInvariant == AdminSpec => []AdminInv
<1>1. AdminInit => AdminInv
  BY InitEstablishesInv
<1>2. AdminInv /\ [AdminNext]_vars => AdminInv'
  BY ServePreservesInv, BootstrapGetPreservesInv, BootstrapCreatePreservesInv,
     BootstrapConflictPreservesInv, BootstrapFailsPreservesInv, StutterPreservesInv
     DEF AdminNext, Bootstrap
<1> QED BY <1>1, <1>2, PTL DEF AdminSpec

(***************************************************************************)
(* What follows from it.                                                    *)
(***************************************************************************)

\* The handlers and the store keep every variable in its type.
THEOREM AdminTypesCorrect == AdminSpec => []AdminTypes
<1>1. AdminInv => AdminTypes
  BY DEF AdminInv
<1> QED BY <1>1, AdminInvariant, PTL

\* Concurrent bootstraps of any number of instances leave both system billets
\* in the table, and no admin request removes them.
THEOREM SystemBilletsAlwaysExist == AdminSpec => []SystemBilletsExist
<1>1. AdminInv => SystemBilletsExist
  BY AdminAssumption DEF AdminInv, BootstrapOnTrack, SystemBilletsExist, ProtectedBillets
<1> QED BY <1>1, AdminInvariant, PTL

\* create and update of PolicyCrudService never let a permit policy in under
\* the guardrails billet.
THEOREM GuardrailsStayForbid == AdminSpec => []GuardrailsOnlyForbid
<1>1. AdminInv => GuardrailsOnlyForbid
  BY DEF AdminInv, RowsAcceptable, Acceptable, validate_forbid_only, GuardrailsOnlyForbid
<1> QED BY <1>1, AdminInvariant, PTL

\* A row scoped to its own billet says nothing about another one.
LEMMA ScopedRowIsLocal ==
    ASSUME NEW p \in Policies, NEW s, NEW b \in Billets, NEW ts,
           p.resource = p.billet, p.billet # b
    PROVE  ~Applies(p, s, b, ts)
BY StoreAssumption DEF PolicyRow, Applies

\* An admin who may only write under a team's billet can neither grant nor
\* revoke anybody's access to another billet.
THEOREM DelegationStaysIsolated == AdminSpec => DelegationIsolated
<1>1. ASSUME AdminInv, NEW a \in Admins, Write(a), ~is_system_billet(req[a].billet),
             NEW s \in Subjects, NEW b \in Billets \ {req[a].billet}
      PROVE  is_authorized(policies', s, b, tags'[b]) <=> is_authorized(policies, s, b, tags[b])
  <2> DEFINE own == req[a].billet
  <2>1. pc[a] = "write"
    BY <1>1 DEF Write, CreateBillet, UpdateBillet, DeleteBillet, CreatePolicy, UpdatePolicy,
       DeletePolicy
  <2>2. own \in Billets /\ req[a] \in Requests /\ Valid(req[a])
    BY <1>1, <2>1, WritingIsValid, RequestTyped
  <2>3. tags'[b] = tags[b]
    BY <1>1, <2>2 DEF Write, CreateBillet, UpdateBillet, DeleteBillet, CreatePolicy, UpdatePolicy,
       DeletePolicy, create_billet, update_billet, delete_billet_cascade, create_policy,
       update_policy, delete_policy, AdminInv, AdminTypes, StoreTypeOK, TagMap
  <2>4. \A p : p.billet # own => (p \in policies' <=> p \in policies)
    BY <1>1, <2>2, RequestTyped DEF Write, CreateBillet, UpdateBillet, DeleteBillet, CreatePolicy,
       UpdatePolicy, DeletePolicy, create_billet, update_billet, delete_billet_cascade,
       create_policy, update_policy, delete_policy, SameKey
  <2>5. AdminInv'
    BY <1>1, ServePreservesInv DEF Serve
  <2>6. \A p \in policies \cup policies' : p.billet = own => ~Applies(p, s, b, tags[b])
    <3>1. \A p \in policies \cup policies' : p \in Policies /\ Acceptable(p)
      BY <1>1, <2>5 DEF AdminInv, AdminTypes, StoreTypeOK, RowsAcceptable, Acceptable
    <3> QED BY <1>1, <3>1, ScopedRowIsLocal DEF Acceptable, validate_resource_scope
  <2> QED BY <2>3, <2>4, <2>6 DEF is_authorized
<1>2. AdminInv /\ [AdminNext]_vars =>
        [\A a \in Admins : Write(a) /\ ~is_system_billet(req[a].billet) =>
            \A s \in Subjects, b \in Billets \ {req[a].billet} :
               is_authorized(policies', s, b, tags'[b]) <=> is_authorized(policies, s, b, tags[b])]_vars
  BY <1>1
<1> QED BY <1>2, AdminInvariant, PTL DEF AdminSpec, DelegationIsolated
=============================================================================
