------------------------------ MODULE AdminCrud ------------------------------
(***************************************************************************)
(* The admin API over the DataStore: BilletCrudService, PolicyCrudService,  *)
(* their HTTP handlers, and bootstrap_system_billets.  Each service call    *)
(* checks, awaits, and then writes, so the requests of several admins and   *)
(* the bootstraps of several instances interleave between check and write.  *)
(*                                                                         *)
(* A billet record has, besides its tags, one more field (roles) that an    *)
(* update may leave out.  The admin's token and the Cedar decision on it    *)
(* are abstracted to a choice: authentication may refuse any request.       *)
(***************************************************************************)
EXTENDS DataStore

CONSTANTS
    Guardrails,     \* "quartermaster-guardrails"
    AdminBillet,    \* "quartermaster-admin"
    SystemBillets,  \* system_billets of the configuration
    SystemTag,      \* "system:true"
    Roles,          \* values of the other fields of a billet record
    NoRoles,        \* their value in the records that the bootstrap writes
    Absent,         \* Rust's None
    Admins,         \* concurrent admin requests
    Requests,       \* what the admins ask for
    Instances       \* service instances that start on the same store

KeyOf(p) == <<p.billet, p.id>>
PolicyKeys == {KeyOf(p) : p \in Policies}

Request ==
    [op : {"createBillet"}, billet : Billets, tags : SUBSET Tags, roles : Roles, policy : {Absent}]
    \cup [op : {"updateBillet"}, billet : Billets, tags : {Absent} \cup SUBSET Tags,
          roles : Roles \cup {Absent}, policy : {Absent}]
    \cup [op : {"deleteBillet"}, billet : Billets, tags : {Absent}, roles : {Absent}, policy : {Absent}]
    \cup {[op |-> o, billet |-> p.billet, tags |-> Absent, roles |-> Absent, policy |-> p] :
            o \in {"createPolicy", "updatePolicy", "deletePolicy"}, p \in Policies}

BilletRecord == [tags : SUBSET Tags, roles : Roles]

ASSUME AdminAssumption ==
    /\ Requests \subseteq Request
    /\ Guardrails \in Billets /\ AdminBillet \in Billets
    /\ SystemTag \in Tags
    /\ NoRoles \in Roles
    /\ Instances # {}
    /\ Absent \notin Roles /\ Absent \notin Policies
    /\ \A ts \in SUBSET Tags : Absent # ts

VARIABLES
    roles,      \* roles[b]: the other fields of row b
    used,       \* the policy keys given out so far (UUIDs)
    pc,         \* pc[a]: where the request of a is
    req,        \* req[a]: the request
    got,        \* got[a]: the billet record that a read
    boot,       \* boot[i]: where the bootstrap of i is
    bootError   \* history: a store call of a bootstrap failed

rowVars == <<storeVars, roles>>
reqVars == <<used, pc, req, got>>
bootVars == <<boot, bootError>>
vars == <<rowVars, reqVars, bootVars>>

AdminTypes ==
    /\ StoreTypeOK
    /\ roles \in [Billets -> Roles]
    /\ used \subseteq PolicyKeys
    /\ pc \in [Admins -> {"idle", "authenticate", "read", "write", "reread"}]
    /\ req \in [Admins -> Requests \cup {Absent}]
    /\ got \in [Admins -> BilletRecord \cup {Absent}]
    /\ boot \in [Instances -> {"getGuardrails", "createGuardrails", "getAdmin", "createAdmin", "ready"}]
    /\ bootError \in BOOLEAN

-----------------------------------------------------------------------------
(* Validation. *)

validate_forbid_only(p) == p.effect = "forbid"

\* Mutant: only an unconstrained resource is refused.
AnyNamedBillet(p) == p.resource # AnyBillet

validate_resource_scope(p) == p.resource = p.billet

is_system_billet(b) == b \in SystemBillets

\* What create and update ask of a statement.
Acceptable(p) ==
    /\ p.billet = Guardrails => validate_forbid_only(p)
    /\ ~is_system_billet(p.billet) => validate_resource_scope(p)

ProtectedBillets == {Guardrails, AdminBillet}

\* Mutants: update takes any statement; any billet may be deleted.
ValidatedOnCreateOnly(r) ==
    /\ r.op = "createPolicy" => Acceptable(r.policy)
    /\ r.op = "deleteBillet" => r.billet \notin ProtectedBillets

Unprotected(r) == r.op \in {"createPolicy", "updatePolicy"} => Acceptable(r.policy)

Valid(r) ==
    /\ r.op \in {"createPolicy", "updatePolicy"} => Acceptable(r.policy)
    /\ r.op = "deleteBillet" => r.billet \notin ProtectedBillets

-----------------------------------------------------------------------------
(* The store as an earlier run of the service left it. *)
AdminInit ==
    /\ StoreInit
    /\ \A p \in policies : p.billet \in billets /\ Acceptable(p)
    /\ roles = [b \in Billets |-> NoRoles]
    /\ used = {KeyOf(p) : p \in policies}
    /\ pc = [a \in Admins |-> "idle"]
    /\ req = [a \in Admins |-> Absent]
    /\ got = [a \in Admins |-> Absent]
    /\ boot = [i \in Instances |-> "getGuardrails"]
    /\ bootError = FALSE

-----------------------------------------------------------------------------
(* A request up to its write. *)

\* The id of a new policy is a fresh UUID, reserved here.
Submit(a) ==
    /\ pc[a] = "idle"
    /\ \E i \in Instances : boot[i] = "ready"
    /\ \E r \in Requests :
          /\ req' = [req EXCEPT ![a] = r]
          /\ IF r.op = "createPolicy"
             THEN KeyOf(r.policy) \notin used /\ used' = used \cup {KeyOf(r.policy)}
             ELSE UNCHANGED used
    /\ pc' = [pc EXCEPT ![a] = "authenticate"]
    /\ UNCHANGED <<rowVars, got, bootVars>>

\* The request ends with an error and leaves nothing behind.
Abandon(a) ==
    /\ pc' = [pc EXCEPT ![a] = "idle"]
    /\ req' = [req EXCEPT ![a] = Absent]
    /\ got' = [got EXCEPT ![a] = Absent]
    /\ UNCHANGED <<rowVars, used, bootVars>>

\* The request ends with a success and its audit event.
Complete(a) ==
    /\ pc' = [pc EXCEPT ![a] = "idle"]
    /\ req' = [req EXCEPT ![a] = Absent]
    /\ got' = [got EXCEPT ![a] = Absent]
    /\ UNCHANGED <<used, bootVars>>

\* The authenticator refuses; the event is an authFailure.
Refuse(a) == pc[a] = "authenticate" /\ Abandon(a)

\* authenticate, then the validations, which do not await.
Authenticate(a) ==
    /\ pc[a] = "authenticate"
    /\ Valid(req[a])
    /\ pc' = [pc EXCEPT ![a] = IF req[a].op \in {"updatePolicy", "deletePolicy"}
                               THEN "write" ELSE "read"]
    /\ UNCHANGED <<rowVars, used, req, got, bootVars>>

Reject(a) == pc[a] = "authenticate" /\ ~Valid(req[a]) /\ Abandon(a)

\* Whether the billet must be there for the request to go on.
Found(a) == req[a].billet \in billets <=> req[a].op # "createBillet"

\* get_billet
Read(a) ==
    /\ pc[a] = "read"
    /\ Found(a)
    /\ got' = [got EXCEPT ![a] = [tags |-> tags[req[a].billet], roles |-> roles[req[a].billet]]]
    /\ pc' = [pc EXCEPT ![a] = "write"]
    /\ UNCHANGED <<rowVars, used, req, bootVars>>

\* AlreadyExists, NotFound or BilletNotFound.
ReadRefused(a) == pc[a] = "read" /\ ~Found(a) /\ Abandon(a)

-----------------------------------------------------------------------------
(* The writes. *)

CreateBillet(a) ==
    /\ pc[a] = "write" /\ req[a].op = "createBillet"
    /\ create_billet(req[a].billet, req[a].tags)
    /\ roles' = [roles EXCEPT ![req[a].billet] = req[a].roles]
    /\ Complete(a)

\* Mutant: a field that the request leaves out is written all the same.
UnmergedRecord(a) ==
    [tags |-> IF req[a].tags = Absent THEN got[a].tags ELSE req[a].tags,
     roles |-> req[a].roles]

\* The record that was read, with the fields of the request put over it.
MergedRecord(a) ==
    [tags |-> IF req[a].tags = Absent THEN got[a].tags ELSE req[a].tags,
     roles |-> IF req[a].roles = Absent THEN got[a].roles ELSE req[a].roles]

UpdateBillet(a) ==
    /\ pc[a] = "write" /\ req[a].op = "updateBillet"
    /\ update_billet(req[a].billet, MergedRecord(a).tags)
    /\ roles' = [roles EXCEPT ![req[a].billet] = MergedRecord(a).roles]
    /\ Complete(a)

DeleteBillet(a) ==
    /\ pc[a] = "write" /\ req[a].op = "deleteBillet"
    /\ delete_billet_cascade(req[a].billet)
    /\ roles' = [roles EXCEPT ![req[a].billet] = NoRoles]
    /\ Complete(a)

CreatePolicy(a) ==
    /\ pc[a] = "write" /\ req[a].op = "createPolicy"
    /\ create_policy(req[a].policy)
    /\ UNCHANGED roles
    /\ Complete(a)

UpdatePolicy(a) ==
    /\ pc[a] = "write" /\ req[a].op = "updatePolicy"
    /\ update_policy(req[a].policy)
    /\ pc' = [pc EXCEPT ![a] = "reread"]
    /\ UNCHANGED <<roles, used, req, got, bootVars>>

\* update reads the row back before it answers.
Reread(a) ==
    /\ pc[a] = "reread"
    /\ \E q \in policies : SameKey(q, req[a].policy)
    /\ UNCHANGED rowVars
    /\ Complete(a)

RereadRefused(a) ==
    /\ pc[a] = "reread"
    /\ \A q \in policies : ~SameKey(q, req[a].policy)
    /\ Abandon(a)

DeletePolicy(a) ==
    /\ pc[a] = "write" /\ req[a].op = "deletePolicy"
    /\ \E q \in policies : SameKey(q, req[a].policy) /\ delete_policy(q)
    /\ UNCHANGED roles
    /\ Complete(a)

Write(a) ==
    \/ CreateBillet(a) \/ UpdateBillet(a) \/ DeleteBillet(a)
    \/ CreatePolicy(a) \/ UpdatePolicy(a) \/ DeletePolicy(a)

\* What the store itself asks of the table.
Accepted(a) ==
    CASE req[a].op = "createBillet" -> req[a].billet \notin billets
      [] req[a].op \in {"updateBillet", "deleteBillet"} -> req[a].billet \in billets
      [] req[a].op = "createPolicy" -> \A q \in policies : ~SameKey(q, req[a].policy)
      [] OTHER -> \E q \in policies : SameKey(q, req[a].policy)

\* The store answers Conflict or NotFound: the table has changed since the
\* request read it.
WriteRefused(a) == pc[a] = "write" /\ ~Accepted(a) /\ Abandon(a)

\* The store fails and nothing is written.
StoreFails(a) == pc[a] \in {"read", "write", "reread"} /\ Abandon(a)

Serve(a) ==
    \/ Submit(a) \/ Refuse(a) \/ Authenticate(a) \/ Reject(a) \/ Read(a) \/ ReadRefused(a)
    \/ Write(a) \/ Reread(a) \/ RereadRefused(a) \/ WriteRefused(a) \/ StoreFails(a)

-----------------------------------------------------------------------------
(* bootstrap_system_billets: guardrails first, then admin. *)

BootBillet(i) == IF boot[i] \in {"getGuardrails", "createGuardrails"} THEN Guardrails ELSE AdminBillet

AfterBillet(i) == IF BootBillet(i) = Guardrails THEN "getAdmin" ELSE "ready"

BootstrapGet(i) ==
    /\ boot[i] \in {"getGuardrails", "getAdmin"}
    /\ boot' = [boot EXCEPT ![i] =
                  IF BootBillet(i) \in billets THEN AfterBillet(i)
                  ELSE IF @ = "getGuardrails" THEN "createGuardrails" ELSE "createAdmin"]
    /\ UNCHANGED <<rowVars, reqVars, bootError>>

BootstrapCreate(i) ==
    /\ boot[i] \in {"createGuardrails", "createAdmin"}
    /\ create_billet(BootBillet(i), {SystemTag})
    /\ roles' = [roles EXCEPT ![BootBillet(i)] = NoRoles]
    /\ boot' = [boot EXCEPT ![i] = AfterBillet(i)]
    /\ UNCHANGED <<reqVars, bootError>>

\* Another instance was faster: the Conflict ends the bootstrap, and main goes
\* on after a warning.
BootstrapConflict(i) ==
    /\ boot[i] \in {"createGuardrails", "createAdmin"}
    /\ BootBillet(i) \in billets
    /\ boot' = [boot EXCEPT ![i] = "ready"]
    /\ UNCHANGED <<rowVars, reqVars, bootError>>

\* So does any other error of the store.
BootstrapFails(i) ==
    /\ boot[i] # "ready"
    /\ boot' = [boot EXCEPT ![i] = "ready"]
    /\ bootError' = TRUE
    /\ UNCHANGED <<rowVars, reqVars>>

Bootstrap(i) ==
    BootstrapGet(i) \/ BootstrapCreate(i) \/ BootstrapConflict(i) \/ BootstrapFails(i)

-----------------------------------------------------------------------------
AdminNext == (\E a \in Admins : Serve(a)) \/ (\E i \in Instances : Bootstrap(i))

AdminSpec == AdminInit /\ [][AdminNext]_vars

-----------------------------------------------------------------------------
(* Properties. *)

\* However many instances bootstrap at once, and whatever the admins do
\* meanwhile, the system billets are there once all have finished without an
\* error of the store, and they stay.
SystemBilletsExist ==
    (\A i \in Instances : boot[i] = "ready") /\ ~bootError => ProtectedBillets \subseteq billets

\* No sequence of creations and updates puts a permit policy under the
\* guardrails billet.
GuardrailsOnlyForbid ==
    \A p \in policies : p.billet = Guardrails => p.effect = "forbid"

\* Delegation is safe: a write under a billet that is not a system billet
\* changes nobody's access to any other billet, whatever other admins have
\* written or are about to write.
DelegationIsolated ==
    [][\A a \in Admins : Write(a) /\ ~is_system_billet(req[a].billet) =>
          \A s \in Subjects, b \in Billets \ {req[a].billet} :
              is_authorized(policies', s, b, tags'[b]) <=> is_authorized(policies, s, b, tags[b])]_vars
=============================================================================
