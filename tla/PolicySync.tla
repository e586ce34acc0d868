------------------------------ MODULE PolicySync ------------------------------
(***************************************************************************)
(* PolicySyncService: one background task scans the policies table, then    *)
(* the billets table, merges what it could read with what it published      *)
(* before, and publishes the result twice: first in policy_set_handle, which*)
(* the Cedar authorizer reads, then in state, which every other reader uses.*)
(* The two scans and the two publications are separate awaits, so admin     *)
(* writes and readers interleave with them.                                 *)
(*                                                                         *)
(* `ver` fields are history: the version of the store a value was scanned   *)
(* at, 0 for the empty value the merge makes up when it has read nothing.   *)
(***************************************************************************)
EXTENDS DataStore

CONSTANT None    \* Rust's None

VARIABLES
    syncPc,      \* where the background task is in sync_once
    newPolicies, \* new_policy_set, then the merged policy_set
    newBillets,  \* new_billet_metadata, then the merged billet metadata
    state,       \* PolicySyncService.state
    handle,      \* PolicySyncService.policy_set_handle
    lastSync     \* the outcome of the last sync event sent to the audit log

syncVars == <<syncPc, newPolicies, newBillets, state, handle, lastSync>>

PolicyScan == [set : SUBSET Policies, ver : Nat]
BilletScan == [known : SUBSET Billets, tags : TagMap, ver : Nat]
PolicySyncState == [policies : PolicyScan, billets : BilletScan]

\* Some(_) is not None.
ASSUME NoneAssumption ==
    None \notin PolicyScan \cup BilletScan \cup PolicySyncState

EmptyPolicySet == [set |-> {}, ver |-> 0]
NoBilletsYet == [known |-> {}, tags |-> NoTags, ver |-> 0]

SyncTypeOK ==
    /\ syncPc \in {"scanPolicies", "scanBillets", "merge", "swapState", "report"}
    /\ newPolicies \in PolicyScan \cup {None}
    /\ newBillets \in BilletScan \cup {None}
    /\ state \in PolicySyncState \cup {None}
    /\ handle \in PolicyScan \cup {None}
    /\ lastSync \in {"none", "success", "failure"}

\* PolicySyncService::new
SyncInit ==
    /\ syncPc = "scanPolicies"
    /\ newPolicies = None
    /\ newBillets = None
    /\ state = None
    /\ handle = None
    /\ lastSync = "none"

-----------------------------------------------------------------------------
(* What readers call. *)

is_initialized == state # None

known_billets == IF state = None THEN {} ELSE state.billets.known

\* Mutant: the lookup in the billet metadata always misses.
Untagged(b) == {}

billet_tags(b) == IF state = None THEN {} ELSE state.billets.tags[b]

-----------------------------------------------------------------------------
(* sync_once, one action per await. *)

ScanPolicies ==
    /\ syncPc = "scanPolicies"
    /\ newPolicies' = [set |-> policies, ver |-> Version]
    /\ syncPc' = "scanBillets"
    /\ UNCHANGED <<newBillets, state, handle, lastSync>>

\* list_all_policies fails, or a statement does not parse.
ScanPoliciesFails ==
    /\ syncPc = "scanPolicies"
    /\ newPolicies' = None
    /\ syncPc' = "scanBillets"
    /\ UNCHANGED <<newBillets, state, handle, lastSync>>

ScanBillets ==
    /\ syncPc = "scanBillets"
    /\ newBillets' = [known |-> billets, tags |-> tags, ver |-> Version]
    /\ syncPc' = "merge"
    /\ UNCHANGED <<newPolicies, state, handle, lastSync>>

ScanBilletsFails ==
    /\ syncPc = "scanBillets"
    /\ newBillets' = None
    /\ syncPc' = "merge"
    /\ UNCHANGED <<newPolicies, state, handle, lastSync>>

\* Mutants of the merge: a component that was not read is left out, or
\* becomes empty; what was published before wins over what was read.
UnmergedPolicies == newPolicies

EmptiedPolicies == IF newPolicies # None THEN newPolicies ELSE EmptyPolicySet

EmptiedBillets == IF newBillets # None THEN newBillets ELSE NoBilletsYet

PublishedPoliciesWin ==
    IF state # None THEN state.policies
    ELSE IF newPolicies # None THEN newPolicies ELSE EmptyPolicySet

\* A component that was not read keeps its published value; before anything
\* was published it becomes empty.
MergedPolicies ==
    IF newPolicies # None THEN newPolicies
    ELSE IF state # None THEN state.policies ELSE EmptyPolicySet

MergedBillets ==
    IF newBillets # None THEN newBillets
    ELSE IF state # None THEN state.billets ELSE NoBilletsYet

NothingToPublish == newPolicies = None /\ newBillets = None /\ state = None

\* The merge reads state, which only this task writes, and ends with the
\* write of policy_set_handle.
SwapHandle ==
    /\ syncPc = "merge"
    /\ ~NothingToPublish
    /\ newPolicies' = MergedPolicies
    /\ newBillets' = MergedBillets
    /\ handle' = MergedPolicies
    /\ syncPc' = "swapState"
    /\ UNCHANGED <<state, lastSync>>

SwapState ==
    /\ syncPc = "swapState"
    /\ state' = [policies |-> newPolicies, billets |-> newBillets]
    /\ syncPc' = "report"
    /\ UNCHANGED <<newPolicies, newBillets, handle, lastSync>>

\* sync_once returns Err; start emits sync.policy.failure and waits for the
\* next tick of the interval.
SyncFails ==
    /\ syncPc = "merge"
    /\ NothingToPublish
    /\ lastSync' = "failure"
    /\ syncPc' = "scanPolicies"
    /\ UNCHANGED <<newPolicies, newBillets, state, handle>>

\* sync_once returns Ok; start emits sync.policy.success and waits for the
\* next tick of the interval.
ReportSuccess ==
    /\ syncPc = "report"
    /\ lastSync' = "success"
    /\ newPolicies' = None
    /\ newBillets' = None
    /\ syncPc' = "scanPolicies"
    /\ UNCHANGED <<state, handle>>

SyncStep ==
    \/ ScanPolicies \/ ScanPoliciesFails
    \/ ScanBillets \/ ScanBilletsFails
    \/ SwapHandle \/ SwapState \/ SyncFails \/ ReportSuccess

-----------------------------------------------------------------------------
vars == <<storeVars, syncVars>>

TypeOK == StoreTypeOK /\ SyncTypeOK

Init == StoreInit /\ SyncInit

Next ==
    \/ StoreNext /\ UNCHANGED syncVars
    \/ SyncStep /\ UNCHANGED storeVars

(***************************************************************************)
(* The task loops forever on a timer.  Strong fairness of the successful    *)
(* scans says that the store answers now and then.                          *)
(***************************************************************************)
Fairness ==
    /\ WF_vars(SyncStep /\ UNCHANGED storeVars)
    /\ SF_vars(ScanPolicies /\ UNCHANGED storeVars)
    /\ SF_vars(ScanBillets /\ UNCHANGED storeVars)

Spec == Init /\ [][Next]_vars

FairSpec == Spec /\ Fairness

-----------------------------------------------------------------------------
(* The versions that the published values show. *)

HandleVer == IF handle = None THEN 0 ELSE handle.ver
BilletsVer == IF state = None THEN 0 ELSE state.billets.ver

-----------------------------------------------------------------------------
(* Properties. *)

\* Outside the window between the two swaps the authorizer's handle and the
\* state that every other reader uses hold the same policy set; inside it the
\* handle is the one that is ahead, and state is about to follow it
\* (sync_once, steps 4 and 5).
HandleMatchesState ==
    IF syncPc = "swapState"
    THEN handle = newPolicies /\ newBillets # None
    ELSE IF state = None THEN handle = None ELSE handle = state.policies

\* A reader that finds the service initialized can always evaluate: the handle
\* is written before state, never after it.
InitializedCanEvaluate == is_initialized => handle # None

\* Each published value is a stale replica of its table: a failed scan, at any
\* point of any number of rounds, never takes a published value back to an
\* older version or to the made-up empty one (the fail-static merge).
HandleReplica == INSTANCE StaleReplica WITH source <- Version, replica <- HandleVer
BilletsReplica == INSTANCE StaleReplica WITH source <- Version, replica <- BilletsVer

HandleFailStatic == HandleReplica!Spec
BilletsFailStatic == BilletsReplica!Spec

Converged ==
    /\ state # None
    /\ handle.set = policies
    /\ state.policies.set = policies
    /\ state.billets.known = billets
    /\ state.billets.tags = tags

\* Once the admins stop writing, every reader ends up with the tables as they
\* are, whatever scans failed on the way.
EventuallyConverged == <>[]Converged
=============================================================================
