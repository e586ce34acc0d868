-------------------------- MODULE PolicySync_proofs --------------------------
(***************************************************************************)
(* Theorems about PolicySync for all tables and any number of writes: its   *)
(* types, the agreement of the two published values, and that each of them  *)
(* implements the abstract StaleReplica; and about BilletResolution, whose  *)
(* requests read the published values one after the other.                  *)
(***************************************************************************)
EXTENDS BilletResolution, TLAPS

(***************************************************************************)
(* Types.                                                                   *)
(***************************************************************************)
LEMMA EmptyScansTyped ==
    EmptyPolicySet \in PolicyScan /\ NoBilletsYet \in BilletScan
BY DEF EmptyPolicySet, NoBilletsYet, PolicyScan, BilletScan, NoTags, TagMap

\* What the merge publishes is a policy set and a billet set, never None.
LEMMA MergedTyped ==
    ASSUME TypeOK
    PROVE  MergedPolicies \in PolicyScan /\ MergedBillets \in BilletScan
BY EmptyScansTyped DEF TypeOK, SyncTypeOK, MergedPolicies, MergedBillets, PolicySyncState

\* Every admin write keeps the tables in their types.
LEMMA StoreTyped ==
    ASSUME StoreTypeOK, StoreNext
    PROVE  StoreTypeOK'
<1> USE StoreAssumption DEF StoreTypeOK, Written, TagMap
<1>1. CASE \E b \in Billets, ts \in SUBSET Tags : create_billet(b, ts)
  BY <1>1 DEF create_billet
<1>2. CASE \E b \in Billets, ts \in SUBSET Tags : update_billet(b, ts)
  BY <1>2 DEF update_billet
<1>3. CASE \E b \in Billets : delete_billet_cascade(b)
  BY <1>3 DEF delete_billet_cascade
<1>4. CASE \E p \in Policies : create_policy(p)
  BY <1>4 DEF create_policy
<1>5. CASE \E p \in Policies : update_policy(p)
  BY <1>5 DEF update_policy
<1>6. CASE \E p \in Policies : delete_policy(p)
  BY <1>6 DEF delete_policy
<1> QED BY <1>1, <1>2, <1>3, <1>4, <1>5, <1>6 DEF StoreNext

\* The version counts writes, so it is a natural number.
LEMMA VersionTyped ==
    ASSUME StoreTypeOK
    PROVE  Version \in Nat
BY StoreAssumption DEF StoreTypeOK, Version

(***************************************************************************)
(* The inductive invariant.  SwapState publishes what SwapHandle merged, so *)
(* its type rests on MergeComplete; a merge falls back on the published     *)
(* value, so the order of the versions rests on HandleMatchesState.         *)
(***************************************************************************)
MergeComplete == syncPc = "swapState" => newPolicies # None /\ newBillets # None

VersionsOrdered ==
    /\ HandleVer <= Version
    /\ BilletsVer <= Version
    /\ newPolicies # None => HandleVer <= newPolicies.ver /\ newPolicies.ver <= Version
    /\ newBillets # None => BilletsVer <= newBillets.ver /\ newBillets.ver <= Version

SyncInv ==
    /\ TypeOK
    /\ MergeComplete
    /\ HandleMatchesState
    /\ InitializedCanEvaluate
    /\ VersionsOrdered

\* Every step of sync_once keeps the service's variables in their types.
LEMMA SyncTyped ==
    ASSUME TypeOK, MergeComplete, SyncStep
    PROVE  SyncTypeOK'
<1> USE DEF TypeOK, SyncTypeOK
<1>0. Version \in Nat
  BY VersionTyped
<1>1. CASE ScanPolicies
  <2>1. [set |-> policies, ver |-> Version] \in PolicyScan
    BY <1>0 DEF StoreTypeOK, PolicyScan
  <2> QED BY <1>1, <2>1 DEF ScanPolicies
<1>2. CASE ScanPoliciesFails
  BY <1>2 DEF ScanPoliciesFails
<1>3. CASE ScanBillets
  <2>1. [known |-> billets, tags |-> tags, ver |-> Version] \in BilletScan
    BY <1>0 DEF StoreTypeOK, BilletScan
  <2> QED BY <1>3, <2>1 DEF ScanBillets
<1>4. CASE ScanBilletsFails
  BY <1>4 DEF ScanBilletsFails
<1>5. CASE SwapHandle
  BY <1>5, MergedTyped DEF SwapHandle
<1>6. CASE SwapState
  BY <1>6 DEF SwapState, PolicySyncState, MergeComplete
<1>7. CASE SyncFails
  BY <1>7 DEF SyncFails
<1>8. CASE ReportSuccess
  BY <1>8 DEF ReportSuccess
<1> QED BY <1>1, <1>2, <1>3, <1>4, <1>5, <1>6, <1>7, <1>8 DEF SyncStep

\* The versions the published values show are natural numbers.
LEMMA VersionsTyped ==
    ASSUME TypeOK
    PROVE  /\ Version \in Nat
           /\ HandleVer \in Nat
           /\ BilletsVer \in Nat
           /\ newPolicies # None => newPolicies.ver \in Nat
           /\ newBillets # None => newBillets.ver \in Nat
BY VersionTyped DEF TypeOK, SyncTypeOK, HandleVer, BilletsVer, PolicySyncState,
   PolicyScan, BilletScan

\* The invariant holds of a new PolicySyncService on a new store.
LEMMA InitEstablishesInv ==
    ASSUME Init
    PROVE  SyncInv
<1>1. StoreTypeOK
  BY StoreAssumption DEF Init, StoreInit, StoreTypeOK
<1>2. SyncTypeOK
  BY DEF Init, SyncInit, SyncTypeOK
<1>3. Version = 1 /\ HandleVer = 0 /\ BilletsVer = 0
  BY DEF Init, StoreInit, SyncInit, Version, HandleVer, BilletsVer
<1> QED
  BY <1>1, <1>2, <1>3 DEF Init, SyncInit, SyncInv, TypeOK, MergeComplete, HandleMatchesState,
     InitializedCanEvaluate, is_initialized, VersionsOrdered

\* An admin write leaves the service alone and only raises the version.
LEMMA WritePreservesInv ==
    ASSUME SyncInv, StoreNext, UNCHANGED syncVars
    PROVE  SyncInv'
<1>1. TypeOK'
  BY StoreTyped DEF SyncInv, TypeOK, SyncTypeOK, syncVars
<1>2. Version' = Version + 1
  BY DEF StoreNext, Version, Written, create_billet, update_billet, delete_billet_cascade,
     create_policy, update_policy, delete_policy, SyncInv, TypeOK, StoreTypeOK
<1>3. HandleVer' = HandleVer /\ BilletsVer' = BilletsVer
  BY DEF syncVars, HandleVer, BilletsVer
<1>4. VersionsOrdered'
  BY <1>2, <1>3, VersionsTyped DEF SyncInv, VersionsOrdered, syncVars
<1> QED
  BY <1>1, <1>4 DEF SyncInv, syncVars, MergeComplete, HandleMatchesState, InitializedCanEvaluate,
     is_initialized

\* What the merge publishes is at least as recent as what was published.
LEMMA MergeIsFresh ==
    ASSUME SyncInv, syncPc = "merge"
    PROVE  /\ HandleVer <= MergedPolicies.ver /\ MergedPolicies.ver <= Version
           /\ BilletsVer <= MergedBillets.ver /\ MergedBillets.ver <= Version
<1> USE DEF SyncInv, VersionsOrdered
<1>0. /\ Version \in Nat /\ HandleVer \in Nat /\ BilletsVer \in Nat
  BY VersionsTyped
<1>1. HandleVer <= MergedPolicies.ver /\ MergedPolicies.ver <= Version
  <2>1. CASE newPolicies # None
    BY <2>1 DEF MergedPolicies
  <2>2. CASE newPolicies = None /\ state # None
    <3>1. MergedPolicies.ver = HandleVer
      BY <2>2 DEF MergedPolicies, HandleMatchesState, InitializedCanEvaluate, is_initialized, HandleVer
    <3> QED BY <3>1, <1>0
  <2>3. CASE newPolicies = None /\ state = None
    <3>1. MergedPolicies.ver = 0 /\ HandleVer = 0
      BY <2>3 DEF MergedPolicies, EmptyPolicySet, HandleMatchesState, HandleVer
    <3> QED BY <3>1, <1>0
  <2> QED BY <2>1, <2>2, <2>3
<1>2. BilletsVer <= MergedBillets.ver /\ MergedBillets.ver <= Version
  <2>1. CASE newBillets # None
    BY <2>1 DEF MergedBillets
  <2>2. CASE newBillets = None /\ state # None
    <3>1. MergedBillets.ver = BilletsVer
      BY <2>2 DEF MergedBillets, BilletsVer
    <3> QED BY <3>1, <1>0
  <2>3. CASE newBillets = None /\ state = None
    <3>1. MergedBillets.ver = 0 /\ BilletsVer = 0
      BY <2>3 DEF MergedBillets, NoBilletsYet, BilletsVer
    <3> QED BY <3>1, <1>0
  <2> QED BY <2>1, <2>2, <2>3
<1> QED BY <1>1, <1>2

\* Every await of sync_once preserves the invariant.
LEMMA SyncPreservesInv ==
    ASSUME SyncInv, SyncStep, UNCHANGED storeVars
    PROVE  SyncInv'
<1> USE DEF SyncInv
<1>0. /\ Version \in Nat /\ HandleVer \in Nat /\ BilletsVer \in Nat
      /\ Version' = Version
  BY VersionsTyped DEF storeVars, Version
<1>1. TypeOK'
  BY SyncTyped DEF TypeOK, StoreTypeOK, storeVars
<1> USE DEF HandleVer, BilletsVer, is_initialized
<1>2. CASE ScanPolicies
  BY <1>0, <1>1, <1>2 DEF ScanPolicies, MergeComplete, HandleMatchesState, InitializedCanEvaluate,
     VersionsOrdered
<1>3. CASE ScanPoliciesFails
  BY <1>0, <1>1, <1>3 DEF ScanPoliciesFails, MergeComplete, HandleMatchesState,
     InitializedCanEvaluate, VersionsOrdered
<1>4. CASE ScanBillets
  BY <1>0, <1>1, <1>4 DEF ScanBillets, MergeComplete, HandleMatchesState, InitializedCanEvaluate,
     VersionsOrdered
<1>5. CASE ScanBilletsFails
  BY <1>0, <1>1, <1>5 DEF ScanBilletsFails, MergeComplete, HandleMatchesState,
     InitializedCanEvaluate, VersionsOrdered
<1>6. CASE SwapHandle
  <2>1. MergedPolicies # None /\ MergedBillets # None
    BY MergedTyped, NoneAssumption
  <2>2. VersionsOrdered'
    <3>1. /\ HandleVer <= MergedPolicies.ver /\ MergedPolicies.ver <= Version
          /\ BilletsVer <= MergedBillets.ver /\ MergedBillets.ver <= Version
      BY <1>6, MergeIsFresh DEF SwapHandle
    <3>2. MergedPolicies.ver \in Nat
      BY MergedTyped DEF PolicyScan
    <3>3. BilletsVer' = BilletsVer /\ HandleVer' = MergedPolicies.ver
      BY <1>6, <2>1 DEF SwapHandle
    <3> QED BY <1>0, <1>6, <3>1, <3>2, <3>3 DEF SwapHandle, VersionsOrdered
  <2> QED
    BY <1>1, <1>6, <2>1, <2>2 DEF SwapHandle, MergeComplete, HandleMatchesState,
       InitializedCanEvaluate
<1>7. CASE SwapState
  <2>1. newPolicies # None /\ newBillets # None /\ handle = newPolicies
    BY <1>7 DEF SwapState, MergeComplete, HandleMatchesState
  <2>2. state' # None /\ state'.policies = newPolicies /\ state'.billets = newBillets
    BY <1>1, <1>7, <2>1, NoneAssumption DEF SwapState, TypeOK, SyncTypeOK, PolicySyncState
  <2>3. newBillets.ver \in Nat
    BY <2>1, VersionsTyped
  <2> QED
    BY <1>0, <1>1, <1>7, <2>1, <2>2, <2>3 DEF SwapState, MergeComplete, HandleMatchesState,
       InitializedCanEvaluate, VersionsOrdered
<1>8. CASE SyncFails
  BY <1>0, <1>1, <1>8 DEF SyncFails, MergeComplete, HandleMatchesState, InitializedCanEvaluate,
     VersionsOrdered
<1>9. CASE ReportSuccess
  BY <1>0, <1>1, <1>9 DEF ReportSuccess, MergeComplete, HandleMatchesState,
     InitializedCanEvaluate, VersionsOrdered
<1> QED BY <1>2, <1>3, <1>4, <1>5, <1>6, <1>7, <1>8, <1>9 DEF SyncStep

\* A stuttering step changes nothing.
LEMMA StutterPreservesInv ==
    ASSUME SyncInv, UNCHANGED vars
    PROVE  SyncInv'
BY DEF SyncInv, vars, storeVars, syncVars, TypeOK, StoreTypeOK, SyncTypeOK, MergeComplete,
   HandleMatchesState, InitializedCanEvaluate, is_initialized, VersionsOrdered, HandleVer,
   BilletsVer, Version

\* The invariant holds of every reachable state.
THEOREM SyncInvariant == Spec => []SyncInv
<1>1. Init => SyncInv
  BY InitEstablishesInv
<1>2. SyncInv /\ [Next]_vars => SyncInv'
  BY WritePreservesInv, SyncPreservesInv, StutterPreservesInv DEF Next
<1> QED BY <1>1, <1>2, PTL DEF Spec

(***************************************************************************)
(* What follows from it.                                                    *)
(***************************************************************************)

\* Every variable of the store and of PolicySyncService keeps its type; in
\* particular sync_once never publishes a missing component.
THEOREM TypeCorrect == Spec => []TypeOK
BY SyncInvariant, PTL DEF SyncInv

\* The authorizer's policy_set_handle and the state that all other readers use
\* agree except between the two swaps of sync_once.
THEOREM HandleAgrees == Spec => []HandleMatchesState
BY SyncInvariant, PTL DEF SyncInv

\* A caller that sees is_initialized() return true finds a policy set in the
\* handle.
THEOREM InitializedIsUsable == Spec => []InitializedCanEvaluate
BY SyncInvariant, PTL DEF SyncInv

(***************************************************************************)
(* Each published value implements StaleReplica.                            *)
(***************************************************************************)

\* An admin write advances both sources and leaves both replicas.
LEMMA WriteAdvances ==
    ASSUME SyncInv, StoreNext, UNCHANGED syncVars
    PROVE  Version' = Version + 1 /\ UNCHANGED <<HandleVer, BilletsVer>>
BY DEF StoreNext, Version, Written, create_billet, update_billet, delete_billet_cascade,
   create_policy, update_policy, delete_policy, SyncInv, TypeOK, StoreTypeOK, syncVars,
   HandleVer, BilletsVer

\* A step of the background task only ever catches up.
LEMMA SyncCatchesUp ==
    ASSUME SyncInv, SyncStep, UNCHANGED storeVars
    PROVE  /\ Version' = Version
           /\ HandleVer' \in HandleVer .. Version
           /\ BilletsVer' \in BilletsVer .. Version
<1>0. Version' = Version
  BY DEF storeVars, Version
<1>1. /\ HandleVer \in Nat /\ BilletsVer \in Nat /\ Version \in Nat
      /\ HandleVer' \in Nat /\ BilletsVer' \in Nat
  BY VersionsTyped, SyncTyped DEF SyncInv, TypeOK, storeVars, StoreTypeOK,
     HandleVer, BilletsVer, SyncTypeOK, PolicyScan, BilletScan, PolicySyncState
<1>2. HandleVer <= Version /\ BilletsVer <= Version
  BY DEF SyncInv, VersionsOrdered
<1>3. CASE SwapHandle
  <2>1. HandleVer' = MergedPolicies.ver /\ BilletsVer' = BilletsVer
    BY <1>3, MergedTyped, NoneAssumption DEF SwapHandle, SyncInv, HandleVer, BilletsVer
  <2>2. HandleVer <= MergedPolicies.ver /\ MergedPolicies.ver <= Version
    BY <1>3, MergeIsFresh DEF SwapHandle
  <2> QED BY <1>0, <1>1, <1>2, <2>1, <2>2
<1>4. CASE SwapState
  <2>1. newBillets # None
    BY <1>4 DEF SwapState, SyncInv, MergeComplete
  <2>2. BilletsVer' = newBillets.ver /\ HandleVer' = HandleVer
    <3>1. state' # None
      BY <1>4, SyncTyped, NoneAssumption DEF SwapState, SyncInv, TypeOK, SyncTypeOK,
         MergeComplete, PolicySyncState
    <3> QED BY <1>4, <3>1 DEF SwapState, BilletsVer, HandleVer
  <2>3. BilletsVer <= newBillets.ver /\ newBillets.ver <= Version
    BY <2>1 DEF SyncInv, VersionsOrdered
  <2> QED BY <1>0, <1>1, <1>2, <2>2, <2>3
<1>5. CASE UNCHANGED <<state, handle>>
  <2>1. HandleVer' = HandleVer /\ BilletsVer' = BilletsVer
    BY <1>5 DEF HandleVer, BilletsVer
  <2> QED BY <1>0, <1>1, <1>2, <2>1
<1> QED
  BY <1>3, <1>4, <1>5 DEF SyncStep, ScanPolicies, ScanPoliciesFails, ScanBillets,
     ScanBilletsFails, SyncFails, ReportSuccess

\* policy_set_handle is fail-static: whatever scans fail, in whatever round,
\* the policy set that the authorizer evaluates is a version the store has
\* really held, and it never goes back.
THEOREM HandleIsFailStatic == Spec => HandleFailStatic
<1>1. Init => HandleReplica!Init
  BY InitEstablishesInv, VersionsTyped DEF Init, SyncInit, HandleReplica!Init, HandleVer, SyncInv
<1>2. SyncInv /\ [Next]_vars => [HandleReplica!Next]_<<Version, HandleVer>>
  <2> SUFFICES ASSUME SyncInv, [Next]_vars
               PROVE  [HandleReplica!Next]_<<Version, HandleVer>>
    OBVIOUS
  <2>1. CASE StoreNext /\ UNCHANGED syncVars
    BY <2>1, WriteAdvances DEF HandleReplica!Next, HandleReplica!Advance
  <2>2. CASE SyncStep /\ UNCHANGED storeVars
    BY <2>2, SyncCatchesUp DEF HandleReplica!Next, HandleReplica!CatchUp
  <2>3. CASE UNCHANGED vars
    BY <2>3 DEF vars, storeVars, syncVars, Version, HandleVer
  <2> QED BY <2>1, <2>2, <2>3 DEF Next
<1> QED BY <1>1, <1>2, SyncInvariant, PTL DEF Spec, HandleFailStatic, HandleReplica!Spec

\* The known billets and their tags are fail-static in the same sense.
THEOREM BilletsAreFailStatic == Spec => BilletsFailStatic
<1>1. Init => BilletsReplica!Init
  BY InitEstablishesInv, VersionsTyped DEF Init, SyncInit, BilletsReplica!Init, BilletsVer, SyncInv
<1>2. SyncInv /\ [Next]_vars => [BilletsReplica!Next]_<<Version, BilletsVer>>
  <2> SUFFICES ASSUME SyncInv, [Next]_vars
               PROVE  [BilletsReplica!Next]_<<Version, BilletsVer>>
    OBVIOUS
  <2>1. CASE StoreNext /\ UNCHANGED syncVars
    BY <2>1, WriteAdvances DEF BilletsReplica!Next, BilletsReplica!Advance
  <2>2. CASE SyncStep /\ UNCHANGED storeVars
    BY <2>2, SyncCatchesUp DEF BilletsReplica!Next, BilletsReplica!CatchUp
  <2>3. CASE UNCHANGED vars
    BY <2>3 DEF vars, storeVars, syncVars, Version, BilletsVer
  <2> QED BY <2>1, <2>2, <2>3 DEF Next
<1> QED BY <1>1, <1>2, SyncInvariant, PTL DEF Spec, BilletsFailStatic, BilletsReplica!Spec

-----------------------------------------------------------------------------
(***************************************************************************)
(* BilletResolution.  Beside what holds of the background task, the         *)
(* invariant says of every request what it has in hand: nothing is left to  *)
(* read when it evaluates, nothing has been refused before it ends, and as  *)
(* long as no publication has come in between, its reads are of the one     *)
(* published state.                                                         *)
(***************************************************************************)

\* What the calm request r has read is what is published.
ReadsAgree(r) ==
    /\ syncPc # "swapState" /\ state # None
    /\ known[r] = state.billets.known
    /\ \A b \in known[r] \ unread[r] : readTags[r][b] = state.billets.tags[b]
    /\ pc[r] = "cacheSet" => answer[r].billets = Snapshot(state, subject[r])

RequestOf(r) ==
    /\ pc[r] \in {"evaluate", "cacheSet"} => unread[r] = {}
    /\ pc[r] # "done" => answer[r] \notin Failures
    /\ pc[r] = "cacheSet" => answer[r].billets \in (SUBSET Billets) \ {{}}
    /\ calm[r] /\ pc[r] \in {"readTags", "evaluate", "cacheSet"} => ReadsAgree(r)

ResInv == SyncInv /\ ResTypeOK /\ \A r \in Requests : RequestOf(r)

\* The request that a step is not about.
LEMMA OtherRequest ==
    ASSUME NEW q, RequestOf(q), UNCHANGED <<syncPc, state>>,
           pc'[q] = pc[q], subject'[q] = subject[q], known'[q] = known[q],
           readTags'[q] = readTags[q], unread'[q] = unread[q], answer'[q] = answer[q],
           calm'[q] = calm[q]
    PROVE  RequestOf(q)'
BY DEF RequestOf, ReadsAgree, Snapshot, Entitled

\* Both stand still, or the request alone moves.
LEMMA ReaderLeavesSync ==
    ASSUME SyncInv, UNCHANGED <<storeVars, syncVars>>
    PROVE  SyncInv'
BY StutterPreservesInv DEF vars

LEMMA Granting ==
    ASSUME NEW ps, NEW ks, NEW tm, NEW s
    PROVE  Entitled(ps, ks, tm, s) \subseteq ks
BY DEF Entitled

LEMMA AnswersTyped ==
    /\ \A bs \in SUBSET Billets : Ok(bs) \in Answers /\ Ok(bs) \notin Failures /\ Ok(bs).billets = bs
    /\ Unavailable \in Answers /\ InternalError \in Answers /\ NoBilletsResolved \in Answers /\ Pending \in Answers
    /\ NoBilletsResolved \notin Failures /\ Pending \notin Failures
BY DEF Answers, Failures, Ok, Err, Unavailable, InternalError, NoBilletsResolved, Pending

LEMMA KeyTyped ==
    ASSUME ResTypeOK, NEW r \in Requests
    PROVE  Key(r) \in CacheKeys
BY DEF ResTypeOK, Key, CacheKeys

LEMMA KnownBilletsTyped ==
    ASSUME SyncInv
    PROVE  /\ known_billets \in SUBSET Billets
           /\ \A b \in Billets : billet_tags(b) \in SUBSET Tags
BY DEF SyncInv, TypeOK, SyncTypeOK, PolicySyncState, BilletScan, TagMap, known_billets, billet_tags

\* The cache answers.
LEMMA CacheHitKeeps ==
    ASSUME ResInv, NEW r \in Requests, CacheHit(r), UNCHANGED <<storeVars, syncVars>>
    PROVE  ResInv'
<1> USE DEF ResInv
<1>1. SyncInv'
  BY ReaderLeavesSync
<1>2. cache[Key(r)] \in SUBSET Billets
  BY KeyTyped DEF CacheHit, ResTypeOK
<1>3. ResTypeOK'
  BY <1>2, AnswersTyped DEF CacheHit, ResTypeOK
<1>4. RequestOf(r)'
  BY DEF CacheHit, ResTypeOK, RequestOf
<1>5. ASSUME NEW q \in Requests, q # r
      PROVE  RequestOf(q)'
  BY <1>5, OtherRequest DEF CacheHit, ResTypeOK, syncVars
<1> QED BY <1>1, <1>3, <1>4, <1>5

LEMMA CacheMissKeeps ==
    ASSUME ResInv, NEW r \in Requests, CacheMiss(r), UNCHANGED <<storeVars, syncVars>>
    PROVE  ResInv'
<1> USE DEF ResInv
<1>1. SyncInv'
  BY ReaderLeavesSync
<1>2. ResTypeOK'
  BY DEF CacheMiss, ResTypeOK
<1>3. RequestOf(r)'
  BY DEF CacheMiss, ResTypeOK, RequestOf
<1>4. ASSUME NEW q \in Requests, q # r
      PROVE  RequestOf(q)'
  BY <1>4, OtherRequest DEF CacheMiss, ResTypeOK, syncVars
<1> QED BY <1>1, <1>2, <1>3, <1>4

\* The first read: calm begins, unless it falls between the two swaps.
LEMMA ReadKnownBilletsKeeps ==
    ASSUME ResInv, NEW r \in Requests, ReadKnownBillets(r), UNCHANGED <<storeVars, syncVars>>
    PROVE  ResInv'
<1> USE DEF ResInv
<1>1. SyncInv'
  BY ReaderLeavesSync
<1>2. ResTypeOK'
  BY KnownBilletsTyped DEF ReadKnownBillets, ResTypeOK
<1>3. RequestOf(r)'
  <2>1. /\ known'[r] = known_billets /\ unread'[r] = known_billets
        /\ pc'[r] = IF known_billets = {} THEN "readInit" ELSE "readTags"
        /\ calm'[r] = (syncPc # "swapState") /\ answer'[r] = answer[r]
        /\ pc[r] = "readKnown"
        /\ UNCHANGED <<syncPc, state>>
    BY DEF ReadKnownBillets, ResTypeOK, syncVars
  <2>2. answer'[r] \notin Failures
    BY <2>1 DEF RequestOf
  <2>3. CASE known_billets = {}
    BY <2>1, <2>2, <2>3 DEF RequestOf
  <2>4. CASE known_billets # {}
    <3>1. state # None /\ known_billets = state.billets.known
      BY <2>4 DEF known_billets
    <3>2. calm'[r] => ReadsAgree(r)'
      BY <2>1, <2>4, <3>1 DEF ReadsAgree
    <3> QED BY <2>1, <2>2, <2>4, <3>2 DEF RequestOf
  <2> QED BY <2>3, <2>4
<1>4. ASSUME NEW q \in Requests, q # r
      PROVE  RequestOf(q)'
  BY <1>4, OtherRequest DEF ReadKnownBillets, ResTypeOK, syncVars
<1> QED BY <1>1, <1>2, <1>3, <1>4

LEMMA ReadIsInitializedKeeps ==
    ASSUME ResInv, NEW r \in Requests, ReadIsInitialized(r), UNCHANGED <<storeVars, syncVars>>
    PROVE  ResInv'
<1> USE DEF ResInv
<1>1. SyncInv'
  BY ReaderLeavesSync
<1>2. ResTypeOK'
  BY AnswersTyped DEF ReadIsInitialized, ResTypeOK
<1>3. RequestOf(r)'
  BY DEF ReadIsInitialized, ResTypeOK, RequestOf
<1>4. ASSUME NEW q \in Requests, q # r
      PROVE  RequestOf(q)'
  BY <1>4, OtherRequest DEF ReadIsInitialized, ResTypeOK, syncVars
<1> QED BY <1>1, <1>2, <1>3, <1>4

\* The tags of one more billet are read.
LEMMA ReadBilletTagsKeeps ==
    ASSUME ResInv, NEW r \in Requests, ReadBilletTags(r), UNCHANGED <<storeVars, syncVars>>
    PROVE  ResInv'
<1> USE DEF ResInv
<1>0. PICK b \in unread[r] :
         /\ readTags' = [readTags EXCEPT ![r][b] = billet_tags(b)]
         /\ unread' = [unread EXCEPT ![r] = @ \ {b}]
         /\ pc' = [pc EXCEPT ![r] = IF unread[r] = {b} THEN "evaluate" ELSE @]
  BY DEF ReadBilletTags
<1>t. b \in Billets /\ billet_tags(b) \in SUBSET Tags /\ pc[r] = "readTags"
  BY KnownBilletsTyped DEF ResTypeOK, ReadBilletTags
<1>1. SyncInv'
  BY ReaderLeavesSync
<1>u. UNCHANGED <<subject, audience, known, answer, cache, calm, syncPc, state>>
  BY DEF ReadBilletTags, syncVars
<1>2. ResTypeOK'
  <2>1. [readTags[r] EXCEPT ![b] = billet_tags(b)] \in TagMap
    BY <1>t DEF ResTypeOK, TagMap
  <2>2. readTags' \in [Requests -> TagMap]
    BY <1>0, <2>1 DEF ResTypeOK
  <2>3. unread' \in [Requests -> SUBSET Billets]
    BY <1>0 DEF ResTypeOK
  <2>4. pc' \in [Requests -> {"cacheGet", "readKnown", "readInit",
                              "readTags", "evaluate", "cacheSet", "done"}]
    BY <1>0, <1>t DEF ResTypeOK
  <2> QED BY <1>u, <2>2, <2>3, <2>4 DEF ResTypeOK
<1>3. RequestOf(r)'
  <2>1. /\ readTags'[r] = [readTags[r] EXCEPT ![b] = billet_tags(b)]
        /\ unread'[r] = unread[r] \ {b}
        /\ pc'[r] = IF unread[r] = {b} THEN "evaluate" ELSE "readTags"
    BY <1>0, <1>t DEF ResTypeOK
  <2>2. answer'[r] \notin Failures
    BY <1>t, <1>u DEF RequestOf
  <2>3. pc'[r] = "evaluate" => unread'[r] = {}
    BY <2>1
  <2>4. ASSUME calm[r]
        PROVE  ReadsAgree(r)'
    <3>1. ReadsAgree(r)
      BY <1>t, <2>4 DEF RequestOf
    <3>2. billet_tags(b) = state.billets.tags[b]
      BY <3>1 DEF ReadsAgree, billet_tags
    <3>3. readTags[r] \in [Billets -> SUBSET Tags] /\ known[r] \subseteq Billets
      BY DEF ResTypeOK, TagMap
    <3>4. ASSUME NEW c \in known[r], c \notin unread'[r]
          PROVE  readTags'[r][c] = state.billets.tags[c]
      <4>1. CASE c = b
        BY <1>t, <2>1, <3>2, <3>3, <4>1
      <4>2. CASE c # b
        <5>1. c \notin unread[r]
          BY <2>1, <3>4, <4>2
        <5> QED BY <2>1, <3>1, <3>3, <4>2, <5>1 DEF ReadsAgree
      <4> QED BY <4>1, <4>2
    <3>5. pc'[r] # "cacheSet"
      BY <2>1
    <3> QED BY <1>u, <3>1, <3>4, <3>5 DEF ReadsAgree
  <2> QED BY <1>u, <2>1, <2>2, <2>3, <2>4 DEF RequestOf
<1>4. ASSUME NEW q \in Requests, q # r
      PROVE  RequestOf(q)'
  <2>1. pc'[q] = pc[q] /\ readTags'[q] = readTags[q] /\ unread'[q] = unread[q]
    BY <1>0, <1>4 DEF ResTypeOK
  <2> QED BY <1>u, <2>1, OtherRequest
<1> QED BY <1>1, <1>2, <1>3, <1>4

\* Tags of other billets than the known ones have no say.
LEMMA SameReadsSameGrants ==
    ASSUME NEW ps, NEW ks, NEW tm, NEW um, NEW s, \A b \in ks : tm[b] = um[b]
    PROVE  Entitled(ps, ks, tm, s) = Entitled(ps, ks, um, s)
BY DEF Entitled

\* The evaluation is of the published snapshot, if nothing came in between.
LEMMA CalmGrantsAreExact ==
    ASSUME ResInv, NEW r \in Requests, pc[r] = "evaluate", calm[r]
    PROVE  handle # None /\ ReadsAgree(r) /\ Granted(r) = Snapshot(state, subject[r])
<1>1. ReadsAgree(r) /\ unread[r] = {}
  BY DEF ResInv, RequestOf
<1>2. handle = state.policies /\ handle # None
  BY <1>1 DEF ReadsAgree, ResInv, SyncInv, HandleMatchesState, InitializedCanEvaluate, is_initialized
<1>3. \A b \in known[r] : readTags[r][b] = state.billets.tags[b]
  BY <1>1 DEF ReadsAgree
<1>4. known[r] = state.billets.known
  BY <1>1 DEF ReadsAgree
<1>5. Granted(r) = Entitled(handle.set, known[r], state.billets.tags, subject[r])
  BY <1>3, SameReadsSameGrants DEF Granted
<1> QED BY <1>1, <1>2, <1>4, <1>5 DEF Snapshot

LEMMA EvaluateKeeps ==
    ASSUME ResInv, NEW r \in Requests, Evaluate(r), UNCHANGED <<storeVars, syncVars>>
    PROVE  ResInv'
<1> USE DEF ResInv
<1> DEFINE result == IF handle = None THEN InternalError
                     ELSE IF Granted(r) = {} THEN NoBilletsResolved
                     ELSE Ok(Granted(r))
<1>0. /\ pc[r] = "evaluate"
      /\ answer' = [answer EXCEPT ![r] = result]
      /\ pc' = [pc EXCEPT ![r] = IF result.status = "ok" THEN "cacheSet" ELSE "done"]
      /\ UNCHANGED <<subject, audience, known, readTags, unread, cache, calm, syncPc, state>>
  BY DEF Evaluate, syncVars
<1>g. Granted(r) \in SUBSET Billets
  <2>1. Granted(r) \subseteq known[r]
    BY Granting DEF Granted
  <2> QED BY <2>1 DEF ResTypeOK
<1>1. SyncInv'
  BY ReaderLeavesSync
<1>r. /\ result \in Answers
      /\ result.status = "ok" =>
            result \notin Failures /\ result.billets = Granted(r) /\ Granted(r) # {}
  <2>1. InternalError.status # "ok" /\ NoBilletsResolved.status # "ok"
    BY DEF InternalError, NoBilletsResolved, Err
  <2> QED BY <1>g, <2>1, AnswersTyped
<1> HIDE DEF result
<1>2. ResTypeOK'
  <2>1. answer' \in [Requests -> Answers]
    BY <1>0, <1>r DEF ResTypeOK
  <2>2. pc' \in [Requests -> {"cacheGet", "readKnown", "readInit",
                              "readTags", "evaluate", "cacheSet", "done"}]
    BY <1>0 DEF ResTypeOK
  <2> QED BY <1>0, <2>1, <2>2 DEF ResTypeOK
<1>3. RequestOf(r)'
  <2>1. /\ answer'[r] = result
        /\ pc'[r] = IF result.status = "ok" THEN "cacheSet" ELSE "done"
    BY <1>0 DEF ResTypeOK
  <2>2. CASE result.status # "ok"
    BY <2>1, <2>2 DEF RequestOf
  <2>3. CASE result.status = "ok"
    <3>1. unread'[r] = {}
      BY <1>0 DEF RequestOf
    <3>2. ASSUME calm[r]
          PROVE  ReadsAgree(r)'
      <4>1. ReadsAgree(r) /\ Granted(r) = Snapshot(state, subject[r])
        BY <1>0, <3>2, CalmGrantsAreExact
      <4>2. answer'[r].billets = Snapshot(state, subject[r])
        BY <1>r, <2>1, <2>3, <4>1
      <4> QED BY <1>0, <4>1, <4>2 DEF ReadsAgree, Snapshot, Entitled
    <3>3. answer'[r].billets \in (SUBSET Billets) \ {{}}
      <4>1. answer'[r].billets = Granted(r) /\ Granted(r) # {}
        BY <1>r, <2>1, <2>3
      <4> QED BY <1>g, <4>1
    <3> QED BY <1>0, <1>r, <2>1, <2>3, <3>1, <3>2, <3>3 DEF RequestOf
  <2> QED BY <2>2, <2>3
<1>4. ASSUME NEW q \in Requests, q # r
      PROVE  RequestOf(q)'
  <2>1. pc'[q] = pc[q] /\ answer'[q] = answer[q]
    BY <1>0, <1>4 DEF ResTypeOK
  <2> QED BY <1>0, <2>1, OtherRequest
<1> QED BY <1>1, <1>2, <1>3, <1>4

LEMMA CacheSetKeeps ==
    ASSUME ResInv, NEW r \in Requests, CacheSet(r) \/ CacheSetFails(r), UNCHANGED <<storeVars, syncVars>>
    PROVE  ResInv'
<1> USE DEF ResInv
<1>0. /\ pc[r] = "cacheSet" /\ pc' = [pc EXCEPT ![r] = "done"]
      /\ UNCHANGED <<subject, audience, known, readTags, unread, answer, calm, syncPc, state>>
      /\ cache' \in {cache, [cache EXCEPT ![Key(r)] = answer[r].billets]}
  BY DEF CacheSet, CacheSetFails, syncVars
<1>1. SyncInv'
  BY ReaderLeavesSync
<1>2. ResTypeOK'
  <2>1. answer[r].billets \in (SUBSET Billets) \ {{}}
    BY <1>0 DEF RequestOf
  <2>2. cache' \in [CacheKeys -> ((SUBSET Billets) \ {{}}) \cup {None}]
    BY <1>0, <2>1 DEF ResTypeOK
  <2> QED BY <1>0, <2>2 DEF ResTypeOK
<1>3. RequestOf(r)'
  BY <1>0 DEF ResTypeOK, RequestOf
<1>4. ASSUME NEW q \in Requests, q # r
      PROVE  RequestOf(q)'
  <2>1. pc'[q] = pc[q]
    BY <1>0, <1>4 DEF ResTypeOK
  <2> QED BY <1>0, <2>1, OtherRequest
<1> QED BY <1>1, <1>2, <1>3, <1>4

\* The next request.
LEMMA ReturnKeeps ==
    ASSUME ResInv, NEW r \in Requests, Return(r), UNCHANGED <<storeVars, syncVars>>
    PROVE  ResInv'
<1> USE DEF ResInv
<1>1. SyncInv'
  BY ReaderLeavesSync
<1>2. ResTypeOK'
  <2>1. NoTags \in TagMap
    BY DEF NoTags, TagMap
  <2> QED BY <2>1, AnswersTyped DEF Return, ResTypeOK
<1>3. RequestOf(r)'
  <2>1. pc'[r] = "cacheGet" /\ answer'[r] = Pending
    BY DEF Return, ResTypeOK
  <2> QED BY <2>1, AnswersTyped DEF RequestOf
<1>4. ASSUME NEW q \in Requests, q # r
      PROVE  RequestOf(q)'
  BY <1>4, OtherRequest DEF Return, ResTypeOK, syncVars
<1> QED BY <1>1, <1>2, <1>3, <1>4

LEMMA ExpireKeeps ==
    ASSUME ResInv, NEW k \in CacheKeys, Expire(k), UNCHANGED <<storeVars, syncVars>>
    PROVE  ResInv'
<1> USE DEF ResInv
<1>1. SyncInv'
  BY ReaderLeavesSync
<1>2. ResTypeOK'
  BY DEF Expire, ResTypeOK
<1>3. \A q \in Requests : RequestOf(q)'
  BY OtherRequest DEF Expire, syncVars
<1> QED BY <1>1, <1>2, <1>3

\* An admin write is not seen before it is published.
LEMMA WriteKeepsRequests ==
    ASSUME ResInv, StoreNext, UNCHANGED <<syncVars, reqVars>>
    PROVE  ResInv'
<1> USE DEF ResInv
<1>1. SyncInv'
  BY WritePreservesInv
<1>2. ResTypeOK'
  BY DEF reqVars, ResTypeOK
<1>3. \A q \in Requests : RequestOf(q)'
  BY OtherRequest DEF reqVars, syncVars
<1> QED BY <1>1, <1>2, <1>3

\* A publication ends the calm of every request; the other steps of the task
\* leave what is published.
LEMMA SyncKeepsRequests ==
    ASSUME ResInv, SyncWithReaders, UNCHANGED storeVars
    PROVE  ResInv'
<1> USE DEF ResInv
<1>0. /\ SyncStep
      /\ calm' = IF Publishing THEN [r \in Requests |-> FALSE] ELSE calm
      /\ UNCHANGED <<pc, subject, audience, known, readTags, unread, answer, cache>>
  BY DEF SyncWithReaders
<1>1. SyncInv'
  BY <1>0, SyncPreservesInv
<1>2. ResTypeOK'
  BY <1>0 DEF ResTypeOK
<1>3. CASE Publishing
  <2>1. \A q \in Requests : calm'[q] = FALSE
    BY <1>0, <1>3
  <2> QED BY <1>0, <1>1, <1>2, <2>1 DEF RequestOf
<1>4. CASE ~Publishing
  <2>1. UNCHANGED <<state, calm>> /\ syncPc' # "swapState"
    BY <1>0, <1>4 DEF Publishing, SyncStep, ScanPolicies, ScanPoliciesFails, ScanBillets,
       ScanBilletsFails, SyncFails, ReportSuccess
  <2>2. ASSUME NEW q \in Requests
        PROVE  RequestOf(q)'
    <3>1. RequestOf(q)
      OBVIOUS
    <3> QED BY <1>0, <2>1, <3>1 DEF RequestOf, ReadsAgree, Snapshot, Entitled
  <2> QED BY <1>1, <1>2, <2>2
<1> QED BY <1>3, <1>4

LEMMA ResInvInit ==
    ASSUME ResInit
    PROVE  ResInv
<1>1. SyncInv
  BY InitEstablishesInv DEF ResInit
<1>2. ResTypeOK
  <2>1. NoTags \in TagMap
    BY DEF NoTags, TagMap
  <2> QED BY <2>1, AnswersTyped DEF ResInit, ResTypeOK
<1>3. \A r \in Requests : RequestOf(r)
  BY AnswersTyped DEF ResInit, RequestOf
<1> QED BY <1>1, <1>2, <1>3 DEF ResInv

LEMMA ResInvNext ==
    ASSUME ResInv, [ResNext]_resVars
    PROVE  ResInv'
<1>1. CASE StoreNext /\ UNCHANGED <<syncVars, reqVars>>
  BY <1>1, WriteKeepsRequests
<1>2. CASE SyncWithReaders /\ UNCHANGED storeVars
  BY <1>2, SyncKeepsRequests
<1>3. CASE \E r \in Requests : Resolve(r) /\ UNCHANGED <<storeVars, syncVars>>
  BY <1>3, CacheHitKeeps, CacheMissKeeps, ReadKnownBilletsKeeps, ReadIsInitializedKeeps,
     ReadBilletTagsKeeps, EvaluateKeeps, CacheSetKeeps, ReturnKeeps DEF Resolve
<1>4. CASE \E k \in CacheKeys : Expire(k) /\ UNCHANGED <<storeVars, syncVars>>
  BY <1>4, ExpireKeeps
<1>5. CASE UNCHANGED resVars
  <2>1. UNCHANGED <<storeVars, syncVars, reqVars>> /\ SyncInv' /\ UNCHANGED <<syncPc, state>>
    BY <1>5, ReaderLeavesSync DEF resVars, syncVars, ResInv
  <2>2. ResTypeOK'
    BY <2>1 DEF ResInv, ResTypeOK, reqVars
  <2>3. \A q \in Requests : RequestOf(q)'
    BY <2>1, OtherRequest DEF ResInv, reqVars
  <2> QED BY <2>1, <2>2, <2>3 DEF ResInv
<1> QED BY <1>1, <1>2, <1>3, <1>4, <1>5 DEF ResNext

LEMMA ResInvariant == ResSpec => []ResInv
BY ResInvInit, ResInvNext, PTL DEF ResSpec

\* Type correctness of the resolution: what resolve answers and caches are sets
\* of billets, and no empty set is ever cached (resolve, steps 8 and 9).
THEOREM ResolutionTypeCorrect == ResSpec => []ResTypes
<1>1. ResInv => ResTypes
  BY DEF ResInv, SyncInv, ResTypes
<1> QED BY <1>1, ResInvariant, PTL

\* The answer of a request that no publication has touched is exact for the
\* published snapshot, although resolve reads the known billets, each billet's
\* tags and the policies under locks of their own (resolve, steps 5 to 7).
THEOREM UndisturbedIsExact == ResSpec => []UndisturbedAnswerIsExact
<1>1. ResInv => UndisturbedAnswerIsExact
  BY DEF ResInv, RequestOf, ReadsAgree, UndisturbedAnswerIsExact
<1> QED BY <1>1, ResInvariant, PTL

\* Once tables have been published, no request under way is answered that the
\* policies are not initialized (resolve, is_authorized).
THEOREM NoOutageAfterLoad == ResSpec => NoOutageOnceLoaded
<1>1. ASSUME ResInv, [ResNext]_resVars, NEW r \in Requests, is_initialized, pc[r] # "done"
      PROVE  answer'[r] \notin Failures
  <2>0. answer[r] \notin Failures /\ handle # None
    BY <1>1 DEF ResInv, RequestOf, SyncInv, InitializedCanEvaluate
  <2>1. CASE answer'[r] = answer[r]
    BY <2>0, <2>1
  <2>2. CASE CacheHit(r)
    <3>1. cache[Key(r)] \in SUBSET Billets
      BY <1>1, <2>2, KeyTyped DEF CacheHit, ResTypeOK, ResInv
    <3> QED BY <1>1, <2>2, <3>1, AnswersTyped DEF CacheHit, ResTypeOK, ResInv
  <2>3. CASE ReadIsInitialized(r)
    BY <1>1, <2>3, AnswersTyped DEF ReadIsInitialized, ResTypeOK, ResInv
  <2>4. CASE Evaluate(r)
    <3>1. answer'[r] = IF Granted(r) = {} THEN NoBilletsResolved ELSE Ok(Granted(r))
      BY <1>1, <2>0, <2>4 DEF Evaluate, ResTypeOK, ResInv
    <3>2. Granted(r) \in SUBSET Billets
      BY <1>1, Granting DEF Granted, ResTypeOK, ResInv
    <3> QED BY <3>1, <3>2, AnswersTyped
  <2>5. ASSUME NEW q \in Requests, Resolve(q), q # r
        PROVE  answer'[r] = answer[r]
    BY <1>1, <2>5 DEF Resolve, CacheHit, CacheMiss, ReadKnownBillets, ReadIsInitialized,
       ReadBilletTags, Evaluate, CacheSet, CacheSetFails, Return, ResTypeOK, ResInv
  <2>6. ASSUME Resolve(r)
        PROVE  \/ answer'[r] = answer[r] \/ CacheHit(r) \/ ReadIsInitialized(r) \/ Evaluate(r)
    BY <1>1, <2>6 DEF Resolve, CacheMiss, ReadKnownBillets, ReadBilletTags, CacheSet, CacheSetFails,
       Return
  <2> QED
    BY <1>1, <2>1, <2>2, <2>3, <2>4, <2>5, <2>6 DEF ResNext, SyncWithReaders, Expire, reqVars, resVars
<1>2. ASSUME ResInv, [ResNext]_resVars
      PROVE  [\A r \in Requests : is_initialized /\ pc[r] # "done" => answer'[r] \notin Failures]_resVars
  BY <1>1, <1>2
<1> QED BY <1>2, ResInvariant, PTL DEF ResSpec, NoOutageOnceLoaded
=============================================================================
