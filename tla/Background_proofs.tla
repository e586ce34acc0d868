-------------------------- MODULE Background_proofs --------------------------
(***************************************************************************)
(* Theorems about the two tasks that main leaves running in the background  *)
(* and that keep state of their own: the rotation of keys (KeyManager), for *)
(* every interval, overlap and token lifetime that OverlapAssumption allows *)
(* and any number of rotations, failures and restarts, and the audit        *)
(* service (AuditService), for any number of sinks, any batch sizes and any *)
(* capacity of the channel.                                                 *)
(***************************************************************************)
EXTENDS KeyManager, FileSink, SequenceTheorems, FiniteSetTheorems, TLAPS

-----------------------------------------------------------------------------
(* KeyManager. *)

(***************************************************************************)
(* The inductive invariant.                                                 *)
(***************************************************************************)

\* A key lives key_overlap from its creation, which is never in the future.
Dated(k) == k.created_at <= now /\ k.expires_at = k.created_at + KeyOverlap

KeysDated ==
    /\ Dated(active)
    /\ \A rec \in records : Dated(rec)
    /\ rotPc \in {"persist", "swap"} => newKey \in EphemeralKey /\ Dated(newKey)
    /\ rotPc = "swap" => newKey \in records
    /\ before <= now

\* The cached JWKS lists every key that has not expired, except the active one
\* during the swap.
JwksComplete ==
    /\ \A k \in previous : k.expires_at > now => k.kid \in jwks
    /\ ~Swapping => active.kid \in jwks

\* The key of a healthy token of this process outlives the token.
Covered(t) ==
    t.healthy /\ t.boot = boot /\ t.exp > now =>
        \E k \in previous \cup {active} : k.kid = t.kid /\ k.expires_at >= t.exp

TokensCovered ==
    /\ \A t \in tokens : t.exp > now /\ t.boot <= boot /\ Covered(t)
    /\ issuing \in Token => issuing.boot <= boot /\ Covered(issuing)

KeyInv ==
    /\ TypeOK
    /\ KeysDated
    /\ JwksComplete
    /\ TokensCovered
    /\ NoRollbackOnRestart

\* generate_ephemeral_key returns a key.
LEMMA GeneratedKeyTyped ==
    ASSUME now \in Nat, NEW n \in Nat, NEW b \in Nat
    PROVE  generate_ephemeral_key(n, b) \in EphemeralKey
BY KeyAssumption DEF generate_ephemeral_key, EphemeralKey, Kid

\* record_to_ephemeral_key returns a key.
LEMMA LoadedKeyTyped ==
    ASSUME NEW rec \in EphemeralKey, NEW b \in Nat
    PROVE  /\ record_to_ephemeral_key(rec, b) \in EphemeralKey
           /\ record_to_ephemeral_key(rec, b).created_at = rec.created_at
           /\ record_to_ephemeral_key(rec, b).expires_at = rec.expires_at
BY DEF record_to_ephemeral_key, EphemeralKey, Kid

\* build_jwks lists kids.
LEMMA JwksTyped ==
    ASSUME NEW a \in EphemeralKey, NEW prev \in SUBSET EphemeralKey
    PROVE  build_jwks(a, prev) \subseteq Kid
BY DEF build_jwks, EphemeralKey

\* The invariant holds when KmsDelegatedKeyManager::new returns for the first
\* time.
LEMMA InitEstablishesKeys ==
    ASSUME Init
    PROVE  KeyInv
<1> USE KeyAssumption DEF Init
<1>1. active \in EphemeralKey /\ active.kid = <<1, 0>> /\ active.created_at = 0
      /\ active.expires_at = KeyOverlap
  BY GeneratedKeyTyped DEF generate_ephemeral_key
<1>2. TypeOK
  BY <1>1 DEF TypeOK, Kid
<1>3. KeysDated
  BY <1>1 DEF KeysDated, Dated
<1>4. JwksComplete
  BY <1>1 DEF JwksComplete
<1>5. TokensCovered
  BY NoneAssumption DEF TokensCovered
<1>6. NoRollbackOnRestart
  BY <1>1 DEF NoRollbackOnRestart, Loadable
<1> QED BY <1>2, <1>3, <1>4, <1>5, <1>6 DEF KeyInv

(***************************************************************************)
(* Rotation.                                                                *)
(***************************************************************************)

\* Steps that change neither the clock nor a key that a token may need.
LEMMA KeysKeptKeepTokens ==
    ASSUME KeyInv, UNCHANGED <<now, active, previous, boot, issuing, tokens>>
    PROVE  TokensCovered'
BY DEF KeyInv, TokensCovered, Covered

\* Entering maybe_rotate changes only where the rotation is.
LEMMA MaybeRotatePreservesInv ==
    ASSUME KeyInv, MaybeRotate
    PROVE  KeyInv'
<1>1. TypeOK' /\ KeysDated' /\ JwksComplete' /\ NoRollbackOnRestart'
  BY DEF KeyInv, MaybeRotate, TypeOK, KeysDated, Dated, JwksComplete, Swapping,
     NoRollbackOnRestart, Loadable
<1> QED BY <1>1, KeysKeptKeepTokens DEF KeyInv, MaybeRotate

\* The attested new key is dated now and leaves the active and previous keys
\* alone.
LEMMA KmsAttestsPreservesInv ==
    ASSUME KeyInv, KmsAttests
    PROVE  KeyInv'
<1>1. newKey' \in EphemeralKey /\ newKey'.created_at = now /\ newKey'.expires_at = now + KeyOverlap
  BY GeneratedKeyTyped DEF KeyInv, TypeOK, KmsAttests, generate_ephemeral_key
<1>2. TypeOK'
  BY <1>1 DEF KeyInv, KmsAttests, TypeOK
<1>3. KeysDated'
  BY <1>1 DEF KeyInv, KmsAttests, TypeOK, KeysDated, Dated
<1>4. JwksComplete' /\ NoRollbackOnRestart'
  BY DEF KeyInv, KmsAttests, JwksComplete, Swapping, NoRollbackOnRestart, Loadable
<1> QED BY <1>2, <1>3, <1>4, KeysKeptKeepTokens DEF KeyInv, KmsAttests

\* A failed rotation leaves the keys as they were.
LEMMA RotationFailsPreservesInv ==
    ASSUME KeyInv, RotationFails
    PROVE  KeyInv'
<1>1. TypeOK' /\ KeysDated' /\ JwksComplete' /\ NoRollbackOnRestart'
  BY DEF KeyInv, RotationFails, TypeOK, KeysDated, Dated, JwksComplete, Swapping,
     NoRollbackOnRestart, Loadable
<1> QED BY <1>1, KeysKeptKeepTokens DEF KeyInv, RotationFails

\* Writing the record of the new key makes it the newest one stored.
LEMMA PersistPreservesInv ==
    ASSUME KeyInv, PersistNewKey
    PROVE  KeyInv'
<1>1. newKey \in EphemeralKey /\ Dated(newKey)
  BY DEF KeyInv, PersistNewKey, KeysDated
<1>2. TypeOK'
  BY <1>1 DEF KeyInv, PersistNewKey, TypeOK
<1>3. KeysDated'
  BY <1>1 DEF KeyInv, PersistNewKey, KeysDated, Dated
<1>4. JwksComplete' /\ NoRollbackOnRestart'
  BY DEF KeyInv, PersistNewKey, JwksComplete, Swapping, NoRollbackOnRestart, Loadable
<1> QED BY <1>2, <1>3, <1>4, KeysKeptKeepTokens DEF KeyInv, PersistNewKey

\* The one step that retires a key: a key whose token is alive has not
\* expired, so the cleanup keeps it, and it was already listed.
LEMMA SwapPreservesInv ==
    ASSUME KeyInv, SwapActive
    PROVE  KeyInv'
<1>1. newKey \in EphemeralKey /\ Dated(newKey) /\ newKey \in records
  BY DEF KeyInv, SwapActive, KeysDated
<1>2. TypeOK'
  BY <1>1 DEF KeyInv, SwapActive, TypeOK, EphemeralKey
<1>3. KeysDated'
  BY <1>1 DEF KeyInv, SwapActive, KeysDated, Dated, TypeOK
<1>4. JwksComplete'
  BY DEF KeyInv, SwapActive, JwksComplete, Swapping
<1>5. ASSUME NEW t, t.exp \in Nat, Covered(t)
      PROVE  Covered(t)'
  <2> SUFFICES ASSUME t.healthy, t.boot = boot, t.exp > now
               PROVE  \E k \in previous' \cup {active'} : k.kid = t.kid /\ k.expires_at >= t.exp
    BY DEF Covered, SwapActive
  <2>1. PICK k \in previous \cup {active} : k.kid = t.kid /\ k.expires_at >= t.exp
    BY <1>5 DEF Covered
  <2>2. k.expires_at \in Nat /\ now \in Nat
    BY DEF KeyInv, TypeOK, EphemeralKey
  <2>3. k \in previous'
    BY <1>5, <2>1, <2>2 DEF SwapActive
  <2> QED BY <2>1, <2>3
<1>6. TokensCovered'
  BY <1>5 DEF KeyInv, TypeOK, SwapActive, TokensCovered, Token, SignedToken
<1>7. NoRollbackOnRestart'
  BY <1>1 DEF SwapActive, NoRollbackOnRestart, Loadable, EphemeralKey
<1> QED BY <1>2, <1>3, <1>4, <1>6, <1>7 DEF KeyInv

\* Purging removes expired records only.
LEMMA PurgePreservesInv ==
    ASSUME KeyInv, PurgeRecords
    PROVE  KeyInv'
<1>1. TypeOK' /\ KeysDated' /\ JwksComplete'
  BY DEF KeyInv, PurgeRecords, TypeOK, KeysDated, Dated, JwksComplete, Swapping
<1>2. NoRollbackOnRestart'
  BY DEF KeyInv, PurgeRecords, TypeOK, EphemeralKey, KeysDated, NoRollbackOnRestart, Loadable
<1> QED BY <1>1, <1>2, KeysKeptKeepTokens DEF KeyInv, PurgeRecords

\* The rebuilt JWKS lists the active key and the previous ones that live.
LEMMA RebuildPreservesInv ==
    ASSUME KeyInv, RebuildJwks
    PROVE  KeyInv'
<1>1. TypeOK'
  BY JwksTyped DEF KeyInv, RebuildJwks, TypeOK
<1>2. JwksComplete'
  BY DEF RebuildJwks, JwksComplete, build_jwks
<1>3. KeysDated' /\ NoRollbackOnRestart'
  BY DEF KeyInv, RebuildJwks, KeysDated, Dated, NoRollbackOnRestart, Loadable
<1> QED BY <1>1, <1>2, <1>3, KeysKeptKeepTokens DEF KeyInv, RebuildJwks

(***************************************************************************)
(* Issuing, restarting, and the clock.                                      *)
(***************************************************************************)

\* Where OverlapAssumption is needed: a token that a healthy manager is about
\* to sign expires before the active key does.
LEMMA HeaderPreservesInv ==
    ASSUME KeyInv, IssueHeader
    PROVE  KeyInv'
<1>1. /\ now \in Nat /\ boot \in Nat
      /\ active \in EphemeralKey /\ active.kid \in Kid
      /\ active.created_at \in Nat /\ active.expires_at \in Nat
  BY DEF KeyInv, TypeOK, EphemeralKey
<1>2. issuing' \in Token /\ issuing'.boot = boot
  BY <1>1, KeyAssumption DEF IssueHeader, Token, Healthy
<1>3. TypeOK' /\ KeysDated' /\ JwksComplete' /\ NoRollbackOnRestart'
  BY <1>2 DEF KeyInv, IssueHeader, TypeOK, KeysDated, Dated, JwksComplete, Swapping,
     NoRollbackOnRestart, Loadable
<1>4. Covered(issuing)'
  <2>1. Healthy => active.expires_at >= now + TokenTtl
    BY <1>1, KeyAssumption, OverlapAssumption DEF Healthy, KeyInv, KeysDated, Dated
  <2> QED BY <1>1, <2>1 DEF IssueHeader, Covered
<1>5. TokensCovered'
  BY <1>1, <1>2, <1>4 DEF KeyInv, IssueHeader, TokensCovered, Covered
<1> QED BY <1>3, <1>5 DEF KeyInv

\* A token signed by a key that health calls fresh is covered by that key's
\* lifetime.
LEMMA SignPreservesInv ==
    ASSUME KeyInv, IssueSign
    PROVE  KeyInv'
<1> DEFINE token == [kid |-> issuing.kid, exp |-> issuing.exp, healthy |-> issuing.healthy,
                     boot |-> issuing.boot, signer |-> active.kid]
<1>1. issuing \in Token
  BY DEF KeyInv, TypeOK, IssueSign
<1>2. token \in SignedToken
  BY <1>1 DEF KeyInv, TypeOK, Token, SignedToken, EphemeralKey
<1>3. TypeOK' /\ KeysDated' /\ JwksComplete' /\ NoRollbackOnRestart'
  BY <1>2 DEF KeyInv, IssueSign, TypeOK, KeysDated, Dated, JwksComplete, Swapping,
     NoRollbackOnRestart, Loadable
<1>4. token.boot <= boot /\ Covered(token)
  BY <1>1 DEF KeyInv, TokensCovered, Covered
<1>5. TokensCovered'
  BY <1>1, <1>4, NoneAssumption DEF KeyInv, IssueSign, TokensCovered, Covered
<1> QED BY <1>3, <1>5 DEF KeyInv

\* A restart forgets every private key, so no token counts as its own.
LEMMA RestartPreservesInv ==
    ASSUME KeyInv, Restart
    PROVE  KeyInv'
<1>1. boot \in Nat /\ now \in Nat /\ serial \in Nat /\ records \subseteq EphemeralKey
  BY DEF KeyInv, TypeOK
<1>2. boot' = boot + 1 /\ boot' \in Nat
  BY <1>1 DEF Restart
<1>3. /\ active' \in EphemeralKey
      /\ previous' \subseteq EphemeralKey
      /\ records' \subseteq EphemeralKey
      /\ serial' \in Nat
      /\ active'.created_at <= now
      /\ active'.expires_at = active'.created_at + KeyOverlap
      /\ \A rec \in records' : Dated(rec)
      /\ active'.expires_at > now =>
            \E rec \in records' : rec.expires_at > now /\ rec.created_at >= active'.created_at
  <2>1. CASE Loadable # {} /\ UNCHANGED <<records, serial>>
    <3>1. PICK newest \in Loadable :
            /\ active' = record_to_ephemeral_key(newest, boot')
            /\ previous' = {record_to_ephemeral_key(rec, boot') : rec \in Loadable \ {newest}}
      BY <2>1 DEF Restart
    <3>2. newest \in EphemeralKey /\ newest \in records /\ newest.expires_at > now
      BY <1>1 DEF Loadable
    <3>3. /\ active' \in EphemeralKey
          /\ active'.created_at = newest.created_at
          /\ active'.expires_at = newest.expires_at
      BY <1>2, <3>1, <3>2, LoadedKeyTyped
    <3>4. previous' \subseteq EphemeralKey
      BY <1>1, <1>2, <3>1, LoadedKeyTyped DEF Loadable
    <3>5. \A rec \in records : Dated(rec)
      BY DEF KeyInv, KeysDated
    <3>6. newest.created_at \in Nat
      BY <3>2 DEF EphemeralKey
    <3> QED BY <1>1, <2>1, <3>2, <3>3, <3>4, <3>5, <3>6 DEF Dated
  <2>2. CASE /\ Loadable = {}
             /\ active' = generate_ephemeral_key(serial + 1, boot')
             /\ previous' = {}
             /\ records' = records \cup {active'}
             /\ serial' = serial + 1
    <3>1. active' \in EphemeralKey
      BY <1>1, <1>2, <2>2, GeneratedKeyTyped
    <3>2. active'.created_at = now /\ active'.expires_at = now + KeyOverlap
      BY <2>2 DEF generate_ephemeral_key
    <3>3. \A rec \in records : Dated(rec)
      BY DEF KeyInv, KeysDated
    <3> QED BY <1>1, <2>2, <3>1, <3>2, <3>3 DEF Dated
  <2> QED BY <2>1, <2>2 DEF Restart
<1>4. TypeOK'
  BY <1>2, <1>3, JwksTyped DEF KeyInv, Restart, TypeOK, build_jwks
<1>5. KeysDated'
  BY <1>1, <1>3 DEF Restart, KeysDated, Dated
<1>6. JwksComplete'
  BY DEF Restart, JwksComplete, build_jwks
<1>7. TokensCovered'
  BY <1>1, <1>2, NoneAssumption DEF KeyInv, TypeOK, SignedToken, Restart, TokensCovered, Covered
<1>8. NoRollbackOnRestart'
  BY <1>3 DEF Restart, NoRollbackOnRestart, Loadable
<1> QED BY <1>4, <1>5, <1>6, <1>7, <1>8 DEF KeyInv

\* Time passing never uncovers a token that has not expired.
LEMMA TickPreservesInv ==
    ASSUME KeyInv, Tick
    PROVE  KeyInv'
<1>1. now \in Nat /\ now' = now + 1
  BY DEF KeyInv, TypeOK, Tick
<1>2. TypeOK'
  BY <1>1 DEF KeyInv, TypeOK, Tick
<1>3. KeysDated'
  BY <1>1 DEF KeyInv, TypeOK, EphemeralKey, Tick, KeysDated, Dated
<1>4. JwksComplete'
  BY <1>1 DEF KeyInv, TypeOK, EphemeralKey, Tick, JwksComplete, Swapping
<1>5. ASSUME NEW t, t.exp \in Nat, Covered(t)
      PROVE  Covered(t)'
  BY <1>1, <1>5 DEF Tick, Covered
<1>6. TokensCovered'
  BY <1>1, <1>5 DEF KeyInv, TypeOK, Tick, TokensCovered, Token, SignedToken
<1>7. NoRollbackOnRestart'
  BY <1>1, KeyAssumption DEF KeyInv, TypeOK, EphemeralKey, Tick, KeysDated, Dated,
     NoRollbackOnRestart, Loadable
<1> QED BY <1>2, <1>3, <1>4, <1>6, <1>7 DEF KeyInv

\* A stuttering step changes nothing.
LEMMA StutterPreservesInv ==
    ASSUME KeyInv, UNCHANGED vars
    PROVE  KeyInv'
BY DEF KeyInv, vars, TypeOK, KeysDated, Dated, JwksComplete, Swapping, TokensCovered, Covered,
   NoRollbackOnRestart, Loadable

\* The invariant holds of every reachable state.
THEOREM KeyInvariant == Spec => []KeyInv
<1>1. Init => KeyInv
  BY InitEstablishesKeys
<1>2. KeyInv /\ [Next]_vars => KeyInv'
  BY MaybeRotatePreservesInv, KmsAttestsPreservesInv, RotationFailsPreservesInv,
     PersistPreservesInv, SwapPreservesInv, PurgePreservesInv, RebuildPreservesInv,
     HeaderPreservesInv, SignPreservesInv, RestartPreservesInv, TickPreservesInv,
     StutterPreservesInv DEF Next, Rotate
<1> QED BY <1>1, <1>2, PTL DEF Spec

(***************************************************************************)
(* What follows from it.                                                    *)
(***************************************************************************)

\* Every variable of the key manager keeps its type; in particular a failed
\* rotation never leaves the manager without an active key.
THEOREM TypeCorrect == Spec => []TypeOK
BY KeyInvariant, PTL DEF KeyInv

\* A token issued while health() says Healthy stays verifiable from the cached
\* JWKS until it expires.
THEOREM HealthyTokensStayVerifiable == Spec => []HealthyTokensVerifiable
<1>1. KeyInv => HealthyTokensVerifiable
  <2> SUFFICES ASSUME KeyInv, NEW t \in tokens, t.healthy, t.boot = boot
               PROVE  t.kid \in jwks \/ (Swapping /\ t.kid = active.kid)
    BY DEF HealthyTokensVerifiable
  <2>1. t.exp > now /\ t.exp \in Nat
    BY DEF KeyInv, TypeOK, SignedToken, TokensCovered
  <2>2. PICK k \in previous \cup {active} : k.kid = t.kid /\ k.expires_at >= t.exp
    BY <2>1 DEF KeyInv, TokensCovered, Covered
  <2>3. k.expires_at > now
    BY <2>1, <2>2 DEF KeyInv, TypeOK, EphemeralKey
  <2> QED BY <2>2, <2>3 DEF KeyInv, JwksComplete
<1> QED BY <1>1, KeyInvariant, PTL

\* A restart at any point of a rotation loads a key that is no older than the
\* one in use, unless that one has expired.
THEOREM RestartNeverRollsBack == Spec => []NoRollbackOnRestart
BY KeyInvariant, PTL DEF KeyInv

-----------------------------------------------------------------------------
(* AuditService. *)

(***************************************************************************)
(* Sequences of events.                                                     *)
(***************************************************************************)

\* The numbers go up, and none is above n.
Ordered(q, n) ==
    /\ \A i, j \in 1..Len(q) : i < j => q[i] < q[j]
    /\ \A i \in 1..Len(q) : q[i] <= n

\* What emit appends to the channel is appended to the line of events.
LEMMA LineAppend ==
    ASSUME NEW x \in Seq(Nat), NEW q \in Seq(Nat), NEW e \in Nat
    PROVE  x \o Append(q, e) = Append(x \o q, e)
BY SMTT(30)

\* What the task takes out of the channel it has in hand.
LEMMA LineReceive ==
    ASSUME NEW x \in Seq(Nat), NEW q \in Seq(Nat), q # <<>>
    PROVE  (x \o <<Head(q)>>) \o Tail(q) = (x \o <<>>) \o q
BY SMTT(30)

\* What a sink has flushed it has stored.
LEMMA LineFlush ==
    ASSUME NEW a \in Seq(Nat), NEW b \in Seq(Nat)
    PROVE  a \o b \in Seq(Nat) /\ (a \o b) \o <<>> = a \o b
BY SMTT(30)

\* A new event is the largest.
LEMMA OrderedAppend ==
    ASSUME NEW x \in Seq(Nat), NEW n \in Nat, Ordered(x, n)
    PROVE  Ordered(Append(x, n + 1), n + 1)
<1> DEFINE y == Append(x, n + 1)
<1>1. Len(x) \in Nat /\ Len(y) = Len(x) + 1 /\ y[Len(x) + 1] = n + 1
  OBVIOUS
<1>2. \A i \in 1..Len(x) : y[i] = x[i] /\ x[i] \in Nat
  OBVIOUS
<1> HIDE DEF y
<1>3. \A i \in 1..Len(y) : i \in 1..Len(x) \/ i = Len(x) + 1
  BY <1>1
<1>4. \A i \in 1..Len(x) : y[i] <= n
  BY <1>2 DEF Ordered
<1>5. \A i \in 1..Len(y) : y[i] <= n + 1
  BY <1>1, <1>2, <1>3, <1>4
<1>6. ASSUME NEW i \in 1..Len(y), NEW j \in 1..Len(y), i < j
      PROVE  y[i] < y[j]
  <2>1. i \in 1..Len(x)
    BY <1>1, <1>6
  <2>2. CASE j \in 1..Len(x)
    BY <1>2, <1>6, <2>1, <2>2 DEF Ordered
  <2>3. CASE j = Len(x) + 1
    BY <1>1, <1>2, <1>4, <2>1, <2>3
  <2> QED BY <1>3, <2>2, <2>3
<1>7. Ordered(y, n + 1)
  BY <1>5, <1>6 DEF Ordered
<1> QED BY <1>7 DEF y

\* An event that is not taken changes nothing in the line.
LEMMA OrderedWeaken ==
    ASSUME NEW x \in Seq(Nat), NEW n \in Nat, Ordered(x, n)
    PROVE  Ordered(x, n + 1)
BY SMTT(30) DEF Ordered

\* In an ordered line, what comes later is larger, and the first part is ordered.
LEMMA OrderedParts ==
    ASSUME NEW a \in Seq(Nat), NEW b \in Seq(Nat), NEW n \in Nat, Ordered(a \o b, n)
    PROVE  /\ \A x \in ToSet(a), y \in ToSet(b) : x < y
           /\ Ordered(a, n) /\ Ordered(b, n)
<1>1. /\ DOMAIN a = 1..Len(a) /\ DOMAIN b = 1..Len(b) /\ Len(a) \in Nat /\ Len(b) \in Nat
      /\ Len(a \o b) = Len(a) + Len(b)
  OBVIOUS
<1>2. /\ \A i \in 1..Len(a) : (a \o b)[i] = a[i] /\ i \in 1..Len(a \o b)
      /\ \A i \in 1..Len(b) : (a \o b)[i + Len(a)] = b[i] /\ i + Len(a) \in 1..Len(a \o b)
  BY SMTT(30)
<1> DEFINE c == a \o b
<1>3. Ordered(c, n)
  OBVIOUS
<1>4. /\ Len(c) = Len(a) + Len(b)
      /\ \A i \in 1..Len(a) : c[i] = a[i] /\ i \in 1..Len(c)
      /\ \A i \in 1..Len(b) : c[i + Len(a)] = b[i] /\ i + Len(a) \in 1..Len(c)
  BY <1>1, <1>2
<1> HIDE DEF c
<1>5. Ordered(a, n)
  BY <1>3, <1>4 DEF Ordered
<1>6. Ordered(b, n)
  <2>1. \A i, j \in 1..Len(b) : i < j => i + Len(a) < j + Len(a)
    BY <1>1
  <2> QED BY <1>3, <1>4, <2>1 DEF Ordered
<1>7. ASSUME NEW x \in ToSet(a), NEW y \in ToSet(b)
      PROVE  x < y
  <2>1. PICK i \in 1..Len(a) : x = a[i]
    BY <1>1 DEF ToSet
  <2>2. PICK j \in 1..Len(b) : y = b[j]
    BY <1>1 DEF ToSet
  <2>3. i < j + Len(a)
    BY <1>1
  <2> QED BY <1>3, <1>4, <2>1, <2>2, <2>3 DEF Ordered
<1> QED BY <1>5, <1>6, <1>7

\* The members of two sequences in a row.
LEMMA MembersOfBoth ==
    ASSUME NEW a \in Seq(Nat), NEW b \in Seq(Nat)
    PROVE  ToSet(a \o b) = ToSet(a) \cup ToSet(b)
<1> DEFINE c == a \o b
<1>1. /\ DOMAIN a = 1..Len(a) /\ DOMAIN b = 1..Len(b) /\ DOMAIN c = 1..(Len(a) + Len(b))
      /\ Len(a) \in Nat /\ Len(b) \in Nat
  OBVIOUS
<1>2. /\ \A i \in 1..Len(a) : c[i] = a[i]
      /\ \A i \in 1..Len(b) : c[i + Len(a)] = b[i]
      /\ \A i \in 1..(Len(a) + Len(b)) : i > Len(a) => c[i] = b[i - Len(a)]
  BY SMTT(30)
<1> HIDE DEF c
<1>3. ASSUME NEW x \in ToSet(c)
      PROVE  x \in ToSet(a) \cup ToSet(b)
  <2>1. PICK i \in 1..(Len(a) + Len(b)) : x = c[i]
    BY <1>1 DEF ToSet
  <2>2. CASE i <= Len(a)
    <3>1. i \in 1..Len(a)
      BY <1>1, <2>2
    <3> QED BY <1>1, <1>2, <2>1, <3>1 DEF ToSet
  <2>3. CASE i > Len(a)
    <3>1. i - Len(a) \in 1..Len(b)
      BY <1>1, <2>3
    <3> QED BY <1>1, <1>2, <2>1, <2>3, <3>1 DEF ToSet
  <2> QED BY <1>1, <2>2, <2>3
<1>4. ToSet(a) \subseteq ToSet(c)
  <2>1. \A i \in 1..Len(a) : i \in 1..(Len(a) + Len(b))
    BY <1>1
  <2> QED BY <1>1, <1>2, <2>1 DEF ToSet
<1>5. ToSet(b) \subseteq ToSet(c)
  <2>1. \A i \in 1..Len(b) : i + Len(a) \in 1..(Len(a) + Len(b))
    BY <1>1
  <2> QED BY <1>1, <1>2, <2>1 DEF ToSet
<1> QED BY <1>3, <1>4, <1>5 DEF c

\* Nothing in hand.
LEMMA LineEmptyHand ==
    ASSUME NEW x \in Seq(Nat)
    PROVE  x \o <<>> = x
BY SMTT(30)

\* The event in hand is one more that the sink has.
LEMMA KeptAppend ==
    ASSUME NEW a \in Seq(Nat), NEW b \in Seq(Nat), NEW e \in Nat
    PROVE  /\ a \o Append(b, e) = (a \o b) \o <<e>>
           /\ a \o Append(b, e) \in Seq(Nat)
           /\ Append(b, e) \in Seq(Nat)
           /\ Len(Append(b, e)) = Len(b) + 1
BY SMTT(30)

(***************************************************************************)
(* The inductive invariant.                                                 *)
(***************************************************************************)

\* What a sink has taken over of the events, and what is on its way to it.
Kept(s) == sent[s] \o buffer[s]
Line(s) == (Kept(s) \o InHand(s)) \o queue

\* Each sink is handed the events in the order of the emit calls.
LinesOrdered == \A s \in Sinks : Ordered(Line(s), emitted)

\* The task drains only when told to, or when nobody is left to emit.
DrainAnnounced ==
    /\ draining => shutdown # "no" \/ ~handles
    /\ taskPc \in {"drain", "flush", "return", "done"} => draining
    /\ taskPc \in {"select", "drain"} => next = 1

\* The flush has reached the sinks before `next`.
FlushedSoFar ==
    \A s \in Sinks :
        (taskPc \in {"return", "done"} \/ (taskPc = "flush" /\ s < next)) => buffer[s] = <<>>

\* After the drain, each sink has what was accepted before the shutdown.
DrainedBeforeShutdown ==
    taskPc \in {"flush", "return", "done"} =>
        \A s \in Sinks :
            /\ atShutdown <= Len(Kept(s))
            /\ \A i \in 1..atShutdown : Kept(s)[i] = accepted[i]

CleanMeansDone == shutdown = "clean" => taskPc = "done"

AuditInv ==
    /\ AuditTypes
    /\ LinesOrdered
    /\ NothingLostUnderWay
    /\ DrainAnnounced
    /\ FlushedSoFar
    /\ DrainedBeforeShutdown
    /\ CleanMeansDone

\* The sequences of a line are sequences of numbers.
LEMMA LineTypes ==
    ASSUME AuditTypes, NEW s \in Sinks
    PROVE  /\ sent[s] \in Seq(Nat) /\ stored[s] \in Seq(Nat)
           /\ buffer[s] \in Seq(Nat) /\ queue \in Seq(Nat)
           /\ Kept(s) \in Seq(Nat) /\ InHand(s) \in Seq(Nat)
           /\ Kept(s) \o InHand(s) \in Seq(Nat)
           /\ Line(s) \in Seq(Nat)
<1>1. /\ sent[s] \in Seq(Nat) /\ stored[s] \in Seq(Nat)
      /\ buffer[s] \in Seq(Nat) /\ queue \in Seq(Nat) /\ current \in Nat
  BY DEF AuditTypes
<1>2. InHand(s) \in Seq(Nat)
  BY <1>1 DEF InHand
<1> QED BY <1>1, <1>2, LineFlush DEF Kept, Line

\* The invariant holds when the service starts.
LEMMA InitEstablishesAudit ==
    ASSUME AuditInit
    PROVE  AuditInv
<1>1. AuditTypes
  <2>1. \A s \in Sinks : BatchSize[s] \in Nat \ {0}
    BY AuditAssumption
  <2>2. SinkCount \in Nat \ {0} /\ Capacity \in Nat \ {0}
    BY AuditAssumption
  <2>3. /\ buffer \in [Sinks -> Seq(Nat)]
        /\ stored \in [Sinks -> Seq(Nat)] /\ sent \in [Sinks -> Seq(Nat)]
    BY DEF AuditInit
  <2>4. queue \in Seq(Nat) /\ accepted \in Seq(Nat) /\ Len(queue) = 0 /\ Len(accepted) = 0
    BY DEF AuditInit
  <2>5. \A s \in Sinks : Len(buffer[s]) < BatchSize[s]
    BY <2>1 DEF AuditInit
  <2>6. handles \in BOOLEAN /\ draining \in BOOLEAN
    BY DEF AuditInit
  <2>7. /\ emitted \in Nat /\ overflow_dropped \in Nat /\ current \in Nat
        /\ next \in 1..SinkCount /\ failing \subseteq Sinks
        /\ rejecting \subseteq Firehose /\ mishaps \in Nat
        /\ Len(queue) <= Capacity /\ atShutdown \in 0..Len(accepted)
    BY <2>2, <2>4 DEF AuditInit
  <2>8. /\ shutdown \in {"no", "waiting", "clean", "timedOut"}
        /\ taskPc \in {"select", "deliver", "drain", "flush", "return", "done", "killed"}
    BY DEF AuditInit
  <2> QED BY <2>3, <2>4, <2>5, <2>6, <2>7, <2>8 DEF AuditTypes
<1>2. \A s \in Sinks : Line(s) = <<>>
  BY LineEmptyHand DEF AuditInit, Line, Kept, InHand
<1>3. LinesOrdered
  BY <1>2 DEF LinesOrdered, Ordered
<1>4. NothingLostUnderWay
  <2>1. \A s \in Sinks : SentIsStored(s)
    BY DEF AuditInit, SentIsStored
  <2> QED BY <1>2, <2>1 DEF AuditInit, NothingLostUnderWay, Line, Kept
<1> QED BY <1>1, <1>3, <1>4 DEF AuditInit, AuditInv, DrainAnnounced, FlushedSoFar,
        DrainedBeforeShutdown, CleanMeansDone

\* The types of the flags, apart from the others.
FlagTypes == handles \in BOOLEAN /\ draining \in BOOLEAN
OtherTypes ==
    /\ emitted \in Nat
    /\ queue \in Seq(Nat) /\ Len(queue) <= Capacity
    /\ overflow_dropped \in Nat
    /\ shutdown \in {"no", "waiting", "clean", "timedOut"}
    /\ taskPc \in {"select", "deliver", "drain", "flush", "return", "done", "killed"}
    /\ current \in Nat
    /\ next \in 1..SinkCount
    /\ buffer \in [Sinks -> Seq(Nat)]
    /\ \A s \in Sinks : Len(buffer[s]) < BatchSize[s]
    /\ stored \in [Sinks -> Seq(Nat)] /\ sent \in [Sinks -> Seq(Nat)]
    /\ failing \subseteq Sinks /\ rejecting \subseteq Firehose
    /\ mishaps \in Nat
    /\ accepted \in Seq(Nat)
    /\ atShutdown \in 0..Len(accepted)

\* Together they are the type invariant.
LEMMA TypesSplit == AuditTypes <=> FlagTypes /\ OtherTypes
BY DEF AuditTypes, FlagTypes, OtherTypes

\* emit: what try_send takes joins the end of every line.
LEMMA EmitPreservesInv ==
    ASSUME AuditInv, EmitAccepted \/ EmitFull \/ EmitClosed
    PROVE  AuditInv'
<1>0. AuditTypes /\ FlagTypes /\ OtherTypes
  BY TypesSplit DEF AuditInv
<1>1. /\ UNCHANGED <<handles, draining, shutdown, atShutdown, taskPc, current, next>>
      /\ UNCHANGED <<buffer, stored, sent, failing, rejecting, mishaps>>
      /\ emitted' = emitted + 1
  BY DEF EmitAccepted, EmitFull, EmitClosed, taskVars, sinkVars
<1>2. \A s \in Sinks : Kept(s)' = Kept(s) /\ InHand(s)' = InHand(s) /\ SentIsStored(s)'
  BY <1>1 DEF Kept, InHand, SentIsStored, AuditInv, NothingLostUnderWay
<1>3. FlagTypes'
  BY <1>0, <1>1 DEF FlagTypes
<1>4. DrainAnnounced'
  BY <1>1 DEF AuditInv, DrainAnnounced
<1>5. FlushedSoFar' /\ CleanMeansDone'
  BY <1>1 DEF AuditInv, FlushedSoFar, CleanMeansDone
<1>6. CASE EmitAccepted
  <2>0. /\ queue' = Append(queue, emitted + 1) /\ accepted' = Append(accepted, emitted + 1)
        /\ overflow_dropped' = overflow_dropped /\ Len(queue) < Capacity
    BY <1>6, <1>1 DEF EmitAccepted
  <2>1. \A s \in Sinks : Line(s)' = Append(Line(s), emitted + 1)
    <3> TAKE s \in Sinks
    <3>1. Kept(s) \o InHand(s) \in Seq(Nat) /\ queue \in Seq(Nat) /\ emitted + 1 \in Nat
      BY <1>0, LineTypes DEF OtherTypes
    <3>2. Line(s)' = (Kept(s) \o InHand(s)) \o Append(queue, emitted + 1)
      BY <1>2, <2>0 DEF Line
    <3> QED BY <3>1, <3>2, LineAppend DEF Line
  <2>2. OtherTypes'
    BY <1>0, <1>1, <2>0, AuditAssumption DEF OtherTypes
  <2>3. LinesOrdered'
    BY <1>0, <1>1, <2>1, LineTypes, OrderedAppend DEF AuditInv, OtherTypes, LinesOrdered
  <2>4. NothingLostUnderWay'
    BY <1>1, <1>2, <2>0, <2>1 DEF AuditInv, NothingLostUnderWay, Line, Kept, closed
  <2>5. DrainedBeforeShutdown'
    <3>1. accepted \in Seq(Nat) /\ atShutdown \in 0..Len(accepted) /\ emitted + 1 \in Nat
      BY <1>0 DEF OtherTypes
    <3>2. \A i \in 1..atShutdown : accepted'[i] = accepted[i]
      BY <3>1, <2>0
    <3>3. DrainedBeforeShutdown
      BY DEF AuditInv
    <3> QED BY <1>1, <1>2, <3>2, <3>3 DEF DrainedBeforeShutdown
  <2> QED BY <1>3, <1>4, <1>5, <2>2, <2>3, <2>4, <2>5, TypesSplit DEF AuditInv, AuditTypes, FlagTypes, OtherTypes
<1>7. CASE EmitFull \/ EmitClosed
  <2>0. UNCHANGED <<queue, accepted>> /\ overflow_dropped' \in Nat
    BY <1>0, <1>7 DEF EmitFull, EmitClosed, OtherTypes
  <2>1. \A s \in Sinks : Line(s)' = Line(s) /\ Line(s) \in Seq(Nat)
    BY <1>0, <1>2, <2>0, LineTypes DEF Line
  <2>2. OtherTypes'
    BY <1>0, <1>1, <2>0 DEF OtherTypes
  <2>3. LinesOrdered'
    BY <1>0, <1>1, <2>1, OrderedWeaken DEF AuditInv, OtherTypes, LinesOrdered
  <2>4. NothingLostUnderWay'
    BY <1>1, <1>2, <2>0, <2>1 DEF AuditInv, NothingLostUnderWay, Line, Kept, closed
  <2>5. DrainedBeforeShutdown'
    BY <1>1, <1>2, <2>0 DEF AuditInv, DrainedBeforeShutdown
  <2> QED BY <1>3, <1>4, <1>5, <2>2, <2>3, <2>4, <2>5 DEF AuditInv, AuditTypes, FlagTypes, OtherTypes
<1> QED BY <1>6, <1>7

\* The task takes an event out of the channel; every sink is still to get it.
LEMMA ReceivePreservesInv ==
    ASSUME AuditInv, Receive
    PROVE  AuditInv'
<1>0. AuditTypes /\ FlagTypes /\ OtherTypes
  BY TypesSplit DEF AuditInv
<1>1. /\ UNCHANGED <<emitted, overflow_dropped, handles, shutdown, accepted, atShutdown>>
      /\ UNCHANGED <<draining, buffer, stored, sent, failing, rejecting, mishaps>>
      /\ taskPc \in {"select", "drain"} /\ taskPc' = "deliver" /\ next' = 1
      /\ queue # <<>> /\ current' = Head(queue) /\ queue' = Tail(queue)
  BY DEF Receive, callerVars, sinkVars
<1>2. \A s \in Sinks : Kept(s)' = Kept(s) /\ InHand(s) = <<>> /\ InHand(s)' = <<Head(queue)>>
  <2>1. \A s \in Sinks : 1 <= s
    BY AuditAssumption DEF Sinks
  <2> QED BY <1>1, <2>1 DEF Kept, InHand
<1>s. \A s \in Sinks : SentIsStored(s)'
  BY <1>1 DEF SentIsStored, AuditInv, NothingLostUnderWay
<1>3. \A s \in Sinks : Line(s)' = Line(s)
  <2> TAKE s \in Sinks
  <2>1. Kept(s) \in Seq(Nat) /\ queue \in Seq(Nat)
    BY <1>0, LineTypes
  <2> QED BY <1>1, <1>2, <2>1, LineReceive DEF Line
<1>4. OtherTypes'
  BY <1>0, <1>1, AuditAssumption DEF OtherTypes
<1>5. FlagTypes'
  BY <1>0, <1>1 DEF FlagTypes
<1>6. LinesOrdered'
  BY <1>1, <1>3 DEF AuditInv, LinesOrdered
<1>7. NothingLostUnderWay'
  BY <1>1, <1>3, <1>s DEF AuditInv, NothingLostUnderWay, Line, Kept, closed
<1>8. DrainAnnounced'
  BY <1>1 DEF AuditInv, DrainAnnounced
<1>9. FlushedSoFar' /\ CleanMeansDone' /\ DrainedBeforeShutdown'
  BY <1>1 DEF AuditInv, FlushedSoFar, CleanMeansDone, DrainedBeforeShutdown
<1> QED BY <1>4, <1>5, <1>6, <1>7, <1>8, <1>9
        DEF AuditInv, AuditTypes, FlagTypes, OtherTypes

\* Steps that move the task or the caller of shutdown without touching events.
LEMMA ControlPreservesInv ==
    ASSUME AuditInv,
           \/ SeeShutdown \/ ChannelClosed \/ DrainEnds
           \/ CallShutdown \/ ShutdownReturns \/ ShutdownTimesOut \/ DropService
           \/ UNCHANGED auditVars
    PROVE  AuditInv'
<1>0. AuditTypes /\ FlagTypes /\ OtherTypes
  BY TypesSplit DEF AuditInv
<1>1. /\ UNCHANGED <<emitted, overflow_dropped, accepted, queue, current, next>>
      /\ UNCHANGED <<buffer, stored, sent, failing, rejecting, mishaps>>
  BY DEF SeeShutdown, ChannelClosed, DrainEnds, CallShutdown, ShutdownReturns, ShutdownTimesOut,
     DropService, auditVars, callerVars, taskVars, sinkVars
<1>2. /\ taskPc' = "deliver" <=> taskPc = "deliver"
      /\ closed' <=> closed
      /\ taskPc' = taskPc \/ (taskPc = "select" /\ taskPc' = "drain")
                          \/ (taskPc = "drain" /\ taskPc' = "flush")
  BY DEF SeeShutdown, ChannelClosed, DrainEnds, CallShutdown, ShutdownReturns, ShutdownTimesOut,
     DropService, auditVars, callerVars, taskVars, closed
<1>3. \A s \in Sinks : Kept(s)' = Kept(s) /\ InHand(s)' = InHand(s) /\ Line(s)' = Line(s)
  BY <1>1, <1>2 DEF Kept, InHand, Line
<1>s. \A s \in Sinks : SentIsStored(s)'
  BY <1>1 DEF SentIsStored, AuditInv, NothingLostUnderWay
<1>4. FlagTypes'
  BY <1>0 DEF FlagTypes, SeeShutdown, ChannelClosed, DrainEnds, CallShutdown, ShutdownReturns,
     ShutdownTimesOut, DropService, auditVars, callerVars, taskVars
<1>5. OtherTypes'
  <2>1. /\ shutdown' \in {"no", "waiting", "clean", "timedOut"}
        /\ taskPc' \in {"select", "deliver", "drain", "flush", "return", "done", "killed"}
        /\ atShutdown' \in 0..Len(accepted)
    BY <1>0, <1>2 DEF OtherTypes, SeeShutdown, ChannelClosed, DrainEnds, CallShutdown,
       ShutdownReturns, ShutdownTimesOut, DropService, auditVars, callerVars, taskVars
  <2> QED BY <1>0, <1>1, <2>1 DEF OtherTypes
<1>6. LinesOrdered'
  BY <1>1, <1>3 DEF AuditInv, LinesOrdered
<1>7. NothingLostUnderWay'
  BY <1>1, <1>2, <1>3, <1>s DEF AuditInv, NothingLostUnderWay, Line, Kept
<1>8. DrainAnnounced'
  BY <1>1 DEF AuditInv, DrainAnnounced, SeeShutdown, ChannelClosed, DrainEnds, CallShutdown,
     ShutdownReturns, ShutdownTimesOut, DropService, auditVars, callerVars, taskVars
<1>9. FlushedSoFar'
  <2>1. taskPc = "drain" /\ taskPc' = "flush" => next = 1
    BY DEF AuditInv, DrainAnnounced
  <2>2. \A s \in Sinks : ~(s < 1)
    BY AuditAssumption DEF Sinks
  <2> QED BY <1>1, <1>2, <2>1, <2>2 DEF AuditInv, FlushedSoFar
<1>10. CleanMeansDone'
  BY DEF AuditInv, CleanMeansDone, SeeShutdown, ChannelClosed, DrainEnds, CallShutdown,
     ShutdownReturns, ShutdownTimesOut, DropService, auditVars, callerVars, taskVars
<1>11. DrainedBeforeShutdown'
  <2>1. CASE DrainEnds
    <3>1. atShutdown' = atShutdown /\ queue = <<>> /\ taskPc = "drain"
      BY <2>1 DEF DrainEnds, callerVars
    <3>2. \A s \in Sinks : Kept(s) = accepted
      <4> TAKE s \in Sinks
      <4>1. Line(s) = accepted
        BY <3>1 DEF AuditInv, NothingLostUnderWay, closed, Line, Kept
      <4>2. InHand(s) = <<>> /\ Kept(s) \in Seq(Nat)
        BY <1>0, <3>1, LineTypes DEF InHand
      <4> QED BY <3>1, <4>1, <4>2, LineEmptyHand DEF Line
    <3> QED BY <1>0, <1>1, <1>3, <3>1, <3>2 DEF DrainedBeforeShutdown, OtherTypes
  <2>2. CASE CallShutdown
    <3>1. taskPc \notin {"flush", "return", "done"} /\ taskPc' = taskPc
      BY <2>2 DEF AuditInv, DrainAnnounced, CallShutdown, taskVars
    <3> QED BY <3>1 DEF DrainedBeforeShutdown
  <2>3. CASE \/ SeeShutdown \/ ChannelClosed \/ ShutdownReturns \/ ShutdownTimesOut
             \/ DropService \/ UNCHANGED auditVars
    <3>1. atShutdown' = atShutdown
          /\ (taskPc' \in {"flush", "return", "done"} => taskPc \in {"flush", "return", "done"})
      BY <2>3 DEF SeeShutdown, ChannelClosed, ShutdownReturns, ShutdownTimesOut, DropService,
         auditVars, callerVars, taskVars
    <3> QED BY <1>1, <1>3, <3>1 DEF AuditInv, DrainedBeforeShutdown
  <2> QED BY <2>1, <2>2, <2>3
<1> QED BY <1>4, <1>5, <1>6, <1>7, <1>8, <1>9, <1>10, <1>11
        DEF AuditInv, AuditTypes, FlagTypes, OtherTypes

\* No backend takes what it was not sent.
LEMMA LandingsOfBatch ==
    ASSUME NEW s \in Sinks, NEW events \in Seq(Nat), NEW landed \in Landings(s, events)
    PROVE  landed \in Seq(Nat) /\ ToSet(landed) \subseteq ToSet(events)
<1>1. CASE s \notin Firehose
  <2>1. landed = <<>> \/ landed = events
    BY <1>1 DEF Landings
  <2>2. <<>> \in Seq(Nat) /\ ToSet(<<>>) = {}
    BY DEF ToSet
  <2> QED BY Zenon, <2>1, <2>2
<1>2. CASE s \in Firehose
  <2>1. PICK n \in 0..(Attempts * Len(events)) : landed \in [1..n -> ToSet(events)]
    BY <1>2 DEF Landings, PartsAndRepeats
  <2>2. n \in Nat /\ ToSet(events) \subseteq Nat
    <3>1. Attempts \in Nat /\ Len(events) \in Nat /\ \A i \in DOMAIN events : events[i] \in Nat
      BY AuditAssumption
    <3> QED BY <3>1 DEF ToSet
  <2>3. landed \in [1..n -> Nat] /\ DOMAIN landed = 1..n
    BY <2>1, <2>2
  <2>4. landed \in Seq(Nat)
    BY <2>2, <2>3, SeqDef
  <2>5. \A i \in DOMAIN landed : landed[i] \in ToSet(events)
    BY <2>1
  <2> QED BY <2>4, <2>5 DEF ToSet
<1> QED BY <1>1, <1>2

SinkTypes ==
    /\ buffer \in [Sinks -> Seq(Nat)] /\ stored \in [Sinks -> Seq(Nat)]
    /\ sent \in [Sinks -> Seq(Nat)] /\ failing \subseteq Sinks
    /\ rejecting \subseteq Firehose /\ mishaps \in Nat

\* What a call of the backend of s does to the histories.
LEMMA AnswerEffect ==
    ASSUME OtherTypes, NothingLostUnderWay, NEW s \in Sinks, NEW events \in Seq(Nat),
           NEW landed \in Landings(s, events), NEW answer \in {"Ok", "Err"},
           Answer(s, events, landed, answer)
    PROVE  /\ stored' \in [Sinks -> Seq(Nat)] /\ sent' \in [Sinks -> Seq(Nat)]
           /\ failing' \subseteq Sinks /\ rejecting' \subseteq Firehose /\ mishaps' \in Nat
           /\ sent'[s] = sent[s] \o events /\ stored'[s] = stored[s] \o landed
           /\ s \in Firehose \/ landed \in {<<>>, events}
           /\ \A t \in Sinks \ {s} : sent'[t] = sent[t] /\ stored'[t] = stored[t]
           /\ \A t \in Sinks : SentIsStored(t)'
<1>1. landed \in Seq(Nat) /\ ToSet(landed) \subseteq ToSet(events)
  BY LandingsOfBatch
<1>2. /\ stored[s] \in Seq(Nat) /\ sent[s] \in Seq(Nat)
      /\ stored[s] \o landed \in Seq(Nat) /\ sent[s] \o events \in Seq(Nat)
  BY <1>1, LineFlush DEF OtherTypes
<1>3. /\ sent' \in [Sinks -> Seq(Nat)] /\ sent'[s] = sent[s] \o events
      /\ \A t \in Sinks \ {s} : sent'[t] = sent[t]
  BY <1>2 DEF OtherTypes, Answer
<1>4. /\ stored' \in [Sinks -> Seq(Nat)] /\ stored'[s] = stored[s] \o landed
      /\ \A t \in Sinks \ {s} : stored'[t] = stored[t]
  BY <1>2 DEF OtherTypes, Answer
<1>5. /\ answer = "Ok" => s \in Firehose \/ landed = events
      /\ failing' = IF answer = "Ok" THEN failing ELSE failing \cup {s}
      /\ rejecting' = IF answer = "Ok" /\ ~(ToSet(events) \subseteq ToSet(landed))
                      THEN rejecting \cup {s} ELSE rejecting
  BY DEF Answer
<1>6. mishaps' \in Nat
  BY DEF Answer, OtherTypes
<1>7. failing' \subseteq Sinks /\ rejecting' \subseteq Firehose
      /\ failing \subseteq failing' /\ rejecting \subseteq rejecting'
  BY <1>5 DEF OtherTypes
<1>8. s \in Firehose \/ landed \in {<<>>, events}
  BY DEF Landings
<1>9. \A t \in Sinks \ {s} : SentIsStored(t)'
  BY <1>3, <1>4, <1>7 DEF NothingLostUnderWay, SentIsStored
<1>10. SentIsStored(s)'
  <2>0. SentIsStored(s)
    BY DEF NothingLostUnderWay
  <2>1. ToSet(stored'[s]) = ToSet(stored[s]) \cup ToSet(landed)
    BY <1>1, <1>2, <1>4, MembersOfBoth
  <2>2. ToSet(sent'[s]) = ToSet(sent[s]) \cup ToSet(events)
    BY <1>2, <1>3, MembersOfBoth
  <2>3. ToSet(stored'[s]) \subseteq ToSet(sent'[s])
    BY <1>1, <2>0, <2>1, <2>2 DEF SentIsStored
  <2>4. ASSUME s \notin failing' \cup Firehose
        PROVE  stored'[s] = sent'[s]
    <3>1. answer = "Ok" /\ s \notin failing \cup Firehose /\ landed = events
      BY <1>5, <2>4
    <3> QED BY <1>3, <1>4, <2>0, <3>1 DEF SentIsStored
  <2>5. ASSUME s \notin failing' \cup rejecting'
        PROVE  ToSet(sent'[s]) \subseteq ToSet(stored'[s])
    <3>1. s \notin failing \cup rejecting /\ ToSet(events) \subseteq ToSet(landed)
      BY <1>5, <1>7, <2>5
    <3> QED BY <2>0, <2>1, <2>2, <3>1 DEF SentIsStored
  <2> QED BY <2>3, <2>4, <2>5 DEF SentIsStored
<1> QED BY <1>3, <1>4, <1>6, <1>7, <1>8, <1>9, <1>10

\* A sink that sends its buffer, or the events it is handed with it, has sent
\* them whatever the backend makes of them.
LEMMA SendBatchEffect ==
    ASSUME OtherTypes, NothingLostUnderWay, NEW s \in Sinks, NEW events \in Seq(Nat),
           SendBatch(s, events)
    PROVE  /\ SinkTypes'
           /\ buffer'[s] = <<>> /\ Kept(s)' = sent[s] \o events
           /\ \A t \in Sinks \ {s} : buffer'[t] = buffer[t] /\ sent'[t] = sent[t]
           /\ \A t \in Sinks : SentIsStored(t)'
           /\ \E landed \in Seq(Nat) :
                /\ stored'[s] = stored[s] \o landed /\ ToSet(landed) \subseteq ToSet(events)
                /\ s \in Firehose \/ landed \in {<<>>, events}
           /\ \A t \in Sinks \ {s} : stored'[t] = stored[t]
<1>1. PICK landed \in Landings(s, events), answer \in {"Ok", "Err"} : Answer(s, events, landed, answer)
  BY DEF SendBatch
<1>2. /\ stored' \in [Sinks -> Seq(Nat)] /\ sent' \in [Sinks -> Seq(Nat)]
      /\ failing' \subseteq Sinks /\ rejecting' \subseteq Firehose /\ mishaps' \in Nat
      /\ sent'[s] = sent[s] \o events /\ stored'[s] = stored[s] \o landed
      /\ s \in Firehose \/ landed \in {<<>>, events}
      /\ \A t \in Sinks \ {s} : sent'[t] = sent[t] /\ stored'[t] = stored[t]
      /\ \A t \in Sinks : SentIsStored(t)'
  BY <1>1, AnswerEffect
<1>3. /\ buffer' \in [Sinks -> Seq(Nat)] /\ buffer'[s] = <<>>
      /\ \A t \in Sinks \ {s} : buffer'[t] = buffer[t]
  BY DEF SendBatch, OtherTypes
<1>4. Kept(s)' = sent[s] \o events
  BY <1>2, <1>3, LineEmptyHand DEF Kept
<1>5. landed \in Seq(Nat) /\ ToSet(landed) \subseteq ToSet(events)
  BY LandingsOfBatch
<1>6. SinkTypes'
  BY <1>2, <1>3 DEF SinkTypes
<1>7. \E l \in Seq(Nat) :
        /\ stored'[s] = stored[s] \o l /\ ToSet(l) \subseteq ToSet(events)
        /\ s \in Firehose \/ l \in {<<>>, events}
  BY <1>2, <1>5
<1>8. \A t \in Sinks \ {s} : buffer'[t] = buffer[t] /\ sent'[t] = sent[t] /\ stored'[t] = stored[t]
  BY <1>2, <1>3
<1> QED BY <1>2, <1>3, <1>4, <1>6, <1>7, <1>8

\* A sink that is handed an event has it, in its buffer or sent.
LEMMA HandOver ==
    ASSUME OtherTypes, NothingLostUnderWay, NEW s \in Sinks, NEW e \in Nat, send_batch(s, e)
    PROVE  /\ SinkTypes'
           /\ Len(buffer'[s]) < BatchSize[s]
           /\ Kept(s)' = Kept(s) \o <<e>>
           /\ \A t \in Sinks \ {s} : buffer'[t] = buffer[t] /\ sent'[t] = sent[t]
           /\ \A t \in Sinks : SentIsStored(t)'
<1> DEFINE events == Append(buffer[s], e)
<1>0. sent[s] \in Seq(Nat) /\ buffer[s] \in Seq(Nat) /\ BatchSize[s] \in Nat \ {0}
  BY AuditAssumption DEF OtherTypes
<1>1. events \in Seq(Nat) /\ sent[s] \o events = Kept(s) \o <<e>> /\ Len(events) \in Nat
  <2>1. events \in Seq(Nat) /\ sent[s] \o events = (sent[s] \o buffer[s]) \o <<e>>
    BY <1>0, KeptAppend
  <2> HIDE DEF events
  <2> QED BY <2>1, LenProperties DEF Kept
<1>2. CASE Len(events) >= BatchSize[s]
  <2>1. SendBatch(s, events)
    BY <1>2 DEF send_batch
  <2> HIDE DEF events
  <2>2. Len(<<>>) < BatchSize[s]
    BY <1>0
  <2>3. /\ SinkTypes' /\ buffer'[s] = <<>> /\ Kept(s)' = sent[s] \o events
        /\ \A t \in Sinks \ {s} : buffer'[t] = buffer[t] /\ sent'[t] = sent[t]
        /\ \A t \in Sinks : SentIsStored(t)'
    BY <1>1, <2>1, SendBatchEffect
  <2> QED BY <1>1, <2>2, <2>3
<1>3. CASE ~(Len(events) >= BatchSize[s])
  <2>1. /\ buffer' = [buffer EXCEPT ![s] = events] /\ stored' = stored /\ sent' = sent
        /\ failing' = failing /\ rejecting' = rejecting /\ mishaps' = mishaps
    BY <1>3 DEF send_batch
  <2> HIDE DEF events
  <2>2. /\ buffer' \in [Sinks -> Seq(Nat)] /\ buffer'[s] = events
        /\ \A t \in Sinks \ {s} : buffer'[t] = buffer[t]
    BY <1>1, <2>1 DEF OtherTypes
  <2>3. Kept(s)' = Kept(s) \o <<e>>
    BY <1>1, <2>1, <2>2 DEF Kept
  <2>4. \A t \in Sinks : SentIsStored(t)'
    BY <2>1 DEF SentIsStored, NothingLostUnderWay
  <2>5. SinkTypes'
    BY <2>1, <2>2 DEF SinkTypes, OtherTypes
  <2> QED BY <1>0, <1>1, <1>3, <2>1, <2>2, <2>3, <2>4, <2>5
<1> QED BY <1>2, <1>3

\* A sink's line after it has been handed the event.
LEMMA DeliverPreservesInv ==
    ASSUME AuditInv, DeliverToSink
    PROVE  AuditInv'
<1>0. AuditTypes /\ FlagTypes /\ OtherTypes /\ next \in Sinks /\ current \in Nat
  BY TypesSplit DEF AuditInv, OtherTypes, Sinks
<1>1. /\ UNCHANGED <<emitted, overflow_dropped, handles, shutdown, accepted, atShutdown>>
      /\ UNCHANGED <<queue, draining>>
      /\ taskPc = "deliver" /\ send_batch(next, current)
      /\ IF next = SinkCount
         THEN taskPc' = BackToLoop /\ next' = 1 /\ current' = 0
         ELSE next' = next + 1 /\ taskPc' = taskPc /\ current' = current
  BY DEF DeliverToSink, callerVars
<1>2. BackToLoop \in {"select", "drain"} /\ (BackToLoop = "drain" => draining)
  BY DEF BackToLoop
<1>n. PICK n \in Sinks : n = next
  BY <1>0
<1>3. /\ SinkTypes'
      /\ Len(buffer'[n]) < BatchSize[n]
      /\ Kept(n)' = Kept(n) \o <<current>>
      /\ \A t \in Sinks \ {n} : buffer'[t] = buffer[t] /\ sent'[t] = sent[t]
      /\ \A t \in Sinks : SentIsStored(t)'
  BY <1>0, <1>1, <1>n, HandOver DEF AuditInv
<1>4. \A s \in Sinks : Line(s)' = Line(s)
  <2> TAKE s \in Sinks
  <2>1. s \in Nat /\ s <= SinkCount /\ n \in Nat /\ SinkCount \in Nat
    BY AuditAssumption DEF Sinks
  <2>2. CASE s # n
    <3>1. Kept(s)' = Kept(s)
      BY <1>3, <2>2 DEF Kept
    <3>2. InHand(s)' = InHand(s)
      BY <1>n, <1>1, <1>2, <2>1, <2>2 DEF InHand
    <3> QED BY <1>1, <3>1, <3>2 DEF Line
  <2>3. CASE s = n
    <3>1. InHand(n) = <<current>> /\ InHand(n)' = <<>>
      BY <1>n, <1>1, <1>2, <2>1 DEF InHand
    <3>2. Kept(n) \in Seq(Nat) /\ Kept(n) \o <<current>> \in Seq(Nat)
      BY <1>0, LineTypes, LineFlush
    <3>3. Kept(n)' \o InHand(n)' = Kept(n) \o InHand(n)
      BY <1>3, <3>1, <3>2, LineEmptyHand
    <3> QED BY <1>1, <2>3, <3>3 DEF Line
  <2> QED BY <2>2, <2>3
<1>5. OtherTypes'
  <2>1. \A s \in Sinks : Len(buffer'[s]) < BatchSize[s]
    BY <1>0, <1>3 DEF OtherTypes
  <2>2. next' \in 1..SinkCount /\ current' \in Nat
    BY <1>0, <1>1, AuditAssumption DEF Sinks
  <2>3. taskPc' \in {"select", "deliver", "drain", "flush", "return", "done", "killed"}
    BY <1>1, <1>2
  <2> QED BY <1>0, <1>1, <1>3, <2>1, <2>2, <2>3 DEF OtherTypes, SinkTypes
<1>6. FlagTypes'
  BY <1>0, <1>1 DEF FlagTypes
<1>7. LinesOrdered'
  BY <1>1, <1>4 DEF AuditInv, LinesOrdered
<1>8. NothingLostUnderWay'
  BY <1>1, <1>3, <1>4 DEF AuditInv, NothingLostUnderWay, closed, Line, Kept
<1>9. DrainAnnounced'
  BY <1>1, <1>2 DEF AuditInv, DrainAnnounced
<1>10. FlushedSoFar' /\ CleanMeansDone' /\ DrainedBeforeShutdown'
  BY <1>1, <1>2 DEF AuditInv, FlushedSoFar, CleanMeansDone, DrainedBeforeShutdown
<1> QED BY <1>5, <1>6, <1>7, <1>8, <1>9, <1>10
        DEF AuditInv, AuditTypes, FlagTypes, OtherTypes

\* The flush of one sink sends its buffer.
LEMMA FlushPreservesInv ==
    ASSUME AuditInv, FlushSink
    PROVE  AuditInv'
<1>0. AuditTypes /\ FlagTypes /\ OtherTypes /\ next \in Sinks
  BY TypesSplit DEF AuditInv, OtherTypes, Sinks
<1>1. /\ UNCHANGED <<emitted, overflow_dropped, handles, shutdown, accepted, atShutdown>>
      /\ UNCHANGED <<queue, draining, current>>
      /\ taskPc = "flush"
      /\ IF buffer[next] = <<>> THEN UNCHANGED sinkVars ELSE SendBatch(next, buffer[next])
      /\ IF next = SinkCount
         THEN taskPc' = "return" /\ next' = 1
         ELSE next' = next + 1 /\ taskPc' = taskPc
  BY DEF FlushSink, callerVars
<1>n. PICK n \in Sinks : n = next
  BY <1>0
<1>2. \A s \in Sinks : Kept(s) \in Seq(Nat) /\ InHand(s) = <<>> /\ InHand(s)' = <<>>
  BY <1>0, <1>1, LineTypes DEF InHand
<1>3. /\ SinkTypes'
      /\ buffer'[n] = <<>> /\ Kept(n)' = Kept(n)
      /\ \A t \in Sinks \ {n} : buffer'[t] = buffer[t] /\ sent'[t] = sent[t]
      /\ \A t \in Sinks : SentIsStored(t)'
  <2>1. CASE buffer[n] = <<>>
    <3>1. UNCHANGED <<buffer, stored, sent, failing, rejecting, mishaps>>
      BY <1>1, <1>n, <2>1 DEF sinkVars
    <3>2. \A t \in Sinks : SentIsStored(t)'
      BY <3>1 DEF AuditInv, NothingLostUnderWay, SentIsStored
    <3> QED BY <1>0, <2>1, <3>1, <3>2 DEF Kept, OtherTypes, SinkTypes
  <2>2. CASE buffer[n] # <<>>
    <3>1. SendBatch(n, buffer[n]) /\ buffer[n] \in Seq(Nat) /\ NothingLostUnderWay
      BY <1>0, <1>1, <1>n, <2>2 DEF OtherTypes, AuditInv
    <3>2. /\ SinkTypes' /\ buffer'[n] = <<>> /\ Kept(n)' = sent[n] \o buffer[n]
          /\ \A t \in Sinks \ {n} : buffer'[t] = buffer[t] /\ sent'[t] = sent[t]
          /\ \A t \in Sinks : SentIsStored(t)'
      BY <1>0, <3>1, SendBatchEffect
    <3> QED BY <3>2 DEF Kept
  <2> QED BY <2>1, <2>2
<1>4. \A s \in Sinks : Kept(s)' = Kept(s)
  BY <1>3 DEF Kept
<1>5. \A s \in Sinks : Line(s)' = Line(s)
  BY <1>1, <1>2, <1>4 DEF Line
<1>6. OtherTypes'
  <2>1. \A s \in Sinks : Len(buffer'[s]) < BatchSize[s]
    <3>1. Len(<<>>) < BatchSize[n]
      BY AuditAssumption
    <3> QED BY <1>0, <1>3, <3>1 DEF OtherTypes
  <2>2. next' \in 1..SinkCount
    BY <1>0, <1>1, AuditAssumption DEF Sinks
  <2> QED BY <1>0, <1>1, <1>3, <2>1, <2>2 DEF OtherTypes, SinkTypes
<1>7. FlagTypes'
  BY <1>0, <1>1 DEF FlagTypes
<1>8. LinesOrdered'
  BY <1>1, <1>5 DEF AuditInv, LinesOrdered
<1>9. NothingLostUnderWay'
  BY <1>1, <1>3, <1>5 DEF AuditInv, NothingLostUnderWay, closed, Line, Kept
<1>10. DrainAnnounced'
  BY <1>1 DEF AuditInv, DrainAnnounced
<1>11. FlushedSoFar'
  <2>1. ASSUME NEW s \in Sinks, \/ taskPc' \in {"return", "done"}
                                \/ taskPc' = "flush" /\ s < next'
        PROVE  s = n \/ buffer[s] = <<>>
    <3>1. s \in Nat /\ n \in Nat /\ s <= SinkCount /\ SinkCount \in Nat
      BY AuditAssumption DEF Sinks
    <3>2. s = n \/ s < next
      BY <1>1, <1>n, <2>1, <3>1
    <3> QED BY <1>1, <3>2 DEF AuditInv, FlushedSoFar
  <2> QED BY <1>3, <2>1 DEF FlushedSoFar
<1>12. CleanMeansDone'
  BY <1>1 DEF AuditInv, CleanMeansDone
<1>13. DrainedBeforeShutdown'
  BY <1>1, <1>4 DEF AuditInv, DrainedBeforeShutdown
<1> QED BY <1>6, <1>7, <1>8, <1>9, <1>10, <1>11, <1>12, <1>13
        DEF AuditInv, AuditTypes, FlagTypes, OtherTypes

\* The end of the task, by itself or with the process.
LEMMA EndPreservesInv ==
    ASSUME AuditInv, TaskReturns \/ ProcessExits
    PROVE  AuditInv'
<1>0. AuditTypes /\ FlagTypes /\ OtherTypes
  BY TypesSplit DEF AuditInv
<1>1. /\ UNCHANGED <<emitted, overflow_dropped, handles, shutdown, accepted, atShutdown>>
      /\ UNCHANGED <<draining, current, next>>
      /\ UNCHANGED <<buffer, stored, sent, failing, rejecting, mishaps>>
      /\ \/ taskPc = "return" /\ taskPc' = "done"
         \/ shutdown = "timedOut" /\ taskPc' = "killed"
      /\ queue' = <<>>
  BY DEF TaskReturns, ProcessExits, callerVars, sinkVars
<1>2. OtherTypes'
  BY <1>0, <1>1, AuditAssumption DEF OtherTypes
<1>3. FlagTypes'
  BY <1>0, <1>1 DEF FlagTypes
<1>4. \A s \in Sinks : Ordered(Line(s)', emitted')
  <2> TAKE s \in Sinks
  <2>1. /\ Kept(s) \in Seq(Nat) /\ InHand(s) \in Seq(Nat) /\ queue \in Seq(Nat)
        /\ Kept(s) \o InHand(s) \in Seq(Nat) /\ emitted \in Nat
    BY <1>0, LineTypes DEF OtherTypes
  <2>2. Kept(s)' = Kept(s) /\ InHand(s)' = <<>>
    BY <1>1 DEF Kept, InHand
  <2>3. Line(s)' = Kept(s)
    BY <1>1, <2>1, <2>2, LineEmptyHand DEF Line
  <2>4. Ordered((Kept(s) \o InHand(s)) \o queue, emitted)
    BY DEF AuditInv, LinesOrdered, Line
  <2>5. Ordered(Kept(s) \o InHand(s), emitted)
    BY <2>1, <2>4, OrderedParts
  <2>6. Ordered(Kept(s), emitted)
    BY <2>1, <2>5, OrderedParts
  <2> QED BY <1>1, <2>3, <2>6
<1>5. NothingLostUnderWay'
  BY <1>1 DEF AuditInv, NothingLostUnderWay, SentIsStored, closed
<1>6. DrainAnnounced'
  BY <1>1 DEF AuditInv, DrainAnnounced
<1>7. FlushedSoFar' /\ CleanMeansDone'
  BY <1>1 DEF AuditInv, FlushedSoFar, CleanMeansDone
<1>8. DrainedBeforeShutdown'
  BY <1>1 DEF AuditInv, DrainedBeforeShutdown, Kept
<1> QED BY <1>2, <1>3, <1>4, <1>5, <1>6, <1>7, <1>8
        DEF AuditInv, AuditTypes, FlagTypes, OtherTypes, LinesOrdered

\* The invariant holds of every reachable state.
THEOREM AuditInvariant == AuditSpec => []AuditInv
<1>1. AuditInit => AuditInv
  BY InitEstablishesAudit
<1>2. AuditInv /\ [AuditNext]_auditVars => AuditInv'
  BY EmitPreservesInv, ReceivePreservesInv, ControlPreservesInv, DeliverPreservesInv,
     FlushPreservesInv, EndPreservesInv DEF AuditNext, TaskStep
<1> QED BY <1>1, <1>2, PTL DEF AuditSpec

(***************************************************************************)
(* What follows from it.                                                    *)
(***************************************************************************)

\* The channel never holds more than buffer_capacity events, and no sink more
\* than one less than its batch.
THEOREM AuditTypesCorrect == AuditSpec => []AuditTypes
<1>1. AuditInv => AuditTypes
  BY DEF AuditInv
<1> QED BY <1>1, AuditInvariant, PTL

\* Until the task ends, an accepted event is for every sink in exactly one
\* place, whatever the other sinks do (deliver_to_sinks); and what is sent is
\* stored, but for errors returned and the records that Firehose rejects.
THEOREM NothingEverLostUnderWay == AuditSpec => []NothingLostUnderWay
<1>1. AuditInv => NothingLostUnderWay
  BY DEF AuditInv
<1> QED BY <1>1, AuditInvariant, PTL

\* What a call adds to the backend.
NewlyStored(s) ==
    \A i \in (Len(stored[s]) + 1)..Len(stored'[s]) :
        /\ \A old \in ToSet(sent[s]) : old < stored'[s][i]
        /\ \A j \in (i + 1)..Len(stored'[s]) : s \in Firehose \/ stored'[s][i] < stored'[s][j]

\* A batch of later events is stored in order, or by Firehose.
LEMMA BatchStoredInOrder ==
    ASSUME OtherTypes, NothingLostUnderWay, NEW s \in Sinks, NEW events \in Seq(Nat),
           NEW n \in Nat, SendBatch(s, events), Ordered(sent[s] \o events, n)
    PROVE  NewlyStored(s) /\ \A t \in Sinks \ {s} : stored'[t] = stored[t]
<1>1. PICK landed \in Seq(Nat) :
        /\ stored'[s] = stored[s] \o landed /\ ToSet(landed) \subseteq ToSet(events)
        /\ s \in Firehose \/ landed \in {<<>>, events}
  BY SendBatchEffect
<1>2. \A t \in Sinks \ {s} : stored'[t] = stored[t]
  BY SendBatchEffect
<1>3. stored[s] \in Seq(Nat) /\ sent[s] \in Seq(Nat)
  BY DEF OtherTypes
<1>4. (\A x \in ToSet(sent[s]), y \in ToSet(events) : x < y) /\ Ordered(events, n)
  BY <1>3, OrderedParts
<1> DEFINE a == stored[s]
           b == stored'[s]
<1>5. /\ Len(b) = Len(a) + Len(landed) /\ Len(a) \in Nat /\ Len(landed) \in Nat
      /\ DOMAIN landed = 1..Len(landed)
      /\ \A i \in (Len(a) + 1)..Len(b) : i - Len(a) \in 1..Len(landed) /\ b[i] = landed[i - Len(a)]
  <2> HIDE DEF a, b
  <2>1. b = a \o landed /\ a \in Seq(Nat)
    BY <1>1, <1>3 DEF a, b
  <2> QED BY <2>1, SMTT(30)
<1> HIDE DEF a, b
<1>6. ASSUME NEW i \in (Len(a) + 1)..Len(b)
      PROVE  /\ \A old \in ToSet(sent[s]) : old < b[i]
             /\ \A j \in (i + 1)..Len(b) : s \in Firehose \/ b[i] < b[j]
  <2>1. b[i] \in ToSet(events)
    BY <1>1, <1>5 DEF ToSet
  <2>2. ASSUME NEW j \in (i + 1)..Len(b), s \notin Firehose
        PROVE  b[i] < b[j]
    <3>1. j \in (Len(a) + 1)..Len(b) /\ i - Len(a) < j - Len(a)
      BY <1>5
    <3>2. landed = events
      <4>1. Len(landed) # 0
        BY <1>5
      <4> QED BY <1>1, <2>2, <4>1
    <3> QED BY <1>4, <1>5, <3>1, <3>2 DEF Ordered
  <2> QED BY <1>4, <2>1, <2>2
<1>7. NewlyStored(s)
  BY <1>6 DEF NewlyStored, a, b
<1> QED BY <1>2, <1>7

\* No sink sends a batch again, whatever came of it; only the attempts of one
\* call of Firehose's client store an event twice or out of order.
THEOREM StoredAlwaysInOrder == AuditSpec => StoredInOrder
<1>1. ASSUME AuditInv, [AuditNext]_auditVars
      PROVE  \A s \in Sinks : NewlyStored(s)
  <2>0. AuditTypes /\ OtherTypes /\ NothingLostUnderWay
    BY <1>1, TypesSplit DEF AuditInv
  <2>1. ASSUME NEW s \in Sinks, stored'[s] = stored[s]
        PROVE  NewlyStored(s)
    <3>1. (Len(stored[s]) + 1)..Len(stored'[s]) = {}
      <4>1. stored[s] \in Seq(Nat) /\ Len(stored[s]) \in Nat
        BY <2>0, LineTypes, LenProperties
      <4> QED BY <2>1, <4>1
    <3> QED BY <3>1 DEF NewlyStored
  <2>2. ASSUME NEW s \in Sinks, NEW events \in Seq(Nat), SendBatch(s, events),
               Ordered(sent[s] \o events, emitted)
        PROVE  \A t \in Sinks : NewlyStored(t)
    <3>1. emitted \in Nat
      BY <2>0 DEF OtherTypes
    <3>2. NewlyStored(s) /\ \A t \in Sinks \ {s} : stored'[t] = stored[t]
      BY <2>0, <2>2, <3>1, BatchStoredInOrder
    <3> QED BY <2>1, <3>2
  <2>3. CASE stored' = stored
    BY <2>1, <2>3
  <2>4. CASE DeliverToSink
    <3>1. next \in Sinks /\ current \in Nat /\ taskPc = "deliver" /\ send_batch(next, current)
      BY <2>0, <2>4 DEF OtherTypes, Sinks, DeliverToSink
    <3>2. PICK n \in Sinks : n = next
      BY <3>1
    <3>3. sent[n] \in Seq(Nat) /\ buffer[n] \in Seq(Nat) /\ queue \in Seq(Nat) /\ emitted \in Nat
      BY <2>0, LineTypes DEF OtherTypes
    <3>4. Append(buffer[n], current) \in Seq(Nat) /\ sent[n] \o Append(buffer[n], current) = Kept(n) \o <<current>>
          /\ sent[n] \o Append(buffer[n], current) \in Seq(Nat)
      BY <3>1, <3>3, KeptAppend DEF Kept
    <3>5. Line(n) = (Kept(n) \o <<current>>) \o queue
      <4>1. n \in Nat
        BY AuditAssumption DEF Sinks
      <4>2. InHand(n) = <<current>>
        BY <3>1, <3>2, <4>1 DEF InHand
      <4> QED BY <4>2 DEF Line
    <3> DEFINE events == Append(buffer[n], current)
               all == sent[n] \o events
    <3>6. Ordered(all \o queue, emitted) /\ all \in Seq(Nat) /\ events \in Seq(Nat)
      BY <1>1, <3>4, <3>5 DEF AuditInv, LinesOrdered
    <3>7. SendBatch(n, events) \/ stored' = stored
      BY <3>1, <3>2 DEF send_batch
    <3>8. Ordered(all, emitted)
      <4> HIDE DEF all
      <4> QED BY <3>3, <3>6, OrderedParts
    <3> HIDE DEF events
    <3> QED BY <2>2, <2>3, <3>6, <3>7, <3>8
  <2>5. CASE FlushSink
    <3>1. next \in Sinks /\ taskPc = "flush"
      BY <2>0, <2>5 DEF OtherTypes, Sinks, FlushSink
    <3>2. PICK n \in Sinks : n = next
      BY <3>1
    <3>3. /\ sent[n] \in Seq(Nat) /\ buffer[n] \in Seq(Nat) /\ queue \in Seq(Nat) /\ emitted \in Nat
          /\ Kept(n) \in Seq(Nat)
      BY <2>0, LineTypes DEF OtherTypes
    <3>4. Line(n) = Kept(n) \o queue
      BY <3>1, <3>3, LineEmptyHand DEF Line, InHand
    <3>5. Ordered(Kept(n), emitted)
      BY <1>1, <3>3, <3>4, OrderedParts DEF AuditInv, LinesOrdered
    <3>6. SendBatch(n, buffer[n]) \/ stored' = stored
      BY <2>5, <3>2 DEF FlushSink, sinkVars
    <3> QED BY <2>2, <2>3, <3>3, <3>5, <3>6 DEF Kept
  <2>6. stored' = stored \/ DeliverToSink \/ FlushSink
    BY <1>1 DEF AuditNext, TaskStep, EmitAccepted, EmitFull, EmitClosed, Receive, SeeShutdown, ChannelClosed,
       DrainEnds, TaskReturns, CallShutdown, ShutdownReturns, ShutdownTimesOut, DropService, ProcessExits,
       auditVars, sinkVars
  <2> QED BY <2>3, <2>4, <2>5, <2>6
<1>2. ASSUME AuditInv, [AuditNext]_auditVars
      PROVE  [\A s \in Sinks : \A i \in (Len(stored[s]) + 1)..Len(stored'[s]) :
                 /\ \A old \in ToSet(sent[s]) : old < stored'[s][i]
                 /\ \A j \in (i + 1)..Len(stored'[s]) :
                        s \in Firehose \/ stored'[s][i] < stored'[s][j]]_auditVars
  BY <1>1, <1>2 DEF NewlyStored
<1> QED BY <1>2, AuditInvariant, PTL DEF AuditSpec, StoredInOrder

\* A shutdown that returns before its timeout has sent to every sink all that was
\* accepted before it was called, and the backends have it, but for errors
\* returned and the records that Firehose rejects.
THEOREM CleanShutdownAlwaysDelivers == AuditSpec => []CleanShutdownDelivers
<1>1. ASSUME AuditInv
      PROVE  CleanShutdownDelivers
  <2> SUFFICES ASSUME shutdown = "clean", NEW s \in Sinks
               PROVE  /\ buffer[s] = <<>>
                      /\ Len(sent[s]) >= atShutdown
                      /\ \A i \in 1..atShutdown :
                            /\ sent[s][i] = accepted[i]
                            /\ s \in failing \cup rejecting \/ accepted[i] \in ToSet(stored[s])
    BY DEF CleanShutdownDelivers
  <2>1. taskPc = "done" /\ buffer[s] = <<>>
    BY <1>1 DEF AuditInv, CleanMeansDone, FlushedSoFar
  <2>2. sent[s] \in Seq(Nat) /\ Len(sent[s]) \in Nat /\ atShutdown \in Nat
    BY <1>1, LineTypes, LenProperties DEF AuditInv, AuditTypes
  <2>3. Kept(s) = sent[s]
    BY <2>1, <2>2, LineEmptyHand DEF Kept
  <2>4. Len(sent[s]) >= atShutdown /\ \A i \in 1..atShutdown : sent[s][i] = accepted[i]
    BY <1>1, <2>1, <2>2, <2>3 DEF AuditInv, DrainedBeforeShutdown
  <2>5. \A i \in 1..atShutdown : sent[s][i] \in ToSet(sent[s])
    BY <2>2, <2>4 DEF ToSet
  <2>6. s \in failing \cup rejecting \/ ToSet(sent[s]) \subseteq ToSet(stored[s])
    BY <1>1 DEF AuditInv, NothingLostUnderWay, SentIsStored
  <2> QED BY <2>1, <2>4, <2>5, <2>6
<1> QED BY <1>1, AuditInvariant, PTL

-----------------------------------------------------------------------------
(* FileSink. *)

(***************************************************************************)
(* The inductive invariant.                                                 *)
(***************************************************************************)

\* The files F, and whether they hold the end of the events S, in order.
HereIn(F) == {n \in 0..max_files : F[n] # NoFile}
LinesIn(F) == UNION {ToSet(F[n]) : n \in HereIn(F)}

LogOf(F, S) ==
    /\ \A n \in HereIn(F) : F[n] \in Seq(Nat) /\ \A i, j \in DOMAIN F[n] : i < j => F[n][i] < F[n][j]
    /\ \A m, n \in HereIn(F) : m < n => \A old \in ToSet(F[n]), new \in ToSet(F[m]) : old < new
    /\ LinesIn(F) \subseteq S
    /\ \A e \in LinesIn(F) : \A later \in S : e <= later => later \in LinesIn(F)

\* The names that a file m is the first to follow, of the set P that is there.
Gaps(P, m) == {n \in 0..m : n \notin P}

\* Only a failed rotation leaves a gap.
GapsCounted(P, k) == \A m \in P : Cardinality(Gaps(P, m)) <= k

Received == ToSet(stored[File])

\* The writer has the newest file open; it is one name further with each failure.
HandleInv ==
    /\ handle \in 0..(max_files + 1) /\ failures \in Nat /\ handle <= failures
    /\ \A n \in HereIn(files) : handle <= n
    /\ handle <= max_files => handle \in HereIn(files)

LossCounted(F, S, k) == LinesIn(F) # S => Cardinality(HereIn(F)) + k >= max_files + 1

\* There is a place for each name.
Named(F) == F = [n \in 0..max_files |-> F[n]]

FileInv ==
    /\ Named(files)
    /\ HandleInv
    /\ GapsCounted(HereIn(files), failures)
    /\ LogOf(files, Received)
    /\ LossCounted(files, Received, failures)

(***************************************************************************)
(* What a rotation does to the set of files, to the lines, and a write to    *)
(* the newest of them.                                                      *)
(***************************************************************************)

ShiftedSet(P, j) == {n \in 0..max_files : IF n < j THEN n \in P ELSE n # j /\ n - 1 \in P}

\* The names in use and the gaps can be counted.
LEMMA SetsAreFinite ==
    ASSUME NEW P \in SUBSET (0..max_files)
    PROVE  /\ IsFiniteSet(P) /\ Cardinality(P) \in Nat
           /\ \A m \in 0..max_files : IsFiniteSet(Gaps(P, m)) /\ Cardinality(Gaps(P, m)) \in Nat
<1>1. max_files \in Nat
  BY FileAssumption
<1>2. \A m \in 0..max_files : IsFiniteSet(0..m)
  BY <1>1, FS_Interval
<1>3. IsFiniteSet(0..max_files)
  BY <1>1, FS_Interval
<1>4. IsFiniteSet(P)
  BY <1>3, FS_Subset
<1>5. ASSUME NEW m \in 0..max_files
      PROVE  IsFiniteSet(Gaps(P, m))
  BY <1>2, FS_Subset DEF Gaps
<1> QED
  BY <1>4, <1>5, FS_CardinalityType

\* With the oldest file in place, the gaps are all that is missing.
LEMMA FullButForGaps ==
    ASSUME NEW P \in SUBSET (0..max_files), NEW k \in Nat, GapsCounted(P, k), max_files \in P
    PROVE  Cardinality(P) + k >= max_files + 1
<1> DEFINE G == Gaps(P, max_files)
<1>1. max_files \in Nat /\ max_files \in 0..max_files
  BY FileAssumption
<1>2. IsFiniteSet(P) /\ IsFiniteSet(G) /\ Cardinality(P) \in Nat /\ Cardinality(G) \in Nat
  BY <1>1, SetsAreFinite
<1>3. P \cup G = 0..max_files /\ P \cap G = {}
  BY DEF Gaps
<1>4. Cardinality(0..max_files) = max_files + 1
  BY <1>1, FS_Interval
<1>5. Cardinality(P \cup G) = Cardinality(P) + Cardinality(G) - Cardinality(P \cap G)
  BY <1>2, FS_Union
<1>6. Cardinality(P \cap G) = 0
  BY <1>3, FS_EmptySet
<1>7. Cardinality(G) <= k
  BY DEF GapsCounted
<1>8. Cardinality(P \cup G) = max_files + 1
  BY <1>3, <1>4
<1> HIDE DEF G
<1> QED
  BY <1>1, <1>2, <1>5, <1>6, <1>7, <1>8

\* Renaming the files from j on costs at most one of them and opens one gap.
LEMMA ShiftCounts ==
    ASSUME NEW P \in SUBSET (0..max_files), NEW j \in 0..(max_files + 1), NEW k \in Nat, GapsCounted(P, k)
    PROVE  /\ GapsCounted(ShiftedSet(P, j), k + 1)
           /\ Cardinality(ShiftedSet(P, j)) + 1 >= Cardinality(P)
<1> DEFINE Q == ShiftedSet(P, j)
<1>0. max_files \in Nat /\ j \in Nat /\ Q \in SUBSET (0..max_files)
  BY FileAssumption DEF ShiftedSet
<1>1. ASSUME NEW m \in Q
      PROVE  Cardinality(Gaps(Q, m)) <= k + 1
  <2> DEFINE src == IF m < j THEN m ELSE m - 1
             A == Gaps(Q, m) \ {j}
             B == Gaps(P, src)
             f == [n \in A |-> IF n < j THEN n ELSE n - 1]
  <2>1. m \in 0..max_files /\ src \in P /\ src \in 0..max_files /\ m # j
    BY <1>0 DEF ShiftedSet
  <2>2. f \in [A -> B]
    <3> SUFFICES ASSUME NEW n \in A
                 PROVE  (IF n < j THEN n ELSE n - 1) \in B
      OBVIOUS
    <3>1. n \in 0..m /\ n \notin Q /\ n # j /\ n \in 0..max_files
      BY <1>0, <2>1 DEF Gaps
    <3>2. CASE n < j
      BY <1>0, <2>1, <3>1, <3>2 DEF Gaps, ShiftedSet
    <3>3. CASE ~(n < j)
      BY <1>0, <2>1, <3>1, <3>3 DEF Gaps, ShiftedSet
    <3> QED
      BY <3>2, <3>3
  <2>3. \A x, y \in A : f[x] = f[y] => x = y
    BY <1>0 DEF Gaps
  <2>4. f \in Injection(A, B)
    BY <2>2, <2>3 DEF Injection, IsInjective
  <2>5. IsFiniteSet(B) /\ Cardinality(B) <= k /\ Cardinality(B) \in Nat
    BY <2>1, SetsAreFinite DEF GapsCounted
  <2>6. IsFiniteSet(Gaps(Q, m)) /\ Cardinality(Gaps(Q, m)) \in Nat
    BY <1>0, <2>1, SetsAreFinite
  <2>7. Cardinality(A) <= Cardinality(B)
    BY <2>4, <2>5, FS_Injection
  <2>8. Cardinality(A) = IF j \in Gaps(Q, m) THEN Cardinality(Gaps(Q, m)) - 1 ELSE Cardinality(Gaps(Q, m))
    BY <2>6, FS_RemoveElement
  <2> HIDE DEF A, B, Q
  <2> QED
    BY <2>5, <2>6, <2>7, <2>8
<1>2. Cardinality(Q) + 1 >= Cardinality(P)
  <2> DEFINE A == P \ {max_files}
             f == [n \in A |-> IF n < j THEN n ELSE n + 1]
  <2>1. f \in [A -> Q]
    BY <1>0 DEF ShiftedSet
  <2>2. \A x, y \in A : f[x] = f[y] => x = y
    BY <1>0
  <2>3. f \in Injection(A, Q)
    BY <2>1, <2>2 DEF Injection, IsInjective
  <2>4. IsFiniteSet(P) /\ Cardinality(P) \in Nat /\ IsFiniteSet(Q) /\ Cardinality(Q) \in Nat
    BY <1>0, SetsAreFinite
  <2>5. Cardinality(A) <= Cardinality(Q)
    BY <2>3, <2>4, FS_Injection
  <2>6. Cardinality(A) = IF max_files \in P THEN Cardinality(P) - 1 ELSE Cardinality(P)
    BY <2>4, FS_RemoveElement
  <2> HIDE DEF A, Q
  <2> QED
    BY <2>4, <2>5, <2>6
<1> QED
  BY <1>1, <1>2 DEF GapsCounted

\* A rotation that opens a new log file closes the gap that it has made.
LEMMA RotateCounts ==
    ASSUME NEW P \in SUBSET (0..max_files), NEW k \in Nat, GapsCounted(P, k)
    PROVE  /\ GapsCounted(ShiftedSet(P, 0) \cup {0}, k)
           /\ Cardinality(ShiftedSet(P, 0) \cup {0}) >= Cardinality(P)
<1> DEFINE Q == ShiftedSet(P, 0)
           R == Q \cup {0}
<1>0. max_files \in Nat /\ Q \in SUBSET (0..max_files) /\ R \in SUBSET (0..max_files) /\ 0 \notin Q
  BY FileAssumption DEF ShiftedSet
<1>1. GapsCounted(Q, k + 1) /\ Cardinality(Q) + 1 >= Cardinality(P)
  BY <1>0, ShiftCounts
<1>2. ASSUME NEW m \in R
      PROVE  Cardinality(Gaps(R, m)) <= k
  <2>1. CASE m = 0
    <3>1. Gaps(R, m) = {}
      BY <2>1 DEF Gaps
    <3> QED
      BY <3>1, FS_EmptySet
  <2>2. CASE m # 0
    <3>1. m \in Q /\ m \in 0..max_files
      BY <1>0, <2>2
    <3>2. Gaps(R, m) = Gaps(Q, m) \ {0} /\ 0 \in Gaps(Q, m)
      BY <1>0, <3>1 DEF Gaps
    <3>3. IsFiniteSet(Gaps(Q, m)) /\ Cardinality(Gaps(Q, m)) \in Nat
      BY <1>0, <3>1, SetsAreFinite
    <3>4. Cardinality(Gaps(R, m)) = Cardinality(Gaps(Q, m)) - 1
      BY <3>2, <3>3, FS_RemoveElement
    <3>5. Cardinality(Gaps(Q, m)) <= k + 1
      BY <1>1, <3>1 DEF GapsCounted
    <3> QED
      BY <3>3, <3>4, <3>5
  <2> QED
    BY <2>1, <2>2
<1>3. Cardinality(R) = Cardinality(Q) + 1
  BY <1>0, SetsAreFinite, FS_AddElement
<1> QED
  BY <1>1, <1>2, <1>3 DEF GapsCounted

\* The files F with all from the jth on renamed.
ShiftedFiles(F, j) ==
    [n \in 0..max_files |-> IF n < j THEN F[n] ELSE IF n = j THEN NoFile ELSE F[n - 1]]

\* What is left is still the end of the log, and only the oldest file is lost.
LEMMA ShiftKeepsLog ==
    ASSUME NEW F, NEW S \in SUBSET Nat, LogOf(F, S), NEW j \in 0..(max_files + 1)
    PROVE  LET G == ShiftedFiles(F, j)
           IN  /\ HereIn(G) = ShiftedSet(HereIn(F), j)
               /\ LogOf(G, S)
               /\ LinesIn(G) # LinesIn(F) => max_files \in HereIn(F)
<1> DEFINE G == ShiftedFiles(F, j)
           src(n) == IF n < j THEN n ELSE n - 1
<1>0. max_files \in Nat /\ j \in Nat
  BY FileAssumption
<1>1. HereIn(G) = ShiftedSet(HereIn(F), j)
  BY <1>0 DEF HereIn, ShiftedSet, ShiftedFiles
<1>2. ASSUME NEW n \in HereIn(G)
      PROVE  n \in Nat /\ n # j /\ src(n) \in HereIn(F) /\ G[n] = F[src(n)]
  BY <1>0, <1>2 DEF HereIn, ShiftedFiles
<1>3. ASSUME NEW n \in HereIn(F), n # max_files \/ j > max_files
      PROVE  \E m \in HereIn(G) : G[m] = F[n]
  <2>1. CASE n < j
    <3>1. n \in HereIn(G) /\ G[n] = F[n]
      BY <1>0, <2>1 DEF HereIn, ShiftedFiles
    <3> QED
      BY <3>1
  <2>2. CASE ~(n < j)
    <3>1. n + 1 \in 0..max_files /\ ~(n + 1 < j) /\ n + 1 # j /\ (n + 1) - 1 = n
      BY <1>0, <1>3, <2>2 DEF HereIn
    <3>2. n + 1 \in HereIn(G) /\ G[n + 1] = F[n]
      BY <3>1 DEF HereIn, ShiftedFiles
    <3> QED
      BY <3>2
  <2> QED
    BY <2>1, <2>2
<1>4. LinesIn(G) \subseteq LinesIn(F)
  BY <1>2 DEF LinesIn
<1>5. \A n \in HereIn(G) : G[n] \in Seq(Nat) /\ \A i, k \in DOMAIN G[n] : i < k => G[n][i] < G[n][k]
  BY <1>2 DEF LogOf
<1>6. ASSUME NEW m \in HereIn(G), NEW n \in HereIn(G), m < n
      PROVE  \A old \in ToSet(G[n]), new \in ToSet(G[m]) : old < new
  <2>1. src(m) < src(n)
    BY <1>0, <1>2, <1>6
  <2> QED
    BY <1>2, <2>1 DEF LogOf
<1>7. ASSUME NEW e \in LinesIn(G), NEW later \in S, e <= later
      PROVE  later \in LinesIn(G)
  <2>1. PICK p \in HereIn(G) : e \in ToSet(G[p])
    BY DEF LinesIn
  <2>2. later \in LinesIn(F)
    BY <1>4, <1>7 DEF LogOf
  <2>3. PICK n \in HereIn(F) : later \in ToSet(F[n])
    BY <2>2 DEF LinesIn
  <2>4. n # max_files \/ j > max_files
    <3> SUFFICES ASSUME n = max_files, j <= max_files
                 PROVE  FALSE
      BY <1>0
    <3>1. src(p) < max_files /\ src(p) \in HereIn(F) /\ e \in ToSet(F[src(p)])
      BY <1>0, <1>2, <2>1 DEF HereIn
    <3>2. later < e
      BY <2>3, <3>1 DEF LogOf
    <3>3. e \in Nat /\ later \in Nat
      BY <1>4 DEF LogOf
    <3> QED
      BY <1>7, <3>2, <3>3
  <2>5. PICK m \in HereIn(G) : G[m] = F[n]
    BY <1>3, <2>4
  <2> QED
    BY <2>3, <2>5 DEF LinesIn
<1>8. LogOf(G, S)
  <2> HIDE DEF G
  <2> QED
    BY <1>4, <1>5, <1>6, <1>7 DEF LogOf
<1>9. ASSUME max_files \notin HereIn(F)
      PROVE  LinesIn(G) = LinesIn(F)
  <2>1. \A n \in HereIn(F) : \E m \in HereIn(G) : G[m] = F[n]
    BY <1>3, <1>9
  <2> HIDE DEF G
  <2>2. LinesIn(F) \subseteq LinesIn(G)
    BY <2>1 DEF LinesIn
  <2> QED
    BY <1>4, <2>2
<1> QED
  BY <1>1, <1>8, <1>9

\* The newest file h of F is replaced by the lines q: its own, and those of A,
\* which are later than all before.
Puts(F, S, h, A, q, G) ==
    /\ \A n \in 0..max_files : G[n] = IF n = h THEN q ELSE F[n]
    /\ S \in SUBSET Nat /\ LogOf(F, S)
    /\ h \in 0..max_files /\ \A n \in HereIn(F) : h <= n
    /\ A \in SUBSET Nat /\ \A x \in S, a \in A : x < a
    /\ q \in Seq(Nat) /\ \A i, j \in DOMAIN q : i < j => q[i] < q[j]
    /\ ToSet(q) = (IF h \in HereIn(F) THEN ToSet(F[h]) ELSE {}) \cup A

Extends(F, S, h, A, G) ==
    /\ HereIn(G) = HereIn(F) \cup {h} /\ LinesIn(G) = LinesIn(F) \cup A
    /\ LogOf(G, S \cup A)

\* Then the files still hold the end of the log, and the lines of A with it.
LEMMA PutKeepsLog ==
    ASSUME NEW F, NEW S, NEW h, NEW A, NEW q, NEW G, Puts(F, S, h, A, q, G)
    PROVE  Extends(F, S, h, A, G)
<1> USE DEF Puts
<1>0. max_files \in Nat /\ h \in Nat /\ q # NoFile
  BY FileAssumption
<1>2. HereIn(G) = HereIn(F) \cup {h}
  BY <1>0 DEF HereIn
<1>3. HereIn(F) \in SUBSET (0..max_files) /\ h \in HereIn(G) /\ G[h] = q
  BY <1>2 DEF HereIn
<1>4. \A n \in HereIn(F) : n # h => n \in HereIn(G) /\ G[n] = F[n]
  BY <1>2, <1>3
<1>5. LinesIn(G) = LinesIn(F) \cup A
  <2>1. ASSUME NEW e \in LinesIn(G)
        PROVE  e \in LinesIn(F) \cup A
    <3>1. PICK n \in HereIn(G) : e \in ToSet(G[n])
      BY DEF LinesIn
    <3> QED
      BY <1>2, <1>3, <1>4, <3>1 DEF LinesIn
  <2>2. ASSUME NEW e \in LinesIn(F)
        PROVE  e \in LinesIn(G)
    <3>1. PICK n \in HereIn(F) : e \in ToSet(F[n])
      BY DEF LinesIn
    <3>2. CASE n = h
      BY <1>3, <3>1, <3>2 DEF LinesIn
    <3>3. CASE n # h
      BY <1>4, <3>1, <3>3 DEF LinesIn
    <3> QED
      BY <3>2, <3>3
  <2>3. ToSet(q) \subseteq LinesIn(G)
    BY <1>3 DEF LinesIn
  <2> QED
    BY <2>1, <2>2, <2>3
<1>6. \A n \in HereIn(G) : G[n] \in Seq(Nat) /\ \A i, j \in DOMAIN G[n] : i < j => G[n][i] < G[n][j]
  <2>1. \A n \in HereIn(F) : F[n] \in Seq(Nat) /\ \A i, j \in DOMAIN F[n] : i < j => F[n][i] < F[n][j]
    BY DEF LogOf
  <2> QED
    BY <1>2, <1>3, <1>4, <2>1
<1>7. ASSUME NEW m \in HereIn(G), NEW n \in HereIn(G), m < n, NEW old \in ToSet(G[n]), NEW new \in ToSet(G[m])
      PROVE  old < new
  <2>1. n \in HereIn(F) /\ n # h /\ n \in Nat /\ m \in Nat
    BY <1>0, <1>2, <1>3, <1>7
  <2>2. old \in ToSet(F[n]) /\ old \in S
    BY <1>4, <1>7, <2>1 DEF LogOf, LinesIn
  <2>3. CASE m \in HereIn(F) /\ new \in ToSet(F[m])
    BY <1>7, <2>1, <2>2, <2>3 DEF LogOf
  <2>4. CASE ~(m \in HereIn(F) /\ new \in ToSet(F[m]))
    <3>1. m = h
      BY <1>2, <1>4, <1>7, <2>4
    <3>2. new \in A
      BY <1>3, <1>7, <2>4, <3>1
    <3> QED
      BY <2>2, <3>2
  <2> QED
    BY <2>3, <2>4
<1>8. ASSUME NEW e \in LinesIn(G), NEW later \in S \cup A, e <= later
      PROVE  later \in LinesIn(G)
  <2>1. CASE later \in A
    BY <1>5, <2>1
  <2>2. CASE later \notin A
    <3>1. later \in S /\ later \in Nat
      BY <2>2
    <3>2. e \in LinesIn(F)
      <4> SUFFICES ASSUME e \in A
                   PROVE  FALSE
        BY <1>5
      <4>1. later < e /\ e \in Nat
        BY <3>1
      <4> QED
        BY <1>8, <3>1, <4>1
    <3> QED
      BY <1>5, <1>8, <3>1, <3>2 DEF LogOf
  <2> QED
    BY <2>1, <2>2
<1>9. LinesIn(G) \subseteq S \cup A
  BY <1>5 DEF LogOf
<1>10. LogOf(G, S \cup A)
  BY <1>6, <1>7, <1>8, <1>9 DEF LogOf
<1> QED
  BY <1>2, <1>5, <1>10 DEF Extends

(***************************************************************************)
(* The steps of the file sink.                                              *)
(***************************************************************************)

\* A line at the end of an ordered file.
LEMMA AppendedLine ==
    ASSUME NEW x \in Seq(Nat), NEW e \in Nat, \A i, j \in DOMAIN x : i < j => x[i] < x[j], \A y \in ToSet(x) : y < e
    PROVE  /\ Append(x, e) \in Seq(Nat) /\ ToSet(Append(x, e)) = ToSet(x) \cup {e}
           /\ \A i, j \in DOMAIN Append(x, e) : i < j => Append(x, e)[i] < Append(x, e)[j]
<1> DEFINE y == Append(x, e)
<1>1. y \in Seq(Nat) /\ Len(y) = Len(x) + 1 /\ Len(x) \in Nat
  OBVIOUS
<1>2. y[Len(x) + 1] = e /\ \A i \in 1..Len(x) : y[i] = x[i]
  OBVIOUS
<1>3. DOMAIN x = 1..Len(x) /\ DOMAIN y = 1..(Len(x) + 1)
  OBVIOUS
<1> HIDE DEF y
<1>4. ToSet(y) = ToSet(x) \cup {e}
  <2>1. \A i \in 1..Len(x) : i \in 1..(Len(x) + 1)
    BY <1>1
  <2>2. Len(x) + 1 \in 1..(Len(x) + 1)
    BY <1>1
  <2>3. \A i \in 1..(Len(x) + 1) : i \in 1..Len(x) \/ i = Len(x) + 1
    BY <1>1
  <2> QED
    BY <1>2, <1>3, <2>1, <2>2, <2>3 DEF ToSet
<1>5. ASSUME NEW i \in DOMAIN y, NEW j \in DOMAIN y, i < j
      PROVE  y[i] < y[j]
  <2>1. i \in 1..Len(x)
    BY <1>1, <1>3, <1>5
  <2>2. CASE j = Len(x) + 1
    <3>1. y[i] \in ToSet(x)
      BY <1>2, <1>3, <2>1 DEF ToSet
    <3> QED
      BY <1>2, <2>2, <3>1
  <2>3. CASE j # Len(x) + 1
    <3>1. j \in 1..Len(x)
      BY <1>1, <1>3, <2>3
    <3> QED
      BY <1>2, <1>3, <1>5, <2>1, <3>1
  <2> QED
    BY <2>2, <2>3
<1> QED
  BY <1>1, <1>4, <1>5 DEF y

\* The file sink holds nothing back.
LEMMA FileBuffer ==
    ASSUME AuditInv
    PROVE  File \in Sinks /\ buffer[File] = <<>> /\ stored[File] \in Seq(Nat) /\ stored \in [Sinks -> Seq(Nat)]
<1>1. File \in Sinks /\ BatchSize[File] = 1
  BY FileAssumption
<1>2. buffer[File] \in Seq(Nat) /\ Len(buffer[File]) < 1 /\ stored[File] \in Seq(Nat) /\ stored \in [Sinks -> Seq(Nat)]
  BY <1>1 DEF AuditInv, AuditTypes
<1>3. buffer[File] = <<>>
  BY <1>2, EmptySeq
<1> QED
  BY <1>1, <1>2, <1>3

\* The event that the file sink is handed is later than all it has received.
LEMMA NewestEvent ==
    ASSUME AuditInv, next = File, DeliverToSink
    PROVE  /\ current \in Nat /\ Received \in SUBSET Nat /\ \A x \in Received : x < current
           /\ Received' = IF stored' = stored THEN Received ELSE Received \cup {current}
<1>1. taskPc = "deliver" /\ send_batch(File, current) /\ current \in Nat
  BY DEF DeliverToSink, AuditInv, AuditTypes
<1>2. /\ File \in Sinks \ Firehose /\ buffer[File] = <<>> /\ BatchSize[File] = 1
      /\ stored[File] \in Seq(Nat) /\ stored \in [Sinks -> Seq(Nat)]
      /\ sent[File] \in Seq(Nat) /\ queue \in Seq(Nat) /\ SinkCount \in Nat /\ emitted \in Nat
  BY FileBuffer, AuditAssumption, FileAssumption DEF AuditInv, AuditTypes
<1>3. Received \in SUBSET Nat /\ Received \subseteq ToSet(sent[File])
  <2>1. ToSet(stored[File]) \subseteq ToSet(sent[File])
    BY <1>2 DEF AuditInv, NothingLostUnderWay, SentIsStored
  <2>2. \A i \in DOMAIN stored[File] : stored[File][i] \in Nat
    BY <1>2
  <2> QED BY <2>1, <2>2 DEF Received, ToSet
<1>4. <<current>> \in Seq(Nat) /\ ToSet(<<current>>) = {current}
  <2>1. DOMAIN <<current>> = {1} /\ <<current>>[1] = current
    BY <1>1
  <2> QED BY <1>1, <2>1 DEF ToSet
<1>5. \A x \in Received : x < current
  <2>1. Kept(File) = sent[File]
    BY <1>2, LineEmptyHand DEF Kept
  <2>2. InHand(File) = <<current>>
    BY <1>1, <1>2 DEF InHand, Sinks
  <2>3. Line(File) = (sent[File] \o <<current>>) \o queue
    BY <2>1, <2>2 DEF Line
  <2>4. Ordered((sent[File] \o <<current>>) \o queue, emitted)
    BY <1>2, <2>3 DEF AuditInv, LinesOrdered
  <2>5. sent[File] \o <<current>> \in Seq(Nat)
    BY <1>2, <1>4, LineFlush
  <2>6. Ordered(sent[File] \o <<current>>, emitted)
    BY <1>2, <2>4, <2>5, OrderedParts
  <2>7. \A x \in ToSet(sent[File]), y \in ToSet(<<current>>) : x < y
    BY <1>2, <1>4, <2>6, OrderedParts
  <2> QED BY <1>3, <1>4, <2>7
<1>6. PICK landed \in {<<>>, <<current>>} : stored' = [stored EXCEPT ![File] = stored[File] \o landed]
  <2>1. Append(buffer[File], current) = <<current>> /\ Len(<<current>>) = 1
    BY <1>1, <1>2
  <2>2. SendBatch(File, <<current>>)
    BY <1>1, <1>2, <2>1 DEF send_batch
  <2> QED BY <1>2, <2>2 DEF SendBatch, Landings, Answer
<1>7. CASE landed = <<>>
  <2>1. stored[File] \o landed = stored[File]
    BY <1>2, <1>7, LineEmptyHand
  <2>2. stored' = stored
    BY <1>2, <1>6, <2>1
  <2> QED BY <1>1, <1>3, <1>5, <2>2 DEF Received
<1>8. CASE landed = <<current>>
  <2>1. stored'[File] = stored[File] \o <<current>>
    BY <1>2, <1>6, <1>8
  <2>2. Received' = Received \cup {current}
    <3>1. ToSet(stored[File] \o <<current>>) = ToSet(stored[File]) \cup {current}
      <4> DEFINE a == stored[File]
                 b == <<current>>
      <4>1. a \in Seq(Nat) /\ b \in Seq(Nat) /\ ToSet(b) = {current}
        BY <1>2, <1>4
      <4> HIDE DEF a, b
      <4>2. ToSet(a \o b) = ToSet(a) \cup ToSet(b)
        BY <4>1, MembersOfBoth
      <4>3. ToSet(a \o b) = ToSet(a) \cup {current}
        BY <4>1, <4>2
      <4> QED BY <4>3 DEF a, b
    <3> QED BY Zenon, <2>1, <3>1 DEF Received
  <2>3. stored' # stored
    <3>1. current \notin Received
      BY <1>1, <1>5
    <3> QED BY <2>2, <3>1 DEF Received
  <2> QED BY <1>1, <1>3, <1>5, <2>2, <2>3
<1> QED BY <1>6, <1>7, <1>8

\* The files after a step: those of F, a shift of them, or a shift with a new log
\* file.
LEMMA RotationCounted ==
    ASSUME FileInv, Received \in SUBSET Nat, NEW j \in 0..(max_files + 1)
    PROVE  LET G == Shifted(j)
           IN  /\ G = ShiftedFiles(files, j) /\ LogOf(G, Received)
               /\ HereIn(G) = ShiftedSet(HereIn(files), j)
               /\ LinesIn(G) # Received => Cardinality(HereIn(files)) + failures >= max_files + 1
<1> DEFINE G == Shifted(j)
<1>1. G = ShiftedFiles(files, j)
  BY DEF Shifted, ShiftedFiles, FileInv, Named
<1>2. LogOf(files, Received) /\ HereIn(files) \in SUBSET (0..max_files) /\ failures \in Nat
  BY DEF FileInv, HandleInv, HereIn
<1>3. /\ HereIn(G) = ShiftedSet(HereIn(files), j) /\ LogOf(G, Received)
      /\ LinesIn(G) # LinesIn(files) => max_files \in HereIn(files)
  BY <1>1, <1>2, ShiftKeepsLog
<1>4. max_files \in HereIn(files) => Cardinality(HereIn(files)) + failures >= max_files + 1
  BY <1>2, FullButForGaps DEF FileInv
<1> HIDE DEF G
<1> QED
  BY <1>1, <1>3, <1>4 DEF FileInv, LossCounted, G

\* A rotation that ends well leaves the lines q in a new log file.
LEMMA RotatedKeepsInv ==
    ASSUME FileInv, Received \in SUBSET Nat, NEW A \in SUBSET Nat, \A x \in Received, a \in A : x < a,
           NEW q \in Seq(Nat), \A i, j \in DOMAIN q : i < j => q[i] < q[j], ToSet(q) = A,
           Named(files'),
           \A n \in 0..max_files : files'[n] = IF n = 0 THEN q ELSE Shifted(0)[n],
           handle' = 0, failures' = failures, Received' = Received \cup A
    PROVE  FileInv'
<1> DEFINE P == HereIn(files)
<1>F. PICK F : F = Shifted(0)
  OBVIOUS
<1>0. max_files \in Nat /\ 0 \in 0..(max_files + 1) /\ 0 \in 0..max_files /\ failures \in Nat /\ P \in SUBSET (0..max_files)
  BY FileAssumption DEF FileInv, HandleInv, HereIn
<1>1. /\ F = ShiftedFiles(files, 0) /\ LogOf(F, Received) /\ HereIn(F) = ShiftedSet(P, 0)
      /\ LinesIn(F) # Received => Cardinality(P) + failures >= max_files + 1
  BY <1>0, <1>F, RotationCounted
<1>2. 0 \notin HereIn(F) /\ \A n \in HereIn(F) : 0 <= n
  BY <1>0, <1>1 DEF ShiftedFiles, HereIn
<1>3. /\ HereIn(files') = HereIn(F) \cup {0} /\ LinesIn(files') = LinesIn(F) \cup A
      /\ LogOf(files', Received \cup A)
  <2>1. ToSet(q) = (IF 0 \in HereIn(F) THEN ToSet(F[0]) ELSE {}) \cup A
    BY <1>2
  <2>2. \A n \in 0..max_files : files'[n] = IF n = 0 THEN q ELSE F[n]
    BY <1>F
  <2>3. Puts(F, Received, 0, A, q, files')
    BY <1>0, <1>1, <1>2, <2>1, <2>2 DEF Puts
  <2>4. Extends(F, Received, 0, A, files')
    BY <2>3, PutKeepsLog
  <2> QED
    BY <2>4 DEF Extends
<1>4. GapsCounted(HereIn(files'), failures) /\ Cardinality(HereIn(files')) >= Cardinality(P)
  BY <1>0, <1>1, <1>3, RotateCounts DEF FileInv
<1>5. Cardinality(P) \in Nat /\ Cardinality(HereIn(files')) \in Nat
  <2>1. HereIn(files') \in SUBSET (0..max_files)
    BY DEF HereIn
  <2> QED
    BY <1>0, <2>1, SetsAreFinite
<1>6. LossCounted(files', Received', failures)
  BY <1>0, <1>1, <1>3, <1>4, <1>5 DEF LossCounted
<1>8. HandleInv'
  BY <1>0, <1>3 DEF HandleInv, HereIn
<1> QED
  BY <1>3, <1>4, <1>6, <1>8 DEF FileInv, GapsCounted, Gaps, LogOf, LossCounted, LinesIn, HereIn, Named

\* A rotation that fails opens a gap at most, and takes the handle along.
LEMMA FailedKeepsInv ==
    ASSUME FileInv, Received \in SUBSET Nat, NEW j \in 0..(max_files + 1),
           files' = Shifted(j), handle' = Moved(j), failures' = failures + 1, Received' = Received
    PROVE  FileInv'
<1> DEFINE P == HereIn(files)
<1>0. /\ max_files \in Nat /\ j \in Nat /\ handle \in Nat /\ failures \in Nat
      /\ P \in SUBSET (0..max_files) /\ Cardinality(P) \in Nat
  <2>1. P \in SUBSET (0..max_files)
    BY DEF HereIn
  <2> QED
    BY <2>1, FileAssumption, SetsAreFinite DEF FileInv, HandleInv
<1>1. /\ files' = ShiftedFiles(files, j) /\ LogOf(files', Received)
      /\ HereIn(files') = ShiftedSet(P, j)
      /\ LinesIn(files') # Received => Cardinality(P) + failures >= max_files + 1
  BY RotationCounted
<1>2. Named(files')
  BY <1>1 DEF ShiftedFiles, Named
<1>3. GapsCounted(HereIn(files'), failures + 1) /\ Cardinality(HereIn(files')) + 1 >= Cardinality(P)
  BY <1>0, <1>1, ShiftCounts DEF FileInv
<1>4. Cardinality(HereIn(files')) \in Nat
  <2>1. HereIn(files') \in SUBSET (0..max_files)
    BY DEF HereIn
  <2> QED
    BY <2>1, SetsAreFinite
<1>5. LossCounted(files', Received, failures + 1)
  BY <1>0, <1>1, <1>3, <1>4 DEF LossCounted
<1>6. HandleInv'
  <2> DEFINE Q == ShiftedSet(P, j)
  <2>1. handle \in 0..(max_files + 1) /\ handle <= failures /\ \A n \in P : handle <= n
    BY DEF FileInv, HandleInv
  <2>2. handle <= max_files => handle \in P
    BY DEF FileInv, HandleInv
  <2>3. handle' \in 0..(max_files + 1) /\ handle' <= failures + 1
    BY <1>0, <2>1 DEF Moved
  <2>4. \A n \in Q : handle' <= n
    BY <1>0, <2>1 DEF Moved, ShiftedSet
  <2>5. handle' <= max_files => handle' \in Q
    BY <1>0, <2>1, <2>2 DEF Moved, ShiftedSet
  <2>6. HereIn(files)' = Q
    BY <1>1 DEF HereIn
  <2> HIDE DEF Q
  <2> QED
    BY <1>0, <2>3, <2>4, <2>5, <2>6 DEF HandleInv
<1> QED
  BY <1>1, <1>2, <1>3, <1>5, <1>6 DEF FileInv, GapsCounted, Gaps, LogOf, LossCounted, LinesIn, HereIn, Named

\* The parts of the invariant, of the files after the step.
LEMMA InvAfter ==
    ASSUME HandleInv', Named(files'), LogOf(files', Received'), GapsCounted(HereIn(files'), failures'),
           LossCounted(files', Received', failures')
    PROVE  FileInv'
BY DEF FileInv, GapsCounted, Gaps, LogOf, LossCounted, LinesIn, HereIn, Named

\* A line that fits goes to the end of the open file, or nowhere if it is gone.
LEMMA WrittenKeepsInv ==
    ASSUME FileInv, Received \in SUBSET Nat, NEW e \in Nat, \A x \in Received : x < e,
           files' = IF handle \in DOMAIN files THEN [files EXCEPT ![handle] = Append(@, e)] ELSE files,
           handle' = handle, failures' = failures, Received' = Received \cup {e}
    PROVE  FileInv'
<1>F. PICK F : F = files'
  OBVIOUS
<1>0. /\ max_files \in Nat /\ handle \in 0..(max_files + 1) /\ failures \in Nat /\ handle <= failures
      /\ \A n \in HereIn(files) : handle <= n
      /\ handle <= max_files => handle \in HereIn(files)
  BY FileAssumption DEF FileInv, HandleInv
<1>1. DOMAIN files = 0..max_files /\ Named(files) /\ LogOf(files, Received)
  BY DEF FileInv, Named
<1>2. CASE handle \in 0..max_files
  <2> DEFINE q == Append(files[handle], e)
             h == handle
  <2>1. h \in HereIn(files) /\ h \in Nat
    BY <1>0, <1>2
  <2>2. files[h] \in Seq(Nat) /\ \A i, j \in DOMAIN files[h] : i < j => files[h][i] < files[h][j]
    BY <1>1, <2>1 DEF LogOf
  <2>3. ToSet(files[h]) \subseteq LinesIn(files) /\ LinesIn(files) \subseteq Received
    BY <1>1, <2>1 DEF LogOf, LinesIn
  <2>4. /\ q \in Seq(Nat) /\ ToSet(q) = ToSet(files[h]) \cup {e}
        /\ \A i, j \in DOMAIN q : i < j => q[i] < q[j]
    BY <2>2, <2>3, AppendedLine
  <2>5. Named(F) /\ \A n \in 0..max_files : F[n] = IF n = h THEN q ELSE files[n]
    BY <1>F, <1>1, <1>2 DEF Named
  <2> HIDE DEF q, h
  <2>6. {e} \in SUBSET Nat /\ \A x \in Received, a \in {e} : x < a
    OBVIOUS
  <2>7. ToSet(q) = (IF h \in HereIn(files) THEN ToSet(files[h]) ELSE {}) \cup {e}
    BY <2>1, <2>4
  <2>8. h \in 0..max_files /\ \A n \in HereIn(files) : h <= n
    BY <1>0, <1>2 DEF h
  <2>9. Puts(files, Received, h, {e}, q, F)
    BY <1>1, <2>4, <2>5, <2>6, <2>7, <2>8 DEF Puts
  <2>10. Extends(files, Received, h, {e}, F)
    BY <2>9, PutKeepsLog
  <2>11. HereIn(F) = HereIn(files) /\ LinesIn(F) = LinesIn(files) \cup {e} /\ LogOf(F, Received \cup {e})
    BY <2>1, <2>10 DEF Extends
  <2>12. LossCounted(F, Received \cup {e}, failures)
    BY <2>11 DEF FileInv, LossCounted
  <2>13. GapsCounted(HereIn(F), failures)
    BY <2>11 DEF FileInv
  <2>14. HandleInv'
    <3>1. HereIn(files)' = HereIn(files)
      BY <1>F, <2>11 DEF HereIn
    <3> QED
      BY <1>0, <3>1 DEF HandleInv
  <2>15. LogOf(files', Received') /\ LossCounted(files', Received', failures') /\ GapsCounted(HereIn(files'), failures')
    BY Zenon, <1>F, <2>11, <2>12, <2>13
  <2>16. Named(files')
    BY Zenon, <1>F, <2>5
  <2> QED
    BY <2>14, <2>15, <2>16, InvAfter
<1>3. CASE handle \notin 0..max_files
  <2>1. handle = max_files + 1 /\ files' = files
    BY <1>0, <1>1, <1>3
  <2>2. HereIn(files) = {} /\ LinesIn(files) = {}
    <3>1. \A n \in HereIn(files) : n \in 0..max_files
      BY DEF HereIn
    <3>2. HereIn(files) = {}
      BY <1>0, <2>1, <3>1
    <3> QED
      BY <3>2 DEF LinesIn
  <2>3. LogOf(files, Received') /\ GapsCounted(HereIn(files), failures)
    BY <2>2 DEF LogOf, GapsCounted
  <2>4. Cardinality(HereIn(files)) = 0
    BY <2>2, FS_EmptySet
  <2>5. LossCounted(files, Received', failures)
    BY <1>0, <2>1, <2>4 DEF LossCounted
  <2>6. HandleInv'
    BY <1>0, <2>1 DEF HandleInv, HereIn
  <2>7. /\ LogOf(files', Received') /\ LossCounted(files', Received', failures') /\ GapsCounted(HereIn(files'), failures')
        /\ Named(files')
    BY Zenon, <1>1, <2>1, <2>3, <2>5
  <2> QED
    BY <2>6, <2>7, InvAfter
<1> QED
  BY <1>2, <1>3

\* Nothing that the file sink keeps changes.
LEMMA IdleKeepsFiles ==
    ASSUME FileInv, UNCHANGED fileVars, Received' = Received
    PROVE  FileInv'
<1>1. UNCHANGED <<files, handle, failures>>
  BY DEF fileVars
<1> QED
  BY <1>1 DEF FileInv, HandleInv, GapsCounted, Gaps, LogOf, LossCounted, LinesIn, HereIn, Named

\* A call of the file sink, whichever way it ends.
LEMMA DeliverKeepsFiles ==
    ASSUME AuditInv, FileInv, DeliverToFile
    PROVE  FileInv'
<1>0. /\ current \in Nat /\ Received \in SUBSET Nat /\ \A x \in Received : x < current
      /\ Received' = IF stored' = stored THEN Received ELSE Received \cup {current}
  BY NewestEvent DEF DeliverToFile
<1>1. WriteLine(current) \/ RotateAndWrite(current) \/ RotateFails(current) \/ WriteFails(current)
  BY DEF DeliverToFile
<1>2. 0 \in 0..max_files /\ DOMAIN Shifted(0) = 0..max_files
  BY FileAssumption DEF FileInv, Named, Shifted
<1>3. CASE WriteLine(current)
  <2>1. /\ files' = IF handle \in DOMAIN files THEN [files EXCEPT ![handle] = Append(@, current)] ELSE files
        /\ handle' = handle /\ failures' = failures /\ stored' # stored
    BY <1>3 DEF WriteLine
  <2> QED
    BY <1>0, <2>1, WrittenKeepsInv
<1>4. ASSUME NEW A \in SUBSET Nat, NEW q \in Seq(Nat), (A = {} /\ q = <<>>) \/ (A = {current} /\ q = <<current>>),
             files' = [Shifted(0) EXCEPT ![0] = q], handle' = 0, failures' = failures, Received' = Received \cup A
      PROVE  FileInv'
  <2>1. ToSet(q) = A /\ \A i, j \in DOMAIN q : i < j => q[i] < q[j]
    <3>1. CASE q = <<>> /\ A = {}
      BY <3>1 DEF ToSet
    <3>2. CASE q = <<current>> /\ A = {current}
      <4>1. DOMAIN q = {1} /\ q[1] = current
        BY <1>0, <3>2
      <4> QED
        BY <3>2, <4>1 DEF ToSet
    <3> QED
      BY <1>4, <3>1, <3>2
  <2>2. \A x \in Received, a \in A : x < a
    BY <1>0, <1>4
  <2>3. Named(files') /\ \A n \in 0..max_files : files'[n] = IF n = 0 THEN q ELSE Shifted(0)[n]
    BY <1>2, <1>4 DEF Named
  <2> QED
    BY <1>0, <1>4, <2>1, <2>2, <2>3, RotatedKeepsInv
<1>5. CASE RotateAndWrite(current)
  <2>1. /\ files' = [Shifted(0) EXCEPT ![0] = <<current>>] /\ handle' = 0 /\ failures' = failures
        /\ Received' = Received \cup {current}
    BY <1>0, <1>5 DEF RotateAndWrite
  <2>2. {current} \in SUBSET Nat /\ <<current>> \in Seq(Nat)
    BY <1>0
  <2> QED
    BY <1>4, <2>1, <2>2
<1>6. CASE RotateFails(current)
  <2>1. PICK j \in 0..(max_files + 1) : files' = Shifted(j) /\ handle' = Moved(j)
    BY <1>6 DEF RotateFails
  <2>2. failures' = failures + 1 /\ Received' = Received
    BY <1>0, <1>6 DEF RotateFails
  <2> QED
    BY <1>0, <2>1, <2>2, FailedKeepsInv
<1>7. CASE WriteFails(current)
  <2>1. Received' = Received \cup {} /\ Received' = Received /\ failures' = failures
    BY <1>0, <1>7 DEF WriteFails
  <2>2. CASE TooLong(current)
    <3>1. files' = [Shifted(0) EXCEPT ![0] = <<>>] /\ handle' = 0
      BY <1>7, <2>2 DEF WriteFails
    <3>2. {} \in SUBSET Nat /\ <<>> \in Seq(Nat)
      OBVIOUS
    <3> QED
      BY Zenon, <1>4, <2>1, <3>1, <3>2
  <2>3. CASE ~TooLong(current)
    BY <1>7, <2>1, <2>3, IdleKeepsFiles DEF WriteFails, fileVars
  <2> QED
    BY <2>2, <2>3
<1> QED
  BY <1>1, <1>3, <1>5, <1>6, <1>7

\* No other step gives the file sink anything.
LEMMA OthersKeepReceived ==
    ASSUME AuditInv,
           \/ UNCHANGED stored
           \/ next # File /\ DeliverToSink
           \/ FlushSink
    PROVE  Received' = Received
<1>0. /\ File \in Sinks /\ buffer[File] = <<>> /\ stored \in [Sinks -> Seq(Nat)]
      /\ next \in Sinks
  BY FileBuffer DEF AuditInv, AuditTypes, Sinks
<1>1. CASE UNCHANGED stored
  BY <1>1 DEF Received
<1>2. CASE next # File /\ DeliverToSink
  <2>1. send_batch(next, current)
    BY <1>2 DEF DeliverToSink
  <2>2. stored' = stored \/ SendBatch(next, Append(buffer[next], current))
    BY <2>1 DEF send_batch
  <2>3. stored'[File] = stored[File]
    BY <1>0, <1>2, <2>2 DEF SendBatch, Answer
  <2> QED
    BY <2>3 DEF Received
<1>3. CASE FlushSink
  <2>1. stored'[File] = stored[File]
    <3>1. CASE buffer[next] = <<>>
      BY <1>3, <3>1 DEF FlushSink, sinkVars
    <3>2. CASE buffer[next] # <<>>
      <4>1. SendBatch(next, buffer[next]) /\ next # File
        BY <1>0, <1>3, <3>2 DEF FlushSink
      <4> QED
        BY <1>0, <4>1 DEF SendBatch, Answer
    <3> QED
      BY <3>1, <3>2
  <2> QED
    BY <2>1 DEF Received
<1> QED
  BY <1>1, <1>2, <1>3

\* The file sink is one of the service's: each of its steps is one of the service.
THEOREM FilesRefineAudit == FileSpec => AuditSpec
<1>1. FileInit => AuditInit
  BY DEF FileInit
<1>2. [FileNext]_allVars => [AuditNext]_auditVars
  BY DEF FileNext, FileTaskStep, FileCallerStep, DeliverToFile, allVars, AuditNext, TaskStep
<1> QED
  BY <1>1, <1>2, PTL DEF FileSpec, AuditSpec

\* The handle follows the renames, and each failed rotation accounts for one gap.
THEOREM FileInvariant == FileSpec => []FileInv
<1>1. FileInit => FileInv
  <2> SUFFICES ASSUME FileInit
               PROVE  FileInv
    OBVIOUS
  <2>1. /\ max_files \in Nat /\ max_files >= 1 /\ File \in Sinks /\ NoFile # <<>>
        /\ files = [n \in 0..max_files |-> IF n = 0 THEN <<>> ELSE NoFile]
        /\ handle = 0 /\ failures = 0 /\ stored[File] = <<>>
    <3>1. max_files \in Nat /\ max_files >= 1 /\ File \in Sinks
      BY FileAssumption
    <3>2. NoFile # <<>>
      <4>1. <<>> \in Seq(Nat)
        OBVIOUS
      <4> QED BY <4>1, FileAssumption
    <3>3. stored[File] = <<>>
      BY <3>1 DEF FileInit, AuditInit
    <3> QED BY <3>1, <3>2, <3>3 DEF FileInit
  <2>2. Received = {}
    BY <2>1 DEF Received, ToSet
  <2>3. HereIn(files) = {0} /\ files[0] = <<>>
    BY <2>1 DEF HereIn
  <2>4. LinesIn(files) = {}
    BY <2>3 DEF LinesIn, ToSet
  <2>5. Named(files) /\ HandleInv
    BY <2>1, <2>3 DEF Named, HandleInv
  <2>6. Gaps({0}, 0) = {}
    BY DEF Gaps
  <2>7. GapsCounted(HereIn(files), failures)
    BY <2>1, <2>3, <2>6, FS_EmptySet DEF GapsCounted
  <2>8. LogOf(files, Received)
    <3>1. \A n \in {0} : files[n] \in Seq(Nat) /\ \A i, j \in DOMAIN files[n] : i < j => files[n][i] < files[n][j]
      <4>1. <<>> \in Seq(Nat) /\ DOMAIN <<>> = {}
        OBVIOUS
      <4> QED
        BY Zenon, <2>3, <4>1
    <3>2. \A m, n \in {0} : ~(m < n)
      OBVIOUS
    <3> QED
      BY <2>2, <2>3, <2>4, <3>1, <3>2 DEF LogOf
  <2>9. LossCounted(files, Received, failures)
    BY <2>2, <2>4 DEF LossCounted
  <2> QED
    BY <2>5, <2>7, <2>8, <2>9 DEF FileInv
<1>2. AuditInv /\ FileInv /\ [FileNext]_allVars => FileInv'
  <2> SUFFICES ASSUME AuditInv, FileInv, [FileNext]_allVars
               PROVE  FileInv'
    OBVIOUS
  <2>1. CASE DeliverToFile
    BY <2>1, DeliverKeepsFiles
  <2>2. CASE UNCHANGED fileVars /\ (UNCHANGED stored \/ FlushSink \/ (next # File /\ DeliverToSink))
    BY <2>2, OthersKeepReceived, IdleKeepsFiles
  <2>3. Receive \/ SeeShutdown \/ ChannelClosed \/ DrainEnds \/ TaskReturns => UNCHANGED stored
    BY DEF Receive, SeeShutdown, ChannelClosed, DrainEnds, TaskReturns, sinkVars
  <2>4. FileCallerStep => UNCHANGED stored
    BY DEF FileCallerStep, EmitAccepted, EmitFull, EmitClosed, CallShutdown, ShutdownReturns, ShutdownTimesOut,
           DropService, ProcessExits, sinkVars
  <2>5. CASE FileTaskStep
    BY Zenon, <2>1, <2>2, <2>3, <2>5 DEF FileTaskStep
  <2>6. CASE FileCallerStep
    BY Zenon, <2>2, <2>4, <2>6 DEF FileCallerStep
  <2>7. CASE UNCHANGED allVars
    <3>1. UNCHANGED fileVars /\ UNCHANGED stored
      BY <2>7 DEF allVars, auditVars, sinkVars
    <3> QED
      BY Zenon, <2>2, <3>1
  <2> QED
    BY <2>5, <2>6, <2>7 DEF FileNext
<1>3. FileSpec => []AuditInv
  BY FilesRefineAudit, AuditInvariant, PTL
<1> QED
  BY <1>1, <1>2, <1>3, PTL DEF FileSpec

\* Whichever rename failed and wherever the handle has gone, what the files hold
\* is the end of what the sink was given, in its order, and a failed rotation has
\* cost at most one of the files that the operator asked for (FileSink::rotate).
THEOREM RotationAlwaysKeepsNewest == FileSpec => []RotationKeepsNewest
<1>1. FileInv => RotationKeepsNewest
  <2> SUFFICES ASSUME FileInv
               PROVE  RotationKeepsNewest
    OBVIOUS
  <2>1. Present = HereIn(files)
    BY DEF FileInv, Named, Present, HereIn
  <2>2. Logged = LinesIn(files)
    BY <2>1 DEF Logged, LinesIn
  <2>3. LogOf(files, Received) /\ LossCounted(files, Received, failures)
    BY DEF FileInv
  <2> QED
    BY <2>1, <2>2, <2>3 DEF RotationKeepsNewest, LogOf, LossCounted, Received
<1> QED
  BY <1>1, FileInvariant, PTL
=============================================================================
