----------------------------- MODULE KeyManager -----------------------------
(***************************************************************************)
(* KmsDelegatedKeyManager: ephemeral signing keys attested by KMS, rotated  *)
(* while tokens are being issued and verified.  The active key, the         *)
(* previous keys and the cached JWKS sit behind three locks, so an issuer   *)
(* and a reader of /jwks.json can run between the writes of a rotation.     *)
(*                                                                         *)
(* Time is a counter.  A key pair is identified by the serial number of its *)
(* record and by the process (boot) that generated its private key, which   *)
(* is never persisted: its kid is the pair of the two.                      *)
(***************************************************************************)
EXTENDS Naturals

CONSTANTS
    RotationInterval,   \* rotation_interval
    KeyOverlap,         \* key_overlap
    TokenTtl,           \* ttl_secs of the issuer, with the verifiers' leeway
    None,               \* nothing under way
    MaxTime,            \* bound on the clock
    MaxKeys,            \* bound on the keys generated
    MaxBoots            \* bound on the restarts

ASSUME KeyAssumption ==
    /\ RotationInterval \in Nat \ {0}
    /\ KeyOverlap \in Nat \ {0}
    /\ TokenTtl \in Nat \ {0}
    /\ MaxTime \in Nat
    /\ MaxKeys \in Nat \ {0}
    /\ MaxBoots \in Nat

\* The configuration leaves room for a token signed by the oldest key that
\* health still calls Healthy (6h, 24h and minutes by default).
ASSUME OverlapAssumption == 2 * RotationInterval + TokenTtl <= KeyOverlap

VARIABLES
    now,        \* Utc::now()
    active,     \* active_key
    previous,   \* previous_keys
    jwks,       \* cached_jwks: the kids it lists
    records,    \* the ephemeral key records in the DataStore
    rotPc,      \* where maybe_rotate is
    newKey,     \* new_state of the rotation under way
    before,     \* the instant cleanup_expired_keys took at its start
    serial,     \* keys generated so far
    boot,       \* restarts so far
    issuing,    \* the token whose header has been read but is not yet signed
    tokens      \* history: the tokens issued that have not expired

vars == <<now, active, previous, jwks, records, rotPc, newKey, before,
          serial, boot, issuing, tokens>>

Kid == Nat \X Nat
EphemeralKey == [kid : Kid, created_at : Nat, expires_at : Nat]
Token == [kid : Kid, exp : Nat, healthy : BOOLEAN, boot : Nat]
SignedToken == [kid : Kid, exp : Nat, healthy : BOOLEAN, boot : Nat, signer : Kid]

ASSUME NoneAssumption == None \notin EphemeralKey \cup Token

TypeOK ==
    /\ now \in Nat
    /\ active \in EphemeralKey
    /\ previous \subseteq EphemeralKey
    /\ jwks \subseteq Kid
    /\ records \subseteq EphemeralKey
    /\ rotPc \in {"idle", "kms", "persist", "swap", "purge", "rebuild"}
    /\ newKey \in EphemeralKey \cup {None}
    /\ before \in Nat
    /\ serial \in Nat
    /\ boot \in Nat
    /\ issuing \in Token \cup {None}
    /\ tokens \subseteq SignedToken

-----------------------------------------------------------------------------
(* Helpers of kms_delegated.rs. *)

\* The overlap is counted from the creation of the key.
generate_ephemeral_key(n, b) ==
    [kid |-> <<n, b>>, created_at |-> now, expires_at |-> now + KeyOverlap]

\* Only the timestamps come back: the key pair is generated anew.
record_to_ephemeral_key(rec, b) ==
    [kid |-> <<rec.kid[1], b>>, created_at |-> rec.created_at, expires_at |-> rec.expires_at]

build_jwks(a, prev) == {a.kid} \cup {k.kid : k \in {p \in prev : p.expires_at > now}}

Healthy == now - active.created_at <= 2 * RotationInterval

RotationDue == now - active.created_at >= RotationInterval

-----------------------------------------------------------------------------
(* KmsDelegatedKeyManager::new on an empty DataStore. *)
Init ==
    /\ now = 0
    /\ active = generate_ephemeral_key(1, 0)
    /\ previous = {}
    /\ jwks = {<<1, 0>>}
    /\ records = {active}
    /\ rotPc = "idle"
    /\ newKey = None
    /\ before = 0
    /\ serial = 1
    /\ boot = 0
    /\ issuing = None
    /\ tokens = {}

(* maybe_rotate, one action per await or lock. *)

MaybeRotate ==
    /\ rotPc = "idle"
    /\ RotationDue
    /\ serial < MaxKeys
    /\ rotPc' = "kms"
    /\ UNCHANGED <<now, active, previous, jwks, records, newKey, serial, boot,
                   issuing, tokens, before>>

KmsAttests ==
    /\ rotPc = "kms"
    /\ newKey' = generate_ephemeral_key(serial + 1, boot)
    /\ rotPc' = "persist"
    /\ UNCHANGED <<now, active, previous, jwks, records, serial, boot, issuing,
                   tokens, before>>

\* Mutant: the error is swallowed and the rotation goes on without a key.
FailureSwallowed ==
    /\ rotPc \in {"kms", "persist"}
    /\ newKey' = None
    /\ rotPc' = "swap"
    /\ UNCHANGED <<now, active, previous, jwks, records, serial, boot, issuing,
                   tokens, before>>

\* KMS or the DataStore fails: the current key stays.
RotationFails ==
    /\ rotPc \in {"kms", "persist"}
    /\ newKey' = None
    /\ rotPc' = "idle"
    /\ UNCHANGED <<now, active, previous, jwks, records, serial, boot, issuing,
                   tokens, before>>

\* Mutant: the record is never written.
NotPersisted ==
    /\ rotPc = "persist"
    /\ serial' = serial + 1
    /\ rotPc' = "swap"
    /\ UNCHANGED <<now, active, previous, jwks, records, newKey, boot, issuing, tokens, before>>

PersistNewKey ==
    /\ rotPc = "persist"
    /\ records' = records \cup {newKey}
    /\ serial' = serial + 1
    /\ rotPc' = "swap"
    /\ UNCHANGED <<now, active, previous, jwks, newKey, boot, issuing, tokens, before>>

\* Mutant: the old key is dropped at once.
OldKeyDropped ==
    /\ rotPc = "swap"
    /\ active' = newKey
    /\ previous' = {k \in previous : k.expires_at > now}
    /\ newKey' = None
    /\ before' = now
    /\ rotPc' = "purge"
    /\ UNCHANGED <<now, jwks, records, serial, boot, issuing, tokens>>

\* The swap under both write locks, and the in-memory half of
\* cleanup_expired_keys, which no other thread can tell apart.
SwapActive ==
    /\ rotPc = "swap"
    /\ active' = newKey
    /\ previous' = {k \in previous \cup {active} : k.expires_at > now}
    /\ newKey' = None
    /\ before' = now
    /\ rotPc' = "purge"
    /\ UNCHANGED <<now, jwks, records, serial, boot, issuing, tokens>>

\* delete_expired_ephemeral_keys; a failure is logged and ignored.
PurgeRecords ==
    /\ rotPc = "purge"
    /\ \/ records' = {k \in records : k.expires_at > before}
       \/ UNCHANGED records
    /\ before' = 0
    /\ rotPc' = "rebuild"
    /\ UNCHANGED <<now, active, previous, jwks, newKey, serial, boot, issuing,
                   tokens>>

RebuildJwks ==
    /\ rotPc = "rebuild"
    /\ jwks' = build_jwks(active, previous)
    /\ rotPc' = "idle"
    /\ UNCHANGED <<now, active, previous, records, newKey, serial, boot, issuing,
                   tokens, before>>

Rotate ==
    \/ MaybeRotate \/ KmsAttests \/ RotationFails \/ PersistNewKey
    \/ SwapActive \/ PurgeRecords \/ RebuildJwks

-----------------------------------------------------------------------------
(* Es256Issuer::issue reads the header, then the key, under separate locks. *)

IssueHeader ==
    /\ issuing = None
    /\ issuing' = [kid |-> active.kid, exp |-> now + TokenTtl, healthy |-> Healthy,
                   boot |-> boot]
    /\ UNCHANGED <<now, active, previous, jwks, records, rotPc, newKey, serial,
                   boot, tokens, before>>

IssueSign ==
    /\ issuing # None
    /\ tokens' = IF issuing.exp > now
                 THEN tokens \cup
                        {[kid |-> issuing.kid, exp |-> issuing.exp,
                          healthy |-> issuing.healthy, boot |-> issuing.boot,
                          signer |-> active.kid]}
                 ELSE tokens
    /\ issuing' = None
    /\ UNCHANGED <<now, active, previous, jwks, records, rotPc, newKey, serial,
                   boot, before>>

-----------------------------------------------------------------------------
(* The process stops, whatever it was doing, and KmsDelegatedKeyManager::new
   runs again on the records that have not expired. *)

Loadable == {rec \in records : rec.expires_at > now}

Restart ==
    /\ boot < MaxBoots
    /\ boot' = boot + 1
    /\ rotPc' = "idle"
    /\ newKey' = None
    /\ before' = 0
    /\ issuing' = None
    /\ \/ /\ Loadable # {}
          /\ \E newest \in Loadable :
                /\ \A rec \in Loadable : rec.created_at <= newest.created_at
                /\ active' = record_to_ephemeral_key(newest, boot')
                /\ previous' = {record_to_ephemeral_key(rec, boot') :
                                    rec \in Loadable \ {newest}}
          /\ UNCHANGED <<records, serial>>
       \/ /\ Loadable = {}
          /\ serial < MaxKeys
          /\ active' = generate_ephemeral_key(serial + 1, boot')
          /\ previous' = {}
          /\ records' = records \cup {active'}
          /\ serial' = serial + 1
    /\ jwks' = build_jwks(active', previous')
    /\ UNCHANGED <<now, tokens>>

Tick ==
    /\ now < MaxTime
    /\ now' = now + 1
    /\ tokens' = {t \in tokens : t.exp > now'}
    /\ UNCHANGED <<active, previous, jwks, records, rotPc, newKey, serial, boot,
                   issuing, before>>

Next == Rotate \/ IssueHeader \/ IssueSign \/ Restart \/ Tick

Spec == Init /\ [][Next]_vars

-----------------------------------------------------------------------------
(* Properties. *)

\* Between the swap of the active key and the rebuild of the cached JWKS.
Swapping == rotPc \in {"purge", "rebuild"}

\* A token issued by this process while health() said Healthy can be verified
\* until it expires, however late the rotations come, however often KMS or the
\* DataStore fail: its kid is listed in the cached JWKS.  The one exception is
\* a token of the new key during the swap, which the rebuild repairs.
HealthyTokensVerifiable ==
    \A t \in tokens : t.healthy /\ t.boot = boot =>
        t.kid \in jwks \/ (Swapping /\ t.kid = active.kid)

\* While the active key has not expired, the DataStore holds a key that is no
\* older: a crash at any point of a rotation does not bring an older key back.
NoRollbackOnRestart ==
    active.expires_at > now =>
        \E rec \in Loadable : rec.created_at >= active.created_at

\* "signing the payload and then verifying the signature using the public key
\* from jwks() SHALL succeed": the key that signed is the one the header names.
\* Broken when a rotation swaps the key between header() and encoding_key().
SignedByItsKid == \A t \in tokens : t.kid = t.signer
=============================================================================
