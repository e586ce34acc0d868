----------------------------- MODULE JwksManager -----------------------------
(***************************************************************************)
(* JwksManager: the signing keys of each identity provider, fetched by one  *)
(* task per source and served to the validators as long as they are not     *)
(* too old.  The keys and the time of the last refresh have a lock each;    *)
(* a refresh writes the keys first, a reader reads the time first.          *)
(***************************************************************************)
EXTENDS Clock

CONSTANTS
    Sources,           \* prefixes of the OIDC providers, none of them google, and google
    SigningKeys,       \* usable keys of a JWKS document
    refresh_interval,
    max_staleness,
    Never,             \* no such time
    MaxRotations       \* bound on what the providers do

ASSUME JwksAssumption ==
    /\ refresh_interval \in Nat \ {0}
    /\ max_staleness \in Nat
    /\ Never \notin Nat
    /\ MaxRotations \in Nat

VARIABLES
    published,     \* published[s]: what the provider answers
    withdrawn,     \* history: withdrawn[s][k], when the provider gave up key k
    rotations,     \* changes of the providers' keys so far
    refresh,       \* refresh[s]: where the task of source s is
    fetched,       \* fetched[s]: the keys it has read
    fetchedAt,     \* history: when it has read them
    due,           \* due[s]: the next tick of its interval
    ticking,       \* ticking[s]: the first fetch is over
    keys,          \* JwksSource::keys
    last_refresh   \* JwksSource::last_refresh

providerVars == <<published, withdrawn, rotations>>
taskVars == <<refresh, fetched, fetchedAt, due, ticking>>
jwksVars == <<providerVars, taskVars, keys, last_refresh>>

JwksTypes ==
    /\ published \in [Sources -> SUBSET SigningKeys]
    /\ withdrawn \in [Sources -> [SigningKeys -> Nat \cup {Never}]]
    /\ rotations \in Nat
    /\ refresh \in [Sources -> {"waiting", "fetched", "stored"}]
    /\ fetched \in [Sources -> SUBSET SigningKeys]
    /\ fetchedAt \in [Sources -> Nat]
    /\ due \in [Sources -> Nat]
    /\ ticking \in [Sources -> BOOLEAN]
    /\ keys \in [Sources -> SUBSET SigningKeys]
    /\ last_refresh \in [Sources -> Nat \cup {Never}]

\* from_config and start_refresh_tasks.
JwksInit ==
    /\ published \in [Sources -> (SUBSET SigningKeys) \ {{}}]
    /\ withdrawn = [s \in Sources |-> [k \in SigningKeys |-> Never]]
    /\ rotations = 0
    /\ refresh = [s \in Sources |-> "waiting"]
    /\ fetched = [s \in Sources |-> {}]
    /\ fetchedAt = [s \in Sources |-> 0]
    /\ due = [s \in Sources |-> 0]
    /\ ticking = [s \in Sources |-> FALSE]
    /\ keys = [s \in Sources |-> {}]
    /\ last_refresh = [s \in Sources |-> Never]

\* The provider changes its keys.
Rotate(s, ks) ==
    /\ rotations < MaxRotations /\ ks # published[s]
    /\ rotations' = rotations + 1
    /\ published' = [published EXCEPT ![s] = ks]
    /\ withdrawn' = [withdrawn EXCEPT ![s] = [k \in SigningKeys |->
                        IF k \in ks THEN Never
                        ELSE IF k \in published[s] THEN clock ELSE withdrawn[s][k]]]
    /\ UNCHANGED <<taskVars, keys, last_refresh>>

\* fetch_keys has its answer; keys that cannot be used are left out of it.
FetchKeys(s) ==
    /\ refresh[s] = "waiting" /\ clock >= due[s]
    /\ refresh' = [refresh EXCEPT ![s] = "fetched"]
    /\ fetched' = [fetched EXCEPT ![s] = published[s]]
    /\ fetchedAt' = [fetchedAt EXCEPT ![s] = clock]
    /\ UNCHANGED <<providerVars, due, ticking, keys, last_refresh>>

\* The interval starts after the first fetch, and catches up on missed ticks.
NextTick(s) ==
    /\ due' = [due EXCEPT ![s] = IF ticking[s] THEN @ + refresh_interval
                                 ELSE clock + refresh_interval]
    /\ ticking' = [ticking EXCEPT ![s] = TRUE]

\* Mutant: the time of the refresh is noted although it has failed.
FailureCountsAsRefresh(s) ==
    /\ refresh[s] = "waiting" /\ clock >= due[s]
    /\ NextTick(s)
    /\ last_refresh' = [last_refresh EXCEPT ![s] = clock]
    /\ UNCHANGED <<providerVars, refresh, fetched, fetchedAt, keys>>

\* The discovery document or the keys cannot be had: the old keys stay.
RefreshFails(s) ==
    /\ refresh[s] = "waiting" /\ clock >= due[s]
    /\ NextTick(s)
    /\ UNCHANGED <<providerVars, refresh, fetched, fetchedAt, keys, last_refresh>>

StoreKeys(s) ==
    /\ refresh[s] = "fetched"
    /\ keys' = [keys EXCEPT ![s] = fetched[s]]
    /\ fetched' = [fetched EXCEPT ![s] = {}]
    /\ refresh' = [refresh EXCEPT ![s] = "stored"]
    /\ UNCHANGED <<providerVars, fetchedAt, due, ticking, last_refresh>>

StoreTime(s) ==
    /\ refresh[s] = "stored"
    /\ last_refresh' = [last_refresh EXCEPT ![s] = clock]
    /\ refresh' = [refresh EXCEPT ![s] = "waiting"]
    /\ fetchedAt' = [fetchedAt EXCEPT ![s] = 0]
    /\ NextTick(s)
    /\ UNCHANGED <<providerVars, fetched, keys>>

JwksNext ==
    \E s \in Sources :
        \/ \E ks \in SUBSET SigningKeys : Rotate(s, ks)
        \/ FetchKeys(s) \/ RefreshFails(s) \/ StoreKeys(s) \/ StoreTime(s)

\* get_keys, as far as the staleness check.
Fresh(s) == last_refresh[s] # Never /\ clock - last_refresh[s] <= max_staleness

\* A fetch that has been answered is stored within the delay.
RefreshInTime ==
    \A s \in Sources : refresh[s] # "waiting" => clock - fetchedAt[s] < MaxDelay
=============================================================================
