# Quartermaster in TLA+

Quartermaster exchanges the identity of a workload or a person (a SPIFFE SVID, an
OIDC token, a presigned AWS STS request, a GCP token, a client certificate) for a
signed JWT, and on request a certificate, that lists the *billets* its Cedar
policies entitle it to. This directory holds TLA+ specifications of the service,
the TLC models that check them, and TLAPS proofs of the central properties. Paths
and line numbers are those of the repository's own `src/` unless a path says
otherwise.

## The system

| Part | State | Operations | Talks to |
|---|---|---|---|
| `sync/mod.rs` PolicySyncService | `state` (policies and billets), `policy_set_handle` | `sync_once` on a timer; `is_initialized`, `known_billets`, `billet_tags` | scans the DataStore; read by the resolver and the Cedar authorizer |
| `domain/billet/mod.rs` BilletResolver, `domain/cache`, `cedar/mod.rs` | the cache, in memory or in Redis | `resolve` | cache, sync service, authorizer |
| `keymanager/kms_delegated.rs`, `domain/token/mod.rs` | `active_key`, `previous_keys`, `cached_jwks`, key records | `new`, `maybe_rotate`, `cleanup_expired_keys`, `health`, `issue` | KMS, DataStore, `/jwks.json` |
| `domain/admin`, `handler/admin_billets.rs`, `handler/billets.rs`, `domain/bootstrap.rs`, `bin/` | none of their own | authentication; create, read, update, delete of billets and policies; bootstrap of the system billets; the CLI | DataStore, sync service, audit service |
| `datastore/local.rs` | memory copy, JSON files | row operations, cascade, load | file system |
| `datastore/dynamodb.rs`, `firestore_store.rs` | none; the tables are remote | row operations, cascade, paged listings, purge of keys | DynamoDB, Firestore, shared with other instances |
| `domain/audit` | channel, sink buffers | `emit`, fan-out task, `shutdown` | the sinks' backends |
| `handler/token.rs`, `handler/billets_discovery.rs` | none of their own | `token_exchange`, `billet_discovery` | limiter, JWKS manager, resolver, issuer, authority, audit service |
| `domain/ratelimit` | stamps per subject | `allow`, cleanup task | the two handlers |
| `domain/identity`, `domain/svid`, `domain/cert` | keys of the sources, time of their last refresh; the authority's key | validators and their dispatch, principals, `sign_csr`, refresh tasks | identity providers, AWS STS |
| `config`, `main.rs`, `server` | the configuration, `AppState` | `load`, `validate`, start stage by stage, listeners with and without TLS | everything |

What is hard to test here: readers between the two publications of a sync round;
a request that reads under four locks while the tables move; a rotation between
the header and the signature of a token; admins who check, await and write; two
instances that bootstrap at once, or whose cascades and listings meet in a remote
database; a write whose answer is lost; a crash between two file operations;
events that race a full channel, a failing sink or a shutdown; requests whose
clock is out of date when they get the limiter's lock, and keys that are out of
date when they verify a token; a configuration that is accepted and cannot be
run; access that outlives the policy that gave it. `PROJECT.json` lists each of
these hazards at its line with the properties that cover it.

## Modules

```
DataStore ── PolicySync ── BilletResolution        StaleReplica (abstract)
    └─────── AdminCrud                                  ▲ refined by PolicySync
Clock ── RateLimiter, JwksManager ── TokenExchange
Config ── Identities ── Startup ── Service
AuditService ── FileSink
KeyManager    LocalStore    RemoteStore    AdminAccess
```

**DataStore** has the two tables (billets with tags, policies) and the row
operations as atomic steps, as they are under the lock of `LocalDataStore`. A
policy row is reduced to what the Cedar engine reads of it: effect, resource
scope, one tag condition, the subjects it matches. `is_authorized` (some permit
applies, no forbid does) stands for the Cedar library. In the modules that use
the tables freely, `StoreNext` is an admin who writes anything at any time.

**PolicySync** is the background task. `sync_once` awaits four times (scan
policies, scan billets, write the handle, write the state), so it has four kinds
of steps; each scan may fail. `MergedPolicies` and `MergedBillets` are the
fail-static merge. `ver` fields are history.

**StaleReplica** is the abstract specification of a published value: it only ever
moves forward to versions the source has had. PolicySync implements it twice, for
the policy set and for the billets (`HandleReplica`, `BilletsReplica`).

**BilletResolution** extends PolicySync with concurrent calls of `resolve`: cache
lookup, `known_billets`, one `billet_tags` per billet, the evaluation under the
handle's lock, the cache write. A cache entry may expire at any moment.
Subjects and audiences are sequences of colon-separated parts, so `cache_key`
joins them exactly as `format!("{}:{}")` does. `calm` is history.

**KeyManager** models construction from the stored records, rotation (KMS call,
record, swap under the locks, purge, rebuild of the cached JWKS), health, the
issuer that takes `header()` and `encoding_key()` in two steps, the clock and
restarts. A kid is the pair of a record's serial number and the process that made
the key pair, because `record_to_ephemeral_key` generates a fresh pair for each
record it loads.

**AdminCrud** is the admin API over DataStore. A request is authenticated and
validated, reads, and writes, each step an await; `update` of a policy reads the
row back. `bootstrap_system_billets` runs on several instances at once. The
admin's token and its authorization are a choice: any request may be refused.

**AdminAccess** closes the loop that AdminCrud leaves open: policies in the store
decide, by way of a sync and the cache, what a token carries; the token decides,
with the policies synced by then, what its holder may do to the store. It has the
authenticator (signature, expiry with its leeway, decision over each billet of
the token), all handlers of the admin API with their validation, the order of
their refusals, their audit events and failures, the lookup of the data plane,
and the CLI that adds policies and issues tokens past all of it. `past` (the
tables at the times that still matter), `ledger` (what a reader of the audit
events believes the tables to be) and `lost` are history. Its handlers run one at
a time; AdminCrud interleaves them.

**LocalStore** is `LocalDataStore` file by file: temporary file (torn while it is
being written), rename, memory copy; removal from memory and then of the files,
with the errors that the code ignores; crash at any point, and load. `acked` and
`unremoved` are history.

**RemoteStore** is `DynamoDataStore` and `FirestoreDataStore` call by call, one
backend chosen at the start. There is no lock: a cascade (list the policies,
delete them in batches, delete the billet), a purge, a paged listing, a check
followed by a write meet the calls of other tasks and instances. DynamoDB reads
may miss a change that has not reached every replica, its batches may come back
partly unprocessed and are sent again a bounded number of times; a Firestore
document may be `partial`, the mask of an update that found nothing. A call may
fail, or succeed and be reported as failed; a handler may stop after any call.
`acked`, `touched` and `raced` are history.

**AuditService** has the bounded channel, the fan-out task with its `select!`,
the sinks one by one, and `shutdown` with its timeout. A sink that writes at once
is one with batches of one, so the four sinks are two kinds of one model. A call
of a backend may succeed, fail, or succeed and be reported as failed. Firehose
takes or rejects each record of a batch, and `flush_buffer` takes any answer for
success, since it does not read `failed_put_count`; its client, built with the
SDK's default retries, may store a record once per attempt (`PartsAndRepeats`).
`sent`, `failing`, `rejecting`, `accepted` and `mishaps` are history.
**FileSink** adds the files behind the file sink: the log file, the rotated ones,
the size the sink remembers and the handle it writes through. A rotation may fail
at its flush, its removal, each of its renames and the opening of the new file;
the handle then follows the renames, and the next line that does not fit starts
over. `failures` is history.

**RateLimiter** has the queue of stamps of each subject. `allow` and the cleanup
task read the clock before they wait for the lock, at most `MaxDelay` earlier, so
stamps arrive out of order and only the front of the queue is pruned. `granted`
is history. **JwksManager** has one refresh task per source: fetch (or failure),
write of the keys, write of the time, each under its own lock, on an interval
that catches up on missed ticks; the provider changes its keys at will.
`withdrawn` and `fetchedAt` are history. Both share **Clock**.

**TokenExchange** composes them with the handlers of `POST /token` and
`POST /billets/me`. A handler is cut at its awaits (time of the last refresh,
keys, AWS STS, the limiter's lock, resolver, certificate authority) and may be
dropped at each of them. A token is a record of what its validator checks; the
resolver and the issuer, which have modules of their own, may answer anything.
`reply` is the answer given by the step just taken, with the audit record that
goes with it.

**Config** is the configuration: a record of sections, what `Config::load` makes
of the environment variables or the TOML file, and everything `validate` refuses.
Durations keep their two parsers and the wrap of a u64 multiplication.
**Identities** has, as operators, what each validator accepts and extracts, the
subject and the Cedar principal made of it, path patterns, ARNs, CSRs with their
DER lengths, the certificates that the authority issues and `MtlsValidator`
reads. A CSR passes ring's DER reader, which goes up to 65535 bytes, the check of
its signature, and rcgen's parser, which refuses extensions it does not know; the
validators have jsonwebtoken's `Leeway` on `exp`. A URI is a record of scheme, domain pieces and path segments, so that a
text prefix and a domain suffix are different things. **Startup** is `main`,
stage by stage: each builds a part of `app` or ends the process, because of the
configuration or because of the outside world (`Fault`), while the sync task runs
and the store comes and goes. A Redis URL that does not open and an address that
does not parse are the configuration's; a port in use is the outside world's. **Service** is what has been started: `/token` from
credential to certificate as one step (its awaits are those of TokenExchange and
BilletResolution), the health check read by read, the discovery document. Its
`reply` also carries the credential, which the properties hold against the
configuration.

`MC*` modules give the constants their values. Operators marked *Mutant* are
wrong versions of the definition that follows them: each shows, for one property,
a plausible bug that the property would catch.

## Runs

| Run | Checks | Bounds |
|---|---|---|
| `policy_sync` | `TypeOK`; `HandleFailStatic`, `BilletsFailStatic` (refinement of StaleReplica); `EventuallyConverged` | 2 billets, 2 policies, 3 writes |
| `billet_resolution` | `UndisturbedAnswerIsExact` (no publication in between: exactly the entitlement of the snapshot); `NoOutageOnceLoaded` (neither 503 nor 500); `RevocationTakesEffect` | 2 billets, 2 subjects, 1 concurrent request whose slot is reused for ever, 1 write after any initial tables |
| `key_manager` | `TypeOK`, `HealthyTokensVerifiable`, `NoRollbackOnRestart` | interval 1, overlap 4, ttl 2, clock to 5, 4 keys, 1 restart |
| `key_manager_signature` | violation, see Findings | as above |
| `admin_crud` | `AdminTypes`, `SystemBilletsExist`, `GuardrailsOnlyForbid`, `DelegationIsolated` | 2 admins, 2 instances, 2 writes, the two system billets and a team's |
| `admin_access` | `AccessFollowsPolicies` (what is allowed was allowed by tables no older than the sum of the intervals); `DelegationContained` (until root acts, power over a team's billet changes nothing outside it); `TrailTellsTables` (the audit events replay to the tables) | one subject, its team's billet, a guardrail, an implicit billet and root; intervals, ttl and leeway 1, CLI tokens 2, clock to 5, 2 changes, 1 token kept, 9 requests |
| `local_store` | `AlwaysLoadable`, `AcknowledgedRowsSurvive`, `MemoryIsAcknowledged`, absence of deadlock | 2 billets, 2 policies, 1 key record, 5 operations, 2 crashes |
| `remote_store` | `RemoteTypes`; `OrphansOnlyFromRaces` (a policy without billet was written while a cascade of that billet ran); `ListingsAreComplete` (every row that nobody touched while it was listed); `AcknowledgedRowsStored` | both backends; 1 billet, 2 policies, 1 key record, 2 tasks, batches of 1, 1 retry, 3 writing operations |
| `remote_tags` | violation | as above |
| `audit_service` | `AuditTypes`; `NothingLostUnderWay` (each accepted event is sent, held back, in hand or queued, and what is sent is stored but for errors and Firehose's rejections); `StoredInOrder` (no sink sends a batch again; only the attempts of one call to Firehose repeat a record); `CleanShutdownDelivers` (with the same two exceptions); `AcceptedEventsHandedOver`; `RotationKeepsNewest` (the files hold the end of what was written, in its order, and a failed rotation costs at most one of them) | the file sink with 2 rotated files and Firehose with batches of 2 and 2 attempts, channel of 2, 4 events, of which the long ones fill a file, 1 call whose answer does not tell what was stored |
| `token_exchange` | `RateLimitHolds` (over every window less the lock delay), `DenialsJustified`, `WithdrawnKeysExpire` (`max_staleness` and two delays after the provider gave the key up), `RecordsMatchTokens` | 3 handlers, one request each out of 10, limit 2, window 2, delay 1, one OIDC source with interval 2 and staleness 0, clock to 4; constraint `Bounded`, see below |
| `service` | `AcceptedConfigStarts` (a validated configuration outside the named gaps ends in no panic of its own); `AdmittedAsConfigured` (trust domain, audience, issuer, client ids, accounts and projects of the source that admitted); `AnswersFromOwnPrincipal` (a fresh answer is of exactly the caller, a cached one of a principal with its subject); `CertificatesKeepIdentity` (along any chain of certificates exchanged for certificates); `GoodRequestsCertified` (every length up to 65535); `EventuallyReady` | 43 environments: working files, refused ones, gaps, variables without a file; 18 requests, 2 of them in a behaviour, clock to 2, 2 polls, 1 fault, u64 of 2^16 values |

The bounds are chosen so that the interesting cases happen: three writes are
enough for a table to change before, between and after the two scans of a round;
a clock of five covers a rotation, the overlap of the old key and the expiry of a
token, and in `admin_access` the whole way of a revocation through sync, cache
and token with its leeway; five operations are enough to create a billet and two
policies, delete them in a cascade, and create the billet again; four events fill
the channel, two batches or one and the window between the drain and the end of
the task, and rotate the log often enough to remove its oldest file, after a
failure too. In `remote_store` a batch of one makes two policies two batches, a retry
can be used up, and a third operation can meet a cascade between any two of its
calls. In `token_exchange` the unit of time is the delay of a lock; a staleness
of 0 is one below that unit, and a clock of four goes past the window, the bound
on withdrawn keys and the interval. A limit of 2 with three requests of one
subject puts two stamps into one queue, in either order, and an expired one
behind a newer one when the third request is decided. `Bounded` keeps the two
questions of the run apart: the keys are refreshed only in behaviours whose
requests are all the OIDC subject's, and three handlers are busy at once only
with the workload's. Neither half reads what the other writes: the queues of two
subjects are disjoint, and only OIDC tokens are verified with refreshed keys. GCP tokens take the path of OIDC tokens there
and appear as a type that is not configured; `service` has them in full. In
`service` the files differ from a working one in one thing at a time, two
requests allow a cached answer or a certificate exchanged for another, and the
lengths of the CSRs lie on both sides of each form of a DER length that ring's
reader knows, and of its limit. Counters
(`MaxWrites`, `MaxTime`, `MaxClock`, `MaxKeys`, `MaxBoots`, `MaxEvents`,
`MaxMishaps`, `MaxCrashes`, `MaxChanges`, `MaxTokens`, `MaxRequests`, `MaxFaults`) bound the
runs only; no theorem depends on their values.

Symmetry is used where the permuted values are interchangeable in every property
and there is no temporal property of the liveness kind. Deadlock is checked
everywhere but in `audit_service`, which may stop, and `service`, whose process
may exit.

**Fairness.** PolicySync: weak fairness of the task, which loops on a timer, and
strong fairness of the two successful scans (the store answers now and then).
BilletResolution: in addition a request that has started is run to its end by the
executor, and each cache entry's ttl passes. FileSink: weak fairness of the
task; a backend call ends, one way or the other. Service: weak fairness of main
(which runs on), of the sync task (which a runtime schedules) and of the end of
an outage. RemoteStore and AdminAccess assume none, nor is any assumed of
admins, requests, failures, crashes, `emit` or `shutdown`.

## Proofs

`*_proofs` modules hold theorems that TLAPS checks for every value of the
constants, in particular for any number of rows, clients, requests and events and
any limits. Each follows the same line: an inductive invariant, one lemma per
action, and then the property from the invariant. Every invariant and every
action property that a run checks is also a theorem.

* **PolicySync_proofs.** `SyncInv` adds to the types that every version in
  flight is at most the store's, that a scan of this round is no older than what
  is published, and that the handle and the state agree outside the window
  between the swaps. The second part is what makes the merge fail-static: without
  it a scan could be thought to bring back an old version. Proved: `TypeCorrect`,
  the two refinements `HandleIsFailStatic` and `BilletsAreFailStatic`, and two
  facts that no run checks: `HandleAgrees` (handle and state agree outside the
  window) and `InitializedIsUsable` (a reader that finds the service initialized
  finds a policy set). For BilletResolution `ResInv` adds what each request has
  in hand: nothing is left to read when it evaluates, and as long as no
  publication has come in between (`calm`) all its reads, made under different
  locks, are of the one published state. Proved: `ResolutionTypeCorrect`,
  `UndisturbedIsExact`, `NoOutageAfterLoad`.
* **Background_proofs**, the components that run beside the requests.
  *KeyManager.* `KeyInv` says that each key expires `KeyOverlap` after its
  creation, that the cached JWKS lists every live key except while a rotation
  is swapping, and that each live token of a healthy process is covered by a key
  that outlives it. It needs `OverlapAssumption`
  (`2 * RotationInterval + TokenTtl <= KeyOverlap`, true of the defaults), since
  the overlap counts from a key's creation and `health` tolerates two intervals.
  Proved: `TypeCorrect`, `HealthyTokensStayVerifiable`, `RestartNeverRollsBack`.
  *AuditService.* `AuditInv` follows the line of each sink (sent, buffered, in
  hand, queued): ordered and complete whatever has failed; what has been sent is
  stored but for errors and for what Firehose rejects; a drain is announced, its
  flush has reached the sinks it has passed, and after it each sink has sent what
  was accepted before the shutdown. It speaks of what was sent rather than of
  what was stored because only the former is in the sink's hands.
  `StoredAlwaysInOrder` is a theorem about each step. Proved: `AuditTypesCorrect`,
  `NothingEverLostUnderWay`, `StoredAlwaysInOrder`, `CleanShutdownAlwaysDelivers`.
  *FileSink.* `FilesRefineAudit` makes each step with files one of the audit
  service, so that `AuditInv` may be used. `FileInv` then says that the handle is
  on the newest file, at most one name further than there were failures, and that
  a file has at most as many unused names before it as rotations have failed. The
  gaps are what the bound rests on: a file is lost only from the last name, and
  when that one is in use, all names but the gaps are. Proved: `FileInvariant`,
  `RotationAlwaysKeepsNewest`.
* **LocalStore_proofs.** `LocalInv` says that every file can be parsed and holds
  what was acknowledged, that a write in progress touches one row, that its
  temporary file is complete before the rename and its file untouched until then,
  and that a removal has left memory before it reaches the files; without the
  part on the temporary file a rename could put a torn row in place. Proved:
  `StoreAlwaysLoadable`, `AcknowledgedRowsAlwaysSurvive`,
  `MemoryAlwaysAcknowledged`.
* **RemoteStore_proofs.** `RemoteInv` says of each call sequence what it has
  still to do: a cascade under way has every policy of its billet that was not
  written in a race among those to list, listed or to delete; a policy that a
  replica may miss while its billet is being deleted counts as raced; the pages
  that a listing has read hold exactly the rows that are there and that nobody
  has touched. The properties alone are not inductive, since a cascade forgets in
  its middle why it need not look again. Proved: all four properties of the run.
* **AdminCrud_proofs.** `AdminInv` says that every stored row and every request
  past validation is acceptable, and that as long as a system billet is missing
  some bootstrap is still on its way to create it; the latter is needed because a
  conflict ends a bootstrap early. Proved: `AdminTypesCorrect`,
  `SystemBilletsAlwaysExist`, `GuardrailsStayForbid`, `DelegationStaysIsolated`.
* **AdminAccess_proofs.** `AccessInv` accounts for each copy of an entitlement:
  what is synced was in the tables a sync interval ago at most (`SyncedLately`),
  what is cached or in a token was granted by tables no older than the intervals
  it has come through (`CacheBacked`, `TokensBacked`), the events told so far,
  with the one that is due, replay to the tables (`TrailFollows`), and tables,
  their synced copy and the write under way have stayed within the delegated
  billets until root acts (`DelegationKept`). The last one has to speak of the
  tags too, because a tag named like a billet would let a policy reach outside.
  Proved: `RevocationIsBounded`, `DelegatesStayContained`,
  `TrailAccountsForTables`.
* **TokenExchange_proofs.** `LimiterInv` pairs the stamps in a subject's queue
  with its last grants, each stamp at most `MaxDelay` before its grant, whatever
  the order in which they arrived, and says that the grants without a stamp no
  longer count; so any two grants that are the limit apart are a window less the
  delay apart (`LimitIsKept`), and a denial always has its justification
  (`RefusalsAreJustified`). `JwksInv` says that the keys stored were published a
  delay before the time noted with them, or later, which with what a handler has
  read before it verifies (`HandlersInv`) bounds the use of a withdrawn key
  (`WithdrawnKeysAreBounded`). Also proved: `ExchangeTypeCorrect`,
  `RecordsAccountForTokens`.
* **Service_proofs.** `ServiceInv` has `StartInv` (each stage of main leaves the
  part that the configuration asks for, and a validated configuration that
  does not start is in one of the listed gaps), `QuietInv` (nothing is answered
  before), `CacheInv` (an entry was evaluated for some known identity whose
  subject its key begins with, `EvaluatedFor`), `CertsInv` (the one SPIFFE ID of a certificate is the root of its chain)
  and `ReplyInv`. `CacheInv` carries the answers: a hit evaluates nothing, so all
  that ties it to the caller is the key, and two subjects that begin one key are
  the same (`SameKeySameSubject`). A fresh answer needs no such argument: it is of
  the caller itself. Proved: `ServiceTypeCorrect`,
  `AcceptedConfigsStart`, `AdmissionFollowsConfiguration`,
  `AnswersAreOfOwnPrincipal`, `ChainsKeepTheirRoot`, `GoodRequestsAreCertified`.

**Assumptions on the constants.** Besides the ranges of the numbers and that
placeholders (`None`, `NoFile`, `Any`) are none of the values they stand beside:
`OverlapAssumption`; that a file given to the program is one that serde accepts
(`StartupAssumption`); that initial tables are ones the API can have written and
Cedar's non-empty answers are non-empty (`AccessAssumption`,
`ExchangeAssumption`); that the validators name a known subject
(`ExchangeAssumption`); and, in `ServiceAssumption`, that SPIRE signs SVIDs, and
the trusted roots certificates, only for SPIFFE IDs of a trust domain and a path.
The last is a promise of SPIRE: `SpireValidator` itself checks nothing of `sub`
but that it is there, and an SVID for something else would begin a chain whose
certificates name no SPIFFE ID. It is not an assumption but part of the model
that a piece of a subject has no colon of its own; AWS and SPIFFE promise it,
while a GCP project of the domain-scoped form (`example.com:project`) has one.

Of libraries the repository only names, the specifications take three facts that
its source does not show: ring's DER reader refuses lengths of more than two
bytes, rcgen's `from_der` refuses an extension request other than key usage,
extended key usage and alternative names, and the redis crate, built without a
TLS feature, does not open `rediss://`.

Only model-checked: every liveness property (`EventuallyConverged`,
`RevocationTakesEffect`, `AcceptedEventsHandedOver`, `EventuallyReady`), since
TLAPS does not prove liveness under fairness; and the two violations.

## Findings

Runs that end in a counterexample, each against a sentence of the repository:

* `key_manager_signature`: a rotation between `header()` and `encoding_key()`
  gives a token a kid that did not sign it (domain/token/mod.rs:141).
* `remote_tags`: an update that takes every tag from a billet is answered with
  the empty set, while DynamoDB keeps the tags it had (dynamodb.rs:211).

### Noticed while modelling, without a run of their own

Policies and their publication
* Between the two swaps of a round a request evaluates new policies over old
  billets and tags (sync/mod.rs:161), where sync/mod.rs:25 says "atomically swap".
* `is_initialized` becomes true after a first round in which only the billets
  could be read, with an empty policy set (sync/mod.rs:142); a round in which both
  scans fail is reported as a success once there is a state (sync/mod.rs:177).

Stores and admin API
* A billet deleted between the check and the write of `PolicyCrudService::create`
  leaves a policy without billet (policies.rs:198, 222), as do a cascade of the
  local store cut by a crash after the billet's file (local.rs:278) and the races
  that `OrphansOnlyFromRaces` exempts.
* Two overlapping updates of a billet lose one (billets.rs:236, 265);
  `update_policy` of the local store empties `created_at` (local.rs:341).
* Firestore's document ids `{billet}__{id}` are one to one only as long as no
  name has `__`; an error in the middle of a Firestore stream ends a listing
  early and looks like its end (firestore_store.rs:330), which is the cut
  that `ListingsAreComplete` allows.
* Events: a policy update whose row disappears before it is read back is not
  audited (policies.rs:324), nor is any operation that fails after
  authentication, where .kiro/specs/audit-logging/design.md:192 has an event "after
  each successful/failed CRUD operation"; an `authFailure` carries a subject that nobody has verified;
  a lower-case `bearer` is audited as "unknown".
* The CLI's `add_policy` checks neither that a guardrail only forbids nor the
  resource of a statement, and emits no event: the exceptions in
  `DelegationContained` and `TrailTellsTables`.

Keys and tokens
* Between the swap and the rebuild a token's kid is missing from the cached JWKS
  (kms_delegated.rs:293), the exception in `HealthyTokensVerifiable`; the overlap
  counts from creation rather than from rotation (kms_delegated.rs:385); loaded
  records get fresh key pairs (kms_delegated.rs:428); nothing calls
  `maybe_rotate` outside tests, so KeyManager's rotations are those of a caller
  yet to be written.
* An expired stamp behind a newer one is still counted (ratelimit/mod.rs:115),
  which denies no request too many (`DenialsJustified`).
* A scope denial, a failing issuer, a bad CSR and a failing authority end an
  exchange without an audit record (handler/token.rs:232, 257, 267, 275).

Audit
* Nothing flushes a batching sink on a timer (pubsub_sink.rs:118), where
  .kiro/specs/audit-logging/design.md:41 has one.
* Events accepted between the end of a drain and the drop of the receiver vanish
  without a count (service.rs:162), and a timed-out `shutdown` leaves the task
  running (service.rs:93); when the channel is full the newest event is dropped
  (service.rs:59), where .kiro/specs/audit-logging/requirements.md:73 has the
  oldest dropped.
* `flush_buffer` takes any Ok of `PutRecordBatch` for success (kinesis_sink.rs:83):
  records that Firehose rejects one by one, counted in `failed_put_count`, are
  lost without an error or a count. The client has the SDK's default retries
  (kinesis_sink.rs:32), so a batch whose answer is lost may be stored twice.
* Each failed rotation that gets past its first step removes another file
  (file_sink.rs:91), and one that fails to open the new file leaves the handle on
  a rotated one: while no file can be opened, every line that does not fit costs a
  file until the whole log is gone, and a shorter line may then be acknowledged
  and written to a removed file. `RotationKeepsNewest` bounds the loss by one file
  per failure.

Configurations that `validate` accepts and main ends on (`ValidationGap`): neither
`[datastore]` nor `[dynamo]`; Firestore without the feature `gcp`; a delegated key
manager with a GCP key only; a SEC1 signing key, though static_key.rs:24 and 146
name it as supported; a rotation interval or overlap that the key manager's own
parser refuses; an audit channel of 0; a pattern that does not compile; an admin
address equal to the main one; a `redis.url` that is malformed or `rediss://`; a
`server.host` or `admin_addr` that does not parse. Files are read only then, so one that is missing
or does not parse ends main too. `policy_sync_interval_secs = 0` ends the sync
task and leaves a service without policies; a refresh interval of 0 ends the
refresh of that provider's keys. A delegated key manager also ends the process
when the store is down at the start.

Identities
* The discovery document may advertise RS256 while the keys are ES256. The
  health check answers 200 with "degraded" before the first sync, where main.rs:176
  has "will report 503 if not initialized".
* A SPIFFE ID gets its environment and region from other places in an SVID than
  in a certificate, and the cache key has neither. An IAM user, a role and its
  sessions of one name share a subject, as do the claims of two OIDC providers,
  or of one at two times, with one e-mail address, and the zones of one GCP
  service account. Until its ttl passes, a cached answer given to one such
  principal is given to the others, though policies may tell them apart:
  `AnswersFromOwnPrincipal` exempts what the subject leaves out (`NotInSubject`),
  for cached answers only.
* The trust domain of an SVID's `sub` is compared with nothing, and `iss` is held
  against the trust domain as a text prefix, which is how `AdmittedAsConfigured`
  states it: an issuer of `corp.example` passes for the trust domain `corp`. A capture named `spiffe_id` or
  `trust_domain` overwrites that attribute.
* An OIDC provider with the prefix "google" shares the source id of GCP, so that a
  token signed by Google passes for one of that provider's. Of two OIDC providers
  with the same issuer only the first is ever used (oidc.rs:89).
* `ca_backend` ignores `include_billets_ou`, and its key manager signs nothing. A
  subject or billet outside of ASCII gets no certificate, the exception in
  `GoodRequestsCertified`.
* The branches of `encode_length` for three and four bytes cannot be reached
  behind ring's reader (cert/mod.rs:153, 246). A request for an extension that rcgen
  does not know is refused (cert/mod.rs:337), although the authority would have
  discarded it.

## Not modelled

* Syntax and encodings beyond what a property asks: TOML, JSON, JWT and X.509
  bytes, Cedar's grammar, request and response bodies; the OpenAPI document;
  request ids, tracing and metrics.
* The error of building Cedar entities (domain/billet/mod.rs:191), which constant
  types and string attributes cannot cause.
* TLS itself, the Cedar engine, KMS, Redis, DynamoDB, Firestore, Firehose and
  Pub/Sub beyond what the code relies on.
* Torn reads through the references that `KmsDelegatedKeyManager` returns past
  its lock guards; power loss without fsync; the cancellation of a handler in the
  middle of a file operation (local.rs:180).
* AdminAccess takes the sync of every interval to succeed, one handler at a time
  and one token kept; its bound on revoked access is that of a healthy store.

## Plan

1. Done: every component that changes state, and a theorem for every invariant
   and action property that a run checks.
2. Theorems about more than the runs ask: that `AdminAccess` with its handlers
   interleaved, as AdminCrud has them, keeps delegates contained; that
   TokenExchange's handlers refine the one step that Service takes for `/token`.
3. Abstract specifications of the stores (a table that forgets no acknowledged
   row) which LocalStore and RemoteStore would implement.
