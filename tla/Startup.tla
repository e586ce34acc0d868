------------------------------ MODULE Startup ------------------------------
(***************************************************************************)
(* main: from the configuration to the listeners.  Every stage either       *)
(* builds a part of AppState and goes on or ends the process, for main      *)
(* answers errors with expect and panic.  The policy sync task and outages  *)
(* of the data store run beside it.                                         *)
(*                                                                         *)
(* A stage fails because of the configuration (the guard), or because the   *)
(* outside world does (Fault): a disk, a connection, an address in use.     *)
(***************************************************************************)
EXTENDS Identities

CONSTANTS
    Environments,    \* the environments the process is started in
    GcpFeature,      \* whether it is built with the cargo feature `gcp`
    MaxPolls,        \* how often main looks for the first sync
    MaxFaults        \* bound: failures of the outside world in a behaviour

ASSUME StartupAssumption ==
    /\ GcpFeature \in BOOLEAN /\ MaxPolls \in Nat /\ MaxFaults \in Nat
    /\ \A e \in Environments : e["QM_CONFIG_PATH"] \in {None, Unreadable} \/ FileTyped(e["QM_CONFIG_PATH"])

VARIABLES
    env,             \* the environment, until it is read
    config,          \* the configuration, None until it is loaded
    pc,              \* the stage that main is at
    app,             \* AppState and the listeners, as far as they are built
    polls,           \* polls for the first sync so far
    sync,            \* the policy sync task: [alive, initialized]
    storeUp,         \* whether the data store answers
    faults           \* failures of the outside world so far

mainVars == <<env, config, pc, app, polls>>
worldVars == <<sync, storeUp, faults>>
startVars == <<mainVars, worldVars>>

Stages == {"load", "datastore", "signing", "authority", "bootstrap", "audit", "sync", "wait", "cache",
           "patterns", "identity", "mtls", "tls", "listen"}

NothingBuilt == [store |-> None, signing |-> None, authority |-> None, sinks |-> {}, cache |-> None, matcher |-> None,
                 validators |-> None, mtls |-> None, algorithm |-> None, tls |-> None, listeners |-> <<>>]

StartInit ==
    /\ env \in Environments
    /\ config = None /\ pc = "load" /\ app = NothingBuilt /\ polls = 0
    /\ sync = [alive |-> FALSE, initialized |-> FALSE]
    /\ storeUp \in BOOLEAN
    /\ faults = 0

Fault == faults < MaxFaults /\ faults' = faults + 1

\* What every stage leaves alone.
StageFrame == UNCHANGED <<env, config, polls, sync, storeUp>>

\* A stage that ends well, badly, or badly because of the world.
Build(next, built) == pc' = next /\ app' = built /\ UNCHANGED faults /\ StageFrame
Panic              == pc' = "exited" /\ UNCHANGED <<app, faults>> /\ StageFrame
PanicByFault       == pc' = "exited" /\ Fault /\ UNCHANGED app /\ StageFrame

-----------------------------------------------------------------------------
(* Configuration and store. *)

LoadConfig ==
    /\ pc = "load"
    /\ config' = load(env) /\ env' = None
    /\ pc' = IF load(env) = None THEN "exited" ELSE "datastore"
    /\ UNCHANGED <<app, polls, worldVars>>

\* [datastore], or the legacy section.
StoreKind(c) ==
    IF c.datastore # None THEN c.datastore.backend ELSE IF c.dynamo # None THEN "dynamodb" ELSE None

StoreBuilds(kind) == kind # None /\ (kind = "firestore" => GcpFeature)

BuildDataStore ==
    /\ pc = "datastore"
    /\ LET kind == StoreKind(config)
       IN  \/ StoreBuilds(kind) /\ Build("signing", [app EXCEPT !.store = kind])
           \/ ~StoreBuilds(kind) /\ Panic
           \/ kind \in {"local", "firestore"} /\ PanicByFault

-----------------------------------------------------------------------------
(* Keys. *)

\* The DER bytes of a key file, or None: SEC1 keys are wrapped for ring.
extract_pem_der(file, label) ==
    CASE file \in {"pkcs8", "pkcs8_p384"} /\ label = "PRIVATE KEY" -> file
      [] file = "sec1" /\ label = "EC PRIVATE KEY" -> file
      [] OTHER -> None

encode_asn1_length(len) ==
    IF len < 128 THEN <<len>> ELSE IF len < 256 THEN <<129, len>> ELSE <<130, len \div 256, len % 256>>

Sec1Length == 121       \* the DER bytes of a P-256 key with its public point

\* An octet string in a sequence, after 24 bytes of version and algorithm.
wrap_sec1_in_pkcs8 ==
    LET octets == 1 + Len(encode_asn1_length(Sec1Length)) + Sec1Length
    IN  /\ encode_asn1_length(Sec1Length) = DerLength(Sec1Length)
        /\ encode_asn1_length(24 + octets) = DerLength(24 + octets)

parse_ec_private_key_pem(file) ==
    IF extract_pem_der(file, "PRIVATE KEY") # None THEN file
    ELSE IF extract_pem_der(file, "EC PRIVATE KEY") # None /\ wrap_sec1_in_pkcs8 THEN "pkcs8"
    ELSE None

\* jsonwebtoken's EncodingKey::from_ec_pem, which is given the file itself, knows
\* PKCS#8 alone.
from_ec_pem(file) == file \in {"pkcs8", "pkcs8_p384"}

\* StaticKeyManager: ring wants a key of P-256.
from_pem(file) == parse_ec_private_key_pem(file) = "pkcs8" /\ from_ec_pem(file)

\* The KMS client: that of AWS goes before that of GCP, which is a stub and
\* signs nothing.
KmsSigns(k) == k.aws_kms # None

\* KmsDelegatedKeyManager::new reads the durations, the stored keys of the
\* purpose and, when there are none, has the KMS attest a first one.
KmsKeysReady(k, stored) ==
    /\ KeyDurationParses(k.rotation_interval) /\ KeyDurationParses(k.key_overlap)
    /\ storeUp
    /\ stored \/ KmsSigns(k)

KeyManagerReady(sb, stored) ==
    IF sb.backend = "memory" THEN from_pem(sb.memory.key_path) ELSE KmsKeysReady(sb.kms_delegated, stored)

\* The store or the KMS lets a call down.
KeyManagerFails(sb) == sb.backend = "kms_delegated"

\* The legacy [signing] section is a memory backend.
SigningBackendOf(c) ==
    IF c.signing_backend # None THEN c.signing_backend
    ELSE [backend |-> "memory", memory |-> [key_path |-> c.key_path], kms_delegated |-> None]

\* `stored`: the store holds keys of an earlier run.
BuildSigning(stored) ==
    /\ pc = "signing"
    /\ LET sb == SigningBackendOf(config)
       IN  \/ KeyManagerReady(sb, stored) /\ Build("authority", [app EXCEPT !.signing = sb.backend])
           \/ ~KeyManagerReady(sb, stored) /\ Panic
           \/ KeyManagerFails(sb) /\ PanicByFault

\* KmsBackedAuthority, or LocalAuthority.
AuthorityOf(c) ==
    [kms |-> c.ca_backend # None, ttl |-> c.ca.ttl_secs, ca |-> "qm-ca", include_billets_ou |-> c.ca.include_billets_ou]

\* A key manager of the CA is built and kept; the CA signs with the key of the
\* PEM file all the same.
BuildAuthority(stored) ==
    /\ pc = "authority"
    /\ LET ready == CaParses(config.ca) /\ (config.ca_backend # None => KeyManagerReady(config.ca_backend, stored))
       IN  \/ ready /\ Build("bootstrap", [app EXCEPT !.authority = AuthorityOf(config)])
           \/ ~ready /\ Panic
           \/ config.ca_backend # None /\ KeyManagerFails(config.ca_backend) /\ PanicByFault

-----------------------------------------------------------------------------
(* System billets, audit, policy sync. *)

\* An error is logged; what is written is the subject of AdminCrud.
Bootstrap == pc = "bootstrap" /\ Build("audit", app)

AuditOf(c) == IF c.audit = None THEN audit_default ELSE c.audit

\* A file that does not open costs its sink; a channel of no capacity panics.
build_sinks(audit, opens) == {s \in audit.sinks : s = "file" => opens}

StartAudit ==
    /\ pc = "audit"
    /\ LET audit == AuditOf(config)
       IN  \/ audit.buffer_capacity = 0 /\ Panic
           \/ audit.buffer_capacity # 0 /\ Build("sync", [app EXCEPT !.sinks = build_sinks(audit, TRUE)])
           \/ /\ audit.buffer_capacity # 0 /\ "file" \in audit.sinks
              /\ Fault
              /\ pc' = "sync" /\ app' = [app EXCEPT !.sinks = build_sinks(audit, FALSE)] /\ StageFrame

StartSync ==
    /\ pc = "sync" /\ pc' = "wait"
    /\ sync' = [sync EXCEPT !.alive = TRUE]
    /\ UNCHANGED <<env, config, app, polls, storeUp, faults>>

\* 5 s in steps of 100 ms; without a first sync the service starts all the same.
WaitForSync ==
    /\ pc = "wait"
    /\ \/ (sync.initialized \/ polls = MaxPolls) /\ pc' = "cache" /\ UNCHANGED polls
       \/ ~sync.initialized /\ polls < MaxPolls /\ polls' = polls + 1 /\ UNCHANGED pc
    /\ UNCHANGED <<env, config, app, worldVars>>

\* Mutant: the task ends with its first error.
StopsOnError == resolve_policy_sync_interval(config) = 0 \/ ~storeUp

\* tokio::time::interval(0) panics, once the first sync is done.
SyncStops == resolve_policy_sync_interval(config) = 0

\* The task's first sync, and those of its interval: one that fails leaves all
\* as it was.  PolicySync has the steps of sync_once.
SyncOnce ==
    /\ sync.alive
    /\ sync' = [alive |-> ~SyncStops, initialized |-> sync.initialized \/ storeUp]
    /\ UNCHANGED <<mainVars, storeUp, faults>>

-----------------------------------------------------------------------------
(* Cache and identity sources. *)

\* redis::Client::open refuses what is no URL of Redis, and rediss:// too: the
\* crate is built without its TLS features.
ClientOpens(url) == url \notin {"not a URL", "rediss://"}

CacheOpens(c) == c.cache.backend = "redis" => c.redis # None /\ ClientOpens(c.redis)

\* A URL that opens still has to connect.
BuildCache ==
    /\ pc = "cache"
    /\ \/ CacheOpens(config) /\ Build("patterns", [app EXCEPT !.cache = config.cache.backend])
       \/ ~CacheOpens(config) /\ Panic
       \/ CacheOpens(config) /\ config.cache.backend = "redis" /\ PanicByFault

\* Without patterns the matcher has no trust domain, and extracts nothing.
MatcherOf(c) ==
    IF SpireSource(c) # None /\ SpireSource(c).path_patterns # <<>>
    THEN [trust_domain |-> SpireSource(c).trust_domain, patterns |-> SpireSource(c).path_patterns]
    ELSE [trust_domain |-> <<>>, patterns |-> <<>>]

CompilePatterns ==
    /\ pc = "patterns"
    /\ IF PatternsCompile(MatcherOf(config).patterns)
       THEN Build("identity", [app EXCEPT !.matcher = MatcherOf(config)])
       ELSE Panic

\* The source of SVIDs: the legacy section counts only where there is no
\* [identity], and its audience is the issuer.
SpireInForce(c) ==
    IF c.identity # None THEN SpireSource(c)
    ELSE IF c.spire # None THEN [trust_domain |-> c.spire.trust_domain, audience |-> c.issuer,
                                 jwks_path |-> c.spire.trust_bundle_path]
    ELSE None

SpireValidatorOf(c) ==
    LET s == SpireInForce(c)
    IN  IF s = None THEN None
        ELSE [trust_domain |-> s.trust_domain, audience |-> s.audience, keys |-> parse_jwks(s.jwks_path)]

OidcValidatorOf(c) == IF OidcSources(c) = <<>> THEN None ELSE OidcSources(c)

ValidatorsOf(c) ==
    [spire |-> SpireValidatorOf(c), oidc |-> OidcValidatorOf(c), aws_sts |-> AwsStsSource(c), gcp |-> GcpSource(c),
     jwks |-> IF c.identity = None THEN <<>> ELSE JwksSources(c.identity)]

BuildIdentity ==
    /\ pc = "identity"
    /\ IF SpireInForce(config) # None /\ ~BundleParses(SpireInForce(config).jwks_path) THEN Panic
       ELSE Build("mtls", [app EXCEPT !.validators = ValidatorsOf(config)])

\* Client certificates need [server.tls] and the bundle of [identity.spire].
X509Bundle(c) ==
    IF c.server.tls = None \/ SpireSource(c) = None THEN None ELSE SpireSource(c).x509_bundle_path

MtlsOf(c) ==
    IF X509Bundle(c) = None THEN None ELSE [trust_domain |-> SpireSource(c).trust_domain, anchors |-> X509Bundle(c)]

BuildMtls ==
    /\ pc = "mtls"
    /\ IF X509Bundle(config) # None /\ ~AnchorsParse(X509Bundle(config)) THEN Panic
       ELSE Build("tls", [app EXCEPT !.mtls = MtlsOf(config), !.algorithm = config.algorithm])

-----------------------------------------------------------------------------
(* Listeners. *)

build_tls_config(t) == t.cert_path = "pem" /\ t.key_path = "pem"

BuildTls ==
    /\ pc = "tls"
    /\ IF config.server.tls # None /\ ~build_tls_config(config.server.tls) THEN Panic
       ELSE Build("listen", [app EXCEPT !.tls = config.server.tls # None])

data_routes == {"openapi", "token", "openid-configuration", "jwks", "ca/chain", "healthz", "billets/name", "billets/me"}
admin_routes == {"admin/billets", "admin/billet", "admin/policies", "admin/policy"}

build_main_router(include_admin) == IF include_admin THEN data_routes \cup admin_routes ELSE data_routes
build_admin_router == admin_routes

\* The admin listener, where there is one, never uses TLS.
SplitListeners == [main |-> [tls |-> app.tls, routes |-> build_main_router(FALSE)],
                   admin |-> [tls |-> FALSE, routes |-> build_admin_router]]
CombinedListener == [main |-> [tls |-> app.tls, routes |-> build_main_router(TRUE)]]

\* Whether TcpListener::bind can make a socket address of the text.
AddressParses(addr) == addr # "not an address"

\* Both listeners on one address cannot be.
AddressesBind(s) ==
    /\ AddressParses(s.host)
    /\ s.admin_addr # None => AddressParses(s.admin_addr) /\ s.admin_addr # "main address"

\* An address that parses may still be taken.
Listen ==
    /\ pc = "listen"
    /\ LET listeners == IF config.server.admin_addr = None THEN CombinedListener ELSE SplitListeners
       IN  \/ AddressesBind(config.server) /\ Build("serving", [app EXCEPT !.listeners = listeners])
           \/ ~AddressesBind(config.server) /\ Panic
           \/ AddressesBind(config.server) /\ PanicByFault

-----------------------------------------------------------------------------
(* The world, and the whole. *)

StoreFails ==
    /\ storeUp /\ storeUp' = FALSE /\ Fault
    /\ UNCHANGED <<mainVars, sync>>

StoreRecovers ==
    /\ ~storeUp /\ storeUp' = TRUE
    /\ UNCHANGED <<mainVars, sync, faults>>

MainStep ==
    \/ LoadConfig \/ BuildDataStore \/ (\E stored \in BOOLEAN : BuildSigning(stored) \/ BuildAuthority(stored))
    \/ Bootstrap \/ StartAudit \/ StartSync \/ WaitForSync \/ BuildCache \/ CompilePatterns
    \/ BuildIdentity \/ BuildMtls \/ BuildTls \/ Listen

Running == pc # "exited"
=============================================================================
