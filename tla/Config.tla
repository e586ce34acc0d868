------------------------------- MODULE Config -------------------------------
(***************************************************************************)
(* The configuration: what Config::load makes of the environment and of the *)
(* TOML file, and what validate refuses.  A configuration is a record of    *)
(* sections; a section that is left out is None.                            *)
(*                                                                         *)
(* Texts are abstracted to what is asked of them: blank or not, a number or *)
(* not, a duration [value, suffix], a URL or an address that can be used or *)
(* not.  A prefix has a name, by which two are the same, and the classes of *)
(* its characters.  A path stands for what the file holds when it is read.  *)
(***************************************************************************)
EXTENDS Integers, Sequences, FiniteSets

CONSTANTS
    None,          \* a section, a variable or a value that is not there
    NotANumber,    \* a text that does not parse as a number
    Unreadable,    \* a file that is missing, or that does not parse
    U64            \* the number of values of a u64: 2^64, less in instances

ASSUME ConfigAssumption == U64 \in Nat \ {0} /\ Cardinality({None, NotANumber, Unreadable}) = 3

-----------------------------------------------------------------------------
(* The file, as serde hands it on: its sections, and the values of its enums. *)

sections == {"issuer", "token_ttl_secs", "spire", "dynamo", "algorithm", "key_path", "ca", "cache", "redis",
             "requests_per_minute", "server", "audit", "datastore", "signing_backend", "ca_backend", "identity"}

datastore_backends == {"dynamodb", "firestore", "local"}
signing_backends == {"memory", "kms_delegated"}

ASSUME NoneAssumption == None \notin datastore_backends

IsRecord(r, fields) == r = [x \in fields |-> r[x]]

DatastoreTyped(ds) ==
    /\ IsRecord(ds, {"backend", "dynamodb", "firestore", "local", "policy_sync_interval_secs"})
    /\ ds.backend \in datastore_backends \cup {None}

SigningTyped(sb) ==
    /\ IsRecord(sb, {"backend", "memory", "kms_delegated"})
    /\ sb.backend \in signing_backends \cup {None}

FileTyped(f) ==
    /\ IsRecord(f, sections)
    /\ f.datastore # None => DatastoreTyped(f.datastore)
    /\ f.signing_backend # None => SigningTyped(f.signing_backend)
    /\ f.ca_backend # None => SigningTyped(f.ca_backend)
    /\ f.identity # None => Len(f.identity.oidc) \in Nat /\ \A i \in 1..Len(f.identity.oidc) : f.identity.oidc[i] # None

-----------------------------------------------------------------------------
(* Durations. *)

UnitSeconds == [s |-> 1, m |-> 60, h |-> 3600, d |-> 86400]

\* config::identity::parse_duration reads a u64 and one of five suffixes; no
\* suffix means seconds.  The multiplication wraps in a release build.
DurationParses(t) == t.value \in Nat /\ t.value < U64 /\ t.suffix \in DOMAIN UnitSeconds \cup {"ms", ""}

parse_duration(t) ==
    CASE t.suffix = "ms" -> t.value \div 1000
      [] t.suffix = ""   -> t.value
      [] OTHER           -> (t.value * UnitSeconds[t.suffix]) % U64

\* tokio::time::interval panics on zero, and 0ms is not the only way to get it.
ZeroInterval(t) == IF t.suffix = "ms" THEN t.value = 0 ELSE parse_duration(t) = 0

\* The key manager has a parser of its own: the last character is the suffix,
\* so "30" and "5ms" are refused, and the number is signed.
KeyDurationParses(t) == t.value \in Int /\ t.suffix \in DOMAIN UnitSeconds

-----------------------------------------------------------------------------
(* Defaults. *)

defaults == [ttl_secs |-> 300, policy_sync_interval_secs |-> 30, algorithm |-> "ES256",
             requests_per_minute |-> 10, buffer_capacity |-> 10000, cache |-> "memory", host |-> "0.0.0.0"]

Default(v, d) == IF v = None THEN d ELSE v

backend_defaults == [datastore |-> "local", signing |-> "memory",
                     rotation_interval |-> [value |-> 6, suffix |-> "h"],
                     key_overlap |-> [value |-> 24, suffix |-> "h"]]

\* #[serde(default)]: what the file leaves out of a section.
DynamoSection(d) ==
    IF d = None THEN None
    ELSE [d EXCEPT !.policy_sync_interval_secs = Default(@, defaults.policy_sync_interval_secs)]

CaSection(ca) == [ca EXCEPT !.ttl_secs = Default(@, defaults.ttl_secs), !.include_billets_ou = Default(@, FALSE)]

CacheSection(c) ==
    [c EXCEPT !.backend = Default(@, defaults.cache), !.ttl_secs = Default(@, defaults.ttl_secs)]

ServerSection(s) == [s EXCEPT !.host = Default(@, defaults.host)]

DatastoreSection(ds) ==
    IF ds = None THEN None
    ELSE [ds EXCEPT !.backend = Default(@, backend_defaults.datastore),
                    !.policy_sync_interval_secs = Default(@, defaults.policy_sync_interval_secs)]

KmsSection(k) ==
    IF k = None THEN None
    ELSE [k EXCEPT !.rotation_interval = Default(@, backend_defaults.rotation_interval),
                   !.key_overlap = Default(@, backend_defaults.key_overlap)]

SigningSection(sb) ==
    IF sb = None THEN None
    ELSE [sb EXCEPT !.backend = Default(@, backend_defaults.signing), !.kms_delegated = KmsSection(@)]

audit_default == [buffer_capacity |-> defaults.buffer_capacity, sinks |-> {"stdout"}]

AuditSection(a) ==
    IF a = None THEN None
    ELSE [buffer_capacity |-> Default(a.buffer_capacity, audit_default.buffer_capacity),
          sinks |-> Default(a.sinks, audit_default.sinks)]

Deserialized(f) ==
    [f EXCEPT !.token_ttl_secs = Default(@, defaults.ttl_secs),
              !.dynamo = DynamoSection(@),
              !.algorithm = Default(@, defaults.algorithm),
              !.ca = CaSection(@),
              !.cache = CacheSection(@),
              !.requests_per_minute = Default(@, defaults.requests_per_minute),
              !.server = ServerSection(@),
              !.audit = AuditSection(@),
              !.datastore = DatastoreSection(@),
              !.signing_backend = SigningSection(@),
              !.ca_backend = SigningSection(@)]

-----------------------------------------------------------------------------
(* Validation. *)

Blank(s) == s \in {"", " "}

\* [a-z0-9][a-z0-9-]*, of the classes of the characters.
is_valid_prefix(p) ==
    /\ p # <<>>
    /\ p[1] \in {"lower", "digit"}
    /\ \A i \in 2..Len(p) : p[i] \in {"lower", "digit", "hyphen"}

enabled(source) == source # None /\ source.enabled

HasSource(id) == id.spire # None \/ id.oidc # <<>> \/ enabled(id.aws_sts) \/ enabled(id.gcp)

\* The claim mappings of all providers: <<provider, mapping>> positions.
MappingsOf(id) == UNION {{<<i, j>> : j \in 1..Len(id.oidc[i].implicit_claims)} : i \in 1..Len(id.oidc)}
Mapping(id, at) == id.oidc[at[1]].implicit_claims[at[2]]

ValidIdentity(id) ==
    /\ HasSource(id)
    /\ \A i, j \in 1..Len(id.oidc) : i # j => id.oidc[i].name # id.oidc[j].name
    /\ \A a, b \in MappingsOf(id) : a # b => Mapping(id, a).name # Mapping(id, b).name
    /\ \A i \in 1..Len(id.oidc) : is_valid_prefix(id.oidc[i].prefix) /\ id.oidc[i].issuer # "not a URL"
    /\ \A a \in MappingsOf(id) : is_valid_prefix(Mapping(id, a).billet_prefix)

\* The interval is not looked at, in contrast to that of [dynamo].
ValidDatastore(ds) ==
    /\ ds.backend = "dynamodb" => ds.dynamodb # None /\ ~Blank(ds.dynamodb.region)
    /\ ds.backend = "firestore" => ds.firestore # None /\ ~Blank(ds.firestore.project)

ValidKms(k) ==
    /\ k.aws_kms # None \/ k.gcp_kms # None
    /\ k.aws_kms # None => ~Blank(k.aws_kms.key_arn) /\ ~Blank(k.aws_kms.region)
    /\ k.gcp_kms # None => ~Blank(k.gcp_kms.key_name)

ValidSigningBackend(sb) ==
    /\ sb.backend = "memory" => sb.memory # None /\ ~Blank(sb.memory.key_path)
    /\ sb.backend = "kms_delegated" => sb.kms_delegated # None /\ ValidKms(sb.kms_delegated)

valid_algorithms == {"ES256", "ES384", "RS256", "RS384", "RS512", "PS256", "PS384", "PS512"}

\* Mutant: the address of Redis is not asked for.
RedisUnchecked(c) == TRUE

RedisThere(c) == c.cache.backend = "redis" => c.redis # None

\* Of a URL of Redis, and of the addresses in [server], nothing is asked.
validate(c) ==
    /\ ~Blank(c.issuer)
    /\ c.spire # None => \E i \in 1..Len(c.spire.trust_domain) : ~Blank(c.spire.trust_domain[i])
    /\ c.algorithm \in valid_algorithms
    /\ c.ca.ttl_secs # 0 /\ c.token_ttl_secs # 0 /\ c.cache.ttl_secs # 0
    /\ c.dynamo # None => c.dynamo.policy_sync_interval_secs # 0 /\ ~Blank(c.dynamo.region)
    /\ c.requests_per_minute # 0
    /\ RedisThere(c)
    /\ c.datastore # None => ValidDatastore(c.datastore)
    /\ c.signing_backend # None => ValidSigningBackend(c.signing_backend)
    /\ c.ca_backend # None => ValidSigningBackend(c.ca_backend)
    /\ c.identity # None => ValidIdentity(c.identity)

-----------------------------------------------------------------------------
(* Loading.  Each answers a configuration, or None for an error. *)

\* Durations of the identity sources are read while the file is parsed.
IntervalsParse(id) ==
    id # None =>
      \A source \in {id.oidc[i] : i \in 1..Len(id.oidc)} \cup ({id.gcp} \ {None}) :
          DurationParses(source.jwks_refresh_interval) /\ DurationParses(source.max_staleness)

from_toml_file(f) ==
    IF f = Unreadable \/ ~IntervalsParse(f.identity) THEN None
    ELSE IF validate(Deserialized(f)) THEN Deserialized(f) ELSE None

env_required == {"QM_ISSUER", "QM_SPIRE_TRUST_DOMAIN", "QM_SPIRE_TRUST_BUNDLE_PATH", "QM_DYNAMO_REGION",
                 "QM_SIGNING_KEY_PATH", "QM_CA_KEY_PATH", "QM_CA_CERT_PATH"}

env_numbers == {"QM_TOKEN_TTL_SECS", "QM_CA_TTL_SECS", "QM_CACHE_TTL_SECS", "QM_RATE_REQUESTS_PER_MINUTE",
                "QM_DYNAMO_POLICY_SYNC_INTERVAL_SECS", "QM_SERVER_PORT"}

env_optional == {"QM_SIGNING_ALGORITHM", "QM_CACHE_BACKEND", "QM_REDIS_URL", "QM_SERVER_HOST"}

EnvReadable(e) ==
    /\ \A k \in env_required : e[k] # None
    /\ \A k \in env_numbers : e[k] # NotANumber

\* A cache backend that is not "redis" is memory, whatever it says.  The
\* environment knows no [identity], no [server.tls] and no backends.
EnvConfig(e) ==
    [issuer |-> e["QM_ISSUER"],
     token_ttl_secs |-> Default(e["QM_TOKEN_TTL_SECS"], defaults.ttl_secs),
     spire |-> [trust_domain |-> e["QM_SPIRE_TRUST_DOMAIN"], trust_bundle_path |-> e["QM_SPIRE_TRUST_BUNDLE_PATH"]],
     dynamo |-> [region |-> e["QM_DYNAMO_REGION"],
                 policy_sync_interval_secs |-> Default(e["QM_DYNAMO_POLICY_SYNC_INTERVAL_SECS"],
                                                       defaults.policy_sync_interval_secs)],
     algorithm |-> Default(e["QM_SIGNING_ALGORITHM"], defaults.algorithm),
     key_path |-> e["QM_SIGNING_KEY_PATH"],
     ca |-> [key_path |-> e["QM_CA_KEY_PATH"], cert_path |-> e["QM_CA_CERT_PATH"],
             ttl_secs |-> Default(e["QM_CA_TTL_SECS"], defaults.ttl_secs), include_billets_ou |-> FALSE],
     cache |-> [backend |-> IF e["QM_CACHE_BACKEND"] = "redis" THEN "redis" ELSE "memory",
                ttl_secs |-> Default(e["QM_CACHE_TTL_SECS"], defaults.ttl_secs)],
     redis |-> e["QM_REDIS_URL"],
     requests_per_minute |-> Default(e["QM_RATE_REQUESTS_PER_MINUTE"], defaults.requests_per_minute),
     server |-> [host |-> Default(e["QM_SERVER_HOST"], defaults.host), admin_addr |-> None, tls |-> None],
     audit |-> None, datastore |-> None, signing_backend |-> None, ca_backend |-> None, identity |-> None]

from_env(e) ==
    IF EnvReadable(e) /\ validate(EnvConfig(e)) THEN EnvConfig(e) ELSE None

\* QM_CONFIG_PATH goes before everything else.
load(e) == IF e["QM_CONFIG_PATH"] # None THEN from_toml_file(e["QM_CONFIG_PATH"]) ELSE from_env(e)

-----------------------------------------------------------------------------
(* What main reads off it. *)

resolve_policy_sync_interval(c) ==
    IF c.datastore # None THEN c.datastore.policy_sync_interval_secs
    ELSE IF c.dynamo # None THEN c.dynamo.policy_sync_interval_secs
    ELSE defaults.policy_sync_interval_secs

SpireSource(c) == IF c.identity = None THEN None ELSE c.identity.spire
OidcSources(c) == IF c.identity = None THEN <<>> ELSE c.identity.oidc
AwsStsSource(c) == IF c.identity # None /\ enabled(c.identity.aws_sts) THEN c.identity.aws_sts ELSE None
GcpSource(c) == IF c.identity # None /\ enabled(c.identity.gcp) THEN c.identity.gcp ELSE None
=============================================================================
