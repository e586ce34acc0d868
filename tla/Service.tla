------------------------------ MODULE Service ------------------------------
(***************************************************************************)
(* The service that main has started: POST /token from the credential to    *)
(* the certificate, the health check and the documents, over the validators *)
(* and listeners that the configuration led to.                             *)
(*                                                                         *)
(* A request to /token is one step: the awaits in it are those of           *)
(* TokenExchange and BilletResolution, which also have the rate limiter, the *)
(* evaluation of policies and the assembly of billets.  Here the limiter    *)
(* may refuse, and Cedar grants any of `Grants`.                            *)
(***************************************************************************)
EXTENDS Startup

CONSTANTS
    Requests,        \* [params, audience, token, csr]
    ClientCerts,     \* certificates that clients bring along
    Grants,          \* what Cedar may answer: sequences of billets
    MaxClock,        \* bound: the time
    MaxRequests      \* bound: requests to /token

\* A SPIRE server signs nothing but SPIFFE IDs; a certificate may name anything
\* else beside them.
IsSpiffeId(u) == u = URI("spiffe", u.domain, u.path)

ASSUME ServiceAssumption ==
    /\ MaxClock \in Nat /\ MaxRequests \in Nat
    /\ \A g \in Grants : g \in Seq(ToSet(g))
    /\ \A q \in Requests :
         /\ q.audience \in Seq(ToSet(q.audience))
         /\ q.token # None /\ q.token.type = "spire" => IsSpiffeId(q.token.sub)
         /\ q.csr \notin {None, Unreadable} => q.csr.len \in Nat /\ q.csr.rest \in Nat
    /\ \A c \in ClientCerts :
         /\ c.sans \in Seq(ToSet(c.sans))
         /\ \A i \in 1..Len(c.sans) : c.sans[i].scheme = "spiffe" => IsSpiffeId(c.sans[i])

VARIABLES
    clock,
    cache,           \* cache[key]: [evaluated, billets, expires]
    certs,           \* certificates issued: [cert, root], the root being the
                     \* subject whose token the chain of certificates began with
    probe,           \* GET /healthz under way: [at, status]
    reply,           \* the answer that the step just taken has given, if any
    served           \* requests to /token so far

serveVars == <<clock, cache, certs, probe, reply, served>>
vars == <<startVars, serveVars>>

NoReply == [endpoint |-> "none", answer |-> "none"]
NoProbe == [at |-> "idle", status |-> "healthy"]
Statuses == <<"healthy", "degraded", "unhealthy">>

ServiceInit ==
    /\ StartInit
    /\ clock = 0 /\ cache = <<>> /\ certs = {} /\ probe = NoProbe /\ reply = NoReply /\ served = 0

Serves(route) == {l \in DOMAIN app.listeners : route \in app.listeners[l].routes}

-----------------------------------------------------------------------------
(* Identity. *)

\* serve_tls hands the client's certificate on, whatever it is; a plain
\* listener has none.  The leaf counts.
PeerCertificate(l, c) == IF app.listeners[l].tls THEN c ELSE None

extract_mtls_identity(c) ==
    IF c = None \/ app.mtls = None THEN None ELSE CertificateIdentity(app.mtls, c, clock)

\* An explicit token goes before a certificate, and is not made up for by one.
Identify(q, c, fresh) ==
    CASE ~q.params -> Error("unknown_token_type")
      [] q.params /\ q.token # None -> Dispatch(app.validators, q.token, clock, fresh)
      [] OTHER -> LET id == extract_mtls_identity(c) IN IF id = None THEN Error("unknown_token_type") ELSE id

-----------------------------------------------------------------------------
(* Resolution. *)

\* The text of a subject, in the pieces between its colons; an audience is such
\* a sequence too.  Accounts, names, projects and addresses are taken to have no
\* colon of their own, as AWS and SPIFFE have it.
Pieces(subject) ==
    IF subject.scheme = "spiffe" THEN <<"spiffe", <<subject.domain, subject.path>>>> ELSE <<subject.scheme>> \o subject.path

cache_key(subject, audience) == Pieces(subject) \o audience

Cached(k) == k \in DOMAIN cache /\ clock < cache[k].expires

CacheSet(k, evaluated, billets) ==
    [x \in DOMAIN cache \cup {k} |->
        IF x = k THEN [evaluated |-> evaluated, billets |-> billets, expires |-> clock + config.cache.ttl_secs]
        ELSE cache[x]]

\* Redis may fail to answer: a get that fails is a miss, a set that fails is
\* not missed.
RedisFails == app.cache = "redis" /\ Fault

-----------------------------------------------------------------------------
(* POST /token. *)

\* What the identity was read from: the token, or else the certificate.
Credentials(q, c) == [token |-> q.token, peer |-> IF q.token = None THEN c ELSE None]

Answer(q, c, answer, id) ==
    [endpoint |-> "token", answer |-> answer, identity |-> id, from |-> Credentials(q, c), csr |-> q.csr]

Refuse(q, c, answer, id) ==
    reply' = Answer(q, c, answer, id) /\ UNCHANGED <<cache, certs, faults>>

RefuseIdentity(q, c, id) ==
    id.type \in IdentityErrors /\ Refuse(q, c, identity_error_to_domain_error[id.type], id)

\* The subject that the chain of certificates of this request began with.
RootOf(c, id, q) ==
    LET own == {x \in certs : x.cert = c}
    IN  IF q.token = None /\ own # {} THEN (CHOOSE x \in own : TRUE).root ELSE format_subject(id)

CertificateFor(q, id, billets) ==
    IF app.authority.kms THEN KmsIssue(app.authority, q.csr, format_subject(id), billets, clock)
    ELSE issue(app.authority, q.csr, format_subject(id), billets, clock)

\* The JWT, of billets that Cedar has granted to `evaluated`, now or for the
\* request that the cache has kept the answer of.
TokenAnswer(q, c, id, evaluated, cached) ==
    [endpoint |-> "token", answer |-> "ok", identity |-> id, from |-> Credentials(q, c), csr |-> q.csr,
     claim |-> build_identity_claim(id), evaluated |-> evaluated, cached |-> cached]

Certified(q, id, billets) == q.csr \notin {None, Unreadable} /\ Issues(q.csr, format_subject(id), billets)

\* The billets are there: the JWT, and a certificate if one is asked for.
Grant(q, c, id, evaluated, cached, billets) ==
    \/ /\ q.csr = None
       /\ reply' = TokenAnswer(q, c, id, evaluated, cached) /\ UNCHANGED certs
    \/ /\ q.csr # None /\ ~Certified(q, id, billets)
       /\ reply' = Answer(q, c, "invalid_request", id) /\ UNCHANGED certs
    \/ /\ Certified(q, id, billets)
       /\ reply' = TokenAnswer(q, c, id, evaluated, cached)
       /\ certs' = certs \cup {[cert |-> CertificateFor(q, id, billets), root |-> RootOf(c, id, q)]}

FromCache(q, c, id) ==
    LET k == cache_key(format_subject(id), q.audience)
    IN  Cached(k) /\ Grant(q, c, id, cache[k].evaluated, TRUE, cache[k].billets) /\ UNCHANGED <<cache, faults>>

\* A miss, or no answer of Redis.
FromPolicies(q, c, id) ==
    LET k == cache_key(format_subject(id), q.audience)
        request == AuthzRequest(app.matcher, id)
    IN  /\ \/ ~Cached(k) /\ UNCHANGED faults
           \/ RedisFails
        /\ \/ ~sync.initialized /\ reply' = Answer(q, c, "not_initialized", id) /\ UNCHANGED <<cache, certs>>
           \/ sync.initialized /\ reply' = Answer(q, c, "insufficient_scope", id) /\ UNCHANGED <<cache, certs>>
           \/ /\ sync.initialized
              /\ \E g \in Grants :
                   /\ Grant(q, c, id, request, FALSE, g)
                   /\ \/ cache' = CacheSet(k, request, g)
                      \/ app.cache = "redis" /\ UNCHANGED cache

Token(l, q, presented, fresh) ==
    LET c == PeerCertificate(l, presented)
        id == Identify(q, c, fresh)
    IN  /\ pc = "serving" /\ l \in Serves("token") /\ served < MaxRequests
        /\ \/ RefuseIdentity(q, c, id)
           \/ /\ id.type \notin IdentityErrors
              /\ Refuse(q, c, "rate_limited", id) \/ FromCache(q, c, id) \/ FromPolicies(q, c, id)
        /\ served' = served + 1
        /\ UNCHANGED <<clock, probe, mainVars, sync, storeUp>>

-----------------------------------------------------------------------------
(* GET /healthz, one check after the other; the worst counts. *)

Worst(a, b) ==
    LET rank(s) == CHOOSE i \in 1..3 : Statuses[i] = s IN IF rank(a) < rank(b) THEN b ELSE a

\* KeyHealth: a memory backend is always healthy; KeyManager has the other.
KeyHealths == IF app.signing = "memory" THEN {"healthy"} ELSE {"healthy", "degraded", "unhealthy"}

SyncHealth == IF sync.initialized THEN "healthy" ELSE "degraded"

Check(at, next, status) ==
    /\ pc = "serving" /\ probe.at = at
    /\ probe' = [at |-> next, status |-> Worst(probe.status, status)]
    /\ reply' = NoReply
    /\ UNCHANGED <<startVars, clock, cache, certs, served>>

PingStore == Check("idle", "key", IF storeUp THEN "healthy" ELSE "unhealthy")

CheckKey == \E h \in KeyHealths : Check("key", "sync", h)

\* 503 only if unhealthy.
CheckSync ==
    LET status == Worst(probe.status, SyncHealth)
    IN  /\ pc = "serving" /\ probe.at = "sync"
        /\ probe' = NoProbe
        /\ reply' = [endpoint |-> "healthz", answer |-> IF status = "unhealthy" THEN "503" ELSE "200"]
        /\ UNCHANGED <<startVars, clock, cache, certs, served>>

-----------------------------------------------------------------------------
(* Documents. *)

\* The discovery document: what the configuration says of the algorithm.
DiscoveryDocument == [issuer |-> config.issuer, jwks_uri |-> <<config.issuer, "jwks.json">>,
                      id_token_signing_alg_values_supported |-> {app.algorithm}]

\* The algorithms of the published keys: both key managers make ES256 keys.
jwks == {"ES256"}

OpenidConfiguration ==
    /\ pc = "serving" /\ Serves("openid-configuration") # {}
    /\ reply' = [endpoint |-> "openid-configuration", answer |-> "200", document |-> DiscoveryDocument, keys |-> jwks]
    /\ UNCHANGED <<startVars, clock, cache, certs, probe, served>>

-----------------------------------------------------------------------------
(* The whole. *)

Quiet == reply' = NoReply /\ UNCHANGED <<cache, certs, probe, served>>

Tick == clock < MaxClock /\ pc = "serving" /\ clock' = clock + 1 /\ Quiet /\ UNCHANGED startVars

Main == MainStep /\ Quiet /\ UNCHANGED clock
Sync == Running /\ SyncOnce /\ Quiet /\ UNCHANGED clock
Recover == Running /\ StoreRecovers /\ Quiet /\ UNCHANGED clock
Outage == Running /\ StoreFails /\ Quiet /\ UNCHANGED clock

\* Keys of token issuers are there, or not; who has no token may use a
\* certificate of their own or of anybody.
Freshness(q) ==
    IF q.token # None /\ q.token.type \in {"oidc", "gcp"} THEN {Refreshed(app.validators.jwks, clock), {}} ELSE {{}}
Presentable(q) == {None} \cup ClientCerts \cup (IF q.token = None THEN {x.cert : x \in certs} ELSE {})

Requested ==
    \E l \in DOMAIN app.listeners, q \in Requests :
        \E c \in Presentable(q), fresh \in Freshness(q) : Token(l, q, c, fresh)

Next == Main \/ Sync \/ Recover \/ Outage \/ Requested \/ PingStore \/ CheckKey \/ CheckSync \/ OpenidConfiguration \/ Tick

\* main runs on, the sync task is scheduled, and outages of the store end.
Spec == ServiceInit /\ [][Next]_vars /\ WF_vars(Main) /\ WF_vars(Sync) /\ WF_vars(Recover)

-----------------------------------------------------------------------------
(* Properties. *)

\* Type correctness; AppState is complete, and that of the configuration, when the
\* listeners are up, and no request is served before (main, build_main_router).
ServiceTypes ==
    /\ pc \in Stages \cup {"serving", "exited"}
    /\ polls \in 0..MaxPolls /\ faults \in 0..MaxFaults /\ clock \in 0..MaxClock /\ served \in 0..MaxRequests
    /\ sync \in [alive : BOOLEAN, initialized : BOOLEAN] /\ storeUp \in BOOLEAN
    /\ probe \in [at : {"idle", "key", "sync"}, status : ToSet(Statuses)]
    /\ pc = "serving" =>
         /\ app.store = StoreKind(config) /\ StoreBuilds(app.store)
         /\ app.signing = SigningBackendOf(config).backend
         /\ app.authority = AuthorityOf(config) /\ app.cache = config.cache.backend
         /\ app.matcher = MatcherOf(config) /\ app.validators = ValidatorsOf(config)
         /\ app.mtls = MtlsOf(config) /\ app.algorithm \in valid_algorithms
    /\ pc # "serving" => reply = NoReply /\ app.listeners = <<>>

Backends(c) == {c.signing_backend, c.ca_backend} \ {None}

FilesReadable(c) ==
    /\ c.signing_backend = None => c.key_path \in {"pkcs8", "sec1"}
    /\ \A sb \in Backends(c) : sb.backend = "memory" => sb.memory.key_path \in {"pkcs8", "sec1"}
    /\ CaParses(c.ca)
    /\ SpireInForce(c) # None => BundleParses(SpireInForce(c).jwks_path)
    /\ X509Bundle(c) # None => AnchorsParse(X509Bundle(c))
    /\ c.server.tls # None => build_tls_config(c.server.tls)

\* What validate lets through and main does not survive.
ValidationGap(c) ==
    \/ c.datastore = None /\ c.dynamo = None
    \/ c.datastore # None /\ c.datastore.backend = "firestore" /\ ~GcpFeature
    \/ c.signing_backend = None /\ c.key_path = "sec1"
    \/ \E sb \in Backends(c) :
          \/ sb.backend = "memory" /\ sb.memory.key_path = "sec1"
          \/ /\ sb.backend = "kms_delegated"
             /\ LET k == sb.kms_delegated
                IN  k.aws_kms = None \/ ~KeyDurationParses(k.rotation_interval) \/ ~KeyDurationParses(k.key_overlap)
    \/ c.audit # None /\ c.audit.buffer_capacity = 0
    \/ SpireSource(c) # None /\ ~PatternsCompile(SpireSource(c).path_patterns)
    \/ c.cache.backend = "redis" /\ c.redis # None /\ ~ClientOpens(c.redis)
    \/ ~AddressParses(c.server.host)
    \/ c.server.admin_addr # None /\ (~AddressParses(c.server.admin_addr) \/ c.server.admin_addr = "main address")

\* A configuration that Config::validate accepts starts the service, if the
\* files it names are good and nothing outside fails: the unwraps and expects of
\* main find what they need, but for the gaps listed in ValidationGap.
AcceptedConfigStarts ==
    pc = "exited" /\ config # None /\ faults = 0 /\ storeUp /\ FilesReadable(config) => ValidationGap(config)

\* The restrictions that the configuration puts on each source, held against the
\* identity that came out of a token `t` or of a client certificate `c`.

\* The issuer is asked for as the code does, as a prefix of the text: an issuer
\* of a longer domain passes too, and the domain of the subject is not asked for.
SvidWithin(trust_domain, audience, bundle, t) ==
    /\ IsPrefix(trust_domain, t.iss) /\ audience \in t.aud
    /\ \E i \in 1..Len(parse_jwks(bundle)) : parse_jwks(bundle)[i] = t.signer
    /\ Unexpired(t, clock)

\* The legacy section admits only where there is no [identity].
SpireAdmits(id, t) ==
    /\ id.spiffe_id = t.sub
    /\ IF config.identity = None
       THEN /\ config.spire # None
            /\ SvidWithin(config.spire.trust_domain, config.issuer, config.spire.trust_bundle_path, t)
       ELSE LET s == config.identity.spire
            IN  s # None /\ SvidWithin(s.trust_domain, s.audience, s.jwks_path, t)

CertificateAdmits(id, c) ==
    /\ config.server.tls # None /\ config.identity # None
    /\ LET s == config.identity.spire
       IN  /\ s # None /\ s.x509_bundle_path # None
           /\ c.issuer \in s.x509_bundle_path /\ c.not_before <= clock /\ clock <= c.not_after
           /\ id.spiffe_id.scheme = "spiffe" /\ id.spiffe_id.domain = s.trust_domain
           /\ \E i \in 1..Len(c.sans) : c.sans[i] = id.spiffe_id

AwsAdmits(id, t) ==
    /\ config.identity.aws_sts.enabled /\ validate_presigned_url(t)
    /\ id.account_id = t.answer.account /\ Allowed(config.identity.aws_sts.allowed_accounts, id.account_id)

GcpAdmits(id, t) ==
    LET g == config.identity.gcp
    IN  /\ g.enabled /\ t.signer = "google" /\ g.audience \in t.aud /\ Unexpired(t, clock)
        /\ id.project_id = t.project_id /\ Allowed(g.allowed_projects, id.project_id)

\* A provider whose prefix clashes with Google's source.
TakenByGoogle(p) == p.name = "google" /\ enabled(config.identity.gcp)

OidcAdmits(id, t) ==
    \E i \in 1..Len(config.identity.oidc) :
        LET p == config.identity.oidc[i]
        IN  /\ p.name = id.idp_prefix /\ p.issuer = t.iss
            /\ t.signer = p.issuer \/ (TakenByGoogle(p) /\ t.signer = "google")
            /\ p.client_ids \cap t.aud # {} /\ Unexpired(t, clock)

\* Why a token may be refused although it is genuine and for this provider.
OidcRefuses(t) ==
    \A i \in 1..Len(config.identity.oidc) :
        LET p == config.identity.oidc[i]
        IN  p.issuer = t.iss /\ t.signer = t.iss /\ Unexpired(t, clock) /\ p.client_ids \cap t.aud # {}
              /\ None \notin {t.email, t.sub}
            => TakenByGoogle(p) \/ \E j \in 1..(i - 1) : config.identity.oidc[j].issuer = p.issuer

Admitted(id, t, c) ==
    /\ id.type = "spire" /\ t # None => SpireAdmits(id, t)
    /\ id.type = "spire" /\ t = None => CertificateAdmits(id, c)
    /\ id.type = "aws_sts" => AwsAdmits(id, t)
    /\ id.type = "gcp" => GcpAdmits(id, t)
    /\ id.type = "oidc" => OidcAdmits(id, t)
    /\ id.type = "refused" /\ t.type = "oidc" => OidcRefuses(t)

\* An identity is admitted only by a source the operator configured, under the
\* restrictions of that source: trust domain, audience and bundle of SPIRE, trust
\* anchors, accounts, projects, client ids, and the time.  A genuine token of a
\* configured provider is not refused unless its prefix clashes with Google's
\* source or a provider listed before has the same issuer (main's choice of
\* validators, DefaultIdentityDispatcher, the validators themselves,
\* JwksManager::from_config, find_source_by_issuer).
AdmittedAsConfigured ==
    reply.endpoint = "token" => Admitted(reply.identity, reply.from.token, reply.from.peer)

\* What a subject leaves open about its principal, so that principals who differ
\* in it share the entries of the cache: the provider of an address and what it
\* says of it; kind, path and session in the ARN of a name; the zone of a service
\* account.
NotInSubject ==
    [spire |-> {}, oidc |-> {"idp_prefix", "subject", "claims", "groups"}, aws_sts |-> {"role_arn"}, gcp |-> {"zone"}]

Told(attributes, type) == {a \in attributes : a[1] \notin NotInSubject[type]}

\* An AuthzRequest of the same subject.  The id of an AWS principal is its ARN;
\* environment and region are read from a SPIFFE ID in two ways.
SameSubject(own, other, type) ==
    /\ type # "aws_sts" => other.principal.uid = own.principal.uid
    /\ Told(other.principal.attributes, type) = Told(own.principal.attributes, type)
    /\ other.context.source_type = own.context.source_type
    /\ other.context.source_cloud = own.context.source_cloud

\* The billets of a token were granted to its own principal: to all that the
\* credential says of it when they were evaluated for this request, and else, out
\* of the cache, to a principal that differs in nothing but what the subject
\* leaves open.  The joined text of subject and audience is not ambiguous
\* (format_subject, InMemoryCache::cache_key, BilletResolverImpl::resolve).
AnswersFromOwnPrincipal ==
    reply.endpoint = "token" /\ reply.answer = "ok" =>
      LET own == AuthzRequest(app.matcher, reply.identity)
      IN  IF reply.cached THEN SameSubject(own, reply.evaluated, reply.identity.type) ELSE reply.evaluated = own

\* However often a certificate is used to get the next one, the identity that
\* MtlsValidator reads from it is the subject whose token the chain began with:
\* the URIs of billets, and subjects of other sources, are never taken for one
\* (LocalAuthority::issue, MtlsValidator::validate).
CertificatesKeepIdentity ==
    pc = "serving" /\ app.mtls # None =>
      \A x \in certs : LET id == CertificateIdentity(app.mtls, x.cert, clock) IN id # None => id.spiffe_id = x.root

\* What the libraries turn down in a request, whoever has signed it.
TooLong(csr) == RequestLength(csr) > 65535
AsksForUnknown(csr) == \E x \in csr.extensions : x \notin KnownExtensions

\* A certificate request that its key has signed, with an algorithm that is
\* supported, is not turned down, if ring's reader takes its length and rcgen its
\* extensions: up to that length the signed part is put together again byte for
\* byte (LocalAuthority::verify_csr_signature, encode_length, issue).
GoodRequestsCertified ==
    reply.endpoint = "token" /\ reply.answer = "invalid_request" /\ reply.identity.type \notin IdentityErrors =>
      \/ reply.csr = Unreadable
      \/ ~reply.csr.der \/ ~reply.csr.genuine
      \/ TooLong(reply.csr) \/ AsksForUnknown(reply.csr)
      \/ reply.csr.oid \notin DOMAIN oid_to_ring_algorithm
      \/ reply.csr.key # oid_to_ring_algorithm[reply.csr.oid]
      \/ ~Ascii(format_subject(reply.identity)) \/ \E g \in Grants : ~Ascii(URI("", <<>>, g))

\* A configuration with a sync interval leads to a service that answers from
\* policies, or to an end of the process: outages at the start are got over
\* (main's wait, PolicySyncService::start).
EventuallyReady ==
    pc = "datastore" /\ resolve_policy_sync_interval(config) # 0
      ~> pc = "exited" \/ (pc = "serving" /\ sync.initialized)
=============================================================================
