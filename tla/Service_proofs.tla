--------------------------- MODULE Service_proofs ---------------------------
(***************************************************************************)
(* The service from its configuration to its certificates: what main has    *)
(* built at each stage is what the configuration asks for, and what a       *)
(* request is answered, now or out of the cache or along a chain of         *)
(* certificates, is about the identity that it came with.                   *)
(***************************************************************************)
EXTENDS Service, SequenceTheorems, WellFoundedInduction, TLAPS

-----------------------------------------------------------------------------
(* The inductive invariant. *)

ConfigTyped(c) ==
    /\ c.datastore # None => c.datastore.backend \in datastore_backends
    /\ c.signing_backend # None => c.signing_backend.backend \in signing_backends
    /\ c.ca_backend # None => c.ca_backend.backend \in signing_backends
    /\ c.identity # None =>
         Len(c.identity.oidc) \in Nat /\ \A i \in 1..Len(c.identity.oidc) : c.identity.oidc[i] # None

LoadedInv ==
    /\ pc \in Stages \cup {"serving", "exited"}
    /\ pc = "load" => env \in Environments /\ config = None
    /\ pc \notin {"load", "exited"} => config # None
    /\ config # None => validate(config) /\ ConfigTyped(config)

\* What each stage leaves behind.
AppFields == {"store", "signing", "authority", "sinks", "cache", "matcher", "validators", "mtls", "algorithm", "tls",
              "listeners"}

FromMtls      == {"mtls", "tls", "listen", "serving"}
FromIdentity  == FromMtls \cup {"identity"}
FromPatterns  == FromIdentity \cup {"patterns"}
FromBootstrap == FromPatterns \cup {"bootstrap", "audit", "sync", "wait", "cache"}
FromSigning   == FromBootstrap \cup {"signing", "authority"}

\* An AppState `a` as it has to be at stage `at`.
BuiltOf(at, a) ==
    /\ IsRecord(a, AppFields)
    /\ at # "serving" => a.listeners = <<>>
    /\ at \in FromSigning => a.store = StoreKind(config) /\ StoreBuilds(a.store)
    /\ at \in FromBootstrap \cup {"authority"} => a.signing = SigningBackendOf(config).backend
    /\ at \in FromBootstrap => a.authority = AuthorityOf(config)
    /\ at \in FromPatterns => a.cache = config.cache.backend
    /\ at \in FromIdentity => a.matcher = MatcherOf(config)
    /\ at \in FromMtls => a.validators = ValidatorsOf(config)
    /\ at \in FromMtls \ {"mtls"} => a.mtls = MtlsOf(config) /\ a.algorithm = config.algorithm

BuiltInv == BuiltOf(pc, app)

WorldInv ==
    /\ polls \in 0..MaxPolls /\ faults \in 0..MaxFaults
    /\ sync \in [alive : BOOLEAN, initialized : BOOLEAN] /\ storeUp \in BOOLEAN

CountersInv ==
    /\ clock \in 0..MaxClock /\ served \in 0..MaxRequests
    /\ probe \in [at : {"idle", "key", "sync"}, status : ToSet(Statuses)]

\* Before the listeners are up there is nothing to answer from.
QuietInv == pc # "serving" => reply = NoReply /\ cache = <<>> /\ certs = {}

\* What the subject and the principal of an identity rely on.
KnownIdentity(id) ==
    /\ id.type \in Validators
    /\ id.type = "spire" => IsSpiffeId(id.spiffe_id) /\ id.trust_domain = id.spiffe_id.domain

\* The pieces of a key that come from the subject: their number is that of the
\* scheme, so the audience cannot run into them.
KeyPieces(k, id) ==
    /\ id.type = "spire" => k[1] = "spiffe" /\ k[2] = <<id.spiffe_id.domain, id.spiffe_id.path>>
    /\ id.type = "oidc" => k[1] = "human" /\ k[2] = id.email
    /\ id.type = "aws_sts" => k[1] = "aws" /\ k[2] = id.account_id /\ k[3] = id.role_name
    /\ id.type = "gcp" => k[1] = "gcp" /\ k[2] = id.project_id /\ k[3] = id.email

\* An answer was evaluated for an identity whose subject the key begins with.
EvaluatedFor(m, k, evaluated) ==
    \E id : KnownIdentity(id) /\ KeyPieces(k, id) /\ evaluated = AuthzRequest(m, id)

CacheInv ==
    \A k \in DOMAIN cache : cache[k].billets \in Grants /\ EvaluatedFor(app.matcher, k, cache[k].evaluated)

\* The one SPIFFE ID of a certificate is the root of its chain.
CertInv(x) ==
    /\ Len(x.cert.sans) \in Nat
    /\ \A i \in 1..Len(x.cert.sans) :
          x.cert.sans[i].scheme = "spiffe" => x.cert.sans[i] = x.root /\ IsSpiffeId(x.cert.sans[i])

CertsInv == \A x \in certs : CertInv(x)

\* What holds of the answer just given.
ReplyInv == AdmittedAsConfigured /\ AnswersFromOwnPrincipal /\ GoodRequestsCertified

StartInv == LoadedInv /\ BuiltInv /\ WorldInv /\ AcceptedConfigStarts

ServiceInv == StartInv /\ CountersInv /\ QuietInv /\ CacheInv /\ CertsInv /\ ReplyInv

-----------------------------------------------------------------------------
(* Loading and the stages of main. *)

\* The defaults of serde fill in the backends, and from_toml_file and from_env
\* hand on nothing that validate refuses.
LEMMA SectionsTyped ==
    /\ \A ds : ds # None /\ DatastoreTyped(ds) => DatastoreSection(ds).backend \in datastore_backends
    /\ \A sb : sb # None /\ SigningTyped(sb) => SigningSection(sb).backend \in signing_backends
<1>1. ASSUME NEW ds, ds # None, DatastoreTyped(ds)
      PROVE  DatastoreSection(ds).backend \in datastore_backends
  BY <1>1 DEF DatastoreTyped, DatastoreSection, IsRecord, datastore_backends, Default, backend_defaults
<1>2. ASSUME NEW sb, sb # None, SigningTyped(sb)
      PROVE  SigningSection(sb).backend \in signing_backends
  BY <1>2 DEF SigningTyped, SigningSection, IsRecord, signing_backends, Default, backend_defaults
<1> QED
  BY <1>1, <1>2

LEMMA FileSections ==
    ASSUME NEW f, IsRecord(f, sections)
    PROVE  /\ Deserialized(f).datastore = DatastoreSection(f.datastore)
           /\ Deserialized(f).signing_backend = SigningSection(f.signing_backend)
           /\ Deserialized(f).ca_backend = SigningSection(f.ca_backend)
           /\ Deserialized(f).identity = f.identity
  BY DEF IsRecord, sections, Deserialized

LEMMA DeserializedIsTyped ==
    ASSUME NEW f, FileTyped(f)
    PROVE  ConfigTyped(Deserialized(f))
<1>1. /\ Deserialized(f).datastore = DatastoreSection(f.datastore)
      /\ Deserialized(f).signing_backend = SigningSection(f.signing_backend)
      /\ Deserialized(f).ca_backend = SigningSection(f.ca_backend)
      /\ Deserialized(f).identity = f.identity
  BY FileSections DEF FileTyped
<1>2. DatastoreSection(None) = None /\ SigningSection(None) = None
  BY DEF DatastoreSection, SigningSection
<1> QED
  BY <1>1, <1>2, SectionsTyped DEF FileTyped, ConfigTyped

LEMMA EnvIsTyped ==
    ASSUME NEW e
    PROVE  ConfigTyped(EnvConfig(e))
<1>1. /\ EnvConfig(e).datastore = None /\ EnvConfig(e).signing_backend = None
      /\ EnvConfig(e).ca_backend = None /\ EnvConfig(e).identity = None
  BY DEF EnvConfig
<1> QED
  BY <1>1 DEF ConfigTyped

LEMMA LoadedIsTyped ==
    ASSUME NEW e \in Environments, load(e) # None
    PROVE  validate(load(e)) /\ ConfigTyped(load(e))
<1>1. CASE e["QM_CONFIG_PATH"] # None
  <2> DEFINE f == e["QM_CONFIG_PATH"]
  <2>1. load(e) = from_toml_file(f)
    BY <1>1 DEF load
  <2>2. f # Unreadable /\ validate(Deserialized(f)) /\ load(e) = Deserialized(f)
    BY <2>1 DEF from_toml_file
  <2>3. FileTyped(f)
    BY <1>1, <2>2, StartupAssumption
  <2> QED
    BY <2>2, <2>3, DeserializedIsTyped
<1>2. CASE e["QM_CONFIG_PATH"] = None
  <2>1. load(e) = from_env(e)
    BY <1>2 DEF load
  <2>2. validate(EnvConfig(e)) /\ load(e) = EnvConfig(e)
    BY <2>1 DEF from_env
  <2> QED
    BY <2>2, EnvIsTyped
<1> QED
  BY <1>1, <1>2

\* A SEC1 key and a key of another curve are the files that StaticKeyManager
\* does not take.
LEMMA Pkcs8Taken == from_pem("pkcs8")
  BY DEF from_pem, parse_ec_private_key_pem, extract_pem_der, from_ec_pem

LEMMA BackendReady ==
    ASSUME NEW sb, NEW stored \in BOOLEAN, storeUp,
           sb.backend \in signing_backends,
           sb.backend = "memory" => sb.memory.key_path = "pkcs8",
           sb.backend = "kms_delegated" =>
             LET k == sb.kms_delegated
             IN  k.aws_kms # None /\ KeyDurationParses(k.rotation_interval) /\ KeyDurationParses(k.key_overlap)
    PROVE  KeyManagerReady(sb, stored)
  BY Pkcs8Taken DEF signing_backends, KeyManagerReady, KmsKeysReady, KmsSigns

\* A validated configuration outside the gaps, with good files and the store up,
\* gives no stage of main a reason to end the process.
LEMMA NoReasonToPanic ==
    ASSUME NEW c, validate(c), ConfigTyped(c), FilesReadable(c), ~ValidationGap(c), storeUp
    PROVE  /\ StoreBuilds(StoreKind(c))
           /\ \A stored \in BOOLEAN : KeyManagerReady(SigningBackendOf(c), stored)
           /\ CaParses(c.ca)
           /\ \A stored \in BOOLEAN : c.ca_backend # None => KeyManagerReady(c.ca_backend, stored)
           /\ AuditOf(c).buffer_capacity # 0
           /\ CacheOpens(c)
           /\ PatternsCompile(MatcherOf(c).patterns)
           /\ SpireInForce(c) # None => BundleParses(SpireInForce(c).jwks_path)
           /\ X509Bundle(c) # None => AnchorsParse(X509Bundle(c))
           /\ c.server.tls # None => build_tls_config(c.server.tls)
           /\ AddressesBind(c.server)
<1>1. StoreBuilds(StoreKind(c))
  <2>1. None \notin datastore_backends
    BY NoneAssumption
  <2>2. CASE c.datastore # None
    BY <2>1, <2>2 DEF ConfigTyped, StoreBuilds, StoreKind, ValidationGap
  <2>3. CASE c.datastore = None
    <3>1. c.dynamo # None /\ StoreKind(c) = "dynamodb"
      BY <2>3 DEF StoreKind, ValidationGap
    <3> QED
      BY <2>1, <3>1 DEF StoreBuilds, datastore_backends
  <2> QED
    BY <2>2, <2>3
<1>2. ASSUME NEW sb \in Backends(c), NEW stored \in BOOLEAN
      PROVE  KeyManagerReady(sb, stored)
  <2>1. sb.backend \in signing_backends
    BY <1>2 DEF Backends, ConfigTyped
  <2>2. sb.backend = "memory" => sb.memory.key_path = "pkcs8"
    BY <1>2 DEF FilesReadable, ValidationGap
  <2>3. sb.backend = "kms_delegated" =>
          LET k == sb.kms_delegated
          IN  k.aws_kms # None /\ KeyDurationParses(k.rotation_interval) /\ KeyDurationParses(k.key_overlap)
    BY <1>2 DEF ValidationGap
  <2> QED
    BY <2>1, <2>2, <2>3, BackendReady
<1>3. ASSUME NEW stored \in BOOLEAN
      PROVE  KeyManagerReady(SigningBackendOf(c), stored)
  <2>1. CASE c.signing_backend # None
    BY <2>1, <1>2 DEF SigningBackendOf, Backends
  <2>2. CASE c.signing_backend = None
    <3> DEFINE sb == SigningBackendOf(c)
    <3>1. sb.backend = "memory" /\ sb.memory.key_path = c.key_path
      BY <2>2 DEF SigningBackendOf
    <3>2. c.key_path = "pkcs8"
      BY <2>2 DEF FilesReadable, ValidationGap
    <3> QED
      BY <3>1, <3>2, Pkcs8Taken DEF KeyManagerReady
  <2> QED
    BY <2>1, <2>2
<1>4. ASSUME NEW stored \in BOOLEAN, c.ca_backend # None
      PROVE  KeyManagerReady(c.ca_backend, stored)
  BY <1>2, <1>4 DEF Backends
<1>5. AuditOf(c).buffer_capacity # 0
  <2>1. audit_default.buffer_capacity # 0
    BY DEF audit_default, defaults
  <2> QED
    BY <2>1 DEF AuditOf, ValidationGap
<1>6. CacheOpens(c)
  BY DEF CacheOpens, validate, RedisThere, ValidationGap
<1>7. PatternsCompile(MatcherOf(c).patterns)
  <2>1. PatternsCompile(<<>>)
    BY DEF PatternsCompile
  <2> QED
    BY <2>1 DEF MatcherOf, ValidationGap
<1>8. AddressesBind(c.server)
  BY DEF AddressesBind, ValidationGap
<1> QED
  BY <1>1, <1>3, <1>4, <1>5, <1>6, <1>7, <1>8 DEF FilesReadable

\* So a stage that ends the process ends it because of a gap.
LEMMA PanicIsGap ==
    ASSUME StartInv, config # None,
           \/ ~StoreBuilds(StoreKind(config))
           \/ \E stored \in BOOLEAN : ~KeyManagerReady(SigningBackendOf(config), stored)
           \/ ~CaParses(config.ca)
           \/ \E stored \in BOOLEAN : config.ca_backend # None /\ ~KeyManagerReady(config.ca_backend, stored)
           \/ AuditOf(config).buffer_capacity = 0
           \/ ~CacheOpens(config)
           \/ ~PatternsCompile(MatcherOf(config).patterns)
           \/ SpireInForce(config) # None /\ ~BundleParses(SpireInForce(config).jwks_path)
           \/ X509Bundle(config) # None /\ ~AnchorsParse(X509Bundle(config))
           \/ config.server.tls # None /\ ~build_tls_config(config.server.tls)
           \/ ~AddressesBind(config.server)
    PROVE  FilesReadable(config) /\ storeUp => ValidationGap(config)
<1>1. validate(config) /\ ConfigTyped(config)
  BY DEF StartInv, LoadedInv
<1> QED
  BY <1>1, NoReasonToPanic

-----------------------------------------------------------------------------
(* One lemma for each way a stage may end. *)

Underway == Stages \ {"load"}

LEMMA BuildPreservesStart ==
    ASSUME StartInv, pc \in Underway, NEW next \in Underway \cup {"serving"}, NEW built,
           Build(next, built), BuiltOf(next, built)
    PROVE  StartInv'
<1>1. /\ pc' = next /\ app' = built
      /\ UNCHANGED <<env, config, polls, sync, storeUp, faults>>
  BY DEF Build, StageFrame
<1>2. LoadedInv'
  BY <1>1 DEF StartInv, LoadedInv, Underway, Stages
<1>3. BuiltInv'
  <2>1. BuiltOf(next, built)'
    BY <1>1 DEF BuiltOf, StoreBuilds
  <2> QED
    BY <2>1, <1>1 DEF BuiltInv
<1>4. WorldInv'
  BY <1>1 DEF StartInv, WorldInv
<1>5. AcceptedConfigStarts'
  BY <1>1 DEF AcceptedConfigStarts, Underway, Stages
<1> QED
  BY <1>2, <1>3, <1>4, <1>5 DEF StartInv

\* A panic is the end, and leaves AppState as it is.
LEMMA ExitPreservesStart ==
    ASSUME StartInv, pc \in Underway, pc' = "exited", UNCHANGED app, StageFrame, faults' \in 0..MaxFaults,
           faults' = 0 /\ FilesReadable(config) /\ storeUp => ValidationGap(config)
    PROVE  StartInv'
<1>1. UNCHANGED <<env, config, polls, sync, storeUp, app>>
  BY DEF StageFrame
<1>2. LoadedInv'
  BY <1>1 DEF StartInv, LoadedInv, Underway, Stages
<1>3. BuiltInv'
  <2>1. BuiltOf("exited", app)
    BY DEF StartInv, BuiltInv, BuiltOf, Underway, Stages, FromMtls, FromIdentity, FromPatterns, FromBootstrap, FromSigning
  <2>2. BuiltOf("exited", app)'
    BY <2>1, <1>1 DEF BuiltOf, StoreBuilds
  <2> QED
    BY <2>2 DEF BuiltInv
<1>4. WorldInv'
  BY <1>1 DEF StartInv, WorldInv
<1>5. AcceptedConfigStarts'
  <2>1. FilesReadable(config)' = FilesReadable(config) /\ ValidationGap(config)' = ValidationGap(config)
    BY <1>1
  <2> QED
    BY <1>1, <2>1 DEF AcceptedConfigStarts
<1> QED
  BY <1>2, <1>3, <1>4, <1>5 DEF StartInv

LEMMA PanicPreservesStart ==
    ASSUME StartInv, pc \in Underway, Panic, FilesReadable(config) /\ storeUp => ValidationGap(config)
    PROVE  StartInv'
  BY ExitPreservesStart DEF Panic, StartInv, WorldInv

LEMMA FaultCounts ==
    ASSUME StartInv, Fault
    PROVE  faults' \in 0..MaxFaults /\ faults' # 0
  BY StartupAssumption DEF StartInv, WorldInv, Fault

LEMMA FaultPreservesStart ==
    ASSUME StartInv, pc \in Underway, PanicByFault
    PROVE  StartInv'
  BY ExitPreservesStart, FaultCounts DEF PanicByFault

-----------------------------------------------------------------------------
(* The stages. *)

LEMMA BuildDataStorePreserves ==
    ASSUME StartInv, BuildDataStore
    PROVE  StartInv'
<1>1. pc = "datastore" /\ pc \in Underway /\ config # None /\ BuiltOf("datastore", app)
  BY DEF BuildDataStore, StartInv, LoadedInv, BuiltInv, Underway, Stages
<1>2. CASE StoreBuilds(StoreKind(config)) /\ Build("signing", [app EXCEPT !.store = StoreKind(config)])
  <2>1. BuiltOf("signing", [app EXCEPT !.store = StoreKind(config)])
    BY <1>1, <1>2 DEF BuiltOf, IsRecord, AppFields, FromMtls, FromIdentity, FromPatterns, FromBootstrap, FromSigning
  <2> QED
    BY <1>1, <1>2, <2>1, BuildPreservesStart DEF Underway, Stages
<1>3. CASE ~StoreBuilds(StoreKind(config)) /\ Panic
  BY <1>1, <1>3, PanicIsGap, PanicPreservesStart
<1>4. CASE PanicByFault
  BY <1>1, <1>4, FaultPreservesStart
<1> QED
  BY <1>2, <1>3, <1>4 DEF BuildDataStore

LEMMA BuildSigningPreserves ==
    ASSUME StartInv, NEW stored \in BOOLEAN, BuildSigning(stored)
    PROVE  StartInv'
<1>1. pc = "signing" /\ pc \in Underway /\ config # None /\ BuiltOf("signing", app)
  BY DEF BuildSigning, StartInv, LoadedInv, BuiltInv, Underway, Stages
<1>2. CASE Build("authority", [app EXCEPT !.signing = SigningBackendOf(config).backend])
  <2>1. BuiltOf("authority", [app EXCEPT !.signing = SigningBackendOf(config).backend])
    BY <1>1, <1>2 DEF BuiltOf, IsRecord, AppFields, FromMtls, FromIdentity, FromPatterns, FromBootstrap, FromSigning
  <2> QED
    BY <1>1, <1>2, <2>1, BuildPreservesStart DEF Underway, Stages
<1>3. CASE ~KeyManagerReady(SigningBackendOf(config), stored) /\ Panic
  BY <1>1, <1>3, PanicIsGap, PanicPreservesStart
<1>4. CASE PanicByFault
  BY <1>1, <1>4, FaultPreservesStart
<1> QED
  BY <1>2, <1>3, <1>4 DEF BuildSigning

LEMMA BuildAuthorityPreserves ==
    ASSUME StartInv, NEW stored \in BOOLEAN, BuildAuthority(stored)
    PROVE  StartInv'
<1>1. pc = "authority" /\ pc \in Underway /\ config # None /\ BuiltOf("authority", app)
  BY DEF BuildAuthority, StartInv, LoadedInv, BuiltInv, Underway, Stages
<1>2. CASE Build("bootstrap", [app EXCEPT !.authority = AuthorityOf(config)])
  <2>1. BuiltOf("bootstrap", [app EXCEPT !.authority = AuthorityOf(config)])
    BY <1>1, <1>2 DEF BuiltOf, IsRecord, AppFields, FromMtls, FromIdentity, FromPatterns, FromBootstrap, FromSigning
  <2> QED
    BY <1>1, <1>2, <2>1, BuildPreservesStart DEF Underway, Stages
<1>3. CASE ~(CaParses(config.ca) /\ (config.ca_backend # None => KeyManagerReady(config.ca_backend, stored))) /\ Panic
  BY <1>1, <1>3, PanicIsGap, PanicPreservesStart
<1>4. CASE PanicByFault
  BY <1>1, <1>4, FaultPreservesStart
<1> QED
  BY <1>2, <1>3, <1>4 DEF BuildAuthority

LEMMA BootstrapPreserves ==
    ASSUME StartInv, Bootstrap
    PROVE  StartInv'
<1>1. pc = "bootstrap" /\ pc \in Underway /\ config # None /\ BuiltOf("bootstrap", app)
  BY DEF Bootstrap, StartInv, LoadedInv, BuiltInv, Underway, Stages
<1>2. CASE Build("audit", app)
  <2>1. BuiltOf("audit", app)
    BY <1>1, <1>2 DEF BuiltOf, IsRecord, AppFields, FromMtls, FromIdentity, FromPatterns, FromBootstrap, FromSigning
  <2> QED
    BY <1>1, <1>2, <2>1, BuildPreservesStart DEF Underway, Stages
<1> QED
  BY <1>2 DEF Bootstrap

LEMMA BuildCachePreserves ==
    ASSUME StartInv, BuildCache
    PROVE  StartInv'
<1>1. pc = "cache" /\ pc \in Underway /\ config # None /\ BuiltOf("cache", app)
  BY DEF BuildCache, StartInv, LoadedInv, BuiltInv, Underway, Stages
<1>2. CASE Build("patterns", [app EXCEPT !.cache = config.cache.backend])
  <2>1. BuiltOf("patterns", [app EXCEPT !.cache = config.cache.backend])
    BY <1>1, <1>2 DEF BuiltOf, IsRecord, AppFields, FromMtls, FromIdentity, FromPatterns, FromBootstrap, FromSigning
  <2> QED
    BY <1>1, <1>2, <2>1, BuildPreservesStart DEF Underway, Stages
<1>3. CASE ~CacheOpens(config) /\ Panic
  BY <1>1, <1>3, PanicIsGap, PanicPreservesStart
<1>4. CASE PanicByFault
  BY <1>1, <1>4, FaultPreservesStart
<1> QED
  BY <1>2, <1>3, <1>4 DEF BuildCache

LEMMA CompilePatternsPreserves ==
    ASSUME StartInv, CompilePatterns
    PROVE  StartInv'
<1>1. pc = "patterns" /\ pc \in Underway /\ config # None /\ BuiltOf("patterns", app)
  BY DEF CompilePatterns, StartInv, LoadedInv, BuiltInv, Underway, Stages
<1>2. CASE Build("identity", [app EXCEPT !.matcher = MatcherOf(config)])
  <2>1. BuiltOf("identity", [app EXCEPT !.matcher = MatcherOf(config)])
    BY <1>1, <1>2 DEF BuiltOf, IsRecord, AppFields, FromMtls, FromIdentity, FromPatterns, FromBootstrap, FromSigning
  <2> QED
    BY <1>1, <1>2, <2>1, BuildPreservesStart DEF Underway, Stages
<1>3. CASE ~PatternsCompile(MatcherOf(config).patterns) /\ Panic
  BY <1>1, <1>3, PanicIsGap, PanicPreservesStart
<1> QED
  BY <1>2, <1>3 DEF CompilePatterns

LEMMA BuildIdentityPreserves ==
    ASSUME StartInv, BuildIdentity
    PROVE  StartInv'
<1>1. pc = "identity" /\ pc \in Underway /\ config # None /\ BuiltOf("identity", app)
  BY DEF BuildIdentity, StartInv, LoadedInv, BuiltInv, Underway, Stages
<1>2. CASE Build("mtls", [app EXCEPT !.validators = ValidatorsOf(config)])
  <2>1. BuiltOf("mtls", [app EXCEPT !.validators = ValidatorsOf(config)])
    BY <1>1, <1>2 DEF BuiltOf, IsRecord, AppFields, FromMtls, FromIdentity, FromPatterns, FromBootstrap, FromSigning
  <2> QED
    BY <1>1, <1>2, <2>1, BuildPreservesStart DEF Underway, Stages
<1>3. CASE SpireInForce(config) # None /\ ~BundleParses(SpireInForce(config).jwks_path) /\ Panic
  BY <1>1, <1>3, PanicIsGap, PanicPreservesStart
<1> QED
  BY <1>2, <1>3 DEF BuildIdentity

LEMMA BuildMtlsPreserves ==
    ASSUME StartInv, BuildMtls
    PROVE  StartInv'
<1>1. pc = "mtls" /\ pc \in Underway /\ config # None /\ BuiltOf("mtls", app)
  BY DEF BuildMtls, StartInv, LoadedInv, BuiltInv, Underway, Stages
<1>2. CASE Build("tls", [app EXCEPT !.mtls = MtlsOf(config), !.algorithm = config.algorithm])
  <2>1. BuiltOf("tls", [app EXCEPT !.mtls = MtlsOf(config), !.algorithm = config.algorithm])
    BY <1>1, <1>2 DEF BuiltOf, IsRecord, AppFields, FromMtls, FromIdentity, FromPatterns, FromBootstrap, FromSigning
  <2> QED
    BY <1>1, <1>2, <2>1, BuildPreservesStart DEF Underway, Stages
<1>3. CASE X509Bundle(config) # None /\ ~AnchorsParse(X509Bundle(config)) /\ Panic
  BY <1>1, <1>3, PanicIsGap, PanicPreservesStart
<1> QED
  BY <1>2, <1>3 DEF BuildMtls

LEMMA BuildTlsPreserves ==
    ASSUME StartInv, BuildTls
    PROVE  StartInv'
<1>1. pc = "tls" /\ pc \in Underway /\ config # None /\ BuiltOf("tls", app)
  BY DEF BuildTls, StartInv, LoadedInv, BuiltInv, Underway, Stages
<1>2. CASE Build("listen", [app EXCEPT !.tls = config.server.tls # None])
  <2>1. BuiltOf("listen", [app EXCEPT !.tls = config.server.tls # None])
    BY <1>1, <1>2 DEF BuiltOf, IsRecord, AppFields, FromMtls, FromIdentity, FromPatterns, FromBootstrap, FromSigning
  <2> QED
    BY <1>1, <1>2, <2>1, BuildPreservesStart DEF Underway, Stages
<1>3. CASE config.server.tls # None /\ ~build_tls_config(config.server.tls) /\ Panic
  BY <1>1, <1>3, PanicIsGap, PanicPreservesStart
<1> QED
  BY <1>2, <1>3 DEF BuildTls

LEMMA ListenPreserves ==
    ASSUME StartInv, Listen
    PROVE  StartInv'
<1>1. pc = "listen" /\ pc \in Underway /\ config # None /\ BuiltOf("listen", app)
  BY DEF Listen, StartInv, LoadedInv, BuiltInv, Underway, Stages
<1>2. CASE Build("serving", [app EXCEPT !.listeners = IF config.server.admin_addr = None THEN CombinedListener ELSE SplitListeners])
  <2>1. BuiltOf("serving", [app EXCEPT !.listeners = IF config.server.admin_addr = None THEN CombinedListener ELSE SplitListeners])
    BY <1>1, <1>2 DEF BuiltOf, IsRecord, AppFields, FromMtls, FromIdentity, FromPatterns, FromBootstrap, FromSigning
  <2> QED
    BY <1>1, <1>2, <2>1, BuildPreservesStart DEF Underway, Stages
<1>3. CASE ~AddressesBind(config.server) /\ Panic
  BY <1>1, <1>3, PanicIsGap, PanicPreservesStart
<1>4. CASE PanicByFault
  BY <1>1, <1>4, FaultPreservesStart
<1> QED
  BY <1>2, <1>3, <1>4 DEF Listen

LEMMA LoadConfigPreserves ==
    ASSUME StartInv, LoadConfig
    PROVE  StartInv'
<1>1. /\ pc = "load" /\ env \in Environments /\ config' = load(env)
      /\ pc' = IF load(env) = None THEN "exited" ELSE "datastore"
      /\ UNCHANGED <<app, polls, sync, storeUp, faults>>
  BY DEF LoadConfig, StartInv, LoadedInv, worldVars
<1>2. config' # None => validate(config') /\ ConfigTyped(config')
  BY <1>1, LoadedIsTyped
<1>3. LoadedInv'
  <2>1. pc' \in Stages \cup {"serving", "exited"} /\ pc' # "load" /\ (pc' # "exited" => config' # None)
    BY <1>1 DEF Stages
  <2> QED
    BY <1>2, <2>1 DEF LoadedInv
<1>4. BuiltInv'
  <2>1. IsRecord(app, AppFields) /\ app.listeners = <<>>
    BY <1>1 DEF StartInv, BuiltInv, BuiltOf
  <2>2. IsRecord(app', AppFields) /\ app'.listeners = <<>> /\ pc' \in {"exited", "datastore"}
    BY <1>1, <2>1
  <2> QED
    BY <2>2 DEF BuiltInv, BuiltOf, FromMtls, FromIdentity, FromPatterns, FromBootstrap, FromSigning
<1>5. WorldInv'
  BY <1>1 DEF StartInv, WorldInv
<1>6. AcceptedConfigStarts'
  BY <1>1 DEF AcceptedConfigStarts
<1> QED
  BY <1>3, <1>4, <1>5, <1>6 DEF StartInv

\* A sink that does not open is no end of the process.
LEMMA StartAuditPreserves ==
    ASSUME StartInv, StartAudit
    PROVE  StartInv'
<1>1. pc = "audit" /\ pc \in Underway /\ config # None /\ BuiltOf("audit", app)
  BY DEF StartAudit, StartInv, LoadedInv, BuiltInv, Underway, Stages
<1>2. ASSUME NEW sinks
      PROVE  BuiltOf("sync", [app EXCEPT !.sinks = sinks])
  BY <1>1 DEF BuiltOf, IsRecord, AppFields, FromMtls, FromIdentity, FromPatterns, FromBootstrap, FromSigning
<1>3. CASE AuditOf(config).buffer_capacity = 0 /\ Panic
  BY <1>1, <1>3, PanicIsGap, PanicPreservesStart
<1>4. CASE Build("sync", [app EXCEPT !.sinks = build_sinks(AuditOf(config), TRUE)])
  BY <1>1, <1>2, <1>4, BuildPreservesStart DEF Underway, Stages
<1>5. CASE /\ Fault /\ pc' = "sync" /\ StageFrame
           /\ app' = [app EXCEPT !.sinks = build_sinks(AuditOf(config), FALSE)]
  <2>1. UNCHANGED <<env, config, polls, sync, storeUp>>
    BY <1>5 DEF StageFrame
  <2>2. LoadedInv'
    BY <1>1, <1>5, <2>1 DEF StartInv, LoadedInv, Stages
  <2>3. BuiltInv'
    <3> DEFINE built == [app EXCEPT !.sinks = build_sinks(AuditOf(config), FALSE)]
    <3>1. BuiltOf("sync", built)
      BY <1>2
    <3>2. IsRecord(app', AppFields) /\ app'.listeners = <<>> /\ pc' = "sync"
      BY <1>5, <3>1 DEF BuiltOf
    <3>3. /\ app'.store = StoreKind(config) /\ StoreBuilds(app'.store)
          /\ app'.signing = SigningBackendOf(config).backend /\ app'.authority = AuthorityOf(config)
      BY <1>5, <3>1 DEF BuiltOf, FromBootstrap, FromSigning
    <3>4. /\ app'.store = StoreKind(config') /\ StoreBuilds(app'.store)
          /\ app'.signing = SigningBackendOf(config').backend /\ app'.authority = AuthorityOf(config')
      BY <2>1, <3>3
    <3> QED
      BY <3>2, <3>4 DEF BuiltInv, BuiltOf, FromMtls, FromIdentity, FromPatterns, FromBootstrap, FromSigning
  <2>4. WorldInv'
    BY <1>5, <2>1, FaultCounts DEF StartInv, WorldInv
  <2>5. AcceptedConfigStarts'
    BY <1>5 DEF AcceptedConfigStarts
  <2> QED
    BY <2>2, <2>3, <2>4, <2>5 DEF StartInv
<1> QED
  BY <1>3, <1>4, <1>5 DEF StartAudit

\* Steps that leave AppState and the configuration alone.
LEMMA AppUnchanged ==
    ASSUME StartInv, UNCHANGED <<env, config, app>>, WorldInv', pc' = pc \/ (pc = "sync" /\ pc' = "wait") \/ (pc = "wait" /\ pc' = "cache"),
           pc # "exited" \/ UNCHANGED <<storeUp, faults>>
    PROVE  StartInv'
<1>1. LoadedInv'
  BY DEF StartInv, LoadedInv, Stages
<1>2. BuiltInv'
  <2>1. BuiltOf(pc, app)'
    <3>1. CASE pc' = pc
      BY <3>1 DEF StartInv, BuiltInv, BuiltOf, StoreBuilds
    <3>2. CASE pc' # pc
      <4>1. pc \in {"sync", "wait"} /\ pc' \in {"wait", "cache"}
        BY <3>2
      <4>2. /\ IsRecord(app, AppFields) /\ app.listeners = <<>> /\ app.store = StoreKind(config) /\ StoreBuilds(app.store)
            /\ app.signing = SigningBackendOf(config).backend /\ app.authority = AuthorityOf(config)
        BY <4>1 DEF StartInv, BuiltInv, BuiltOf, FromBootstrap, FromSigning
      <4> QED
        BY <4>1, <4>2 DEF BuiltOf, StoreBuilds, FromMtls, FromIdentity, FromPatterns, FromBootstrap, FromSigning
    <3> QED
      BY <3>1, <3>2
  <2> QED
    BY <2>1 DEF BuiltInv
<1>3. AcceptedConfigStarts'
  <2>1. pc' = "exited" => pc = "exited" /\ UNCHANGED <<storeUp, faults>>
    OBVIOUS
  <2> QED
    BY <2>1 DEF StartInv, AcceptedConfigStarts
<1> QED
  BY <1>1, <1>2, <1>3 DEF StartInv

LEMMA WaitingPreserves ==
    ASSUME StartInv, StartSync \/ WaitForSync
    PROVE  StartInv'
<1>1. CASE StartSync
  <2>1. WorldInv'
    BY <1>1 DEF StartSync, StartInv, WorldInv
  <2> QED
    BY <1>1, <2>1, AppUnchanged DEF StartSync
<1>2. CASE WaitForSync
  <2>1. WorldInv'
    BY <1>2, StartupAssumption DEF WaitForSync, worldVars, StartInv, WorldInv
  <2> QED
    BY <1>2, <2>1, AppUnchanged DEF WaitForSync
<1> QED
  BY <1>1, <1>2

LEMMA MainPreservesStart ==
    ASSUME StartInv, MainStep
    PROVE  StartInv' /\ pc # "serving"
<1>1. StartInv'
  BY LoadConfigPreserves, BuildDataStorePreserves, BuildSigningPreserves, BuildAuthorityPreserves, BootstrapPreserves,
     StartAuditPreserves, WaitingPreserves, BuildCachePreserves, CompilePatternsPreserves, BuildIdentityPreserves,
     BuildMtlsPreserves, BuildTlsPreserves, ListenPreserves DEF MainStep
<1>2. pc # "serving"
  BY DEF MainStep, LoadConfig, BuildDataStore, BuildSigning, BuildAuthority, Bootstrap, StartAudit, StartSync,
         WaitForSync, BuildCache, CompilePatterns, BuildIdentity, BuildMtls, BuildTls, Listen
<1> QED
  BY <1>1, <1>2

\* The sync task and the store, beside main.
LEMMA WorldPreservesStart ==
    ASSUME StartInv, Running, SyncOnce \/ StoreFails \/ StoreRecovers
    PROVE  StartInv' /\ UNCHANGED mainVars
<1>1. UNCHANGED <<env, config, pc, app, polls>>
  BY DEF SyncOnce, StoreFails, StoreRecovers, mainVars
<1>2. WorldInv'
  <2>1. CASE SyncOnce
    BY <1>1, <2>1 DEF SyncOnce, StartInv, WorldInv, SyncStops
  <2>2. CASE StoreFails
    BY <1>1, <2>2, FaultCounts DEF StoreFails, StartInv, WorldInv
  <2>3. CASE StoreRecovers
    BY <1>1, <2>3 DEF StoreRecovers, StartInv, WorldInv
  <2> QED
    BY <2>1, <2>2, <2>3
<1> QED
  BY <1>1, <1>2, AppUnchanged DEF Running, mainVars

-----------------------------------------------------------------------------
(* Identities. *)

LEMMA LeastIndex ==
    ASSUME NEW T \in SUBSET Nat, T # {}
    PROVE  \E x \in T : \A y \in T : x <= y
<1>1. PICK x \in T : \A y \in T : ~(<<y, x>> \in OpToRel(<, Nat))
  BY NatLessThanWellFounded, WFMin
<1>2. \A y \in T : ~(y < x)
  BY <1>1 DEF OpToRel
<1> QED
  BY <1>2

\* A validator answers an error, or an identity of its own type.
LEMMA DispatchedIdentity ==
    ASSUME NEW v, NEW t, NEW now, NEW fresh, t.type = "spire" => IsSpiffeId(t.sub),
           Dispatch(v, t, now, fresh).type \notin IdentityErrors
    PROVE  /\ KnownIdentity(Dispatch(v, t, now, fresh)) /\ Dispatch(v, t, now, fresh).type = t.type
           /\ t.type \in Validators /\ v[t.type] # None
<1> DEFINE id == Dispatch(v, t, now, fresh)
<1>1. \A e \in IdentityErrors : Error(e).type = e
  BY DEF Error
<1>2. t.type \in Validators /\ v[t.type] # None
  BY <1>1 DEF Dispatch, IdentityErrors
<1>3. CASE t.type = "spire"
  <2>1. id = ValidateSvid(v.spire, t, now)
    BY <1>2, <1>3 DEF Dispatch
  <2>2. id = SvidIdentity(t)
    BY <2>1, <1>1 DEF ValidateSvid, IdentityErrors
  <2> QED
    BY <2>2, <1>2, <1>3 DEF KnownIdentity, SvidIdentity, Validators
<1>4. CASE t.type = "oidc"
  <2>1. id = ValidateOidc(v.oidc, v.jwks, t, now, fresh)
    BY <1>2, <1>4 DEF Dispatch
  <2>2. id = OidcIdentity(find_source_by_issuer(v.oidc, t.iss), t)
    BY <2>1, <1>1 DEF ValidateOidc, IdentityErrors
  <2> QED
    BY <2>2, <1>2, <1>4 DEF KnownIdentity, OidcIdentity, Validators
<1>5. CASE t.type = "aws_sts"
  <2>1. id = ValidateAws(v.aws_sts, t)
    BY <1>2, <1>5 DEF Dispatch
  <2>2. id = AwsIdentity(t)
    BY <2>1, <1>1 DEF ValidateAws, IdentityErrors
  <2> QED
    BY <2>2, <1>2, <1>5 DEF KnownIdentity, AwsIdentity, Validators
<1>6. CASE t.type = "gcp"
  <2>1. id = ValidateGcp(v.gcp, v.jwks, t, now, fresh)
    BY <1>2, <1>6 DEF Dispatch
  <2>2. id = GcpIdentity(t)
    BY <2>1, <1>1 DEF ValidateGcp, IdentityErrors
  <2> QED
    BY <2>2, <1>2, <1>6 DEF KnownIdentity, GcpIdentity, Validators
<1> QED
  BY <1>2, <1>3, <1>4, <1>5, <1>6 DEF Validators

\* A certificate's identity is one of the SPIFFE IDs that it names.
LEMMA CertificateNames ==
    ASSUME NEW v, NEW c, NEW now, Len(c.sans) \in Nat, CertificateIdentity(v, c, now) # None
    PROVE  /\ CertificateIdentity(v, c, now).type = "spire"
           /\ CertificateIdentity(v, c, now).trust_domain = v.trust_domain
           /\ CertificateIdentity(v, c, now).spiffe_id.domain = v.trust_domain
           /\ c.issuer \in v.anchors /\ c.not_before <= now /\ now <= c.not_after
           /\ \E i \in 1..Len(c.sans) :
                c.sans[i].scheme = "spiffe" /\ CertificateIdentity(v, c, now).spiffe_id = c.sans[i]
<1> DEFINE at == {i \in 1..Len(c.sans) : SpiffeUriOf(c.sans[i], v.trust_domain)}
           first == CHOOSE i \in at : \A j \in at : i <= j
<1>1. at # {}
  BY DEF CertificateIdentity
<1>2. at \in SUBSET Nat
  OBVIOUS
<1>3. first \in at
  <2> HIDE DEF at
  <2> QED
    BY <1>1, <1>2, LeastIndex
<1>4. /\ CertificateIdentity(v, c, now).type = "spire"
      /\ CertificateIdentity(v, c, now).spiffe_id = c.sans[first]
      /\ CertificateIdentity(v, c, now).trust_domain = v.trust_domain
      /\ c.issuer \in v.anchors /\ c.not_before <= now /\ now <= c.not_after
  BY DEF CertificateIdentity
<1> QED
  BY <1>3, <1>4 DEF SpiffeUriOf

LEMMA PresentedNames ==
    ASSUME CertsInv, NEW q \in Requests, NEW c \in Presentable(q), c # None
    PROVE  /\ Len(c.sans) \in Nat
           /\ \A i \in 1..Len(c.sans) : c.sans[i].scheme = "spiffe" => IsSpiffeId(c.sans[i])
<1>1. CASE c \in ClientCerts
  BY <1>1, ServiceAssumption
<1>2. CASE c \in {x.cert : x \in certs}
  BY <1>2 DEF CertsInv, CertInv
<1> QED
  BY <1>1, <1>2 DEF Presentable

\* Who a request is from: a token's identity, or that of the certificate.
LEMMA IdentifiedBy ==
    ASSUME CertsInv, NEW q \in Requests, NEW presented \in Presentable(q), NEW fresh, NEW l,
           Identify(q, PeerCertificate(l, presented), fresh).type \notin IdentityErrors
    PROVE  LET c  == PeerCertificate(l, presented)
               id == Identify(q, c, fresh)
           IN  /\ KnownIdentity(id)
               /\ q.token # None => id = Dispatch(app.validators, q.token, clock, fresh)
               /\ q.token = None =>
                    /\ c # None /\ app.mtls # None /\ id.type = "spire"
                    /\ \E i \in 1..Len(c.sans) : c.sans[i].scheme = "spiffe" /\ id.spiffe_id = c.sans[i]
<1> DEFINE c  == PeerCertificate(l, presented)
           id == Identify(q, c, fresh)
<1>1. Error("unknown_token_type").type \in IdentityErrors
  BY DEF Error, IdentityErrors
<1>2. q.params
  BY <1>1 DEF Identify
<1>3. CASE q.token # None
  <2>1. id = Dispatch(app.validators, q.token, clock, fresh)
    BY <1>2, <1>3 DEF Identify
  <2>2. q.token.type = "spire" => IsSpiffeId(q.token.sub)
    BY <1>3, ServiceAssumption
  <2>3. KnownIdentity(id)
    <3>1. Dispatch(app.validators, q.token, clock, fresh).type \notin IdentityErrors
      BY <2>1
    <3>2. KnownIdentity(Dispatch(app.validators, q.token, clock, fresh))
      BY <2>2, <3>1, DispatchedIdentity
    <3> QED
      BY <2>1, <3>2
  <2> QED
    BY <1>3, <2>1, <2>3
<1>4. CASE q.token = None
  <2>1. id = extract_mtls_identity(c) /\ extract_mtls_identity(c) # None
    BY <1>1, <1>2, <1>4 DEF Identify
  <2>2. c # None /\ app.mtls # None /\ id = CertificateIdentity(app.mtls, c, clock) /\ id # None
    BY <2>1 DEF extract_mtls_identity
  <2>3. c = presented
    BY <2>2 DEF PeerCertificate
  <2>4. /\ Len(c.sans) \in Nat
        /\ \A i \in 1..Len(c.sans) : c.sans[i].scheme = "spiffe" => IsSpiffeId(c.sans[i])
    BY <2>2, <2>3, PresentedNames
  <2>5. /\ id.type = "spire" /\ id.trust_domain = id.spiffe_id.domain
        /\ \E i \in 1..Len(c.sans) : c.sans[i].scheme = "spiffe" /\ id.spiffe_id = c.sans[i]
    <3> HIDE DEF c
    <3> QED
      BY <2>2, <2>4, CertificateNames
  <2>6. KnownIdentity(id)
    BY <2>4, <2>5 DEF KnownIdentity, Validators
  <2> QED
    BY <1>4, <2>2, <2>5, <2>6
<1> QED
  BY <1>3, <1>4

-----------------------------------------------------------------------------
(* The cache. *)

\* The key of an identity begins with its pieces, whatever the audience.
LEMMA KeyTells ==
    ASSUME NEW id, KnownIdentity(id), NEW S, NEW aud \in Seq(S)
    PROVE  KeyPieces(cache_key(format_subject(id), aud), id)
<1> DEFINE k == cache_key(format_subject(id), aud)
<1>1. CASE id.type = "spire"
  <2>1. format_subject(id) = id.spiffe_id /\ id.spiffe_id.scheme = "spiffe"
    BY <1>1 DEF format_subject, KnownIdentity, IsSpiffeId, URI
  <2>2. k = <<"spiffe", <<id.spiffe_id.domain, id.spiffe_id.path>>>> \o aud
    BY <2>1 DEF cache_key, Pieces
  <2>3. k[1] = "spiffe" /\ k[2] = <<id.spiffe_id.domain, id.spiffe_id.path>>
    <3> HIDE DEF k
    <3> QED
      BY <2>2
  <2> QED
    BY <1>1, <2>3 DEF KeyPieces
<1>2. CASE id.type = "oidc"
  <2>1. format_subject(id) = URI("human", <<>>, <<id.email>>)
    BY <1>2 DEF format_subject
  <2>2. k = (<<"human">> \o <<id.email>>) \o aud
    BY <2>1 DEF cache_key, Pieces, URI
  <2>3. k[1] = "human" /\ k[2] = id.email
    <3> HIDE DEF k
    <3> QED
      BY <2>2
  <2> QED
    BY <1>2, <2>3 DEF KeyPieces
<1>3. CASE id.type = "aws_sts"
  <2>1. format_subject(id) = URI("aws", <<>>, <<id.account_id, id.role_name>>)
    BY <1>3 DEF format_subject
  <2>2. k = (<<"aws">> \o <<id.account_id, id.role_name>>) \o aud
    BY <2>1 DEF cache_key, Pieces, URI
  <2>3. k[1] = "aws" /\ k[2] = id.account_id /\ k[3] = id.role_name
    <3> HIDE DEF k
    <3> QED
      BY <2>2
  <2> QED
    BY <1>3, <2>3 DEF KeyPieces
<1>4. CASE id.type = "gcp"
  <2>1. format_subject(id) = URI("gcp", <<>>, <<id.project_id, id.email>>)
    BY <1>4 DEF format_subject
  <2>2. k = (<<"gcp">> \o <<id.project_id, id.email>>) \o aud
    BY <2>1 DEF cache_key, Pieces, URI
  <2>3. k[1] = "gcp" /\ k[2] = id.project_id /\ k[3] = id.email
    <3> HIDE DEF k
    <3> QED
      BY <2>2
  <2> QED
    BY <1>4, <2>3 DEF KeyPieces
<1> QED
  BY <1>1, <1>2, <1>3, <1>4 DEF KnownIdentity, Validators

\* Two identities of one key differ in nothing but what the subject leaves open.
LEMMA SameKeySameSubject ==
    ASSUME NEW id, KnownIdentity(id), NEW other, KnownIdentity(other), NEW k, KeyPieces(k, id), KeyPieces(k, other), NEW m
    PROVE  SameSubject(AuthzRequest(m, id), AuthzRequest(m, other), id.type)
<1> DEFINE own == AuthzRequest(m, id)
           shared == AuthzRequest(m, other)
<1>1. \A x : /\ AuthzRequest(m, x).principal = Principal(m, x) /\ AuthzRequest(m, x).context = Context(x)
            /\ Principal(m, x).uid = PrincipalId(x) /\ Context(x).source_type = x.type
  BY DEF AuthzRequest, Principal, Context
<1>2. other.type = id.type
  BY DEF KeyPieces, KnownIdentity, Validators
<1>3. Context(other).source_cloud = Context(id).source_cloud
  BY <1>2 DEF Context
<1>4. SUFFICES /\ id.type # "aws_sts" => PrincipalId(other) = PrincipalId(id)
               /\ Told(Principal(m, other).attributes, id.type) = Told(Principal(m, id).attributes, id.type)
  BY <1>1, <1>2, <1>3 DEF SameSubject
<1>5. CASE id.type = "spire"
  <2>1. other.spiffe_id = id.spiffe_id /\ other.trust_domain = id.trust_domain
    BY <1>2, <1>5 DEF KeyPieces, KnownIdentity, IsSpiffeId
  <2>2. PrincipalId(other) = PrincipalId(id)
    BY <1>2, <1>5, <2>1 DEF PrincipalId
  <2>3. \A x : x.type = "spire" => Principal(m, x).attributes = WorkloadAttributes(x, extract(m, x.spiffe_id))
    BY DEF Principal
  <2>4. ASSUME NEW captures PROVE WorkloadAttributes(other, captures) = WorkloadAttributes(id, captures)
    BY <2>1 DEF WorkloadAttributes
  <2>5. Principal(m, other).attributes = Principal(m, id).attributes
    BY <1>2, <1>5, <2>1, <2>3, <2>4
  <2> QED
    BY <2>2, <2>5
<1>6. CASE id.type = "oidc"
  <2>1. other.email = id.email
    BY <1>2, <1>6 DEF KeyPieces
  <2>2. \A x : x.type = "oidc" => Principal(m, x).attributes = OidcAttributes(x) /\ PrincipalId(x) = <<"OidcIdentity", x.email>>
    BY DEF Principal, PrincipalId
  <2>3. \A x : Told(OidcAttributes(x), "oidc") = {<<"email", x.email>>}
    BY DEF Told, OidcAttributes, NotInSubject
  <2> QED
    BY <1>2, <1>6, <2>1, <2>2, <2>3
<1>7. CASE id.type = "aws_sts"
  <2>1. other.account_id = id.account_id /\ other.role_name = id.role_name
    BY <1>2, <1>7 DEF KeyPieces
  <2>2. \A x : x.type = "aws_sts" => Principal(m, x).attributes = AwsAttributes(x)
    BY DEF Principal
  <2>3. \A x : Told(AwsAttributes(x), "aws_sts") = {<<"account_id", x.account_id>>, <<"role_name", x.role_name>>}
    BY DEF Told, AwsAttributes, NotInSubject
  <2> QED
    BY <1>2, <1>7, <2>1, <2>2, <2>3
<1>8. CASE id.type = "gcp"
  <2>1. other.project_id = id.project_id /\ other.email = id.email
    BY <1>2, <1>8 DEF KeyPieces
  <2>2. \A x : x.type = "gcp" => Principal(m, x).attributes = GcpAttributes(x) /\ PrincipalId(x) = <<"GcpIdentity", x.email>>
    BY DEF Principal, PrincipalId
  <2>3. \A x : Told(GcpAttributes(x), "gcp") = {<<"project_id", x.project_id>>, <<"email", x.email>>}
    BY DEF Told, GcpAttributes, NotInSubject
  <2> QED
    BY <1>2, <1>8, <2>1, <2>2, <2>3
<1> QED
  BY <1>5, <1>6, <1>7, <1>8 DEF KnownIdentity, Validators

-----------------------------------------------------------------------------
(* Certificates. *)

LEMMA PrefixOne ==
    ASSUME NEW n \in Int, NEW a \in Int
    PROVE  <<n>> \o <<a>> = <<n, a>>
<1> DEFINE s == <<n>> \o <<a>>
           t == <<n, a>>
<1>1. s \in Seq(Int) /\ t \in Seq(Int)
  OBVIOUS
<1>2. Len(s) = 2 /\ s[1] = n /\ s[2] = a
  OBVIOUS
<1>3. Len(t) = 2 /\ t[1] = n /\ t[2] = a
  OBVIOUS
<1> HIDE DEF s, t
<1>4. \A i \in 1..Len(s) : s[i] = t[i]
  BY <1>2, <1>3
<1>5. s = t
  BY <1>1, <1>2, <1>3, <1>4, SeqEqual
<1> QED
  BY <1>5 DEF s, t

LEMMA PrefixTwo ==
    ASSUME NEW n \in Int, NEW a \in Int, NEW b \in Int
    PROVE  <<n>> \o <<a, b>> = <<n, a, b>>
<1> DEFINE s == <<n>> \o <<a, b>>
           t == <<n, a, b>>
<1>1. s \in Seq(Int) /\ t \in Seq(Int)
  OBVIOUS
<1>2. Len(s) = 3 /\ s[1] = n /\ s[2] = a /\ s[3] = b
  OBVIOUS
<1>3. Len(t) = 3 /\ t[1] = n /\ t[2] = a /\ t[3] = b
  OBVIOUS
<1> HIDE DEF s, t
<1>4. \A i \in 1..Len(s) : s[i] = t[i]
  BY <1>2, <1>3
<1>5. s = t
  BY <1>1, <1>2, <1>3, <1>4, SeqEqual
<1> QED
  BY <1>5 DEF s, t

LEMMA PrefixThree ==
    ASSUME NEW n \in Int, NEW a \in Int, NEW b \in Int, NEW c \in Int
    PROVE  <<n>> \o <<a, b, c>> = <<n, a, b, c>>
<1> DEFINE s == <<n>> \o <<a, b, c>>
           t == <<n, a, b, c>>
<1>1. s \in Seq(Int) /\ t \in Seq(Int)
  OBVIOUS
<1>2. Len(s) = 4 /\ s[1] = n /\ s[2] = a /\ s[3] = b /\ s[4] = c
  OBVIOUS
<1>3. Len(t) = 4 /\ t[1] = n /\ t[2] = a /\ t[3] = b /\ t[4] = c
  OBVIOUS
<1> HIDE DEF s, t
<1>4. \A i \in 1..Len(s) : s[i] = t[i]
  BY <1>2, <1>3
<1>5. s = t
  BY <1>1, <1>2, <1>3, <1>4, SeqEqual
<1> QED
  BY <1>5 DEF s, t

LEMMA PrefixFour ==
    ASSUME NEW n \in Int, NEW a \in Int, NEW b \in Int, NEW c \in Int, NEW d \in Int
    PROVE  <<n>> \o <<a, b, c, d>> = <<n, a, b, c, d>>
<1> DEFINE s == <<n>> \o <<a, b, c, d>>
           t == <<n, a, b, c, d>>
<1>1. s \in Seq(Int) /\ t \in Seq(Int)
  OBVIOUS
<1>2. Len(s) = 5 /\ s[1] = n /\ s[2] = a /\ s[3] = b /\ s[4] = c /\ s[5] = d
  OBVIOUS
<1>3. Len(t) = 5 /\ t[1] = n /\ t[2] = a /\ t[3] = b /\ t[4] = c /\ t[5] = d
  OBVIOUS
<1> HIDE DEF s, t
<1>4. \A i \in 1..Len(s) : s[i] = t[i]
  BY <1>2, <1>3
<1>5. s = t
  BY <1>1, <1>2, <1>3, <1>4, SeqEqual
<1> QED
  BY <1>5 DEF s, t

\* The length that is put in front of the signed part is the one that was signed.
LEMMA LengthsAgree ==
    ASSUME NEW len \in Nat
    PROVE  encode_length(len) = DerLength(len)
<1> DEFINE P(k) == ByteWeights[k] <= len /\ (k = 4 \/ len < ByteWeights[k + 1])
<1>1. CASE len < 128
  BY SMT, <1>1 DEF encode_length, DerLength
<1>2. ASSUME len >= 128
      PROVE  DerLength(len) = <<128 + BytesIn(len)>> \o BigEndian(len, BytesIn(len))
  BY SMT, <1>2 DEF DerLength
<1>3. CASE len >= 128 /\ len < 256
  <2> DEFINE a == len
  <2>1. P(1) /\ \A k \in 1..4 : P(k) => k = 1
    BY SMT, <1>3 DEF ByteWeights
  <2>2. BytesIn(len) = 1
    BY SMT, <2>1 DEF BytesIn
  <2>3. BigEndian(len, 1) = <<a>>
    BY SMT, <1>3 DEF BigEndian, ByteWeights
  <2>4. DerLength(len) = <<129>> \o BigEndian(len, 1)
    BY SMT, <1>2, <1>3, <2>2
  <2>5. encode_length(len) = <<129, a>>
    BY SMT, <1>3 DEF encode_length
  <2>6. a \in Int
    BY SMT
  <2> HIDE DEF a
  <2>7. <<129>> \o <<a>> = <<129, a>>
    BY SMT, <2>6, PrefixOne
  <2> QED
    BY Zenon, <2>3, <2>4, <2>5, <2>7
<1>4. CASE len >= 256 /\ len < 65536
  <2> DEFINE a == len \div 256
             b == len % 256
  <2>1. P(2) /\ \A k \in 1..4 : P(k) => k = 2
    BY SMT, <1>4 DEF ByteWeights
  <2>2. BytesIn(len) = 2
    BY SMT, <2>1 DEF BytesIn
  <2>3. BigEndian(len, 2) = <<a, b>>
    BY SMT, <1>4 DEF BigEndian, ByteWeights
  <2>4. DerLength(len) = <<130>> \o BigEndian(len, 2)
    BY SMT, <1>2, <1>4, <2>2
  <2>5. encode_length(len) = <<130, a, b>>
    BY SMT, <1>4 DEF encode_length
  <2>6. a \in Int /\ b \in Int
    BY SMT
  <2> HIDE DEF a, b
  <2>7. <<130>> \o <<a, b>> = <<130, a, b>>
    BY SMT, <2>6, PrefixTwo
  <2> QED
    BY Zenon, <2>3, <2>4, <2>5, <2>7
<1>5. CASE len >= 65536 /\ len < 16777216
  <2> DEFINE a == len \div 65536
             b == (len \div 256) % 256
             c == len % 256
  <2>1. P(3) /\ \A k \in 1..4 : P(k) => k = 3
    BY SMT, <1>5 DEF ByteWeights
  <2>2. BytesIn(len) = 3
    BY SMT, <2>1 DEF BytesIn
  <2>3. BigEndian(len, 3) = <<a, b, c>>
    BY SMT, <1>5 DEF BigEndian, ByteWeights
  <2>4. DerLength(len) = <<131>> \o BigEndian(len, 3)
    BY SMT, <1>2, <1>5, <2>2
  <2>5. encode_length(len) = <<131, a, b, c>>
    BY SMT, <1>5 DEF encode_length
  <2>6. a \in Int /\ b \in Int /\ c \in Int
    BY SMT
  <2> HIDE DEF a, b, c
  <2>7. <<131>> \o <<a, b, c>> = <<131, a, b, c>>
    BY SMT, <2>6, PrefixThree
  <2> QED
    BY Zenon, <2>3, <2>4, <2>5, <2>7
<1>6. CASE len >= 16777216
  <2> DEFINE a == (len \div 16777216) % 256
             b == (len \div 65536) % 256
             c == (len \div 256) % 256
             d == len % 256
  <2>1. P(4) /\ \A k \in 1..4 : P(k) => k = 4
    BY SMT, <1>6 DEF ByteWeights
  <2>2. BytesIn(len) = 4
    BY SMT, <2>1 DEF BytesIn
  <2>3. BigEndian(len, 4) = <<a, b, c, d>>
    BY SMT, <1>6 DEF BigEndian, ByteWeights
  <2>4. DerLength(len) = <<132>> \o BigEndian(len, 4)
    BY SMT, <1>2, <1>6, <2>2
  <2>5. encode_length(len) = <<132, a, b, c, d>>
    BY SMT, <1>6 DEF encode_length
  <2>6. a \in Int /\ b \in Int /\ c \in Int /\ d \in Int
    BY SMT
  <2> HIDE DEF a, b, c, d
  <2>7. <<132>> \o <<a, b, c, d>> = <<132, a, b, c, d>>
    BY SMT, <2>6, PrefixFour
  <2> QED
    BY Zenon, <2>3, <2>4, <2>5, <2>7
<1> QED
  BY SMT, <1>1, <1>3, <1>4, <1>5, <1>6

\* What a certificate names: its subject, and nothing else that MtlsValidator
\* would take for one.
LEMMA NamesOfCertificate ==
    ASSUME NEW subject, NEW g \in Grants
    PROVE  /\ Len(Sans(subject, g)) = 1 + Len(g) /\ Len(g) \in Nat
           /\ Sans(subject, g)[1] = subject
           /\ \A i \in 1..Len(g) : Sans(subject, g)[i + 1] = BilletUri(subject, g[i])
<1> DEFINE uris == [i \in 1..Len(g) |-> BilletUri(subject, g[i])]
           S == {subject} \cup {BilletUri(subject, g[i]) : i \in 1..Len(g)}
<1>1. g \in Seq(ToSet(g)) /\ Len(g) \in Nat
  BY ServiceAssumption
<1>2. uris \in Seq(S) /\ Len(uris) = Len(g)
  BY <1>1
<1>3. <<subject>> \in Seq(S) /\ Len(<<subject>>) = 1 /\ <<subject>>[1] = subject
  OBVIOUS
<1>4. \A i \in 1..Len(g) : uris[i] = BilletUri(subject, g[i])
  OBVIOUS
<1> HIDE DEF uris, S
<1>5. /\ Len(<<subject>> \o uris) = 1 + Len(g)
      /\ \A i \in 1..(1 + Len(g)) : (<<subject>> \o uris)[i] = IF i <= 1 THEN <<subject>>[i] ELSE uris[i - 1]
  BY <1>2, <1>3, ConcatProperties
<1>6. (<<subject>> \o uris)[1] = subject
  BY <1>1, <1>3, <1>5
<1>7. ASSUME NEW i \in 1..Len(g)
      PROVE  (<<subject>> \o uris)[i + 1] = BilletUri(subject, g[i])
  <2>1. i + 1 \in 1..(1 + Len(g)) /\ ~(i + 1 <= 1) /\ (i + 1) - 1 = i
    BY <1>1
  <2>2. (<<subject>> \o uris)[i + 1] = uris[i]
    BY <1>5, <2>1
  <2> QED
    BY <1>4, <2>2
<1>8. Sans(subject, g) = <<subject>> \o uris
  BY DEF Sans, uris
<1> QED
  BY <1>1, <1>5, <1>6, <1>7, <1>8

LEMMA SansOfCertificate ==
    ASSUME NEW q, NEW id, NEW g
    PROVE  CertificateFor(q, id, g).sans = Sans(format_subject(id), g)
<1>1. \A auth : issue(auth, q.csr, format_subject(id), g, clock).sans = Sans(format_subject(id), g)
  BY DEF issue
<1> QED
  BY <1>1 DEF CertificateFor, KmsIssue

\* A certificate is refused for a reason that the request or its names give.
LEMMA RefusedCertificate ==
    ASSUME NEW q \in Requests, NEW id, NEW g \in Grants, q.csr # None, ~Certified(q, id, g)
    PROVE  \/ q.csr = Unreadable
           \/ ~q.csr.der \/ ~q.csr.genuine
           \/ TooLong(q.csr) \/ AsksForUnknown(q.csr)
           \/ q.csr.oid \notin DOMAIN oid_to_ring_algorithm
           \/ q.csr.key # oid_to_ring_algorithm[q.csr.oid]
           \/ ~Ascii(format_subject(id)) \/ ~Ascii(URI("", <<>>, g))
<1> SUFFICES ASSUME q.csr # Unreadable, ~verify_csr_signature(q.csr), ~TooLong(q.csr),
                    q.csr.der, q.csr.genuine, q.csr.oid \in DOMAIN oid_to_ring_algorithm,
                    q.csr.key = oid_to_ring_algorithm[q.csr.oid]
             PROVE  FALSE
  <2> DEFINE subject == format_subject(id)
  <2>1. ASSUME Ascii(subject), Ascii(URI("", <<>>, g)), NEW i \in 1..Len(Sans(subject, g))
        PROVE  Ascii(Sans(subject, g)[i])
    <3> HIDE DEF subject
    <3>1. CASE i = 1
      BY <2>1, <3>1, NamesOfCertificate
    <3>2. CASE i # 1
      <4>1. i - 1 \in 1..Len(g) /\ (i - 1) + 1 = i
        BY <3>2, NamesOfCertificate
      <4>2. Sans(subject, g)[i] = BilletUri(subject, g[i - 1])
        BY <4>1, NamesOfCertificate
      <4>3. g[i - 1] \notin NonAscii
        BY <2>1, <4>1 DEF Ascii, URI
      <4>4. BilletUri(subject, g[i - 1]).path = <<g[i - 1]>>
        BY DEF BilletUri, URI
      <4> QED
        BY <4>2, <4>3, <4>4 DEF Ascii
    <3> QED
      BY <3>1, <3>2
  <2>2. from_der(q.csr) \/ AsksForUnknown(q.csr)
    BY DEF from_der, AsksForUnknown
  <2>3. \/ q.csr = Unreadable \/ ~verify_csr_signature(q.csr) \/ AsksForUnknown(q.csr)
        \/ \E i \in 1..Len(Sans(subject, g)) : ~Ascii(Sans(subject, g)[i])
    BY <2>2 DEF Certified, Issues
  <2>4. \/ q.csr = Unreadable \/ ~verify_csr_signature(q.csr) \/ AsksForUnknown(q.csr)
        \/ ~Ascii(subject) \/ ~Ascii(URI("", <<>>, g))
    <3> HIDE DEF subject
    <3> QED
      BY <2>1, <2>3
  <2> QED
    BY Zenon, <2>4
<1>1. q.csr.len \in Nat /\ q.csr.rest \in Nat
  BY ServiceAssumption
<1> DEFINE written == encode_length(q.csr.len)
           read == DerLength(q.csr.len)
<1>2. Len(written) \in Nat
  BY DEF encode_length
<1>3. written = read
  BY <1>1, LengthsAgree
<1>4. Len(read) \in Nat
  <2> HIDE DEF written, read
  <2> QED
    BY <1>2, <1>3
<1>5. ReadsLength(RequestLength(q.csr))
  <2> DEFINE length == RequestLength(q.csr)
  <2>1. length = 1 + Len(read) + q.csr.len + q.csr.rest
    BY DEF RequestLength
  <2>2. ~(length > 65535)
    BY DEF TooLong
  <2> HIDE DEF read, length
  <2>3. length \in Nat
    BY <1>1, <1>4, <2>1
  <2>4. length < 65536
    BY <2>2, <2>3
  <2> QED
    BY <2>4 DEF ReadsLength, length
<1> QED
  BY <1>3, <1>5 DEF verify_csr_signature

-----------------------------------------------------------------------------
(* Admission. *)

\* The keys behind a provider's name are its own, but for Google's.
LEMMA KeysOfProvider ==
    ASSUME NEW sources, ValidIdentity(sources), NEW i \in 1..Len(sources.oidc)
    PROVE  LET p == sources.oidc[i]
           IN  JwksSources(sources)[p.name].issuer = IF p.name = "google" /\ enabled(sources.gcp) THEN "google" ELSE p.issuer
<1> DEFINE p == sources.oidc[i]
           all == {sources.oidc[j] : j \in 1..Len(sources.oidc)}
           names == {sources.oidc[j].name : j \in 1..Len(sources.oidc)} \cup (IF enabled(sources.gcp) THEN {"google"} ELSE {})
<1>1. \A x \in all : x.name = p.name => x = p
  BY DEF ValidIdentity
<1>2. (CHOOSE x \in all : x.name = p.name) = p
  BY <1>1
<1>3. \A iss, c : JwksSource(iss, c).issuer = iss
  BY DEF JwksSource
<1>4. p.name \in names
  OBVIOUS
<1>5. JwksSources(sources)[p.name] =
        IF p.name = "google" /\ enabled(sources.gcp) THEN JwksSource("google", sources.gcp)
        ELSE JwksSource((CHOOSE x \in all : x.name = p.name).issuer, CHOOSE x \in all : x.name = p.name)
  BY <1>4 DEF JwksSources
<1>6. JwksSources(sources)[p.name] =
        IF p.name = "google" /\ enabled(sources.gcp) THEN JwksSource("google", sources.gcp) ELSE JwksSource(p.issuer, p)
  BY Zenon, <1>2, <1>5
<1>7. SUFFICES JwksSources(sources)[p.name].issuer =
                 IF p.name = "google" /\ enabled(sources.gcp) THEN "google" ELSE p.issuer
  OBVIOUS
<1> HIDE DEF p, all, names
<1> QED
  BY <1>3, <1>6

LEMMA FirstOfIssuer ==
    ASSUME NEW sources, Len(sources) \in Nat, NEW iss
    PROVE  \/ /\ find_source_by_issuer(sources, iss) = None
              /\ \A i \in 1..Len(sources) : sources[i].issuer # iss
           \/ \E i \in 1..Len(sources) :
                 /\ find_source_by_issuer(sources, iss) = sources[i] /\ sources[i].issuer = iss
                 /\ \A j \in 1..(i - 1) : sources[j].issuer # iss
<1> DEFINE at == {i \in 1..Len(sources) : sources[i].issuer = iss}
           first == CHOOSE i \in at : \A j \in at : i <= j
<1>1. CASE at = {}
  BY <1>1 DEF find_source_by_issuer
<1>2. CASE at # {}
  <2>1. at \in SUBSET Nat
    OBVIOUS
  <2>2. first \in at /\ \A j \in at : first <= j
    <3> HIDE DEF at
    <3> QED
      BY <1>2, <2>1, LeastIndex
  <2>3. find_source_by_issuer(sources, iss) = sources[first]
    BY <1>2 DEF find_source_by_issuer
  <2>4. \A j \in 1..(first - 1) : sources[j].issuer # iss
    BY <2>2
  <2> HIDE DEF first
  <2> QED
    BY <2>2, <2>3, <2>4
<1> QED
  BY <1>1, <1>2

\* The OIDC validator of the configuration.
LEMMA OidcConfigured ==
    ASSUME StartInv, pc = "serving", app.validators.oidc # None
    PROVE  /\ config.identity # None /\ ValidIdentity(config.identity)
           /\ app.validators.oidc = config.identity.oidc
           /\ app.validators.jwks = JwksSources(config.identity)
           /\ Len(config.identity.oidc) \in Nat /\ \A i \in 1..Len(config.identity.oidc) : config.identity.oidc[i] # None
<1>1. app.validators = ValidatorsOf(config) /\ validate(config) /\ ConfigTyped(config)
  BY DEF StartInv, LoadedInv, BuiltInv, BuiltOf, FromMtls
<1>2. OidcValidatorOf(config) # None /\ app.validators.oidc = OidcValidatorOf(config)
  BY <1>1 DEF ValidatorsOf
<1>3. OidcSources(config) # <<>> /\ OidcValidatorOf(config) = OidcSources(config)
  BY <1>2 DEF OidcValidatorOf
<1>4. config.identity # None /\ OidcSources(config) = config.identity.oidc
  BY <1>3 DEF OidcSources
<1>5. app.validators.jwks = JwksSources(config.identity)
  BY <1>1, <1>4 DEF ValidatorsOf
<1> QED
  BY <1>1, <1>2, <1>3, <1>4, <1>5 DEF validate, ConfigTyped

\* The answer of the OIDC validator.
LEMMA OidcAdmission ==
    ASSUME StartInv, pc = "serving", NEW t, NEW fresh, app.validators.oidc # None,
           NEW id, id = ValidateOidc(app.validators.oidc, app.validators.jwks, t, clock, fresh)
    PROVE  /\ id.type = "oidc" => OidcAdmits(id, t)
           /\ id.type = "refused" => OidcRefuses(t)
<1> DEFINE oidc == config.identity.oidc
           keys == JwksSources(config.identity)
           s == find_source_by_issuer(oidc, t.iss)
<1>1. /\ ValidIdentity(config.identity) /\ app.validators.oidc = oidc /\ app.validators.jwks = keys
      /\ Len(oidc) \in Nat /\ \A i \in 1..Len(oidc) : oidc[i] # None
  BY OidcConfigured
<1>2. id = IF s = None THEN Error("refused")
           ELSE IF s.name \notin fresh THEN Error("keys_stale")
           ELSE IF OidcAccepted(s, keys, t, clock) THEN OidcIdentity(s, t)
           ELSE Error("refused")
  BY <1>1 DEF ValidateOidc
<1>3. \A i \in 1..Len(oidc) : keys[oidc[i].name].issuer = IF TakenByGoogle(oidc[i]) THEN "google" ELSE oidc[i].issuer
  BY <1>1, KeysOfProvider DEF TakenByGoogle
<1>4. \/ s = None /\ \A i \in 1..Len(oidc) : oidc[i].issuer # t.iss
      \/ \E i \in 1..Len(oidc) : s = oidc[i] /\ oidc[i].issuer = t.iss /\ \A j \in 1..(i - 1) : oidc[j].issuer # t.iss
  BY <1>1, FirstOfIssuer
<1>5. Error("refused").type = "refused" /\ Error("keys_stale").type = "keys_stale" /\ OidcIdentity(s, t).type = "oidc"
      /\ OidcIdentity(s, t).idp_prefix = s.name
  BY DEF Error, OidcIdentity
<1> HIDE DEF oidc, keys, s
<1>6. ASSUME id.type = "oidc"
      PROVE  \E i \in 1..Len(oidc) :
                /\ oidc[i].name = id.idp_prefix /\ oidc[i].issuer = t.iss
                /\ t.signer = oidc[i].issuer \/ (TakenByGoogle(oidc[i]) /\ t.signer = "google")
                /\ oidc[i].client_ids \cap t.aud # {} /\ Unexpired(t, clock)
  <2>1. s # None /\ OidcAccepted(s, keys, t, clock) /\ id = OidcIdentity(s, t)
    BY <1>2, <1>5, <1>6
  <2>2. PICK i \in 1..Len(oidc) : s = oidc[i] /\ oidc[i].issuer = t.iss
    BY <1>4, <2>1
  <2>3. t.signer = keys[oidc[i].name].issuer /\ oidc[i].client_ids \cap t.aud # {} /\ Unexpired(t, clock)
    BY <2>1, <2>2 DEF OidcAccepted
  <2> QED
    BY <1>3, <1>5, <2>1, <2>2, <2>3
<1>7. ASSUME id.type = "refused", NEW i \in 1..Len(oidc),
             oidc[i].issuer = t.iss, t.signer = t.iss, Unexpired(t, clock), oidc[i].client_ids \cap t.aud # {},
             None \notin {t.email, t.sub}, \A j \in 1..(i - 1) : oidc[j].issuer # oidc[i].issuer
      PROVE  TakenByGoogle(oidc[i])
  <2>1. PICK k \in 1..Len(oidc) : s = oidc[k] /\ oidc[k].issuer = t.iss /\ \A j \in 1..(k - 1) : oidc[j].issuer # t.iss
    BY <1>4, <1>7
  <2>2. k = i
    <3>1. ~(k < i) /\ ~(i < k)
      BY <1>1, <1>7, <2>1
    <3> QED
      BY <1>1, <3>1
  <2>3. s # None /\ ~OidcAccepted(s, keys, t, clock)
    BY <1>1, <1>2, <1>5, <1>7, <2>1
  <2>4. t.signer # keys[oidc[i].name].issuer
    BY <1>7, <2>1, <2>2, <2>3 DEF OidcAccepted
  <2> QED
    BY <1>3, <1>7, <2>4
<1> QED
  BY <1>6, <1>7 DEF oidc, OidcAdmits, OidcRefuses

\* The key that an SVID is held against is one of the bundle.
LEMMA KeyOfBundle ==
    ASSUME NEW keys, NEW kid, find_key(keys, kid) # None
    PROVE  \E i \in 1..Len(keys) : keys[i] = find_key(keys, kid)
<1> DEFINE at == {i \in 1..Len(keys) : keys[i].kid = kid}
           first == CHOOSE i \in at : \A j \in at : i <= j
<1>1. at # {} /\ find_key(keys, kid) = keys[first]
  BY DEF find_key
<1>2. at \in SUBSET Nat
  OBVIOUS
<1>3. first \in at
  <2> HIDE DEF at
  <2> QED
    BY <1>1, <1>2, LeastIndex
<1> HIDE DEF first
<1> QED
  BY <1>1, <1>3

\* The answer of the SPIRE validator.
LEMMA SvidAdmission ==
    ASSUME StartInv, pc = "serving", NEW t, app.validators.spire # None, SvidAccepted(app.validators.spire, t, clock)
    PROVE  SpireAdmits(SvidIdentity(t), t)
<1> DEFINE s == SpireInForce(config)
<1>1. app.validators.spire = SpireValidatorOf(config)
  BY DEF StartInv, BuiltInv, BuiltOf, FromMtls, ValidatorsOf
<1>2. s # None /\ app.validators.spire = [trust_domain |-> s.trust_domain, audience |-> s.audience, keys |-> parse_jwks(s.jwks_path)]
  BY <1>1 DEF SpireValidatorOf
<1> DEFINE keys == parse_jwks(s.jwks_path)
<1>3. /\ find_key(keys, t.kid) # None /\ t.signer = find_key(keys, t.kid) /\ Unexpired(t, clock)
      /\ IsPrefix(s.trust_domain, t.iss) /\ s.audience \in t.aud
  <2> HIDE DEF s, keys
  <2>1. /\ app.validators.spire.keys = keys /\ app.validators.spire.trust_domain = s.trust_domain
        /\ app.validators.spire.audience = s.audience
    BY <1>2 DEF keys
  <2> QED
    BY <2>1 DEF SvidAccepted
<1>4. \E i \in 1..Len(keys) : keys[i] = t.signer
  BY <1>3, KeyOfBundle
<1>5. SvidWithin(s.trust_domain, s.audience, s.jwks_path, t)
  BY <1>3, <1>4 DEF SvidWithin
<1>6. SvidIdentity(t).spiffe_id = t.sub
  BY DEF SvidIdentity
<1>7. CASE config.identity = None
  <2>1. config.spire # None /\ s.trust_domain = config.spire.trust_domain /\ s.audience = config.issuer
        /\ s.jwks_path = config.spire.trust_bundle_path
    BY <1>2, <1>7 DEF SpireInForce
  <2> HIDE DEF s
  <2> QED
    BY <1>5, <1>6, <1>7, <2>1 DEF SpireAdmits
<1>8. CASE config.identity # None
  <2>1. s = config.identity.spire
    BY <1>8 DEF SpireInForce, SpireSource
  <2> HIDE DEF s
  <2> QED
    BY <1>2, <1>5, <1>6, <1>8, <2>1 DEF SpireAdmits
<1> QED
  BY <1>7, <1>8

\* The answer of MtlsValidator.
LEMMA CertificateAdmission ==
    ASSUME StartInv, pc = "serving", NEW c, Len(c.sans) \in Nat, app.mtls # None,
           NEW id, id = CertificateIdentity(app.mtls, c, clock), id # None
    PROVE  id.type = "spire" /\ CertificateAdmits(id, c)
<1>1. app.mtls = MtlsOf(config)
  BY DEF StartInv, BuiltInv, BuiltOf, FromMtls
<1>2. X509Bundle(config) # None /\ app.mtls = [trust_domain |-> SpireSource(config).trust_domain, anchors |-> X509Bundle(config)]
  BY <1>1 DEF MtlsOf
<1>3. /\ config.server.tls # None /\ config.identity # None /\ config.identity.spire # None
      /\ X509Bundle(config) = config.identity.spire.x509_bundle_path
      /\ SpireSource(config) = config.identity.spire
  BY <1>2 DEF X509Bundle, SpireSource
<1>4. /\ app.mtls.trust_domain = config.identity.spire.trust_domain
      /\ app.mtls.anchors = config.identity.spire.x509_bundle_path
      /\ config.identity.spire.x509_bundle_path # None
  BY <1>2, <1>3
<1>5. /\ id.type = "spire" /\ id.spiffe_id.domain = app.mtls.trust_domain
      /\ c.issuer \in app.mtls.anchors /\ c.not_before <= clock /\ clock <= c.not_after
      /\ \E i \in 1..Len(c.sans) : c.sans[i].scheme = "spiffe" /\ id.spiffe_id = c.sans[i]
  BY CertificateNames
<1>6. id.spiffe_id.scheme = "spiffe" /\ \E i \in 1..Len(c.sans) : c.sans[i] = id.spiffe_id
  BY <1>5
<1> QED
  BY <1>3, <1>4, <1>5, <1>6 DEF CertificateAdmits

\* Whatever a request is from, it is admitted as the configuration says.
LEMMA Admission ==
    ASSUME StartInv, pc = "serving", NEW q \in Requests, NEW c, c # None => Len(c.sans) \in Nat, NEW fresh
    PROVE  Admitted(Identify(q, c, fresh), q.token, Credentials(q, c).peer)
<1> DEFINE t  == q.token
           id == Identify(q, c, fresh)
           peer == Credentials(q, c).peer
<1>1. /\ app.validators = ValidatorsOf(config) /\ app.mtls = MtlsOf(config)
  BY DEF StartInv, BuiltInv, BuiltOf, FromMtls
<1>2. Error("unknown_token_type").type = "unknown_token_type"
  BY DEF Error
<1>3. CASE id = Error("unknown_token_type")
  BY <1>2, <1>3 DEF Admitted
<1>4. CASE id # Error("unknown_token_type") /\ t = None
  <2>1. id = extract_mtls_identity(c) /\ id # None
    BY <1>4 DEF Identify
  <2>2. c # None /\ app.mtls # None /\ id = CertificateIdentity(app.mtls, c, clock)
    BY <2>1 DEF extract_mtls_identity
  <2>3. id.type = "spire" /\ CertificateAdmits(id, c)
    <3> HIDE DEF id
    <3> QED
      BY <2>1, <2>2, CertificateAdmission
  <2>4. peer = c
    BY <1>4 DEF Credentials
  <2> HIDE DEF id, peer
  <2>5. Admitted(id, t, peer)
    BY <1>4, <2>3, <2>4 DEF Admitted
  <2> QED
    BY <2>5 DEF id, peer
<1>5. CASE id # Error("unknown_token_type") /\ t # None
  <2>1. id = Dispatch(app.validators, t, clock, fresh)
    BY <1>5 DEF Identify
  <2>2. t.type \in Validators /\ app.validators[t.type] # None
    BY <1>5, <2>1 DEF Dispatch
  <2>3. Error("refused").type = "refused" /\ Error("keys_stale").type = "keys_stale"
    BY DEF Error
  <2>4. CASE t.type = "spire"
    <3>1. id = ValidateSvid(app.validators.spire, t, clock) /\ app.validators.spire # None
      BY <2>1, <2>2, <2>4 DEF Dispatch
    <3>2. \/ id = Error("refused")
          \/ id = SvidIdentity(t) /\ SvidAccepted(app.validators.spire, t, clock)
      BY <3>1 DEF ValidateSvid
    <3>3. SvidIdentity(t).type = "spire"
      BY DEF SvidIdentity
    <3>4. id.type = "refused" \/ (id.type = "spire" /\ SpireAdmits(id, t))
      BY <2>3, <3>1, <3>2, <3>3, SvidAdmission
    <3>5. SUFFICES Admitted(id, t, peer)
      OBVIOUS
    <3> HIDE DEF id, t, peer
    <3> QED
      BY <1>5, <2>4, <3>4 DEF Admitted
  <2>5. CASE t.type = "oidc"
    <3>1. id = ValidateOidc(app.validators.oidc, app.validators.jwks, t, clock, fresh) /\ app.validators.oidc # None
      BY <2>1, <2>2, <2>5 DEF Dispatch
    <3>2. id.type \in {"oidc", "refused", "keys_stale"}
      BY <3>1, <2>3 DEF ValidateOidc, OidcIdentity
    <3>3. SUFFICES Admitted(id, t, peer)
      OBVIOUS
    <3> HIDE DEF id, t, peer
    <3> QED
      BY <1>5, <3>1, <3>2, OidcAdmission DEF Admitted
  <2>6. CASE t.type = "aws_sts"
    <3>1. id = ValidateAws(app.validators.aws_sts, t) /\ app.validators.aws_sts # None
      BY <2>1, <2>2, <2>6 DEF Dispatch
    <3>2. \/ id.type = "refused"
          \/ id.type = "aws_sts" /\ id.account_id = t.answer.account /\ AwsAccepted(app.validators.aws_sts, t)
      BY <3>1, <2>3 DEF ValidateAws, AwsIdentity
    <3>3. app.validators.aws_sts = config.identity.aws_sts /\ config.identity.aws_sts.enabled
      BY <1>1, <3>1 DEF ValidatorsOf, AwsStsSource, enabled
    <3>4. SUFFICES Admitted(id, t, peer)
      OBVIOUS
    <3> HIDE DEF id, t, peer
    <3> QED
      BY <1>5, <2>6, <3>2, <3>3 DEF Admitted, AwsAdmits, AwsAccepted
  <2>7. CASE t.type = "gcp"
    <3>1. id = ValidateGcp(app.validators.gcp, app.validators.jwks, t, clock, fresh) /\ app.validators.gcp # None
      BY <2>1, <2>2, <2>7 DEF Dispatch
    <3>2. \/ id.type \in {"refused", "keys_stale"}
          \/ /\ id.type = "gcp" /\ id.project_id = t.project_id
             /\ GcpAccepted(app.validators.gcp, app.validators.jwks, t, clock)
      BY <3>1, <2>3 DEF ValidateGcp, GcpIdentity
    <3>3. app.validators.gcp = config.identity.gcp /\ config.identity.gcp.enabled
      BY <1>1, <3>1 DEF ValidatorsOf, GcpSource, enabled
    <3>4. app.validators.jwks["google"].issuer = "google"
      <4>1. app.validators.jwks = JwksSources(config.identity) /\ enabled(config.identity.gcp)
        BY <1>1, <3>1 DEF ValidatorsOf, GcpSource
      <4>2. \A iss, x : JwksSource(iss, x).issuer = iss
        BY DEF JwksSource
      <4>3. JwksSources(config.identity)["google"] = JwksSource("google", config.identity.gcp)
        BY <4>1 DEF JwksSources
      <4> QED
        BY <4>1, <4>2, <4>3
    <3>5. SUFFICES Admitted(id, t, peer)
      OBVIOUS
    <3> HIDE DEF id, t, peer
    <3> QED
      BY <1>5, <2>7, <3>2, <3>3, <3>4 DEF Admitted, GcpAdmits, GcpAccepted
  <2> QED
    BY <2>2, <2>4, <2>5, <2>6, <2>7 DEF Validators
<1> QED
  BY <1>3, <1>4, <1>5

-----------------------------------------------------------------------------
(* POST /token. *)

LEMMA KnownIsNoError ==
    ASSUME NEW id, KnownIdentity(id)
    PROVE  id.type \notin IdentityErrors
  BY DEF KnownIdentity, Validators, IdentityErrors

\* What an answer says depends on nothing that the same step may change.
LEMMA AdmittedStays ==
    ASSUME NEW id, NEW q, NEW c, Admitted(id, q.token, Credentials(q, c).peer), UNCHANGED <<config, clock>>,
           reply'.identity = id, reply'.from = Credentials(q, c)
    PROVE  AdmittedAsConfigured'
<1> DEFINE t == q.token
           peer == Credentials(q, c).peer
<1>1. reply'.from.token = t /\ reply'.from.peer = peer
  BY DEF Credentials
<1> HIDE DEF t, peer
<1>2. Admitted(id, t, peer)
  BY DEF t, peer
<1>3. Admitted(id, t, peer)'
  BY <1>2 DEF Admitted, TakenByGoogle, SpireAdmits, SvidWithin, CertificateAdmits, AwsAdmits, GcpAdmits, OidcAdmits,
              OidcRefuses
<1>4. Admitted(reply.identity, reply.from.token, reply.from.peer)'
  BY <1>1, <1>3
<1> QED
  BY <1>4 DEF AdmittedAsConfigured

\* An answer without a token.
LEMMA RefusalAnswers ==
    ASSUME NEW q, NEW c, NEW id, NEW answer, reply' = Answer(q, c, answer, id), answer # "ok",
           answer = "invalid_request" => id.type \in IdentityErrors
    PROVE  /\ reply'.identity = id /\ reply'.from = Credentials(q, c)
           /\ AnswersFromOwnPrincipal' /\ GoodRequestsCertified'
<1>1. reply'.answer = answer /\ reply'.identity = id /\ reply'.from = Credentials(q, c)
  BY DEF Answer
<1> QED
  BY <1>1 DEF AnswersFromOwnPrincipal, GoodRequestsCertified

\* Granted billets: they were granted to the principal itself, or to one whose key
\* is the same, and a certificate is refused with a reason.
LEMMA GrantAnswers ==
    ASSUME NEW q \in Requests, NEW c, NEW id, KnownIdentity(id), NEW k, KeyPieces(k, id), UNCHANGED app,
           NEW evaluated, NEW cached,
           IF cached THEN EvaluatedFor(app.matcher, k, evaluated) ELSE evaluated = AuthzRequest(app.matcher, id),
           NEW g \in Grants, Grant(q, c, id, evaluated, cached, g)
    PROVE  /\ reply'.identity = id /\ reply'.from = Credentials(q, c)
           /\ AnswersFromOwnPrincipal' /\ GoodRequestsCertified'
<1> DEFINE own == AuthzRequest(app.matcher, id)
<1>1. IF cached THEN SameSubject(own, evaluated, id.type) ELSE evaluated = own
  <2>1. CASE cached
    <3>1. PICK other : KnownIdentity(other) /\ KeyPieces(k, other) /\ evaluated = AuthzRequest(app.matcher, other)
      BY <2>1 DEF EvaluatedFor
    <3>2. SameSubject(own, AuthzRequest(app.matcher, other), id.type)
      BY <3>1, SameKeySameSubject
    <3> QED
      BY <2>1, <3>1, <3>2
  <2>2. CASE ~cached
    BY <2>2
  <2> QED
    BY <2>1, <2>2
<1>2. CASE reply' = TokenAnswer(q, c, id, evaluated, cached)
  <2>1. /\ reply'.answer = "ok" /\ reply'.identity = id /\ reply'.from = Credentials(q, c)
        /\ reply'.cached = cached /\ reply'.evaluated = evaluated
    BY <1>2 DEF TokenAnswer
  <2>2. AuthzRequest(app'.matcher, reply'.identity) = own
    BY <2>1
  <2>3. IF reply'.cached THEN SameSubject(AuthzRequest(app'.matcher, reply'.identity), reply'.evaluated, reply'.identity.type)
        ELSE reply'.evaluated = AuthzRequest(app'.matcher, reply'.identity)
    <3> HIDE DEF own
    <3> QED
      BY <1>1, <2>1, <2>2
  <2>4. AnswersFromOwnPrincipal'
    BY <2>3 DEF AnswersFromOwnPrincipal
  <2> QED
    BY <2>1, <2>4 DEF GoodRequestsCertified
<1>3. CASE q.csr # None /\ ~Certified(q, id, g) /\ reply' = Answer(q, c, "invalid_request", id)
  <2>1. /\ reply'.answer = "invalid_request" /\ reply'.identity = id /\ reply'.from = Credentials(q, c)
        /\ reply'.csr = q.csr
    BY <1>3 DEF Answer
  <2>2. \/ q.csr = Unreadable
        \/ ~q.csr.der \/ ~q.csr.genuine
        \/ TooLong(q.csr) \/ AsksForUnknown(q.csr)
        \/ q.csr.oid \notin DOMAIN oid_to_ring_algorithm
        \/ q.csr.key # oid_to_ring_algorithm[q.csr.oid]
        \/ ~Ascii(format_subject(id)) \/ ~Ascii(URI("", <<>>, g))
    BY <1>3, RefusedCertificate
  <2>3. GoodRequestsCertified'
    BY <2>1, <2>2 DEF GoodRequestsCertified
  <2> QED
    BY <2>1, <2>3 DEF AnswersFromOwnPrincipal
<1> QED
  BY <1>2, <1>3 DEF Grant

\* A new certificate names its root and nothing else that could be taken for an
\* identity.
LEMMA GrantKeepsRoots ==
    ASSUME CertsInv, NEW q \in Requests, NEW c, NEW id, KnownIdentity(id), NEW evaluated, NEW cached,
           NEW g \in Grants,
           q.token = None =>
              id.type = "spire" /\ \E i \in 1..Len(c.sans) : c.sans[i].scheme = "spiffe" /\ id.spiffe_id = c.sans[i],
           Grant(q, c, id, evaluated, cached, g)
    PROVE  CertsInv'
<1> DEFINE subject == format_subject(id)
           new == [cert |-> CertificateFor(q, id, g), root |-> RootOf(c, id, q)]
<1>1. new.cert.sans = Sans(subject, g) /\ new.root = RootOf(c, id, q)
  BY SansOfCertificate
<1>2. subject.scheme = "spiffe" => IsSpiffeId(subject) /\ id.type = "spire" /\ subject = id.spiffe_id
  BY DEF format_subject, KnownIdentity, Validators, URI
<1>3. subject.scheme = "spiffe" => RootOf(c, id, q) = subject
  <2> DEFINE own == {x \in certs : x.cert = c}
  <2>1. CASE q.token = None /\ own # {}
    <3>1. (CHOOSE x \in own : TRUE) \in own
      BY <2>1
    <3>2. PICK x \in own : RootOf(c, id, q) = x.root
      BY <2>1, <3>1 DEF RootOf
    <3>3. \A i \in 1..Len(c.sans) : c.sans[i].scheme = "spiffe" => c.sans[i] = x.root
      BY <3>2 DEF CertsInv, CertInv
    <3> QED
      BY <1>2, <2>1, <3>2, <3>3
  <2>2. CASE ~(q.token = None /\ own # {})
    BY <2>2 DEF RootOf
  <2> QED
    BY <2>1, <2>2
<1>4. CertInv(new)
  <2>1. Len(Sans(subject, g)) = 1 + Len(g) /\ Len(g) \in Nat /\ Sans(subject, g)[1] = subject
    BY NamesOfCertificate
  <2>2. ASSUME NEW i \in 1..Len(Sans(subject, g)), Sans(subject, g)[i].scheme = "spiffe"
        PROVE  Sans(subject, g)[i] = subject
    <3>1. CASE i = 1
      BY <2>1, <3>1
    <3>2. CASE i # 1
      <4>1. i - 1 \in 1..Len(g) /\ (i - 1) + 1 = i
        BY <2>1, <3>2
      <4>2. Sans(subject, g)[i] = BilletUri(subject, g[i - 1])
        BY <4>1, NamesOfCertificate
      <4> QED
        BY <2>2, <4>2 DEF BilletUri, URI
    <3> QED
      BY <3>1, <3>2
  <2> HIDE DEF new, subject
  <2> QED
    BY <1>1, <1>2, <1>3, <2>1, <2>2 DEF CertInv
<1>5. certs' = certs \/ certs' = certs \cup {new}
  BY DEF Grant
<1> HIDE DEF new
<1> QED
  BY <1>4, <1>5 DEF CertsInv, CertInv

\* What the cache holds is judged by the patterns that it was evaluated with.
LEMMA CacheStays ==
    ASSUME CacheInv, UNCHANGED <<cache, app>>
    PROVE  CacheInv'
  BY DEF CacheInv, EvaluatedFor

\* The parts of a request that do not depend on its outcome.
LEMMA TokenFrame ==
    ASSUME ServiceInv, NEW l, NEW q, NEW presented, NEW fresh, Token(l, q, presented, fresh)
    PROVE  StartInv' /\ CountersInv' /\ QuietInv' /\ UNCHANGED <<config, clock, app>> /\ pc = "serving"
<1>1. /\ UNCHANGED <<env, config, pc, app, polls, sync, storeUp, clock, probe>> /\ pc = "serving"
      /\ served < MaxRequests /\ served' = served + 1
  BY DEF Token, mainVars
<1>2. faults' \in 0..MaxFaults
  <2>1. faults' = faults \/ Fault
    BY DEF Token, RefuseIdentity, Refuse, FromCache, FromPolicies, RedisFails
  <2> QED
    BY <2>1, FaultCounts DEF ServiceInv, StartInv, WorldInv
<1>3. WorldInv'
  BY <1>1, <1>2 DEF ServiceInv, StartInv, WorldInv
<1>4. StartInv'
  <2>1. StartInv
    BY DEF ServiceInv
  <2> QED
    BY <1>1, <1>3, <2>1, AppUnchanged
<1>5. CountersInv'
  BY <1>1, ServiceAssumption DEF ServiceInv, CountersInv
<1> QED
  BY <1>1, <1>4, <1>5 DEF QuietInv

LEMMA TokenPreserves ==
    ASSUME ServiceInv, NEW l, NEW q \in Requests, NEW presented \in Presentable(q), NEW fresh,
           Token(l, q, presented, fresh)
    PROVE  ServiceInv'
<1> DEFINE c  == PeerCertificate(l, presented)
           id == Identify(q, c, fresh)
           k  == cache_key(format_subject(id), q.audience)
           request == AuthzRequest(app.matcher, id)
<1>1. StartInv' /\ CountersInv' /\ QuietInv' /\ UNCHANGED <<config, clock, app>> /\ pc = "serving"
  BY TokenFrame
<1>2. StartInv /\ CacheInv /\ CertsInv
  BY DEF ServiceInv
<1>3. Admitted(id, q.token, Credentials(q, c).peer)
  <2>1. c # None => Len(c.sans) \in Nat
    BY <1>2, PresentedNames DEF PeerCertificate
  <2> HIDE DEF c
  <2> QED
    BY <1>1, <1>2, <2>1, Admission
<1>4. CacheInv' /\ CertsInv' /\ ReplyInv'
  <2>1. ASSUME NEW answer, reply' = Answer(q, c, answer, id), answer # "ok",
               answer = "invalid_request" => id.type \in IdentityErrors
        PROVE  ReplyInv'
    <3> HIDE DEF id, c
    <3>1. /\ reply'.identity = id /\ reply'.from = Credentials(q, c)
          /\ AnswersFromOwnPrincipal' /\ GoodRequestsCertified'
      BY <2>1, RefusalAnswers
    <3>2. AdmittedAsConfigured'
      BY <1>1, <1>3, <3>1, AdmittedStays
    <3> QED
      BY <3>1, <3>2 DEF ReplyInv
  <2>2. ASSUME UNCHANGED <<cache, certs>>
        PROVE  CacheInv' /\ CertsInv'
    BY <1>1, <1>2, <2>2, CacheStays DEF CertsInv, CertInv
  <2>3. CASE RefuseIdentity(q, c, id)
    <3>1. id.type \in IdentityErrors /\ Refuse(q, c, identity_error_to_domain_error[id.type], id)
      BY <2>3 DEF RefuseIdentity
    <3>2. identity_error_to_domain_error[id.type] # "ok"
      BY <3>1 DEF identity_error_to_domain_error, IdentityErrors
    <3> HIDE DEF id
    <3> QED
      BY <2>1, <2>2, <3>1, <3>2 DEF Refuse
  <2>4. CASE id.type \notin IdentityErrors /\ Refuse(q, c, "rate_limited", id)
    <3> HIDE DEF id
    <3> QED
      BY <2>1, <2>2, <2>4 DEF Refuse
  <2>5. ASSUME id.type \notin IdentityErrors
        PROVE  /\ KnownIdentity(id) /\ KeyPieces(k, id)
               /\ q.token = None =>
                    id.type = "spire" /\ \E i \in 1..Len(c.sans) : c.sans[i].scheme = "spiffe" /\ id.spiffe_id = c.sans[i]
    <3>1. KnownIdentity(id)
      BY <1>2, <2>5, IdentifiedBy
    <3>2. q.token = None =>
            id.type = "spire" /\ \E i \in 1..Len(c.sans) : c.sans[i].scheme = "spiffe" /\ id.spiffe_id = c.sans[i]
      BY <1>2, <2>5, IdentifiedBy
    <3>3. q.audience \in Seq(ToSet(q.audience))
      BY ServiceAssumption
    <3>4. KeyPieces(k, id)
      <4> HIDE DEF id
      <4> QED
        BY <3>1, <3>3, KeyTells
    <3> QED
      BY <3>1, <3>2, <3>4
  <2>6. ASSUME id.type \notin IdentityErrors, NEW evaluated, NEW cached,
               IF cached THEN EvaluatedFor(app.matcher, k, evaluated) ELSE evaluated = request,
               NEW g \in Grants, Grant(q, c, id, evaluated, cached, g)
        PROVE  ReplyInv' /\ CertsInv'
    <3> HIDE DEF id, c, k
    <3>1. /\ reply'.identity = id /\ reply'.from = Credentials(q, c)
          /\ AnswersFromOwnPrincipal' /\ GoodRequestsCertified'
      BY <1>1, <2>5, <2>6, GrantAnswers
    <3>2. AdmittedAsConfigured'
      BY <1>1, <1>3, <3>1, AdmittedStays
    <3>3. CertsInv'
      BY <1>2, <2>5, <2>6, GrantKeepsRoots
    <3> QED
      BY <3>1, <3>2, <3>3 DEF ReplyInv
  <2>7. CASE id.type \notin IdentityErrors /\ FromCache(q, c, id)
    <3>1. k \in DOMAIN cache /\ Grant(q, c, id, cache[k].evaluated, TRUE, cache[k].billets) /\ UNCHANGED cache
      BY <2>7 DEF FromCache, Cached
    <3>2. cache[k].billets \in Grants /\ EvaluatedFor(app.matcher, k, cache[k].evaluated)
      BY <1>2, <3>1 DEF CacheInv
    <3> HIDE DEF id, c, k
    <3>3. ReplyInv' /\ CertsInv'
      BY <2>6, <2>7, <3>1, <3>2
    <3>4. CacheInv'
      BY <1>1, <1>2, <3>1, CacheStays
    <3> QED
      BY <3>3, <3>4
  <2>8. CASE id.type \notin IdentityErrors /\ FromPolicies(q, c, id)
    <3>1. EvaluatedFor(app.matcher, k, request)
      <4> HIDE DEF id, k
      <4> QED
        BY <2>5, <2>8 DEF EvaluatedFor
    <3>2. \/ \E answer \in {"not_initialized", "insufficient_scope"} : reply' = Answer(q, c, answer, id) /\ UNCHANGED <<cache, certs>>
          \/ \E g \in Grants : /\ Grant(q, c, id, request, FALSE, g)
                               /\ cache' = CacheSet(k, request, g) \/ cache' = cache
      BY <2>8 DEF FromPolicies
    <3> HIDE DEF id, c, k, request
    <3>3. CASE \E answer \in {"not_initialized", "insufficient_scope"} : reply' = Answer(q, c, answer, id) /\ UNCHANGED <<cache, certs>>
      BY <2>1, <2>2, <3>3
    <3>4. ASSUME NEW g \in Grants, Grant(q, c, id, request, FALSE, g), cache' = CacheSet(k, request, g) \/ cache' = cache
          PROVE  ReplyInv' /\ CertsInv' /\ CacheInv'
      <4>1. ReplyInv' /\ CertsInv'
        BY <2>6, <2>8, <3>1, <3>4
      <4>2. CASE cache' = cache
        BY <1>1, <1>2, <4>1, <4>2, CacheStays
      <4>3. CASE cache' = CacheSet(k, request, g)
        <5>1. DOMAIN cache' = DOMAIN cache \cup {k}
          BY <4>3 DEF CacheSet
        <5>2. cache'[k].billets = g /\ cache'[k].evaluated = request
          BY <4>3 DEF CacheSet
        <5>3. \A x \in DOMAIN cache : x # k => cache'[x] = cache[x]
          BY <4>3 DEF CacheSet
        <5>4. ASSUME NEW x \in DOMAIN cache'
              PROVE  cache'[x].billets \in Grants /\ EvaluatedFor(app.matcher, x, cache'[x].evaluated)
          <6>1. CASE x = k
            BY <3>1, <5>2, <6>1
          <6>2. CASE x # k
            BY <1>2, <5>1, <5>3, <6>2 DEF CacheInv
          <6> QED
            BY <6>1, <6>2
        <5>5. CacheInv'
          BY <1>1, <5>4 DEF CacheInv, EvaluatedFor
        <5> QED
          BY <4>1, <5>5
      <4> QED
        BY <3>4, <4>2, <4>3
    <3> QED
      BY <3>2, <3>3, <3>4
  <2>9. \/ RefuseIdentity(q, c, id)
        \/ /\ id.type \notin IdentityErrors
           /\ Refuse(q, c, "rate_limited", id) \/ FromCache(q, c, id) \/ FromPolicies(q, c, id)
    BY DEF Token
  <2> HIDE DEF id, c
  <2> QED
    BY <2>3, <2>4, <2>7, <2>8, <2>9
<1> QED
  BY <1>1, <1>4 DEF ServiceInv

-----------------------------------------------------------------------------
(* The other steps. *)

\* A step that answers no request to /token and leaves what answers come from.
LEMMA NoTokenAnswer ==
    ASSUME ServiceInv, UNCHANGED <<cache, certs>>, reply'.endpoint # "token", UNCHANGED app \/ pc # "serving"
    PROVE  CacheInv' /\ CertsInv' /\ ReplyInv'
<1>1. CacheInv'
  <2>1. CASE UNCHANGED app
    BY <2>1, CacheStays DEF ServiceInv
  <2>2. CASE pc # "serving"
    <3>1. cache' = <<>>
      BY <2>2 DEF ServiceInv, QuietInv
    <3> QED
      BY <3>1 DEF CacheInv
  <2> QED
    BY <2>1, <2>2
<1>2. CertsInv'
  BY DEF ServiceInv, CertsInv, CertInv
<1>3. ReplyInv'
  BY DEF ReplyInv, AdmittedAsConfigured, AnswersFromOwnPrincipal, GoodRequestsCertified
<1> QED
  BY <1>1, <1>2, <1>3

LEMMA NoReplyIsNoToken == NoReply.endpoint # "token"
  BY DEF NoReply

\* While nothing starts or stops.
LEMMA ServingStays ==
    ASSUME ServiceInv, pc = "serving", UNCHANGED startVars
    PROVE  StartInv' /\ QuietInv'
<1>1. UNCHANGED <<env, config, pc, app, polls, sync, storeUp, faults>>
  BY DEF startVars, mainVars, worldVars
<1>2. WorldInv' /\ StartInv
  BY <1>1 DEF ServiceInv, StartInv, WorldInv
<1>3. StartInv'
  BY <1>1, <1>2, AppUnchanged
<1> QED
  BY <1>1, <1>3 DEF QuietInv

LEMMA WorstIsOne ==
    ASSUME NEW a, NEW b, a \in ToSet(Statuses), b \in ToSet(Statuses)
    PROVE  Worst(a, b) \in ToSet(Statuses)
  BY DEF Worst

LEMMA StatusesAre == ToSet(Statuses) = {"healthy", "degraded", "unhealthy"}
  BY DEF ToSet, Statuses

LEMMA HealthPreserves ==
    ASSUME ServiceInv, PingStore \/ CheckKey \/ CheckSync
    PROVE  ServiceInv'
<1>1. /\ pc = "serving" /\ UNCHANGED startVars /\ UNCHANGED <<clock, cache, certs, served>>
      /\ reply'.endpoint # "token"
  BY NoReplyIsNoToken DEF PingStore, CheckKey, CheckSync, Check
<1>2. StartInv' /\ QuietInv'
  BY <1>1, ServingStays
<1>3. CacheInv' /\ CertsInv' /\ ReplyInv'
  <2>1. UNCHANGED app
    BY <1>1 DEF startVars, mainVars
  <2> QED
    BY <1>1, <2>1, NoTokenAnswer
<1>4. probe \in [at : {"idle", "key", "sync"}, status : ToSet(Statuses)]
  BY DEF ServiceInv, CountersInv
<1>5. probe' \in [at : {"idle", "key", "sync"}, status : ToSet(Statuses)]
  <2>1. ASSUME NEW at, NEW next \in {"key", "sync"}, NEW status \in ToSet(Statuses), Check(at, next, status)
        PROVE  probe' \in [at : {"idle", "key", "sync"}, status : ToSet(Statuses)]
    <3>1. Worst(probe.status, status) \in ToSet(Statuses)
      BY <1>4, WorstIsOne
    <3> QED
      BY <2>1, <3>1 DEF Check
  <2>2. CASE PingStore
    <3>1. (IF storeUp THEN "healthy" ELSE "unhealthy") \in ToSet(Statuses)
      BY StatusesAre
    <3> QED
      BY <2>1, <2>2, <3>1 DEF PingStore
  <2>3. CASE CheckKey
    <3>1. \A h \in KeyHealths : h \in ToSet(Statuses)
      BY StatusesAre DEF KeyHealths
    <3> QED
      BY <2>1, <2>3, <3>1 DEF CheckKey
  <2>4. CASE CheckSync
    BY <2>4, StatusesAre DEF CheckSync, NoProbe
  <2> QED
    BY <2>2, <2>3, <2>4
<1>6. CountersInv'
  BY <1>1, <1>5 DEF ServiceInv, CountersInv, Statuses
<1> QED
  BY <1>2, <1>3, <1>6 DEF ServiceInv

LEMMA DocumentPreserves ==
    ASSUME ServiceInv, OpenidConfiguration
    PROVE  ServiceInv'
<1>1. /\ pc = "serving" /\ UNCHANGED startVars /\ UNCHANGED <<clock, cache, certs, probe, served>>
      /\ reply'.endpoint # "token"
  BY DEF OpenidConfiguration
<1>2. CountersInv'
  BY <1>1 DEF ServiceInv, CountersInv, Statuses
<1>3. UNCHANGED app
  BY <1>1 DEF startVars, mainVars
<1> QED
  BY <1>1, <1>2, <1>3, ServingStays, NoTokenAnswer DEF ServiceInv

LEMMA TickPreserves ==
    ASSUME ServiceInv, Tick
    PROVE  ServiceInv'
<1>1. /\ pc = "serving" /\ UNCHANGED startVars /\ UNCHANGED <<cache, certs, probe, served>>
      /\ reply'.endpoint # "token" /\ clock < MaxClock /\ clock' = clock + 1
  BY NoReplyIsNoToken DEF Tick, Quiet
<1>2. CountersInv'
  BY <1>1, ServiceAssumption DEF ServiceInv, CountersInv, Statuses
<1>3. UNCHANGED app
  BY <1>1 DEF startVars, mainVars
<1> QED
  BY <1>1, <1>2, <1>3, ServingStays, NoTokenAnswer DEF ServiceInv

LEMMA QuietPreserves ==
    ASSUME ServiceInv, Quiet, UNCHANGED clock, StartInv', UNCHANGED <<pc, app>> \/ pc # "serving"
    PROVE  ServiceInv'
<1>1. UNCHANGED <<clock, cache, certs, probe, served>> /\ reply' = NoReply /\ reply'.endpoint # "token"
  BY NoReplyIsNoToken DEF Quiet
<1>2. CountersInv'
  BY <1>1 DEF ServiceInv, CountersInv, Statuses
<1>3. QuietInv'
  BY <1>1 DEF ServiceInv, QuietInv
<1> QED
  BY <1>1, <1>2, <1>3, NoTokenAnswer DEF ServiceInv

-----------------------------------------------------------------------------
(* The theorems. *)

LEMMA InitEstablishesService ==
    ASSUME ServiceInit
    PROVE  ServiceInv
<1>1. IsRecord(NothingBuilt, AppFields)
  BY DEF IsRecord, NothingBuilt, AppFields
<1>2. LoadedInv
  BY DEF ServiceInit, StartInit, LoadedInv, Stages
<1>3. BuiltInv
  BY <1>1 DEF ServiceInit, StartInit, BuiltInv, BuiltOf, NothingBuilt, FromMtls, FromIdentity, FromPatterns,
              FromBootstrap, FromSigning
<1>4. WorldInv
  BY StartupAssumption DEF ServiceInit, StartInit, WorldInv
<1>5. CountersInv
  BY StatusesAre, ServiceAssumption DEF ServiceInit, CountersInv, NoProbe
<1>6. QuietInv /\ CacheInv /\ CertsInv
  BY DEF ServiceInit, QuietInv, CacheInv, CertsInv
<1>7. ReplyInv
  BY NoReplyIsNoToken DEF ServiceInit, ReplyInv, AdmittedAsConfigured, AnswersFromOwnPrincipal, GoodRequestsCertified
<1>8. AcceptedConfigStarts
  BY DEF ServiceInit, StartInit, AcceptedConfigStarts
<1> QED
  BY <1>2, <1>3, <1>4, <1>5, <1>6, <1>7, <1>8 DEF ServiceInv, StartInv

LEMMA StepPreservesService ==
    ASSUME ServiceInv, [Next]_vars
    PROVE  ServiceInv'
<1>1. CASE Main
  BY <1>1, MainPreservesStart, QuietPreserves DEF Main, ServiceInv
<1>2. CASE Sync \/ Recover \/ Outage
  <2>1. Running /\ (SyncOnce \/ StoreFails \/ StoreRecovers) /\ Quiet /\ UNCHANGED clock /\ StartInv
    BY <1>2 DEF Sync, Recover, Outage, ServiceInv
  <2>2. StartInv' /\ UNCHANGED mainVars
    BY <2>1, WorldPreservesStart
  <2>3. UNCHANGED <<pc, app>>
    BY <2>2 DEF mainVars
  <2> QED
    BY <2>1, <2>2, <2>3, QuietPreserves
<1>3. CASE Requested
  BY <1>3, TokenPreserves DEF Requested
<1>4. CASE PingStore \/ CheckKey \/ CheckSync
  BY <1>4, HealthPreserves
<1>5. CASE OpenidConfiguration \/ Tick
  BY <1>5, DocumentPreserves, TickPreserves
<1>6. CASE UNCHANGED vars
  <2>1. /\ UNCHANGED <<env, config, pc, app, polls, sync, storeUp, faults>>
        /\ UNCHANGED <<clock, cache, certs, probe, reply, served>>
    BY <1>6 DEF vars, startVars, mainVars, worldVars, serveVars
  <2>2. StartInv /\ WorldInv'
    BY <2>1 DEF ServiceInv, StartInv, WorldInv
  <2>3. StartInv'
    BY <2>1, <2>2, AppUnchanged
  <2>4. CountersInv' /\ QuietInv' /\ CacheInv' /\ CertsInv'
    BY <2>1, CacheStays DEF ServiceInv, CountersInv, Statuses, QuietInv, CertsInv, CertInv
  <2>5. ReplyInv'
    <3>1. AdmittedAsConfigured'
      BY <2>1 DEF ServiceInv, ReplyInv, AdmittedAsConfigured, Admitted, TakenByGoogle, SpireAdmits, SvidWithin,
                  CertificateAdmits, AwsAdmits, GcpAdmits, OidcAdmits, OidcRefuses
    <3>2. AnswersFromOwnPrincipal'
      BY <2>1 DEF ServiceInv, ReplyInv, AnswersFromOwnPrincipal
    <3>3. GoodRequestsCertified'
      BY <2>1 DEF ServiceInv, ReplyInv, GoodRequestsCertified
    <3> QED
      BY <3>1, <3>2, <3>3 DEF ReplyInv
  <2> QED
    BY <2>3, <2>4, <2>5 DEF ServiceInv
<1> QED
  BY <1>1, <1>2, <1>3, <1>4, <1>5, <1>6 DEF Next

\* The invariant of the whole service, from the loading of its configuration to the
\* certificates it has issued.
THEOREM ServiceInvariant == Spec => []ServiceInv
<1>1. ServiceInit => ServiceInv
  BY InitEstablishesService
<1>2. ServiceInv /\ [Next]_vars => ServiceInv'
  BY StepPreservesService
<1> QED
  BY <1>1, <1>2, PTL DEF Spec

\* AppState is complete when the listeners come up, and each part of it is the one
\* that the configuration asks for (main).
THEOREM ServiceTypeCorrect == Spec => []ServiceTypes
<1>1. ServiceInv => ServiceTypes
  <2> SUFFICES ASSUME ServiceInv PROVE ServiceTypes
    OBVIOUS
  <2>1. pc = "serving" => config.algorithm \in valid_algorithms
    BY DEF ServiceInv, StartInv, LoadedInv, validate
  <2> QED
    BY <2>1 DEF ServiceInv, StartInv, LoadedInv, BuiltInv, BuiltOf, WorldInv, CountersInv, QuietInv, ServiceTypes,
                FromMtls, FromIdentity, FromPatterns, FromBootstrap, FromSigning, Statuses
<1> QED
  BY <1>1, ServiceInvariant, PTL

\* Whatever the configuration, if Config::validate accepts it, its files are good
\* and nothing outside fails, main comes to an end only in one of the gaps listed in
\* ValidationGap, a Redis URL or an address that does not parse among them
\* (Config::validate and the unwraps, expects and exits of main).
THEOREM AcceptedConfigsStart == Spec => []AcceptedConfigStarts
<1>1. ServiceInv => AcceptedConfigStarts
  BY DEF ServiceInv, StartInv
<1> QED
  BY <1>1, ServiceInvariant, PTL

\* For all configurations, tokens and certificates: who is admitted is admitted by a
\* source that the operator configured, within its trust domain, audience, bundle,
\* accounts, projects or client ids and in time, and a good token of a configured
\* provider is refused only where its keys or its issuer are taken by another source
\* (DefaultIdentityDispatcher, the validators and JwksManager::from_config).
THEOREM AdmissionFollowsConfiguration == Spec => []AdmittedAsConfigured
<1>1. ServiceInv => AdmittedAsConfigured
  BY DEF ServiceInv, ReplyInv
<1> QED
  BY <1>1, ServiceInvariant, PTL

\* For all subjects and audiences: billets that were evaluated for a request were
\* granted to exactly its principal, and those out of the cache to a principal that
\* agrees with it in everything but the attributes that format_subject leaves out;
\* which these are is said source by source in NotInSubject
\* (InMemoryCache::cache_key, format_subject, BilletResolverImpl::resolve).
THEOREM AnswersAreOfOwnPrincipal == Spec => []AnswersFromOwnPrincipal
<1>1. ServiceInv => AnswersFromOwnPrincipal
  BY DEF ServiceInv, ReplyInv
<1> QED
  BY <1>1, ServiceInvariant, PTL

\* Along any chain of certificates, the identity that MtlsValidator reads is that of
\* the token the chain began with (LocalAuthority::issue, MtlsValidator::validate).
THEOREM ChainsKeepTheirRoot == Spec => []CertificatesKeepIdentity
<1>1. ServiceInv => CertificatesKeepIdentity
  <2> SUFFICES ASSUME ServiceInv, NEW x \in certs, CertificateIdentity(app.mtls, x.cert, clock) # None
               PROVE  CertificateIdentity(app.mtls, x.cert, clock).spiffe_id = x.root
    BY DEF CertificatesKeepIdentity
  <2>1. CertInv(x)
    BY DEF ServiceInv, CertsInv
  <2>2. \E i \in 1..Len(x.cert.sans) :
           x.cert.sans[i].scheme = "spiffe" /\ CertificateIdentity(app.mtls, x.cert, clock).spiffe_id = x.cert.sans[i]
    BY <2>1, CertificateNames DEF CertInv
  <2> QED
    BY <2>1, <2>2 DEF CertInv
<1> QED
  BY <1>1, ServiceInvariant, PTL

\* For every length that ring's reader takes, encode_length puts the DER length in
\* front of the signed part, so a good certificate request is never turned down for
\* its signature, and with extensions that rcgen knows it is certified
\* (LocalAuthority::verify_csr_signature, issue).
THEOREM GoodRequestsAreCertified == Spec => []GoodRequestsCertified
<1>1. ServiceInv => GoodRequestsCertified
  BY DEF ServiceInv, ReplyInv
<1> QED
  BY <1>1, ServiceInvariant, PTL
=============================================================================
