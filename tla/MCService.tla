----------------------------- MODULE MCService -----------------------------
(***************************************************************************)
(* A configuration file and what is changed in it, one thing at a time; the *)
(* credentials of two principals for each source.                           *)
(***************************************************************************)
EXTENDS Service

Hours(n) == [value |-> n, suffix |-> "h"]

BundleKey == [kid |-> "k1", alg |-> "ES256", kty |-> "EC", wellFormed |-> TRUE]
Bundle == <<[kid |-> "k0", alg |-> "HS256", kty |-> "oct", wellFormed |-> FALSE], BundleKey>>
Corp == <<"corp">>
Home == <<"quartermaster">>

Pattern == [regex |-> TRUE, names |-> {"app"}, template |-> <<"env", "app">>]
Spire(td, x509, patterns) ==
    [trust_domain |-> td, audience |-> "qm", jwks_path |-> Bundle, x509_bundle_path |-> x509, path_patterns |-> patterns]

Provider(name, issuer, interval, mappings) ==
    [name |-> name, prefix |-> <<"lower">>, issuer |-> issuer, client_ids |-> {"qm"},
     jwks_refresh_interval |-> interval, max_staleness |-> [value |-> 1, suffix |-> ""], implicit_claims |-> mappings]
Mapped(claim) == [claim |-> claim, name |-> claim, billet_prefix |-> <<"lower", "digit">>]
Idp == Provider("idp", "https://idp", [value |-> 0, suffix |-> "ms"], <<Mapped("groups")>>)
SameIdp == [Provider("other-client", "https://idp", Hours(1), <<>>) EXCEPT !.client_ids = {"other"}]

Aws(accounts) == [enabled |-> TRUE, allowed_accounts |-> accounts]
Gcp(projects) ==
    [enabled |-> TRUE, audience |-> "qm", allowed_projects |-> projects, jwks_refresh_interval |-> Hours(1),
     max_staleness |-> Hours(1)]
Identity(spire, oidc, aws, gcp) == [spire |-> spire, oidc |-> oidc, aws_sts |-> aws, gcp |-> gcp]

Kms(rotation, aws, gcp) ==
    [backend |-> "kms_delegated", memory |-> None,
     kms_delegated |-> [rotation_interval |-> rotation, key_overlap |-> None, aws_kms |-> aws, gcp_kms |-> gcp]]
AwsKms == [key_arn |-> "arn", region |-> "eu"]
GcpKms == [key_name |-> "key"]
Memory(file) == [backend |-> None, memory |-> [key_path |-> file], kms_delegated |-> None]

Store(backend, secs) ==
    [backend |-> backend, dynamodb |-> [region |-> "eu"], firestore |-> [project |-> "p"], local |-> None,
     policy_sync_interval_secs |-> secs]

File ==
    [issuer |-> "qm", token_ttl_secs |-> None, spire |-> None, dynamo |-> None, algorithm |-> None, key_path |-> "pkcs8",
     ca |-> [key_path |-> "pem", cert_path |-> "pem", ttl_secs |-> 1, include_billets_ou |-> TRUE],
     cache |-> [backend |-> None, ttl_secs |-> 1], redis |-> None, requests_per_minute |-> None,
     server |-> [host |-> None, admin_addr |-> None, tls |-> None], audit |-> None, datastore |-> Store(None, None),
     signing_backend |-> None, ca_backend |-> None, identity |-> None]

Tls == [cert_path |-> "pem", key_path |-> "pem"]
LegacySpire == [trust_domain |-> Corp, trust_bundle_path |-> Bundle]

\* Files that lead to a service, each with something of its own.
Services == {
    [File EXCEPT !.identity = Identity(Spire(Home, {"qm-ca"}, <<Pattern>>), <<Idp>>, None, None), !.server.tls = Tls],
    [File EXCEPT !.identity = Identity(Spire(Corp, {"qm-ca", "spire-ca"}, <<Pattern>>), <<>>, None, None),
                 !.server.tls = Tls, !.server.admin_addr = "other address", !.algorithm = "RS256"],
    [File EXCEPT !.identity = Identity(None, <<>>, Aws({"1", "2"}), None), !.spire = LegacySpire,
                 !.cache.backend = "redis", !.redis = "redis://", !.audit = [buffer_capacity |-> None, sinks |-> {"file"}]],
    [File EXCEPT !.identity = Identity(None, <<Idp, Provider("google", "https://other", Hours(1), <<>>), SameIdp>>, None, Gcp(None)),
                 !.ca_backend = Kms(None, AwsKms, None)],
    [File EXCEPT !.spire = LegacySpire, !.signing_backend = Kms(Hours(1), AwsKms, GcpKms),
                 !.datastore = None, !.dynamo = [region |-> "eu", policy_sync_interval_secs |-> None]]}

Plain == [File EXCEPT !.identity = Identity(None, <<>>, Aws({"1"}), None)]

\* Files that validate refuses.
Refused == {
    [Plain EXCEPT !.issuer = " "], [Plain EXCEPT !.algorithm = "HS256"], [Plain EXCEPT !.cache.ttl_secs = 0],
    [Plain EXCEPT !.requests_per_minute = 0], [Plain EXCEPT !.cache.backend = "redis"],
    [Plain EXCEPT !.dynamo = [region |-> "eu", policy_sync_interval_secs |-> 0]],
    [Plain EXCEPT !.datastore = [Store("dynamodb", None) EXCEPT !.dynamodb = None]],
    [Plain EXCEPT !.signing_backend = [Memory("") EXCEPT !.backend = "memory"]],
    [Plain EXCEPT !.ca_backend = Kms(None, None, None)],
    [Plain EXCEPT !.identity = Identity(None, <<>>, [enabled |-> FALSE, allowed_accounts |-> None], None)],
    [Plain EXCEPT !.identity = Identity(None, <<Idp, Idp>>, None, None)],
    [Plain EXCEPT !.identity = Identity(None, <<[Idp EXCEPT !.prefix = <<"hyphen">>]>>, None, None)],
    [Plain EXCEPT !.identity =
        Identity(None, <<Provider("idp", "https://idp", [value |-> NotANumber, suffix |-> "h"], <<>>)>>, None, None)]}

\* Files that are accepted, and end the process or leave it without policies.
Gaps == {
    [Plain EXCEPT !.datastore = None], [Plain EXCEPT !.datastore = Store("firestore", None)],
    [Plain EXCEPT !.datastore = Store("local", 0)], [Plain EXCEPT !.key_path = "sec1"],
    [Plain EXCEPT !.key_path = "pkcs8_p384"], [Plain EXCEPT !.ca.cert_path = "garbage"],
    [Plain EXCEPT !.signing_backend = Memory("sec1")], [Plain EXCEPT !.signing_backend = Kms(None, None, GcpKms)],
    [Plain EXCEPT !.signing_backend = Kms([value |-> 30, suffix |-> ""], AwsKms, None)],
    [Plain EXCEPT !.audit = [buffer_capacity |-> 0, sinks |-> None]],
    [Plain EXCEPT !.identity = Identity(Spire(Corp, None, <<[Pattern EXCEPT !.names = {"1st"}]>>), <<>>, None, None)],
    [Plain EXCEPT !.identity = Identity([Spire(Corp, None, <<>>) EXCEPT !.jwks_path = Unreadable], <<>>, None, None)],
    [Plain EXCEPT !.identity = Identity(Spire(Corp, {}, <<>>), <<>>, None, None), !.server.tls = Tls],
    [Plain EXCEPT !.cache.backend = "redis", !.redis = "not a URL"], [Plain EXCEPT !.cache.backend = "redis", !.redis = "rediss://"],
    [Plain EXCEPT !.server.tls = [Tls EXCEPT !.key_path = "garbage"]], [Plain EXCEPT !.server.host = "not an address"],
    [Plain EXCEPT !.server.admin_addr = "not an address"], [Plain EXCEPT !.server.admin_addr = "main address"]}

EnvNames == env_required \cup env_numbers \cup env_optional \cup {"QM_CONFIG_PATH"}
NoEnv == [k \in EnvNames |-> None]
WithFile(f) == [NoEnv EXCEPT !["QM_CONFIG_PATH"] = f]

Variables ==
    [k \in EnvNames |->
        CASE k = "QM_SPIRE_TRUST_BUNDLE_PATH" -> Bundle
          [] k = "QM_SPIRE_TRUST_DOMAIN" -> Corp
          [] k = "QM_SIGNING_KEY_PATH" -> "pkcs8"
          [] k \in {"QM_CA_KEY_PATH", "QM_CA_CERT_PATH"} -> "pem"
          [] k \in {"QM_ISSUER", "QM_DYNAMO_REGION"} -> "qm"
          [] OTHER -> None]

MCEnvironments ==
    {WithFile(f) : f \in Services \cup Refused \cup Gaps \cup {Unreadable}}
    \cup {Variables, NoEnv, [Variables EXCEPT !["QM_CACHE_TTL_SECS"] = NotANumber],
          [Variables EXCEPT !["QM_CACHE_BACKEND"] = "redis"], [Variables EXCEPT !["QM_SERVER_HOST"] = "not an address"]}

Svid(td, path) ==
    [type |-> "spire", kid |-> "k1", alg |-> "ES256", signer |-> BundleKey, iss |-> td, aud |-> {"qm"}, exp |-> 0,
     sub |-> URI("spiffe", td, path)]
OidcToken(issuer, signer, email) ==
    [type |-> "oidc", iss |-> issuer, signer |-> signer, aud |-> {"qm"}, exp |-> 0, email |-> email, sub |-> "s",
     extra |-> [groups |-> {"ops", NotANumber}]]
Arn(service, resource) ==
    [prefix |-> "arn", partition |-> "aws", service |-> service, account |-> "1", resource |-> resource]
AwsUrl(account, arn) ==
    [type |-> "aws_sts", scheme |-> "https", host |-> <<"sts", "region", "amazonaws", "com">>,
     action |-> "GetCallerIdentity", answer |-> [account |-> account, arn |-> arn, user_id |-> "u"]]
GcpToken(project) ==
    [type |-> "gcp", signer |-> "google", aud |-> {"qm"}, exp |-> 0, sub |-> "s", email |-> "sa", project_id |-> project,
     zone |-> "z"]

Csr(len) ==
    [der |-> TRUE, len |-> len, rest |-> 86, oid |-> "ecdsa_sha256", key |-> "P-256", genuine |-> TRUE,
     extensions |-> {"subjectAltName"}]

Ask(token, csr) == [params |-> TRUE, audience |-> <<"https", "//api">>, token |-> token, csr |-> csr]

MCRequests == {
    Ask(None, Csr(300)), [Ask(None, None) EXCEPT !.params = FALSE],
    Ask(Svid(Home, <<"env", "shop">>), Csr(127)), Ask(Svid(Corp, <<"env", "shop">>), Csr(128)),
    Ask([Svid(Corp, <<"a">>) EXCEPT !.aud = {"other"}], None), Ask(Svid(<<"other">>, <<"a">>), None),
    Ask(Svid(<<"corp", "example">>, <<"env", "shop">>), [Csr(300) EXCEPT !.extensions = {"basicConstraints"}]),
    Ask(OidcToken("https://idp", "https://idp", "alice"), Csr(255)),
    Ask(OidcToken("https://other", "https://other", "alice"), [Csr(256) EXCEPT !.genuine = FALSE]),
    Ask(OidcToken("https://idp", "nobody", "bob"), None), Ask(OidcToken("https://other", "google", "alice"), None),
    Ask([OidcToken("https://idp", "https://idp", "carol") EXCEPT !.aud = {"other"}], None),
    Ask(AwsUrl("1", Arn("sts", <<"assumed-role", "r", "session">>)), Csr(65445)),
    Ask(AwsUrl("2", Arn("iam", <<"user", "path", "r">>)), Csr(65446)),
    [Ask(AwsUrl("2", Arn("iam", <<"role", "r">>)), Unreadable) EXCEPT !.audience = <<"api">>],
    Ask(AwsUrl("2", Arn("iam", <<"role", "r">>)), None),
    Ask(GcpToken("p"), [Csr(200) EXCEPT !.key = "P-384"]), Ask([GcpToken("p") EXCEPT !.aud = {"other"}], None)}

MCClientCerts == {
    [cn |-> URI("spiffe", Corp, <<"x">>), ou |-> None,
     sans |-> <<URI("spiffe", Home, <<>>), URI("spiffe", Corp, <<"region", "eu">>), URI("spiffe", Home, <<"y">>)>>,
     not_before |-> 0, not_after |-> 1, issuer |-> "spire-ca", key |-> "P-256"]}

MCGrants == {<<"b1">>}
=============================================================================
