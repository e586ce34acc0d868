----------------------------- MODULE Identities -----------------------------
(***************************************************************************)
(* Identities: what the validators extract from the credential of each      *)
(* source, the subject and the Cedar principal made of it, and the          *)
(* certificates that the authority issues to it and MtlsValidator reads.    *)
(*                                                                         *)
(* A URI is [scheme, domain, path]: the domain a sequence of pieces, so     *)
(* that "corp" is a text prefix of "corp.example", the path a sequence of   *)
(* segments.  Subjects that are not URIs have the same shape and no domain. *)
(***************************************************************************)
EXTENDS Config, SequencesExt

CONSTANTS
    NonAscii,         \* names with characters outside of ASCII
    Leeway            \* leeway of jsonwebtoken's Validation (60 s)

ASSUME LeewayAssumption == Leeway \in Nat

URI(scheme, domain, path) == [scheme |-> scheme, domain |-> domain, path |-> path]

\* An IdentityError, in the place of an identity.
Error(e) == [type |-> e]

\* jsonwebtoken's look at `exp`, for every kind of token.
Unexpired(t, now) == now <= t.exp + Leeway

-----------------------------------------------------------------------------
(* JWT-SVIDs: [kid, alg, signer, iss, aud, sub, exp]. *)

\* Keys of unknown algorithms or types are passed over, and a bad coordinate
\* refuses the bundle.  A key is [kid, alg, kty, wellFormed].
parse_jwks(b) == SelectSeq(b, LAMBDA k : k.alg \in valid_algorithms /\ k.kty \in {"EC", "RSA"})

BundleParses(b) == b # Unreadable /\ \A i \in 1..Len(parse_jwks(b)) : parse_jwks(b)[i].wellFormed

find_key(keys, kid) ==
    LET at == {i \in 1..Len(keys) : keys[i].kid = kid}
    IN  IF at = {} THEN None ELSE keys[CHOOSE i \in at : \A j \in at : i <= j]

Segment(path, i) == IF i <= Len(path) THEN path[i] ELSE ""

\* Mutant: an SVID for another service is taken too.
AnyAudience(v, t, now) ==
    LET k == find_key(v.keys, t.kid)
    IN  k # None /\ k.alg = t.alg /\ t.signer = k /\ Unexpired(t, now) /\ IsPrefix(v.trust_domain, t.iss)

\* The issuer is held against the trust domain as a text prefix; the trust
\* domain of the identity is that of the subject, which is held against none.
SvidAccepted(v, t, now) ==
    LET k == find_key(v.keys, t.kid)
    IN  k # None /\ k.alg = t.alg /\ t.signer = k /\ Unexpired(t, now)
        /\ IsPrefix(v.trust_domain, t.iss) /\ v.audience \in t.aud

\* Environment and region are the first two segments, whatever they are.
SvidIdentity(t) ==
    [type |-> "spire", spiffe_id |-> t.sub, trust_domain |-> t.sub.domain,
     environment |-> Segment(t.sub.path, 1), region |-> Segment(t.sub.path, 2)]

ValidateSvid(v, t, now) == IF SvidAccepted(v, t, now) THEN SvidIdentity(t) ELSE Error("refused")

-----------------------------------------------------------------------------
(* OIDC tokens: [iss, signer, aud, exp, email, sub, extra]; how JWKS are     *)
(* fetched and grow stale is the subject of JwksManager.                     *)

\* A task that panics on its interval has fetched once.
JwksSource(issuer, c) ==
    [issuer |-> issuer, refreshes |-> ~ZeroInterval(c.jwks_refresh_interval),
     max_staleness |-> parse_duration(c.max_staleness)]

\* JwksManager::from_config: whose keys each source id stands for.  Google comes
\* last, and replaces a provider whose prefix is "google".
JwksSources(id) ==
    [s \in {id.oidc[i].name : i \in 1..Len(id.oidc)} \cup (IF enabled(id.gcp) THEN {"google"} ELSE {}) |->
        IF s = "google" /\ enabled(id.gcp) THEN JwksSource("google", id.gcp)
        ELSE LET p == CHOOSE x \in {id.oidc[i] : i \in 1..Len(id.oidc)} : x.name = s IN JwksSource(p.issuer, p)]

\* The sources whose keys can be fresh at a time, counted from the first fetch.
Refreshed(jwks, now) == {s \in DOMAIN jwks : jwks[s].refreshes \/ now <= jwks[s].max_staleness}

find_source_by_issuer(sources, iss) ==
    LET at == {i \in 1..Len(sources) : sources[i].issuer = iss}
    IN  IF at = {} THEN None ELSE sources[CHOOSE i \in at : \A j \in at : i <= j]

\* A string, or the strings of an array; anything else has no values.  The
\* claims that the token structure names itself are not among the extra ones.
extract_claim_values(t, claim) ==
    IF claim \in {"iss", "sub", "aud", "exp", "email"} \/ claim \notin DOMAIN t.extra THEN {}
    ELSE {v \in t.extra[claim] : v # NotANumber}

OidcClaims(s, t) ==
    UNION {{<<m.claim, v>> : v \in extract_claim_values(t, m.claim)} :
             m \in {s.implicit_claims[i] : i \in 1..Len(s.implicit_claims)}}

OidcAccepted(s, keys, t, now) ==
    /\ t.signer = keys[s.name].issuer
    /\ Unexpired(t, now) /\ s.client_ids \cap t.aud # {} /\ None \notin {t.email, t.sub}

OidcIdentity(s, t) ==
    [type |-> "oidc", email |-> t.email, idp_prefix |-> s.name, claims |-> OidcClaims(s, t), subject |-> t.sub]

ValidateOidc(sources, keys, t, now, fresh) ==
    LET s == find_source_by_issuer(sources, t.iss)
    IN  IF s = None THEN Error("refused")
        ELSE IF s.name \notin fresh THEN Error("keys_stale")
        ELSE IF OidcAccepted(s, keys, t, now) THEN OidcIdentity(s, t)
        ELSE Error("refused")

-----------------------------------------------------------------------------
(* Presigned STS URLs, [scheme, host, action, answer]: the answer is what AWS *)
(* STS will say, None if it fails, or [account, arn].                       *)

validate_sts_host(host) ==
    \/ host = <<"sts", "amazonaws", "com">>
    \/ Len(host) = 4 /\ host[1] = "sts" /\ host[3] = "amazonaws" /\ host[4] = "com" /\ host[2] = "region"

validate_presigned_url(u) == u.scheme = "https" /\ validate_sts_host(u.host) /\ u.action = "GetCallerIdentity"

ArnOf(a, service) == a.prefix = "arn" /\ a.partition = "aws" /\ a.service = service /\ a.account # ""

\* arn:aws:sts::<account>:assumed-role/<role>/<session>
parse_assumed_role_arn(a) ==
    IF ArnOf(a, "sts") /\ Len(a.resource) > 2 /\ a.resource[2] # "" /\ a.resource[3] # "" THEN a.resource[2] ELSE None

\* arn:aws:iam::<account>:role/<path>/<role>
parse_iam_role_arn(a) == IF ArnOf(a, "iam") /\ Last(a.resource) # "" THEN Last(a.resource) ELSE None

\* A user is named like a role: by the last segment.
NameInArn(a) ==
    IF Len(a.resource) < 2 THEN None
    ELSE CASE a.resource[1] = "assumed-role" -> parse_assumed_role_arn(a)
           [] a.resource[1] = "user" -> Last(a.resource)
           [] a.resource[1] = "role" -> parse_iam_role_arn(a)
           [] OTHER -> None

\* parse_get_caller_identity_xml: all three elements, or an error.
StsAnswerComplete(x) == x # None /\ x.account # None /\ x.arn # None /\ x.user_id # None

Allowed(list, name) == list = None \/ name \in list

AwsAccepted(v, u) ==
    /\ validate_presigned_url(u)
    /\ StsAnswerComplete(u.answer) /\ NameInArn(u.answer.arn) # None
    /\ Allowed(v.allowed_accounts, u.answer.account)

AwsIdentity(u) ==
    [type |-> "aws_sts", account_id |-> u.answer.account, role_arn |-> u.answer.arn,
     role_name |-> NameInArn(u.answer.arn)]

ValidateAws(v, u) == IF AwsAccepted(v, u) THEN AwsIdentity(u) ELSE Error("refused")

-----------------------------------------------------------------------------
(* GCP tokens: [signer, aud, exp, sub, email, project_id, zone]. *)

GcpAccepted(v, keys, t, now) ==
    /\ t.signer = keys["google"].issuer
    /\ Unexpired(t, now) /\ v.audience \in t.aud
    /\ None \notin {t.sub, t.email, t.project_id, t.zone}
    /\ Allowed(v.allowed_projects, t.project_id)

GcpIdentity(t) == [type |-> "gcp", project_id |-> t.project_id, email |-> t.email, zone |-> t.zone]

ValidateGcp(v, keys, t, now, fresh) ==
    IF "google" \notin fresh THEN Error("keys_stale")
    ELSE IF GcpAccepted(v, keys, t, now) THEN GcpIdentity(t)
    ELSE Error("refused")

-----------------------------------------------------------------------------
(* Dispatch by token type, and what of an error the caller sees. *)

Validators == {"spire", "oidc", "aws_sts", "gcp"}

IdentityErrors == {"unknown_token_type", "refused", "keys_stale"}

identity_error_to_domain_error ==
    [e \in IdentityErrors |-> CASE e = "unknown_token_type" -> "invalid_request"
                                [] e = "refused" -> "invalid_token"
                                [] e = "keys_stale" -> "unavailable"]

\* DefaultIdentityDispatcher::validate: `v` holds a validator, or None, of each
\* type, and `fresh` the sources whose keys are there and not stale.
Dispatch(v, t, now, fresh) ==
    IF t.type \notin Validators \/ v[t.type] = None THEN Error("unknown_token_type")
    ELSE CASE t.type = "spire" -> ValidateSvid(v.spire, t, now)
           [] t.type = "oidc" -> ValidateOidc(v.oidc, v.jwks, t, now, fresh)
           [] t.type = "aws_sts" -> ValidateAws(v.aws_sts, t)
           [] t.type = "gcp" -> ValidateGcp(v.gcp, v.jwks, t, now, fresh)

-----------------------------------------------------------------------------
(* Subjects and principals. *)

\* Mutant: the account is left out of an AWS subject.
AccountlessSubject(id) ==
    CASE id.type = "spire" -> id.spiffe_id
      [] id.type = "oidc" -> URI("human", <<>>, <<id.email>>)
      [] id.type = "aws_sts" -> URI("aws", <<>>, <<id.role_name>>)
      [] id.type = "gcp" -> URI("gcp", <<>>, <<id.project_id, id.email>>)

format_subject(id) ==
    CASE id.type = "spire" -> id.spiffe_id
      [] id.type = "oidc" -> URI("human", <<>>, <<id.email>>)
      [] id.type = "aws_sts" -> URI("aws", <<>>, <<id.account_id, id.role_name>>)
      [] id.type = "gcp" -> URI("gcp", <<>>, <<id.project_id, id.email>>)

\* A pattern is [regex, names, template]: whether the regex compiles, the names
\* of its groups, and the segments it matches, a name standing for a capture.
PatternsCompile(ps) == \A i \in 1..Len(ps) : ps[i].regex /\ ps[i].names \cap {"1st"} = {}

Matches(p, path) ==
    Len(p.template) = Len(path) /\ \A i \in 1..Len(path) : p.template[i] \in p.names \/ p.template[i] = path[i]

\* The text after "spiffe://<trust_domain>"; a longer domain leaves its tail.
PathBelow(td, uri) ==
    IF uri.scheme = "spiffe" /\ IsPrefix(td, uri.domain)
    THEN SubSeq(uri.domain, Len(td) + 1, Len(uri.domain)) \o uri.path
    ELSE None

\* The captures of the first pattern that matches.
extract(m, uri) ==
    LET path == PathBelow(m.trust_domain, uri)
        at == IF path = None THEN {} ELSE {i \in 1..Len(m.patterns) : Matches(m.patterns[i], path)}
        first == CHOOSE i \in at : \A j \in at : i <= j
    IN  IF at = {} THEN {}
        ELSE {<<m.patterns[first].template[i], path[i]>> :
                i \in {j \in 1..Len(path) : m.patterns[first].template[j] \in m.patterns[first].names}}

\* build_workload_entities_from_captures: a capture replaces an attribute.
WorkloadAttributes(id, captures) ==
    captures \cup {a \in {<<"spiffe_id", id.spiffe_id>>, <<"trust_domain", id.trust_domain>>} :
                     \A c \in captures : c[1] # a[1]}

\* build_oidc_entity: the values with and without the claims they came from.
OidcAttributes(id) ==
    {<<"email", id.email>>, <<"idp_prefix", id.idp_prefix>>, <<"subject", id.subject>>, <<"claims", id.claims>>,
     <<"groups", {c[2] : c \in id.claims}>>}

AwsAttributes(id) == {<<"account_id", id.account_id>>, <<"role_arn", id.role_arn>>, <<"role_name", id.role_name>>}
GcpAttributes(id) == {<<"project_id", id.project_id>>, <<"email", id.email>>, <<"zone", id.zone>>}

PrincipalId(id) ==
    CASE id.type = "spire" -> <<"Workload", id.spiffe_id>>
      [] id.type = "oidc" -> <<"OidcIdentity", id.email>>
      [] id.type = "aws_sts" -> <<"AwsRoleIdentity", id.role_arn>>
      [] id.type = "gcp" -> <<"GcpIdentity", id.email>>

Principal(m, id) ==
    [uid |-> PrincipalId(id),
     attributes |-> CASE id.type = "spire" -> WorkloadAttributes(id, extract(m, id.spiffe_id))
                      [] id.type = "oidc" -> OidcAttributes(id)
                      [] id.type = "aws_sts" -> AwsAttributes(id)
                      [] id.type = "gcp" -> GcpAttributes(id)]

\* CommonContext.
Context(id) ==
    [environment |-> IF id.type = "spire" THEN id.environment ELSE "",
     region |-> IF id.type = "spire" THEN id.region ELSE "",
     source_type |-> id.type,
     source_cloud |-> CASE id.type = "aws_sts" -> "aws" [] id.type = "gcp" -> "gcp" [] OTHER -> ""]

\* EntityBatchAuthzRequest: what Cedar decides on.
AuthzRequest(m, id) == [principal |-> Principal(m, id), context |-> Context(id)]

\* The `identity` claim of the token.
build_identity_claim(id) ==
    CASE id.type = "spire" -> [type |-> "workload", spiffe_id |-> id.spiffe_id]
      [] id.type = "oidc" -> [type |-> "human", email |-> id.email, idp |-> id.idp_prefix,
                              groups |-> {c[2] : c \in id.claims}]
      [] id.type = "aws_sts" -> [type |-> "aws_role", account_id |-> id.account_id, role_arn |-> id.role_arn]
      [] id.type = "gcp" -> [type |-> "gcp_workload", project_id |-> id.project_id, email |-> id.email]

-----------------------------------------------------------------------------
(* Certificate signing requests, [der, len, rest, oid, key, genuine,         *)
(* extensions]: `len` is the length of the part that is signed, `rest` that *)
(* of the algorithm and the signature behind it, `genuine` whether `key`    *)
(* signed it, `extensions` what it asks to have in the certificate.         *)

\* Mutant: the short form of a length, one byte too far.
ShortForm(len) == IF len <= 128 THEN <<len>> ELSE <<129, len % 256>>

encode_length(len) ==
    IF len < 128 THEN <<len>>
    ELSE IF len < 256 THEN <<129, len>>
    ELSE IF len < 65536 THEN <<130, len \div 256, len % 256>>
    ELSE IF len < 16777216 THEN <<131, len \div 65536, (len \div 256) % 256, len % 256>>
    ELSE <<132, (len \div 16777216) % 256, (len \div 65536) % 256, (len \div 256) % 256, len % 256>>

\* The values of a byte, by its place from the right.
ByteWeights == <<1, 256, 65536, 16777216>>

\* The length in the signed bytes: DER, the least number of bytes that hold it;
\* no request is so long that four are too few.
BytesIn(len) == CHOOSE k \in 1..4 : ByteWeights[k] <= len /\ (k = 4 \/ len < ByteWeights[k + 1])

BigEndian(len, n) == [i \in 1..n |-> (len \div ByteWeights[n - i + 1]) % 256]

DerLength(len) == IF len < 128 THEN <<len>> ELSE <<128 + BytesIn(len)>> \o BigEndian(len, BytesIn(len))

oid_to_ring_algorithm == [ecdsa_sha256 |-> "P-256", ecdsa_sha384 |-> "P-384", ed25519 |-> "Ed25519",
                          rsa_sha256 |-> "RSA", rsa_sha384 |-> "RSA", rsa_sha512 |-> "RSA"]

\* ring's DER reader takes lengths of no more than two bytes.  The longest is
\* that of the request itself: the signed part with its header, and the rest.
ReadsLength(len) == len < 65536

RequestLength(csr) == 1 + Len(DerLength(csr.len)) + csr.len + csr.rest

\* The signature is checked over the re-encoded part, with the algorithm of the
\* OID: another curve's key is refused.
verify_csr_signature(csr) ==
    /\ csr.der /\ ReadsLength(RequestLength(csr)) /\ csr.oid \in DOMAIN oid_to_ring_algorithm
    /\ csr.genuine /\ oid_to_ring_algorithm[csr.oid] = csr.key
    /\ encode_length(csr.len) = DerLength(csr.len)

-----------------------------------------------------------------------------
(* Certificates: [cn, ou, sans, not_before, not_after, issuer, key]. *)

\* A subject without a trust domain has that of the service.
extract_trust_domain(subject) == IF subject.scheme = "spiffe" THEN subject.domain ELSE <<"quartermaster">>

BilletUri(subject, b) == URI("qm-billet", extract_trust_domain(subject), <<b>>)

\* Ia5String::try_from.
Ascii(uri) == \A i \in 1..Len(uri.path) : uri.path[i] \notin NonAscii

\* LocalAuthority::new and KmsBackedAuthority::new: the PEM files of the CA.
CaParses(ca) == ca.key_path = "pem" /\ ca.cert_path = "pem"

Sans(subject, billets) == <<subject>> \o [i \in 1..Len(billets) |-> BilletUri(subject, billets[i])]

\* rcgen's CertificateSigningRequestParams::from_der knows three extensions, and
\* refuses a request for any other.
KnownExtensions == {"subjectAltName", "keyUsage", "extendedKeyUsage"}

from_der(csr) == csr.extensions \subseteq KnownExtensions

\* Whether the authority answers with a certificate, and not with an error.
Issues(csr, subject, billets) ==
    /\ verify_csr_signature(csr) /\ from_der(csr)
    /\ \A i \in 1..Len(Sans(subject, billets)) : Ascii(Sans(subject, billets)[i])

\* LocalAuthority: nothing of the request but its key goes into the certificate.
issue(auth, csr, subject, billets, now) ==
    [cn |-> subject, ou |-> IF auth.include_billets_ou /\ billets # <<>> THEN billets ELSE None,
     sans |-> Sans(subject, billets),
     not_before |-> now, not_after |-> now + auth.ttl, issuer |-> auth.ca, key |-> csr.key]

\* KmsBackedAuthority knows no OU.
KmsIssue(auth, csr, subject, billets, now) ==
    issue([ttl |-> auth.ttl, ca |-> auth.ca, include_billets_ou |-> FALSE], csr, subject, billets, now)

\* MtlsValidator::from_pem: at least one certificate, and all of them parse.
AnchorsParse(b) == b # Unreadable /\ b # {}

\* env/<environment> and region/<region> anywhere on the path; the last wins,
\* and what follows a marker is not one itself.
parse_spiffe_path_segments(path) ==
    LET n == Len(path)
        scan[i \in 1..n + 2] ==
            IF i >= n THEN [env |-> None, region |-> None]
            ELSE CASE path[i] \in {"env", "environment"} ->
                        [scan[i + 2] EXCEPT !.env = IF @ = None THEN path[i + 1] ELSE @]
                   [] path[i] = "region" ->
                        [scan[i + 2] EXCEPT !.region = IF @ = None THEN path[i + 1] ELSE @]
                   [] OTHER -> scan[i + 1]
        found == scan[1]
    IN  [env |-> IF found.env = None THEN "" ELSE found.env,
         region |-> IF found.region = None THEN "" ELSE found.region]

\* Mutant: any URI of the trust domain names an identity.
AnyUri(uri, td) == uri.domain = td

\* starts_with("spiffe://<trust_domain>/")
SpiffeUriOf(uri, td) == uri.scheme = "spiffe" /\ uri.domain = td /\ uri.path # <<>>

\* The identity of a client certificate, or None: the first URI that is a
\* SPIFFE ID of the trust domain.
CertificateIdentity(v, c, now) ==
    LET at == {i \in 1..Len(c.sans) : SpiffeUriOf(c.sans[i], v.trust_domain)}
        uri == c.sans[CHOOSE i \in at : \A j \in at : i <= j]
    IN  IF c.not_before <= now /\ now <= c.not_after /\ c.issuer \in v.anchors /\ at # {}
        THEN [type |-> "spire", spiffe_id |-> uri, trust_domain |-> v.trust_domain,
              environment |-> parse_spiffe_path_segments(uri.path).env,
              region |-> parse_spiffe_path_segments(uri.path).region]
        ELSE None
=============================================================================
