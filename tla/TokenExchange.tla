----------------------------- MODULE TokenExchange -----------------------------
(***************************************************************************)
(* POST /token and POST /billets/me: handlers run concurrently over the     *)
(* rate limiter and the JWKS manager.  A handler works without interruption *)
(* between two awaits (the locks of the JWKS source, the call of AWS STS,   *)
(* the lock of the limiter, the resolver, the certificate authority), and   *)
(* is dropped at one of them when the client goes away.                     *)
(*                                                                         *)
(* What a token is to its validator: [type, wellFormed, source, signer,     *)
(* exp, audience, complete, allowed, subject, claims], where `exp` includes *)
(* the library's leeway, and `audience`, `complete` and `allowed` say       *)
(* whether it passes the checks of that name.  What the resolver answers is *)
(* the subject of BilletResolution; here it may be anything.                *)
(***************************************************************************)
EXTENDS RateLimiter, JwksManager

CONSTANTS
    Handlers,
    Requests,         \* [endpoint, params, token, certificate, wanted, csr]
    TokenTypes,       \* the token types that have a validator
    TrustBundle,      \* keys of the SPIRE trust bundle
    Google,           \* the source of GCP tokens
    ClaimMappings,    \* ClaimMappings[s]: a set of [claim, prefix, in_tokens]
    CedarAnswers,     \* what the resolver may grant: sets of billets, a billet
                      \* being the sequence of its colon-separated parts
    None              \* no token, no certificate, no request

ASSUME ExchangeAssumption ==
    /\ {} \notin CedarAnswers
    /\ None \notin Requests
    /\ \A q \in Requests :
          /\ q.token # None => q.token.subject \in Subjects
          /\ q.token = None /\ q.certificate # None => q.certificate.subject \in Subjects

VARIABLES
    pc,        \* pc[h]: what the handler awaits; a handler serves one request
    req,       \* req[h]: its request
    since,     \* since[h]: the time it last read
    issued,    \* issued[h]: the token and the record that go with it
    reply      \* the answer that the step just taken has given, if any

handlerVars == <<pc, req, since, issued, reply>>
vars == <<clock, limiterVars, jwksVars, handlerVars>>

Answers == {"none", "ok", "listed", "invalid_request", "invalid_token", "unavailable",
            "rate_limited", "insufficient_scope", "dropped"}

NoTokenYet == [billets |-> {}, cedar |-> {}, implicit |-> {}]

\* Type correctness; a handler has a request exactly while it serves it, and no
\* subject has more stamps than the limit (InMemoryLimiter::allow).
ExchangeTypes ==
    /\ clock \in Nat
    /\ LimiterTypes
    /\ JwksTypes
    /\ pc \in [Handlers -> {"idle", "keys", "verify", "sts", "limit", "resolve", "certify", "done"}]
    /\ req \in [Handlers -> Requests \cup {None}]
    /\ \A h \in Handlers : req[h] = None <=> pc[h] \in {"idle", "done"}
    /\ since \in [Handlers -> Nat]
    /\ reply.answer \in Answers

NoReply == [answer |-> "none", record |-> "none", token |-> NoTokenYet]

ExchangeInit ==
    /\ clock = 0
    /\ LimiterInit
    /\ JwksInit
    /\ pc = [h \in Handlers |-> "idle"]
    /\ req = [h \in Handlers |-> None]
    /\ since = [h \in Handlers |-> 0]
    /\ issued = [h \in Handlers |-> NoTokenYet]
    /\ reply = NoReply

-----------------------------------------------------------------------------
(* Identities. *)

\* format_subject, of the token's identity or of the certificate's.
Subject(q) == IF q.token = None THEN q.certificate.subject ELSE q.token.subject

\* MtlsValidator; a certificate that it does not like is as good as none.
MtlsAccepts(c) == c # None /\ c.anchored /\ clock <= c.not_after /\ c.inTrustDomain

\* SpireValidator: a fixed trust bundle.
SpireAccepts(t) == t.wellFormed /\ t.signer \in TrustBundle /\ clock <= t.exp /\ t.allowed /\ t.audience

\* All keys of the source are tried.
VerifiedBy(t, ks) == t.signer \in ks /\ clock <= t.exp

OidcAccepts(t, ks) == VerifiedBy(t, ks) /\ t.audience /\ t.complete

GcpAccepts(t, ks) == VerifiedBy(t, ks) /\ t.audience /\ t.complete /\ t.allowed

KeysAccept(t, ks) ==
    \/ t.type = "oidc" /\ OidcAccepts(t, ks)
    \/ t.type = "gcp" /\ GcpAccepts(t, ks)

\* The source whose keys verify a token; an issuer that is not configured has
\* none.
SourceOf(t) == IF t.type = "gcp" THEN Google ELSE t.source

-----------------------------------------------------------------------------
(* Billets of the token. *)

reserved_prefixes == {m.prefix : m \in UNION {ClaimMappings[s] : s \in Sources}}

Reserved(b) == Len(b) > 1 /\ b[1] \in reserved_prefixes

\* derive_billets, for tokens of OIDC providers.
Derived(q, mappings) ==
    UNION {{<<m.prefix, v>> : v \in {c[2] : c \in {d \in q.token.claims : d[1] = m.claim}}} :
             m \in mappings}

Mappings(q) ==
    IF q.token # None /\ q.token.type = "oidc" THEN ClaimMappings[q.token.source] ELSE {}

all_billets(q) == Derived(q, Mappings(q))
token_billets(q) == Derived(q, {m \in Mappings(q) : m.in_tokens})

\* The billets of the policies, without those that impersonate a claim, and the
\* claims that go into tokens.
assemble_token_billets(q, cedar) == {b \in cedar : ~Reserved(b)} \cup token_billets(q)

\* scope_billets: all that was asked for, or a refusal.
Entitled(q, final) == q.wanted \subseteq final
Scoped(q, final) == IF q.wanted = {} THEN final ELSE q.wanted

-----------------------------------------------------------------------------
(* The end of a request. *)

Finish(h, answer, record, token) ==
    /\ pc' = [pc EXCEPT ![h] = "done"]
    /\ req' = [req EXCEPT ![h] = None]
    /\ since' = [since EXCEPT ![h] = 0]
    /\ issued' = [issued EXCEPT ![h] = NoTokenYet]
    /\ reply' = [answer |-> answer, record |-> record, token |-> token]

\* token_exchange_failure is emitted.
Fail(h, answer) == Finish(h, answer, "failure", NoTokenYet)

\* An early return or a `?` without a record.
FailSilently(h, answer) == Finish(h, answer, "none", NoTokenYet)

Succeed(h, token) == Finish(h, "ok", "success", token)

\* The handler goes on to await `place`, at the present time.
Await(h, q, place, token) ==
    /\ pc' = [pc EXCEPT ![h] = place]
    /\ req' = [req EXCEPT ![h] = q]
    /\ since' = [since EXCEPT ![h] = IF place \in {"verify", "limit"} THEN clock ELSE 0]
    /\ issued' = [issued EXCEPT ![h] = token]
    /\ reply' = NoReply

-----------------------------------------------------------------------------
(* The steps. *)

\* Parameters (POST /token alone has some), and what of the identity needs no
\* await.  An explicit token goes before the certificate.
Arrive(h, q) ==
    LET t == q.token
        params == q.endpoint = "discovery" \/ q.params
        supported == t # None /\ t.type \in TokenTypes
    IN  /\ pc[h] = "idle"
        /\ \/ /\ ~params \/ (t = None /\ ~MtlsAccepts(q.certificate)) \/ (t # None /\ t.type = "missing")
              /\ FailSilently(h, "invalid_request")
           \/ /\ params /\ t = None /\ MtlsAccepts(q.certificate)
              /\ Await(h, q, "limit", NoTokenYet)
           \/ /\ params /\ t # None /\ t.type # "missing" /\ ~supported
              /\ Fail(h, "invalid_request")
           \/ /\ params /\ supported /\ t.type = "spire" /\ SpireAccepts(t)
              /\ Await(h, q, "limit", NoTokenYet)
           \/ /\ params /\ supported /\ t.type \in {"oidc", "gcp"} /\ t.wellFormed /\ SourceOf(t) \in Sources
              /\ Await(h, q, "keys", NoTokenYet)
           \/ /\ params /\ supported /\ t.type = "aws" /\ t.wellFormed
              /\ Await(h, q, "sts", NoTokenYet)
           \/ /\ params /\ supported
              /\ \/ t.type = "spire" /\ ~SpireAccepts(t)
                 \/ t.type \in {"oidc", "gcp"} /\ ~(t.wellFormed /\ SourceOf(t) \in Sources)
                 \/ t.type = "aws" /\ ~t.wellFormed
              /\ Fail(h, "invalid_token")
        /\ UNCHANGED <<clock, limiterVars, jwksVars>>

\* get_keys reads last_refresh ...
CheckStaleness(h) ==
    /\ pc[h] = "keys"
    /\ IF Fresh(SourceOf(req[h].token))
       THEN Await(h, req[h], "verify", NoTokenYet)
       ELSE Fail(h, "unavailable")
    /\ UNCHANGED <<clock, limiterVars, jwksVars>>

\* ... and then the keys.
Verify(h) ==
    /\ pc[h] = "verify"
    /\ LET t == req[h].token
           ks == keys[SourceOf(t)]
       IN  \/ ks = {} /\ Fail(h, "unavailable")
           \/ ks # {} /\ ~KeysAccept(t, ks) /\ Fail(h, "invalid_token")
           \/ KeysAccept(t, ks) /\ Await(h, req[h], "limit", NoTokenYet)
    /\ UNCHANGED <<clock, limiterVars, jwksVars>>

\* AwsStsValidator has its answer, or none.
StsAnswers(h) ==
    /\ pc[h] = "sts"
    /\ \/ Fail(h, "invalid_token")
       \/ /\ req[h].token.complete /\ req[h].token.allowed
          /\ Await(h, req[h], "limit", NoTokenYet)
    /\ UNCHANGED <<clock, limiterVars, jwksVars>>

\* Entities other than those of SPIRE are built, which may fail, before the
\* resolver is asked.
Limit(h) ==
    LET q == req[h]
        s == Subject(q)
    IN  /\ pc[h] = "limit"
        /\ \/ AllowRequest(s, since[h]) /\ Await(h, q, "resolve", NoTokenYet)
           \/ /\ AllowRequest(s, since[h]) /\ q.token # None /\ q.token.type # "spire"
              /\ FailSilently(h, "unavailable")
           \/ DenyRequest(s, since[h]) /\ q.endpoint = "token" /\ Fail(h, "rate_limited")
           \/ DenyRequest(s, since[h]) /\ q.endpoint = "discovery" /\ FailSilently(h, "rate_limited")
        /\ UNCHANGED <<clock, jwksVars>>

\* The resolver has no billets for the subject, which discovery does not mind,
\* or no policies.
ResolveFails(h) ==
    /\ pc[h] = "resolve"
    /\ \/ req[h].endpoint = "token" /\ \E answer \in {"insufficient_scope", "unavailable"} : Fail(h, answer)
       \/ req[h].endpoint = "discovery" /\ \E answer \in {"listed", "unavailable"} : FailSilently(h, answer)
    /\ UNCHANGED <<clock, limiterVars, jwksVars>>

TokenOf(q, cedar) ==
    [billets |-> Scoped(q, assemble_token_billets(q, cedar)), cedar |-> cedar, implicit |-> all_billets(q)]

\* resolve returns, to discovery ...
Discover(h, cedar) ==
    /\ pc[h] = "resolve" /\ req[h].endpoint = "discovery"
    /\ Finish(h, "listed", "none",
              [billets |-> assemble_token_billets(req[h], cedar), cedar |-> cedar,
               implicit |-> token_billets(req[h])])
    /\ UNCHANGED <<clock, limiterVars, jwksVars>>

\* Mutant: the success is recorded before the CSR has been looked at.
RecordedEarly(h, cedar) ==
    LET q == req[h]
        entitled == Entitled(q, assemble_token_billets(q, cedar))
    IN  /\ pc[h] = "resolve" /\ q.endpoint = "token"
        /\ \/ entitled /\ q.csr = "none" /\ Succeed(h, TokenOf(q, cedar))
           \/ entitled /\ q.csr = "bad" /\ Finish(h, "invalid_request", "success", NoTokenYet)
        /\ UNCHANGED <<clock, limiterVars, jwksVars>>

\* ... or to the exchange: assembly, scoping, the JWT, and what can be said of
\* the CSR.
Resolve(h, cedar) ==
    LET q == req[h]
        entitled == Entitled(q, assemble_token_billets(q, cedar))
    IN  /\ pc[h] = "resolve" /\ q.endpoint = "token"
        /\ \/ ~entitled /\ FailSilently(h, "insufficient_scope")
           \/ entitled /\ FailSilently(h, "unavailable")
           \/ entitled /\ q.csr = "none" /\ Succeed(h, TokenOf(q, cedar))
           \/ entitled /\ q.csr = "bad" /\ FailSilently(h, "invalid_request")
           \/ entitled /\ q.csr = "good" /\ Await(h, q, "certify", TokenOf(q, cedar))
        /\ UNCHANGED <<clock, limiterVars, jwksVars>>

\* authority.issue.
Certify(h) ==
    /\ pc[h] = "certify"
    /\ Succeed(h, issued[h]) \/ FailSilently(h, "invalid_request")
    /\ UNCHANGED <<clock, limiterVars, jwksVars>>

\* The client goes away, and the server drops the handler where it waits.
Disconnect(h) ==
    /\ pc[h] \notin {"idle", "done"}
    /\ FailSilently(h, "dropped")
    /\ UNCHANGED <<clock, limiterVars, jwksVars>>

HandlerStep(h) ==
    \/ CheckStaleness(h) \/ Verify(h) \/ StsAnswers(h) \/ Limit(h)
    \/ ResolveFails(h) \/ (\E cedar \in CedarAnswers : Discover(h, cedar) \/ Resolve(h, cedar))
    \/ Certify(h)

\* Time passes, but not while somebody has waited for MaxDelay.
Tick ==
    /\ Advance
    /\ RefreshInTime
    /\ \A h \in Handlers : pc[h] \in {"verify", "limit"} => clock - since[h] < MaxDelay
    /\ UNCHANGED <<limiterVars, jwksVars>>

\* No handler moves.
Still == UNCHANGED <<pc, req, since, issued>> /\ reply' = NoReply

ExchangeNext ==
    \/ \E h \in Handlers : (\E q \in Requests : Arrive(h, q)) \/ HandlerStep(h) \/ Disconnect(h)
    \/ Sweep /\ UNCHANGED <<clock, jwksVars>> /\ Still
    \/ JwksNext /\ UNCHANGED <<clock, limiterVars>> /\ Still
    \/ Tick /\ Still

ExchangeSpec == ExchangeInit /\ [][ExchangeNext]_vars

-----------------------------------------------------------------------------
(* Properties. *)

\* A key that its provider has withdrawn is good for no longer than
\* max_staleness and the delays of the refresh and of the request, whatever
\* fails and however the two locks are interleaved (get_keys, refresh_source).
WithdrawnKeysExpire ==
    [][\A h \in Handlers :
          pc[h] = "verify" /\ pc'[h] = "limit" =>
              LET t == req[h].token
                  gone == withdrawn[SourceOf(t)][t.signer]
              IN  \/ t.signer \in published[SourceOf(t)]
                  \/ clock - gone <= max_staleness + 2 * MaxDelay]_vars

\* Nobody is turned away by the limiter before the limit has been used up within
\* the window, although expired stamps may stay behind newer ones (allow).
DenialsJustified ==
    [][\A h \in Handlers :
          pc[h] = "limit" /\ pc'[h] = "done" /\ reply'.answer = "rate_limited" =>
              UsedUp(Subject(req[h]), since[h])]_vars

\* A caller gets a token if and only if a success is recorded, however late the
\* exchange fails; and what is recorded, or listed by discovery, accounts for every
\* billet: one with a reserved prefix comes from the claims of the caller's token.
RecordsMatchTokens ==
    /\ reply.record = "success" <=> reply.answer = "ok"
    /\ \A b \in reply.token.billets :
          \/ b \in reply.token.cedar /\ ~Reserved(b)
          \/ b \in reply.token.implicit
=============================================================================
