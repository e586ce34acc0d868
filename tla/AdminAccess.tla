---------------------------- MODULE AdminAccess ----------------------------
(***************************************************************************)
(* The loop that administration closes: policies in the store decide, by    *)
(* way of a sync and of the cache, which billets a token carries; the token *)
(* decides, with the policies synced by then, what its holder may do to the *)
(* store.  The admin handlers, their authenticator and audit events, the    *)
(* data-plane lookup of a billet and the bootstrap CLI.                     *)
(*                                                                         *)
(* The handlers run one at a time: AdminCrud interleaves them.  A sync, a   *)
(* token exchange and an authentication are one step each (PolicySync,      *)
(* TokenExchange and KeyManager take them apart), and a sync succeeds in    *)
(* every interval.  A statement is reduced to its effect and what it asks   *)
(* of action, principal and resource.                                       *)
(***************************************************************************)
EXTENDS Naturals, FiniteSets

CONSTANTS
    None,
    Any,              \* a scope or condition that matches everything
    Billets,
    SystemBillets,    \* system_billets of the configuration
    Guardrails,       \* "quartermaster-guardrails"
    AdminBillet,      \* "quartermaster-admin"
    Subjects,
    Bootstrap,        \* "bootstrap:admin", the subject of the CLI's tokens
    Implicit,         \* Implicit[s]: the billets that the claims of s give it
    WellFormedTags,   \* tags of the form key:value that validate_tag accepts
    InitialRows,      \* the tables at the start
    Requests,         \* [op, billet, id, st, tags]
    CliPolicies,      \* what the CLI may be asked to add
    token_ttl, cache_ttl, sync_interval,
    CliTtl,           \* lifetime of the CLI's tokens (600 s)
    Leeway,           \* leeway of jsonwebtoken's Validation (60 s)
    MaxClock,         \* bound: the time
    MaxChanges,       \* bound: changes of the tables
    MaxTokens         \* bound: tokens that the clients keep

(* A policy row is [billet, id, st], a statement [effect, action, who,        *)
(* resource], where who and resource are a name, a tag or Any.                *)

\* The two tables: the tags of every billet there is, and the policy rows.
IsTables(t) ==
    /\ t = [billets |-> t.billets, policies |-> t.policies]
    /\ t.billets = [b \in DOMAIN t.billets |-> t.billets[b]]
    /\ DOMAIN t.billets \subseteq Billets

\* An admin request that has been authenticated.
Calls ==
    [at : {"operate", "reread", "answer"}, request : Requests,
     sub : Subjects \cup {Bootstrap}, billets : SUBSET Billets]

\* A name, a tag and Any are different things to Cedar.
ASSUME AccessAssumption ==
    /\ {Guardrails, AdminBillet} \subseteq Billets /\ SystemBillets \subseteq Billets
    /\ Implicit \in [Subjects -> SUBSET Billets] /\ Bootstrap \notin Subjects
    /\ Any \notin Billets /\ Any # "assumeBillet" /\ WellFormedTags \cap Billets = {}
    /\ IsTables(InitialRows)
    /\ \A b \in DOMAIN InitialRows.billets : InitialRows.billets[b] \cap Billets = {}
    /\ \A p \in InitialRows.policies : p.billet \in DOMAIN InitialRows.billets
    /\ \A q \in Requests : q.billet \in Billets
    /\ None \notin Calls
    /\ {token_ttl, cache_ttl, sync_interval, CliTtl, Leeway, MaxClock, MaxChanges, MaxTokens} \subseteq Nat

VARIABLES
    clock,
    rows,        \* the two tables: [billets : name -> tags, policies : set of rows]
    synced,      \* the tables as PolicySyncService read them last, None before
    syncedAt,
    cache,       \* cache[s]: [billets, expires] of the resolver, or None
    tokens,      \* tokens in the hands of clients: [sub, billets, exp, genuine]
    call,        \* the admin request under way, past its authentication, or None
    past,        \* history: the tables at the times that still matter
    rootUsed,    \* history: a token of a system billet, or the CLI, was used
    changes,     \* history: changes of the tables
    ledger,      \* history: what the audit trail tells of the tables
    lost         \* history: a change that no event tells of

vars == <<clock, rows, synced, syncedAt, cache, tokens, call, past, rootUsed, changes, ledger, lost>>

Reserved == UNION {Implicit[s] : s \in Subjects}

-----------------------------------------------------------------------------
(* Cedar, over one copy of the tables. *)

TagsOf(t, b) == IF b \in DOMAIN t.billets THEN t.billets[b] ELSE {}

Matches(pattern, name, ts) == pattern \in {Any, name} \cup ts

Applies(st, action, p, ptags, r, rtags) ==
    st.action \in {Any, action} /\ Matches(st.who, p, ptags) /\ Matches(st.resource, r, rtags)

Allowed(t, action, p, r) ==
    LET applied == {q.st.effect : q \in {q \in t.policies :
                        Applies(q.st, action, p, TagsOf(t, p), r, TagsOf(t, r))}}
    IN  applied = {"permit"}

assumable(t, s) == {b \in DOMAIN t.billets : Allowed(t, "assumeBillet", s, b)}

\* System billets are immune to lockout, even before the first sync.
is_authorized_admin(t, principals, action, r) ==
    \/ principals \cap SystemBillets # {}
    \/ t # None /\ \E p \in principals : Allowed(t, action, p, r)

-----------------------------------------------------------------------------
(* Time, syncs and tokens. *)

Window == sync_interval + cache_ttl + token_ttl + Leeway

\* What of the tables an event can tell: tags are in none.
Told(t) == [billets |-> DOMAIN t.billets, policies |-> t.policies]

At(t) == [at |-> clock, rows |-> t]

Init ==
    /\ clock = 0 /\ syncedAt = 0
    /\ rows = InitialRows /\ synced = None
    /\ cache = [s \in Subjects |-> None] /\ tokens = {}
    /\ call = None
    /\ past = {[at |-> 0, rows |-> InitialRows]}
    /\ rootUsed = FALSE /\ changes = 0
    /\ ledger = Told(InitialRows) /\ lost = FALSE

is_expired(e) == e # None /\ clock + 1 >= e.expires

\* An expired entry of the cache is as good as none.
Tick ==
    /\ clock < MaxClock /\ clock < syncedAt + sync_interval
    /\ clock' = clock + 1
    /\ past' = {x \in past : x.at + Window > clock} \cup {[at |-> clock + 1, rows |-> rows]}
    /\ cache' = [s \in Subjects |-> IF is_expired(cache[s]) THEN None ELSE cache[s]]
    /\ UNCHANGED <<rows, synced, syncedAt, tokens, call, rootUsed, changes, ledger, lost>>

\* PolicySyncService::sync_once
Sync ==
    /\ synced' = rows /\ syncedAt' = clock
    /\ UNCHANGED <<clock, rows, cache, tokens, call, past, rootUsed, changes, ledger, lost>>

\* The clients keep a token until newer ones take its place.
Hand(sub, bs, ttl) ==
    \E kept \in SUBSET tokens :
        /\ Cardinality(kept) < MaxTokens
        /\ tokens' = kept \cup {[sub |-> sub, billets |-> bs, exp |-> clock + ttl, genuine |-> TRUE]}

\* assemble_token_billets
TokenBillets(s, cedar) == (cedar \ Reserved) \cup Implicit[s]

\* POST /token out of the cache
IssueCached(s) ==
    /\ cache[s] # None
    /\ Hand(s, TokenBillets(s, cache[s].billets), token_ttl)
    /\ UNCHANGED <<clock, rows, synced, syncedAt, cache, call, past, rootUsed, changes, ledger, lost>>

\* POST /token, resolved from the synced tables; no billets, no token.
Issue(s) ==
    /\ cache[s] = None
    /\ synced # None /\ assumable(synced, s) # {}
    /\ Hand(s, TokenBillets(s, assumable(synced, s)), token_ttl)
    /\ cache' = [cache EXCEPT ![s] = [billets |-> assumable(synced, s), expires |-> clock + cache_ttl]]
    /\ UNCHANGED <<clock, rows, synced, syncedAt, call, past, rootUsed, changes, ledger, lost>>

-----------------------------------------------------------------------------
(* Authentication. *)

\* What Authorization may hold: a token that was handed out, one that Quartermaster
\* has not signed, or another scheme.
Headers ==
    [scheme : {"Bearer"}, token : tokens]
    \cup [scheme : {"Bearer"}, token : {[sub |-> Bootstrap, billets |-> SystemBillets, exp |-> MaxClock, genuine |-> FALSE]}]
    \cup [scheme : {"Basic"}, token : {None}]

extract_bearer_token(h) == IF h.scheme = "Bearer" THEN h.token ELSE None

\* Mutant: an expired token is as good as another.
UncheckedExpiry(t) == FALSE

ExpiredSignature(t) == clock > t.exp + Leeway

AuthAction(op) == IF op \in {"getBillet", "listPolicies", "getPolicy", "lookup"} THEN "readBillet" ELSE op

AuthResource(q) == IF q.op = "listBillets" THEN "billets" ELSE q.billet

\* jsonwebtoken::decode under a key of the JWKS
Verified(t) == t.genuine

\* AdminAuthenticatorImpl::authenticate, and verify_quartermaster_jwt of the
\* data-plane handler.
authenticate(h, q) ==
    LET t == extract_bearer_token(h)
    IN  /\ t # None
        /\ Verified(t) /\ ~ExpiredSignature(t)
        /\ is_authorized_admin(synced, t.billets, AuthAction(q.op), AuthResource(q))

Writes == {"createBillet", "updateBillet", "deleteBillet", "createPolicy", "updatePolicy", "deletePolicy"}

\* "billet" or "billet/id"
Target(q) == <<q.billet, q.id>>

\* A request that is not authenticated ends here; it leaves nothing behind but
\* the authFailure event of a handler that writes.
Admit(q, h) ==
    /\ call = None
    /\ authenticate(h, q)
    /\ call' = [at |-> "operate", request |-> q, sub |-> h.token.sub, billets |-> h.token.billets]
    /\ rootUsed' = (rootUsed \/ h.token.billets \cap SystemBillets # {})
    /\ UNCHANGED <<clock, rows, synced, syncedAt, cache, tokens, past, changes, ledger, lost>>

-----------------------------------------------------------------------------
(* The services. *)

validate_tags(ts) == ts \subseteq WellFormedTags

validate_forbid_only(st) == st.effect = "forbid"

\* Mutant: any billet may be named, but not every billet.
NamedResource(b, st) == st.resource \in Billets

validate_resource_scope(b, st) == st.resource = b

ValidStatement(b, st) ==
    /\ b = Guardrails => validate_forbid_only(st)
    /\ b \notin SystemBillets => validate_resource_scope(b, st)

Rows(b, id) == {p \in rows.policies : p.billet = b /\ p.id = id}

Invalid(q) ==
    \/ q.op = "createBillet" /\ q.billet \in Reserved
    \/ q.op \in {"createBillet", "updateBillet"} /\ ~validate_tags(q.tags)
    \/ q.op \in {"createPolicy", "updatePolicy"} /\ ~ValidStatement(q.billet, q.st)

Protected(q) == q.op = "deleteBillet" /\ q.billet \in {Guardrails, AdminBillet}

Taken(q) == q.op = "createBillet" /\ q.billet \in DOMAIN rows.billets

Missing(q) ==
    \/ /\ q.op \in {"getBillet", "lookup", "updateBillet", "deleteBillet", "createPolicy"}
       /\ q.billet \notin DOMAIN rows.billets
    \/ q.op \in {"getPolicy", "updatePolicy", "deletePolicy"} /\ Rows(q.billet, q.id) = {}

\* What map_billet_error and map_policy_error make 400, 403, 409 and 404 of.
TurnedDown(q) == Invalid(q) \/ Protected(q) \/ Taken(q) \/ Missing(q)

\* The tables after the write.  A new policy gets an id of its own.
Written(q) ==
    CASE q.op \in {"createBillet", "updateBillet"} ->
            [rows EXCEPT !.billets = [b \in DOMAIN @ \cup {q.billet} |-> IF b = q.billet THEN q.tags ELSE @[b]]]
      [] q.op = "deleteBillet" ->
            [billets |-> [b \in DOMAIN rows.billets \ {q.billet} |-> rows.billets[b]],
             policies |-> {p \in rows.policies : p.billet # q.billet}]
      [] q.op \in {"createPolicy", "updatePolicy"} ->
            [rows EXCEPT !.policies = (@ \ Rows(q.billet, q.id)) \cup {[billet |-> q.billet, id |-> q.id, st |-> q.st]}]
      [] q.op = "deletePolicy" -> [rows EXCEPT !.policies = @ \ Rows(q.billet, q.id)]

Change(t) ==
    /\ changes < MaxChanges /\ changes' = changes + 1
    /\ rows' = t
    /\ past' = past \cup {At(t)}

\* The tables show the request.
Wrote == call # None /\ call.at \in {"reread", "answer"}

Operating(ops) == call # None /\ call.at = "operate" /\ call.request.op \in ops

\* A read, or a request that the service turns down: no event.
Answer ==
    /\ call # None /\ call.at = "operate"
    /\ call.request.op \in Writes => TurnedDown(call.request)
    /\ call' = None
    /\ UNCHANGED <<clock, rows, synced, syncedAt, cache, tokens, past, rootUsed, changes, ledger, lost>>

\* update_policy reads its row once more before it answers.
Write ==
    /\ Operating(Writes) /\ ~TurnedDown(call.request)
    /\ call.request.op = "createPolicy" => Rows(call.request.billet, call.request.id) = {}
    /\ Change(Written(call.request))
    /\ call' = [call EXCEPT !.at = IF call.request.op = "updatePolicy" THEN "reread" ELSE "answer"]
    /\ UNCHANGED <<clock, synced, syncedAt, cache, tokens, rootUsed, ledger, lost>>

Reread ==
    /\ call # None /\ call.at = "reread"
    /\ call' = [call EXCEPT !.at = "answer"]
    /\ UNCHANGED <<clock, rows, synced, syncedAt, cache, tokens, past, rootUsed, changes, ledger, lost>>

\* Mutant: the event of an update shows the statement that was there.
OldStatement(q) ==
    [action |-> q.op, target |-> Target(q),
     policy_statement |-> IF q.op = "updatePolicy" THEN (CHOOSE p \in ledger.policies : p.id = q.id).st ELSE q.st]

\* The event of a success.
Success(q) == [action |-> q.op, target |-> Target(q), policy_statement |-> q.st]

\* The tables that a reader of the trail takes from one more event.
Replay(l, e) ==
    LET b == e.target[1]
        others == {p \in l.policies : <<p.billet, p.id>> # e.target}
    IN  CASE e.action \in {"createBillet", "updateBillet"} -> [l EXCEPT !.billets = @ \cup {b}]
          [] e.action = "deleteBillet" -> [billets |-> l.billets \ {b}, policies |-> {p \in l.policies : p.billet # b}]
          [] e.action = "deletePolicy" -> [l EXCEPT !.policies = others]
          [] OTHER -> [l EXCEPT !.policies = others \cup {[billet |-> b, id |-> e.target[2], st |-> e.policy_statement]}]

Succeed ==
    /\ call # None /\ call.at = "answer"
    /\ call' = None
    /\ ledger' = Replay(ledger, Success(call.request))
    /\ UNCHANGED <<clock, rows, synced, syncedAt, cache, tokens, past, rootUsed, changes, lost>>

\* The store fails: before the write, or at the read after it.
StoreFails ==
    /\ call # None /\ call.at \in {"operate", "reread"}
    /\ call' = None
    /\ lost' = (lost \/ Wrote)
    /\ UNCHANGED <<clock, rows, synced, syncedAt, cache, tokens, past, rootUsed, changes, ledger>>

\* The client goes away and the handler is dropped where it awaits the store,
\* the write done or not.
Disconnect ==
    /\ call # None
    /\ call' = None
    /\ lost' = (lost \/ Wrote)
    /\ UNCHANGED <<clock, rows, synced, syncedAt, cache, tokens, past, rootUsed, changes, ledger>>

-----------------------------------------------------------------------------
(* qm-bootstrap: whoever can run it holds the store and the signing key.      *)

\* add_policy asks for the billet, and for nothing of the statement.
AddPolicy ==
    /\ \E p \in CliPolicies :
          /\ p.billet \in DOMAIN rows.billets /\ Rows(p.billet, p.id) = {}
          /\ Change([rows EXCEPT !.policies = @ \cup {p}])
    /\ rootUsed' = TRUE /\ lost' = TRUE
    /\ UNCHANGED <<clock, synced, syncedAt, cache, tokens, call, ledger>>

\* issue_token, for whichever billets are asked for.
IssueToken ==
    /\ Hand(Bootstrap, {AdminBillet}, CliTtl)
    /\ UNCHANGED <<clock, rows, synced, syncedAt, cache, call, past, rootUsed, changes, ledger, lost>>

-----------------------------------------------------------------------------
Handle ==
    \/ \E q \in Requests, h \in Headers : Admit(q, h)
    \/ Answer \/ Write \/ Reread \/ Succeed \/ StoreFails \/ Disconnect

Next ==
    \/ Tick \/ Sync
    \/ \E s \in Subjects : Issue(s) \/ IssueCached(s)
    \/ Handle
    \/ AddPolicy \/ IssueToken

Spec == Init /\ [][Next]_vars

-----------------------------------------------------------------------------
(* Properties. *)

\* What the tables of the last d seconds have in common with a claim about them.
Lately(d, Holds(_)) == \E x \in past : x.at + d >= clock /\ Holds(x.rows)

\* Why a token may carry billet b: names under a reserved prefix come from the
\* claims of the identity alone, and all others from policies.
EntitledTo(s, b) ==
    IF b \in Reserved THEN b \in Implicit[s]
    ELSE Lately(Window, LAMBDA t : b \in assumable(t, s))

MayDo(b, q) ==
    \/ b \in SystemBillets
    \/ Lately(sync_interval, LAMBDA t : Allowed(t, AuthAction(q.op), b, AuthResource(q)))

\* Revocation is bounded from end to end: an admin request is admitted only with
\* a billet that the tables entitled its subject to no longer ago than a sync
\* interval, the cache's ttl, the token's ttl and the leeway together, and for
\* an operation that the tables of the last sync interval permit to that billet
\* (authenticate over issue, resolve and sync_once).
AccessFollowsPolicies ==
    [][call = None /\ call' # None =>
          \/ call'.sub = Bootstrap
          \/ \E b \in call'.billets : EntitledTo(call'.sub, b) /\ MayDo(b, call'.request)]_vars

\* The billets over which the first tables give anyone but root any power.
Delegated ==
    {b \in Billets : \E p \in InitialRows.policies :
        /\ p.st.effect = "permit" /\ p.st.action # "assumeBillet" /\ p.st.who \notin SystemBillets
        /\ Matches(p.st.resource, b, TagsOf(InitialRows, b))}

About(t, b) == <<b \in DOMAIN t.billets, TagsOf(t, b), {p \in t.policies : p.billet = b}>>

\* Delegation cannot be stretched: until root acts, whatever the holders of
\* delegated billets write, in whatever order and with whichever tokens, leaves
\* the rows of every billet outside the delegation alone (the handlers with
\* validate_resource_scope and is_authorized_admin).
DelegationContained ==
    ~rootUsed /\ Delegated \cap SystemBillets = {} =>
        \A b \in Billets \ Delegated : About(rows, b) = About(InitialRows, b)

\* The audit trail accounts for the tables: replaying the success events over the
\* first tables gives the billets and policies of now, statement by statement,
\* unless the client of a write has gone away, the read after an update has
\* failed, or the CLI has written (the handlers' audit events, delete's cascade).
TrailTellsTables == lost \/ Wrote \/ ledger = Told(rows)
=============================================================================
