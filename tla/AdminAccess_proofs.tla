-------------------------- MODULE AdminAccess_proofs --------------------------
(***************************************************************************)
(* Theorems about AdminAccess for any tables, requests, subjects and        *)
(* lifetimes: the audit trail accounts for the tables, access follows the   *)
(* policies with a bounded delay, and what is delegated stays what it was.  *)
(***************************************************************************)
EXTENDS AdminAccess, TLAPS

(***************************************************************************)
(* The inductive invariant.                                                 *)
(***************************************************************************)

Token(t) ==
    /\ t.sub \in Subjects \cup {Bootstrap}
    /\ t.billets \subseteq Billets
    /\ t.exp \in Nat

AccessTyped ==
    /\ clock \in Nat /\ syncedAt \in Nat
    /\ IsTables(rows)
    /\ synced # None => IsTables(synced)
    /\ cache = [s \in Subjects |-> cache[s]]
    /\ \A s \in Subjects : cache[s] # None =>
          cache[s].billets \subseteq Billets /\ cache[s].expires \in Nat
    /\ \A t \in tokens : Token(t)
    /\ call \in {None} \cup Calls
    /\ \A x \in past : x.at \in Nat
    /\ ledger = [billets |-> ledger.billets, policies |-> ledger.policies]

\* A write that shows in the tables and not yet in the trail is the one whose
\* event comes next.
TrailFollows ==
    \/ lost
    \/ ~Wrote /\ ledger = Told(rows)
    \/ Wrote /\ Replay(ledger, Success(call.request)) = Told(rows)

\* What was synced was in the tables then, and that is not long ago.
SyncedLately ==
    /\ syncedAt <= clock /\ clock <= syncedAt + sync_interval
    /\ [at |-> clock, rows |-> rows] \in past
    /\ synced # None => [at |-> syncedAt, rows |-> synced] \in past

\* Tables of P entitled s to b, as late as d before the time e.
Backed(P, s, b, d, e) ==
    \E x \in P : b \in assumable(x.rows, s) /\ x.at + d >= e

CacheBacked ==
    \A s \in Subjects : cache[s] # None =>
        /\ clock <= cache[s].expires
        /\ \A b \in cache[s].billets : Backed(past, s, b, sync_interval + cache_ttl, cache[s].expires)

\* A token of the service carries reserved names from the claims only, and
\* other names from the tables, until nobody takes it any more.
TokensBacked ==
    \A t \in tokens : t.sub # Bootstrap =>
        \A b \in t.billets :
            IF b \in Reserved THEN b \in Implicit[t.sub]
            ELSE ExpiredSignature(t) \/ Backed(past, t.sub, b, sync_interval + cache_ttl + token_ttl, t.exp)

\* Tables that only holders of delegated billets have written.
Contained(t) ==
    /\ \A b \in Billets \ Delegated : About(t, b) = About(InitialRows, b)
    /\ \A p \in t.policies : \/ p \in InitialRows.policies
                             \/ p.billet \in Delegated /\ p.st.resource = p.billet
    /\ \A b \in Billets : TagsOf(t, b) \cap Billets = {}

DelegationKept ==
    ~rootUsed /\ Delegated \cap SystemBillets = {} =>
        /\ Contained(rows)
        /\ synced # None => Contained(synced)
        /\ call # None /\ call.request.op \in Writes => call.request.billet \in Delegated

AccessInv ==
    /\ AccessTyped
    /\ TrailFollows
    /\ SyncedLately
    /\ CacheBacked
    /\ TokensBacked
    /\ DelegationKept

-----------------------------------------------------------------------------
(***************************************************************************)
(* Facts about the operators.                                               *)
(***************************************************************************)

LEMMA AssumableKnown ==
    ASSUME NEW t, IsTables(t), NEW s
    PROVE  assumable(t, s) \subseteq Billets
BY DEF IsTables, assumable

\* What is backed by some tables is backed by more.
LEMMA BackedGrows ==
    ASSUME NEW P, NEW Q, P \subseteq Q, NEW s, NEW b, NEW d, NEW e, Backed(P, s, b, d, e)
    PROVE  Backed(Q, s, b, d, e)
BY DEF Backed

\* As time passes, the tables that still matter are remembered.
LEMMA BackedStays ==
    ASSUME AccessTyped, Tick, NEW s, NEW b, NEW d \in Nat, NEW e \in Nat,
           Backed(past, s, b, d, e), e + Window > clock + d, Window \in Nat
    PROVE  Backed(past', s, b, d, e)
<1>1. PICK x \in past : b \in assumable(x.rows, s) /\ x.at + d >= e
  BY DEF Backed
<1>2. x.at + Window > clock
  BY <1>1 DEF AccessTyped
<1>3. x \in past'
  BY <1>2 DEF Tick
<1> QED BY <1>1, <1>3 DEF Backed

LEMMA WindowParts ==
    /\ token_ttl \in Nat /\ cache_ttl \in Nat /\ sync_interval \in Nat /\ Leeway \in Nat
    /\ CliTtl \in Nat /\ Window \in Nat
    /\ Window = sync_interval + cache_ttl + token_ttl + Leeway
BY AccessAssumption DEF Window

\* The first tables are contained in the delegation they define.
LEMMA InitialContained == Contained(InitialRows)
<1>1. \A b \in Billets : TagsOf(InitialRows, b) \cap Billets = {}
  BY AccessAssumption DEF TagsOf
<1> QED BY <1>1 DEF Contained

LEMMA InitEstablishesInv ==
    ASSUME Init
    PROVE  AccessInv
<1>1. AccessTyped
  BY AccessAssumption DEF Init, AccessTyped, Told
<1>2. TrailFollows
  BY DEF Init, TrailFollows, Wrote
<1>3. SyncedLately
  BY WindowParts DEF Init, SyncedLately
<1>4. CacheBacked /\ TokensBacked
  BY DEF Init, CacheBacked, TokensBacked
<1>5. DelegationKept
  BY InitialContained DEF Init, DelegationKept
<1> QED BY <1>1, <1>2, <1>3, <1>4, <1>5 DEF AccessInv

-----------------------------------------------------------------------------
(***************************************************************************)
(* Time, syncs and tokens.                                                  *)
(***************************************************************************)

LEMMA TickKeepsInv ==
    ASSUME AccessInv, Tick
    PROVE  AccessInv'
<1>0. /\ clock' = clock + 1 /\ clock < syncedAt + sync_interval
      /\ UNCHANGED <<rows, synced, syncedAt, tokens, call, rootUsed, changes, ledger, lost>>
  BY DEF Tick
<1>1. \A s \in Subjects : cache'[s] = IF is_expired(cache[s]) THEN None ELSE cache[s]
  BY DEF Tick
<1>2. AccessTyped'
  <2>1. cache' = [s \in Subjects |-> cache'[s]]
    BY DEF Tick
  <2>2. \A s \in Subjects : cache'[s] # None =>
          cache'[s].billets \subseteq Billets /\ cache'[s].expires \in Nat
    BY <1>1 DEF AccessInv, AccessTyped
  <2>3. \A x \in past' : x.at \in Nat
    BY DEF Tick, AccessInv, AccessTyped
  <2> QED BY <1>0, <2>1, <2>2, <2>3 DEF AccessInv, AccessTyped
<1>3. TrailFollows'
  BY <1>0 DEF AccessInv, TrailFollows, Wrote, Told
<1>4. SyncedLately'
  <2>1. [at |-> clock', rows |-> rows'] \in past'
    BY <1>0 DEF Tick
  <2>2. synced # None => [at |-> syncedAt, rows |-> synced] \in past'
    <3>1. syncedAt + Window > clock
      BY <1>0, WindowParts DEF AccessInv, AccessTyped
    <3> QED BY <3>1 DEF Tick, AccessInv, SyncedLately
  <2>3. syncedAt <= clock' /\ clock' <= syncedAt + sync_interval
    BY <1>0, WindowParts DEF AccessInv, AccessTyped, SyncedLately
  <2> QED BY <1>0, <2>1, <2>2, <2>3 DEF SyncedLately
<1>5. CacheBacked'
  <2> SUFFICES ASSUME NEW s \in Subjects, cache'[s] # None
               PROVE  /\ clock' <= cache'[s].expires
                      /\ \A b \in cache'[s].billets :
                            Backed(past', s, b, sync_interval + cache_ttl, cache'[s].expires)
    BY DEF CacheBacked, Backed
  <2>1. cache'[s] = cache[s] /\ cache[s] # None /\ ~is_expired(cache[s])
    BY <1>1
  <2>2. cache[s].expires \in Nat /\ clock + 1 < cache[s].expires
    BY <2>1 DEF is_expired, AccessInv, AccessTyped
  <2>3. /\ sync_interval + cache_ttl \in Nat /\ Window \in Nat
        /\ cache[s].expires + Window > clock + (sync_interval + cache_ttl)
    BY <2>2, WindowParts DEF AccessInv, AccessTyped
  <2>4. ASSUME NEW b \in cache[s].billets
        PROVE  Backed(past', s, b, sync_interval + cache_ttl, cache[s].expires)
    <3>1. Backed(past, s, b, sync_interval + cache_ttl, cache[s].expires)
      BY <2>1 DEF AccessInv, CacheBacked
    <3> QED BY <2>2, <2>3, <3>1, BackedStays DEF AccessInv
  <2> QED BY <1>0, <2>1, <2>2, <2>4 DEF AccessInv, AccessTyped
<1>6. TokensBacked'
  <2> SUFFICES ASSUME NEW t \in tokens, t.sub # Bootstrap, NEW b \in t.billets,
                      b \notin Reserved, ~ExpiredSignature(t)'
               PROVE  Backed(past', t.sub, b, sync_interval + cache_ttl + token_ttl, t.exp)
    BY <1>0 DEF AccessInv, TokensBacked, Backed, Reserved
  <2>1. t.exp \in Nat /\ clock + 1 <= t.exp + Leeway
    BY <1>0, WindowParts DEF AccessInv, AccessTyped, Token, ExpiredSignature
  <2>2. ~ExpiredSignature(t)
    BY <2>1, WindowParts DEF AccessInv, AccessTyped, ExpiredSignature
  <2>3. Backed(past, t.sub, b, sync_interval + cache_ttl + token_ttl, t.exp)
    BY <2>2 DEF AccessInv, TokensBacked
  <2>4. /\ sync_interval + cache_ttl + token_ttl \in Nat /\ Window \in Nat
        /\ t.exp + Window > clock + (sync_interval + cache_ttl + token_ttl)
    BY <2>1, WindowParts DEF AccessInv, AccessTyped
  <2> QED BY <2>1, <2>3, <2>4, BackedStays DEF AccessInv
<1>7. DelegationKept'
  BY <1>0 DEF AccessInv, DelegationKept
<1> QED BY <1>2, <1>3, <1>4, <1>5, <1>6, <1>7 DEF AccessInv

LEMMA SyncKeepsInv ==
    ASSUME AccessInv, Sync
    PROVE  AccessInv'
<1>0. /\ synced' = rows /\ syncedAt' = clock
      /\ UNCHANGED <<clock, rows, cache, tokens, call, past, rootUsed, changes, ledger, lost>>
  BY DEF Sync
<1>1. AccessTyped'
  BY <1>0 DEF AccessInv, AccessTyped
<1>2. TrailFollows'
  BY <1>0 DEF AccessInv, TrailFollows, Wrote
<1>3. SyncedLately'
  BY <1>0, WindowParts DEF AccessInv, SyncedLately, AccessTyped
<1>4. CacheBacked' /\ TokensBacked'
  BY <1>0 DEF AccessInv, CacheBacked, TokensBacked, ExpiredSignature
<1>5. DelegationKept'
  BY <1>0 DEF AccessInv, DelegationKept
<1> QED BY <1>1, <1>2, <1>3, <1>4, <1>5 DEF AccessInv

\* A token is handed out for billets that the tables back.
LEMMA HandKeepsTokens ==
    ASSUME AccessInv, NEW sub \in Subjects \cup {Bootstrap}, NEW bs \in SUBSET Billets,
           NEW ttl \in Nat, Hand(sub, bs, ttl), UNCHANGED <<clock, past>>,
           sub # Bootstrap =>
               \A b \in bs :
                  IF b \in Reserved THEN b \in Implicit[sub]
                  ELSE Backed(past, sub, b, sync_interval + cache_ttl + token_ttl, clock + ttl)
    PROVE  TokensBacked' /\ \A t \in tokens' : Token(t)
<1> DEFINE new == [sub |-> sub, billets |-> bs, exp |-> clock + ttl, genuine |-> TRUE]
<1>1. PICK kept \in SUBSET tokens : tokens' = kept \cup {new}
  BY DEF Hand
<1>2. new.sub = sub /\ new.billets = bs /\ new.exp = clock + ttl /\ new.exp \in Nat
  BY DEF AccessInv, AccessTyped
<1> HIDE DEF new
<1>3. \A t \in tokens' : Token(t)
  BY <1>1, <1>2 DEF Token, AccessInv, AccessTyped
<1>4. ASSUME NEW t \in tokens', t.sub # Bootstrap, NEW b \in t.billets
      PROVE  IF b \in Reserved THEN b \in Implicit[t.sub]
             ELSE ExpiredSignature(t)'
                  \/ Backed(past', t.sub, b, sync_interval + cache_ttl + token_ttl, t.exp)
  <2>1. CASE t = new
    BY <1>2, <1>4, <2>1
  <2>2. CASE t \in tokens
    BY <1>4, <2>2 DEF AccessInv, TokensBacked, ExpiredSignature
  <2> QED BY <1>1, <2>1, <2>2
<1>5. TokensBacked'
  BY <1>4 DEF TokensBacked
<1> QED BY <1>3, <1>5

\* What hands out a token leaves the rest of the invariant alone.
LEMMA HandedKeepsInv ==
    ASSUME AccessInv, TokensBacked', CacheBacked',
           \A t \in tokens' : Token(t),
           cache' = [s \in Subjects |-> cache'[s]],
           \A s \in Subjects : cache'[s] # None =>
              cache'[s].billets \subseteq Billets /\ cache'[s].expires \in Nat,
           UNCHANGED <<clock, rows, synced, syncedAt, call, past, rootUsed, changes, ledger, lost>>
    PROVE  AccessInv'
<1>1. AccessTyped'
  BY DEF AccessInv, AccessTyped
<1>2. TrailFollows' /\ SyncedLately'
  BY DEF AccessInv, TrailFollows, SyncedLately, Wrote
<1>3. DelegationKept'
  BY DEF AccessInv, DelegationKept
<1> QED BY <1>1, <1>2, <1>3 DEF AccessInv

\* A token carries the reserved names of its identity and no other, and all
\* other names come from the tables.
LEMMA TokenBilletsBacked ==
    ASSUME NEW s \in Subjects, NEW cedar \in SUBSET Billets, NEW P, NEW d, NEW e,
           \A b \in cedar : Backed(P, s, b, d, e)
    PROVE  /\ TokenBillets(s, cedar) \in SUBSET Billets
           /\ \A b \in TokenBillets(s, cedar) :
                 IF b \in Reserved THEN b \in Implicit[s] ELSE Backed(P, s, b, d, e)
<1>1. Implicit[s] \subseteq Reserved /\ Implicit[s] \subseteq Billets
  BY AccessAssumption DEF Reserved
<1> QED BY <1>1 DEF TokenBillets

LEMMA IssueCachedKeepsInv ==
    ASSUME AccessInv, NEW s \in Subjects, IssueCached(s)
    PROVE  AccessInv'
<1> DEFINE d == sync_interval + cache_ttl + token_ttl
<1>0. /\ cache[s] # None /\ Hand(s, TokenBillets(s, cache[s].billets), token_ttl)
      /\ UNCHANGED <<clock, rows, synced, syncedAt, cache, call, past, rootUsed, changes, ledger, lost>>
  BY DEF IssueCached
<1>1. /\ cache[s].billets \in SUBSET Billets /\ cache[s].expires \in Nat
      /\ clock <= cache[s].expires
  BY <1>0 DEF AccessInv, AccessTyped, CacheBacked
<1>2. ASSUME NEW b \in cache[s].billets
      PROVE  Backed(past, s, b, d, clock + token_ttl)
  <2>1. PICK x \in past : /\ b \in assumable(x.rows, s)
                          /\ x.at + (sync_interval + cache_ttl) >= cache[s].expires
    BY <1>0 DEF AccessInv, CacheBacked, Backed
  <2>2. x.at + d >= clock + token_ttl
    BY <1>1, <2>1, WindowParts DEF AccessInv, AccessTyped
  <2> QED BY <2>1, <2>2 DEF Backed
<1>3. /\ TokenBillets(s, cache[s].billets) \in SUBSET Billets
      /\ \A b \in TokenBillets(s, cache[s].billets) :
            IF b \in Reserved THEN b \in Implicit[s] ELSE Backed(past, s, b, d, clock + token_ttl)
  BY <1>1, <1>2, TokenBilletsBacked
<1>4. TokensBacked' /\ \A t \in tokens' : Token(t)
  BY <1>0, <1>3, WindowParts, HandKeepsTokens
<1>5. CacheBacked'
  BY <1>0 DEF AccessInv, CacheBacked
<1>6. /\ cache' = [u \in Subjects |-> cache'[u]]
      /\ \A u \in Subjects : cache'[u] # None =>
              cache'[u].billets \subseteq Billets /\ cache'[u].expires \in Nat
  BY <1>0 DEF AccessInv, AccessTyped
<1> QED BY <1>0, <1>4, <1>5, <1>6, HandedKeepsInv

LEMMA IssueKeepsInv ==
    ASSUME AccessInv, NEW s \in Subjects, Issue(s)
    PROVE  AccessInv'
<1> DEFINE new == [billets |-> assumable(synced, s), expires |-> clock + cache_ttl]
           d == sync_interval + cache_ttl + token_ttl
<1>0. /\ synced # None /\ Hand(s, TokenBillets(s, assumable(synced, s)), token_ttl)
      /\ cache' = [cache EXCEPT ![s] = new]
      /\ UNCHANGED <<clock, rows, synced, syncedAt, call, past, rootUsed, changes, ledger, lost>>
  BY DEF Issue
<1>1. assumable(synced, s) \in SUBSET Billets
  BY <1>0, AssumableKnown DEF AccessInv, AccessTyped
<1>2. PICK x \in past : x.rows = synced /\ x.at = syncedAt
  BY <1>0 DEF AccessInv, SyncedLately
<1>3. x.at + sync_interval >= clock
  BY <1>2 DEF AccessInv, SyncedLately
<1>4. ASSUME NEW b \in assumable(synced, s)
      PROVE  /\ Backed(past, s, b, d, clock + token_ttl)
             /\ Backed(past, s, b, sync_interval + cache_ttl, clock + cache_ttl)
  <2>1. x.at + d >= clock + token_ttl /\ x.at + (sync_interval + cache_ttl) >= clock + cache_ttl
    BY <1>3, WindowParts DEF AccessInv, AccessTyped
  <2> QED BY <1>2, <2>1 DEF Backed
<1>5. /\ TokenBillets(s, assumable(synced, s)) \in SUBSET Billets
      /\ \A b \in TokenBillets(s, assumable(synced, s)) :
            IF b \in Reserved THEN b \in Implicit[s] ELSE Backed(past, s, b, d, clock + token_ttl)
  BY <1>1, <1>4, TokenBilletsBacked
<1>6. TokensBacked' /\ \A t \in tokens' : Token(t)
  BY <1>0, <1>5, WindowParts, HandKeepsTokens
<1>7. /\ new.billets = assumable(synced, s) /\ new.expires = clock + cache_ttl
      /\ new.expires \in Nat /\ clock <= new.expires
  BY WindowParts DEF AccessInv, AccessTyped
<1> HIDE DEF new
<1>8. /\ cache' = [u \in Subjects |-> cache'[u]]
      /\ \A u \in Subjects : cache'[u] = IF u = s THEN new ELSE cache[u]
  BY <1>0 DEF AccessInv, AccessTyped
<1>9. \A u \in Subjects : cache'[u] # None =>
              cache'[u].billets \subseteq Billets /\ cache'[u].expires \in Nat
  BY <1>1, <1>7, <1>8 DEF AccessInv, AccessTyped
<1>a. CacheBacked'
  <2> SUFFICES ASSUME NEW u \in Subjects, cache'[u] # None
               PROVE  /\ clock <= cache'[u].expires
                      /\ \A b \in cache'[u].billets :
                            Backed(past, u, b, sync_interval + cache_ttl, cache'[u].expires)
    BY <1>0 DEF CacheBacked
  <2>1. CASE u = s
    BY <1>4, <1>7, <1>8, <2>1
  <2>2. CASE u # s
    BY <1>8, <2>2 DEF AccessInv, CacheBacked
  <2> QED BY <2>1, <2>2
<1> QED BY <1>0, <1>6, <1>8, <1>9, <1>a, HandedKeepsInv

LEMMA IssueTokenKeepsInv ==
    ASSUME AccessInv, IssueToken
    PROVE  AccessInv'
<1>0. /\ Hand(Bootstrap, {AdminBillet}, CliTtl)
      /\ UNCHANGED <<clock, rows, synced, syncedAt, cache, call, past, rootUsed, changes, ledger, lost>>
  BY DEF IssueToken
<1>1. TokensBacked' /\ \A t \in tokens' : Token(t)
  BY <1>0, WindowParts, AccessAssumption, HandKeepsTokens
<1>2. CacheBacked'
  BY <1>0 DEF AccessInv, CacheBacked
<1>3. /\ cache' = [u \in Subjects |-> cache'[u]]
      /\ \A u \in Subjects : cache'[u] # None =>
              cache'[u].billets \subseteq Billets /\ cache'[u].expires \in Nat
  BY <1>0 DEF AccessInv, AccessTyped
<1> QED BY <1>0, <1>1, <1>2, <1>3, HandedKeepsInv

-----------------------------------------------------------------------------
(***************************************************************************)
(* The handlers.                                                            *)
(***************************************************************************)

\* Whoever may change a billet, without being root, holds a delegation over it:
\* a permit of the first tables, or one that a delegate wrote, and that one is
\* for the delegate's own billet.
LEMMA AllowedIsDelegated ==
    ASSUME NEW t, Contained(t), NEW p \in Billets \ SystemBillets, NEW r \in Billets,
           NEW action, action # "assumeBillet", Allowed(t, action, p, r)
    PROVE  r \in Delegated
<1>1. PICK q \in t.policies : /\ q.st.effect = "permit"
                              /\ q.st.action \in {Any, action}
                              /\ q.st.who \in {Any, p} \cup TagsOf(t, p)
                              /\ q.st.resource \in {Any, r} \cup TagsOf(t, r)
  BY DEF Allowed, Applies, Matches
<1>2. Any \notin Billets /\ Any # "assumeBillet" /\ SystemBillets \subseteq Billets
  BY AccessAssumption
<1>3. TagsOf(t, p) \cap Billets = {} /\ TagsOf(t, r) \cap Billets = {}
  BY DEF Contained
<1>4. CASE q \in InitialRows.policies
  <2> SUFFICES ASSUME r \notin Delegated
               PROVE  FALSE
    OBVIOUS
  <2>1. TagsOf(t, r) = TagsOf(InitialRows, r)
    BY DEF Contained, About
  <2>2. Matches(q.st.resource, r, TagsOf(InitialRows, r))
    BY <1>1, <2>1 DEF Matches
  <2>3. q.st.action # "assumeBillet" /\ q.st.who \notin SystemBillets
    BY <1>1, <1>2, <1>3
  <2> QED BY <1>1, <1>4, <2>2, <2>3 DEF Delegated
<1>5. CASE q.billet \in Delegated /\ q.st.resource = q.billet
  <2>1. q.st.resource \in Billets
    BY <1>5 DEF Delegated
  <2> QED BY <1>1, <1>2, <1>3, <1>5, <2>1
<1> QED BY <1>1, <1>4, <1>5 DEF Contained

\* A request is admitted with a token that was handed out and is good.
LEMMA AuthenticatedToken ==
    ASSUME NEW q \in Requests, NEW h \in Headers, authenticate(h, q)
    PROVE  /\ h.token \in tokens /\ ~ExpiredSignature(h.token)
           /\ is_authorized_admin(synced, h.token.billets, AuthAction(q.op), AuthResource(q))
<1>1. /\ extract_bearer_token(h) # None
      /\ Verified(extract_bearer_token(h)) /\ ~ExpiredSignature(extract_bearer_token(h))
      /\ is_authorized_admin(synced, extract_bearer_token(h).billets, AuthAction(q.op), AuthResource(q))
  BY DEF authenticate
<1>2. h.scheme = "Bearer" /\ extract_bearer_token(h) = h.token
  BY <1>1 DEF extract_bearer_token
<1>3. h.token \in tokens
  BY <1>1, <1>2 DEF Headers, Verified
<1> QED BY <1>1, <1>2, <1>3

LEMMA AdmitKeepsInv ==
    ASSUME AccessInv, NEW q \in Requests, NEW h \in Headers, Admit(q, h)
    PROVE  AccessInv'
<1> DEFINE c == [at |-> "operate", request |-> q, sub |-> h.token.sub, billets |-> h.token.billets]
<1>0. /\ call = None /\ authenticate(h, q) /\ call' = c
      /\ rootUsed' = (rootUsed \/ h.token.billets \cap SystemBillets # {})
      /\ UNCHANGED <<clock, rows, synced, syncedAt, cache, tokens, past, changes, ledger, lost>>
  BY DEF Admit
<1>1. /\ h.token \in tokens
      /\ is_authorized_admin(synced, h.token.billets, AuthAction(q.op), AuthResource(q))
  BY <1>0, AuthenticatedToken
<1>2. h.token.sub \in Subjects \cup {Bootstrap} /\ h.token.billets \subseteq Billets
  BY <1>1 DEF AccessInv, AccessTyped, Token
<1>3. c \in Calls
  BY <1>2 DEF Calls
<1>4. c.at = "operate" /\ c.request = q
  OBVIOUS
<1> HIDE DEF c
<1>5. AccessTyped'
  BY <1>0, <1>3 DEF AccessInv, AccessTyped
<1>6. TrailFollows'
  BY <1>0, <1>4 DEF AccessInv, TrailFollows, Wrote
<1>7. SyncedLately' /\ CacheBacked' /\ TokensBacked'
  BY <1>0 DEF AccessInv, SyncedLately, CacheBacked, TokensBacked, ExpiredSignature
<1>8. DelegationKept'
  <2> SUFFICES ASSUME ~rootUsed', Delegated \cap SystemBillets = {}
               PROVE  /\ Contained(rows) /\ (synced # None => Contained(synced))
                      /\ q.op \in Writes => q.billet \in Delegated
    BY <1>0, <1>4 DEF DelegationKept
  <2>1. Contained(rows) /\ (synced # None => Contained(synced))
    BY <1>0 DEF AccessInv, DelegationKept
  <2>2. ASSUME q.op \in Writes
        PROVE  q.billet \in Delegated
    <3>1. AuthAction(q.op) = q.op /\ AuthResource(q) = q.billet /\ q.op # "assumeBillet"
      BY <2>2 DEF Writes, AuthAction, AuthResource
    <3>2. PICK p \in h.token.billets : synced # None /\ Allowed(synced, q.op, p, q.billet)
      BY <1>0, <1>1, <3>1 DEF is_authorized_admin
    <3>3. p \in Billets \ SystemBillets /\ q.billet \in Billets
      BY <1>0, <1>2, <3>2, AccessAssumption
    <3> QED BY <2>1, <3>1, <3>2, <3>3, AllowedIsDelegated
  <2> QED BY <2>1, <2>2
<1> QED BY <1>5, <1>6, <1>7, <1>8 DEF AccessInv

\* Answers, failures and departures: the tables stay as they are.
LEMMA AnswersKeepInv ==
    ASSUME AccessInv, Answer \/ Reread \/ Succeed \/ StoreFails \/ Disconnect
    PROVE  AccessInv'
<1>0. /\ call # None /\ call \in Calls
      /\ UNCHANGED <<clock, rows, synced, syncedAt, cache, tokens, past, rootUsed, changes>>
  BY DEF Answer, Reread, Succeed, StoreFails, Disconnect, AccessInv, AccessTyped
<1>1. call' = None \/ (call.at = "reread" /\ call' = [call EXCEPT !.at = "answer"])
  BY DEF Answer, Reread, Succeed, StoreFails, Disconnect
<1>2. call' \in {None} \cup Calls /\ (call' # None => call'.request = call.request)
  BY <1>0, <1>1 DEF Calls
<1>3. ledger' = [billets |-> ledger'.billets, policies |-> ledger'.policies] /\ TrailFollows'
  <2>1. CASE Answer
    BY <2>1 DEF Answer, Wrote, TrailFollows, AccessInv, AccessTyped
  <2>2. CASE Reread
    <3>1. call'.at = "answer" /\ call'.request = call.request /\ call' # None
      BY <1>0, <2>2, AccessAssumption DEF Reread, Calls
    <3> QED BY <2>2, <3>1 DEF Reread, Wrote, TrailFollows, AccessInv, AccessTyped, Success, Target
  <2>3. CASE Succeed
    <3>1. Wrote /\ ledger' = Replay(ledger, Success(call.request)) /\ call' = None
      BY <2>3 DEF Succeed, Wrote
    <3>2. lost \/ ledger' = Told(rows)
      BY <3>1 DEF AccessInv, TrailFollows
    <3>3. TrailFollows'
      BY <1>0, <2>3, <3>1, <3>2 DEF TrailFollows, Wrote, Succeed, Told
    <3>4. ledger' = [billets |-> ledger'.billets, policies |-> ledger'.policies]
      <4> DEFINE e == Success(call.request)
      <4>1. ledger = [billets |-> ledger.billets, policies |-> ledger.policies]
        BY DEF AccessInv, AccessTyped
      <4> HIDE DEF e
      <4>2. PICK bs, ps : Replay(ledger, e) = [billets |-> bs, policies |-> ps]
        BY <4>1 DEF Replay
      <4> QED BY <3>1, <4>2 DEF e
    <3> QED BY <3>3, <3>4
  <2>4. CASE StoreFails \/ Disconnect
    BY <2>4 DEF StoreFails, Disconnect, Wrote, TrailFollows, AccessInv, AccessTyped, Told
  <2> QED BY <2>1, <2>2, <2>3, <2>4
<1>4. AccessTyped'
  BY <1>0, <1>2, <1>3 DEF AccessInv, AccessTyped
<1>5. SyncedLately' /\ CacheBacked' /\ TokensBacked'
  BY <1>0 DEF AccessInv, SyncedLately, CacheBacked, TokensBacked, ExpiredSignature
<1>6. DelegationKept'
  BY <1>0, <1>2 DEF AccessInv, DelegationKept
<1> QED BY <1>3, <1>4, <1>5, <1>6 DEF AccessInv

-----------------------------------------------------------------------------
(***************************************************************************)
(* Writes.                                                                  *)
(***************************************************************************)

\* What a write does to the tables, field by field.
LEMMA WrittenTables ==
    ASSUME IsTables(rows), NEW q \in Requests, q.op \in Writes
    PROVE  /\ IsTables(Written(q))
           /\ Told(Written(q)) = Replay(Told(rows), Success(q))
<1>0. /\ rows = [billets |-> rows.billets, policies |-> rows.policies]
      /\ DOMAIN rows.billets \subseteq Billets /\ q.billet \in Billets
  BY AccessAssumption DEF IsTables
<1>1. CASE q.op \in {"createBillet", "updateBillet"}
  <2> DEFINE B == [b \in DOMAIN rows.billets \cup {q.billet} |->
                     IF b = q.billet THEN q.tags ELSE rows.billets[b]]
  <2>1. Written(q) = [billets |-> B, policies |-> rows.policies]
    BY <1>0, <1>1 DEF Written
  <2>2. IsTables(Written(q))
    BY <1>0, <2>1 DEF IsTables
  <2>3. Told(Written(q)) = [billets |-> DOMAIN rows.billets \cup {q.billet}, policies |-> rows.policies]
    BY <2>1 DEF Told
  <2> QED BY <1>1, <2>2, <2>3 DEF Told, Replay, Success, Target
<1>2. CASE q.op = "deleteBillet"
  <2> DEFINE B == [b \in DOMAIN rows.billets \ {q.billet} |-> rows.billets[b]]
             P == {p \in rows.policies : p.billet # q.billet}
  <2>1. Written(q) = [billets |-> B, policies |-> P]
    BY <1>2 DEF Written
  <2>2. IsTables(Written(q))
    BY <1>0, <2>1 DEF IsTables
  <2>3. Told(Written(q)) = [billets |-> DOMAIN rows.billets \ {q.billet}, policies |-> P]
    BY <2>1 DEF Told
  <2> QED BY <1>2, <2>2, <2>3 DEF Told, Replay, Success, Target
<1>3. CASE q.op \in {"createPolicy", "updatePolicy"}
  <2> DEFINE P == (rows.policies \ Rows(q.billet, q.id))
                    \cup {[billet |-> q.billet, id |-> q.id, st |-> q.st]}
  <2>1. Written(q) = [billets |-> rows.billets, policies |-> P]
    BY <1>0, <1>3 DEF Written
  <2>2. IsTables(Written(q))
    BY <2>1 DEF IsTables
  <2>3. Told(Written(q)) = [billets |-> DOMAIN rows.billets, policies |-> P]
    BY <2>1 DEF Told
  <2>4. rows.policies \ Rows(q.billet, q.id) = {p \in rows.policies : <<p.billet, p.id>> # Target(q)}
    BY DEF Rows, Target
  <2> QED BY <1>3, <2>2, <2>3, <2>4 DEF Told, Replay, Success, Target
<1>4. CASE q.op = "deletePolicy"
  <2> DEFINE P == rows.policies \ Rows(q.billet, q.id)
  <2>1. Written(q) = [billets |-> rows.billets, policies |-> P]
    BY <1>0, <1>4 DEF Written
  <2>2. IsTables(Written(q))
    BY <2>1 DEF IsTables
  <2>3. Told(Written(q)) = [billets |-> DOMAIN rows.billets, policies |-> P]
    BY <2>1 DEF Told
  <2>4. rows.policies \ Rows(q.billet, q.id) = {p \in rows.policies : <<p.billet, p.id>> # Target(q)}
    BY DEF Rows, Target
  <2> QED BY <1>4, <2>2, <2>3, <2>4 DEF Told, Replay, Success, Target
<1> QED BY <1>1, <1>2, <1>3, <1>4 DEF Writes

\* A write by a delegate touches a delegated billet only, and a policy it writes
\* names that billet as its resource.
LEMMA WrittenContained ==
    ASSUME IsTables(rows), Contained(rows), NEW q \in Requests, q.op \in Writes,
           q.billet \in Delegated, Delegated \cap SystemBillets = {}, ~TurnedDown(q)
    PROVE  Contained(Written(q))
<1>0. /\ rows = [billets |-> rows.billets, policies |-> rows.policies]
      /\ q.billet \in Billets /\ q.billet \notin SystemBillets
  BY AccessAssumption DEF IsTables
<1> DEFINE t == Written(q)
<1>1. ASSUME q.op \in {"createBillet", "updateBillet"}
      PROVE  /\ t.policies = rows.policies
             /\ \A b \in Billets : b # q.billet =>
                  (b \in DOMAIN t.billets <=> b \in DOMAIN rows.billets) /\ TagsOf(t, b) = TagsOf(rows, b)
             /\ TagsOf(t, q.billet) \cap Billets = {}
  <2> DEFINE B == [b \in DOMAIN rows.billets \cup {q.billet} |->
                     IF b = q.billet THEN q.tags ELSE rows.billets[b]]
  <2>1. t = [billets |-> B, policies |-> rows.policies]
    BY <1>0, <1>1 DEF Written
  <2>2. q.tags \cap Billets = {}
    BY <1>1, AccessAssumption DEF TurnedDown, Invalid, validate_tags
  <2> QED BY <2>1, <2>2 DEF TagsOf
<1>2. ASSUME q.op = "deleteBillet"
      PROVE  /\ t.policies = {p \in rows.policies : p.billet # q.billet}
             /\ \A b \in Billets : b # q.billet =>
                  (b \in DOMAIN t.billets <=> b \in DOMAIN rows.billets) /\ TagsOf(t, b) = TagsOf(rows, b)
             /\ TagsOf(t, q.billet) \cap Billets = {}
  <2> DEFINE B == [b \in DOMAIN rows.billets \ {q.billet} |-> rows.billets[b]]
  <2>1. t = [billets |-> B, policies |-> {p \in rows.policies : p.billet # q.billet}]
    BY <1>2 DEF Written
  <2> QED BY <2>1 DEF TagsOf
<1>3. ASSUME q.op \in {"createPolicy", "updatePolicy"}
      PROVE  /\ t.billets = rows.billets
             /\ t.policies = (rows.policies \ Rows(q.billet, q.id))
                               \cup {[billet |-> q.billet, id |-> q.id, st |-> q.st]}
             /\ q.st.resource = q.billet
  <2>1. t = [billets |-> rows.billets,
             policies |-> (rows.policies \ Rows(q.billet, q.id))
                            \cup {[billet |-> q.billet, id |-> q.id, st |-> q.st]}]
    BY <1>0, <1>3 DEF Written
  <2>2. q.st.resource = q.billet
    BY <1>0, <1>3 DEF TurnedDown, Invalid, ValidStatement, validate_resource_scope
  <2> QED BY <2>1, <2>2
<1>4. ASSUME q.op = "deletePolicy"
      PROVE  t.billets = rows.billets /\ t.policies = rows.policies \ Rows(q.billet, q.id)
  <2>1. t = [billets |-> rows.billets, policies |-> rows.policies \ Rows(q.billet, q.id)]
    BY <1>0, <1>4 DEF Written
  <2> QED BY <2>1
<1> HIDE DEF t
<1>5. \A b \in Billets : b # q.billet =>
         (b \in DOMAIN t.billets <=> b \in DOMAIN rows.billets) /\ TagsOf(t, b) = TagsOf(rows, b)
  BY <1>1, <1>2, <1>3, <1>4 DEF Writes, TagsOf
<1>6. TagsOf(t, q.billet) \cap Billets = {}
  BY <1>0, <1>1, <1>2, <1>3, <1>4 DEF Writes, TagsOf, Contained
<1>7. ASSUME NEW b \in Billets \ Delegated
      PROVE  About(t, b) = About(InitialRows, b)
  <2>1. {p \in t.policies : p.billet = b} = {p \in rows.policies : p.billet = b}
    <3>0. b # q.billet
      OBVIOUS
    <3> DEFINE r == [billet |-> q.billet, id |-> q.id, st |-> q.st]
    <3>1. r.billet # b
      BY <3>0
    <3> HIDE DEF r
    <3>2. \A p : p \in t.policies /\ p.billet = b <=> p \in rows.policies /\ p.billet = b
      BY <1>1, <1>2, <1>3, <1>4, <3>0, <3>1 DEF Writes, Rows, r
    <3> QED BY <3>2
  <2>2. About(t, b) = About(rows, b)
    BY <1>5, <2>1 DEF About
  <2> QED BY <2>2 DEF Contained
<1>8. ASSUME NEW p \in t.policies
      PROVE  p \in InitialRows.policies \/ (p.billet \in Delegated /\ p.st.resource = p.billet)
  <2> DEFINE r == [billet |-> q.billet, id |-> q.id, st |-> q.st]
  <2>1. r.billet = q.billet /\ r.st = q.st
    OBVIOUS
  <2>2. p \in rows.policies \/ (p = r /\ q.st.resource = q.billet)
    BY <1>1, <1>2, <1>3, <1>4 DEF Writes
  <2> HIDE DEF r
  <2> QED BY <2>1, <2>2 DEF Contained
<1>9. \A b \in Billets : TagsOf(t, b) \cap Billets = {}
  BY <1>5, <1>6 DEF Contained
<1> QED BY <1>7, <1>8, <1>9 DEF Contained, t

\* A change of the tables is remembered, and takes nothing back from anybody.
LEMMA ChangeKeepsBacking ==
    ASSUME AccessInv, NEW t, Change(t), UNCHANGED <<clock, synced, syncedAt, cache, tokens>>
    PROVE  /\ SyncedLately' /\ CacheBacked' /\ TokensBacked'
           /\ \A x \in past' : x.at \in Nat
<1>1. past' = past \cup {[at |-> clock, rows |-> t]} /\ rows' = t
  BY DEF Change, At
<1>2. past \subseteq past' /\ [at |-> clock, rows |-> rows'] \in past'
  BY <1>1
<1>3. SyncedLately'
  BY <1>2 DEF AccessInv, SyncedLately
<1>4. CacheBacked'
  BY <1>2, BackedGrows DEF AccessInv, CacheBacked
<1>5. TokensBacked'
  BY <1>2, BackedGrows DEF AccessInv, TokensBacked, ExpiredSignature
<1>6. \A x \in past' : x.at \in Nat
  BY <1>1 DEF AccessInv, AccessTyped
<1> QED BY <1>3, <1>4, <1>5, <1>6

LEMMA WriteKeepsInv ==
    ASSUME AccessInv, Write
    PROVE  AccessInv'
<1> DEFINE q == call.request
<1>0. /\ call # None /\ call.at = "operate" /\ q.op \in Writes /\ ~TurnedDown(q)
      /\ Change(Written(q))
      /\ UNCHANGED <<clock, synced, syncedAt, cache, tokens, rootUsed, ledger, lost>>
  BY DEF Write, Operating
<1>1. call \in Calls /\ q \in Requests
  BY <1>0 DEF AccessInv, AccessTyped, Calls
<1>2. /\ call' \in Calls /\ call'.request = q /\ call'.at \in {"reread", "answer"}
      /\ call' # None
  <2>1. call' = [call EXCEPT !.at = IF q.op = "updatePolicy" THEN "reread" ELSE "answer"]
    BY DEF Write
  <2>2. call' \in Calls /\ call'.request = q /\ call'.at \in {"reread", "answer"}
    BY <1>1, <2>1 DEF Calls
  <2> QED BY <2>2, AccessAssumption
<1>3. /\ IsTables(Written(q)) /\ Told(Written(q)) = Replay(Told(rows), Success(q))
      /\ rows' = Written(q)
  BY <1>0, <1>1, WrittenTables DEF AccessInv, AccessTyped, Change
<1>4. SyncedLately' /\ CacheBacked' /\ TokensBacked' /\ \A x \in past' : x.at \in Nat
  BY <1>0, ChangeKeepsBacking
<1>5. AccessTyped'
  BY <1>0, <1>2, <1>3, <1>4 DEF AccessInv, AccessTyped
<1>6. TrailFollows'
  <2>1. lost \/ ledger = Told(rows)
    BY <1>0 DEF AccessInv, TrailFollows, Wrote
  <2>2. Wrote'
    BY <1>2 DEF Wrote
  <2>3. lost' \/ Replay(ledger', Success(call'.request)) = Told(rows')
    BY <1>0, <1>2, <1>3, <2>1
  <2> QED BY <2>2, <2>3 DEF TrailFollows, Success, Replay, Told
<1>7. DelegationKept'
  <2> SUFFICES ASSUME ~rootUsed, Delegated \cap SystemBillets = {}
               PROVE  /\ Contained(Written(q)) /\ (synced # None => Contained(synced))
                      /\ q.billet \in Delegated
    BY <1>0, <1>2, <1>3 DEF DelegationKept
  <2>1. Contained(rows) /\ (synced # None => Contained(synced)) /\ q.billet \in Delegated
    BY <1>0 DEF AccessInv, DelegationKept
  <2> QED BY <1>0, <1>1, <2>1, WrittenContained DEF AccessInv, AccessTyped
<1> QED BY <1>4, <1>5, <1>6, <1>7 DEF AccessInv

LEMMA AddPolicyKeepsInv ==
    ASSUME AccessInv, AddPolicy
    PROVE  AccessInv'
<1>0. /\ rootUsed' /\ lost'
      /\ UNCHANGED <<clock, synced, syncedAt, cache, tokens, call, ledger>>
  BY DEF AddPolicy
<1>1. PICK p \in CliPolicies : Change([rows EXCEPT !.policies = @ \cup {p}])
  BY DEF AddPolicy
<1> DEFINE t == [billets |-> rows.billets, policies |-> rows.policies \cup {p}]
<1>2. [rows EXCEPT !.policies = @ \cup {p}] = t /\ IsTables(t)
  <2>1. rows = [billets |-> rows.billets, policies |-> rows.policies]
    BY DEF AccessInv, AccessTyped, IsTables
  <2>2. [rows EXCEPT !.policies = @ \cup {p}] = t
    BY <2>1
  <2>3. t.billets = rows.billets /\ t = [billets |-> t.billets, policies |-> t.policies]
    OBVIOUS
  <2> HIDE DEF t
  <2>4. IsTables(t)
    BY <2>3 DEF AccessInv, AccessTyped, IsTables
  <2> QED BY <2>2, <2>4
<1> HIDE DEF t
<1>3. rows' = t /\ SyncedLately' /\ CacheBacked' /\ TokensBacked' /\ \A x \in past' : x.at \in Nat
  BY <1>0, <1>1, <1>2, ChangeKeepsBacking DEF Change
<1>4. AccessTyped'
  BY <1>0, <1>2, <1>3 DEF AccessInv, AccessTyped
<1>5. TrailFollows' /\ DelegationKept'
  BY <1>0 DEF TrailFollows, DelegationKept
<1> QED BY <1>3, <1>4, <1>5 DEF AccessInv

LEMMA NextPreservesInv ==
    ASSUME AccessInv, [Next]_vars
    PROVE  AccessInv'
<1>1. CASE UNCHANGED vars
  <2>1. AccessTyped' /\ SyncedLately' /\ CacheBacked' /\ TokensBacked'
    BY <1>1 DEF vars, AccessInv, AccessTyped, SyncedLately, CacheBacked, TokensBacked,
       ExpiredSignature
  <2>2. TrailFollows' /\ DelegationKept'
    BY <1>1 DEF vars, AccessInv, TrailFollows, Wrote, DelegationKept
  <2> QED BY <2>1, <2>2 DEF AccessInv
<1>2. CASE Tick
  BY <1>2, TickKeepsInv
<1>3. CASE Sync
  BY <1>3, SyncKeepsInv
<1>4. ASSUME NEW s \in Subjects, Issue(s) \/ IssueCached(s)
      PROVE  AccessInv'
  BY <1>4, IssueKeepsInv, IssueCachedKeepsInv
<1>5. CASE Handle
  BY <1>5, AdmitKeepsInv, AnswersKeepInv, WriteKeepsInv DEF Handle
<1>6. CASE AddPolicy
  BY <1>6, AddPolicyKeepsInv
<1>7. CASE IssueToken
  BY <1>7, IssueTokenKeepsInv
<1> QED BY <1>1, <1>2, <1>3, <1>4, <1>5, <1>6, <1>7 DEF Next

LEMMA AccessInvariant == Spec => []AccessInv
<1>1. Init => AccessInv
  BY InitEstablishesInv
<1>2. AccessInv /\ [Next]_vars => AccessInv'
  BY NextPreservesInv
<1> QED BY <1>1, <1>2, PTL DEF Spec

-----------------------------------------------------------------------------
\* The success events of the admin handlers, replayed over the first tables,
\* give the tables of now, for any requests: the events of update_policy,
\* delete_billet and the others say what the store did.
THEOREM TrailAccountsForTables == Spec => []TrailTellsTables
<1>1. AccessInv => TrailTellsTables
  BY DEF AccessInv, TrailFollows, TrailTellsTables
<1> QED BY <1>1, AccessInvariant, PTL

\* validate_resource_scope and is_authorized_admin together keep a delegate
\* within what was delegated, for any tables, any tags and any sequence of
\* requests, until a system billet or the CLI is used.
THEOREM DelegatesStayContained == Spec => []DelegationContained
<1>1. AccessInv => DelegationContained
  BY DEF AccessInv, DelegationKept, Contained, DelegationContained
<1> QED BY <1>1, AccessInvariant, PTL

\* authenticate admits a request only with a token that the tables of the last
\* sync interval, cache ttl, token ttl and leeway back, for an operation that
\* the tables of the last sync interval permit.
THEOREM RevocationIsBounded == Spec => AccessFollowsPolicies
<1> DEFINE Admitted ==
        \/ call'.sub = Bootstrap
        \/ \E b \in call'.billets : EntitledTo(call'.sub, b) /\ MayDo(b, call'.request)
<1>1. ASSUME AccessInv, [Next]_vars
      PROVE  [call = None /\ call' # None => Admitted]_vars
  <2> SUFFICES ASSUME call = None, call' # None, Next
               PROVE  Admitted
    BY <1>1 DEF vars
  <2>1. PICK q \in Requests, h \in Headers : Admit(q, h)
    BY DEF Next, Handle, Tick, Sync, Issue, IssueCached, Answer, Write, Operating, Reread, Succeed,
       StoreFails, Disconnect, AddPolicy, IssueToken
  <2>2. /\ h.token \in tokens /\ ~ExpiredSignature(h.token)
        /\ is_authorized_admin(synced, h.token.billets, AuthAction(q.op), AuthResource(q))
    BY <2>1, AuthenticatedToken DEF Admit
  <2>3. call'.sub = h.token.sub /\ call'.billets = h.token.billets /\ call'.request = q
    BY <2>1 DEF Admit
  <2> SUFFICES ASSUME h.token.sub # Bootstrap
               PROVE  \E b \in h.token.billets : EntitledTo(h.token.sub, b) /\ MayDo(b, q)
    BY <2>3
  <2>4. ASSUME NEW b \in h.token.billets
        PROVE  EntitledTo(h.token.sub, b)
    <3>1. CASE b \in Reserved
      BY <1>1, <2>2, <3>1 DEF AccessInv, TokensBacked, EntitledTo
    <3>2. CASE b \notin Reserved
      <4>1. PICK x \in past : /\ b \in assumable(x.rows, h.token.sub)
                              /\ x.at + (sync_interval + cache_ttl + token_ttl) >= h.token.exp
        BY <1>1, <2>2, <3>2 DEF AccessInv, TokensBacked, Backed
      <4>2. x.at + Window >= clock
        BY <1>1, <2>2, <4>1, WindowParts DEF AccessInv, AccessTyped, Token, ExpiredSignature
      <4> QED BY <3>2, <4>1, <4>2 DEF EntitledTo, Lately
    <3> QED BY <3>1, <3>2
  <2>5. \E b \in h.token.billets : MayDo(b, q)
    <3>1. CASE h.token.billets \cap SystemBillets # {}
      BY <3>1 DEF MayDo
    <3>2. CASE synced # None /\ \E p \in h.token.billets :
                  Allowed(synced, AuthAction(q.op), p, AuthResource(q))
      <4>1. PICK p \in h.token.billets : Allowed(synced, AuthAction(q.op), p, AuthResource(q))
        BY <3>2
      <4>2. PICK x \in past : x.rows = synced /\ x.at + sync_interval >= clock
        BY <1>1, <3>2 DEF AccessInv, SyncedLately
      <4> QED BY <4>1, <4>2 DEF MayDo, Lately
    <3> QED BY <2>2, <3>1, <3>2 DEF is_authorized_admin
  <2> QED BY <2>4, <2>5
<1>2. Spec => [][Next]_vars
  BY PTL DEF Spec
<1> QED BY <1>1, <1>2, AccessInvariant, PTL DEF AccessFollowsPolicies
=============================================================================
