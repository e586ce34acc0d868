-------------------------- MODULE BilletResolution --------------------------
(***************************************************************************)
(* Requests resolving billets while the policy tables change under them:    *)
(* BilletResolverImpl::resolve over the cache, PolicySyncService and the    *)
(* Cedar authorizer.  Each await of resolve is a step of its own, so what a *)
(* request read earlier can be out of date when it is used.                 *)
(*                                                                         *)
(* Time is abstract: a cache entry may expire at any moment, as it does     *)
(* once its ttl has passed.                                                 *)
(***************************************************************************)
EXTENDS PolicySync, Sequences

CONSTANTS
    Requests,     \* slots for concurrent calls of resolve
    Audiences     \* requested audiences

VARIABLES
    pc,           \* pc[r]: the next await of request r
    subject,      \* subject[r], audience[r]: ResolverInput
    audience,
    known,        \* known[r]: the known_billets that r read
    readTags,     \* readTags[r]: the tags r has read so far
    unread,       \* unread[r]: the billets whose tags r has still to read
    answer,       \* answer[r]: the billets r returns, or its error
    cache,        \* the Cache backend, by cache key
    calm          \* history: no publication has touched r since it read known

reqVars == <<pc, subject, audience, known, readTags, unread, answer, cache, calm>>

resVars == <<storeVars, syncVars, reqVars>>

\* Subjects and audiences are sequences of the parts between colons, so the
\* key joins them as format!("{}:{}") does.
cache_key(s, a) == s \o a

CacheKeys == {cache_key(s, a) : s \in Subjects, a \in Audiences}

\* Result<Resolution, BilletError>, reduced to its variant and its billets.
Ok(bs) == [status |-> "ok", billets |-> bs]
Err(e) == [status |-> e, billets |-> {}]

Unavailable == Err("PolicySetNotInitialized")
InternalError == Err("InternalError")
NoBilletsResolved == Err("NoBilletsResolved")
Pending == Err("pending")

\* Answers that are the service's fault: 503 and 500.
Failures == {Unavailable, InternalError}

Answers == {Ok(bs) : bs \in SUBSET Billets} \cup {Unavailable, InternalError, NoBilletsResolved, Pending}

ResTypeOK ==
    /\ pc \in [Requests -> {"cacheGet", "readKnown", "readInit",
                            "readTags", "evaluate", "cacheSet", "done"}]
    /\ subject \in [Requests -> Subjects]
    /\ audience \in [Requests -> Audiences]
    /\ known \in [Requests -> SUBSET Billets]
    /\ readTags \in [Requests -> TagMap]
    /\ unread \in [Requests -> SUBSET Billets]
    /\ answer \in [Requests -> Answers]
    /\ cache \in [CacheKeys -> ((SUBSET Billets) \ {{}}) \cup {None}]
    /\ calm \in [Requests -> BOOLEAN]

ResInit ==
    /\ Init
    /\ pc = [r \in Requests |-> "cacheGet"]
    /\ subject \in [Requests -> Subjects]
    /\ audience \in [Requests -> Audiences]
    /\ known = [r \in Requests |-> {}]
    /\ readTags = [r \in Requests |-> NoTags]
    /\ unread = [r \in Requests |-> {}]
    /\ answer = [r \in Requests |-> Pending]
    /\ cache = [k \in CacheKeys |-> None]
    /\ calm = [r \in Requests |-> TRUE]

Key(r) == cache_key(subject[r], audience[r])

-----------------------------------------------------------------------------
(* resolve, one action per await. *)

CacheHit(r) ==
    /\ pc[r] = "cacheGet"
    /\ cache[Key(r)] # None
    /\ answer' = [answer EXCEPT ![r] = Ok(cache[Key(r)])]
    /\ pc' = [pc EXCEPT ![r] = "done"]
    /\ UNCHANGED <<subject, audience, known, readTags, unread, cache, calm>>

\* A miss, or a backend failure that resolve treats as one.
CacheMiss(r) ==
    /\ pc[r] = "cacheGet"
    /\ pc' = [pc EXCEPT ![r] = "readKnown"]
    /\ UNCHANGED <<subject, audience, known, readTags, unread, answer, cache,
                   calm>>

ReadKnownBillets(r) ==
    /\ pc[r] = "readKnown"
    /\ known' = [known EXCEPT ![r] = known_billets]
    /\ unread' = [unread EXCEPT ![r] = known_billets]
    /\ pc' = [pc EXCEPT ![r] = IF known_billets = {} THEN "readInit" ELSE "readTags"]
    /\ calm' = [calm EXCEPT ![r] = syncPc # "swapState"]
    /\ UNCHANGED <<subject, audience, readTags, answer, cache>>

\* Mutant: an empty set of known billets alone is taken for an outage.
EmptyMeansUnavailable(r) ==
    /\ pc[r] = "readInit"
    /\ answer' = [answer EXCEPT ![r] = Unavailable]
    /\ pc' = [pc EXCEPT ![r] = "done"]
    /\ UNCHANGED <<subject, audience, known, readTags, unread, cache, calm>>

ReadIsInitialized(r) ==
    /\ pc[r] = "readInit"
    /\ answer' = [answer EXCEPT ![r] =
                    IF is_initialized THEN NoBilletsResolved ELSE Unavailable]
    /\ pc' = [pc EXCEPT ![r] = "done"]
    /\ UNCHANGED <<subject, audience, known, readTags, unread, cache, calm>>

\* resolve_billet_tags: one read lock per billet, in the order of a HashSet.
ReadBilletTags(r) ==
    /\ pc[r] = "readTags"
    /\ \E b \in unread[r] :
          /\ readTags' = [readTags EXCEPT ![r][b] = billet_tags(b)]
          /\ unread' = [unread EXCEPT ![r] = @ \ {b}]
          /\ pc' = [pc EXCEPT ![r] = IF unread[r] = {b} THEN "evaluate" ELSE @]
    /\ UNCHANGED <<subject, audience, known, answer, cache, calm>>

Granted(r) == Entitled(handle.set, known[r], readTags[r], subject[r])

\* batch_is_authorized_entity under the read lock of the handle, and resolve's
\* filter of the decisions.  Whatever Cedar reports is an InternalError; the
\* entities, of constant types and with strings as attributes, are always built.
Evaluate(r) ==
    /\ pc[r] = "evaluate"
    /\ LET result == IF handle = None THEN InternalError
                     ELSE IF Granted(r) = {} THEN NoBilletsResolved
                     ELSE Ok(Granted(r))
       IN  /\ answer' = [answer EXCEPT ![r] = result]
           /\ pc' = [pc EXCEPT ![r] = IF result.status = "ok" THEN "cacheSet" ELSE "done"]
    /\ UNCHANGED <<subject, audience, known, readTags, unread, cache, calm>>

CacheSet(r) ==
    /\ pc[r] = "cacheSet"
    /\ cache' = [cache EXCEPT ![Key(r)] = answer[r].billets]
    /\ pc' = [pc EXCEPT ![r] = "done"]
    /\ UNCHANGED <<subject, audience, known, readTags, unread, answer, calm>>

\* A backend failure is logged and ignored.
CacheSetFails(r) ==
    /\ pc[r] = "cacheSet"
    /\ pc' = [pc EXCEPT ![r] = "done"]
    /\ UNCHANGED <<subject, audience, known, readTags, unread, answer, cache,
                   calm>>

\* The caller takes the answer; the request's locals are gone, and r stands for
\* the next request.
Return(r) ==
    /\ pc[r] = "done"
    /\ pc' = [pc EXCEPT ![r] = "cacheGet"]
    /\ \E s \in Subjects, a \in Audiences :
          /\ subject' = [subject EXCEPT ![r] = s]
          /\ audience' = [audience EXCEPT ![r] = a]
    /\ known' = [known EXCEPT ![r] = {}]
    /\ readTags' = [readTags EXCEPT ![r] = NoTags]
    /\ answer' = [answer EXCEPT ![r] = Pending]
    /\ calm' = [calm EXCEPT ![r] = TRUE]
    /\ UNCHANGED <<unread, cache>>

Resolve(r) ==
    \/ CacheHit(r) \/ CacheMiss(r) \/ ReadKnownBillets(r)
    \/ ReadIsInitialized(r) \/ ReadBilletTags(r) \/ Evaluate(r)
    \/ CacheSet(r) \/ CacheSetFails(r) \/ Return(r)

\* Mutant: an entry outlives its ttl.
NeverExpire(k) == cache[k] # None /\ UNCHANGED reqVars

\* The ttl of an entry passes.
Expire(k) ==
    /\ cache[k] # None
    /\ cache' = [cache EXCEPT ![k] = None]
    /\ UNCHANGED <<pc, subject, audience, known, readTags, unread, answer,
                   calm>>

-----------------------------------------------------------------------------
(* Publications reach the history variable. *)

Snapshot(st, s) ==
    Entitled(st.policies.set, st.billets.known, st.billets.tags, s)

Publishing == SwapHandle \/ SwapState

SyncWithReaders ==
    /\ SyncStep
    /\ calm' = IF Publishing THEN [r \in Requests |-> FALSE] ELSE calm
    /\ UNCHANGED <<pc, subject, audience, known, readTags, unread, answer, cache>>

ResNext ==
    \/ StoreNext /\ UNCHANGED <<syncVars, reqVars>>
    \/ SyncWithReaders /\ UNCHANGED storeVars
    \/ \E r \in Requests : Resolve(r) /\ UNCHANGED <<storeVars, syncVars>>
    \/ \E k \in CacheKeys : Expire(k) /\ UNCHANGED <<storeVars, syncVars>>

ResSpec == ResInit /\ [][ResNext]_resVars

(***************************************************************************)
(* Requests run to their end on the executor, time passes for every cache   *)
(* entry, and the background task is as fair as in PolicySync.              *)
(***************************************************************************)
ResFairness ==
    /\ \A r \in Requests :
          WF_resVars(Resolve(r) /\ pc[r] # "cacheGet" /\ UNCHANGED <<storeVars, syncVars>>)
    /\ \A k \in CacheKeys : WF_resVars(Expire(k) /\ UNCHANGED <<storeVars, syncVars>>)
    /\ WF_resVars(SyncWithReaders /\ UNCHANGED storeVars)
    /\ SF_resVars(SyncWithReaders /\ ScanPolicies /\ UNCHANGED storeVars)
    /\ SF_resVars(SyncWithReaders /\ ScanBillets /\ UNCHANGED storeVars)

ResFairSpec == ResSpec /\ ResFairness

-----------------------------------------------------------------------------
(* Properties. *)

ResTypes == TypeOK /\ ResTypeOK

\* A request that no publication touched between its first read and its
\* evaluation answers exactly what the one published snapshot entitles its
\* subject to, although it read known billets, tags and policies in separate
\* critical sections (resolve steps 5 to 7).
UndisturbedAnswerIsExact ==
    \A r \in Requests :
        pc[r] = "cacheSet" /\ calm[r] => answer[r].billets = Snapshot(state, subject[r])

\* Once a policy set has been published, no request that starts afterwards is
\* answered 503, or 500 for want of a policy set: evaluation goes on with the last
\* good tables (resolve, PolicySetHandle).
NoOutageOnceLoaded ==
    [][\A r \in Requests :
          is_initialized /\ pc[r] # "done"
              => answer'[r] \notin Failures]_resVars

\* A billet is held by a subject in the tables as they are now.
HeldNow(s) == Entitled(policies, billets, tags, s)

\* A revocation takes effect: once the admins stop writing, every cache entry
\* and every answer still under way is soon free of billets that the tables no
\* longer grant, whatever was being resolved when the policies changed.
RevocationTakesEffect ==
    <>[](/\ \A r \in Requests : answer[r].billets \subseteq HeldNow(subject[r])
         /\ \A s \in Subjects, a \in Audiences :
               cache[cache_key(s, a)] # None => cache[cache_key(s, a)] \subseteq HeldNow(s))
=============================================================================
