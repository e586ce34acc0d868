------------------------- MODULE TokenExchange_proofs -------------------------
(***************************************************************************)
(* Theorems about TokenExchange with the rate limiter and the JWKS manager  *)
(* behind it, for any number of handlers, subjects, sources and keys, any   *)
(* limit, window and delay.                                                 *)
(***************************************************************************)
EXTENDS TokenExchange, SequenceTheorems, FiniteSetTheorems, WellFoundedInduction, TLAPS

(***************************************************************************)
(* The inductive invariant: the limiter.                                    *)
(***************************************************************************)

\* The grants to a subject, g, are in the order of time.
Ordered(g) == \A i, j \in 1..Len(g) : i <= j => g[i] <= g[j]

\* The queue w holds the stamps of the last grants of g, each read at most
\* MaxDelay before the grant; the grants before those no longer count at time c.
Matched(w, g, c) ==
    /\ Len(w) <= Len(g)
    /\ \A i \in 1..Len(w) :
          w[i] <= g[Len(g) - Len(w) + i] /\ g[Len(g) - Len(w) + i] <= w[i] + MaxDelay
    /\ \A j \in 1..(Len(g) - Len(w)) : g[j] < c - (window_duration - MaxDelay)

\* A grant and the one requests_per_minute before it are apart.
Spaced(g) ==
    \A i \in 1..Len(g) : i > requests_per_minute =>
        g[i - requests_per_minute] < g[i] - (window_duration - MaxDelay)

LimiterOf(w, g, c) ==
    /\ w \in Seq(Nat) /\ Len(w) <= requests_per_minute
    /\ g \in Seq(Nat) /\ \A i \in 1..Len(g) : g[i] <= c
    /\ Ordered(g)
    /\ Matched(w, g, c)
    /\ Spaced(g)

LimiterInv ==
    /\ windows = [s \in Subjects |-> windows[s]]
    /\ granted = [s \in Subjects |-> granted[s]]
    /\ \A s \in Subjects : LimiterOf(windows[s], granted[s], clock)

(***************************************************************************)
(* ... the JWKS manager ...                                                 *)
(***************************************************************************)

\* The keys ks of source s are published, or have been until time t at least.
PublishedSince(s, ks, t) ==
    \A k \in ks : \/ k \in published[s]
                  \/ withdrawn[s][k] \in Nat /\ t <= withdrawn[s][k]

\* What a refresh of source s has in hand is as old as its fetch, what it has
\* stored no older than MaxDelay before the time that was noted; and the notes
\* are written in the order of the fetches.
RefreshOf(s) ==
    /\ refresh[s] # "waiting" => fetchedAt[s] <= clock /\ clock <= fetchedAt[s] + MaxDelay
    /\ refresh[s] = "fetched" => PublishedSince(s, fetched[s], fetchedAt[s])
    /\ refresh[s] = "stored" => PublishedSince(s, keys[s], fetchedAt[s])
    /\ last_refresh[s] # Never =>
          /\ last_refresh[s] <= clock
          /\ refresh[s] # "waiting" => last_refresh[s] <= fetchedAt[s]
          /\ PublishedSince(s, keys[s], last_refresh[s] - MaxDelay)

JwksInv == JwksTypes /\ \A s \in Sources : RefreshOf(s)

(***************************************************************************)
(* ... and the handlers.                                                    *)
(***************************************************************************)

Places == {"idle", "keys", "verify", "sts", "limit", "resolve", "certify", "done"}

\* A handler at place p, with request q and the time t that it has read last,
\* when the sources were refreshed at the times lr and the clock shows c.
HandlerOf(p, q, t, lr, c) ==
    /\ p \in Places /\ q \in Requests \cup {None} /\ t \in Nat
    /\ q = None <=> p \in {"idle", "done"}
    /\ p \in {"keys", "verify", "sts"} => q.token # None
    /\ p \in {"keys", "verify"} => SourceOf(q.token) \in Sources
    /\ p = "limit" => Subject(q) \in Subjects
    /\ p \in {"verify", "limit"} => t <= c /\ c <= t + MaxDelay
    /\ p = "verify" =>
          /\ lr[SourceOf(q.token)] # Never
          /\ t <= lr[SourceOf(q.token)] + max_staleness

\* Each billet of the token is of the policies and not reserved, or of the claims.
Accounted(token) ==
    \A b \in token.billets : (b \in token.cedar /\ ~Reserved(b)) \/ b \in token.implicit

HandlersInv ==
    /\ pc = [h \in Handlers |-> pc[h]]
    /\ req = [h \in Handlers |-> req[h]]
    /\ since = [h \in Handlers |-> since[h]]
    /\ issued = [h \in Handlers |-> issued[h]]
    /\ \A h \in Handlers : HandlerOf(pc[h], req[h], since[h], last_refresh, clock)
    /\ \A h \in Handlers : Accounted(issued[h])

ReplyInv == reply.answer \in Answers /\ RecordsMatchTokens

ExchangeInv == clock \in Nat /\ LimiterInv /\ JwksInv /\ HandlersInv /\ ReplyInv

-----------------------------------------------------------------------------
(***************************************************************************)
(* PopExpired drops a prefix.                                               *)
(***************************************************************************)

LEMMA LeastIndex ==
    ASSUME NEW T \in SUBSET Nat, T # {}
    PROVE  \E x \in T : \A y \in T : x <= y
<1>1. PICK x \in T : \A y \in T : ~(<<y, x>> \in OpToRel(<, Nat))
  BY NatLessThanWellFounded, WFMin
<1>2. \A y \in T : ~(y < x)
  BY <1>1 DEF OpToRel
<1> QED BY <1>2

\* w without its first f elements.
Without(w, f) == SubSeq(w, f + 1, Len(w))

LEMMA WithoutProperties ==
    ASSUME NEW w \in Seq(Nat), NEW f \in 0..Len(w)
    PROVE  /\ Without(w, f) \in Seq(Nat)
           /\ Len(Without(w, f)) = Len(w) - f
           /\ \A i \in 1..(Len(w) - f) : Without(w, f)[i] = w[f + i]
<1>1. \A i \in (f + 1)..Len(w) : w[i] \in Nat
  BY ElementOfSeq
<1>2. f + 1 \in Int /\ Len(w) \in Int
  OBVIOUS
<1>3. /\ SubSeq(w, f + 1, Len(w)) \in Seq(Nat)
      /\ Len(SubSeq(w, f + 1, Len(w))) = IF f + 1 <= Len(w) THEN Len(w) - (f + 1) + 1 ELSE 0
      /\ \A i \in 1..(Len(w) - (f + 1) + 1) : SubSeq(w, f + 1, Len(w))[i] = w[f + 1 + i - 1]
  BY <1>1, <1>2, SubSeqProperties
<1> QED BY <1>3 DEF Without

\* What is dropped is before the cutoff, and the first that stays is not.
LEMMA PopExpiredIsSuffix ==
    ASSUME NEW w \in Seq(Nat), NEW cutoff \in Int
    PROVE  \E f \in 0..Len(w) :
              /\ PopExpired(w, cutoff) = Without(w, f)
              /\ \A j \in 1..f : w[j] < cutoff
              /\ f < Len(w) => w[f + 1] >= cutoff
<1> DEFINE live == {i \in 1..Len(w) : w[i] >= cutoff}
           front == CHOOSE i \in live : \A j \in live : i <= j
<1>0. \A i \in 1..Len(w) : w[i] \in Nat
  BY ElementOfSeq
<1>1. CASE live = {}
  <2>1. PopExpired(w, cutoff) = <<>>
    BY <1>1 DEF PopExpired
  <2>2. Without(w, Len(w)) = <<>>
    <3>1. Len(w) + 1 \in Int /\ Len(w) \in Int /\ Len(w) < Len(w) + 1
      OBVIOUS
    <3> QED BY <3>1, SubSeqEmpty DEF Without
  <2>3. \A j \in 1..Len(w) : w[j] < cutoff
    BY <1>0, <1>1
  <2> QED BY <2>1, <2>2, <2>3
<1>2. CASE live # {}
  <2>1. front \in live /\ \A j \in live : front <= j
    <3>1. live \in SUBSET Nat
      OBVIOUS
    <3>2. \E i \in live : \A j \in live : i <= j
      <4> HIDE DEF live
      <4> QED BY <1>2, <3>1, LeastIndex
    <3> HIDE DEF live
    <3> QED BY <3>2
  <2>2. PopExpired(w, cutoff) = SubSeq(w, front, Len(w))
    BY <1>2 DEF PopExpired
  <2>3. front \in 1..Len(w) /\ w[front] >= cutoff
    BY <2>1
  <2> HIDE DEF front
  <2>4. \A j \in 1..(front - 1) : w[j] < cutoff
    BY <1>0, <2>1, <2>3
  <2> HIDE DEF live
  <2>5. front - 1 \in 0..Len(w) /\ (front - 1) + 1 = front
    BY <2>3
  <2> QED BY <2>2, <2>3, <2>4, <2>5 DEF Without
<1> QED BY <1>1, <1>2

-----------------------------------------------------------------------------
(***************************************************************************)
(* The limiter of one subject.                                              *)
(***************************************************************************)

LEMMA LimiterConstants ==
    /\ requests_per_minute \in Nat /\ window_duration \in Nat /\ MaxDelay \in Nat
    /\ MaxDelay <= window_duration
BY LimiterAssumption, ClockAssumption

\* Time passes.
LEMMA LimiterLater ==
    ASSUME NEW w, NEW g, NEW c \in Nat, LimiterOf(w, g, c)
    PROVE  LimiterOf(w, g, c + 1)
<1>1. \A i \in 1..Len(g) : g[i] \in Nat
  BY ElementOfSeq DEF LimiterOf
<1>2. \A i \in 1..Len(g) : g[i] <= c + 1
  BY <1>1 DEF LimiterOf
<1>3. Matched(w, g, c + 1)
  <2>1. \A j \in 1..(Len(g) - Len(w)) : g[j] < (c + 1) - (window_duration - MaxDelay)
    <3> SUFFICES ASSUME NEW j \in 1..(Len(g) - Len(w))
                 PROVE  g[j] < (c + 1) - (window_duration - MaxDelay)
      OBVIOUS
    <3>1. Len(g) \in Nat /\ Len(w) \in Nat /\ j \in 1..Len(g)
      BY DEF LimiterOf
    <3> QED BY <1>1, <3>1, LimiterConstants DEF LimiterOf, Matched
  <2> QED BY <2>1 DEF LimiterOf, Matched
<1> QED BY <1>2, <1>3 DEF LimiterOf

\* Expired stamps are dropped, by a caller whose time is not ahead: no stamp of a
\* grant that still counts is among them.
LEMMA LimiterPops ==
    ASSUME NEW w, NEW g, NEW c \in Nat, LimiterOf(w, g, c), NEW now \in Int, now <= c
    PROVE  LimiterOf(PopExpired(w, now - window_duration), g, c)
<1>0. w \in Seq(Nat) /\ g \in Seq(Nat) /\ Len(w) \in Nat /\ Len(g) \in Nat /\ Len(w) <= Len(g)
  BY DEF LimiterOf, Matched
<1>1. now - window_duration \in Int
  BY LimiterConstants
<1>2. PICK f \in 0..Len(w) :
         /\ PopExpired(w, now - window_duration) = Without(w, f)
         /\ \A j \in 1..f : w[j] < now - window_duration
  BY <1>0, <1>1, PopExpiredIsSuffix
<1> DEFINE v == Without(w, f)
<1>3. /\ v \in Seq(Nat) /\ Len(v) = Len(w) - f
      /\ \A i \in 1..(Len(w) - f) : v[i] = w[f + i]
  BY <1>0, WithoutProperties
<1> HIDE DEF v
<1>4. \A i \in 1..Len(v) :
         v[i] <= g[Len(g) - Len(v) + i] /\ g[Len(g) - Len(v) + i] <= v[i] + MaxDelay
  <2> SUFFICES ASSUME NEW i \in 1..Len(v)
               PROVE  v[i] <= g[Len(g) - Len(v) + i] /\ g[Len(g) - Len(v) + i] <= v[i] + MaxDelay
    OBVIOUS
  <2>1. f + i \in 1..Len(w) /\ Len(g) - Len(w) + (f + i) = Len(g) - Len(v) + i
    BY <1>0, <1>3
  <2>2. v[i] = w[f + i]
    BY <1>0, <1>3
  <2> QED BY <2>1, <2>2 DEF LimiterOf, Matched
<1>5. \A j \in 1..(Len(g) - Len(v)) : g[j] < c - (window_duration - MaxDelay)
  <2> SUFFICES ASSUME NEW j \in 1..(Len(g) - Len(v))
               PROVE  g[j] < c - (window_duration - MaxDelay)
    OBVIOUS
  <2>1. CASE j \in 1..(Len(g) - Len(w))
    BY <2>1 DEF LimiterOf, Matched
  <2>2. CASE j > Len(g) - Len(w)
    <3> DEFINE i == j - (Len(g) - Len(w))
    <3>1. i \in 1..f /\ i \in 1..Len(w) /\ Len(g) - Len(w) + i = j /\ j \in 1..Len(g)
      BY <1>0, <1>3, <2>2
    <3> HIDE DEF i
    <3>2. w[i] < now - window_duration /\ w[i] \in Nat /\ g[j] \in Nat
      BY <1>0, <1>2, <3>1, ElementOfSeq
    <3>3. g[j] <= w[i] + MaxDelay
      BY <3>1 DEF LimiterOf, Matched
    <3> QED BY <3>2, <3>3, LimiterConstants
  <2> QED BY <1>0, <1>3, <2>1, <2>2
<1>6. Matched(v, g, c)
  BY <1>0, <1>3, <1>4, <1>5 DEF Matched
<1>7. Len(v) <= requests_per_minute
  BY <1>0, <1>3, LimiterConstants DEF LimiterOf
<1> QED BY <1>2, <1>3, <1>6, <1>7 DEF LimiterOf, v

\* A request is let through: the queue is popped at the caller's time, and the
\* grants that can no longer count are forgotten.
LEMMA LimiterGrants ==
    ASSUME NEW w, NEW g, NEW c \in Nat, LimiterOf(w, g, c),
           NEW now \in Nat, c - MaxDelay <= now, now <= c,
           Len(PopExpired(w, now - window_duration)) < requests_per_minute
    PROVE  LimiterOf(Append(PopExpired(w, now - window_duration), now),
                     Append(PopExpired(g, c - window_duration - MaxDelay), c), c)
<1> DEFINE v == PopExpired(w, now - window_duration)
           k == PopExpired(g, c - window_duration - MaxDelay)
           W == window_duration - MaxDelay
<1>0. w \in Seq(Nat) /\ g \in Seq(Nat) /\ Len(w) \in Nat /\ Len(g) \in Nat
  BY DEF LimiterOf
<1>1. LimiterOf(v, g, c)
  BY LimiterPops
<1>2. /\ now - window_duration \in Int /\ c - window_duration - MaxDelay \in Int
      /\ c - window_duration - MaxDelay <= now - window_duration
  BY LimiterConstants
<1>3. Len(v) > 0 => v[1] >= now - window_duration
  <2>1. PICK f \in 0..Len(w) :
           v = Without(w, f) /\ (f < Len(w) => w[f + 1] >= now - window_duration)
    BY <1>0, <1>2, PopExpiredIsSuffix
  <2>2. Len(v) = Len(w) - f /\ \A i \in 1..(Len(w) - f) : v[i] = w[f + i]
    BY <1>0, <2>1, WithoutProperties
  <2> HIDE DEF v
  <2>3. Len(v) > 0 => f < Len(w) /\ 1 \in 1..(Len(w) - f)
    BY <1>0, <2>2
  <2> QED BY <2>1, <2>2, <2>3
<1>4. PICK e \in 0..Len(g) :
         /\ k = Without(g, e)
         /\ \A j \in 1..e : g[j] < c - window_duration - MaxDelay
  BY <1>0, <1>2, PopExpiredIsSuffix
<1>5. /\ k \in Seq(Nat) /\ Len(k) = Len(g) - e
      /\ \A i \in 1..(Len(g) - e) : k[i] = g[e + i]
  BY <1>0, <1>4, WithoutProperties
<1>6. /\ v \in Seq(Nat) /\ Len(v) \in Nat /\ Len(v) <= Len(g) /\ Len(v) < requests_per_minute
      /\ \A i \in 1..Len(v) :
            v[i] <= g[Len(g) - Len(v) + i] /\ g[Len(g) - Len(v) + i] <= v[i] + MaxDelay
      /\ \A j \in 1..(Len(g) - Len(v)) : g[j] < c - W
      /\ \A i \in 1..Len(g) : i > requests_per_minute => g[i - requests_per_minute] < g[i] - W
      /\ \A i, j \in 1..Len(g) : i <= j => g[i] <= g[j]
      /\ \A i \in 1..Len(g) : g[i] <= c
  BY <1>1 DEF LimiterOf, Matched, Spaced, Ordered
<1> HIDE DEF v, k, W
<1>7. Len(v) <= Len(k)
  <2> SUFFICES ASSUME Len(v) > Len(g) - e
               PROVE  FALSE
    BY <1>0, <1>5, <1>6
  <2> DEFINE j == Len(g) - Len(v) + 1
  <2>1. j \in 1..e /\ j \in 1..Len(g) /\ 1 \in 1..Len(v)
    BY <1>0, <1>6
  <2>2. v[1] <= g[j] /\ g[j] < c - window_duration - MaxDelay /\ v[1] >= now - window_duration
    BY <1>3, <1>4, <1>6, <2>1
  <2>3. v[1] \in Nat /\ g[j] \in Nat
    BY <1>0, <1>6, <2>1, ElementOfSeq
  <2> QED BY <1>2, <2>2, <2>3
<1> DEFINE v2 == Append(v, now)
           k2 == Append(k, c)
<1>8. /\ v2 \in Seq(Nat) /\ Len(v2) = Len(v) + 1
      /\ \A i \in 1..Len(v) : v2[i] = v[i]
      /\ v2[Len(v) + 1] = now
  BY <1>6, AppendProperties
<1>9. /\ k2 \in Seq(Nat) /\ Len(k2) = Len(g) - e + 1
      /\ \A i \in 1..(Len(g) - e) : k2[i] = g[e + i]
      /\ k2[Len(g) - e + 1] = c
  <2>1. /\ k2 \in Seq(Nat) /\ Len(k2) = Len(k) + 1
        /\ \A i \in 1..Len(k) : k2[i] = k[i]
        /\ k2[Len(k) + 1] = c
    BY <1>5, AppendProperties
  <2> QED BY <1>5, <2>1
<1> HIDE DEF v2, k2
<1>n. /\ Len(g) \in Nat /\ Len(v) \in Nat /\ e \in Nat /\ Len(v) <= Len(g) - e
      /\ Len(v2) = Len(v) + 1 /\ Len(k2) = Len(g) - e + 1
  BY <1>0, <1>5, <1>6, <1>7, <1>8, <1>9
<1>a. \A i \in 1..Len(k2) : k2[i] <= c
  <2> SUFFICES ASSUME NEW i \in 1..Len(k2)
               PROVE  k2[i] <= c
    OBVIOUS
  <2>1. i \in 1..(Len(g) - e) \/ i = Len(g) - e + 1
    BY <1>n
  <2>2. ASSUME i \in 1..(Len(g) - e)
        PROVE  e + i \in 1..Len(g) /\ k2[i] = g[e + i]
    BY <1>0, <1>9, <2>2
  <2> QED BY <1>6, <1>9, <2>1, <2>2
<1>b. Ordered(k2)
  <2> SUFFICES ASSUME NEW i \in 1..Len(k2), NEW j \in 1..Len(k2), i <= j
               PROVE  k2[i] <= k2[j]
    BY DEF Ordered
  <2>1. CASE j = Len(g) - e + 1
    BY <1>9, <1>a, <2>1
  <2>2. CASE j # Len(g) - e + 1
    <3>1. i \in 1..(Len(g) - e) /\ j \in 1..(Len(g) - e)
      BY <1>n, <2>2
    <3>2. e + i \in 1..Len(g) /\ e + j \in 1..Len(g) /\ e + i <= e + j
      BY <1>n, <3>1
    <3> QED BY <1>6, <1>9, <3>1, <3>2
  <2> QED BY <2>1, <2>2
<1>c. Matched(v2, k2, c)
  <2>1. Len(v2) <= Len(k2) /\ Len(k2) - Len(v2) = Len(g) - e - Len(v)
    BY <1>n
  <2>2. ASSUME NEW i \in 1..Len(v2)
        PROVE  v2[i] <= k2[Len(k2) - Len(v2) + i] /\ k2[Len(k2) - Len(v2) + i] <= v2[i] + MaxDelay
    <3>1. CASE i = Len(v) + 1
      <4>1. Len(k2) - Len(v2) + i = Len(g) - e + 1
        BY <1>n, <3>1
      <4> QED BY <1>8, <1>9, <3>1, <4>1, LimiterConstants
    <3>2. CASE i # Len(v) + 1
      <4>1. i \in 1..Len(v) /\ Len(k2) - Len(v2) + i \in 1..(Len(g) - e)
        BY <1>n, <3>2
      <4>2. e + (Len(k2) - Len(v2) + i) = Len(g) - Len(v) + i
        BY <1>n, <4>1
      <4>3. k2[Len(k2) - Len(v2) + i] = g[Len(g) - Len(v) + i] /\ v2[i] = v[i]
        BY <1>8, <1>9, <4>1, <4>2
      <4> QED BY <1>6, <4>1, <4>3
    <3> QED BY <3>1, <3>2
  <2>3. ASSUME NEW j \in 1..(Len(k2) - Len(v2))
        PROVE  k2[j] < c - (window_duration - MaxDelay)
    <3>1. j \in 1..(Len(g) - e) /\ e + j \in 1..(Len(g) - Len(v))
      BY <1>n
    <3> QED BY <1>6, <1>9, <3>1 DEF W
  <2> QED BY <2>1, <2>2, <2>3 DEF Matched
<1>d. Spaced(k2)
  <2> SUFFICES ASSUME NEW i \in 1..Len(k2), i > requests_per_minute
               PROVE  k2[i - requests_per_minute] < k2[i] - W
    BY DEF Spaced, W
  <2>0. requests_per_minute \in Nat
    BY LimiterConstants
  <2>1. CASE i = Len(g) - e + 1
    <3>1. /\ i - requests_per_minute \in 1..(Len(g) - e)
          /\ e + (i - requests_per_minute) \in 1..(Len(g) - Len(v))
      BY <1>6, <1>n, <2>0, <2>1
    <3> QED BY <1>6, <1>9, <2>1, <3>1
  <2>2. CASE i # Len(g) - e + 1
    <3>1. i \in 1..(Len(g) - e) /\ i - requests_per_minute \in 1..(Len(g) - e)
      BY <1>n, <2>0, <2>2
    <3>2. /\ e + i \in 1..Len(g) /\ e + i > requests_per_minute
          /\ (e + i) - requests_per_minute = e + (i - requests_per_minute)
      BY <1>n, <2>0, <3>1
    <3> QED BY <1>6, <1>9, <3>1, <3>2
  <2> QED BY <2>1, <2>2
<1>e. Len(v2) <= requests_per_minute
  BY <1>6, <1>8, LimiterConstants
<1>f. LimiterOf(v2, k2, c)
  BY <1>8, <1>9, <1>a, <1>b, <1>c, <1>d, <1>e DEF LimiterOf
<1> QED BY <1>f DEF v, k, v2, k2

-----------------------------------------------------------------------------
(***************************************************************************)
(* The handlers.                                                            *)
(***************************************************************************)

\* A handler that has ended, or has not begun.
LEMMA IdleHandler ==
    ASSUME NEW lr, NEW c, NEW p \in {"idle", "done"}
    PROVE  HandlerOf(p, None, 0, lr, c)
BY DEF HandlerOf, Places

LEMMA NoBillets == Accounted(NoTokenYet)
BY DEF Accounted, NoTokenYet

\* One handler moves.
LEMMA HandlerMoves ==
    ASSUME HandlersInv, NEW h \in Handlers, NEW p, NEW q, NEW t, NEW token,
           pc' = [pc EXCEPT ![h] = p],
           req' = [req EXCEPT ![h] = q],
           since' = [since EXCEPT ![h] = t],
           issued' = [issued EXCEPT ![h] = token],
           UNCHANGED <<clock, last_refresh>>,
           HandlerOf(p, q, t, last_refresh, clock), Accounted(token)
    PROVE  HandlersInv'
<1>1. /\ pc' = [g \in Handlers |-> pc'[g]] /\ req' = [g \in Handlers |-> req'[g]]
      /\ since' = [g \in Handlers |-> since'[g]] /\ issued' = [g \in Handlers |-> issued'[g]]
  BY Zenon DEF HandlersInv
<1>2. /\ pc'[h] = p /\ req'[h] = q /\ since'[h] = t /\ issued'[h] = token
      /\ \A g \in Handlers : g # h =>
            pc'[g] = pc[g] /\ req'[g] = req[g] /\ since'[g] = since[g] /\ issued'[g] = issued[g]
  BY Zenon DEF HandlersInv
<1>3. ASSUME NEW g \in Handlers
      PROVE  /\ HandlerOf(pc'[g], req'[g], since'[g], last_refresh, clock)
             /\ Accounted(issued'[g])
  <2>1. CASE g = h
    BY <1>2, <2>1, Zenon
  <2>2. CASE g # h
    BY <1>2, <2>2, Zenon DEF HandlersInv
  <2> QED BY <2>1, <2>2
<1>4. /\ \A g \in Handlers : HandlerOf(pc'[g], req'[g], since'[g], last_refresh', clock')
      /\ \A g \in Handlers : Accounted(issued'[g])
  BY <1>3, Zenon
<1> QED BY <1>1, <1>4 DEF HandlersInv, Accounted, Reserved, reserved_prefixes

LEMMA FinishKeepsHandlers ==
    ASSUME HandlersInv, NEW h \in Handlers, NEW answer, NEW record, NEW token,
           Finish(h, answer, record, token), UNCHANGED <<clock, last_refresh>>
    PROVE  HandlersInv'
<1>1. HandlerOf("done", None, 0, last_refresh, clock)
  BY IdleHandler
<1> QED BY <1>1, NoBillets, HandlerMoves DEF Finish

LEMMA AwaitKeepsHandlers ==
    ASSUME HandlersInv, NEW h \in Handlers, NEW q, NEW place, NEW token,
           Await(h, q, place, token), UNCHANGED <<clock, last_refresh>>,
           HandlerOf(place, q, IF place \in {"verify", "limit"} THEN clock ELSE 0, last_refresh, clock),
           Accounted(token)
    PROVE  HandlersInv'
<1> DEFINE t == IF place \in {"verify", "limit"} THEN clock ELSE 0
<1>1. /\ pc' = [pc EXCEPT ![h] = place] /\ req' = [req EXCEPT ![h] = q]
      /\ since' = [since EXCEPT ![h] = t] /\ issued' = [issued EXCEPT ![h] = token]
      /\ HandlerOf(place, q, t, last_refresh, clock)
  BY DEF Await
<1> HIDE DEF t
<1> QED BY <1>1, HandlerMoves

\* The handlers that wait for nothing that is timed.
LEMMA Untimed ==
    ASSUME NEW p \in {"keys", "sts", "resolve", "certify"}, NEW q \in Requests, NEW lr, NEW c,
           p \in {"keys", "sts"} => q.token # None,
           p = "keys" => SourceOf(q.token) \in Sources
    PROVE  HandlerOf(p, q, IF p \in {"verify", "limit"} THEN c ELSE 0, lr, c)
BY ExchangeAssumption DEF HandlerOf, Places

LEMMA AtLimit ==
    ASSUME NEW q \in Requests, NEW lr, NEW c \in Nat, Subject(q) \in Subjects
    PROVE  HandlerOf("limit", q, IF "limit" \in {"verify", "limit"} THEN c ELSE 0, lr, c)
BY ExchangeAssumption, LimiterConstants DEF HandlerOf, Places

-----------------------------------------------------------------------------
(* The answers. *)

LEMMA SilentReply ==
    ASSUME NEW h, NEW answer \in Answers, answer # "ok", NEW record \in {"failure", "none"},
           Finish(h, answer, record, NoTokenYet)
    PROVE  ReplyInv'
<1>1. reply' = [answer |-> answer, record |-> record, token |-> NoTokenYet]
  BY DEF Finish
<1>2. reply'.answer = answer /\ reply'.record = record /\ reply'.token.billets = {}
  BY <1>1 DEF NoTokenYet
<1> QED BY <1>2 DEF ReplyInv, RecordsMatchTokens

LEMMA NoReplyYet ==
    ASSUME reply' = NoReply
    PROVE  ReplyInv'
<1>1. reply'.answer = "none" /\ reply'.record = "none" /\ reply'.token.billets = {}
  BY DEF NoReply, NoTokenYet
<1> QED BY <1>1 DEF ReplyInv, RecordsMatchTokens, Answers

LEMMA FullReply ==
    ASSUME NEW h, NEW token, Accounted(token),
           \/ Finish(h, "ok", "success", token)
           \/ Finish(h, "listed", "none", token)
    PROVE  ReplyInv'
<1>1. reply'.answer \in Answers /\ (reply'.record = "success" <=> reply'.answer = "ok")
  BY DEF Finish, Answers
<1>2. reply'.token = token
  BY DEF Finish
<1> QED BY <1>1, <1>2 DEF ReplyInv, RecordsMatchTokens, Accounted, Reserved, reserved_prefixes

-----------------------------------------------------------------------------
(* The billets of a token. *)

LEMMA ClaimsInTokens ==
    ASSUME NEW q
    PROVE  token_billets(q) \subseteq all_billets(q)
BY DEF token_billets, all_billets, Derived

\* Whatever the policies grant and the caller wants, the token it may have is
\* accounted for.
LEMMA TokenAccounted ==
    ASSUME NEW q, NEW cedar, Entitled(q, assemble_token_billets(q, cedar))
    PROVE  Accounted(TokenOf(q, cedar))
<1> DEFINE final == assemble_token_billets(q, cedar)
<1>1. Scoped(q, final) \subseteq final
  BY DEF Scoped, Entitled
<1>2. \A b \in final : (b \in cedar /\ ~Reserved(b)) \/ b \in all_billets(q)
  BY ClaimsInTokens DEF assemble_token_billets
<1> HIDE DEF final
<1>3. \A b \in Scoped(q, final) : (b \in cedar /\ ~Reserved(b)) \/ b \in all_billets(q)
  BY <1>1, <1>2
<1> QED BY <1>3 DEF Accounted, TokenOf, final

LEMMA ListAccounted ==
    ASSUME NEW q, NEW cedar
    PROVE  Accounted([billets |-> assemble_token_billets(q, cedar), cedar |-> cedar,
                      implicit |-> token_billets(q)])
BY DEF Accounted, assemble_token_billets

-----------------------------------------------------------------------------
(* Each step of a handler. *)

HandlersKept == HandlersInv /\ ReplyInv

LEMMA FailKeeps ==
    ASSUME ExchangeInv, NEW h \in Handlers, NEW answer \in Answers, answer # "ok",
           Fail(h, answer) \/ FailSilently(h, answer), UNCHANGED <<clock, last_refresh>>
    PROVE  HandlersKept'
<1>1. PICK record \in {"failure", "none"} : Finish(h, answer, record, NoTokenYet)
  BY DEF Fail, FailSilently
<1>2. HandlersInv'
  BY <1>1, FinishKeepsHandlers DEF ExchangeInv
<1>3. ReplyInv'
  BY <1>1, SilentReply
<1> QED BY <1>2, <1>3 DEF HandlersKept

LEMMA FullReplyKeeps ==
    ASSUME ExchangeInv, NEW h \in Handlers, NEW token, Accounted(token),
           \/ Finish(h, "ok", "success", token)
           \/ Finish(h, "listed", "none", token),
           UNCHANGED <<clock, last_refresh>>
    PROVE  HandlersKept'
<1>1. HandlersInv'
  BY FinishKeepsHandlers DEF ExchangeInv
<1>2. ReplyInv'
  BY FullReply
<1> QED BY <1>1, <1>2 DEF HandlersKept

LEMMA AwaitKeeps ==
    ASSUME ExchangeInv, NEW h \in Handlers, NEW q, NEW place, NEW token,
           Await(h, q, place, token), UNCHANGED <<clock, last_refresh>>,
           HandlerOf(place, q, IF place \in {"verify", "limit"} THEN clock ELSE 0, last_refresh, clock),
           Accounted(token)
    PROVE  HandlersKept'
<1>1. HandlersInv'
  BY AwaitKeepsHandlers DEF ExchangeInv
<1>2. ReplyInv'
  BY NoReplyYet DEF Await
<1> QED BY <1>1, <1>2 DEF HandlersKept

LEMMA ArriveKeeps ==
    ASSUME ExchangeInv, NEW h \in Handlers, NEW q \in Requests, Arrive(h, q)
    PROVE  HandlersKept'
<1> USE DEF Answers
<1>0. UNCHANGED <<clock, last_refresh>> /\ clock \in Nat
  BY DEF Arrive, jwksVars, ExchangeInv
<1>1. CASE Fail(h, "invalid_request") \/ FailSilently(h, "invalid_request") \/ Fail(h, "invalid_token")
  BY <1>0, <1>1, FailKeeps
<1>2. CASE /\ q.token = None /\ MtlsAccepts(q.certificate)
           /\ Await(h, q, "limit", NoTokenYet)
  <2>1. Subject(q) \in Subjects
    BY <1>2, ExchangeAssumption DEF Subject, MtlsAccepts
  <2> QED BY <1>0, <1>2, <2>1, AtLimit, NoBillets, AwaitKeeps
<1>3. CASE q.token # None /\ Await(h, q, "limit", NoTokenYet)
  <2>1. Subject(q) \in Subjects
    BY <1>3, ExchangeAssumption DEF Subject
  <2> QED BY <1>0, <1>3, <2>1, AtLimit, NoBillets, AwaitKeeps
<1>4. CASE /\ q.token # None /\ SourceOf(q.token) \in Sources
           /\ Await(h, q, "keys", NoTokenYet)
  BY <1>0, <1>4, Untimed, NoBillets, AwaitKeeps
<1>5. CASE q.token # None /\ Await(h, q, "sts", NoTokenYet)
  BY <1>0, <1>5, Untimed, NoBillets, AwaitKeeps
<1> QED BY <1>1, <1>2, <1>3, <1>4, <1>5 DEF Arrive

\* What is known of a handler that serves a request.
LEMMA HandlerKnown ==
    ASSUME ExchangeInv, NEW h \in Handlers
    PROVE  /\ HandlerOf(pc[h], req[h], since[h], last_refresh, clock)
           /\ pc[h] \notin {"idle", "done"} => req[h] \in Requests
           /\ pc[h] \in {"keys", "verify", "sts"} => req[h].token # None /\ Subject(req[h]) \in Subjects
<1>1. HandlerOf(pc[h], req[h], since[h], last_refresh, clock)
  BY DEF ExchangeInv, HandlersInv
<1>2. pc[h] \notin {"idle", "done"} => req[h] \in Requests
  BY <1>1 DEF HandlerOf
<1>3. pc[h] \in {"keys", "verify", "sts"} => req[h].token # None
  BY <1>1 DEF HandlerOf
<1> QED BY <1>1, <1>2, <1>3, ExchangeAssumption DEF Subject

LEMMA CheckStalenessKeeps ==
    ASSUME ExchangeInv, NEW h \in Handlers, CheckStaleness(h)
    PROVE  HandlersKept'
<1> DEFINE s == SourceOf(req[h].token)
<1>0. UNCHANGED <<clock, last_refresh>> /\ clock \in Nat /\ pc[h] = "keys"
  BY DEF CheckStaleness, jwksVars, ExchangeInv
<1>1. CASE ~Fresh(s)
  BY <1>0, <1>1, FailKeeps DEF CheckStaleness, Answers
<1>2. CASE Fresh(s)
  <2>1. Await(h, req[h], "verify", NoTokenYet)
    BY <1>2 DEF CheckStaleness
  <2>2. req[h] \in Requests /\ req[h].token # None /\ s \in Sources
    BY <1>0, HandlerKnown DEF HandlerOf
  <2>3. last_refresh[s] \in Nat /\ clock <= last_refresh[s] + max_staleness
    <3>1. last_refresh[s] \in Nat
      BY <1>2, <2>2 DEF Fresh, ExchangeInv, JwksInv, JwksTypes
    <3> HIDE DEF s
    <3> QED BY <1>0, <1>2, <3>1, JwksAssumption DEF Fresh
  <2>4. HandlerOf("verify", req[h], clock, last_refresh, clock)
    BY <1>0, <2>2, <2>3, ExchangeAssumption, JwksAssumption, LimiterConstants DEF HandlerOf, Places
  <2> QED BY <1>0, <2>1, <2>4, NoBillets, AwaitKeeps
<1> QED BY <1>1, <1>2

LEMMA VerifyKeeps ==
    ASSUME ExchangeInv, NEW h \in Handlers, Verify(h)
    PROVE  HandlersKept'
<1>0. UNCHANGED <<clock, last_refresh>> /\ clock \in Nat /\ pc[h] = "verify"
  BY DEF Verify, jwksVars, ExchangeInv
<1>1. CASE Fail(h, "unavailable") \/ Fail(h, "invalid_token")
  BY <1>0, <1>1, FailKeeps DEF Answers
<1>2. CASE Await(h, req[h], "limit", NoTokenYet)
  BY <1>0, <1>2, HandlerKnown, AtLimit, NoBillets, AwaitKeeps
<1> QED BY <1>1, <1>2 DEF Verify

LEMMA StsAnswersKeeps ==
    ASSUME ExchangeInv, NEW h \in Handlers, StsAnswers(h)
    PROVE  HandlersKept'
<1>0. UNCHANGED <<clock, last_refresh>> /\ clock \in Nat /\ pc[h] = "sts"
  BY DEF StsAnswers, jwksVars, ExchangeInv
<1>1. CASE Fail(h, "invalid_token")
  BY <1>0, <1>1, FailKeeps DEF Answers
<1>2. CASE Await(h, req[h], "limit", NoTokenYet)
  BY <1>0, <1>2, HandlerKnown, AtLimit, NoBillets, AwaitKeeps
<1> QED BY <1>1, <1>2 DEF StsAnswers

LEMMA LimitKeeps ==
    ASSUME ExchangeInv, NEW h \in Handlers, Limit(h)
    PROVE  HandlersKept'
<1>0. UNCHANGED <<clock, last_refresh>> /\ clock \in Nat /\ pc[h] = "limit"
  BY DEF Limit, jwksVars, ExchangeInv
<1>1. CASE \/ FailSilently(h, "unavailable") \/ Fail(h, "rate_limited")
           \/ FailSilently(h, "rate_limited")
  BY <1>0, <1>1, FailKeeps DEF Answers
<1>2. CASE Await(h, req[h], "resolve", NoTokenYet)
  BY <1>0, <1>2, HandlerKnown, Untimed, NoBillets, AwaitKeeps
<1> QED BY <1>1, <1>2 DEF Limit

LEMMA ResolveFailsKeeps ==
    ASSUME ExchangeInv, NEW h \in Handlers, ResolveFails(h)
    PROVE  HandlersKept'
<1>0. UNCHANGED <<clock, last_refresh>>
  BY DEF ResolveFails, jwksVars
<1>1. PICK answer \in {"insufficient_scope", "unavailable", "listed"} :
         Fail(h, answer) \/ FailSilently(h, answer)
  BY DEF ResolveFails
<1> QED BY <1>0, <1>1, FailKeeps DEF Answers

LEMMA DiscoverKeeps ==
    ASSUME ExchangeInv, NEW h \in Handlers, NEW cedar, Discover(h, cedar)
    PROVE  HandlersKept'
<1>0. UNCHANGED <<clock, last_refresh>>
  BY DEF Discover, jwksVars
<1> DEFINE token == [billets |-> assemble_token_billets(req[h], cedar), cedar |-> cedar,
                     implicit |-> token_billets(req[h])]
<1>1. Accounted(token)
  BY ListAccounted
<1>2. Finish(h, "listed", "none", token)
  BY DEF Discover
<1> HIDE DEF token
<1> QED BY <1>0, <1>1, <1>2, FullReplyKeeps

LEMMA ResolveKeeps ==
    ASSUME ExchangeInv, NEW h \in Handlers, NEW cedar, Resolve(h, cedar)
    PROVE  HandlersKept'
<1>0. UNCHANGED <<clock, last_refresh>> /\ pc[h] = "resolve"
  BY DEF Resolve, jwksVars
<1>1. CASE \/ FailSilently(h, "insufficient_scope") \/ FailSilently(h, "unavailable")
           \/ FailSilently(h, "invalid_request")
  BY <1>0, <1>1, FailKeeps DEF Answers
<1>2. CASE /\ Entitled(req[h], assemble_token_billets(req[h], cedar))
           /\ Succeed(h, TokenOf(req[h], cedar))
  BY <1>0, <1>2, TokenAccounted, FullReplyKeeps DEF Succeed
<1>3. CASE /\ Entitled(req[h], assemble_token_billets(req[h], cedar))
           /\ Await(h, req[h], "certify", TokenOf(req[h], cedar))
  <2>1. req[h] \in Requests
    BY <1>0, HandlerKnown
  <2> QED BY <1>0, <1>3, <2>1, TokenAccounted, Untimed, AwaitKeeps
<1> QED BY <1>1, <1>2, <1>3 DEF Resolve

LEMMA CertifyKeeps ==
    ASSUME ExchangeInv, NEW h \in Handlers, Certify(h)
    PROVE  HandlersKept'
<1>0. UNCHANGED <<clock, last_refresh>> /\ Accounted(issued[h])
  BY DEF Certify, jwksVars, ExchangeInv, HandlersInv
<1>1. CASE Succeed(h, issued[h])
  BY <1>0, <1>1, FullReplyKeeps DEF Succeed
<1>2. CASE FailSilently(h, "invalid_request")
  BY <1>0, <1>2, FailKeeps DEF Answers
<1> QED BY <1>1, <1>2 DEF Certify

LEMMA DisconnectKeeps ==
    ASSUME ExchangeInv, NEW h \in Handlers, Disconnect(h)
    PROVE  HandlersKept'
<1>0. UNCHANGED <<clock, last_refresh>>
  BY DEF Disconnect, jwksVars
<1> QED BY <1>0, FailKeeps DEF Disconnect, Answers

-----------------------------------------------------------------------------
(***************************************************************************)
(* The limiter, with all its subjects.                                      *)
(***************************************************************************)

LEMMA AllowKeepsLimiter ==
    ASSUME clock \in Nat, LimiterInv, NEW s \in Subjects, NEW now \in Nat,
           clock <= now + MaxDelay, now <= clock, AllowRequest(s, now), UNCHANGED clock
    PROVE  LimiterInv'
<1> DEFINE w == Append(Kept(s, now), now)
           g == Append(Recent(granted[s]), clock)
<1>1. windows' = [windows EXCEPT ![s] = w] /\ granted' = [granted EXCEPT ![s] = g]
  BY DEF AllowRequest
<1>2. LimiterOf(w, g, clock)
  <2>1. LimiterOf(windows[s], granted[s], clock)
    BY DEF LimiterInv
  <2>2. clock - MaxDelay <= now
    BY LimiterConstants
  <2>3. Len(PopExpired(windows[s], now - window_duration)) < requests_per_minute
    BY DEF AllowRequest, Kept
  <2> QED BY <2>1, <2>2, <2>3, LimiterGrants DEF Kept, Recent
<1> HIDE DEF w, g
<1>3. /\ windows' = [r \in Subjects |-> windows'[r]]
      /\ granted' = [r \in Subjects |-> granted'[r]]
      /\ windows'[s] = w /\ granted'[s] = g
      /\ \A r \in Subjects : r # s => windows'[r] = windows[r] /\ granted'[r] = granted[r]
  BY <1>1, Zenon DEF LimiterInv
<1>4. ASSUME NEW r \in Subjects
      PROVE  LimiterOf(windows'[r], granted'[r], clock)
  <2>1. CASE r = s
    BY <1>2, <1>3, <2>1, Zenon
  <2>2. CASE r # s
    BY <1>3, <2>2, Zenon DEF LimiterInv
  <2> QED BY <2>1, <2>2
<1> QED BY <1>3, <1>4 DEF LimiterInv

LEMMA DenyKeepsLimiter ==
    ASSUME clock \in Nat, LimiterInv, NEW s \in Subjects, NEW now \in Nat,
           now <= clock, DenyRequest(s, now), UNCHANGED clock
    PROVE  LimiterInv'
<1> DEFINE w == Kept(s, now)
<1>1. windows' = [windows EXCEPT ![s] = w] /\ granted' = granted
  BY DEF DenyRequest
<1>2. LimiterOf(w, granted[s], clock)
  <2>1. LimiterOf(windows[s], granted[s], clock) /\ now \in Int
    BY DEF LimiterInv
  <2> QED BY <2>1, LimiterPops DEF Kept
<1> HIDE DEF w
<1>3. /\ windows' = [r \in Subjects |-> windows'[r]] /\ windows'[s] = w
      /\ \A r \in Subjects : r # s => windows'[r] = windows[r]
  BY <1>1, Zenon DEF LimiterInv
<1>4. ASSUME NEW r \in Subjects
      PROVE  LimiterOf(windows'[r], granted[r], clock)
  <2>1. CASE r = s
    BY <1>2, <1>3, <2>1, Zenon
  <2>2. CASE r # s
    BY <1>3, <2>2, Zenon DEF LimiterInv
  <2> QED BY <2>1, <2>2
<1> QED BY <1>1, <1>3, <1>4 DEF LimiterInv

LEMMA SweepKeepsLimiter ==
    ASSUME clock \in Nat, LimiterInv, Sweep, UNCHANGED clock
    PROVE  LimiterInv'
<1>1. PICK now \in (clock - MaxDelay)..clock : windows' = [s \in Subjects |-> Kept(s, now)]
  BY DEF Sweep
<1>2. now \in Int /\ now <= clock
  BY LimiterConstants
<1>3. ASSUME NEW s \in Subjects
      PROVE  LimiterOf(Kept(s, now), granted[s], clock)
  <2>1. LimiterOf(windows[s], granted[s], clock)
    BY DEF LimiterInv
  <2> QED BY <1>2, <2>1, LimiterPops DEF Kept
<1> QED BY <1>1, <1>3 DEF LimiterInv, Sweep

LEMMA TickKeepsLimiter ==
    ASSUME clock \in Nat, LimiterInv, Tick
    PROVE  LimiterInv'
<1>1. clock' = clock + 1 /\ UNCHANGED <<windows, granted>>
  BY DEF Tick, Advance, limiterVars
<1>2. \A s \in Subjects : LimiterOf(windows[s], granted[s], clock + 1)
  BY LimiterLater DEF LimiterInv
<1> QED BY <1>1, <1>2 DEF LimiterInv

LEMMA LimitKeepsLimiter ==
    ASSUME ExchangeInv, NEW h \in Handlers, Limit(h)
    PROVE  LimiterInv'
<1> DEFINE s == Subject(req[h])
           now == since[h]
<1>0. UNCHANGED clock /\ clock \in Nat /\ LimiterInv
  BY DEF Limit, ExchangeInv
<1>1. s \in Subjects /\ now \in Nat /\ now <= clock /\ clock <= now + MaxDelay
  BY HandlerKnown DEF HandlerOf, Limit
<1>2. AllowRequest(s, now) \/ DenyRequest(s, now)
  BY DEF Limit
<1> HIDE DEF s, now
<1> QED BY <1>0, <1>1, <1>2, AllowKeepsLimiter, DenyKeepsLimiter

-----------------------------------------------------------------------------
(***************************************************************************)
(* The JWKS manager.                                                        *)
(***************************************************************************)

LEMMA JwksConstants ==
    Never \notin Nat /\ max_staleness \in Nat /\ MaxDelay \in Nat /\ refresh_interval \in Nat
BY JwksAssumption, ClockAssumption

\* The state of the source that a step is not about stays.
LEMMA OtherSource ==
    ASSUME NEW s, RefreshOf(s), UNCHANGED clock,
           published'[s] = published[s], withdrawn'[s] = withdrawn[s],
           refresh'[s] = refresh[s], fetched'[s] = fetched[s], fetchedAt'[s] = fetchedAt[s],
           keys'[s] = keys[s], last_refresh'[s] = last_refresh[s]
    PROVE  RefreshOf(s)'
BY DEF RefreshOf, PublishedSince

\* What has been published until t stays so when the provider changes its keys.
LEMMA RotateKeepsHistory ==
    ASSUME JwksTypes, clock \in Nat, NEW s \in Sources, NEW new \in SUBSET SigningKeys, Rotate(s, new),
           NEW ks \in SUBSET SigningKeys, NEW t \in Int, t <= clock, PublishedSince(s, ks, t)
    PROVE  PublishedSince(s, ks, t)'
<1>1. /\ published'[s] = new
      /\ \A k \in SigningKeys :
            withdrawn'[s][k] = IF k \in new THEN Never
                               ELSE IF k \in published[s] THEN clock ELSE withdrawn[s][k]
  BY DEF Rotate, JwksTypes
<1>2. ASSUME NEW k \in ks, k \notin new
      PROVE  withdrawn'[s][k] \in Nat /\ t <= withdrawn'[s][k]
  <2>1. k \in SigningKeys
    OBVIOUS
  <2>2. CASE k \in published[s]
    BY <1>1, <1>2, <2>1, <2>2
  <2>3. CASE k \notin published[s]
    <3>1. withdrawn'[s][k] = withdrawn[s][k]
      BY <1>1, <1>2, <2>1, <2>3
    <3> QED BY <2>3, <3>1 DEF PublishedSince
  <2> QED BY <2>2, <2>3
<1> QED BY <1>1, <1>2 DEF PublishedSince

\* An older date is weaker.
LEMMA Earlier ==
    ASSUME NEW s, NEW ks, NEW t \in Int, NEW u \in Int, u <= t, PublishedSince(s, ks, t)
    PROVE  PublishedSince(s, ks, u)
BY DEF PublishedSince

LEMMA RotateKeepsJwks ==
    ASSUME clock \in Nat, JwksInv, NEW s \in Sources, NEW new \in SUBSET SigningKeys,
           Rotate(s, new), UNCHANGED clock
    PROVE  JwksInv'
<1> USE DEF JwksInv
<1>0. UNCHANGED <<refresh, fetched, fetchedAt, due, ticking, keys, last_refresh>>
  BY DEF Rotate, taskVars
<1>1. JwksTypes'
  <2>1. published' \in [Sources -> SUBSET SigningKeys]
    BY DEF Rotate, JwksTypes
  <2>2. [k \in SigningKeys |-> IF k \in new THEN Never
                               ELSE IF k \in published[s] THEN clock ELSE withdrawn[s][k]]
           \in [SigningKeys -> Nat \cup {Never}]
    BY DEF JwksTypes
  <2>3. withdrawn' \in [Sources -> [SigningKeys -> Nat \cup {Never}]]
    BY <2>2 DEF Rotate, JwksTypes
  <2>4. rotations' \in Nat
    BY DEF Rotate, JwksTypes
  <2> QED BY <1>0, <2>1, <2>3, <2>4 DEF JwksTypes
<1>2. RefreshOf(s)'
  <2>0. /\ keys[s] \in SUBSET SigningKeys /\ fetched[s] \in SUBSET SigningKeys
        /\ fetchedAt[s] \in Nat /\ last_refresh[s] \in Nat \cup {Never}
    BY DEF JwksTypes
  <2>1. refresh[s] # "waiting" => fetchedAt[s] \in Int /\ fetchedAt[s] <= clock
    BY <2>0 DEF RefreshOf
  <2>2. refresh[s] = "fetched" => PublishedSince(s, fetched[s], fetchedAt[s])'
    BY <1>0, <2>0, <2>1, RotateKeepsHistory DEF RefreshOf, PublishedSince
  <2>3. refresh[s] = "stored" => PublishedSince(s, keys[s], fetchedAt[s])'
    BY <1>0, <2>0, <2>1, RotateKeepsHistory DEF RefreshOf, PublishedSince
  <2>4. last_refresh[s] # Never => last_refresh[s] - MaxDelay \in Int /\ last_refresh[s] - MaxDelay <= clock
    BY <2>0, JwksConstants DEF RefreshOf
  <2>5. last_refresh[s] # Never => PublishedSince(s, keys[s], last_refresh[s] - MaxDelay)'
    BY <1>0, <2>0, <2>4, RotateKeepsHistory DEF RefreshOf, PublishedSince
  <2> QED BY <1>0, <2>2, <2>3, <2>5 DEF RefreshOf
<1>3. ASSUME NEW r \in Sources, r # s
      PROVE  RefreshOf(r)'
  <2>1. published'[r] = published[r] /\ withdrawn'[r] = withdrawn[r]
    BY <1>3 DEF Rotate, JwksTypes
  <2> QED BY <1>0, <2>1, OtherSource
<1> QED BY <1>1, <1>2, <1>3

LEMMA NextTickTyped ==
    ASSUME clock \in Nat, JwksTypes, NEW s \in Sources, NextTick(s)
    PROVE  due' \in [Sources -> Nat] /\ ticking' \in [Sources -> BOOLEAN]
<1>1. due[s] + refresh_interval \in Nat /\ clock + refresh_interval \in Nat
  BY JwksConstants DEF JwksTypes
<1> QED BY <1>1 DEF NextTick, JwksTypes

LEMMA FetchKeysKeepsJwks ==
    ASSUME clock \in Nat, JwksInv, NEW s \in Sources, FetchKeys(s), UNCHANGED clock
    PROVE  JwksInv'
<1> USE DEF JwksInv
<1>0. UNCHANGED <<published, withdrawn, rotations, due, ticking, keys, last_refresh>>
  BY DEF FetchKeys, providerVars
<1>1. JwksTypes'
  BY <1>0 DEF FetchKeys, JwksTypes
<1>2. refresh'[s] = "fetched" /\ fetched'[s] = published[s] /\ fetchedAt'[s] = clock
  BY DEF FetchKeys, JwksTypes
<1>3. RefreshOf(s)'
  <2>1. clock <= clock + MaxDelay /\ last_refresh[s] \in Nat \cup {Never}
    BY JwksConstants DEF JwksTypes
  <2> QED BY <1>0, <1>2, <2>1 DEF RefreshOf, PublishedSince
<1>4. ASSUME NEW r \in Sources, r # s
      PROVE  RefreshOf(r)'
  <2>1. refresh'[r] = refresh[r] /\ fetched'[r] = fetched[r] /\ fetchedAt'[r] = fetchedAt[r]
    BY <1>4 DEF FetchKeys, JwksTypes
  <2> QED BY <1>0, <2>1, OtherSource
<1> QED BY <1>1, <1>3, <1>4

LEMMA RefreshFailsKeepsJwks ==
    ASSUME clock \in Nat, JwksInv, NEW s \in Sources, RefreshFails(s), UNCHANGED clock
    PROVE  JwksInv'
<1> USE DEF JwksInv
<1>0. UNCHANGED <<published, withdrawn, rotations, refresh, fetched, fetchedAt, keys, last_refresh>>
  BY DEF RefreshFails, providerVars
<1>1. JwksTypes'
  BY <1>0, NextTickTyped DEF RefreshFails, JwksTypes
<1> QED BY <1>0, <1>1, OtherSource

LEMMA StoreKeysKeepsJwks ==
    ASSUME clock \in Nat, JwksInv, NEW s \in Sources, StoreKeys(s), UNCHANGED clock
    PROVE  JwksInv'
<1> USE DEF JwksInv
<1>0. UNCHANGED <<published, withdrawn, rotations, fetchedAt, due, ticking, last_refresh>>
  BY DEF StoreKeys, providerVars
<1>1. JwksTypes'
  BY <1>0 DEF StoreKeys, JwksTypes
<1>2. /\ refresh[s] = "fetched"
      /\ refresh'[s] = "stored" /\ keys'[s] = fetched[s]
  BY DEF StoreKeys, JwksTypes
<1>3. RefreshOf(s)'
  <2>1. PublishedSince(s, fetched[s], fetchedAt[s])
    BY <1>2 DEF RefreshOf
  <2>2. fetchedAt[s] \in Nat /\ last_refresh[s] \in Nat \cup {Never}
    BY DEF JwksTypes
  <2>3. last_refresh[s] # Never => PublishedSince(s, fetched[s], last_refresh[s] - MaxDelay)
    <3> HAVE last_refresh[s] # Never
    <3>1. last_refresh[s] \in Nat /\ last_refresh[s] <= fetchedAt[s]
      BY <1>2, <2>2 DEF RefreshOf
    <3>2. last_refresh[s] - MaxDelay \in Int /\ last_refresh[s] - MaxDelay <= fetchedAt[s]
      BY <2>2, <3>1, JwksConstants
    <3> QED BY <2>1, <2>2, <3>2, Earlier
  <2> QED BY <1>0, <1>2, <2>1, <2>3 DEF RefreshOf, PublishedSince
<1>4. ASSUME NEW r \in Sources, r # s
      PROVE  RefreshOf(r)'
  <2>1. refresh'[r] = refresh[r] /\ fetched'[r] = fetched[r] /\ keys'[r] = keys[r]
    BY <1>4 DEF StoreKeys, JwksTypes
  <2> QED BY <1>0, <2>1, OtherSource
<1> QED BY <1>1, <1>3, <1>4

LEMMA StoreTimeKeepsJwks ==
    ASSUME clock \in Nat, JwksInv, NEW s \in Sources, StoreTime(s), UNCHANGED clock
    PROVE  JwksInv'
<1> USE DEF JwksInv
<1>0. UNCHANGED <<published, withdrawn, rotations, fetched, keys>>
  BY DEF StoreTime, providerVars
<1>1. JwksTypes'
  BY <1>0, NextTickTyped DEF StoreTime, JwksTypes
<1>2. refresh[s] = "stored" /\ refresh'[s] = "waiting" /\ last_refresh'[s] = clock
  BY DEF StoreTime, JwksTypes
<1>3. RefreshOf(s)'
  <2>1. /\ PublishedSince(s, keys[s], fetchedAt[s])
        /\ fetchedAt[s] \in Nat /\ clock <= fetchedAt[s] + MaxDelay
    BY <1>2 DEF RefreshOf, JwksTypes
  <2>2. clock - MaxDelay \in Int /\ clock - MaxDelay <= fetchedAt[s] /\ fetchedAt[s] \in Int
    BY <2>1, JwksConstants
  <2>3. PublishedSince(s, keys[s], clock - MaxDelay)
    BY <2>1, <2>2, Earlier
  <2> QED BY <1>0, <1>2, <2>3 DEF RefreshOf, PublishedSince
<1>4. ASSUME NEW r \in Sources, r # s
      PROVE  RefreshOf(r)'
  <2>1. /\ refresh'[r] = refresh[r] /\ fetchedAt'[r] = fetchedAt[r]
        /\ last_refresh'[r] = last_refresh[r]
    BY <1>4 DEF StoreTime, JwksTypes
  <2> QED BY <1>0, <2>1, OtherSource
<1> QED BY <1>1, <1>3, <1>4

LEMMA TickKeepsJwks ==
    ASSUME clock \in Nat, JwksInv, Tick
    PROVE  JwksInv'
<1> USE DEF JwksInv
<1>0. clock' = clock + 1 /\ UNCHANGED jwksVars
  BY DEF Tick, Advance
<1>1. JwksTypes'
  BY <1>0 DEF JwksTypes, jwksVars, providerVars, taskVars
<1>2. ASSUME NEW s \in Sources
      PROVE  RefreshOf(s)'
  <2>0. RefreshOf(s)
    OBVIOUS
  <2>1. fetchedAt[s] \in Nat /\ last_refresh[s] \in Nat \cup {Never}
    BY DEF JwksTypes
  <2>2. refresh[s] # "waiting" => fetchedAt[s] <= clock + 1 /\ clock + 1 <= fetchedAt[s] + MaxDelay
    <3> HAVE refresh[s] # "waiting"
    <3>1. fetchedAt[s] <= clock
      BY <2>0 DEF RefreshOf
    <3>2. clock - fetchedAt[s] < MaxDelay
      BY DEF Tick, RefreshInTime
    <3> QED BY <2>1, <3>1, <3>2, JwksConstants
  <2>3. last_refresh[s] # Never => last_refresh[s] <= clock + 1
    BY <2>0, <2>1 DEF RefreshOf
  <2>4. UNCHANGED <<published, withdrawn, refresh, fetched, fetchedAt, keys, last_refresh>>
    BY <1>0 DEF jwksVars, providerVars, taskVars
  <2> QED BY <1>0, <2>0, <2>2, <2>3, <2>4 DEF RefreshOf, PublishedSince
<1> QED BY <1>1, <1>2

LEMMA JwksNextKeepsJwks ==
    ASSUME clock \in Nat, JwksInv, JwksNext, UNCHANGED clock
    PROVE  JwksInv'
BY RotateKeepsJwks, FetchKeysKeepsJwks, RefreshFailsKeepsJwks, StoreKeysKeepsJwks,
   StoreTimeKeepsJwks DEF JwksNext

-----------------------------------------------------------------------------
(***************************************************************************)
(* The handlers while the others move.                                      *)
(***************************************************************************)

\* A later refresh makes no key older.
LEMMA RefreshKeepsHandlers ==
    ASSUME ExchangeInv, JwksNext, UNCHANGED <<clock, pc, req, since, issued>>
    PROVE  HandlersInv'
<1>1. \A s \in Sources : last_refresh[s] # Never =>
         last_refresh'[s] # Never /\ (last_refresh'[s] = last_refresh[s] \/ last_refresh'[s] = clock)
  <2> SUFFICES ASSUME NEW s \in Sources, last_refresh[s] # Never
               PROVE  last_refresh'[s] = last_refresh[s] \/ last_refresh'[s] = clock
    BY JwksConstants DEF ExchangeInv
  <2>1. CASE UNCHANGED last_refresh
    BY <2>1
  <2>2. CASE \E r \in Sources : StoreTime(r)
    BY <2>2 DEF StoreTime, ExchangeInv, JwksInv, JwksTypes
  <2> QED BY <2>1, <2>2 DEF JwksNext, Rotate, FetchKeys, RefreshFails, StoreKeys
<1>2. ASSUME NEW h \in Handlers
      PROVE  HandlerOf(pc[h], req[h], since[h], last_refresh', clock)
  <2> DEFINE s == SourceOf(req[h].token)
  <2>1. HandlerOf(pc[h], req[h], since[h], last_refresh, clock)
    BY HandlerKnown
  <2>2. CASE pc[h] # "verify"
    BY <2>1, <2>2 DEF HandlerOf
  <2>3. CASE pc[h] = "verify"
    <3>1. /\ s \in Sources /\ since[h] \in Nat /\ since[h] <= clock
          /\ last_refresh[s] # Never /\ since[h] <= last_refresh[s] + max_staleness
      BY <2>1, <2>3 DEF HandlerOf
    <3> HIDE DEF s
    <3>2. since[h] <= clock + max_staleness
      BY <3>1, JwksConstants DEF ExchangeInv
    <3>3. last_refresh'[s] # Never /\ since[h] <= last_refresh'[s] + max_staleness
      BY <1>1, <3>1, <3>2
    <3> QED BY <2>1, <2>3, <3>3 DEF HandlerOf, s
  <2> QED BY <2>2, <2>3
<1>3. HandlersInv
  BY DEF ExchangeInv
<1> QED BY <1>2, <1>3 DEF HandlersInv, Accounted, Reserved, reserved_prefixes

LEMMA TickKeepsHandlers ==
    ASSUME ExchangeInv, Tick, Still
    PROVE  HandlersInv'
<1>0. /\ clock' = clock + 1 /\ clock \in Nat
      /\ UNCHANGED <<pc, req, since, issued, last_refresh>>
  BY DEF Tick, Advance, Still, jwksVars, ExchangeInv
<1>1. ASSUME NEW h \in Handlers
      PROVE  HandlerOf(pc[h], req[h], since[h], last_refresh, clock + 1)
  <2>1. HandlerOf(pc[h], req[h], since[h], last_refresh, clock)
    BY HandlerKnown
  <2>2. CASE pc[h] \notin {"verify", "limit"}
    BY <2>1, <2>2 DEF HandlerOf
  <2>3. CASE pc[h] \in {"verify", "limit"}
    <3>1. since[h] \in Nat /\ since[h] <= clock
      BY <2>1, <2>3 DEF HandlerOf
    <3>2. clock - since[h] < MaxDelay
      BY <2>3 DEF Tick
    <3>3. since[h] <= clock + 1 /\ clock + 1 <= since[h] + MaxDelay
      BY <1>0, <3>1, <3>2, JwksConstants
    <3> QED BY <2>1, <3>3 DEF HandlerOf
  <2> QED BY <2>2, <2>3
<1>2. HandlersInv
  BY DEF ExchangeInv
<1> QED BY <1>0, <1>1, <1>2 DEF HandlersInv, Accounted, Reserved, reserved_prefixes

-----------------------------------------------------------------------------
(***************************************************************************)
(* The invariant is inductive.                                              *)
(***************************************************************************)

LEMMA ExchangeInvInit ==
    ASSUME ExchangeInit
    PROVE  ExchangeInv
<1>1. LimiterInv
  <2>1. LimiterOf(<<>>, <<>>, clock)
    BY LimiterConstants DEF LimiterOf, Ordered, Matched, Spaced
  <2>2. \A s \in Subjects : windows[s] = <<>> /\ granted[s] = <<>>
    BY DEF ExchangeInit, LimiterInit
  <2>3. windows = [s \in Subjects |-> windows[s]] /\ granted = [s \in Subjects |-> granted[s]]
    BY DEF ExchangeInit, LimiterInit
  <2> QED BY <2>1, <2>2, <2>3 DEF LimiterInv
<1>2. JwksInv
  <2>1. JwksTypes
    BY DEF ExchangeInit, JwksInit, JwksTypes
  <2>2. \A s \in Sources : refresh[s] = "waiting" /\ last_refresh[s] = Never
    BY DEF ExchangeInit, JwksInit
  <2> QED BY <2>1, <2>2 DEF JwksInv, RefreshOf
<1>3. HandlersInv
  <2>1. /\ pc = [h \in Handlers |-> pc[h]] /\ req = [h \in Handlers |-> req[h]]
        /\ since = [h \in Handlers |-> since[h]] /\ issued = [h \in Handlers |-> issued[h]]
    BY DEF ExchangeInit
  <2>2. \A h \in Handlers : pc[h] = "idle" /\ req[h] = None /\ since[h] = 0 /\ issued[h] = NoTokenYet
    BY DEF ExchangeInit
  <2>3. HandlerOf("idle", None, 0, last_refresh, clock)
    BY IdleHandler
  <2> QED BY <2>1, <2>2, <2>3, NoBillets DEF HandlersInv
<1>4. ReplyInv
  <2>1. reply.answer = "none" /\ reply.record = "none" /\ reply.token.billets = {}
    BY DEF ExchangeInit, NoReply, NoTokenYet
  <2> QED BY <2>1 DEF ReplyInv, RecordsMatchTokens, Answers
<1>5. clock \in Nat
  BY DEF ExchangeInit
<1> QED BY <1>1, <1>2, <1>3, <1>4, <1>5 DEF ExchangeInv

LEMMA LimiterStays ==
    ASSUME LimiterInv, UNCHANGED <<clock, limiterVars>>
    PROVE  LimiterInv'
BY DEF LimiterInv, limiterVars

LEMMA JwksStays ==
    ASSUME JwksInv, UNCHANGED <<clock, jwksVars>>
    PROVE  JwksInv'
BY DEF JwksInv, JwksTypes, RefreshOf, PublishedSince, jwksVars, providerVars, taskVars

LEMMA HandlersStay ==
    ASSUME HandlersInv, UNCHANGED <<clock, last_refresh, pc, req, since, issued>>
    PROVE  HandlersInv'
BY DEF HandlersInv, HandlerOf, Subject, SourceOf, Accounted, Reserved, reserved_prefixes

LEMMA ExchangeInvStays ==
    ASSUME ExchangeInv, UNCHANGED vars
    PROVE  ExchangeInv'
<1>1. /\ UNCHANGED <<clock, limiterVars, jwksVars, pc, req, since, issued, reply>>
      /\ UNCHANGED last_refresh
  BY DEF vars, handlerVars, jwksVars
<1>2. LimiterInv' /\ JwksInv'
  BY <1>1, LimiterStays, JwksStays DEF ExchangeInv
<1>3. HandlersInv'
  BY <1>1, HandlersStay DEF ExchangeInv
<1>4. ReplyInv'
  BY <1>1 DEF ExchangeInv, ReplyInv, RecordsMatchTokens, Reserved, reserved_prefixes
<1> QED BY <1>1, <1>2, <1>3, <1>4 DEF ExchangeInv

\* A handler that does not ask the limiter leaves the other two alone.
LEMMA HandlerStepKeeps ==
    ASSUME ExchangeInv, NEW h \in Handlers,
           (\E q \in Requests : Arrive(h, q)) \/ HandlerStep(h) \/ Disconnect(h)
    PROVE  ExchangeInv'
<1>1. HandlersKept'
  BY ArriveKeeps, CheckStalenessKeeps, VerifyKeeps, StsAnswersKeeps, LimitKeeps, ResolveFailsKeeps,
     DiscoverKeeps, ResolveKeeps, CertifyKeeps, DisconnectKeeps DEF HandlerStep
<1>2. UNCHANGED <<clock, jwksVars>>
  BY DEF HandlerStep, Arrive, CheckStaleness, Verify, StsAnswers, Limit, ResolveFails, Discover,
         Resolve, Certify, Disconnect
<1>3. UNCHANGED limiterVars \/ Limit(h)
  BY DEF HandlerStep, Arrive, CheckStaleness, Verify, StsAnswers, ResolveFails, Discover,
         Resolve, Certify, Disconnect
<1>4. LimiterInv'
  BY <1>2, <1>3, LimiterStays, LimitKeepsLimiter DEF ExchangeInv
<1>5. JwksInv'
  BY <1>2, JwksStays DEF ExchangeInv
<1> QED BY <1>1, <1>2, <1>4, <1>5 DEF ExchangeInv, HandlersKept

LEMMA ExchangeInvNext ==
    ASSUME ExchangeInv, [ExchangeNext]_vars
    PROVE  ExchangeInv'
<1>1. CASE \E h \in Handlers : (\E q \in Requests : Arrive(h, q)) \/ HandlerStep(h) \/ Disconnect(h)
  BY <1>1, HandlerStepKeeps
<1>2. CASE Sweep /\ UNCHANGED <<clock, jwksVars>> /\ Still
  <2>0. UNCHANGED <<clock, last_refresh, pc, req, since, issued>> /\ reply' = NoReply
    BY <1>2 DEF Still, jwksVars
  <2>1. LimiterInv' /\ JwksInv'
    BY <1>2, SweepKeepsLimiter, JwksStays DEF ExchangeInv
  <2> QED BY <2>0, <2>1, HandlersStay, NoReplyYet DEF ExchangeInv
<1>3. CASE JwksNext /\ UNCHANGED <<clock, limiterVars>> /\ Still
  <2>0. UNCHANGED <<clock, pc, req, since, issued>> /\ reply' = NoReply
    BY <1>3 DEF Still
  <2>1. LimiterInv' /\ JwksInv'
    BY <1>3, LimiterStays, JwksNextKeepsJwks DEF ExchangeInv
  <2> QED BY <1>3, <2>0, <2>1, RefreshKeepsHandlers, NoReplyYet DEF ExchangeInv
<1>4. CASE Tick /\ Still
  <2>0. reply' = NoReply /\ clock' \in Nat
    BY <1>4 DEF Still, Tick, Advance, ExchangeInv
  <2>1. LimiterInv' /\ JwksInv'
    BY <1>4, TickKeepsLimiter, TickKeepsJwks DEF ExchangeInv
  <2> QED BY <1>4, <2>0, <2>1, TickKeepsHandlers, NoReplyYet DEF ExchangeInv
<1>5. CASE UNCHANGED vars
  BY <1>5, ExchangeInvStays
<1> QED BY <1>1, <1>2, <1>3, <1>4, <1>5 DEF ExchangeNext

LEMMA ExchangeInvariant == ExchangeSpec => []ExchangeInv
<1> QED BY ExchangeInvInit, ExchangeInvNext, PTL DEF ExchangeSpec

-----------------------------------------------------------------------------
(***************************************************************************)
(* The theorems.                                                            *)
(***************************************************************************)

\* Type correctness of the token exchange: a handler has a request exactly while
\* it serves it, and the queue of a subject never exceeds the limit (token_exchange,
\* InMemoryLimiter::allow, JwksSource).
THEOREM ExchangeTypeCorrect == ExchangeSpec => []ExchangeTypes
<1>1. ASSUME ExchangeInv
      PROVE  ExchangeTypes
  <2>1. LimiterTypes
    <3>1. ASSUME NEW s \in Subjects
          PROVE  /\ windows[s] \in Seq(Nat) /\ granted[s] \in Seq(Nat)
                 /\ Len(windows[s]) <= requests_per_minute
      BY <1>1 DEF ExchangeInv, LimiterInv, LimiterOf
    <3> QED BY <1>1, <3>1 DEF ExchangeInv, LimiterInv, LimiterTypes
  <2>2. ASSUME NEW h \in Handlers
        PROVE  /\ pc[h] \in Places /\ req[h] \in Requests \cup {None} /\ since[h] \in Nat
               /\ req[h] = None <=> pc[h] \in {"idle", "done"}
    BY <1>1, HandlerKnown DEF HandlerOf
  <2>3. pc \in [Handlers -> Places]
    BY <1>1, <2>2 DEF ExchangeInv, HandlersInv
  <2>4. req \in [Handlers -> Requests \cup {None}] /\ since \in [Handlers -> Nat]
    BY <1>1, <2>2 DEF ExchangeInv, HandlersInv
  <2> QED BY <1>1, <2>1, <2>2, <2>3, <2>4 DEF ExchangeTypes, ExchangeInv, JwksInv, ReplyInv, Places
<1> QED BY <1>1, ExchangeInvariant, PTL

\* Spaced grants are few: those that count with grant i are among the last
\* requests_per_minute up to i.
LEMMA SpacedIsLimited ==
    ASSUME NEW g \in Seq(Nat), Ordered(g), Spaced(g), NEW i \in 1..Len(g)
    PROVE  Cardinality({j \in 1..i : g[j] >= g[i] - (window_duration - MaxDelay)})
              <= requests_per_minute
<1> DEFINE T == {j \in 1..i : g[j] >= g[i] - (window_duration - MaxDelay)}
           a == i - requests_per_minute + 1
<1>0. requests_per_minute \in Nat /\ i \in Nat /\ Len(g) \in Nat /\ window_duration - MaxDelay \in Nat
  BY LimiterConstants
<1>e. \A j \in 1..Len(g) : g[j] \in Nat
  BY ElementOfSeq
<1>1. T \subseteq a..i
  <2> SUFFICES ASSUME NEW j \in 1..i, g[j] >= g[i] - (window_duration - MaxDelay), j < a
               PROVE  FALSE
    BY <1>0
  <2> DEFINE p == i - requests_per_minute
  <2>1. p \in 1..Len(g) /\ j \in 1..Len(g) /\ j <= p /\ i > requests_per_minute
    BY <1>0
  <2>2. g[p] < g[i] - (window_duration - MaxDelay)
    BY <2>1 DEF Spaced
  <2>3. g[j] <= g[p]
    BY <2>1 DEF Ordered
  <2>4. g[j] \in Nat /\ g[p] \in Nat /\ g[i] \in Nat
    BY <1>e, <2>1
  <2> HIDE DEF p
  <2> QED BY <1>0, <2>2, <2>3, <2>4
<1>2. a \in Int /\ i \in Int
  BY <1>0
<1>3. IsFiniteSet(a..i) /\ Cardinality(a..i) = IF a > i THEN 0 ELSE i - a + 1
  BY <1>2, FS_Interval
<1>4. Cardinality(a..i) <= requests_per_minute /\ Cardinality(a..i) \in Nat
  BY <1>0, <1>3
<1> HIDE DEF T, a
<1>5. Cardinality(T) <= Cardinality(a..i) /\ Cardinality(T) \in Nat
  BY <1>1, <1>3, FS_Subset, FS_CardinalityType
<1>6. Cardinality(T) <= requests_per_minute
  BY <1>0, <1>4, <1>5
<1> QED BY <1>6 DEF T

\* No more requests than the limit get through within the window, less what one
\* may wait for the lock of the map (InMemoryLimiter::allow and the cleanup task),
\* although both use a time that they have read before they have the lock.
THEOREM LimitIsKept == ExchangeSpec => []RateLimitHolds
<1>1. ASSUME ExchangeInv
      PROVE  RateLimitHolds
  <2>1. ASSUME NEW s \in Subjects
        PROVE  granted[s] \in Seq(Nat) /\ Ordered(granted[s]) /\ Spaced(granted[s])
    BY <1>1 DEF ExchangeInv, LimiterInv, LimiterOf
  <2> QED BY <2>1, SpacedIsLimited DEF RateLimitHolds
<1> QED BY <1>1, ExchangeInvariant, PTL

\* A caller gets a token exactly when a success is recorded, and every billet it
\* gets or is shown is accounted for (token_exchange, assemble_token_billets,
\* scope_billets).
THEOREM RecordsAccountForTokens == ExchangeSpec => []RecordsMatchTokens
<1>1. ExchangeInv => RecordsMatchTokens
  BY DEF ExchangeInv, ReplyInv
<1> QED BY <1>1, ExchangeInvariant, PTL

-----------------------------------------------------------------------------
(* The steps that move a handler. *)

LEMMA FinishMoves ==
    ASSUME HandlersInv, NEW g \in Handlers, NEW answer, NEW record, NEW token,
           Finish(g, answer, record, token)
    PROVE  /\ pc'[g] = "done" /\ reply'.answer = answer
           /\ \A h \in Handlers : h # g => pc'[h] = pc[h]
<1>1. pc' = [pc EXCEPT ![g] = "done"] /\ reply'.answer = answer
  BY DEF Finish
<1> QED BY <1>1, Zenon DEF HandlersInv

LEMMA AwaitMoves ==
    ASSUME HandlersInv, NEW g \in Handlers, NEW q, NEW place, NEW token, Await(g, q, place, token)
    PROVE  /\ pc'[g] = place /\ reply'.answer = "none"
           /\ \A h \in Handlers : h # g => pc'[h] = pc[h]
<1>1. pc' = [pc EXCEPT ![g] = place] /\ reply'.answer = "none"
  BY DEF Await, NoReply
<1> QED BY <1>1, Zenon DEF HandlersInv

\* A step of handler g ends its request or has it await something.
Moves(g) ==
    \/ \E answer, record, token : Finish(g, answer, record, token)
    \/ \E q, place, token : Await(g, q, place, token)

LEMMA StepMoves ==
    ASSUME NEW g \in Handlers,
           (\E q \in Requests : Arrive(g, q)) \/ HandlerStep(g) \/ Disconnect(g)
    PROVE  Moves(g)
<1> USE DEF Moves, Fail, FailSilently, Succeed
<1>1. CASE \E q \in Requests : Arrive(g, q)
  BY <1>1, Zenon DEF Arrive
<1>2. CASE CheckStaleness(g) \/ Verify(g) \/ StsAnswers(g)
  BY <1>2, Zenon DEF CheckStaleness, Verify, StsAnswers
<1>3. CASE Limit(g)
  BY <1>3, Zenon DEF Limit
<1>4. CASE ResolveFails(g) \/ Certify(g) \/ Disconnect(g)
  BY <1>4, Zenon DEF ResolveFails, Certify, Disconnect
<1>5. CASE \E cedar \in CedarAnswers : Discover(g, cedar) \/ Resolve(g, cedar)
  BY <1>5, Zenon DEF Discover, Resolve
<1> QED BY <1>1, <1>2, <1>3, <1>4, <1>5 DEF HandlerStep

\* Whoever has moved has taken the step.
LEMMA OwnStep ==
    ASSUME ExchangeInv, [ExchangeNext]_vars, NEW h \in Handlers, pc'[h] # pc[h]
    PROVE  (\E q \in Requests : Arrive(h, q)) \/ HandlerStep(h) \/ Disconnect(h)
<1>1. CASE \E g \in Handlers : (\E q \in Requests : Arrive(g, q)) \/ HandlerStep(g) \/ Disconnect(g)
  <2>1. PICK g \in Handlers : (\E q \in Requests : Arrive(g, q)) \/ HandlerStep(g) \/ Disconnect(g)
    BY <1>1
  <2>2. \A r \in Handlers : r # g => pc'[r] = pc[r]
    BY <2>1, StepMoves, FinishMoves, AwaitMoves DEF Moves, ExchangeInv
  <2>3. h = g
    BY <2>2
  <2> QED BY <2>1, <2>3
<1>2. CASE Still \/ UNCHANGED vars
  BY <1>2 DEF Still, vars, handlerVars
<1> QED BY <1>1, <1>2 DEF ExchangeNext

LEMMA AcceptedByVerify ==
    ASSUME ExchangeInv, [ExchangeNext]_vars, NEW h \in Handlers, pc[h] = "verify", pc'[h] = "limit"
    PROVE  KeysAccept(req[h].token, keys[SourceOf(req[h].token)])
<1>0. HandlersInv
  BY DEF ExchangeInv
<1>1. (\E q \in Requests : Arrive(h, q)) \/ HandlerStep(h) \/ Disconnect(h)
  BY OwnStep
<1>2. Verify(h) \/ Disconnect(h)
  BY <1>1 DEF Arrive, HandlerStep, CheckStaleness, StsAnswers, Limit, ResolveFails, Discover,
              Resolve, Certify
<1>3. \A answer, record, token : ~Finish(h, answer, record, token)
  BY <1>0, FinishMoves
<1>4. ~Disconnect(h)
  BY <1>3 DEF Disconnect, FailSilently
<1> QED BY <1>2, <1>3, <1>4 DEF Verify, Fail

LEMMA DeniedByLimiter ==
    ASSUME ExchangeInv, [ExchangeNext]_vars, NEW h \in Handlers, pc[h] = "limit", pc'[h] = "done",
           reply'.answer = "rate_limited"
    PROVE  DenyRequest(Subject(req[h]), since[h])
<1>0. HandlersInv
  BY DEF ExchangeInv
<1>1. (\E q \in Requests : Arrive(h, q)) \/ HandlerStep(h) \/ Disconnect(h)
  BY OwnStep
<1>2. Limit(h) \/ Disconnect(h)
  BY <1>1 DEF Arrive, HandlerStep, CheckStaleness, Verify, StsAnswers, ResolveFails, Discover,
              Resolve, Certify
<1>3. \A answer, record, token : Finish(h, answer, record, token) => answer = "rate_limited"
  BY <1>0, FinishMoves
<1>4. ~Disconnect(h) /\ ~FailSilently(h, "unavailable")
  BY <1>3 DEF Disconnect, FailSilently
<1>5. \A q, place, token : ~Await(h, q, place, token)
  BY <1>0, AwaitMoves
<1> QED BY <1>2, <1>4, <1>5 DEF Limit

-----------------------------------------------------------------------------

\* A withdrawn key verifies a token for no longer than max_staleness and the two
\* delays, of the refresh that has stored it and of the request (get_keys and
\* refresh_source, whose two locks are taken in opposite orders).
THEOREM WithdrawnKeysAreBounded == ExchangeSpec => WithdrawnKeysExpire
<1> DEFINE Good(h) ==
       LET t == req[h].token
           gone == withdrawn[SourceOf(t)][t.signer]
       IN  \/ t.signer \in published[SourceOf(t)]
           \/ clock - gone <= max_staleness + 2 * MaxDelay
<1>1. ASSUME ExchangeInv, [ExchangeNext]_vars, NEW h \in Handlers, pc[h] = "verify", pc'[h] = "limit"
      PROVE  Good(h)
  <2> DEFINE s == SourceOf(req[h].token)
             k == req[h].token.signer
  <2>1. k \in keys[s]
    BY <1>1, AcceptedByVerify DEF KeysAccept, OidcAccepts, GcpAccepts, VerifiedBy
  <2>2. /\ s \in Sources /\ last_refresh[s] # Never
        /\ since[h] \in Nat /\ clock <= since[h] + MaxDelay
        /\ since[h] <= last_refresh[s] + max_staleness
    BY <1>1, HandlerKnown DEF HandlerOf
  <2>3. clock \in Nat /\ last_refresh[s] \in Nat /\ RefreshOf(s)
    BY <1>1, <2>2 DEF ExchangeInv, JwksInv, JwksTypes
  <2>4. \/ k \in published[s]
        \/ withdrawn[s][k] \in Nat /\ last_refresh[s] - MaxDelay <= withdrawn[s][k]
    BY <2>1, <2>2, <2>3 DEF RefreshOf, PublishedSince
  <2> HIDE DEF s, k
  <2>5. k \in published[s] \/ clock - withdrawn[s][k] <= max_staleness + 2 * MaxDelay
    BY <2>2, <2>3, <2>4, JwksConstants
  <2> QED BY <2>5 DEF s, k
<1>2. ASSUME ExchangeInv, [ExchangeNext]_vars
      PROVE  [\A h \in Handlers : pc[h] = "verify" /\ pc'[h] = "limit" => Good(h)]_vars
  BY <1>1, <1>2
<1> HIDE DEF Good
<1>3. ExchangeSpec => [][\A h \in Handlers : pc[h] = "verify" /\ pc'[h] = "limit" => Good(h)]_vars
  BY <1>2, ExchangeInvariant, PTL DEF ExchangeSpec
<1> QED BY <1>3 DEF WithdrawnKeysExpire, Good

\* The stamps that are kept stand for as many grants within the window.
LEMMA KeptWasGranted ==
    ASSUME LimiterInv, clock \in Nat, NEW s \in Subjects, NEW now \in Nat, now <= clock,
           Len(Kept(s, now)) >= requests_per_minute
    PROVE  UsedUp(s, now)
<1> DEFINE w == windows[s]
           g == granted[s]
           v == Kept(s, now)
           T == {i \in 1..Len(g) : g[i] >= now - window_duration}
           a == Len(g) - Len(v) + 1
<1>0. LimiterOf(w, g, clock) /\ now \in Int /\ now - window_duration \in Int
  BY LimiterConstants DEF LimiterInv
<1>1. LimiterOf(v, g, clock)
  BY <1>0, LimiterPops DEF Kept
<1>2. /\ w \in Seq(Nat) /\ v \in Seq(Nat) /\ g \in Seq(Nat)
      /\ Len(v) \in Nat /\ Len(g) \in Nat /\ Len(v) <= Len(g)
      /\ \A i \in 1..Len(v) : v[i] <= g[Len(g) - Len(v) + i]
      /\ \A i, j \in 1..Len(g) : i <= j => g[i] <= g[j]
      /\ \A i \in 1..Len(g) : g[i] \in Nat
  BY <1>0, <1>1, ElementOfSeq DEF LimiterOf, Matched, Ordered
<1>3. Len(v) > 0 => v[1] >= now - window_duration
  <2>1. PICK f \in 0..Len(w) :
           v = Without(w, f) /\ (f < Len(w) => w[f + 1] >= now - window_duration)
    BY <1>0, <1>2, PopExpiredIsSuffix DEF Kept
  <2>2. Len(v) = Len(w) - f /\ \A i \in 1..(Len(w) - f) : v[i] = w[f + i]
    BY <1>2, <2>1, WithoutProperties
  <2> HIDE DEF v, w
  <2>3. Len(v) > 0 => f < Len(w) /\ 1 \in 1..(Len(w) - f)
    BY <1>2, <2>2
  <2> QED BY <2>1, <2>2, <2>3
<1> HIDE DEF v, w, g
<1>4. a..Len(g) \subseteq T
  <2> SUFFICES ASSUME NEW j \in a..Len(g)
               PROVE  j \in T
    OBVIOUS
  <2>1. j \in 1..Len(g) /\ a \in 1..Len(g) /\ a <= j /\ Len(v) > 0 /\ 1 \in 1..Len(v)
    BY <1>2
  <2>2. v[1] <= g[a] /\ v[1] >= now - window_duration
    BY <1>2, <1>3, <2>1
  <2>3. g[a] <= g[j] /\ g[a] \in Nat /\ g[j] \in Nat /\ v[1] \in Nat
    BY <1>2, <2>1, ElementOfSeq
  <2> HIDE DEF a
  <2>4. g[j] >= now - window_duration
    BY <1>0, <2>2, <2>3
  <2> QED BY <2>1, <2>4
<1>5. /\ IsFiniteSet(1..Len(g)) /\ a \in Int /\ Len(g) \in Int
      /\ Cardinality(a..Len(g)) = IF a > Len(g) THEN 0 ELSE Len(g) - a + 1
  <2>1. 1 \in Int /\ a \in Int /\ Len(g) \in Int
    BY <1>2
  <2> HIDE DEF a
  <2> QED BY <2>1, FS_Interval
<1>6. Cardinality(a..Len(g)) = Len(v)
  BY <1>2, <1>5
<1>7. IsFiniteSet(T)
  BY <1>5, FS_Subset
<1> HIDE DEF T, a
<1>8. Cardinality(a..Len(g)) <= Cardinality(T) /\ Cardinality(T) \in Nat
  BY <1>4, <1>7, FS_Subset, FS_CardinalityType
<1>9. Cardinality(T) >= requests_per_minute
  <2>1. Len(v) >= requests_per_minute
    BY DEF v
  <2> QED BY <1>2, <1>6, <1>8, <2>1, LimiterConstants
<1> QED BY <1>9 DEF UsedUp, T, g

\* Nobody is refused before the limit has been used up within the window
\* (InMemoryLimiter::allow), although stamps are queued out of order and expired
\* ones may wait behind newer ones.
THEOREM RefusalsAreJustified == ExchangeSpec => DenialsJustified
<1>1. ASSUME ExchangeInv, [ExchangeNext]_vars, NEW h \in Handlers, pc[h] = "limit", pc'[h] = "done",
             reply'.answer = "rate_limited"
      PROVE  UsedUp(Subject(req[h]), since[h])
  <2> DEFINE s == Subject(req[h])
             now == since[h]
  <2>1. Len(Kept(s, now)) >= requests_per_minute
    BY <1>1, DeniedByLimiter DEF DenyRequest
  <2>2. s \in Subjects /\ now \in Nat /\ now <= clock
    BY <1>1, HandlerKnown DEF HandlerOf
  <2>3. LimiterInv /\ clock \in Nat
    BY <1>1 DEF ExchangeInv
  <2> HIDE DEF s, now
  <2>4. UsedUp(s, now)
    BY <2>1, <2>2, <2>3, KeptWasGranted
  <2> QED BY <2>4 DEF s, now
<1>2. ASSUME ExchangeInv, [ExchangeNext]_vars
      PROVE  [\A h \in Handlers : pc[h] = "limit" /\ pc'[h] = "done" /\ reply'.answer = "rate_limited" =>
                 UsedUp(Subject(req[h]), since[h])]_vars
  BY <1>1, <1>2
<1> QED BY <1>2, ExchangeInvariant, PTL DEF ExchangeSpec, DenialsJustified
=============================================================================
