---------------------------- MODULE GuardProofs ----------------------------
(***************************************************************************)
(* Theorems about MarketDataCache, Alerts and IocGuard.                    *)
(***************************************************************************)
EXTENDS MarketDataCache, Alerts, IocGuard, FiniteSetTheorems, TLAPS

(***************************************************************************)
(* The cache of bars                                                       *)
(***************************************************************************)

\* Bars were not stale when they were stored, and have aged as long as they have
\* been there.
CacheInv ==
    /\ cache.filled => cache.newest <= StaleAfter + cache.stored
    /\ served.from # "budget" => served.newest <= StaleAfter + CacheSeconds

LEMMA LaterType ==
    ASSUME NEW age \in BarAges
    PROVE  Later(age) \in BarAges /\ age <= Later(age) /\ Later(age) <= age + 1
    BY CacheAssumption DEF Later, BarAges, Oldest

LEMMA BarAgesAreNat == BarAges \subseteq Nat /\ 0 \in BarAges
    BY CacheAssumption DEF BarAges, Oldest

LEMMA CacheTypeInit == CacheInit => CacheTypeOK
<1> SUFFICES ASSUME CacheInit PROVE CacheTypeOK
    OBVIOUS
<1>1. cache \in [filled : BOOLEAN, stored : BarAges, newest : BarAges]
    BY BarAgesAreNat DEF CacheInit
<1>2. fetches \in [Fetchers -> [at : {"idle", "waiting", "answered"},
                                end : BarAges, newest : BarAges]]
    BY BarAgesAreNat DEF CacheInit, NoFetch
<1>3. served \in [from : {"none", "cache", "budget", "synthetic", "request"},
                  newest : BarAges]
    BY BarAgesAreNat DEF CacheInit
<1>4. QED
    BY <1>1, <1>2, <1>3 DEF CacheTypeOK, CacheInit

LEMMA CacheTypeStep ==
    ASSUME CacheTypeOK, [CacheNext]_cacheVars
    PROVE  CacheTypeOK'
<1> USE BarAgesAreNat DEF CacheTypeOK
<1>1. CASE ServeCached
    BY <1>1 DEF ServeCached, Serve
<1>2. ASSUME NEW f \in Fetchers, Prepare(f) PROVE CacheTypeOK'
    BY <1>2 DEF Prepare, NoFetch
<1>3. ASSUME NEW f \in Fetchers, Synthesize(f) PROVE CacheTypeOK'
    BY <1>3 DEF Synthesize, Store, Serve
<1>4. ASSUME NEW f \in Fetchers, Answer(f) PROVE CacheTypeOK'
    BY <1>4 DEF Answer
<1>5. ASSUME NEW f \in Fetchers, Receive(f) PROVE CacheTypeOK'
    <2>1. fetches[f].newest \in BarAges
        OBVIOUS
    <2>2. fetches' \in [Fetchers -> [at : {"idle", "waiting", "answered"},
                                     end : BarAges, newest : BarAges]]
        BY <1>5 DEF Receive, NoFetch
    <2>3. CASE Stale(fetches[f].newest)
        BY <1>5, <2>2, <2>3 DEF Receive
    <2>4. CASE ~Stale(fetches[f].newest)
        <3>1. cache' = [filled |-> TRUE, stored |-> 0, newest |-> fetches[f].newest]
            BY <1>5, <2>4 DEF Receive, Store
        <3>2. served' = [from |-> "request", newest |-> fetches[f].newest]
            BY <1>5, <2>4 DEF Receive, Serve
        <3>3. cache' \in [filled : BOOLEAN, stored : BarAges, newest : BarAges]
            BY <2>1, <3>1
        <3>4. QED
            BY <1>5, <2>1, <2>2, <3>2, <3>3 DEF Receive
    <2>5. QED
        BY <2>3, <2>4
<1>6. ASSUME NEW f \in Fetchers, FetchFails(f) PROVE CacheTypeOK'
    BY <1>6 DEF FetchFails, NoFetch
<1>7. CASE CacheTick
    <2>1. cache' \in [filled : BOOLEAN, stored : BarAges, newest : BarAges]
        BY <1>7, LaterType DEF CacheTick
    <2>2. fetches' \in [Fetchers -> [at : {"idle", "waiting", "answered"},
                                     end : BarAges, newest : BarAges]]
        BY <1>7, LaterType DEF CacheTick, NoFetch
    <2>3. QED
        BY <1>7, <2>1, <2>2 DEF CacheTick
<1>8. CASE UNCHANGED cacheVars
    BY <1>8 DEF cacheVars
<1>9. QED
    BY <1>1, <1>2, <1>3, <1>4, <1>5, <1>6, <1>7, <1>8 DEF CacheNext

LEMMA CacheInvStep ==
    ASSUME CacheTypeOK, CacheInv, [CacheNext]_cacheVars
    PROVE  CacheInv'
<1> USE CacheAssumption, BarAgesAreNat DEF CacheTypeOK, CacheInv
<1>1. CASE ServeCached
    <2>1. CASE Hit /\ Serve("cache", cache.newest)
        <3>1. /\ cache.filled
              /\ cache.stored <= CacheSeconds
              /\ served'.newest = cache.newest
            BY <2>1 DEF Hit, Serve
        <3>2. cache.newest \in Nat /\ cache.stored \in Nat
            OBVIOUS
        <3>3. cache.newest <= StaleAfter + cache.stored
            BY <3>1
        <3>4. served'.newest <= StaleAfter + CacheSeconds
            BY <3>1, <3>2, <3>3
        <3>5. QED
            BY <1>1, <3>4 DEF ServeCached
    <2>2. CASE ~Hit /\ cache.filled /\ Serve("budget", cache.newest)
        BY <1>1, <2>2 DEF ServeCached, Serve
    <2>3. QED
        BY <1>1, <2>1, <2>2 DEF ServeCached
<1>2. ASSUME NEW f \in Fetchers, Prepare(f) \/ Answer(f) \/ FetchFails(f)
      PROVE  CacheInv'
    BY <1>2 DEF Prepare, Answer, FetchFails
<1>3. ASSUME NEW f \in Fetchers, Synthesize(f) PROVE CacheInv'
    BY <1>3 DEF Synthesize, Store, Serve
<1>4. ASSUME NEW f \in Fetchers, Receive(f) PROVE CacheInv'
    <2>1. fetches[f].newest \in Nat
        OBVIOUS
    <2>2. CASE Stale(fetches[f].newest)
        BY <1>4, <2>2 DEF Receive
    <2>3. CASE ~Stale(fetches[f].newest)
        BY <1>4, <2>1, <2>3 DEF Receive, Stale, Store, Serve
    <2>4. QED
        BY <2>2, <2>3
<1>5. CASE CacheTick
    <2>1. CASE cache.filled
        <3>1. /\ cache'.stored = Later(cache.stored)
              /\ cache'.newest = Later(cache.newest)
            BY <1>5, <2>1 DEF CacheTick
        <3>2. cache.newest <= StaleAfter + cache.stored
            BY <2>1
        <3>3. Later(cache.newest) <= StaleAfter + Later(cache.stored)
            BY <3>2 DEF Later, BarAges, Oldest
        <3>4. QED
            BY <1>5, <3>1, <3>3 DEF CacheTick
    <2>2. CASE ~cache.filled
        BY <1>5, <2>2 DEF CacheTick
    <2>3. QED
        BY <2>1, <2>2
<1>6. CASE UNCHANGED cacheVars
    BY <1>6 DEF cacheVars
<1>7. QED
    BY <1>1, <1>2, <1>3, <1>4, <1>5, <1>6 DEF CacheNext

\* The cache, the requests and the last answer keep their shape.
THEOREM CacheTypes == CacheSpec => []CacheTypeOK
<1>1. CacheTypeOK /\ [CacheNext]_cacheVars => CacheTypeOK'
    BY CacheTypeStep
<1>2. QED
    BY <1>1, CacheTypeInit, PTL DEF CacheSpec

\* For every lifetime of the cache and every threshold: bars that a run is served
\* are no older than the two together, unless the request budget ran short.
THEOREM RecentBarsTheorem == CacheSpec => []ServedBarsAreRecent
<1>1. CacheInit => CacheInv
    BY CacheAssumption DEF CacheInit, CacheInv
<1>2. CacheTypeOK /\ CacheInv /\ [CacheNext]_cacheVars => CacheInv'
    BY CacheInvStep
<1>3. CacheInv => ServedBarsAreRecent
    BY DEF CacheInv, ServedBarsAreRecent
<1>4. QED
    BY <1>1, <1>2, <1>3, CacheTypes, PTL DEF CacheSpec
(***************************************************************************)
(* The alerts                                                              *)
(***************************************************************************)

\* Who waits for a post has one of a kind; what has arrived is known to the
\* history; and the notifier remembers a kind at most PostTimeout ticks longer
\* than Discord got it.
AlertInv ==
    /\ \A s \in Senders : posts[s] # NoPost =>
        /\ posts[s].kind \in Kinds
        /\ posts[s].arrived => delivered[posts[s].kind] <= posts[s].age
    /\ \A k \in Kinds : sent[k] < AlertCooldown => delivered[k] <= sent[k] + PostTimeout
    /\ silenced.by = "notifier" => silenced.since < AlertCooldown + PostTimeout

PostsType ==
    [Senders -> [kind : Kinds \cup {"none"}, risk : BOOLEAN,
                 age : 0..PostTimeout, arrived : BOOLEAN]]

LEMMA AlertTypeInit == AlertInit => AlertTypeOK
<1> SUFFICES ASSUME AlertInit PROVE AlertTypeOK
    OBVIOUS
<1> USE AlertAssumption DEF AlertInit
<1>1. posts \in PostsType
    BY DEF NoPost, PostsType
<1>2. sent \in [Kinds -> 0..AlertCooldown] /\ delivered \in [Kinds -> 0..Forgotten]
    BY DEF Forgotten
<1>3. risk \in [kind : Kinds \cup {"none"}, age : 0..RiskCooldown]
    BY DEF NoRisk
<1>4. silenced \in [by : {"none", "notifier", "trader"}, since : 0..Forgotten]
    BY DEF NoSilence, Forgotten
<1>5. QED
    BY <1>1, <1>2, <1>3, <1>4 DEF AlertTypeOK, PostsType

\* What is dropped is dropped by one of the two, some time after a delivery.
LEMMA SilenceType ==
    ASSUME AlertTypeOK, NEW by \in {"notifier", "trader"}, NEW k \in Kinds, Silence(by, k)
    PROVE  silenced' \in [by : {"none", "notifier", "trader"}, since : 0..Forgotten]
    BY DEF AlertTypeOK, Silence

LEMMA PostType ==
    ASSUME AlertTypeOK, NEW s \in Senders, NEW k \in Kinds, NEW forRisk \in BOOLEAN,
           Post(s, k, forRisk)
    PROVE  /\ posts' \in PostsType
           /\ posts'[s] = [kind |-> k, risk |-> forRisk, age |-> 0, arrived |-> FALSE]
           /\ \A t \in Senders \ {s} : posts'[t] = posts[t]
<1>1. posts' = [posts EXCEPT ![s] =
                    [kind |-> k, risk |-> forRisk, age |-> 0, arrived |-> FALSE]]
    BY DEF Post, NoPost
<1>2. QED
    BY <1>1, AlertAssumption DEF AlertTypeOK, PostsType

LEMMA AlertTypeStep ==
    ASSUME AlertTypeOK, AlertInv, [AlertNext]_alertVars
    PROVE  AlertTypeOK'
<1> USE AlertAssumption DEF AlertTypeOK
<1>1. ASSUME NEW s \in Senders, NEW k \in Kinds, SendAlert(s, k) PROVE AlertTypeOK'
    <2>1. CASE IsThrottled(k)
        BY <1>1, <2>1, SilenceType DEF SendAlert
    <2>2. CASE ~IsThrottled(k)
        <3>1. posts' \in PostsType
            BY <1>1, <2>2, PostType DEF SendAlert
        <3>2. QED
            BY <1>1, <2>2, <3>1 DEF SendAlert, PostsType
    <2>3. QED
        BY <2>1, <2>2
<1>2. ASSUME NEW s \in Senders, NEW k \in Kinds, SendRiskAlert(s, k) PROVE AlertTypeOK'
    <2>1. CASE RiskIsThrottled(k) /\ Silence("trader", k) /\ UNCHANGED <<risk, posts>>
        BY <1>2, <2>1, SilenceType DEF SendRiskAlert
    <2>2. CASE /\ ~RiskIsThrottled(k) /\ IsThrottled(k)
               /\ Silence("notifier", k)
               /\ risk' = IF RiskCooldown > 0 THEN [kind |-> k, age |-> 0] ELSE NoRisk
               /\ UNCHANGED posts
        <3>1. risk' \in [kind : Kinds \cup {"none"}, age : 0..RiskCooldown]
            BY <2>2 DEF NoRisk
        <3>2. QED
            BY <1>2, <2>2, <3>1, SilenceType DEF SendRiskAlert
    <2>3. CASE /\ ~RiskIsThrottled(k) /\ ~IsThrottled(k)
               /\ Post(s, k, TRUE)
               /\ UNCHANGED <<risk, silenced>>
        <3>1. posts' \in PostsType
            BY <2>3, PostType
        <3>2. QED
            BY <1>2, <2>3, <3>1 DEF SendRiskAlert, PostsType
    <2>4. QED
        BY <1>2, <2>1, <2>2, <2>3 DEF SendRiskAlert
<1>3. ASSUME NEW s \in Senders, Deliver(s) PROVE AlertTypeOK'
    <2>1. posts[s].kind \in Kinds
        BY <1>3 DEF Deliver, AlertInv
    <2>2. delivered' \in [Kinds -> 0..Forgotten]
        BY <1>3, <2>1 DEF Deliver, Forgotten
    <2>3. posts' \in PostsType
        BY <1>3 DEF Deliver, PostsType
    <2>4. QED
        BY <1>3, <2>2, <2>3 DEF Deliver, PostsType
<1>4. ASSUME NEW s \in Senders, PostEnds(s) PROVE AlertTypeOK'
    <2>1. posts[s].kind \in Kinds
        BY <1>4 DEF PostEnds, AlertInv
    <2>2. sent' \in [Kinds -> 0..AlertCooldown]
        BY <1>4, <2>1 DEF PostEnds, Record
    <2>3. posts' \in PostsType
        BY <1>4 DEF PostEnds, NoPost, PostsType
    <2>4. risk' \in [kind : Kinds \cup {"none"}, age : 0..RiskCooldown]
        <3>1. posts[s].age \in Nat
            OBVIOUS
        <3>2. CASE posts[s].risk /\ posts[s].age < RiskCooldown
            BY <1>4, <2>1, <3>1, <3>2 DEF PostEnds
        <3>3. CASE ~posts[s].risk
            BY <1>4, <3>3 DEF PostEnds
        <3>4. CASE posts[s].risk /\ ~(posts[s].age < RiskCooldown)
            BY <1>4, <3>4 DEF PostEnds, NoRisk
        <3>5. QED
            BY <3>2, <3>3, <3>4
    <2>5. QED
        BY <1>4, <2>2, <2>3, <2>4 DEF PostEnds, PostsType
<1>5. CASE AlertTick
    <2>1. sent' \in [Kinds -> 0..AlertCooldown]
        BY <1>5 DEF AlertTick, Aging
    <2>2. delivered' \in [Kinds -> 0..Forgotten]
        BY <1>5 DEF AlertTick, Aging, Forgotten
    <2>3. risk' \in [kind : Kinds \cup {"none"}, age : 0..RiskCooldown]
        BY <1>5 DEF AlertTick, NoRisk
    <2>4. posts' \in PostsType
        BY <1>5 DEF AlertTick, NoPost, PostsType
    <2>5. silenced' \in [by : {"none", "notifier", "trader"}, since : 0..Forgotten]
        BY <1>5 DEF AlertTick, NoSilence, Forgotten
    <2>6. QED
        BY <2>1, <2>2, <2>3, <2>4, <2>5 DEF PostsType
<1>6. CASE UNCHANGED alertVars
    BY <1>6 DEF alertVars
<1>7. QED
    BY <1>1, <1>2, <1>3, <1>4, <1>5, <1>6 DEF AlertNext
\* A new post has not arrived.
LEMMA PostKeepsInv ==
    ASSUME AlertTypeOK, AlertInv, NEW s \in Senders, NEW k \in Kinds,
           NEW forRisk \in BOOLEAN, Post(s, k, forRisk),
           UNCHANGED <<sent, delivered, silenced>>
    PROVE  AlertInv'
<1>1. ASSUME NEW t \in Senders, posts'[t] # NoPost
      PROVE  /\ posts'[t].kind \in Kinds
             /\ posts'[t].arrived => delivered'[posts'[t].kind] <= posts'[t].age
    <2>1. CASE t = s
        <3>1. posts'[t] = [kind |-> k, risk |-> forRisk, age |-> 0, arrived |-> FALSE]
            BY <2>1, PostType
        <3>2. posts'[t].kind = k
            BY <3>1
        <3>3. ~posts'[t].arrived
            BY <3>1
        <3>4. QED
            BY <3>2, <3>3
    <2>2. CASE t # s
        BY <1>1, <2>2, PostType DEF AlertInv
    <2>3. QED
        BY <2>1, <2>2
<1>2. QED
    BY <1>1 DEF AlertInv

\* What the notifier drops, it has sent within the cooldown.
LEMMA SilenceKeepsInv ==
    ASSUME AlertTypeOK, AlertInv, NEW k \in Kinds, NEW by \in {"notifier", "trader"},
           Silence(by, k), by = "notifier" => IsThrottled(k),
           UNCHANGED <<sent, delivered, posts>>
    PROVE  AlertInv'
<1>1. silenced' = [by |-> by, since |-> delivered[k]]
    BY DEF Silence
<1>2. CASE by = "notifier"
    <2>1. sent[k] < AlertCooldown /\ delivered[k] <= sent[k] + PostTimeout
        BY <1>2 DEF IsThrottled, AlertInv
    <2>2. sent[k] \in Nat /\ delivered[k] \in Nat
        BY AlertAssumption DEF AlertTypeOK, Forgotten
    <2>3. delivered[k] < AlertCooldown + PostTimeout
        BY <2>1, <2>2, AlertAssumption
    <2>4. silenced'.since < AlertCooldown + PostTimeout
        BY <1>1, <2>3
    <2>5. QED
        BY <2>4 DEF AlertInv
<1>3. CASE by = "trader"
    <2>1. silenced'.by # "notifier"
        BY <1>1, <1>3
    <2>2. QED
        BY <2>1 DEF AlertInv
<1>4. QED
    BY <1>2, <1>3

LEMMA AlertInvStep ==
    ASSUME AlertTypeOK, AlertInv, [AlertNext]_alertVars
    PROVE  AlertInv'
<1>1. ASSUME NEW s \in Senders, NEW k \in Kinds, SendAlert(s, k) PROVE AlertInv'
    <2>1. CASE IsThrottled(k)
        BY <1>1, <2>1, SilenceKeepsInv DEF SendAlert
    <2>2. CASE ~IsThrottled(k)
        BY <1>1, <2>2, PostKeepsInv DEF SendAlert
    <2>3. QED
        BY <2>1, <2>2
<1>2. ASSUME NEW s \in Senders, NEW k \in Kinds, SendRiskAlert(s, k) PROVE AlertInv'
    <2>1. CASE RiskIsThrottled(k) /\ Silence("trader", k) /\ UNCHANGED <<risk, posts>>
        BY <1>2, <2>1, SilenceKeepsInv DEF SendRiskAlert
    <2>2. CASE IsThrottled(k) /\ Silence("notifier", k) /\ UNCHANGED posts
        BY <1>2, <2>2, SilenceKeepsInv DEF SendRiskAlert
    <2>3. CASE Post(s, k, TRUE) /\ UNCHANGED <<risk, silenced>>
        BY <1>2, <2>3, PostKeepsInv DEF SendRiskAlert
    <2>4. QED
        BY <1>2, <2>1, <2>2, <2>3 DEF SendRiskAlert
<1>3. ASSUME NEW s \in Senders, Deliver(s) PROVE AlertInv'
    <2> DEFINE k == posts[s].kind
    <2>1. k \in Kinds /\ delivered' = [delivered EXCEPT ![k] = 0]
        BY <1>3 DEF Deliver, AlertInv
    <2>2. \A j \in Kinds : delivered'[j] <= delivered[j]
        BY <2>1, AlertAssumption DEF AlertTypeOK, Forgotten
    <2>3. ASSUME NEW t \in Senders, posts'[t] # NoPost
          PROVE  /\ posts'[t].kind \in Kinds
                 /\ posts'[t].arrived => delivered'[posts'[t].kind] <= posts'[t].age
        <3>1. CASE t = s
            <4>1. posts'[t].kind = k /\ posts'[t].age \in Nat
                BY <1>3, <3>1, AlertAssumption DEF Deliver, AlertTypeOK
            <4>2. delivered'[k] = 0
                BY <2>1 DEF AlertTypeOK
            <4>3. QED
                BY <2>1, <4>1, <4>2
        <3>2. CASE t # s
            <4>1. posts'[t] = posts[t]
                BY <1>3, <3>2 DEF Deliver, AlertTypeOK
            <4>2. posts[t].kind \in Kinds
                BY <2>3, <4>1 DEF AlertInv
            <4>3. /\ delivered[posts[t].kind] \in Nat /\ delivered'[posts[t].kind] \in Nat
                  /\ posts[t].age \in Nat
                BY <2>1, <4>2, AlertAssumption DEF AlertTypeOK, Forgotten
            <4>4. posts[t].arrived => delivered[posts[t].kind] <= posts[t].age
                BY <2>3, <4>1 DEF AlertInv
            <4>5. posts[t].arrived => delivered'[posts[t].kind] <= posts[t].age
                BY <2>2, <4>2, <4>3, <4>4
            <4>6. QED
                BY <4>1, <4>2, <4>5
        <3>3. QED
            BY <3>1, <3>2
    <2>4. ASSUME NEW j \in Kinds, sent'[j] < AlertCooldown
          PROVE  delivered'[j] <= sent'[j] + PostTimeout
        <3>1. sent' = sent
            BY <1>3 DEF Deliver
        <3>2. delivered[j] <= sent[j] + PostTimeout
            BY <2>4, <3>1 DEF AlertInv
        <3>3. delivered[j] \in Nat /\ delivered'[j] \in Nat /\ sent[j] \in Nat
            BY <2>1, AlertAssumption DEF AlertTypeOK, Forgotten
        <3>4. QED
            BY <2>2, <3>1, <3>2, <3>3, AlertAssumption
    <2>5. silenced' = silenced
        BY <1>3 DEF Deliver
    <2>6. QED
        BY <2>3, <2>4, <2>5 DEF AlertInv
<1>4. ASSUME NEW s \in Senders, PostEnds(s) PROVE AlertInv'
    <2> DEFINE k == posts[s].kind
    <2>1. k \in Kinds
        BY <1>4 DEF PostEnds, AlertInv
    <2>2. PICK ok \in BOOLEAN : (ok => posts[s].arrived) /\ Record(s, ok)
        BY <1>4 DEF PostEnds
    <2>3. ASSUME NEW j \in Kinds, sent'[j] < AlertCooldown
          PROVE  delivered[j] <= sent'[j] + PostTimeout
        <3>1. CASE ok /\ j = k
            <4>1. sent'[j] = 0
                BY <2>1, <2>2, <3>1 DEF Record, AlertTypeOK
            <4>2. delivered[k] <= posts[s].age
                BY <1>4, <2>2, <3>1 DEF AlertInv, PostEnds
            <4>3. posts[s].age <= PostTimeout /\ posts[s].age \in Nat
                BY AlertAssumption DEF AlertTypeOK
            <4>4. delivered[k] \in Nat
                BY <2>1, AlertAssumption DEF AlertTypeOK, Forgotten
            <4>5. QED
                BY <3>1, <4>1, <4>2, <4>3, <4>4, AlertAssumption
        <3>2. CASE ~(ok /\ j = k)
            <4>1. sent'[j] = sent[j]
                BY <2>1, <2>2, <3>2 DEF Record, AlertTypeOK
            <4>2. QED
                BY <2>3, <4>1 DEF AlertInv
        <3>3. QED
            BY <3>1, <3>2
    <2>4. \A t \in Senders : posts'[t] # NoPost => posts'[t] = posts[t]
        BY <1>4 DEF PostEnds, AlertTypeOK
    <2>5. UNCHANGED <<delivered, silenced>>
        BY <1>4 DEF PostEnds
    <2>6. ASSUME NEW t \in Senders, posts'[t] # NoPost
          PROVE  /\ posts'[t].kind \in Kinds
                 /\ posts'[t].arrived => delivered'[posts'[t].kind] <= posts'[t].age
        BY <2>4, <2>5, <2>6 DEF AlertInv
    <2>7. QED
        BY <2>3, <2>5, <2>6 DEF AlertInv
<1>5. CASE AlertTick
    <2>1. ASSUME NEW t \in Senders, posts'[t] # NoPost
          PROVE  /\ posts'[t].kind \in Kinds
                 /\ posts'[t].arrived => delivered'[posts'[t].kind] <= posts'[t].age
        <3>1. posts[t] # NoPost /\ posts'[t] = [posts[t] EXCEPT !.age = @ + 1]
            BY <1>5, <2>1 DEF AlertTick, AlertTypeOK
        <3>2. /\ posts'[t].kind = posts[t].kind /\ posts'[t].age = posts[t].age + 1
              /\ posts'[t].arrived = posts[t].arrived
            BY <3>1 DEF AlertTypeOK
        <3>3. posts[t].kind \in Kinds
            BY <3>1 DEF AlertInv
        <3>4. delivered[posts[t].kind] \in Nat /\ posts[t].age \in Nat
            BY <3>3, AlertAssumption DEF AlertTypeOK, Forgotten
        <3>5. delivered'[posts[t].kind] <= delivered[posts[t].kind] + 1
            BY <1>5, <3>3, AlertAssumption DEF AlertTick, Aging, AlertTypeOK, Forgotten
        <3>6. posts[t].arrived => delivered[posts[t].kind] <= posts[t].age
            BY <3>1 DEF AlertInv
        <3>7. delivered'[posts[t].kind] \in Nat
            BY <1>5, <3>3, AlertAssumption DEF AlertTick, Aging, AlertTypeOK, Forgotten
        <3>8. posts[t].arrived => delivered'[posts[t].kind] <= posts[t].age + 1
            BY <3>4, <3>5, <3>6, <3>7
        <3>9. QED
            BY <3>2, <3>3, <3>8
    <2>2. ASSUME NEW j \in Kinds, sent'[j] < AlertCooldown
          PROVE  delivered'[j] <= sent'[j] + PostTimeout
        <3>1. sent'[j] = Aging(sent[j], AlertCooldown)
            BY <1>5 DEF AlertTick
        <3>2. delivered'[j] = Aging(delivered[j], Forgotten)
            BY <1>5 DEF AlertTick
        <3>3. sent[j] \in Nat /\ delivered[j] \in 0..Forgotten
            BY AlertAssumption DEF AlertTypeOK
        <3>4. sent[j] < AlertCooldown /\ sent'[j] = sent[j] + 1
            BY <2>2, <3>1, <3>3, AlertAssumption DEF Aging
        <3>5. delivered[j] <= sent[j] + PostTimeout
            BY <3>4 DEF AlertInv
        <3>6. QED
            BY <3>2, <3>3, <3>4, <3>5, AlertAssumption DEF Aging, Forgotten
    <2>3. silenced'.by # "notifier"
        BY <1>5 DEF AlertTick, NoSilence
    <2>4. QED
        BY <2>1, <2>2, <2>3 DEF AlertInv
<1>6. CASE UNCHANGED alertVars
    BY <1>6 DEF alertVars, AlertInv
<1>7. QED
    BY <1>1, <1>2, <1>3, <1>4, <1>5, <1>6 DEF AlertNext

LEMMA AlertInvInit == AlertInit => AlertInv
    BY AlertAssumption DEF AlertInit, AlertInv, NoSilence

LEMMA AlertInvHolds == AlertSpec => [](AlertTypeOK /\ AlertInv)
<1>1. AlertTypeOK /\ AlertInv /\ [AlertNext]_alertVars => (AlertTypeOK /\ AlertInv)'
    BY AlertTypeStep, AlertInvStep
<1>2. QED
    BY <1>1, AlertTypeInit, AlertInvInit, PTL DEF AlertSpec

\* Cooldowns and posts keep their shape.
THEOREM AlertTypes == AlertSpec => []AlertTypeOK
    BY AlertInvHolds, PTL

\* For any number of senders and kinds and all durations: an alert that the
\* notifier drops follows one of its kind that Discord got within the cooldown
\* and the time a post may take.
THEOREM SilenceTheorem == AlertSpec => []SilenceIsEarned
<1>1. AlertInv => SilenceIsEarned
    BY DEF AlertInv, SilenceIsEarned
<1>2. QED
    BY <1>1, AlertInvHolds, PTL

(***************************************************************************)
(* The guard of timed orders                                               *)
(***************************************************************************)

\* The escalation that a run has noticed is in force, and ends when the newest
\* canceled buy is as old as the escalation cooldown.
EscalationInv ==
    noticed = "running" =>
        /\ cancels # <<>>
        /\ cancels[1] < Escalation
        /\ escalated = Escalation - cancels[1]

\* Too many cancels are some.
LEMMA TooManyAreSome ==
    ASSUME IocTypeOK, TooMany
    PROVE  cancels # <<>> /\ cancels[1] \in CancelAges
<1>1. ASSUME cancels = <<>> PROVE FALSE
    <2>1. {i \in DOMAIN cancels : cancels[i] <= Lookback} = {}
        BY <1>1
    <2>2. RecentCount = 0
        BY <2>1, FS_EmptySet DEF RecentCount
    <2>3. QED
        BY <2>2, LimitsAssumption DEF TooMany
<1>2. QED
    BY <1>1 DEF IocTypeOK

\* _ioc_cancel_state keeps the types of what it writes.
LEMMA LookTypes ==
    ASSUME IocTypeOK, Look
    PROVE  escalated' \in 0..Escalation /\ noticed' \in {"none", "running", "forgotten"}
<1>1. CASE TooMany
    <2>1. cancels[1] \in CancelAges
        BY <1>1, TooManyAreSome
    <2>2. Escalated \in 0..Escalation
        BY <2>1, TicksAssumption DEF Escalated, CancelAges, Beyond
    <2>3. QED
        BY <1>1, <2>2 DEF Look, IocTypeOK
<1>2. CASE ~TooMany
    BY <1>2 DEF Look, IocTypeOK
<1>3. QED
    BY <1>1, <1>2

\* CancelAges stay ages.
LEMMA OlderType == \A t \in CancelAges : OlderCancel(t) \in CancelAges
    BY TicksAssumption DEF OlderCancel, CancelAges, Beyond

LEMMA TypeStep ==
    ASSUME IocTypeOK, [IocNext]_iocVars
    PROVE  IocTypeOK'
<1> USE DEF IocTypeOK
<1>1. Another \in 0..MaxStreak
    BY LimitsAssumption DEF Another
<1>2. CASE RunWithoutOrder
    BY <1>2, LookTypes DEF RunWithoutOrder
<1>3. CASE BuyCanceled
    <2>1. cancels' \in Seq(CancelAges) /\ Len(cancels') <= MaxCancels
        <3>1. <<0>> \in Seq(CancelAges)
            BY TicksAssumption DEF CancelAges, Beyond
        <3>2. cancels' = <<0>> \o cancels /\ Len(cancels) < MaxCancels
            BY <1>3 DEF BuyCanceled
        <3>3. Len(cancels') = 1 + Len(cancels) /\ cancels' \in Seq(CancelAges)
            BY <3>1, <3>2
        <3>4. QED
            BY <3>2, <3>3, LimitsAssumption
    <2>2. QED
        BY <1>1, <1>3, <2>1, LookTypes DEF BuyCanceled
<1>4. CASE BuyGoesThrough
    BY <1>4, LookTypes, LimitsAssumption DEF BuyGoesThrough
<1>5. CASE SellCanceled
    BY <1>1, <1>5, LookTypes DEF SellCanceled
<1>6. CASE SellGoesThrough
    BY <1>6, LookTypes, LimitsAssumption DEF SellGoesThrough
<1>7. CASE IocTick
    <2>1. cancels' \in Seq(CancelAges) /\ Len(cancels') = Len(cancels)
        <3>1. cancels' = [i \in 1..Len(cancels) |-> OlderCancel(cancels[i])]
            BY <1>7 DEF IocTick
        <3>2. \A i \in 1..Len(cancels) : OlderCancel(cancels[i]) \in CancelAges
            BY OlderType
        <3>3. QED
            BY <3>1, <3>2
    <2>2. escalated' \in 0..Escalation
        BY <1>7, TicksAssumption DEF IocTick
    <2>3. noticed' \in {"none", "running", "forgotten"}
        BY <1>7 DEF IocTick
    <2>4. QED
        BY <1>7, <2>1, <2>2, <2>3 DEF IocTick
<1>8. CASE IocRestart
    BY <1>8, TicksAssumption DEF IocRestart
<1>9. CASE UNCHANGED iocVars
    BY <1>9 DEF iocVars
<1>10. QED
    BY <1>2, <1>3, <1>4, <1>5, <1>6, <1>7, <1>8, <1>9 DEF IocNext, IocRun

\* A look keeps the escalation, as long as the cancels stay what they are or
\* none is running.
LEMMA LookKeepsEscalation ==
    ASSUME IocTypeOK, EscalationInv, Look
    PROVE  noticed' = "running" =>
               /\ cancels # <<>>
               /\ cancels[1] < Escalation
               /\ escalated' = Escalation - cancels[1]
<1> HAVE noticed' = "running"
<1>1. CASE TooMany
    <2>1. cancels # <<>> /\ cancels[1] \in CancelAges
        BY <1>1, TooManyAreSome
    <2>2. cancels[1] < Escalation
        <3>1. CASE Escalated > 0
            BY <2>1, <3>1, TicksAssumption DEF Escalated, CancelAges, Beyond
        <3>2. CASE ~(Escalated > 0)
            BY <1>1, <3>2 DEF Look, EscalationInv
        <3>3. QED
            BY <3>1, <3>2
    <2>3. escalated' = Escalation - cancels[1]
        BY <1>1, <2>1, <2>2, TicksAssumption DEF Look, Escalated, CancelAges, Beyond
    <2>4. QED
        BY <2>1, <2>2, <2>3
<1>2. CASE ~TooMany
    BY <1>2 DEF Look, EscalationInv
<1>3. QED
    BY <1>1, <1>2

\* While an escalation is running, no buy is let through.
LEMMA RunningBars ==
    ASSUME IocTypeOK, EscalationInv, noticed = "running"
    PROVE  TimedBarred
    BY TicksAssumption DEF EscalationInv, TimedBarred, IocTypeOK, CancelAges, Beyond

LEMMA EscalationStep ==
    ASSUME IocTypeOK, EscalationInv, [IocNext]_iocVars
    PROVE  EscalationInv'
<1>1. ASSUME Look, UNCHANGED cancels PROVE EscalationInv'
    BY <1>1, LookKeepsEscalation DEF EscalationInv
<1>2. CASE RunWithoutOrder
    BY <1>1, <1>2 DEF RunWithoutOrder
<1>3. CASE BuyCanceled
    <2>1. ~TooMany /\ noticed # "running"
        BY <1>3, RunningBars DEF BuyCanceled, Barred, TimedBarred
    <2>2. noticed' # "running"
        BY <1>3, <2>1 DEF BuyCanceled, Look
    <2>3. QED
        BY <2>2 DEF EscalationInv
<1>4. CASE BuyGoesThrough
    BY <1>1, <1>4 DEF BuyGoesThrough
<1>5. CASE SellCanceled
    BY <1>1, <1>5 DEF SellCanceled
<1>6. CASE SellGoesThrough
    BY <1>1, <1>6 DEF SellGoesThrough
<1>7. CASE IocTick
    <2> SUFFICES ASSUME noticed' = "running"
        PROVE  /\ cancels' # <<>>
               /\ cancels'[1] < Escalation
               /\ escalated' = Escalation - cancels'[1]
        BY DEF EscalationInv
    <2>1. noticed = "running" /\ cancels # <<>> /\ ~(cancels'[1] >= Escalation)
        BY <1>7 DEF IocTick
    <2>2. /\ cancels[1] \in CancelAges /\ cancels[1] < Escalation
          /\ escalated = Escalation - cancels[1]
        BY <2>1 DEF EscalationInv, IocTypeOK
    <2>3. cancels' # <<>> /\ cancels'[1] = OlderCancel(cancels[1])
        BY <1>7, <2>1 DEF IocTick, IocTypeOK
    <2>4. OlderCancel(cancels[1]) = cancels[1] + 1
        BY <2>2, TicksAssumption DEF OlderCancel, CancelAges, Beyond
    <2>5. escalated' = escalated - 1
        BY <1>7, <2>2, TicksAssumption DEF IocTick, CancelAges, Beyond
    <2>6. QED
        BY <2>1, <2>2, <2>3, <2>4, <2>5, TicksAssumption DEF CancelAges, Beyond
<1>8. CASE IocRestart
    BY <1>8 DEF IocRestart, EscalationInv
<1>9. CASE UNCHANGED iocVars
    BY <1>9 DEF iocVars, EscalationInv
<1>10. QED
    BY <1>2, <1>3, <1>4, <1>5, <1>6, <1>7, <1>8, <1>9 DEF IocNext, IocRun

LEMMA InitInv == IocInit => IocTypeOK /\ EscalationInv
<1> SUFFICES ASSUME IocInit PROVE IocTypeOK /\ EscalationInv
    OBVIOUS
<1>1. cancels \in Seq(CancelAges) /\ Len(cancels) = 0
    BY DEF IocInit
<1>2. 0 \in 0..MaxStreak /\ 0 \in 0..Escalation /\ 0 <= MaxCancels
    BY TicksAssumption, LimitsAssumption
<1>3. IocTypeOK
    BY <1>1, <1>2 DEF IocInit, IocTypeOK
<1>4. EscalationInv
    BY DEF IocInit, EscalationInv
<1>5. QED
    BY <1>3, <1>4

LEMMA BothHold == IocSpec => [](IocTypeOK /\ EscalationInv)
<1>1. IocTypeOK /\ EscalationInv /\ [IocNext]_iocVars => (IocTypeOK /\ EscalationInv)'
    BY TypeStep, EscalationStep
<1>2. QED
    BY <1>1, InitInv, PTL DEF IocSpec

\* Every variable keeps its type; what is left of an escalation never exceeds
\* its cooldown, although it is measured anew on every run.
THEOREM IocTypes == IocSpec => []IocTypeOK
    BY BothHold, PTL

\* An escalation that a run has noticed keeps every buy out until it is over,
\* for all settings of the guard, whichever is the longer of its durations.
THEOREM EscalationTheorem == IocSpec => []EscalationHolds
<1>1. IocTypeOK /\ EscalationInv => EscalationHolds
    BY RunningBars DEF EscalationHolds
<1>2. QED
    BY <1>1, BothHold, PTL

=============================================================================
