-------------------------- MODULE MarketDataCache --------------------------
(***************************************************************************)
(* MarketDataClient.fetch_bars of app/data/market_data.py, as the runs of  *)
(* one trader share it: a cache with a lifetime, a second look at it when  *)
(* the request budget runs short, and requests whose window ends when they *)
(* are prepared, not when the rate limiter lets them go.  Only how old the *)
(* newest bar is matters: ages are kept in ticks, and alike from Oldest on.*)
(***************************************************************************)
EXTENDS Naturals

CONSTANTS
    Fetchers,       \* coroutines that ask for bars
    CacheSeconds,   \* market_bars_cache_seconds
    StaleAfter      \* stale_threshold_for_timeframe

ASSUME CacheAssumption == CacheSeconds \in Nat /\ StaleAfter \in Nat

VARIABLES
    keys,       \* whether there are credentials
    cache,      \* the bars of the client, and how long ago they were stored
    fetches,    \* where each coroutine stands
    served      \* the last answer to a caller, as old as it was then

cacheVars == <<keys, cache, fetches, served>>

Oldest == CacheSeconds + StaleAfter + 1
BarAges == 0..Oldest
Later(age) == IF age < Oldest THEN age + 1 ELSE Oldest

NoFetch == [at |-> "idle", end |-> 0, newest |-> 0]

CacheInit ==
    /\ keys \in BOOLEAN
    /\ cache = [filled |-> FALSE, stored |-> 0, newest |-> 0]
    /\ fetches = [f \in Fetchers |-> NoFetch]
    /\ served = [from |-> "none", newest |-> 0]

Hit == cache.filled /\ CacheSeconds > 0 /\ cache.stored <= CacheSeconds

Serve(from, newest) == served' = [from |-> from, newest |-> newest]
Store(newest) == cache' = [filled |-> TRUE, stored |-> 0, newest |-> newest]

\* force_refresh looks past both.
ServeCached ==
    /\ \/ Hit /\ Serve("cache", cache.newest)
       \/ ~Hit /\ cache.filled /\ Serve("budget", cache.newest)
    /\ UNCHANGED <<keys, cache, fetches>>

\* A miss, or a forced refresh: the window of the request ends now.
Prepare(f) ==
    /\ fetches[f].at = "idle"
    /\ keys
    /\ fetches' = [fetches EXCEPT ![f] = [NoFetch EXCEPT !.at = "waiting"]]
    /\ UNCHANGED <<keys, cache, served>>

\* Without credentials bars are made up, to this moment.
Synthesize(f) ==
    /\ fetches[f].at = "idle"
    /\ ~keys
    /\ Store(0) /\ Serve("synthetic", 0)
    /\ UNCHANGED <<keys, fetches>>

\* The limiter lets the request go; the provider has what it has of the window.
Answer(f) ==
    /\ fetches[f].at = "waiting"
    /\ \E newest \in BarAges :
        /\ newest >= fetches[f].end
        /\ fetches' = [fetches EXCEPT ![f] =
                         [at |-> "answered", end |-> @.end, newest |-> newest]]
    /\ UNCHANGED <<keys, cache, served>>

Stale(newest) == newest > StaleAfter

\* Deviation: the bars are stored, and then found to be stale.
ReceiveStoring(f) ==
    /\ fetches[f].at = "answered"
    /\ fetches' = [fetches EXCEPT ![f] = NoFetch]
    /\ Store(fetches[f].newest)
    /\ IF Stale(fetches[f].newest) THEN UNCHANGED served
       ELSE Serve("request", fetches[f].newest)
    /\ UNCHANGED keys

\* Stale bars are an error and leave the cache alone.
Receive(f) ==
    /\ fetches[f].at = "answered"
    /\ fetches' = [fetches EXCEPT ![f] = NoFetch]
    /\ IF Stale(fetches[f].newest) THEN UNCHANGED <<cache, served>>
       ELSE Store(fetches[f].newest) /\ Serve("request", fetches[f].newest)
    /\ UNCHANGED keys

\* No answer, an HTTP error, no bars: the caller gets an error.
FetchFails(f) ==
    /\ fetches[f].at # "idle"
    /\ fetches' = [fetches EXCEPT ![f] = NoFetch]
    /\ UNCHANGED <<keys, cache, served>>

CacheTick ==
    /\ cache' = IF cache.filled
                THEN [cache EXCEPT !.stored = Later(@), !.newest = Later(@)] ELSE cache
    /\ fetches' = [f \in Fetchers |->
            CASE fetches[f].at = "idle" -> NoFetch
              [] fetches[f].at = "waiting" -> [fetches[f] EXCEPT !.end = Later(@)]
              [] fetches[f].at = "answered" ->
                    [fetches[f] EXCEPT !.end = Later(@), !.newest = Later(@)]]
    /\ UNCHANGED <<keys, served>>

CacheNext ==
    \/ ServeCached \/ CacheTick
    \/ \E f \in Fetchers :
        Prepare(f) \/ Synthesize(f) \/ Answer(f) \/ Receive(f) \/ FetchFails(f)

CacheSpec == CacheInit /\ [][CacheNext]_cacheVars

(***************************************************************************)
(* Properties                                                              *)
(***************************************************************************)

\* The cache, the requests and the last answer keep their shape.
CacheTypeOK ==
    /\ keys \in BOOLEAN
    /\ cache \in [filled : BOOLEAN, stored : BarAges, newest : BarAges]
    /\ fetches \in [Fetchers -> [at : {"idle", "waiting", "answered"},
                                 end : BarAges, newest : BarAges]]
    /\ served \in [from : {"none", "cache", "budget", "synthetic", "request"},
                   newest : BarAges]

\* Nobody trades on bars that outgrew the threshold while they waited, were on
\* their way or lay in the cache, by more than the lifetime of the cache; only
\* the second look, when the budget runs short, serves what it finds.
ServedBarsAreRecent ==
    served.from # "budget" => served.newest <= StaleAfter + CacheSeconds

\* Bars are only replaced by bars that are no older: what a slow request would
\* have to be kept from.
CacheNeverGoesBack ==
    [][cache.filled /\ cache'.stored = 0 => cache'.newest <= cache.newest]_cacheVars

=============================================================================
