----------------------------- MODULE MCGuards -----------------------------
(***************************************************************************)
(* Model-checking instance of five components that stand around a run and  *)
(* share no state: RateLimiter, MarketDataCache, Exits, IocGuard and       *)
(* Alerts.  One of them moves, the one in focus from the start, and only   *)
(* its fairness is assumed.                                                *)
(***************************************************************************)
EXTENDS RateLimiter, IocGuard, MCExits, MarketDataCache, Alerts

VARIABLE focus

Focuses == {"limiter", "exits", "ioc", "cache", "alerts"}
guardVars == <<focus, vars, exitVars, iocVars, cacheVars, alertVars>>

MCInit ==
    /\ Init /\ ExitInit /\ IocInit /\ CacheInit /\ AlertInit
    /\ focus \in Focuses
    /\ focus # "exits" => settings = CHOOSE s \in Settings : TRUE
    /\ focus # "cache" => keys

Limiter(Step) ==
    focus = "limiter" /\ Step /\ UNCHANGED <<focus, exitVars, iocVars, cacheVars, alertVars>>
Ioc(Step) ==
    focus = "ioc" /\ Step /\ UNCHANGED <<focus, vars, exitVars, cacheVars, alertVars>>

LimiterMoves == Limiter(Next)
IocMoves == Ioc(IocNext)
ExitsMove ==
    focus = "exits" /\ ExitNext /\ UNCHANGED <<focus, vars, iocVars, cacheVars, alertVars>>
CacheMoves ==
    focus = "cache" /\ CacheNext /\ UNCHANGED <<focus, vars, exitVars, iocVars, alertVars>>
AlertsMove ==
    focus = "alerts" /\ AlertNext /\ UNCHANGED <<focus, vars, exitVars, iocVars, cacheVars>>

MCNext == LimiterMoves \/ ExitsMove \/ IocMoves \/ CacheMoves \/ AlertsMove

\* Fairness of FairSpec and of FairIocSpec, of the component in focus.
MCSpec ==
    /\ MCInit /\ [][MCNext]_guardVars
    /\ WF_guardVars(Limiter(Tick))
    /\ \A c \in Callers : WF_guardVars(Limiter(Resume(c)))
    /\ WF_guardVars(Ioc(IocTick))
    /\ WF_guardVars(Ioc(RunWithoutOrder))

TypeOK == LimiterTypeOK /\ ExitTypeOK /\ IocTypeOK /\ CacheTypeOK /\ AlertTypeOK
=============================================================================
