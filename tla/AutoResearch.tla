---------------------------- MODULE AutoResearch ----------------------------
(***************************************************************************)
(* scripts/auto_research_train.py, which a timer starts beside the         *)
(* collector and the backfill: it inspects the table of MarketTable, runs  *)
(* the research of scripts/research_higher_timeframe.py over it, and       *)
(* trains a model if every gate is passed.  The table is that of the 15Min *)
(* bars, which are also the training timeframe; hours are derived from     *)
(* them.  Each query sees the table as it is then, while the clock of the  *)
(* run is read once.  What indicators, trades and labels come to is a      *)
(* choice; which of it may count is not.                                   *)
(***************************************************************************)
EXTENDS MarketTable, FiniteSets

CONSTANTS
    MinRows,        \* rows that make the timeframe ready
    WantedRows,     \* rows the settings ask for: lookback_bars, or
                    \* min_training_rows + 300
    RowCap,         \* rows a training loads at most: 20_000
    ResearchRows,   \* bars that make research of a timeframe valid
    MaxAge,         \* bars after which the latest bar is stale
    MaxHourAge,     \* bars after the start of an hour until it is stale
    Ratio           \* bars of an hour

ASSUME StudyAssumption ==
    /\ MinRows \in Nat \ {0} /\ WantedRows \in Nat /\ RowCap \in Nat \ {0}
    /\ ResearchRows \in Nat \ {0} /\ Ratio \in Nat \ {0}
    /\ MaxAge \in Nat /\ MaxHourAge \in Nat

VARIABLES
    stage,      \* where the run stands
    study,      \* what it has found so far
    outcome     \* its report, until the next run

researchVars == <<stage, study, outcome>>
allVars == <<tableVars, researchVars>>

Families == {"classic", "v3"}
Frames == {"15Min", "1H"}
Nothing == [valid |-> FALSE, source |-> "none", bars |-> NoBars]
NoStudy == [asof |-> 0, run |-> FALSE, forced |-> FALSE, flags |-> "off",
            ready |-> FALSE, ran |-> FALSE, quarters |-> Nothing, hours |-> Nothing,
            promising |-> {}, counted |-> {}, loaded |-> {}]
NoOutcome == [recommendation |-> "none", researched |-> FALSE, valid |-> FALSE,
              trained |-> FALSE, accepted |-> FALSE, flags |-> "off"]
ResearchAdvice == {"collect_more_data", "improve_strategy", "other"}

ResearchInit ==
    /\ stage = "idle"
    /\ study = NoStudy
    /\ outcome = NoOutcome

\* The bars that have a row.
Finished == {b \in Bars : rows[b] # NoRow}

(***************************************************************************)
(* Environment and readiness                                               *)
(***************************************************************************)

\* What is wrong with the trading flags is only a warning to a dry run.
Fatal(flags, run) == flags = "unsafe" \/ (flags = "trading" /\ run)

ResearchStarts ==
    /\ stage = "idle"
    /\ \E run, forced \in BOOLEAN, flags \in {"off", "trading", "unsafe"} :
        IF Fatal(flags, run)
        THEN /\ outcome' = [NoOutcome EXCEPT !.recommendation = "keep_auto_trading_disabled",
                                             !.flags = flags]
             /\ UNCHANGED <<stage, study>>
        ELSE /\ study' = [NoStudy EXCEPT !.asof = now, !.run = run,
                                         !.forced = forced, !.flags = flags]
             /\ stage' = "inspecting"
             /\ outcome' = NoOutcome
    /\ UNCHANGED tableVars

\* Bar b is stamped with its start, b - 1; a stamp of the future has age 0.
Ready(bars) ==
    /\ Cardinality(bars) >= MinRows
    /\ study.asof + 1 - Max(bars) <= MaxAge

\* Research runs if it is forced, or if one of two timeframes is ready.  Of the
\* rows that were counted, the run itself remembers only how many there were.
Inspect ==
    /\ stage = "inspecting"
    /\ \E ran \in BOOLEAN :
        /\ study.forced \/ Ready(Finished) => ran
        /\ study' = [study EXCEPT !.ready = Ready(Finished), !.counted = Finished,
                                  !.ran = ran]
        /\ stage' = IF ran THEN "fetching" ELSE "deciding"
    /\ UNCHANGED <<tableVars, outcome>>

(***************************************************************************)
(* Research: its bars                                                      *)
(***************************************************************************)

\* Enough bars, the newest of them fresh at the time of the run.
Assessed(bars, start, age) ==
    /\ Cardinality(bars) >= ResearchRows
    /\ \E b \in bars : study.asof - start[b] <= age

Starts == [b \in Bars |-> b - 1]
HourStarts == [h \in Bars |-> Ratio * (h - 1)]
Parts(h) == (Ratio * (h - 1) + 1)..(Ratio * h)

\* Rows up to the clock of the run; else what the client answers, given
\* credentials; synthetic bars are not asked for.
FetchQuarters ==
    /\ stage = "fetching"
    /\ LET found == {b \in Finished : b <= study.asof + 1}
       IN  \/ /\ Assessed(found, Starts, MaxAge)
              /\ study' = [study EXCEPT !.quarters =
                    [valid |-> TRUE, source |-> "collected",
                     bars |-> [b \in found |-> rows[b].data]]]
           \/ /\ ~Assessed(found, Starts, MaxAge)
              /\ TRUE \in Credentials
              /\ \E bars \in SUBSET (1..(study.asof + 1) \cap Bars) :
                    /\ Assessed(bars, Starts, MaxAge)
                    /\ study' = [study EXCEPT !.quarters =
                            [valid |-> TRUE, source |-> "client",
                             bars |-> [b \in bars |-> Content(b)]]]
           \/ /\ ~Assessed(found, Starts, MaxAge)
              /\ UNCHANGED study
    /\ stage' = "deriving"
    /\ UNCHANGED <<tableVars, outcome>>

\* An hour is kept if it has all its rows, and is made of what they hold.
Derive(bars) ==
    [h \in {g \in Bars : Parts(g) \subseteq DOMAIN bars} |-> {bars[b] : b \in Parts(h)}]

\* Nobody stores hours: the client has them, or valid bars do.
FetchHours ==
    /\ stage = "deriving"
    /\ LET derived == Derive(study.quarters.bars)
       IN  \/ /\ TRUE \in Credentials
              /\ study' = [study EXCEPT !.hours =
                    [valid |-> TRUE, source |-> "client", bars |-> NoBars]]
           \/ /\ study' = [study EXCEPT !.hours =
                    [valid |-> study.quarters.valid /\ Assessed(DOMAIN derived, HourStarts, MaxHourAge),
                     source |-> study.quarters.source,
                     bars |-> IF study.quarters.valid THEN derived ELSE NoBars]]
    /\ stage' = "evaluating"
    /\ UNCHANGED <<tableVars, outcome>>

(***************************************************************************)
(* Research: its results                                                   *)
(***************************************************************************)

Found(frame) == IF frame = "15Min" THEN study.quarters ELSE study.hours

\* paper_forward_readiness_gate: what is promising has valid bars of the table.
Eligible(frame) == Found(frame).valid /\ Found(frame).source = "collected"

ResearchValid == study.ran /\ \A frame \in Frames : Found(frame).valid

\* Every configuration is backtested, walked forward and held against the
\* baselines.  Research that raises counts as not run.
Evaluate ==
    /\ stage = "evaluating"
    /\ \/ \E promising \in SUBSET (Families \X {f \in Frames : Eligible(f)}) :
            study' = [study EXCEPT !.promising = promising]
       \/ study' = [study EXCEPT !.ran = FALSE, !.quarters = Nothing, !.hours = Nothing]
    /\ stage' = "deciding"
    /\ UNCHANGED <<tableVars, outcome>>

Viable == IF ResearchValid THEN study.promising ELSE {}

\* build_concise_research_summary, for all strategies: a viable row is
\* eligible for paper forward or a candidate.
ResearchRecommendation ==
    IF ~ResearchValid THEN "collect_more_data"
    ELSE IF Viable = {} THEN "improve_strategy" ELSE "other"

FifteenMinRejected == \E family \in Families : <<family, "15Min">> \notin study.promising

(***************************************************************************)
(* Gates, training and the report                                          *)
(***************************************************************************)

\* What the diagnostics say of labels and costs, and whether the other
\* timeframes are ready and dips were traded often enough.
Findings == {f \in [labels : BOOLEAN, cost : BOOLEAN, others : BOOLEAN, dips : BOOLEAN] :
                f.others => study.ran}

\* The gates on fallback predictions and synthetic data hold, since no report
\* says so; that on promotion always holds.
GatesPassed(findings) ==
    /\ study.run
    /\ study.ready
    /\ findings.labels
    /\ findings.cost
    /\ \E frame \in Frames : <<"v3", frame>> \in study.promising
    /\ ~FifteenMinRejected

FinalRecommendation(findings) ==
    IF study.flags = "trading" THEN "keep_auto_trading_disabled"
    ELSE IF ~study.ready \/ ~findings.others THEN "collect_more_data"
    ELSE IF study.ran /\ ResearchRecommendation # "other" THEN ResearchRecommendation
    ELSE IF study.ran /\ ~findings.dips THEN "run_longer_backfill"
    ELSE IF study.ran /\ \A frame \in Frames : <<"classic", frame>> \notin Viable
         THEN "improve_strategy"
    ELSE "keep_auto_trading_disabled"

Reports(recommendation, trained, accepted) ==
    /\ outcome' = [recommendation |-> recommendation, researched |-> study.ran,
                   valid |-> ResearchValid, trained |-> trained,
                   accepted |-> accepted, flags |-> study.flags]
    /\ stage' = "idle"
    /\ study' = NoStudy

Decide ==
    /\ stage = "deciding"
    /\ \E findings \in Findings :
        IF GatesPassed(findings)
        THEN stage' = "training" /\ UNCHANGED <<study, outcome>>
        ELSE Reports(FinalRecommendation(findings), FALSE, FALSE)
    /\ UNCHANGED tableVars

\* _training_bar_limit, from the count of the readiness check.
TrainingLimit ==
    Min({Max({Cardinality(study.counted), WantedRows, MinRows}), RowCap})

\* Deviation: the first rows of the query are the oldest.
NewestFromOldest(bars, limit) == {b \in bars : Cardinality({c \in bars : c < b}) < limit}

\* ORDER BY timestamp DESC LIMIT limit
Newest(bars, limit) == {b \in bars : Cardinality({c \in bars : c > b}) < limit}

\* load_collected_bars: the table is asked again, whatever its rows are by now
\* and whatever the time.
LoadRows ==
    /\ stage = "training"
    /\ study' = [study EXCEPT !.loaded = Newest(Finished, TrainingLimit)]
    /\ stage' = "fitting"
    /\ UNCHANGED <<tableVars, outcome>>

\* The model is fitted to what was loaded, and accepted or not.
Train ==
    /\ stage = "fitting"
    /\ \/ Reports("keep_auto_trading_disabled", TRUE, TRUE)
       \/ \E findings \in Findings : Reports(FinalRecommendation(findings), TRUE, FALSE)
    /\ UNCHANGED tableVars

\* Killed, or a query or the training that raises: no report is written.
ResearchDies ==
    /\ stage # "idle"
    /\ stage' = "idle"
    /\ study' = NoStudy
    /\ UNCHANGED <<tableVars, outcome>>

ResearchNext ==
    \/ ResearchStarts \/ Inspect \/ FetchQuarters \/ FetchHours
    \/ Evaluate \/ Decide \/ LoadRows \/ Train \/ ResearchDies

MarketInit == TableInit /\ ResearchInit
MarketNext == (TableNext /\ UNCHANGED researchVars) \/ ResearchNext
MarketSpec == MarketInit /\ [][MarketNext]_allVars

(***************************************************************************)
(* Properties                                                              *)
(***************************************************************************)

\* A training was let through for rows that were counted before the research; it
\* loads its own afterwards, up to a limit made of that count, with other writers
\* in between.  It still gets as many as were counted, or as it ever loads, and
\* what it leaves out of them is older than all it gets: the rows that made the
\* table fresh are among those it learns from.
TrainsOnCountedRows ==
    stage = "fitting" =>
        /\ Cardinality(study.counted) >= MinRows
        /\ Cardinality(study.loaded) >= Min({Cardinality(study.counted), RowCap})
        /\ \A b \in study.counted \ study.loaded, c \in study.loaded : b < c

\* "Research decisions remain invalid if synthetic data is used."
SyntheticIsInvalid ==
    ResearchValid /\ stage \in {"evaluating", "deciding", "training", "fitting"}
        => \A b \in DOMAIN study.quarters.bars : study.quarters.bars[b] # "synthetic"

\* "Derives complete hourly bars and drops incomplete hours."
DerivedAreComplete ==
    \A h \in DOMAIN study.hours.bars : "partial" \notin study.hours.bars[h]

=============================================================================
