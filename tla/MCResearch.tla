----------------------------- MODULE MCResearch -----------------------------
(***************************************************************************)
(* The programs around the table of market bars, the simulations that      *)
(* research and training run over what they read, and the accounting of    *)
(* filled orders, side by side: one of them moves, the one in focus.  The  *)
(* automatic research moves together with a backfill.                      *)
(***************************************************************************)
EXTENDS AutoResearch, MakerFill, CandidateGates, ConfigGrid,
        ParameterSweep, WalkForward, TradeAccounting

VARIABLE focus      \* what this behaviour is about

offlineVars == <<gateVars, gridVars, sweepVars, walkVars, accountVars>>
simulationVars == <<simVars, makerVars, offlineVars>>

MCInit ==
    /\ MarketInit /\ SimInit /\ MakerInit /\ GateInit /\ GridInit
    /\ SweepInit /\ WalkInit /\ AccountInit
    /\ focus \in {"backfill", "study", "trades", "maker", "gates", "grid", "sweep", "folds",
                 "accounts"}
    /\ focus # "folds" => data = [rows |-> 0, dull |-> 0] /\ asked = [start |-> 3, folds |-> 1]
    /\ focus # "accounts" => costs = [slippage |-> "broker", fee |-> "broker"]
    /\ focus # "trades" => plan = [mode |-> "fixed", scored |-> "trade"]

\* The table by itself: the first two bars, and answers that say no more of them.
TableMoves == TableNext /\ now' < MaxBar /\ \A p \in Programs : MaxBar \notin DOMAIN answer'[p]

\* The table under research: the provider revises nothing, only the research
\* dies, and a backfill is no dry run and gets well-formed bars.
Fills ==
    \/ BarEnds
    \/ \E p \in Backfills : BackfillStep(p) /\ ~job'[p].dry /\ ~job'[p].bad

\* Dry runs of the research, which never train, only meet an unsafe environment, and
\* all that may be promising is, or nothing.
Studies ==
    /\ ResearchNext
    /\ stage' # "idle" => study'.run
    /\ stage = "evaluating" => study'.promising \in {{}, Families \X {f \in Frames : Eligible(f)}}

StudyMoves == (Fills /\ UNCHANGED researchVars) \/ Studies

MCNext ==
    /\ \/ focus = "backfill" /\ TableMoves /\ UNCHANGED <<researchVars, simulationVars>>
       \/ focus = "study" /\ StudyMoves /\ UNCHANGED simulationVars
       \/ focus = "trades" /\ SimNext /\ UNCHANGED <<allVars, makerVars, offlineVars>>
       \/ focus = "maker" /\ MakerNext /\ UNCHANGED <<allVars, simVars, offlineVars>>
       \/ /\ \/ focus = "gates" /\ GateNext /\ UNCHANGED <<gridVars, sweepVars, walkVars, accountVars>>
             \/ focus = "grid" /\ GridNext /\ UNCHANGED <<gateVars, sweepVars, walkVars, accountVars>>
             \/ focus = "sweep" /\ SweepNext /\ UNCHANGED <<gateVars, gridVars, walkVars, accountVars>>
             \/ focus = "folds" /\ WalkNext /\ UNCHANGED <<gateVars, gridVars, sweepVars, accountVars>>
             \/ focus = "accounts" /\ AccountNext /\ UNCHANGED <<gateVars, gridVars, sweepVars, walkVars>>
          /\ UNCHANGED <<allVars, simVars, makerVars>>
    /\ UNCHANGED focus

MCSpec == MCInit /\ [][MCNext]_<<allVars, simulationVars, focus>>

\* The sources research may end with, and what a backtest may measure: a
\* flawless outcome, and one that differs from it in one respect.
AllSources == {[valid |-> TRUE, kind |-> "collected"], [valid |-> TRUE, kind |-> "client"],
               [valid |-> FALSE, kind |-> "synthetic"], [valid |-> FALSE, kind |-> "none"]}

Folds(count, thick, gaining) ==
    [i \in 1..count |-> [trades |-> IF i <= thick THEN 2 ELSE 0, gains |-> i <= gaining]]

Flawless == [trades |-> 4, level |-> 4, strong |-> 4, drawdown |-> 0, concentrated |-> FALSE,
             target |-> 2, hold |-> TRUE, dca |-> TRUE, folds |-> Folds(4, 4, 4)]

MCOutcomes == {Flawless,
    [Flawless EXCEPT !.trades = 3],
    [Flawless EXCEPT !.level = 3, !.strong = 3],
    [Flawless EXCEPT !.strong = 2],
    [Flawless EXCEPT !.level = 1, !.strong = 0],
    [Flawless EXCEPT !.drawdown = 1],
    [Flawless EXCEPT !.drawdown = 3],
    [Flawless EXCEPT !.concentrated = TRUE],
    [Flawless EXCEPT !.target = 1],
    [Flawless EXCEPT !.hold = FALSE],
    [Flawless EXCEPT !.hold = FALSE, !.dca = FALSE],
    [Flawless EXCEPT !.folds = Folds(4, 3, 2)],
    [Flawless EXCEPT !.folds = Folds(5, 4, 3)],
    [Flawless EXCEPT !.folds = Folds(4, 1, 4)],
    [Flawless EXCEPT !.folds = Folds(4, 4, 1)]}

\* Grids of a handful of values, some of them smaller than the limits.
MCFrames == {<<"1H">>, <<"15Min">>, <<"15Min", "1H">>, <<"5Min", "1H", "4H">>}
MCShape == [trend_pullback |-> <<2>>, buy_the_dip |-> <<2, 3>>, uptrend_pullback |-> <<2, 3>>,
    volatility_breakout |-> <<2, 4>>, trend_continuation |-> <<3, 2>>,
    expansion_breakout |-> <<2, 2>>, risk_off |-> <<3>>, focus |-> <<2, 3>>,
    a |-> <<3, 2, 2>>, b |-> <<2, 3, 2>>, m |-> <<3, 3>>, t |-> <<2, 2, 3>>, m9 |-> <<2, 3, 2>>]
MCTwin == [volatility_breakout |-> <<0, 1>>, expansion_breakout |-> <<1, 2>>]

\* Variants that share predictions, and trades that pass the gates or fail one.
MCSizes == <<2, 2, 2>>
MCBases == {<<0, 0, 0>>, <<0, 0, 1>>, <<0, 1, 0>>}

Traded(split, net) == [split |-> split, net |-> net]
Passing == [ambiguous |-> 0, frequent |-> FALSE, trades |->
    <<Traded(1, 3), Traded(1, 3), Traded(2, -1), Traded(2, 2), Traded(2, 3)>>]

Idle == [Passing EXCEPT !.trades = <<>>]

VariantResults == {Passing, Idle,
    [Passing EXCEPT !.ambiguous = 25],
    [Passing EXCEPT !.frequent = TRUE],
    [Passing EXCEPT !.trades = <<Traded(1, 2), Traded(1, 2), Traded(2, 2), Traded(2, 3)>>, !.ambiguous = 10],
    [Passing EXCEPT !.trades = <<Traded(1, 2), Traded(1, 2), Traded(2, 2)>>],
    [Passing EXCEPT !.trades = <<Traded(1, 2), Traded(1, 2), Traded(1, 2), Traded(2, 2)>>],
    [Passing EXCEPT !.trades = <<Traded(1, 2), Traded(1, 2), Traded(1, 2), Traded(1, 2)>>],
    [Passing EXCEPT !.trades = <<Traded(1, 6), Traded(1, 1), Traded(2, 1), Traded(2, 1)>>],
    [Passing EXCEPT !.trades = <<Traded(1, 1), Traded(1, -2), Traded(2, -2), Traded(2, 6)>>],
    [Passing EXCEPT !.trades = <<Traded(1, 1), Traded(1, -1), Traded(2, -1), Traded(2, 1)>>]}

\* The second strategy has no trades, or as good ones as the first.
MCResults == {<<result, Idle>> : result \in VariantResults} \cup {<<Passing, Passing>>}

TypeOK == TableTypeOK /\ SimTypeOK /\ MakerTypeOK /\ GateTypeOK /\ AccountTypeOK
=============================================================================
