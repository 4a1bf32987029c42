----------------------------- MODULE WalkForward -----------------------------
(***************************************************************************)
(* Which rows a model is trained on and which it is then scored on, in the *)
(* validation of app/ml/validation.py and, in a loop of its own, in the    *)
(* backtest of app/backtest/scalping.py that promotion weighs against it;  *)
(* and the slices higher timeframe research backtests one by one.          *)
(*                                                                         *)
(* Rows are numbered in the order of time.  Model and scores are left out. *)
(***************************************************************************)
EXTENDS Loops, FiniteSetsExt

CONSTANTS
    MaxRows,        \* bound: rows of a dataset
    TrainRows,      \* bound: values of min_training_rows
    FoldCounts,     \* bound: folds and splits asked for
    MinFold,        \* a fold has at least as many rows,
    MinTail         \* and one with no more than these is dropped

ASSUME WalkForwardAssumption ==
    /\ MaxRows \in Nat /\ TrainRows \subseteq Nat \ {0} /\ FoldCounts \subseteq Nat \ {0}
    /\ MinTail \in Nat /\ MinFold \in Nat /\ MinFold > MinTail

VARIABLES
    data,       \* the rows, and how many of the first have labels of one kind
    asked,      \* min_train_rows and folds
    validated,  \* what walk_forward_validate returned, and its folds
    backtested, \* likewise walk_forward_fee_aware_backtest
    slices      \* what chronological_walk_forward_splits returned

walkVars == <<data, asked, validated, backtested, slices>>

Unmeasured == [reason |-> "not_run", folds |-> <<>>]

WalkInit ==
    /\ data \in UNION {[rows : {rows}, dull : 0..rows] : rows \in 0..MaxRows}
    /\ asked \in [start : TrainRows, folds : FoldCounts]
    /\ validated = Unmeasured /\ backtested = Unmeasured
    /\ slices = <<>>

FoldSize == Max({MinFold, (data.rows - asked.start) \div asked.folds})

\* A fold trains on the rows before "from" and is scored on those up to "to".
Fold(k) ==
    LET from == asked.start + (k - 1) * FoldSize
    IN  [from |-> from, to |-> Min({data.rows, from + FoldSize})]

Trainable(fold) == fold.from > data.dull
LongEnough(fold) == fold.to > fold.from + MinTail
AllFolds == [k \in 1..asked.folds |-> Fold(k)]

ScoredFolds ==
    Kept(AllFolds, {k \in 1..asked.folds : LongEnough(Fold(k)) /\ Trainable(Fold(k))})

\* Deviation: the folds may be as short as they come.
PredictionFoldsShort ==
    Kept(AllFolds, {k \in 1..asked.folds : Trainable(Fold(k))})

WalkForwardValidate ==
    /\ validated = Unmeasured
    /\ validated' =
        IF data.rows < asked.start
            THEN [reason |-> "not_enough_rows", folds |-> <<>>]
        ELSE IF data.dull = data.rows
            THEN [reason |-> "target_class_diversity_too_low", folds |-> <<>>]
        ELSE IF ScoredFolds = <<>>
            THEN [reason |-> "no_trainable_validation_folds", folds |-> <<>>]
        ELSE [reason |-> "none", folds |-> ScoredFolds]
    /\ UNCHANGED <<data, asked, backtested, slices>>

PredictionFolds ==
    Kept(AllFolds, {k \in 1..asked.folds : LongEnough(Fold(k)) /\ Trainable(Fold(k))})

FeeAwareBacktest ==
    /\ validated # Unmeasured /\ backtested = Unmeasured
    /\ backtested' =
        IF data.rows < asked.start
            THEN [reason |-> "not_enough_rows", folds |-> <<>>]
        ELSE IF PredictionFolds = <<>>
            THEN [reason |-> "no_validation_folds", folds |-> <<>>]
        ELSE [reason |-> "none", folds |-> PredictionFolds]
    /\ UNCHANGED <<data, asked, validated, slices>>

\* numpy.array_split: the first slices have a row more; empty ones are left out.
Slice(k) ==
    LET size == data.rows \div asked.folds
        longer == data.rows % asked.folds
        from == (k - 1) * size + Min({k - 1, longer})
    IN  [from |-> from, to |-> from + size + IF k <= longer THEN 1 ELSE 0]

SplitResearch ==
    /\ slices = <<>> /\ data.rows > 0
    /\ slices' = Kept([k \in 1..asked.folds |-> Slice(k)],
                           {k \in 1..asked.folds : Slice(k).to > Slice(k).from})
    /\ UNCHANGED <<data, asked, validated, backtested>>

WalkNext == WalkForwardValidate \/ FeeAwareBacktest \/ SplitResearch

WalkSpec == WalkInit /\ [][WalkNext]_walkVars

(***************************************************************************)
(* Properties                                                              *)
(***************************************************************************)

Apart(folds) == \A i, j \in DOMAIN folds : i < j => folds[i].to <= folds[j].from
RowsOf(folds) == UNION {folds[i].from..(folds[i].to - 1) : i \in DOMAIN folds}

\* Validation and backtest score the same rows, so that one weighs against the
\* other; no row is scored twice or by a model that was trained on it, and of
\* the most recent rows fewer are left out than a fold must have.  The slices of
\* research are in the order of time and cover every row once, evenly.
FoldsLookForward ==
    /\ backtested # Unmeasured =>
        /\ (validated.reason = "none") = (backtested.reason = "none")
        /\ validated.folds = backtested.folds
    /\ Apart(validated.folds)
    /\ \A i \in DOMAIN validated.folds : validated.folds[i].from >= asked.start
    /\ validated.reason = "none" =>
        data.rows - validated.folds[Len(validated.folds)].to
            <= Max({MinTail, asked.folds - 1})
    /\ slices # <<>> =>
        /\ Apart(slices) /\ RowsOf(slices) = 0..(data.rows - 1)
        /\ \A i, j \in DOMAIN slices :
            slices[i].to - slices[i].from <= slices[j].to - slices[j].from + 1

=============================================================================
