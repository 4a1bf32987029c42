---------------------------- MODULE MarketTable ----------------------------
(***************************************************************************)
(* The table of market bars that research and training read, and the two   *)
(* programs that fill it from processes of their own: the live collector   *)
(* (scripts/collect_market_data.py) and the historical backfill            *)
(* (scripts/backfill_market_data.py), over SQLite (app/db/database.py).    *)
(*                                                                         *)
(* One timeframe is kept.  Bar b lasts from b - 1 to b: at time now the    *)
(* bars 1..now are complete and bar now + 1 is forming.  A program looks   *)
(* at the clock and at the table once per step; pysqlite opens a           *)
(* transaction at the first write, so what was read before it may have     *)
(* been overtaken, and what follows it has the table to itself.            *)
(***************************************************************************)
EXTENDS Naturals, FiniteSetsExt

CONSTANTS
    Collectors,     \* runs of the collector that may overlap
    Backfills,      \* runs of the backfill that may overlap
    MaxBar,         \* bound: the last bar
    Limit,          \* bars the collector asks for
    Credentials     \* what a collector may find: {TRUE}, or BOOLEAN

ASSUME ProgramsAssumption == Collectors \cap Backfills = {}
ASSUME BarsAssumption == MaxBar \in Nat \ {0} /\ Limit \in Nat \ {0}
ASSUME CredentialsAssumption == Credentials \subseteq BOOLEAN

VARIABLES
    now,        \* complete bars
    revised,    \* bars whose data the provider has corrected
    rows,       \* collected_market_data: a row of each bar, or NoRow
    pc,         \* where each program stands
    job,        \* what a program has decided on at its start
    answer,     \* the bars it was answered with
    loaded,     \* the rows it has read
    report      \* final_recommendation of the last backfill

market == <<now, revised>>
local == <<pc, job, answer, loaded>>
tableVars == <<market, rows, local, report>>

Programs == Collectors \cup Backfills
Bars == 1..MaxBar
Real == {"partial", "final", "revised"}
Datas == Real \cup {"synthetic"}
NoRow == [data |-> "none", live |-> FALSE]
Row(data, live) == [data |-> data, live |-> live]
NoJob == [since |-> 0, dry |-> FALSE, bad |-> FALSE]
NoBars == [b \in {} |-> "none"]
Recommendations == {"none", "backfill_ready", "provider_error", "validation_failed"}

TableInit ==
    /\ now = 0
    /\ revised = {}
    /\ rows = [b \in Bars |-> NoRow]
    /\ pc = [p \in Programs |-> "idle"]
    /\ job = [p \in Programs |-> NoJob]
    /\ answer = [p \in Programs |-> NoBars]
    /\ loaded = [p \in Programs |-> NoBars]
    /\ report = "none"

(***************************************************************************)
(* The market and its provider                                             *)
(***************************************************************************)

Content(b) ==
    IF b > now THEN "partial" ELSE IF b \in revised THEN "revised" ELSE "final"

BarEnds ==
    /\ now < MaxBar
    /\ now' = now + 1
    /\ UNCHANGED <<revised, rows, local, report>>

Revise ==
    /\ \E b \in 1..now : revised' = revised \cup {b}
    /\ UNCHANGED <<now, rows, local, report>>

(***************************************************************************)
(* A program ends, or dies: its transaction, if any, is rolled back.       *)
(***************************************************************************)
Ends(p) ==
    /\ pc' = [pc EXCEPT ![p] = "idle"]
    /\ job' = [job EXCEPT ![p] = NoJob]
    /\ answer' = [answer EXCEPT ![p] = NoBars]
    /\ loaded' = [loaded EXCEPT ![p] = NoBars]

\* A crash, a refused request of the collector, a lock not granted in time.
Dies(p) ==
    /\ pc[p] # "idle"
    /\ Ends(p)
    /\ UNCHANGED <<market, rows, report>>

Reading(p) == pc[p] = "reading" /\ DOMAIN loaded[p] # DOMAIN answer[p]
NextBar(p) == Min(DOMAIN answer[p] \ DOMAIN loaded[p])
With(f, b, value) == [c \in DOMAIN f \cup {b} |-> IF c = b THEN value ELSE f[c]]

(***************************************************************************)
(* The collector                                                           *)
(***************************************************************************)

\* The quote comes first, and a failure to get one is no failure.  What a row
\* says of the quote is left out.
CollectorStarts(p) ==
    /\ pc[p] = "idle"
    /\ pc' = [pc EXCEPT ![p] = "asked"]
    /\ UNCHANGED <<market, rows, job, answer, loaded, report>>

\* The newest Limit bars, which may include the forming one.  Without
\* credentials the client makes them up.
CollectorAnswered(p) ==
    /\ pc[p] = "asked"
    /\ \E newest \in {now, now + 1}, real \in Credentials :
        LET bars == {b \in Bars : newest - Limit < b /\ b <= newest}
        IN  /\ bars # {}
            /\ answer' = [answer EXCEPT ![p] =
                            [b \in bars |-> IF real THEN Content(b) ELSE "synthetic"]]
    /\ pc' = [pc EXCEPT ![p] = "reading"]
    /\ UNCHANGED <<market, rows, job, loaded, report>>

\* One SELECT per bar, each of what is committed at that time.
CollectorReads(p) ==
    /\ Reading(p)
    /\ loaded' = [loaded EXCEPT ![p] = With(@, NextBar(p), rows[NextBar(p)])]
    /\ UNCHANGED <<market, rows, pc, job, answer, report>>

Collected(p, b) == Row(answer[p][b], TRUE)

\* Deviation: a row read as backfilled keeps its mark.
MergeKeepingMark(read, new, current) ==
    [c \in DOMAIN new |-> IF c # "live" /\ new[c] # read[c] THEN new[c] ELSE current[c]]

\* The mapper writes the columns that differ from the row it has read.
Merge(read, new, current) ==
    [c \in DOMAIN new |-> IF new[c] # read[c] THEN new[c] ELSE current[c]]

\* The unique index refuses a bar somebody else has inserted since.
Refused(p, bars) == \E b \in bars : loaded[p][b] = NoRow /\ rows[b] # NoRow

CollectorWrites(p) ==
    /\ pc[p] = "reading" /\ ~Reading(p)
    /\ rows' = IF Refused(p, DOMAIN answer[p]) THEN rows ELSE
                [b \in Bars |->
                    IF b \notin DOMAIN answer[p] THEN rows[b]
                    ELSE IF loaded[p][b] = NoRow THEN Collected(p, b)
                    ELSE Merge(loaded[p][b], Collected(p, b), rows[b])]
    /\ Ends(p)
    /\ UNCHANGED <<market, report>>

(***************************************************************************)
(* The backfill                                                            *)
(***************************************************************************)

\* Its clock is read once.  An unsafe environment ends it at once.
BackfillStarts(p) ==
    /\ pc[p] = "idle"
    /\ \/ /\ \E dry \in BOOLEAN : job' = [job EXCEPT ![p] = [NoJob EXCEPT !.since = now, !.dry = dry]]
          /\ pc' = [pc EXCEPT ![p] = "asked"]
          /\ UNCHANGED report
       \/ /\ report' = "validation_failed"
          /\ UNCHANGED <<pc, job>>
    /\ UNCHANGED <<market, rows, answer, loaded>>

\* _complete_request_end, and _validate_bar on what comes back.
Complete(p, b) == b <= job[p].since

\* Pages and retries are one answer or one failure.  The end of the request
\* is the start of the forming bar, which the provider may include; other
\* bars may be malformed or given twice.
BackfillAnswered(p) ==
    /\ pc[p] = "asked"
    /\ \E bars \in SUBSET (1..(job[p].since + 1) \cap Bars) :
        LET valid == {b \in bars : Complete(p, b)}
        IN  IF valid = {}
            THEN report' = "provider_error" /\ Ends(p)
            ELSE /\ answer' = [answer EXCEPT ![p] = [b \in valid |-> Content(b)]]
                 /\ \E malformed \in BOOLEAN :
                        job' = [job EXCEPT ![p].bad = malformed \/ bars # valid]
                 /\ pc' = [pc EXCEPT ![p] = "reading"]
                 /\ UNCHANGED <<loaded, report>>
    /\ UNCHANGED <<market, rows>>

StorageAction(row, data) ==
    IF row = NoRow THEN "insert"
    ELSE IF row.live \/ row.data = data THEN "skip"
    ELSE "update"

\* Rows are read until the first that has to be written.
BackfillReads(p) ==
    /\ Reading(p)
    /\ loaded' = [loaded EXCEPT ![p] = With(@, NextBar(p), rows[NextBar(p)])]
    /\ pc' = [pc EXCEPT ![p] =
                IF StorageAction(rows[NextBar(p)], answer[p][NextBar(p)]) = "skip" \/ job[p].dry
                THEN "reading" ELSE "storing"]
    /\ UNCHANGED <<market, rows, job, answer, report>>

Recommendation(p) == IF job[p].bad THEN "validation_failed" ELSE "backfill_ready"

\* Nothing to write, or a dry run.
BackfillSkips(p) ==
    /\ pc[p] = "reading" /\ ~Reading(p)
    /\ report' = Recommendation(p)
    /\ Ends(p)
    /\ UNCHANGED <<market, rows>>

Stored(action, row, data) ==
    IF action = "skip" THEN row ELSE Row(data, FALSE)

\* The first write was decided before the transaction, the others are decided
\* in it.  A refused insert ends the program, which blames the provider.
BackfillStores(p) ==
    /\ pc[p] = "storing"
    /\ LET first == Max(DOMAIN loaded[p])
           Seen(b) == IF b = first THEN loaded[p][b] ELSE rows[b]
       IN  IF Refused(p, {first})
           THEN report' = "provider_error" /\ UNCHANGED rows
           ELSE /\ report' = Recommendation(p)
                /\ rows' = [b \in Bars |->
                    IF b \notin DOMAIN answer[p] \/ b < first THEN rows[b]
                    ELSE Stored(StorageAction(Seen(b), answer[p][b]), rows[b], answer[p][b])]
    /\ Ends(p)
    /\ UNCHANGED market

CollectorStep(p) ==
    CollectorStarts(p) \/ CollectorAnswered(p) \/ CollectorReads(p) \/ CollectorWrites(p)

BackfillStep(p) ==
    \/ BackfillStarts(p) \/ BackfillAnswered(p)
    \/ BackfillReads(p) \/ BackfillSkips(p) \/ BackfillStores(p)

TableNext ==
    \/ BarEnds
    \/ Revise
    \/ \E p \in Programs : Dies(p)
    \/ \E p \in Collectors : CollectorStep(p)
    \/ \E p \in Backfills : BackfillStep(p)

TableSpec == TableInit /\ [][TableNext]_tableVars

(***************************************************************************)
(* Properties                                                              *)
(***************************************************************************)

TableTypeOK ==
    /\ now \in 0..MaxBar
    /\ revised \subseteq 1..now
    /\ \A b \in Bars : rows[b] = NoRow \/ rows[b].data \in Datas
    /\ \A p \in Programs :
        /\ pc[p] \in {"idle", "asked", "reading", "storing"}
        /\ DOMAIN loaded[p] \subseteq DOMAIN answer[p]
        /\ DOMAIN answer[p] \subseteq Bars
    /\ report \in Recommendations

\* "Excludes the currently forming candle", "does not use synthetic candles":
\* a row that says it was backfilled holds complete data of the provider,
\* although the collector rewrites rows from answers of any age.
BackfilledAreFinal ==
    \A b \in Bars : rows[b] # NoRow /\ ~rows[b].live => rows[b].data \in {"final", "revised"}

\* A backfill that reports success has every valid bar it was answered with in
\* the table, whoever else inserted bars while it read them.
ReadyMeansStored ==
    [][\A p \in Backfills :
        /\ pc[p] \in {"reading", "storing"} /\ pc'[p] = "idle"
        /\ ~job[p].dry
        /\ report # "backfill_ready" /\ report' = "backfill_ready"
        => \A b \in DOMAIN answer[p] : rows'[b] # NoRow]_tableVars

\* "Existing realtime row is preserved, not overwritten."
LiveRowsArePreserved ==
    [][\A p \in Backfills, b \in Bars :
        /\ pc[p] = "storing" /\ pc'[p] = "idle"
        /\ rows[b] # NoRow /\ rows[b].live
        => rows'[b] = rows[b]]_tableVars

\* A complete bar never becomes a forming one again.
FinalStaysFinal ==
    [][\A b \in Bars :
        rows[b].data \in {"final", "revised"} => rows'[b].data # "partial"]_tableVars

=============================================================================
