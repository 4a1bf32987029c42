----------------------------- MODULE ExitsProofs -----------------------------
(***************************************************************************)
(* Theorems about Exits, for all percentages, prices and settings.         *)
(***************************************************************************)
EXTENDS Exits, TLAPS

(***************************************************************************)
(* What a reason says about the rules                                      *)
(***************************************************************************)

LEMMA LeastOfSeven ==
    ASSUME NEW S, S \subseteq 1..7, S # {}
    PROVE  Min(S) \in S /\ \A j \in S : Min(S) <= j
<1>1. \E i \in S : \A j \in S : i <= j
    <2>1. PICK k \in S : TRUE
        OBVIOUS
    <2>2. CASE 1 \in S
        BY <2>2
    <2>3. CASE 1 \notin S /\ 2 \in S
        BY <2>3
    <2>4. CASE S \cap 1..2 = {} /\ 3 \in S
        BY <2>4
    <2>5. CASE S \cap 1..3 = {} /\ 4 \in S
        BY <2>5
    <2>6. CASE S \cap 1..4 = {} /\ 5 \in S
        BY <2>6
    <2>7. CASE S \cap 1..5 = {} /\ 6 \in S
        BY <2>7
    <2>8. CASE S \cap 1..6 = {}
        <3>1. \A j \in S : j = 7
            BY <2>8
        <3>2. QED
            BY <2>1, <3>1
    <2>9. QED
        BY <2>2, <2>3, <2>4, <2>5, <2>6, <2>7, <2>8
<1>2. QED
    BY <1>1, Zenon DEF Min

\* A rule that is the reason applies, and none before it does.
LEMMA FirstApplies ==
    ASSUME NEW latest, NEW high, NEW reason \in Reasons(latest, high)
    PROVE  \E fresh, signal \in BOOLEAN :
               \/ /\ reason = "hold"
                  /\ \A i \in 1..7 : ~Applies(Ranking[i], latest, high, fresh, signal)
               \/ \E i \in 1..7 :
                      /\ reason = Ranking[i]
                      /\ Applies(Ranking[i], latest, high, fresh, signal)
                      /\ \A j \in 1..7 :
                             Applies(Ranking[j], latest, high, fresh, signal) => i <= j
<1>1. PICK fresh \in BOOLEAN, signal \in BOOLEAN :
          reason = Reason(latest, high, fresh, signal)
    BY DEF Reasons
<1> DEFINE met == {i \in 1..7 : Applies(Ranking[i], latest, high, fresh, signal)}
<1>2. reason = IF met = {} THEN "hold" ELSE Ranking[Min(met)]
    BY <1>1 DEF Reason
<1>3. CASE met = {}
    BY <1>2, <1>3
<1>4. CASE met # {}
    <2>1. Min(met) \in met /\ \A j \in met : Min(met) <= j
        BY <1>4, LeastOfSeven
    <2>2. reason = Ranking[Min(met)]
        BY <1>2, <1>4
    <2>3. QED
        BY <2>1, <2>2
<1>5. QED
    BY <1>3, <1>4

\* The names of the rules, by rank.
LEMMA Ranks ==
    /\ Ranking[1] = "emergency_stop_loss" /\ Ranking[2] = "take_profit"
    /\ Ranking[3] = "trailing_stop" /\ Ranking[4] = "max_position_age"
    /\ Ranking[5] = "stop_loss" /\ Ranking[6] = "stale_data" /\ Ranking[7] = "signal"
    BY DEF Ranking

\* What a reason for a sale says of the position.
LEMMA ReasonApplies ==
    ASSUME NEW latest, NEW high, NEW reason \in Reasons(latest, high)
    PROVE  /\ reason = "emergency_stop_loss" => InEmergency(latest) /\ settings.emergency
           /\ reason = "trailing_stop" => Trails(latest, Higher(high, latest))
           /\ ~settings.scalping => reason \notin {"stop_loss", "stale_data"}
<1>1. PICK fresh \in BOOLEAN, signal \in BOOLEAN :
          reason = "hold" \/ \E i \in 1..7 :
              reason = Ranking[i] /\ Applies(Ranking[i], latest, high, fresh, signal)
    BY FirstApplies
<1>2. reason # "hold" => Applies(reason, latest, high, fresh, signal)
    BY <1>1
<1>3. reason = "emergency_stop_loss" => InEmergency(latest) /\ settings.emergency
    BY <1>2 DEF Applies
<1>4. reason = "trailing_stop" => Trails(latest, Higher(high, latest))
    BY <1>2 DEF Applies
<1>5. reason = "stop_loss" => settings.scalping
    BY <1>2 DEF Applies
<1>6. reason = "stale_data" => settings.scalping
    BY <1>2 DEF Applies
<1>7. QED
    BY <1>3, <1>4, <1>5, <1>6

\* A rule that applies is the reason, unless one before it is.
LEMMA AppliesRanked ==
    ASSUME NEW latest, NEW high, NEW reason \in Reasons(latest, high),
           NEW k \in 1..6,
           \A fresh, signal \in BOOLEAN : Applies(Ranking[k], latest, high, fresh, signal)
    PROVE  \E i \in 1..k : reason = Ranking[i]
    BY FirstApplies

\* What an engine does at a stop.
LEMMA StopSells ==
    ASSUME NEW latest, NEW high, NEW reason \in Reasons(latest, high),
           \/ settings.scalping /\ Down(latest, entry, StopLossPct)
           \/ settings.emergency /\ InEmergency(latest)
    PROVE  Sells(reason, latest)
<1>1. CASE settings.scalping /\ Down(latest, entry, StopLossPct)
    <2>1. \A fresh, signal \in BOOLEAN : Applies(Ranking[5], latest, high, fresh, signal)
        BY <1>1, Ranks DEF Applies
    <2>2. reason \notin {"signal", "hold"}
        BY <2>1, AppliesRanked, Ranks
    <2>3. QED
        BY <1>1, <2>2 DEF Sells, NeedsProfit, IsDuplicate
<1>2. CASE settings.emergency /\ InEmergency(latest)
    <2>1. \A fresh, signal \in BOOLEAN : Applies(Ranking[1], latest, high, fresh, signal)
        BY <1>2, Ranks DEF Applies
    <2>2. reason = "emergency_stop_loss"
        BY <2>1, AppliesRanked, Ranks
    <2>3. QED
        BY <2>2 DEF Sells, NeedsProfit, IsDuplicate
<1>3. QED
    BY <1>1, <1>2

\* What an engine does at the maximum age.
LEMMA AgeSells ==
    ASSUME NEW latest, NEW high, NEW reason \in Reasons(latest, high),
           ~InEmergency(latest), OpenedAge >= MaxAge,
           settings.scalping \/ ~settings.profit_only
    PROVE  Sells(reason, latest)
<1>1. \A fresh, signal \in BOOLEAN : Applies(Ranking[4], latest, high, fresh, signal)
    BY Ranks DEF Applies
<1>2. reason \notin {"signal", "hold"}
    BY <1>1, AppliesRanked, Ranks
<1>3. QED
    BY <1>2 DEF Sells, NeedsProfit, IsDuplicate

\* What a guarded classic engine sells.
LEMMA ClassicSells ==
    ASSUME NEW latest, NEW high, NEW reason \in Reasons(latest, high),
           Sells(reason, latest), ~settings.scalping,
           settings.profit_only, settings.holding_profit, settings.model_profit
    PROVE  Profitable(latest) \/ (settings.emergency /\ InEmergency(latest))
<1>1. CASE reason = "emergency_stop_loss"
    BY <1>1, ReasonApplies
<1>2. CASE reason # "emergency_stop_loss"
    BY <1>2 DEF Sells, NeedsProfit
<1>3. QED
    BY <1>1, <1>2

(***************************************************************************)
(* The invariant                                                           *)
(***************************************************************************)

\* What the memory and the table say of the position, against its history:
\* nothing kept comes from before the buy, and the newest buy is this one.
HistoryInv ==
    held =>
        /\ entry <= peak
        /\ highest <= peak
        /\ settings.local => fill <= peak
        /\ logged => rows["buy"] = age

\* The properties of the last decision.
DecisionInv ==
    /\ TrailingIsEarned
    /\ StopsAreActedOn
    /\ OldPositionsAreSold
    /\ LossesNeedEmergency

Inv == ExitTypeOK /\ HistoryInv /\ DecisionInv

\* Nothing is asked of a step that decides nothing.
LEMMA NoDecisionKeeps ==
    ASSUME last = NoDecision
    PROVE  DecisionInv /\ (last.placed => last.quoted /\ last.reason # "hold")
    BY DEF NoDecision, Decision, DecisionInv, TrailingIsEarned, StopsAreActedOn,
           OldPositionsAreSold, LossesNeedEmergency

LEMMA NoDecisionKeepsNext ==
    ASSUME last' = NoDecision
    PROVE  DecisionInv' /\ (last'.placed => last'.quoted /\ last'.reason # "hold")
    BY DEF NoDecision, Decision, DecisionInv, TrailingIsEarned, StopsAreActedOn,
           OldPositionsAreSold, LossesNeedEmergency

LEMMA SettingsAreBooleans ==
    ASSUME ExitTypeOK
    PROVE  /\ settings.scalping \in BOOLEAN /\ settings.local \in BOOLEAN
           /\ settings.emergency \in BOOLEAN
    BY SettingsAssumption DEF ExitTypeOK

LEMMA ReportedTypes ==
    ASSUME ExitTypeOK, NEW reported \in Reported
    PROVE  reported \in Nat
    BY PricesAssumption DEF ExitTypeOK, Reported

LEMMA HigherBounds ==
    ASSUME NEW p \in Nat, NEW q \in Nat
    PROVE  Higher(p, q) \in Nat /\ p <= Higher(p, q) /\ q <= Higher(p, q)
    BY DEF Higher

\* A trailing stop by a lower price is one by a higher price.
LEMMA TrailsMonotone ==
    ASSUME NEW latest \in Nat, NEW high \in Nat, NEW top \in Nat, high <= top,
           entry \in Nat, Trails(latest, high)
    PROVE  Trails(latest, top)
<1> DEFINE kept == 100 - TrailingPct
<1>1. kept \in Nat /\ ArmPct \in Nat
    BY PercentsAssumption
<1>2. latest * 100 <= high * kept
    BY DEF Trails, Down
<1>3. high * kept <= top * kept
    <2> HIDE DEF kept
    <2>1. PICK more \in Nat : top = high + more
        <3>1. top - high \in Nat /\ top = high + (top - high)
            OBVIOUS
        <3>2. QED
            BY <3>1
    <2>2. top * kept = high * kept + more * kept
        BY <1>1, <2>1
    <2>3. more * kept >= 0 /\ high * kept \in Nat /\ more * kept \in Nat
        BY <1>1, <2>1
    <2>4. QED
        BY <2>2, <2>3
<1>4. high * kept \in Nat /\ top * kept \in Nat
    BY <1>1
<1>5. Down(latest, top, TrailingPct)
    <2>1. latest * 100 <= top * kept
        BY <1>2, <1>3, <1>4
    <2>2. QED
        BY <2>1 DEF Down
<1>6. Up(top, entry, ArmPct)
    <2>1. entry * (100 + ArmPct) \in Nat
        BY <1>1
    <2>2. high * 100 >= entry * (100 + ArmPct)
        BY DEF Trails, Up
    <2>3. QED
        BY <2>1, <2>2 DEF Up
<1>7. QED
    BY <1>5, <1>6 DEF Trails

LEMMA InitInv == ExitInit => Inv
<1> SUFFICES ASSUME ExitInit PROVE Inv
    OBVIOUS
<1>1. ExitTypeOK
    <2>1. rows \in [Sides -> 0..Never]
        BY AgesAssumption DEF ExitInit, Never
    <2>2. age \in 0..MaxAge
        BY AgesAssumption DEF ExitInit
    <2>3. {entry, fill, highest, peak} \subseteq Nat /\ tried \subseteq Sides
        BY DEF ExitInit
    <2>4. settings \in Settings /\ held \in BOOLEAN /\ logged \in BOOLEAN
        BY DEF ExitInit
    <2>5. last.placed => last.quoted /\ last.reason # "hold"
        BY NoDecisionKeeps DEF ExitInit
    <2>6. QED
        BY <2>1, <2>2, <2>3, <2>4, <2>5 DEF ExitTypeOK
<1>2. HistoryInv
    BY DEF ExitInit, HistoryInv
<1>3. DecisionInv
    BY NoDecisionKeeps DEF ExitInit
<1>4. QED
    BY <1>1, <1>2, <1>3 DEF Inv

(***************************************************************************)
(* Steps                                                                   *)
(***************************************************************************)

\* What a reader keeps is a price of this position.
LEMMA SeenIsMet ==
    ASSUME ExitTypeOK, HistoryInv, held, NEW reported \in Reported
    PROVE  /\ Seen(reported) \in Nat
           /\ reported \in Nat
           /\ Seen(reported) <= Higher(peak, reported)
<1>1. /\ entry \in Nat /\ highest \in Nat /\ peak \in Nat
      /\ reported \in Nat /\ highest <= peak /\ entry <= peak
    BY ReportedTypes DEF ExitTypeOK, HistoryInv
<1>2. QED
    BY <1>1 DEF Seen, Higher

LEMMA LookStep ==
    ASSUME Inv, ReadPosition
    PROVE  Inv'
<1>1. PICK reported \in Reported :
          /\ highest' = Seen(reported)
          /\ peak' = IF held THEN Higher(peak, reported) ELSE peak
    BY DEF ReadPosition
<1>2. reported \in Nat /\ peak \in Nat /\ entry \in Nat /\ fill \in Nat
    BY ReportedTypes DEF Inv, ExitTypeOK
<1>3. highest' \in Nat /\ peak' \in Nat /\ peak <= peak' /\ (held => highest' <= peak')
    <2>1. CASE held
        BY <1>1, <1>2, <2>1, SeenIsMet, HigherBounds DEF Inv
    <2>2. CASE ~held
        BY <1>1, <1>2, <2>2 DEF Seen
    <2>3. QED
        BY <2>1, <2>2
<1>4. ExitTypeOK'
    BY <1>3, NoDecisionKeepsNext DEF Inv, ExitTypeOK, ReadPosition, position
<1>5. HistoryInv'
    BY <1>2, <1>3 DEF Inv, HistoryInv, ReadPosition, position
<1>6. DecisionInv'
    BY NoDecisionKeepsNext DEF ReadPosition
<1>7. QED
    BY <1>4, <1>5, <1>6 DEF Inv

LEMMA BuyStep ==
    ASSUME Inv, Buy
    PROVE  Inv'
<1>1. PICK latest \in Prices :
          /\ entry' = latest + Offset
          /\ fill' = IF settings.local THEN latest + Offset ELSE fill
          /\ peak' = latest + Offset
    BY DEF Buy
<1>2. latest + Offset \in Nat
    BY PricesAssumption
<1>3. {entry', fill', highest', peak'} \subseteq Nat /\ highest' = 0
    BY <1>1, <1>2 DEF Buy, Seen, Inv, ExitTypeOK
<1>4. rows' \in [Sides -> 0..Never] /\ (logged' => rows'["buy"] = 0)
    BY AgesAssumption DEF Buy, Inv, ExitTypeOK, Sides, Never
<1>5. ExitTypeOK'
    <2>1. tried' \subseteq Sides /\ held' \in BOOLEAN /\ logged' \in BOOLEAN
        BY SettingsAreBooleans DEF Buy, Inv, ExitTypeOK, Sides
    <2>2. age' \in 0..MaxAge /\ settings' \in Settings
        BY AgesAssumption DEF Buy, Inv, ExitTypeOK
    <2>3. last'.placed => last'.quoted /\ last'.reason # "hold"
        BY NoDecisionKeepsNext DEF Buy
    <2>4. QED
        BY <1>3, <1>4, <2>1, <2>2, <2>3 DEF ExitTypeOK
<1>6. HistoryInv'
    BY <1>1, <1>2, <1>3, <1>4 DEF HistoryInv, Buy
<1>7. DecisionInv'
    BY NoDecisionKeepsNext DEF Buy
<1>8. QED
    BY <1>5, <1>6, <1>7 DEF Inv

LEMMA BuyInVainStep ==
    ASSUME Inv, BuyInVain
    PROVE  Inv'
<1>1. rows' \in [Sides -> 0..Never] /\ highest' = 0 /\ tried' \subseteq Sides
    BY AgesAssumption DEF BuyInVain, Inv, ExitTypeOK, Sides, Never, Seen
<1>2. ExitTypeOK'
    BY <1>1, NoDecisionKeepsNext DEF BuyInVain, Inv, ExitTypeOK, position, history
<1>3. HistoryInv'
    BY DEF HistoryInv, BuyInVain, position
<1>4. DecisionInv'
    BY NoDecisionKeepsNext DEF BuyInVain
<1>5. QED
    BY <1>2, <1>3, <1>4 DEF Inv

\* What an order to sell leaves.
LEMMA SellEffect ==
    ASSUME ExitTypeOK, HistoryInv, NEW latest \in Prices, NEW quoted \in BOOLEAN,
           Sell(latest, quoted)
    PROVE  /\ held' \in BOOLEAN /\ (held' => held \/ quoted)
           /\ fill' \in Nat /\ (fill' = fill \/ (quoted /\ fill' <= latest))
           /\ tried' \subseteq Sides
           /\ rows' \in [Sides -> 0..Never] /\ rows'["buy"] = rows["buy"]
           /\ entry' = entry
<1>1. latest - Offset \in Nat /\ latest - Offset <= latest
    BY PricesAssumption
<1>2. held' \in BOOLEAN /\ (held' => held \/ quoted) /\ fill' \in Nat
    BY <1>1 DEF Sell, ExitTypeOK
<1>3. fill' = fill \/ (quoted /\ fill' <= latest)
    BY <1>1 DEF Sell
<1>4. rows' \in [Sides -> 0..Never] /\ rows'["buy"] = rows["buy"]
    BY AgesAssumption DEF Sell, ExitTypeOK, Sides, Never
<1>5. QED
    BY <1>2, <1>3, <1>4 DEF Sell, ExitTypeOK, Sides

LEMMA DecideStep ==
    ASSUME Inv, Decide
    PROVE  Inv'
<1>1. PICK reported \in Reported, latest \in Prices, quoted \in BOOLEAN :
          /\ highest' = Seen(reported)
          /\ peak' = Higher(peak, Higher(reported, IF quoted THEN latest ELSE 0))
          /\ \E reason \in Reasons(latest, Seen(reported)) :
              \/ /\ Sells(reason, latest)
                 /\ Sell(latest, quoted)
                 /\ last' = Decision(reason, latest, quoted, quoted)
              \/ /\ ~Sells(reason, latest)
                 /\ last' = Decision(reason, latest, quoted, FALSE)
                 /\ UNCHANGED <<position, tried, rows>>
    BY DEF Decide
<1>2. PICK reason \in Reasons(latest, Seen(reported)) :
              \/ /\ Sells(reason, latest)
                 /\ Sell(latest, quoted)
                 /\ last' = Decision(reason, latest, quoted, quoted)
              \/ /\ ~Sells(reason, latest)
                 /\ last' = Decision(reason, latest, quoted, FALSE)
                 /\ UNCHANGED <<position, tried, rows>>
    BY <1>1
<1>3. held /\ UNCHANGED <<settings, age, logged>>
    BY DEF Decide
<1>4. latest \in Nat /\ reported \in Nat /\ peak \in Nat /\ fill \in Nat
    BY PricesAssumption, ReportedTypes DEF Inv, ExitTypeOK
<1>5. /\ highest' \in Nat /\ peak' \in Nat
      /\ highest' <= peak' /\ peak <= peak' /\ (quoted => latest <= peak')
    BY <1>1, <1>3, <1>4, SeenIsMet DEF Inv, Higher
<1>6. /\ held' \in BOOLEAN /\ fill' \in Nat /\ tried' \subseteq Sides
      /\ fill' = fill \/ (quoted /\ fill' <= latest)
      /\ rows' \in [Sides -> 0..Never] /\ rows'["buy"] = rows["buy"]
      /\ entry' = entry
    <2>1. CASE Sell(latest, quoted)
        BY <2>1, SellEffect DEF Inv
    <2>2. CASE UNCHANGED <<position, tried, rows>>
        BY <2>2 DEF Inv, ExitTypeOK, position
    <2>3. QED
        BY <1>2, <2>1, <2>2
<1>7. /\ last'.reason = reason /\ last'.latest = latest /\ last'.quoted = quoted
      /\ last'.placed <=> Sells(reason, latest) /\ quoted
    <2>1. CASE Sells(reason, latest) /\ last' = Decision(reason, latest, quoted, quoted)
        BY <2>1 DEF Decision
    <2>2. CASE ~Sells(reason, latest) /\ last' = Decision(reason, latest, quoted, FALSE)
        BY <2>2 DEF Decision
    <2>3. QED
        BY <1>2, <2>1, <2>2
<1>8. ExitTypeOK'
    <2>1. last'.placed => last'.quoted /\ last'.reason # "hold"
        BY <1>7 DEF Sells
    <2>2. {entry', fill', highest', peak'} \subseteq Nat
        BY <1>5, <1>6 DEF Inv, ExitTypeOK
    <2>3. QED
        BY <1>3, <1>6, <2>1, <2>2 DEF Inv, ExitTypeOK
<1>9. HistoryInv'
    <2>1. entry <= peak /\ entry \in Nat /\ (settings.local => fill <= peak)
        BY <1>3 DEF Inv, HistoryInv, ExitTypeOK
    <2>2. entry' <= peak'
        BY <1>4, <1>5, <1>6, <2>1
    <2>3. settings'.local => fill' <= peak'
        BY <1>3, <1>4, <1>5, <1>6, <2>1
    <2>4. QED
        BY <1>3, <1>5, <1>6, <2>2, <2>3 DEF Inv, HistoryInv
<1>10. TrailingIsEarned'
    <2> SUFFICES ASSUME quoted, reason = "trailing_stop"
        PROVE  Trails(latest, peak')
        BY <1>6, <1>7 DEF TrailingIsEarned, Trails, Up, Down
    <2>1. Trails(latest, Higher(Seen(reported), latest))
        BY ReasonApplies
    <2>2. /\ Higher(Seen(reported), latest) \in Nat
          /\ Higher(Seen(reported), latest) <= peak'
        BY <1>1, <1>4, <1>5 DEF Higher
    <2>3. QED
        BY <1>4, <1>5, <2>1, <2>2, TrailsMonotone DEF Inv, ExitTypeOK
<1>11. StopsAreActedOn'
    BY <1>3, <1>6, <1>7, StopSells DEF StopsAreActedOn, Down, InEmergency
<1>12. OldPositionsAreSold'
    <2> SUFFICES ASSUME quoted, logged, age >= MaxAge, ~InEmergency(latest),
                        settings.scalping \/ ~settings.profit_only
        PROVE  Sells(reason, latest)
        BY <1>3, <1>6, <1>7 DEF OldPositionsAreSold, InEmergency, Down
    <2>1. rows["buy"] = age /\ age \in 0..MaxAge
        BY <1>3 DEF Inv, HistoryInv, ExitTypeOK
    <2>2. OpenedAge >= MaxAge
        BY <2>1, AgesAssumption DEF OpenedAge, Never
    <2>3. QED
        BY <2>2, AgeSells
<1>13. LossesNeedEmergency'
    BY <1>3, <1>6, <1>7, ClassicSells
       DEF LossesNeedEmergency, Profitable, InEmergency, Up, Down
<1>14. QED
    BY <1>8, <1>9, <1>10, <1>11, <1>12, <1>13 DEF Inv, DecisionInv

LEMMA OtherSteps ==
    ASSUME Inv, BarCloses \/ RowsAge \/ ProcessRestarts \/ UNCHANGED exitVars
    PROVE  Inv'
<1>1. CASE BarCloses
    <2>1. ExitTypeOK'
        BY <1>1, NoDecisionKeepsNext DEF BarCloses, Inv, ExitTypeOK, position, history
    <2>2. HistoryInv'
        BY <1>1 DEF BarCloses, Inv, HistoryInv, position, history
    <2>3. QED
        BY <1>1, <2>1, <2>2, NoDecisionKeepsNext DEF BarCloses, Inv
<1>2. CASE RowsAge
    <2>1. rows' \in [Sides -> 0..Never] /\ age' \in 0..MaxAge
        BY <1>2, AgesAssumption DEF RowsAge, Inv, ExitTypeOK, OlderRow, Never
    <2>2. rows["buy"] = age => rows'["buy"] = age'
        BY <1>2 DEF RowsAge, Sides
    <2>3. ExitTypeOK'
        BY <1>2, <2>1, NoDecisionKeepsNext DEF RowsAge, Inv, ExitTypeOK, position, memory
    <2>4. HistoryInv'
        BY <1>2, <2>2 DEF RowsAge, Inv, HistoryInv, position, memory
    <2>5. QED
        BY <1>2, <2>3, <2>4, NoDecisionKeepsNext DEF RowsAge, Inv
<1>3. CASE ProcessRestarts
    <2>1. ExitTypeOK'
        BY <1>3, NoDecisionKeepsNext DEF ProcessRestarts, Inv, ExitTypeOK, position, history
    <2>2. HistoryInv'
        BY <1>3 DEF ProcessRestarts, Inv, ExitTypeOK, HistoryInv, position, history
    <2>3. QED
        BY <1>3, <2>1, <2>2, NoDecisionKeepsNext DEF ProcessRestarts, Inv
<1>4. CASE UNCHANGED exitVars
    <2>1. ExitTypeOK' /\ HistoryInv'
        BY <1>4 DEF Inv, ExitTypeOK, HistoryInv, exitVars, position, memory, history
    <2>2. DecisionInv'
        BY <1>4 DEF Inv, DecisionInv, TrailingIsEarned, StopsAreActedOn, Trails,
           OldPositionsAreSold, LossesNeedEmergency, Profitable, InEmergency, Up, Down,
           exitVars, position, memory, history
    <2>3. QED
        BY <2>1, <2>2 DEF Inv
<1>5. QED
    BY <1>1, <1>2, <1>3, <1>4

\* Memory, table and history agree on the position, and the last decision was
\* what the rules ask for.
THEOREM ExitsInvariant == ExitSpec => []Inv
<1>1. Inv /\ [ExitNext]_exitVars => Inv'
    BY LookStep, BuyStep, BuyInVainStep, DecideStep, OtherSteps DEF ExitNext
<1>2. QED
    BY <1>1, InitInv, PTL DEF ExitSpec

\* Every variable keeps its type; prices stay positive although orders to sell
\* are priced below the market.
THEOREM ExitsTypes == ExitSpec => []ExitTypeOK
<1>1. Inv => ExitTypeOK
    BY DEF Inv
<1>2. QED
    BY <1>1, ExitsInvariant, PTL

\* A trailing stop is a fall from the highest price of the same position.
THEOREM TrailingTheorem == ExitSpec => []TrailingIsEarned
<1>1. Inv => TrailingIsEarned
    BY DEF Inv, DecisionInv
<1>2. QED
    BY <1>1, ExitsInvariant, PTL

\* Stops are acted on by every run that meets them with a quote.
THEOREM StopTheorem == ExitSpec => []StopsAreActedOn
<1>1. Inv => StopsAreActedOn
    BY DEF Inv, DecisionInv
<1>2. QED
    BY <1>1, ExitsInvariant, PTL

\* Positions of the maximum age are acted on by every run, over restarts.
THEOREM AgeTheorem == ExitSpec => []OldPositionsAreSold
<1>1. Inv => OldPositionsAreSold
    BY DEF Inv, DecisionInv
<1>2. QED
    BY <1>1, ExitsInvariant, PTL

\* The fully guarded classic engine takes no loss without an emergency.
THEOREM GuardTheorem == ExitSpec => []LossesNeedEmergency
<1>1. Inv => LossesNeedEmergency
    BY DEF Inv, DecisionInv
<1>2. QED
    BY <1>1, ExitsInvariant, PTL

=============================================================================
