--------------------------- MODULE ResearchProofs ---------------------------
(***************************************************************************)
(* What holds of the table of market bars, of the automatic training and   *)
(* of the simulations and verdicts of research, for every number of         *)
(* programs, bars and candles and all barriers.  That one collector runs,   *)
(* with credentials, is a hypothesis of the theorem that needs it.          *)
(***************************************************************************)
EXTENDS AutoResearch, MakerFill, CandidateGates, FiniteSetTheorems, WellFoundedInduction, TLAPS

(***************************************************************************)
(* Least and greatest numbers                                              *)
(***************************************************************************)

\* A set of numbers that is not empty has a least one.
LEMMA LeastBar ==
    ASSUME NEW T, T \subseteq Nat, T # {}
    PROVE  Min(T) \in T /\ \A y \in T : Min(T) <= y
<1> DEFINE R == {ss \in Nat \X Nat : ss[1] < ss[2]}
<1>1. IsWellFoundedOn(R, Nat)
  BY NatLessThanWellFounded DEF OpToRel
<1>2. \E x \in T : \A y \in T : <<y, x>> \notin R
  <2> HIDE DEF R
  <2> QED BY <1>1, WFMin
<1>3. ASSUME NEW x \in T, NEW y \in T, <<y, x>> \notin R PROVE x <= y
  <2>1. x \in Nat /\ y \in Nat /\ <<y, x>> \in Nat \X Nat
    OBVIOUS
  <2>2. ~(<<y, x>>[1] < <<y, x>>[2])
    BY <1>3, <2>1 DEF R
  <2>3. QED BY <2>1, <2>2
<1>4. \E x \in T : \A y \in T : x <= y
  <2> HIDE DEF R
  <2> QED BY <1>2, <1>3
<1>5. QED BY <1>4 DEF Min

\* A set of bars that is not empty has a last one.
LEMMA LastBar ==
    ASSUME NEW T, T \subseteq Bars, T # {}
    PROVE  Max(T) \in T /\ \A y \in T : Max(T) >= y
<1> DEFINE Distances == {MaxBar - y : y \in T}
<1>1. \A y \in T : y \in 1..MaxBar
  BY DEF Bars
<1>2. Distances \subseteq Nat /\ Distances # {}
  BY <1>1, BarsAssumption
<1>3. PICK x \in T : Min(Distances) = MaxBar - x
  <2>1. Min(Distances) \in Distances
    <3> HIDE DEF Distances
    <3> QED BY <1>2, LeastBar
  <2>2. QED BY <2>1
<1>4. ASSUME NEW y \in T PROVE x >= y
  <2>1. Min(Distances) <= MaxBar - y
    <3>1. MaxBar - y \in Distances
      OBVIOUS
    <3> HIDE DEF Distances
    <3> QED BY <1>2, <3>1, LeastBar
  <2>2. QED BY <1>1, <1>3, <2>1, BarsAssumption
<1>5. QED BY <1>4 DEF Max

LEMMA MaxOfTwo ==
    ASSUME NEW a \in Int, NEW b \in Int
    PROVE  /\ Max({a, b}) = IF a >= b THEN a ELSE b
           /\ Min({a, b}) = IF a <= b THEN a ELSE b
<1> DEFINE most == IF a >= b THEN a ELSE b
           least == IF a <= b THEN a ELSE b
<1>1. most \in {a, b} /\ \A y \in {a, b} : most >= y
  OBVIOUS
<1>2. \A x \in {a, b} : (\A y \in {a, b} : x >= y) => x = most
  OBVIOUS
<1>3. least \in {a, b} /\ \A y \in {a, b} : least <= y
  OBVIOUS
<1>4. \A x \in {a, b} : (\A y \in {a, b} : x <= y) => x = least
  OBVIOUS
<1>5. QED
  <2> HIDE DEF most, least
  <2>1. Max({a, b}) = most
    BY <1>1, <1>2 DEF Max
  <2>2. Min({a, b}) = least
    BY <1>3, <1>4 DEF Min
  <2>3. QED BY <2>1, <2>2 DEF most, least

LEMMA MaxOfThree ==
    ASSUME NEW a \in Int, NEW b \in Int, NEW c \in Int
    PROVE  Max({a, b, c}) \in {a, b, c} /\ \A y \in {a, b, c} : Max({a, b, c}) >= y
<1>1. \E x \in {a, b, c} : \A y \in {a, b, c} : x >= y
  OBVIOUS
<1>2. QED BY <1>1 DEF Max

(***************************************************************************)
(* The table and what the programs know of it                              *)
(***************************************************************************)

StoredRows == {NoRow} \cup [data : Datas, live : BOOLEAN]
Jobs == [since : 0..MaxBar, dry : BOOLEAN, bad : BOOLEAN]
Answers == UNION {[B -> Datas] : B \in SUBSET Bars}
Readings == UNION {[B -> StoredRows] : B \in SUBSET Bars}

TableTypes ==
    /\ now \in 0..MaxBar
    /\ revised \subseteq 1..now
    /\ rows \in [Bars -> StoredRows]
    /\ pc \in [Programs -> {"idle", "asked", "reading", "storing"}]
    /\ job \in [Programs -> Jobs]
    /\ answer \in [Programs -> Answers]
    /\ loaded \in [Programs -> Readings]
    /\ report \in Recommendations

\* A program has read rows of bars it was answered with, from the first one on.
ReadsInOrder(p) ==
    /\ DOMAIN loaded[p] \subseteq DOMAIN answer[p]
    /\ \A b \in DOMAIN loaded[p], c \in DOMAIN answer[p] : c < b => c \in DOMAIN loaded[p]
    /\ pc[p] \in {"idle", "asked"} => DOMAIN answer[p] = {}
    /\ pc[p] = "storing" => p \in Backfills /\ DOMAIN loaded[p] # {}

\* A row that was read is still there: no program deletes one.
RowsRemain(p) ==
    \A b \in DOMAIN loaded[p] : loaded[p][b] # NoRow => rows[b] # NoRow

\* A backfill was answered with bars that were complete when it began.
LooksBack(p) ==
    /\ job[p].since <= now
    /\ \A b \in DOMAIN answer[p] : b <= now /\ answer[p][b] \in {"final", "revised"}

\* Of the rows a backfill has read, only the last may have to be written.
OnlyLastIsMissing(p) ==
    \A b \in DOMAIN loaded[p] :
        ~job[p].dry /\ loaded[p][b] = NoRow =>
            pc[p] = "storing" /\ \A c \in DOMAIN loaded[p] : c <= b

Knows(p) ==
    /\ ReadsInOrder(p)
    /\ RowsRemain(p)
    /\ p \in Backfills => LooksBack(p) /\ OnlyLastIsMissing(p)

TableInv == TableTypes /\ \A p \in Programs : Knows(p)

\* No step deletes a row.
RowsStay == \A b \in Bars : rows[b] # NoRow => rows'[b] # NoRow

\* A step that leaves a program alone leaves what it knows true.
LEMMA OthersKnow ==
    ASSUME TableTypes, TableTypes', RowsStay, now <= now',
           NEW q \in Programs, Knows(q),
           pc'[q] = pc[q], job'[q] = job[q], answer'[q] = answer[q], loaded'[q] = loaded[q]
    PROVE  Knows(q)'
<1>1. answer[q] \in Answers /\ loaded[q] \in Readings /\ job[q] \in Jobs
  BY DEF TableTypes
<1>2. DOMAIN answer[q] \subseteq Bars /\ DOMAIN loaded[q] \subseteq Bars
  BY <1>1 DEF Answers, Readings
<1>3. ReadsInOrder(q)'
  BY DEF Knows, ReadsInOrder
<1>4. RowsRemain(q)'
  BY <1>2 DEF Knows, RowsRemain, RowsStay
<1>5. q \in Backfills => LooksBack(q)' /\ OnlyLastIsMissing(q)'
  <2>1. \A b \in DOMAIN answer[q] : b \in Int
    BY <1>2, BarsAssumption DEF Bars
  <2>2. now \in Int /\ now' \in Int /\ job[q].since \in Int
    BY <1>1, BarsAssumption DEF TableTypes, Jobs
  <2>3. QED BY <2>1, <2>2 DEF Knows, LooksBack, OnlyLastIsMissing
<1>6. QED BY <1>3, <1>4, <1>5 DEF Knows

\* A program that is over knows nothing.
LEMMA EndedKnows ==
    ASSUME TableTypes, NEW p \in Programs, Ends(p)
    PROVE  /\ pc' \in [Programs -> {"idle", "asked", "reading", "storing"}]
           /\ job' \in [Programs -> Jobs]
           /\ answer' \in [Programs -> Answers]
           /\ loaded' \in [Programs -> Readings]
           /\ pc'[p] = "idle" /\ job'[p] = NoJob /\ DOMAIN answer'[p] = {} /\ DOMAIN loaded'[p] = {}
           /\ \A q \in Programs \ {p} : /\ pc'[q] = pc[q] /\ job'[q] = job[q]
                                        /\ answer'[q] = answer[q] /\ loaded'[q] = loaded[q]
<1>1. NoBars \in Answers /\ NoBars \in Readings
  BY DEF NoBars, Answers, Readings
<1>2. NoJob \in Jobs
  BY BarsAssumption DEF NoJob, Jobs
<1>3. DOMAIN NoBars = {}
  BY DEF NoBars
<1>4. QED BY <1>1, <1>2, <1>3 DEF Ends, TableTypes

LEMMA EndingKeepsInv ==
    ASSUME TableInv, NEW p \in Programs, Ends(p), UNCHANGED market, RowsStay,
           rows' \in [Bars -> StoredRows], report' \in Recommendations
    PROVE  TableInv'
<1>1. TableTypes /\ \A q \in Programs : Knows(q)
  BY DEF TableInv
<1>2. TableTypes'
  BY <1>1, EndedKnows DEF TableTypes, market
<1>3. now <= now'
  BY <1>1, BarsAssumption DEF TableTypes, market
<1>4. Knows(p)'
  BY <1>1, <1>2, EndedKnows, BarsAssumption
     DEF Knows, ReadsInOrder, RowsRemain, LooksBack, OnlyLastIsMissing, NoJob, TableTypes
<1>5. ASSUME NEW q \in Programs \ {p} PROVE Knows(q)'
  BY <1>1, <1>2, <1>3, EndedKnows, OthersKnow
<1>6. QED BY <1>2, <1>4, <1>5 DEF TableInv

(***************************************************************************)
(* One step of the table, whoever takes it                                 *)
(***************************************************************************)

LEMMA ContentIsReal ==
    ASSUME TableTypes, NEW b \in Int
    PROVE  /\ Content(b) \in Real
           /\ b <= now => Content(b) \in {"final", "revised"}
           /\ b > now => Content(b) = "partial"
BY BarsAssumption DEF Content, Real, TableTypes

\* The next bar to read is the first that has not been read.
LEMMA NextBarIsUnread ==
    ASSUME TableInv, NEW p \in Programs, Reading(p)
    PROVE  /\ NextBar(p) \in DOMAIN answer[p] \ DOMAIN loaded[p]
           /\ \A c \in DOMAIN answer[p] : c < NextBar(p) <=> c \in DOMAIN loaded[p]
<1>1. /\ TableTypes /\ ReadsInOrder(p)
      /\ answer[p] \in Answers
  BY DEF TableInv, Knows, TableTypes
<1>2. DOMAIN answer[p] \subseteq Bars /\ DOMAIN loaded[p] \subseteq DOMAIN answer[p]
  BY <1>1 DEF Answers, ReadsInOrder
<1>3. DOMAIN answer[p] \ DOMAIN loaded[p] # {}
  BY <1>2 DEF Reading
<1>4. DOMAIN answer[p] \ DOMAIN loaded[p] \subseteq Nat
  BY <1>2, BarsAssumption DEF Bars
<1> DEFINE unread == DOMAIN answer[p] \ DOMAIN loaded[p]
<1>5. Min(unread) \in unread /\ \A y \in unread : Min(unread) <= y
  <2> HIDE DEF unread
  <2> QED BY <1>3, <1>4, LeastBar DEF unread
<1>6. NextBar(p) = Min(unread)
  BY DEF NextBar
<1>7. NextBar(p) \in unread /\ \A y \in unread : NextBar(p) <= y
  BY <1>5, <1>6
<1>8. ASSUME NEW c \in DOMAIN answer[p] PROVE c < NextBar(p) <=> c \in DOMAIN loaded[p]
  <2>1. c \in Nat /\ NextBar(p) \in Nat
    BY <1>2, <1>7, BarsAssumption DEF Bars
  <2>2. CASE c \in DOMAIN loaded[p]
    <3>1. ~(NextBar(p) < c)
      BY <1>1, <1>7, <2>2 DEF ReadsInOrder
    <3>2. NextBar(p) # c
      BY <1>7, <2>2
    <3>3. QED BY <2>1, <2>2, <3>1, <3>2
  <2>3. CASE c \notin DOMAIN loaded[p]
    BY <1>7, <2>1, <2>3
  <2>4. QED BY <2>2, <2>3
<1>9. QED BY <1>7, <1>8

\* Reading the next row.
Reads(p) ==
    /\ Reading(p)
    /\ loaded' = [loaded EXCEPT ![p] = With(@, NextBar(p), rows[NextBar(p)])]
    /\ UNCHANGED <<market, rows, job, answer, report>>

LEMMA ReadsOne ==
    ASSUME TableInv, NEW p \in Programs, Reads(p)
    PROVE  /\ loaded' \in [Programs -> Readings]
           /\ \A q \in Programs \ {p} : loaded'[q] = loaded[q]
           /\ DOMAIN loaded'[p] = DOMAIN loaded[p] \cup {NextBar(p)}
           /\ loaded'[p][NextBar(p)] = rows[NextBar(p)]
           /\ \A b \in DOMAIN loaded[p] : loaded'[p][b] = loaded[p][b]
<1>1. TableTypes /\ loaded[p] \in Readings /\ answer[p] \in Answers
  BY DEF TableInv, TableTypes
<1>2. NextBar(p) \in DOMAIN answer[p] \ DOMAIN loaded[p]
  BY NextBarIsUnread DEF Reads
<1>3. NextBar(p) \in Bars
  BY <1>1, <1>2 DEF Answers
<1>4. rows[NextBar(p)] \in StoredRows
  BY <1>1, <1>3 DEF TableTypes
<1>5. PICK B \in SUBSET Bars : loaded[p] \in [B -> StoredRows]
  BY <1>1 DEF Readings
<1> DEFINE one == With(loaded[p], NextBar(p), rows[NextBar(p)])
<1>6. one \in [B \cup {NextBar(p)} -> StoredRows] /\ B \cup {NextBar(p)} \in SUBSET Bars
  BY <1>3, <1>4, <1>5 DEF With
<1>7. one \in Readings
  BY <1>6 DEF Readings
<1>8. loaded' = [loaded EXCEPT ![p] = one]
  BY DEF Reads
<1>9. /\ DOMAIN one = DOMAIN loaded[p] \cup {NextBar(p)}
      /\ one[NextBar(p)] = rows[NextBar(p)]
      /\ \A b \in DOMAIN loaded[p] : one[b] = loaded[p][b]
  BY <1>2 DEF With
<1>10. QED
  <2> HIDE DEF one
  <2> QED BY <1>1, <1>7, <1>8, <1>9 DEF TableTypes

LEMMA ReadingKeepsOrder ==
    ASSUME TableInv, NEW p \in Programs, Reads(p),
           pc'[p] \in {"reading", "storing"}, pc'[p] = "storing" => p \in Backfills
    PROVE  ReadsInOrder(p)' /\ RowsRemain(p)'
<1>1. ReadsInOrder(p) /\ RowsRemain(p)
  BY DEF TableInv, Knows
<1>2. answer'[p] = answer[p] /\ rows' = rows
  BY DEF Reads
<1>3. Reading(p)
  BY DEF Reads
<1>4. ReadsInOrder(p)'
  BY <1>1, <1>2, <1>3, NextBarIsUnread, ReadsOne DEF ReadsInOrder
<1>5. RowsRemain(p)'
  BY <1>1, <1>2, ReadsOne DEF RowsRemain
<1>6. QED BY <1>4, <1>5

LEMMA MarketMoves ==
    ASSUME TableInv, BarEnds \/ Revise
    PROVE  TableInv' /\ RowsStay
<1>1. TableTypes /\ \A p \in Programs : Knows(p)
  BY DEF TableInv
<1>2. rows' = rows /\ pc' = pc /\ job' = job /\ answer' = answer /\ loaded' = loaded /\ report' = report
  BY DEF BarEnds, Revise, local
<1>3. TableTypes' /\ now <= now'
  <2>1. CASE BarEnds
    BY <1>1, <1>2, <2>1, BarsAssumption DEF BarEnds, TableTypes
  <2>2. CASE Revise
    BY <1>1, <1>2, <2>2, BarsAssumption DEF Revise, TableTypes
  <2>3. QED BY <2>1, <2>2
<1>4. RowsStay
  BY <1>2 DEF RowsStay
<1>5. \A p \in Programs : Knows(p)'
  BY <1>1, <1>2, <1>3, <1>4, OthersKnow
<1>6. QED BY <1>3, <1>4, <1>5 DEF TableInv

LEMMA ProgramDies ==
    ASSUME TableInv, NEW p \in Programs, Dies(p)
    PROVE  TableInv' /\ RowsStay
<1>1. rows' = rows /\ report' = report /\ UNCHANGED market /\ Ends(p) /\ TableTypes
  BY DEF Dies, TableInv
<1>2. RowsStay /\ rows' \in [Bars -> StoredRows] /\ report' \in Recommendations
  BY <1>1 DEF RowsStay, TableTypes
<1>3. QED BY <1>1, <1>2, EndingKeepsInv

\* The programs that do not move.
LEMMA OneProgramMoves ==
    ASSUME TableInv, NEW p \in Programs, TableTypes', RowsStay, now' = now, Knows(p)',
           \A q \in Programs \ {p} : /\ pc'[q] = pc[q] /\ job'[q] = job[q]
                                      /\ answer'[q] = answer[q] /\ loaded'[q] = loaded[q]
    PROVE  TableInv'
<1>1. TableTypes /\ \A q \in Programs : Knows(q)
  BY DEF TableInv
<1>2. now <= now'
  BY <1>1, BarsAssumption DEF TableTypes
<1>3. \A q \in Programs \ {p} : Knows(q)'
  BY <1>1, <1>2, OthersKnow
<1>4. QED BY <1>3 DEF TableInv

\* A row and the absence of one are told apart by what they hold.
LEMMA StoredRowTypes ==
    /\ \A data \in Datas, live \in BOOLEAN : Row(data, live) \in StoredRows /\ Row(data, live) # NoRow
    /\ \A row \in StoredRows : row # NoRow => row \in [data : Datas, live : BOOLEAN]
    /\ \A row \in StoredRows : row.data \in Datas <=> row # NoRow
    /\ \A row \in StoredRows : row \in [data : Datas \cup {"none"}, live : BOOLEAN]
    /\ ~NoRow.live
<1>1. NoRow \in [data : Datas \cup {"none"}, live : BOOLEAN] /\ ~NoRow.live
  BY DEF NoRow
<1>2. \A row \in [data : Datas, live : BOOLEAN] : row \in [data : Datas \cup {"none"}, live : BOOLEAN]
  OBVIOUS
<1>3. NoRow.data = "none" /\ "none" \notin Datas
  BY DEF NoRow, Datas, Real
<1>4. \A data \in Datas, live \in BOOLEAN : Row(data, live) \in StoredRows /\ Row(data, live) # NoRow
  BY DEF StoredRows, Row, NoRow, Datas, Real
<1>5. QED BY <1>1, <1>2, <1>3, <1>4 DEF StoredRows

\* What the mapper makes of a row, column by column.
LEMMA MergeFields ==
    ASSUME NEW read \in StoredRows, NEW new \in StoredRows, NEW current \in StoredRows
    PROVE  /\ Merge(read, new, current) \in [data : Datas \cup {"none"}, live : BOOLEAN]
           /\ Merge(read, new, current).data =
                IF new.data # read.data THEN new.data ELSE current.data
           /\ Merge(read, new, current).live =
                IF new.live # read.live THEN new.live ELSE current.live
<1>1. StoredRows \subseteq [data : Datas \cup {"none"}, live : BOOLEAN]
  BY StoredRowTypes
<1>2. new = [data |-> new.data, live |-> new.live]
  BY <1>1
<1>3. DOMAIN new = {"data", "live"}
  BY <1>1
<1>4. Merge(read, new, current) =
        [c \in {"data", "live"} |-> IF new[c] # read[c] THEN new[c] ELSE current[c]]
  BY <1>3 DEF Merge
<1>5. Merge(read, new, current) =
        [data |-> IF new.data # read.data THEN new.data ELSE current.data,
         live |-> IF new.live # read.live THEN new.live ELSE current.live]
  BY <1>4
<1>6. QED BY <1>1, <1>5

\* What a collector writes: a row of its own, or the columns that differ.
LEMMA CollectorWriting ==
    ASSUME TableInv, NEW p \in Collectors, CollectorWrites(p)
    PROVE  /\ rows' \in [Bars -> StoredRows]
           /\ RowsStay
           /\ \A b \in Bars : rows'[b] # rows[b] =>
                /\ b \in DOMAIN answer[p] /\ b \in DOMAIN loaded[p]
                /\ \/ rows[b] = NoRow /\ rows'[b] = Collected(p, b)
                   \/ /\ loaded[p][b] # NoRow /\ rows[b] # NoRow
                      /\ rows'[b] = Merge(loaded[p][b], Collected(p, b), rows[b])
<1>1. p \in Programs /\ TableTypes /\ Knows(p)
  BY DEF TableInv, Programs
<1>2. /\ answer[p] \in Answers /\ loaded[p] \in Readings /\ rows \in [Bars -> StoredRows]
      /\ DOMAIN loaded[p] = DOMAIN answer[p]
  BY <1>1 DEF TableTypes, CollectorWrites, Reading
<1>3. CASE Refused(p, DOMAIN answer[p])
  <2>1. rows' = rows
    BY <1>3 DEF CollectorWrites
  <2>2. QED BY <1>2, <2>1 DEF RowsStay
<1>4. CASE ~Refused(p, DOMAIN answer[p])
  <2>1. rows' = [b \in Bars |->
                    IF b \notin DOMAIN answer[p] THEN rows[b]
                    ELSE IF loaded[p][b] = NoRow THEN Collected(p, b)
                    ELSE Merge(loaded[p][b], Collected(p, b), rows[b])]
    BY <1>4 DEF CollectorWrites
  <2>2. ASSUME NEW b \in DOMAIN answer[p]
        PROVE  /\ Collected(p, b) \in StoredRows /\ Collected(p, b) # NoRow
               /\ loaded[p][b] \in StoredRows /\ rows[b] \in StoredRows
               /\ Merge(loaded[p][b], Collected(p, b), rows[b]) # NoRow
               /\ loaded[p][b] # NoRow =>
                    /\ rows[b] # NoRow
                    /\ Merge(loaded[p][b], Collected(p, b), rows[b]) \in StoredRows
    <3>1. b \in Bars /\ answer[p][b] \in Datas /\ loaded[p][b] \in StoredRows
      BY <1>2, <2>2 DEF Answers, Readings
    <3>2. /\ Collected(p, b) = [data |-> answer[p][b], live |-> TRUE]
          /\ Collected(p, b) \in StoredRows /\ Collected(p, b) # NoRow
      BY <3>1, StoredRowTypes DEF Collected, Row
    <3>3. rows[b] \in StoredRows
      BY <1>2, <3>1
    <3> DEFINE merged == Merge(loaded[p][b], Collected(p, b), rows[b])
    <3>4. /\ merged \in [data : Datas \cup {"none"}, live : BOOLEAN]
          /\ merged.data \in {answer[p][b], rows[b].data}
          /\ answer[p][b] # loaded[p][b].data => merged.data = answer[p][b]
          /\ ~loaded[p][b].live => merged.live
      <4>1. loaded[p][b].live \in BOOLEAN
        BY <3>1, StoredRowTypes
      <4>2. QED BY <3>1, <3>2, <3>3, <4>1, MergeFields
    <3>5. loaded[p][b] = NoRow => merged.live
      BY <3>4, StoredRowTypes
    <3>6. loaded[p][b] # NoRow => rows[b] # NoRow
      BY <1>1, <1>2, <2>2 DEF Knows, RowsRemain
    <3>7. loaded[p][b] # NoRow => merged.data \in Datas
      BY <3>1, <3>3, <3>4, <3>6, StoredRowTypes
    <3>8. merged # NoRow
      BY <3>5, <3>7 DEF NoRow, Datas, Real
    <3>9. loaded[p][b] # NoRow => merged \in StoredRows
      BY <3>4, <3>7 DEF StoredRows
    <3>10. QED BY <3>1, <3>2, <3>3, <3>6, <3>8, <3>9
  <2>3. \A b \in DOMAIN answer[p] : loaded[p][b] = NoRow => rows[b] = NoRow
    BY <1>4 DEF Refused
  <2>4. QED BY <1>2, <2>1, <2>2, <2>3 DEF RowsStay
<1>5. QED BY <1>3, <1>4

LEMMA CollectorKeepsInv ==
    ASSUME TableInv, NEW p \in Collectors, CollectorStep(p)
    PROVE  TableInv' /\ RowsStay
<1>1. p \in Programs /\ p \notin Backfills /\ TableTypes /\ Knows(p)
  BY ProgramsAssumption DEF TableInv, Programs
<1>2. CASE CollectorStarts(p)
  <2>1. TableTypes' /\ RowsStay
    BY <1>1, <1>2 DEF CollectorStarts, TableTypes, market, RowsStay
  <2>2. Knows(p)'
    BY <1>1, <1>2 DEF CollectorStarts, Knows, ReadsInOrder, RowsRemain, TableTypes
  <2>3. QED BY <1>1, <1>2, <2>1, <2>2, OneProgramMoves DEF CollectorStarts, TableTypes, market
<1>3. CASE CollectorAnswered(p)
  <2>1. PICK newest \in {now, now + 1}, real \in Credentials :
            LET bars == {b \in Bars : newest - Limit < b /\ b <= newest}
            IN  answer' = [answer EXCEPT ![p] =
                            [b \in bars |-> IF real THEN Content(b) ELSE "synthetic"]]
    BY <1>3 DEF CollectorAnswered
  <2> DEFINE bars == {b \in Bars : newest - Limit < b /\ b <= newest}
             new == [b \in bars |-> IF real THEN Content(b) ELSE "synthetic"]
  <2>2. new \in Answers
    <3>1. \A b \in bars : Content(b) \in Real /\ b \in Bars
      BY <1>1, ContentIsReal, BarsAssumption DEF Bars
    <3>2. new \in [bars -> Datas] /\ bars \in SUBSET Bars
      BY <3>1 DEF Datas
    <3>3. QED BY <3>2 DEF Answers
  <2>3. answer' = [answer EXCEPT ![p] = new]
    BY <2>1
  <2>4. TableTypes' /\ RowsStay
    <3> HIDE DEF new
    <3> QED BY <1>1, <1>3, <2>2, <2>3 DEF CollectorAnswered, TableTypes, market, RowsStay
  <2>5. Knows(p)'
    <3>1. DOMAIN loaded[p] = {} /\ loaded' = loaded /\ pc'[p] = "reading"
      BY <1>1, <1>3 DEF CollectorAnswered, Knows, ReadsInOrder, TableTypes
    <3>2. QED BY <1>1, <3>1 DEF Knows, ReadsInOrder, RowsRemain
  <2>6. QED BY <1>1, <1>3, <2>4, <2>5, OneProgramMoves DEF CollectorAnswered, TableTypes, market
<1>4. CASE CollectorReads(p)
  <2>1. Reads(p) /\ pc' = pc /\ pc[p] = "reading"
    BY <1>4 DEF CollectorReads, Reads, Reading
  <2>2. TableTypes' /\ RowsStay
    BY <1>1, <2>1, ReadsOne DEF Reads, TableTypes, market, RowsStay
  <2>3. Knows(p)'
    BY <1>1, <2>1, ReadingKeepsOrder DEF Knows
  <2>4. QED BY <1>1, <2>1, <2>2, <2>3, ReadsOne, OneProgramMoves DEF Reads, TableTypes, market
<1>5. CASE CollectorWrites(p)
  <2>1. Ends(p) /\ UNCHANGED market /\ report' \in Recommendations
    BY <1>1, <1>5 DEF CollectorWrites, TableTypes
  <2>2. QED BY <1>1, <1>5, <2>1, CollectorWriting, EndingKeepsInv
<1>6. QED BY <1>2, <1>3, <1>4, <1>5 DEF CollectorStep

\* The bar a backfill found it had to write.
First(p) == Max(DOMAIN loaded[p])

LEMMA FirstIsRead ==
    ASSUME TableInv, NEW p \in Programs, pc[p] = "storing"
    PROVE  First(p) \in DOMAIN loaded[p] /\ \A c \in DOMAIN loaded[p] : c <= First(p)
<1>1. loaded[p] \in Readings /\ ReadsInOrder(p)
  BY DEF TableInv, TableTypes, Knows
<1>2. DOMAIN loaded[p] \subseteq Bars /\ DOMAIN loaded[p] # {}
  BY <1>1 DEF Readings, ReadsInOrder
<1> DEFINE T == DOMAIN loaded[p]
<1>3. Max(T) \in T /\ \A y \in T : Max(T) >= y
  <2> HIDE DEF T
  <2> QED BY <1>2, LastBar DEF T
<1>4. \A c \in T : c \in Int
  BY <1>2, BarsAssumption DEF Bars
<1>5. QED BY <1>3, <1>4 DEF First

\* What a backfill writes: the bar it read last, by what it read, and the bars
\* behind it, by what is there.
LEMMA BackfillWriting ==
    ASSUME TableInv, NEW p \in Backfills, BackfillStores(p)
    PROVE  /\ rows' \in [Bars -> StoredRows]
           /\ RowsStay
           /\ \A b \in Bars : rows'[b] # rows[b] =>
                /\ b \in DOMAIN answer[p]
                /\ rows'[b] = Row(answer[p][b], FALSE)
                /\ \/ rows[b] = NoRow
                   \/ ~rows[b].live
                   \/ b \in DOMAIN loaded[p] /\ loaded[p][b] # NoRow /\ ~loaded[p][b].live
           /\ report' = "backfill_ready" =>
                \A b \in DOMAIN answer[p] : b < First(p) \/ rows'[b] # NoRow
<1>1. p \in Programs /\ TableTypes /\ Knows(p) /\ pc[p] = "storing"
  BY DEF TableInv, Programs, BackfillStores
<1>2. /\ answer[p] \in Answers /\ loaded[p] \in Readings /\ rows \in [Bars -> StoredRows]
      /\ DOMAIN loaded[p] \subseteq DOMAIN answer[p]
  BY <1>1 DEF TableTypes, Knows, ReadsInOrder
<1> DEFINE first == First(p)
           Seen(b) == IF b = first THEN loaded[p][b] ELSE rows[b]
           New(b) == Stored(StorageAction(Seen(b), answer[p][b]), rows[b], answer[p][b])
<1>3. first \in DOMAIN loaded[p] /\ first \in DOMAIN answer[p]
  BY <1>1, <1>2, FirstIsRead
<1>4. CASE Refused(p, {first})
  <2>1. rows' = rows /\ report' = "provider_error"
    BY <1>4 DEF BackfillStores, First
  <2>2. QED BY <1>2, <2>1 DEF RowsStay
<1>5. CASE ~Refused(p, {first})
  <2>1. rows' = [b \in Bars |-> IF b \notin DOMAIN answer[p] \/ b < first THEN rows[b] ELSE New(b)]
    BY <1>5 DEF BackfillStores, First
  <2>2. loaded[p][first] = NoRow => rows[first] = NoRow
    BY <1>5 DEF Refused
  <2>3. loaded[p][first] # NoRow => rows[first] # NoRow
    BY <1>1, <1>3 DEF Knows, RowsRemain
  <2>4. ASSUME NEW b \in DOMAIN answer[p]
        PROVE  /\ b \in Bars
               /\ New(b) \in {rows[b], Row(answer[p][b], FALSE)}
               /\ Row(answer[p][b], FALSE) \in StoredRows /\ Row(answer[p][b], FALSE) # NoRow
               /\ New(b) # NoRow
               /\ New(b) # rows[b] =>
                    \/ rows[b] = NoRow
                    \/ ~rows[b].live
                    \/ b \in DOMAIN loaded[p] /\ loaded[p][b] # NoRow /\ ~loaded[p][b].live
    <3>1. b \in Bars /\ answer[p][b] \in Datas
      BY <1>2, <2>4 DEF Answers
    <3>2. Row(answer[p][b], FALSE) \in StoredRows /\ Row(answer[p][b], FALSE) # NoRow
      BY <3>1, StoredRowTypes
    <3>3. New(b) \in {rows[b], Row(answer[p][b], FALSE)}
      BY DEF Stored
    <3>4. Seen(b) = NoRow => New(b) = Row(answer[p][b], FALSE)
      BY DEF Stored, StorageAction
    <3>5. Seen(b) # NoRow /\ Seen(b).live => New(b) = rows[b]
      BY DEF Stored, StorageAction
    <3>6. Seen(b) = NoRow <=> rows[b] = NoRow
      BY <2>2, <2>3
    <3> HIDE DEF New
    <3>7. CASE b = first
      BY <1>3, <3>1, <3>2, <3>3, <3>4, <3>5, <3>6, <3>7
    <3>8. CASE b # first
      BY <3>1, <3>2, <3>3, <3>4, <3>5, <3>6, <3>8
    <3>9. QED BY <3>7, <3>8
  <2> HIDE DEF New
  <2>5. rows' \in [Bars -> StoredRows]
    BY <1>2, <2>1, <2>4
  <2>6. RowsStay
    BY <1>2, <2>1, <2>4 DEF RowsStay
  <2>7. QED BY <2>1, <2>4, <2>5, <2>6
<1>6. QED BY <1>4, <1>5

LEMMA BackfillKeepsInv ==
    ASSUME TableInv, NEW p \in Backfills, BackfillStep(p)
    PROVE  TableInv' /\ RowsStay
<1>1. p \in Programs /\ TableTypes /\ Knows(p) /\ LooksBack(p) /\ OnlyLastIsMissing(p)
  BY DEF TableInv, Programs, Knows
<1>2. job[p] \in Jobs /\ now \in 0..MaxBar
  BY <1>1 DEF TableTypes
<1>3. CASE BackfillStarts(p)
  <2>1. /\ UNCHANGED <<market, rows, answer, loaded>> /\ report' \in Recommendations /\ pc[p] = "idle"
        /\ \/ pc' = pc /\ job' = job
           \/ /\ pc' = [pc EXCEPT ![p] = "asked"]
              /\ \E dry \in BOOLEAN : job' = [job EXCEPT ![p] = [since |-> now, dry |-> dry, bad |-> FALSE]]
    BY <1>1, <1>3 DEF BackfillStarts, Recommendations, TableTypes, NoJob
  <2>2. job' \in [Programs -> Jobs] /\ pc' \in [Programs -> {"idle", "asked", "reading", "storing"}]
    <3>1. \A dry \in BOOLEAN : [since |-> now, dry |-> dry, bad |-> FALSE] \in Jobs
      BY <1>2 DEF Jobs
    <3>2. job \in [Programs -> Jobs] /\ pc \in [Programs -> {"idle", "asked", "reading", "storing"}]
      BY <1>1 DEF TableTypes
    <3> HIDE DEF Jobs
    <3>3. job' \in [Programs -> Jobs]
      BY <1>1, <2>1, <3>1, <3>2
    <3>4. pc' \in [Programs -> {"idle", "asked", "reading", "storing"}]
      BY <1>1, <2>1, <3>2
    <3>5. QED BY <3>3, <3>4
  <2>3. TableTypes' /\ RowsStay
    BY <1>1, <2>1, <2>2 DEF TableTypes, market, RowsStay
  <2>4. job'[p].since <= now
    BY <1>1, <1>2, <2>1, BarsAssumption DEF LooksBack, TableTypes
  <2>5. DOMAIN answer[p] = {} /\ DOMAIN loaded[p] = {} /\ pc'[p] \in {"idle", "asked"}
    BY <1>1, <2>1 DEF Knows, ReadsInOrder, TableTypes
  <2>6. Knows(p)'
    BY <1>1, <2>1, <2>4, <2>5 DEF Knows, ReadsInOrder, RowsRemain, LooksBack, OnlyLastIsMissing, market
  <2>7. QED BY <1>1, <2>1, <2>3, <2>6, OneProgramMoves DEF TableTypes, market
<1>4. CASE BackfillAnswered(p)
  <2>1. PICK bars \in SUBSET (1..(job[p].since + 1) \cap Bars) :
            LET valid == {b \in bars : Complete(p, b)}
            IN  IF valid = {}
                THEN report' = "provider_error" /\ Ends(p)
                ELSE /\ answer' = [answer EXCEPT ![p] = [b \in valid |-> Content(b)]]
                     /\ \E malformed \in BOOLEAN :
                            job' = [job EXCEPT ![p].bad = malformed \/ bars # valid]
                     /\ pc' = [pc EXCEPT ![p] = "reading"]
                     /\ UNCHANGED <<loaded, report>>
    BY <1>4 DEF BackfillAnswered
  <2> DEFINE valid == {b \in bars : Complete(p, b)}
             new == [b \in valid |-> Content(b)]
  <2>2. UNCHANGED <<market, rows>> /\ RowsStay /\ pc[p] = "asked"
    BY <1>4 DEF BackfillAnswered, RowsStay
  <2>3. CASE valid = {}
    <3>1. report' = "provider_error" /\ Ends(p)
      BY <2>1, <2>3
    <3>2. rows' \in [Bars -> StoredRows] /\ report' \in Recommendations
      BY <1>1, <2>2, <3>1 DEF TableTypes, Recommendations
    <3>3. QED BY <1>1, <2>2, <3>1, <3>2, EndingKeepsInv
  <2>4. CASE valid # {}
    <3>1. /\ answer' = [answer EXCEPT ![p] = new] /\ pc' = [pc EXCEPT ![p] = "reading"]
          /\ \E bad \in BOOLEAN : job' = [job EXCEPT ![p].bad = bad]
          /\ loaded' = loaded /\ report' = report
      BY <2>1, <2>4
    <3>2. \A b \in valid : b \in Bars /\ b \in Int /\ b <= now
      <4>1. \A b \in valid : b \in Bars /\ b \in Int /\ b <= job[p].since
        BY BarsAssumption DEF Bars, Complete
      <4>2. job[p].since \in Int /\ job[p].since <= now /\ now \in Int
        BY <1>1, <1>2, BarsAssumption DEF LooksBack, Jobs
      <4>3. QED BY <4>1, <4>2
    <3>3. \A b \in valid : Content(b) \in {"final", "revised"}
      BY <1>1, <3>2, ContentIsReal
    <3>4. new \in Answers /\ DOMAIN new = valid /\ \A b \in valid : new[b] \in {"final", "revised"}
      <4>1. new \in [valid -> Datas] /\ valid \in SUBSET Bars
        BY <3>2, <3>3 DEF Datas, Real
      <4>2. QED BY <3>3, <4>1 DEF Answers
    <3>5. /\ job' \in [Programs -> Jobs] /\ job'[p].since = job[p].since /\ job'[p].dry = job[p].dry
          /\ \A q \in Programs \ {p} : job'[q] = job[q]
      BY <1>1, <1>2, <3>1 DEF TableTypes, Jobs
    <3> HIDE DEF new, valid
    <3>6. /\ pc' \in [Programs -> {"idle", "asked", "reading", "storing"}] /\ answer' \in [Programs -> Answers]
          /\ pc'[p] = "reading" /\ answer'[p] = new
          /\ \A q \in Programs \ {p} : pc'[q] = pc[q] /\ answer'[q] = answer[q]
      BY <1>1, <3>1, <3>4 DEF TableTypes
    <3>7. TableTypes'
      BY <1>1, <2>2, <3>1, <3>5, <3>6 DEF TableTypes, market
    <3>8. DOMAIN loaded[p] = {}
      BY <1>1, <2>2 DEF Knows, ReadsInOrder
    <3>9. Knows(p)'
      BY <1>1, <2>2, <3>1, <3>2, <3>4, <3>5, <3>6, <3>8
         DEF Knows, ReadsInOrder, RowsRemain, LooksBack, OnlyLastIsMissing, market
    <3>10. QED BY <1>1, <2>2, <3>1, <3>5, <3>6, <3>7, <3>9, OneProgramMoves DEF market
  <2>5. QED BY <2>2, <2>3, <2>4
<1>5. CASE BackfillReads(p)
  <2>1. Reads(p) /\ pc[p] = "reading" /\ rows[NextBar(p)] \in StoredRows
    <3>1. Reads(p) /\ pc[p] = "reading"
      BY <1>5 DEF BackfillReads, Reads, Reading
    <3>2. NextBar(p) \in Bars
      BY <1>1, <3>1, NextBarIsUnread DEF Reads, Answers, TableTypes
    <3>3. QED BY <1>1, <3>1, <3>2 DEF TableTypes
  <2>2. /\ pc' \in [Programs -> {"idle", "asked", "reading", "storing"}]
        /\ pc'[p] \in {"reading", "storing"}
        /\ \A q \in Programs \ {p} : pc'[q] = pc[q]
        /\ rows[NextBar(p)] = NoRow /\ ~job[p].dry => pc'[p] = "storing"
    <3>1. rows[NextBar(p)] = NoRow => StorageAction(rows[NextBar(p)], answer[p][NextBar(p)]) # "skip"
      BY DEF StorageAction
    <3>2. QED BY <1>1, <1>5, <3>1 DEF BackfillReads, TableTypes
  <2>3. TableTypes' /\ RowsStay
    BY <1>1, <2>1, <2>2, ReadsOne DEF Reads, TableTypes, market, RowsStay
  <2>4. ReadsInOrder(p)' /\ RowsRemain(p)'
    BY <1>1, <2>1, <2>2, ReadingKeepsOrder
  <2>5. LooksBack(p)'
    BY <1>1, <2>1 DEF LooksBack, Reads, market
  <2>6. OnlyLastIsMissing(p)'
    <3>1. \A b \in DOMAIN loaded[p] : ~job[p].dry => loaded[p][b] # NoRow
      BY <1>1, <2>1 DEF OnlyLastIsMissing
    <3>2. \A c \in DOMAIN loaded'[p] : c <= NextBar(p)
      <4>1. NextBar(p) \in DOMAIN answer[p] /\ DOMAIN answer[p] \subseteq Bars
        BY <1>1, <2>1, NextBarIsUnread DEF Reads, Answers, TableTypes
      <4>2. \A c \in DOMAIN loaded[p] : c \in DOMAIN answer[p] /\ c < NextBar(p)
        BY <1>1, <2>1, NextBarIsUnread DEF Reads, Knows, ReadsInOrder
      <4>3. \A c \in DOMAIN answer[p] : c \in Int
        BY <4>1, BarsAssumption DEF Bars
      <4>4. QED BY <1>1, <2>1, <4>1, <4>2, <4>3, ReadsOne
    <3>3. job' = job
      BY <2>1 DEF Reads
    <3>4. QED BY <1>1, <2>1, <2>2, <3>1, <3>2, <3>3, ReadsOne DEF OnlyLastIsMissing
  <2>7. QED BY <1>1, <2>1, <2>2, <2>3, <2>4, <2>5, <2>6, ReadsOne, OneProgramMoves DEF Reads, Knows, market
<1>6. CASE BackfillSkips(p)
  <2>1. Ends(p) /\ UNCHANGED market /\ rows' = rows /\ report' \in Recommendations
    BY <1>6 DEF BackfillSkips, Recommendation, Recommendations
  <2>2. RowsStay /\ rows' \in [Bars -> StoredRows]
    BY <1>1, <2>1 DEF RowsStay, TableTypes
  <2>3. QED BY <1>1, <2>1, <2>2, EndingKeepsInv
<1>7. CASE BackfillStores(p)
  <2>1. Ends(p) /\ UNCHANGED market /\ report' \in Recommendations
    BY <1>7 DEF BackfillStores, Recommendation, Recommendations
  <2>2. QED BY <1>1, <1>7, <2>1, BackfillWriting, EndingKeepsInv
<1>8. QED BY <1>3, <1>4, <1>5, <1>6, <1>7 DEF BackfillStep

LEMMA TableStarts == TableInit => TableInv
<1> SUFFICES ASSUME TableInit PROVE TableInv
  OBVIOUS
<1>1. NoBars \in Answers /\ NoBars \in Readings /\ DOMAIN NoBars = {}
  BY DEF NoBars, Answers, Readings
<1>2. NoJob \in Jobs /\ NoJob.since = 0
  BY BarsAssumption DEF NoJob, Jobs
<1>3. NoRow \in StoredRows /\ "none" \in Recommendations
  BY DEF StoredRows, Recommendations
<1>4. TableTypes
  <2>1. 0 \in 0..MaxBar /\ {} \subseteq 1..0
    BY BarsAssumption
  <2>2. QED BY <1>1, <1>2, <1>3, <2>1 DEF TableInit, TableTypes
<1>5. ASSUME NEW p \in Programs PROVE Knows(p)
  <2>1. answer[p] = NoBars /\ loaded[p] = NoBars /\ pc[p] = "idle" /\ job[p] = NoJob /\ now = 0
    BY DEF TableInit
  <2>2. QED BY <1>1, <1>2, <2>1 DEF Knows, ReadsInOrder, RowsRemain, LooksBack, OnlyLastIsMissing
<1>6. QED BY <1>4, <1>5 DEF TableInv

LEMMA TableMoves == TableInv /\ TableNext => TableInv' /\ RowsStay
<1> SUFFICES ASSUME TableInv, TableNext PROVE TableInv' /\ RowsStay
  OBVIOUS
<1>1. CASE BarEnds \/ Revise
  BY <1>1, MarketMoves
<1>2. ASSUME NEW p \in Programs, Dies(p) PROVE TableInv' /\ RowsStay
  BY <1>2, ProgramDies
<1>3. ASSUME NEW p \in Collectors, CollectorStep(p) PROVE TableInv' /\ RowsStay
  BY <1>3, CollectorKeepsInv
<1>4. ASSUME NEW p \in Backfills, BackfillStep(p) PROVE TableInv' /\ RowsStay
  BY <1>4, BackfillKeepsInv
<1>5. QED BY <1>1, <1>2, <1>3, <1>4 DEF TableNext

LEMMA TableStutters == TableInv /\ UNCHANGED tableVars => TableInv' /\ RowsStay
<1> SUFFICES ASSUME TableInv, UNCHANGED tableVars PROVE TableInv' /\ RowsStay
  OBVIOUS
<1>1. /\ now' = now /\ revised' = revised /\ rows' = rows /\ pc' = pc /\ job' = job
      /\ answer' = answer /\ loaded' = loaded /\ report' = report
  BY DEF tableVars, market, local
<1>2. QED BY <1>1
          DEF TableInv, TableTypes, Knows, ReadsInOrder, RowsRemain, LooksBack, OnlyLastIsMissing, RowsStay

\* The table's types: rows are those of the provider or made up, programs read
\* what they asked for, and reports are recommendations of the scripts.
THEOREM TableTypeTheorem == TableSpec => []TableTypeOK
<1>1. TableInv /\ [TableNext]_tableVars => TableInv'
  BY TableMoves, TableStutters
<1>2. TableInv => TableTypeOK
  <2> SUFFICES ASSUME TableInv PROVE TableTypeOK
    OBVIOUS
  <2>1. TableTypes
    BY DEF TableInv
  <2>2. \A b \in Bars : rows[b] = NoRow \/ rows[b].data \in Datas
    BY <2>1, StoredRowTypes DEF TableTypes
  <2>3. \A p \in Programs : DOMAIN loaded[p] \subseteq DOMAIN answer[p]
    BY DEF TableInv, Knows, ReadsInOrder
  <2>4. \A p \in Programs : DOMAIN answer[p] \subseteq Bars
    BY <2>1 DEF TableTypes, Answers
  <2>5. QED BY <2>1, <2>2, <2>3, <2>4 DEF TableTypes, TableTypeOK
<1>3. QED BY <1>1, <1>2, TableStarts, PTL DEF TableSpec

\* A backfill reports success only when every valid bar it was answered with is
\* in the table, whoever else inserts bars while it reads them: it looks at the
\* bars one by one, and only the last one it has read may still be missing when
\* it turns to writing (run_backfill, upsert of scripts/backfill_market_data.py).
THEOREM ReadyTheorem == TableSpec => ReadyMeansStored
<1> DEFINE Succeeds(p) ==
        /\ pc[p] \in {"reading", "storing"} /\ pc'[p] = "idle" /\ ~job[p].dry
        /\ report # "backfill_ready" /\ report' = "backfill_ready"
<1>1. ASSUME TableInv, [TableNext]_tableVars, NEW p \in Backfills, Succeeds(p),
             NEW b \in DOMAIN answer[p]
      PROVE  rows'[b] # NoRow
  <2>1. p \in Programs /\ TableTypes /\ Knows(p) /\ LooksBack(p) /\ OnlyLastIsMissing(p)
    BY <1>1 DEF TableInv, Programs, Knows
  <2>2. b \in Bars /\ DOMAIN answer[p] \subseteq Bars
    BY <1>1, <2>1 DEF TableTypes, Answers
  <2>3. RowsStay
    BY <1>1, TableMoves, TableStutters
  <2>4. \E q \in Backfills : BackfillStep(q)
    <3>1. report' # report
      BY <1>1
    <3>2. TableNext
      BY <1>1, <3>1 DEF tableVars
    <3>3. ASSUME NEW q \in Collectors, CollectorStep(q) PROVE report' = report
      BY <3>3 DEF CollectorStep, CollectorStarts, CollectorAnswered, CollectorReads, CollectorWrites
    <3>4. QED BY <3>1, <3>2, <3>3 DEF TableNext, BarEnds, Revise, Dies
  <2>5. PICK q \in Backfills : BackfillStep(q)
    BY <2>4
  <2>6. q = p
    <3>1. pc \in [Programs -> {"idle", "asked", "reading", "storing"}] /\ q \in Programs
      BY <2>1 DEF TableTypes, Programs
    <3>2. q # p => pc'[p] = pc[p]
      BY <2>1, <2>5, <3>1
         DEF BackfillStep, BackfillStarts, BackfillAnswered, BackfillReads, BackfillSkips, BackfillStores, Ends
    <3>3. QED BY <1>1, <3>2
  <2>7. BackfillSkips(p) \/ BackfillStores(p)
    <3>1. ~BackfillStarts(p)
      BY <1>1 DEF BackfillStarts
    <3>2. ~BackfillAnswered(p) /\ ~BackfillReads(p)
      BY <1>1 DEF BackfillAnswered, BackfillReads
    <3>3. QED BY <2>5, <2>6, <3>1, <3>2 DEF BackfillStep
  <2>8. b \in DOMAIN loaded[p] /\ pc[p] = "reading" => rows[b] # NoRow
    BY <1>1, <2>1 DEF Knows, RowsRemain, OnlyLastIsMissing
  <2>9. CASE BackfillSkips(p)
    <3>1. b \in DOMAIN loaded[p] /\ pc[p] = "reading"
      BY <1>1, <2>9 DEF BackfillSkips, Reading
    <3>2. QED BY <2>2, <2>3, <2>8, <3>1 DEF RowsStay
  <2>10. CASE BackfillStores(p)
    <3>1. pc[p] = "storing" /\ First(p) \in DOMAIN loaded[p]
      BY <1>1, <2>1, <2>10, FirstIsRead DEF BackfillStores
    <3>2. b < First(p) \/ rows'[b] # NoRow
      BY <1>1, <2>10, BackfillWriting
    <3>3. CASE b < First(p)
      <4>1. b \in DOMAIN loaded[p]
        BY <1>1, <2>1, <3>1, <3>3 DEF Knows, ReadsInOrder
      <4>2. First(p) \in Int /\ b \in Int
        BY <2>1, <2>2, <3>1, BarsAssumption DEF Bars, Knows, ReadsInOrder
      <4>3. loaded[p][b] # NoRow
        BY <1>1, <2>1, <3>1, <3>3, <4>1, <4>2 DEF OnlyLastIsMissing
      <4>4. QED BY <2>1, <2>2, <2>3, <4>1, <4>3 DEF Knows, RowsRemain, RowsStay
    <3>4. QED BY <3>2, <3>3
  <2>11. QED BY <2>7, <2>9, <2>10
<1>2. TableInv /\ [TableNext]_tableVars => TableInv'
  BY TableMoves, TableStutters
<1>3. TableInv /\ [TableNext]_tableVars =>
        [\A p \in Backfills :
            /\ pc[p] \in {"reading", "storing"} /\ pc'[p] = "idle"
            /\ ~job[p].dry
            /\ report # "backfill_ready" /\ report' = "backfill_ready"
            => \A b \in DOMAIN answer[p] : rows'[b] # NoRow]_tableVars
  BY <1>1
<1>4. QED BY <1>2, <1>3, TableStarts, PTL DEF TableSpec, ReadyMeansStored

(***************************************************************************)
(* One collector with credentials                                          *)
(***************************************************************************)

OneCollector == FALSE \notin Credentials /\ \A c, d \in Collectors : c = d

AnswersAreReal ==
    \A c \in Collectors : \A b \in DOMAIN answer[c] : answer[c][b] \in Real

\* While the collector holds a forming bar, nobody takes the mark of that bar
\* from a row it has read as its own.
MarkStays ==
    \A c \in Collectors : \A b \in DOMAIN loaded[c] :
        answer[c][b] = "partial" /\ loaded[c][b].live => rows[b].live

\* And no row that a backfill has read as backfilled has got the mark since.
NotOvertaken ==
    \A c \in Collectors, p \in Backfills : \A b \in DOMAIN answer[c] \cap DOMAIN loaded[p] :
        answer[c][b] = "partial" /\ loaded[p][b] # NoRow /\ ~loaded[p][b].live => ~rows[b].live

Final == AnswersAreReal /\ MarkStays /\ NotOvertaken /\ BackfilledAreFinal

\* Neither the rows nor what a collector holds or a backfill has read.
LEMMA FinalFrame ==
    ASSUME Final, rows' = rows,
           \A c \in Collectors : answer'[c] = answer[c] \/ DOMAIN answer'[c] = {},
           \A p \in Programs : loaded'[p] = loaded[p] \/ DOMAIN loaded'[p] = {},
           \A c \in Collectors : answer'[c] = answer[c] \/ DOMAIN loaded'[c] = {}
    PROVE  Final'
<1>1. AnswersAreReal'
  BY DEF Final, AnswersAreReal
<1>2. MarkStays'
  BY DEF Final, MarkStays, Programs
<1>3. NotOvertaken'
  BY DEF Final, NotOvertaken, Programs
<1>4. BackfilledAreFinal'
  BY DEF Final, BackfilledAreFinal
<1>5. QED BY <1>1, <1>2, <1>3, <1>4 DEF Final

LEMMA CollectorKeepsFinal ==
    ASSUME OneCollector, TableInv, Final, NEW p \in Collectors, CollectorStep(p)
    PROVE  Final'
<1>1. p \in Programs /\ TableTypes /\ Knows(p) /\ \A c \in Collectors : c = p
  BY DEF TableInv, Programs, OneCollector
<1>2. \A q \in Backfills : q \in Programs /\ q # p
  BY ProgramsAssumption DEF Programs
<1>3. CASE CollectorStarts(p)
  BY <1>3, FinalFrame DEF CollectorStarts
<1>4. CASE CollectorAnswered(p)
  <2>1. PICK newest \in {now, now + 1}, real \in Credentials :
            LET bars == {b \in Bars : newest - Limit < b /\ b <= newest}
            IN  answer' = [answer EXCEPT ![p] =
                            [b \in bars |-> IF real THEN Content(b) ELSE "synthetic"]]
    BY <1>4 DEF CollectorAnswered
  <2> DEFINE bars == {b \in Bars : newest - Limit < b /\ b <= newest}
             new == [b \in bars |-> IF real THEN Content(b) ELSE "synthetic"]
  <2>2. \A b \in DOMAIN new : b \in Int /\ new[b] = Content(b)
    <3>1. real = TRUE
      BY CredentialsAssumption DEF OneCollector
    <3>2. QED BY <3>1, BarsAssumption DEF Bars
  <2>3. answer'[p] = new /\ rows' = rows /\ loaded' = loaded /\ DOMAIN loaded[p] = {}
    BY <1>1, <1>4, <2>1 DEF CollectorAnswered, TableTypes, Knows, ReadsInOrder
  <2> HIDE DEF new
  <2>4. AnswersAreReal'
    BY <1>1, <2>2, <2>3, ContentIsReal DEF AnswersAreReal
  <2>5. MarkStays'
    BY <1>1, <2>3 DEF MarkStays
  <2>6. NotOvertaken'
    <3>1. \A b \in DOMAIN new : new[b] = "partial" => ~(b <= now)
      BY <1>1, <2>2, ContentIsReal
    <3>2. \A q \in Backfills : \A b \in DOMAIN loaded[q] : b <= now
      BY <1>2 DEF TableInv, Knows, ReadsInOrder, LooksBack
    <3>3. QED BY <1>1, <2>3, <3>1, <3>2 DEF NotOvertaken
  <2>7. QED BY <2>3, <2>4, <2>5, <2>6 DEF Final, BackfilledAreFinal
<1>5. CASE CollectorReads(p)
  <2>1. Reads(p)
    BY <1>5 DEF CollectorReads, Reads
  <2>2. rows' = rows /\ answer' = answer
    BY <2>1 DEF Reads
  <2>3. AnswersAreReal' /\ BackfilledAreFinal'
    BY <2>2 DEF Final, AnswersAreReal, BackfilledAreFinal
  <2>4. MarkStays'
    BY <1>1, <2>1, <2>2, ReadsOne DEF Final, MarkStays
  <2>5. NotOvertaken'
    BY <1>1, <1>2, <2>1, <2>2, ReadsOne DEF Final, NotOvertaken
  <2>6. QED BY <2>3, <2>4, <2>5 DEF Final
<1>6. CASE CollectorWrites(p)
  <2>1. Ends(p)
    BY <1>6 DEF CollectorWrites
  <2>2. DOMAIN answer'[p] = {} /\ DOMAIN loaded'[p] = {}
    BY <1>1, <2>1, EndedKnows
  <2>3. AnswersAreReal' /\ MarkStays' /\ NotOvertaken'
    BY <1>1, <2>2 DEF AnswersAreReal, MarkStays, NotOvertaken
  <2>4. ASSUME NEW b \in Bars, rows'[b] # NoRow, ~rows'[b].live
        PROVE  rows'[b].data \in {"final", "revised"}
    <3>1. CASE rows'[b] = rows[b]
      BY <2>4, <3>1 DEF Final, BackfilledAreFinal
    <3>2. CASE rows'[b] # rows[b]
      <4>1. ~Collected(p, b).live => FALSE
        BY DEF Collected, Row
      <4>2. /\ b \in DOMAIN answer[p] /\ b \in DOMAIN loaded[p]
            /\ loaded[p][b] # NoRow /\ rows[b] # NoRow
            /\ rows'[b] = Merge(loaded[p][b], Collected(p, b), rows[b])
        BY <1>6, <2>4, <3>2, <4>1, CollectorWriting
      <4>3. /\ loaded[p][b] \in StoredRows /\ rows[b] \in StoredRows /\ answer[p][b] \in Datas
        BY <1>1, <4>2 DEF TableTypes, Readings, Answers
      <4>4. Collected(p, b) \in StoredRows /\ Collected(p, b).live = TRUE /\ Collected(p, b).data = answer[p][b]
        BY <4>3, StoredRowTypes DEF Collected, Row
      <4>5. /\ rows'[b].data \in {answer[p][b], rows[b].data}
            /\ ~loaded[p][b].live => rows'[b].live
            /\ loaded[p][b].live => rows'[b].live = rows[b].live
        <5>1. loaded[p][b].live \in BOOLEAN
          BY <4>3, StoredRowTypes
        <5> DEFINE new == Collected(p, b)
                   read == loaded[p][b]
        <5>2. /\ rows'[b].data = IF new.data # read.data THEN new.data ELSE rows[b].data
              /\ rows'[b].live = IF new.live # read.live THEN new.live ELSE rows[b].live
          <6>1. new \in StoredRows /\ read \in StoredRows /\ rows[b] \in StoredRows
                /\ rows'[b] = Merge(read, new, rows[b])
            BY <4>2, <4>3, <4>4
          <6> HIDE DEF new, read
          <6>2. QED BY <6>1, MergeFields
        <5>3. CASE loaded[p][b].live = TRUE
          BY <4>4, <5>2, <5>3
        <5>4. CASE loaded[p][b].live = FALSE
          BY <4>4, <5>2, <5>4
        <5>5. QED BY <5>1, <5>3, <5>4
      <4>6. loaded[p][b].live /\ ~rows[b].live
        BY <2>4, <4>5
      <4>7. answer[p][b] \in {"final", "revised"}
        BY <4>2, <4>6 DEF Final, MarkStays, AnswersAreReal, Real
      <4>8. rows[b].data \in {"final", "revised"}
        BY <4>2, <4>6 DEF Final, BackfilledAreFinal
      <4>9. QED BY <4>5, <4>7, <4>8
    <3>3. QED BY <3>1, <3>2
  <2>5. QED BY <2>3, <2>4 DEF Final, BackfilledAreFinal
<1>7. QED BY <1>3, <1>4, <1>5, <1>6 DEF CollectorStep

LEMMA BackfillKeepsFinal ==
    ASSUME TableInv, Final, NEW p \in Backfills, BackfillStep(p)
    PROVE  Final'
<1>1. p \in Programs /\ TableTypes /\ Knows(p) /\ LooksBack(p)
  BY DEF TableInv, Programs, Knows
<1>2. \A c \in Collectors : c \in Programs /\ c # p
  BY ProgramsAssumption DEF Programs
<1>3. CASE BackfillStarts(p)
  BY <1>3, FinalFrame DEF BackfillStarts
<1>4. CASE BackfillAnswered(p)
  <2>1. CASE Ends(p)
    BY <1>1, <1>2, <1>4, <2>1, EndedKnows, FinalFrame DEF BackfillAnswered
  <2>2. CASE ~Ends(p)
    <3>1. loaded' = loaded /\ rows' = rows /\ \E new : answer' = [answer EXCEPT ![p] = new]
      BY <1>4, <2>2 DEF BackfillAnswered
    <3>2. \A c \in Collectors : answer'[c] = answer[c]
      BY <1>1, <1>2, <3>1 DEF TableTypes
    <3>3. QED BY <3>1, <3>2, FinalFrame
  <2>3. QED BY <2>1, <2>2
<1>5. CASE BackfillReads(p)
  <2>1. Reads(p)
    BY <1>5 DEF BackfillReads, Reads
  <2>2. rows' = rows /\ answer' = answer
    BY <2>1 DEF Reads
  <2>3. AnswersAreReal' /\ BackfilledAreFinal'
    BY <2>2 DEF Final, AnswersAreReal, BackfilledAreFinal
  <2>4. MarkStays'
    BY <1>1, <1>2, <2>1, <2>2, ReadsOne DEF Final, MarkStays
  <2>5. NotOvertaken'
    <3>1. ASSUME NEW c \in Collectors, NEW q \in Backfills, NEW b \in DOMAIN answer[c] \cap DOMAIN loaded'[q],
                 answer[c][b] = "partial", loaded'[q][b] # NoRow, ~loaded'[q][b].live
          PROVE  ~rows[b].live
      <4>1. CASE loaded'[q] = loaded[q]
        BY <3>1, <4>1 DEF Final, NotOvertaken
      <4>2. CASE q = p
        BY <1>1, <2>1, <3>1, <4>2, ReadsOne DEF Final, NotOvertaken
      <4>3. QED BY <1>1, <2>1, <4>1, <4>2, ReadsOne DEF Programs
    <3>2. QED BY <2>2, <3>1 DEF NotOvertaken
  <2>6. QED BY <2>3, <2>4, <2>5 DEF Final
<1>6. CASE BackfillSkips(p)
  BY <1>1, <1>2, <1>6, EndedKnows, FinalFrame DEF BackfillSkips
<1>7. CASE BackfillStores(p)
  <2>1. Ends(p)
    BY <1>7 DEF BackfillStores
  <2>2. /\ DOMAIN loaded'[p] = {}
        /\ \A q \in Programs \ {p} : answer'[q] = answer[q] /\ loaded'[q] = loaded[q]
    BY <1>1, <2>1, EndedKnows
  <2>3. \A data : Row(data, FALSE).data = data /\ ~Row(data, FALSE).live
    BY DEF Row
  <2>4. ASSUME NEW b \in Bars, rows'[b] # rows[b]
        PROVE  /\ rows'[b].data \in {"final", "revised"} /\ ~rows'[b].live
               /\ \/ ~rows[b].live
                  \/ b \in DOMAIN loaded[p] /\ loaded[p][b] # NoRow /\ ~loaded[p][b].live
    <3>1. /\ b \in DOMAIN answer[p] /\ rows'[b] = Row(answer[p][b], FALSE)
          /\ \/ rows[b] = NoRow
             \/ ~rows[b].live
             \/ b \in DOMAIN loaded[p] /\ loaded[p][b] # NoRow /\ ~loaded[p][b].live
      BY <1>7, <2>4, BackfillWriting
    <3>2. answer[p][b] \in {"final", "revised"}
      BY <1>1, <3>1 DEF LooksBack
    <3>3. rows[b] = NoRow => ~rows[b].live
      BY StoredRowTypes
    <3>4. rows'[b].data = answer[p][b] /\ ~rows'[b].live
      BY <2>3, <3>1
    <3>5. QED BY <3>1, <3>2, <3>3, <3>4
  <2>5. AnswersAreReal'
    BY <1>2, <2>2 DEF Final, AnswersAreReal
  <2>6. ASSUME NEW c \in Collectors, NEW b \in DOMAIN loaded[c],
               answer[c][b] = "partial", loaded[c][b].live
        PROVE  rows'[b].live
    <3>1. rows[b].live
      BY <2>6 DEF Final, MarkStays
    <3>2. b \in DOMAIN answer[c] /\ b \in Bars
      BY <1>1, <1>2, <2>6 DEF TableInv, Knows, ReadsInOrder, TableTypes, Answers
    <3>3. b \in DOMAIN loaded[p] /\ loaded[p][b] # NoRow /\ ~loaded[p][b].live => ~rows[b].live
      BY <2>6, <3>2 DEF Final, NotOvertaken
    <3>4. QED BY <2>4, <3>1, <3>2, <3>3
  <2>7. MarkStays'
    BY <1>2, <2>2, <2>6 DEF MarkStays
  <2>8. NotOvertaken'
    <3>1. ASSUME NEW c \in Collectors, NEW q \in Backfills \ {p}, NEW b \in DOMAIN answer[c] \cap DOMAIN loaded[q],
                 answer[c][b] = "partial", loaded[q][b] # NoRow, ~loaded[q][b].live
          PROVE  ~rows'[b].live
      <4>1. ~rows[b].live
        BY <3>1 DEF Final, NotOvertaken
      <4>2. b \in Bars
        BY <1>1, <1>2, <3>1 DEF TableTypes, Answers
      <4>3. QED BY <2>4, <4>1, <4>2
    <3>2. QED BY <1>2, <2>2, <3>1 DEF NotOvertaken, Programs
  <2>9. BackfilledAreFinal'
    BY <2>4 DEF Final, BackfilledAreFinal
  <2>10. QED BY <2>5, <2>7, <2>8, <2>9 DEF Final
<1>8. QED BY <1>3, <1>4, <1>5, <1>6, <1>7 DEF BackfillStep

LEMMA FinalMoves ==
    ASSUME OneCollector, TableInv, Final, [TableNext]_tableVars
    PROVE  Final'
<1>1. CASE UNCHANGED tableVars \/ BarEnds \/ Revise
  <2>1. rows' = rows /\ answer' = answer /\ loaded' = loaded
    BY <1>1 DEF tableVars, local, BarEnds, Revise
  <2>2. QED BY <2>1, FinalFrame
<1>2. ASSUME NEW p \in Programs, Dies(p) PROVE Final'
  <2>1. Ends(p) /\ rows' = rows /\ TableTypes
    BY <1>2 DEF Dies, TableInv
  <2>2. /\ DOMAIN answer'[p] = {} /\ DOMAIN loaded'[p] = {}
        /\ \A q \in Programs \ {p} : answer'[q] = answer[q] /\ loaded'[q] = loaded[q]
    BY <2>1, EndedKnows
  <2>3. QED BY <2>1, <2>2, FinalFrame DEF Programs
<1>3. ASSUME NEW p \in Collectors, CollectorStep(p) PROVE Final'
  BY <1>3, CollectorKeepsFinal
<1>4. ASSUME NEW p \in Backfills, BackfillStep(p) PROVE Final'
  BY <1>4, BackfillKeepsFinal
<1>5. QED BY <1>1, <1>2, <1>3, <1>4 DEF TableNext

\* A row that says it was backfilled holds complete data of the provider: with
\* one collector at a time, which has credentials, and any number of backfills.
\* The mapper of the collector writes the columns that differ from what it has
\* read, so it may leave data of a forming bar without its mark only if a
\* backfill took the mark in between, and by then the bar is no longer forming.
THEOREM FinalTheorem == OneCollector => (TableSpec => []BackfilledAreFinal)
<1> SUFFICES ASSUME OneCollector PROVE TableSpec => []BackfilledAreFinal
  OBVIOUS
<1> DEFINE Inv == TableInv /\ Final
<1>1. TableInit => Inv
  <2> SUFFICES ASSUME TableInit PROVE Inv
    OBVIOUS
  <2>1. \A p \in Programs : DOMAIN answer[p] = {} /\ DOMAIN loaded[p] = {}
    BY DEF TableInit, NoBars
  <2>2. \A b \in Bars : rows[b] = NoRow
    BY DEF TableInit
  <2>3. QED
    BY <2>1, <2>2, TableStarts
       DEF Final, AnswersAreReal, MarkStays, NotOvertaken, BackfilledAreFinal, Programs
<1>2. Inv /\ [TableNext]_tableVars => Inv'
  BY TableMoves, TableStutters, FinalMoves
<1>3. Inv => BackfilledAreFinal
  BY DEF Final
<1>4. QED BY <1>1, <1>2, <1>3, PTL DEF TableSpec

(***************************************************************************)
(* Automatic training                                                      *)
(***************************************************************************)

\* Bars of a set are counted by a number, and fewer by a smaller one.
LEMMA CountBars ==
    ASSUME NEW S, S \subseteq Bars
    PROVE  /\ IsFiniteSet(S) /\ Cardinality(S) \in Nat
           /\ \A T \in SUBSET S : Cardinality(T) \in Nat /\ Cardinality(T) <= Cardinality(S)
<1>1. IsFiniteSet(Bars)
  BY FS_Interval, BarsAssumption DEF Bars
<1>2. IsFiniteSet(S)
  BY <1>1, FS_Subset
<1>3. QED BY <1>2, FS_Subset, FS_CardinalityType

\* The newest bars of a set are as many as were asked for, or all; what is left
\* out is older than all of them.
LEMMA NewestCounts ==
    ASSUME NEW S, S \subseteq Bars, NEW n \in Nat
    PROVE  /\ Newest(S, n) \subseteq S
           /\ Cardinality(Newest(S, n)) >= n \/ Newest(S, n) = S
           /\ \A b \in S \ Newest(S, n), c \in Newest(S, n) : b < c
<1> DEFINE After(b) == {c \in S : c > b}
           rest == S \ Newest(S, n)
<1>1. Newest(S, n) \subseteq S /\ rest \subseteq S /\ \A b \in S : b \in Int
  BY BarsAssumption DEF Newest, Bars
<1>2. \A b \in S : After(b) \subseteq S /\ Cardinality(After(b)) \in Nat
  BY CountBars
<1>3. \A b \in rest : Cardinality(After(b)) >= n
  <2> TAKE b \in rest
  <2>1. b \in S /\ ~(Cardinality(After(b)) < n)
    BY DEF Newest
  <2>2. QED BY <1>2, <2>1
<1>4. CASE rest # {}
  <2>1. PICK last \in rest : \A b \in rest : last >= b
    BY <1>1, <1>4, LastBar
  <2>2. After(last) \subseteq Newest(S, n)
    <3> SUFFICES ASSUME NEW c \in S, c > last, c \notin Newest(S, n) PROVE FALSE
      OBVIOUS
    <3>1. c \in rest /\ c \in Int /\ last \in Int
      BY <1>1
    <3>2. QED BY <2>1, <3>1
  <2>3. Newest(S, n) \subseteq Bars
    BY <1>1
  <2>4. Cardinality(After(last)) <= Cardinality(Newest(S, n)) /\ Cardinality(Newest(S, n)) \in Nat
    BY <2>2, <2>3, CountBars
  <2>5. Cardinality(Newest(S, n)) >= n
    BY <1>2, <1>3, <2>1, <2>4, <1>1
  <2>6. ASSUME NEW b \in rest, NEW c \in Newest(S, n) PROVE b < c
    <3>1. b \in S /\ c \in S /\ b \in Int /\ c \in Int
      BY <1>1
    <3>2. Cardinality(After(c)) < n
      BY DEF Newest
    <3>3. CASE c <= b
      <4>1. After(b) \subseteq After(c)
        <5> SUFFICES ASSUME NEW d \in S, d > b PROVE d > c
          OBVIOUS
        <5> QED BY <1>1, <3>1, <3>3
      <4>2. After(c) \subseteq Bars
        BY <1>2, <3>1
      <4>3. Cardinality(After(b)) <= Cardinality(After(c))
        BY <4>1, <4>2, CountBars
      <4>4. Cardinality(After(b)) >= n /\ Cardinality(After(b)) \in Nat /\ Cardinality(After(c)) \in Nat
        BY <1>2, <1>3, <3>1
      <4>5. QED BY <3>2, <4>3, <4>4
    <3>4. QED BY <3>1, <3>3
  <2>7. QED BY <1>1, <2>5, <2>6
<1>5. CASE rest = {}
  BY <1>1, <1>5
<1>6. QED BY <1>4, <1>5

\* The limit of the load is the count that the readiness check came to, or
\* more, as far as the cap allows.
LEMMA LimitCovers ==
    ASSUME NEW count \in Nat, count = Cardinality(study.counted)
    PROVE  TrainingLimit \in Nat /\ TrainingLimit >= Min({count, RowCap})
<1> DEFINE most == Max({count, WantedRows, MinRows})
<1>1. count \in Int /\ WantedRows \in Int /\ MinRows \in Int /\ RowCap \in Int
  BY StudyAssumption
<1>2. most \in {count, WantedRows, MinRows} /\ \A y \in {count, WantedRows, MinRows} : most >= y
  BY <1>1, MaxOfThree
<1>3. most \in Nat /\ most \in Int /\ most >= count
  BY <1>2, StudyAssumption
<1>4. TrainingLimit = Min({most, RowCap})
  BY DEF TrainingLimit
<1>5. QED
  <2> HIDE DEF most
  <2>1. Min({most, RowCap}) = IF most <= RowCap THEN most ELSE RowCap
    BY <1>1, <1>3, MaxOfTwo
  <2>2. Min({count, RowCap}) = IF count <= RowCap THEN count ELSE RowCap
    BY <1>1, MaxOfTwo
  <2>3. QED BY <1>1, <1>3, <1>4, <2>1, <2>2, StudyAssumption

\* What a training has loaded does justice to what was counted.
LoadIsFair ==
    /\ Cardinality(study.loaded) >= Min({Cardinality(study.counted), RowCap})
    /\ \A b \in study.counted \ study.loaded, c \in study.loaded : b < c

\* The rows that the readiness check has counted stay in the table while
\* research goes on, and only a run that was found ready loads and trains.
Counted ==
    /\ {"ready", "counted", "loaded"} \subseteq DOMAIN study
    /\ study.counted \subseteq Finished
    /\ study.ready => Cardinality(study.counted) >= MinRows
    /\ stage \in {"training", "fitting"} => study.ready
    /\ stage = "fitting" => LoadIsFair

LEMMA LoadingIsFair ==
    ASSUME Counted, LoadRows
    PROVE  LoadIsFair'
<1> DEFINE newest == Newest(Finished, TrainingLimit)
<1>1. Finished \subseteq Bars /\ study.counted \subseteq Bars
  BY DEF Finished, Counted
<1>2. study'.loaded = newest /\ study'.counted = study.counted
  BY DEF LoadRows, Counted
<1>3. PICK count \in Nat : count = Cardinality(study.counted) /\ count <= Cardinality(Finished)
  BY <1>1, CountBars DEF Counted
<1>4. TrainingLimit \in Nat /\ TrainingLimit >= Min({count, RowCap})
  BY <1>3, LimitCovers
<1>5. /\ newest \subseteq Finished
      /\ Cardinality(newest) >= TrainingLimit \/ newest = Finished
      /\ \A b \in Finished \ newest, c \in newest : b < c
  <2> HIDE DEF newest
  <2>1. newest = Newest(Finished, TrainingLimit)
    BY DEF newest
  <2>2. QED BY <1>1, <1>4, <2>1, NewestCounts
<1>6. Min({count, RowCap}) <= count /\ Min({count, RowCap}) \in Int
  BY <1>3, MaxOfTwo, StudyAssumption
<1>7. Cardinality(newest) \in Nat /\ Cardinality(Finished) \in Nat
  BY <1>1, <1>5, CountBars
<1>8. Cardinality(newest) >= Min({count, RowCap})
  BY <1>3, <1>4, <1>5, <1>6, <1>7
<1>9. \A b \in study.counted \ newest, c \in newest : b < c
  BY <1>5 DEF Counted
<1>10. QED BY <1>2, <1>3, <1>8, <1>9 DEF LoadIsFair

LEMMA ResearchKeepsCount ==
    ASSUME Counted, ResearchNext
    PROVE  Counted' /\ UNCHANGED tableVars
<1>1. UNCHANGED tableVars
  BY DEF ResearchNext, ResearchStarts, Inspect, FetchQuarters, FetchHours, Evaluate, Decide,
         LoadRows, Train, ResearchDies
<1> SUFFICES Counted'
  BY <1>1
<1>2. Finished' = Finished
  BY <1>1 DEF tableVars, Finished
<1>3. /\ {"ready", "counted", "loaded"} \subseteq DOMAIN NoStudy
      /\ NoStudy.ready = FALSE /\ NoStudy.counted = {}
  BY DEF NoStudy
<1>4. CASE ResearchStarts
  <2>1. CASE UNCHANGED <<stage, study>>
    BY <1>2, <2>1 DEF Counted, LoadIsFair
  <2>2. CASE ~UNCHANGED <<stage, study>>
    <3>1. /\ stage' = "inspecting" /\ {"ready", "counted", "loaded"} \subseteq DOMAIN study'
          /\ study'.ready = FALSE /\ study'.counted = {}
      BY <1>3, <1>4, <2>2 DEF ResearchStarts, NoStudy
    <3>2. QED BY <3>1 DEF Counted
  <2>3. QED BY <2>1, <2>2
<1>5. CASE Inspect
  <2>1. /\ {"ready", "counted", "loaded"} \subseteq DOMAIN study'
        /\ study'.ready = Ready(Finished) /\ study'.counted = Finished
        /\ stage' \in {"fetching", "deciding"}
    BY <1>5 DEF Inspect, Counted
  <2>2. Ready(Finished) => Cardinality(Finished) >= MinRows
    BY DEF Ready
  <2>3. QED BY <1>2, <2>1, <2>2 DEF Counted
<1>6. CASE FetchQuarters \/ FetchHours \/ Evaluate
  <2>1. /\ {"ready", "counted", "loaded"} \subseteq DOMAIN study'
        /\ study'.ready = study.ready /\ study'.counted = study.counted
        /\ stage' \notin {"training", "fitting"}
    BY <1>6 DEF FetchQuarters, FetchHours, Evaluate, Counted
  <2>2. QED BY <1>2, <2>1 DEF Counted
<1>7. CASE Decide
  <2>1. PICK findings \in Findings :
            IF GatesPassed(findings)
            THEN stage' = "training" /\ UNCHANGED <<study, outcome>>
            ELSE Reports(FinalRecommendation(findings), FALSE, FALSE)
    BY <1>7 DEF Decide
  <2>2. CASE GatesPassed(findings)
    BY <1>2, <2>1, <2>2 DEF GatesPassed, Counted
  <2>3. CASE ~GatesPassed(findings)
    BY <1>3, <2>1, <2>3 DEF Reports, Counted
  <2>4. QED BY <2>2, <2>3
<1>8. CASE LoadRows
  <2>1. /\ {"ready", "counted", "loaded"} \subseteq DOMAIN study'
        /\ study'.ready = study.ready /\ study'.counted = study.counted
        /\ stage = "training"
    BY <1>8 DEF LoadRows, Counted
  <2>2. LoadIsFair'
    BY <1>8, LoadingIsFair
  <2>3. QED BY <1>2, <2>1, <2>2 DEF Counted
<1>9. CASE Train \/ ResearchDies
  <2>1. stage' = "idle" /\ study' = NoStudy
    BY <1>9 DEF Train, ResearchDies, Reports
  <2>2. QED BY <1>3, <2>1 DEF Counted
<1>10. QED BY <1>4, <1>5, <1>6, <1>7, <1>8, <1>9 DEF ResearchNext

\* A training loads as many rows as the gate has counted, or as it ever loads,
\* and leaves out none but older ones, whatever collectors, backfills and
\* research runs do between the count and the load.  Of the table it takes that
\* no program deletes a row, not even when its transaction is refused.
THEOREM RowsTheorem == MarketSpec => []TrainsOnCountedRows
<1> DEFINE Inv == TableInv /\ Counted
<1>1. MarketInit => Inv
  <2> SUFFICES ASSUME MarketInit PROVE Inv
    OBVIOUS
  <2>1. TableInv
    BY TableStarts DEF MarketInit
  <2>2. stage = "idle" /\ study = NoStudy
    BY DEF MarketInit, ResearchInit
  <2>3. QED BY <2>1, <2>2 DEF Counted, NoStudy
<1>2. Inv /\ [MarketNext]_allVars => Inv'
  <2> SUFFICES ASSUME TableInv, Counted, [MarketNext]_allVars PROVE TableInv' /\ Counted'
    OBVIOUS
  <2>1. CASE [TableNext]_tableVars /\ UNCHANGED researchVars
    <3>1. TableInv' /\ RowsStay
      BY <2>1, TableMoves, TableStutters
    <3>2. Finished \subseteq Finished'
      BY <3>1 DEF RowsStay, Finished
    <3>3. stage' = stage /\ study' = study
      BY <2>1 DEF researchVars
    <3>4. QED BY <3>1, <3>2, <3>3 DEF Counted, LoadIsFair
  <2>2. CASE ResearchNext
    <3>1. Counted' /\ UNCHANGED tableVars
      BY <2>2, ResearchKeepsCount
    <3>2. QED BY <3>1, TableStutters
  <2>3. QED BY <2>1, <2>2 DEF MarketNext, allVars
<1>3. Inv => TrainsOnCountedRows
  BY DEF Counted, LoadIsFair, TrainsOnCountedRows
<1>4. QED BY <1>1, <1>2, <1>3, PTL DEF MarketSpec

(***************************************************************************)
(* Trades and labels                                                       *)
(***************************************************************************)

\* A reader takes the first of its tests that holds.
Exit(reason, price, w, c) ==
    [reason |-> reason, gain |-> price - Entry, hold |-> w.age, low |-> w.low,
     spans |-> HitsTarget(c, TakeProfit) /\ HitsStop(c)]

Counts(tests, i) == tests[i].holds /\ \A j \in DOMAIN tests : j < i => ~tests[j].holds

LEMMA FirstTestCounts ==
    ASSUME NEW tests, DOMAIN tests \subseteq Nat, NEW w, NEW c
    PROVE  \/ /\ \A i \in DOMAIN tests : ~tests[i].holds
              /\ Settled(tests, w, c) = Open
           \/ \E i \in DOMAIN tests :
                Counts(tests, i) /\ Settled(tests, w, c) = Exit(tests[i].reason, tests[i].price, w, c)
<1> DEFINE met == {i \in DOMAIN tests : tests[i].holds}
<1>1. CASE met = {}
  BY <1>1 DEF Settled
<1>2. CASE met # {}
  <2>1. Min(met) \in met /\ \A j \in met : Min(met) <= j
    <3>1. met \subseteq Nat
      OBVIOUS
    <3> HIDE DEF met
    <3> QED BY <1>2, <3>1, LeastBar
  <2>2. Settled(tests, w, c) = Exit(tests[Min(met)].reason, tests[Min(met)].price, w, c)
    BY <1>2 DEF Settled, Exit
  <2>3. \A j \in DOMAIN tests : j < Min(met) => ~tests[j].holds
    BY <2>1
  <2>4. QED BY <2>1, <2>2, <2>3 DEF Counts
<1>3. QED BY <1>1, <1>2

Windows == [age : Nat, high : Nat, low : Nat, oneR : BOOLEAN]
Words == {"none", "ambiguous", "stop", "raised_stop", "mfe_protection", "take_profit", "time_stop",
          "max_hold", "timeout", "trailing", "no_profitable_exit"}
Verdicts == [reason : Words, gain : Int, hold : Nat, low : Nat, spans : BOOLEAN]
Books == [entries : Nat, gross : Int, costs : Int, equity : Int, peak : Int, drawdown : Int,
          bought : Nat, paid : Nat]

SimTypes ==
    /\ plan \in Plans
    /\ phase \in {"flat", "open", "settled", "bought"}
    /\ walk \in Windows
    /\ verdict \in [Readers -> Verdicts]
    /\ book \in Books

LEMMA CandleTypes ==
    \A c \in Candles : c.high \in Nat /\ c.low \in Nat /\ c.close \in Nat
BY CandlesAssumption DEF Candles

LEMMA PriceTypes ==
    ASSUME NEW w \in Windows, plan \in Plans
    PROVE  /\ Stop \in Int /\ Entry \in Int /\ Stop < Entry
           /\ \A percent \in Nat : Target(percent) \in Int /\ Target(percent) >= Entry
           /\ ProtectedPrice(w) \in Int /\ TrailingPrice(w) \in Int
           /\ RaisedStop(w) \in Int /\ RaisedStop(w) >= Stop
           /\ plan.mode = "fixed" => RaisedStop(w) = Stop
<1>1. Stop \in Int /\ Entry \in Int /\ Stop < Entry
  BY BarriersAssumption DEF Stop, Entry
<1>2. \A percent \in Nat : Target(percent) \in Int /\ Target(percent) >= Entry
  BY DEF Target, Entry
<1>3. w.high \in Nat
  BY DEF Windows
<1>4. w.high * (100 - StopLoss) \in Int /\ w.high * (100 - Trailing) \in Int
  BY <1>3, BarriersAssumption
<1>5. ProtectedPrice(w) \in Int /\ TrailingPrice(w) \in Int
  BY <1>3, <1>4 DEF ProtectedPrice, TrailingPrice
<1>6. /\ Max({Stop, Entry}) = Entry
      /\ Max({Stop, Entry, w.high * (100 - StopLoss)}) \in Int
      /\ Max({Stop, Entry, w.high * (100 - StopLoss)}) >= Stop
  <2>1. Max({Stop, Entry}) = Entry
    BY <1>1, MaxOfTwo
  <2> DEFINE trail == w.high * (100 - StopLoss)
  <2>2. trail \in Int
    BY <1>4
  <2> HIDE DEF trail
  <2>3. Max({Stop, Entry, trail}) \in {Stop, Entry, trail} /\ Max({Stop, Entry, trail}) >= Stop
    BY <1>1, <2>2, MaxOfThree
  <2>4. Max({Stop, Entry, trail}) \in Int
    BY <1>1, <2>2, <2>3
  <2>5. QED BY <2>1, <2>3, <2>4 DEF trail
<1>7. RaisedStop(w) \in Int /\ RaisedStop(w) >= Stop
  BY <1>1, <1>6 DEF RaisedStop
<1>8. plan.mode = "fixed" => RaisedStop(w) = Stop
  BY DEF RaisedStop
<1>9. QED BY <1>1, <1>2, <1>5, <1>7, <1>8

\* What a trade with fixed exits and the label of a dip come to.
FixedVerdict(w, c) ==
    CASE HitsStop(c) /\ HitsTarget(c, TakeProfit) -> Exit("ambiguous", Stop, w, c)
      [] HitsStop(c) /\ ~HitsTarget(c, TakeProfit) -> Exit("stop", Stop, w, c)
      [] ~HitsStop(c) /\ HitsTarget(c, TakeProfit) ->
            Exit("take_profit", Target(TakeProfit), w, c)
      [] ~HitsStop(c) /\ ~HitsTarget(c, TakeProfit) /\ w.age = Hold ->
            Exit("max_hold", 100 * c.close, w, c)
      [] OTHER -> Open

\* Whoever reports a target or a trail, or nothing yet, has not seen the stop
\* touched by this candle.
Survived(v, c) == v = Open \/ v.reason \in {"take_profit", "trailing"} => ~HitsStop(c)

\* A verdict is of the candle it was reached with.
Dated(v, w) == v # Open => v.hold = w.age /\ v.low = w.low /\ v.reason # "none"

LEMMA ExitTypes ==
    ASSUME NEW w \in Windows, NEW c \in Candles, NEW reason \in Words \ {"none"}, NEW price \in Int
    PROVE  /\ Exit(reason, price, w, c) \in Verdicts /\ Exit(reason, price, w, c) # Open
           /\ Dated(Exit(reason, price, w, c), w)
           /\ Exit(reason, price, w, c).reason = reason
           /\ Exit(reason, price, w, c).gain = price - Entry
<1>1. Entry \in Int
  BY DEF Entry
<1>2. price - Entry \in Int
  BY <1>1
<1>3. Exit(reason, price, w, c).reason = reason /\ Open.reason = "none"
  BY DEF Exit, Open
<1>4. w.age \in Nat /\ w.low \in Nat
  BY DEF Windows
<1>5. (HitsTarget(c, TakeProfit) /\ HitsStop(c)) \in BOOLEAN
  BY DEF HitsTarget, HitsStop
<1>6. Exit(reason, price, w, c) \in Verdicts
  BY <1>2, <1>4, <1>5 DEF Exit, Verdicts
<1>7. QED BY <1>3, <1>6 DEF Exit, Dated

LEMMA OpenTypes == Open \in Verdicts /\ Open.reason = "none" /\ \A w : Dated(Open, w)
BY DEF Open, Verdicts, Words, Dated

LEMMA TradeReads ==
    ASSUME NEW w \in Windows, NEW c \in Candles, NEW weak \in BOOLEAN, plan \in Plans
    PROVE  LET v == Verdict("trade", w, c, weak)
           IN  /\ v \in Verdicts /\ Dated(v, w) /\ Survived(v, c) /\ v.reason # "trailing"
               /\ plan.mode = "fixed" => v = FixedVerdict(w, c)
<1> DEFINE tests == TradeTests(w, c, weak)
           v == Verdict("trade", w, c, weak)
           stop == RaisedStop(w)
           touched == 100 * c.low <= stop
           hit == HitsTarget(c, TakeProfit)
           Good == /\ v \in Verdicts /\ Dated(v, w) /\ Survived(v, c) /\ v.reason # "trailing"
                   /\ plan.mode = "fixed" => v = FixedVerdict(w, c)
<1>1. DOMAIN tests = 1..6
  BY DEF TradeTests
<1>2. v = Settled(tests, w, c)
  BY DEF Verdict
<1>3. /\ stop \in Int /\ Stop \in Int /\ stop >= Stop /\ ProtectedPrice(w) \in Int
      /\ Target(TakeProfit) \in Int /\ 100 * c.low \in Int /\ 100 * c.close \in Int
      /\ plan.mode = "fixed" => stop = Stop
  BY PriceTypes, CandleTypes, BarriersAssumption
<1>4. (HitsStop(c) => touched) /\ (stop = Stop => (HitsStop(c) <=> touched))
  BY <1>3 DEF HitsStop
<1>5. /\ tests[1].holds <=> touched /\ hit /\ stop <= Stop
      /\ tests[2].holds <=> touched
      /\ tests[3].holds => plan.mode # "fixed"
      /\ tests[4].holds <=> hit
      /\ tests[5].holds => plan.mode # "fixed"
      /\ tests[6].holds <=> w.age = Hold
  <2>1. tests[1].holds <=> touched /\ hit /\ stop <= Stop
    BY DEF TradeTests, Test
  <2>2. tests[2].holds <=> touched
    BY DEF TradeTests, Test
  <2>3. tests[3].holds => plan.mode # "fixed"
    BY DEF TradeTests, Test
  <2>4. tests[4].holds <=> hit
    BY DEF TradeTests, Test
  <2>5. tests[5].holds => plan.mode # "fixed"
    BY DEF TradeTests, Test
  <2>6. tests[6].holds <=> w.age = Hold
    BY DEF TradeTests, Test
  <2>7. QED BY <2>1, <2>2, <2>3, <2>4, <2>5, <2>6
<1>6. /\ tests[1].reason = "ambiguous" /\ tests[1].price = stop
      /\ tests[2].reason = (IF stop <= Stop THEN "stop" ELSE "raised_stop") /\ tests[2].price = stop
      /\ tests[3].reason = "mfe_protection" /\ tests[3].price = ProtectedPrice(w)
      /\ tests[4].reason = "take_profit" /\ tests[4].price = Target(TakeProfit)
      /\ tests[5].reason = "time_stop" /\ tests[5].price = 100 * c.close
      /\ tests[6].reason = "max_hold" /\ tests[6].price = 100 * c.close
  BY DEF TradeTests, Test
<1> HIDE DEF tests, stop, v, touched, hit
<1>7. \A i \in 1..6 : tests[i].reason \in Words \ {"none", "trailing"} /\ tests[i].price \in Int
  BY <1>3, <1>6 DEF Words
<1>8. ASSUME \A i \in 1..6 : ~tests[i].holds, v = Open PROVE Good
  <2>1. ~tests[2].holds /\ ~tests[4].holds /\ ~tests[6].holds
    BY <1>8
  <2>2. ~HitsStop(c) /\ ~hit /\ w.age # Hold
    BY <1>4, <1>5, <2>1
  <2>3. v = FixedVerdict(w, c)
    BY <1>8, <2>2 DEF FixedVerdict, hit
  <2>4. QED BY <1>8, <2>2, <2>3, OpenTypes DEF Survived
<1>9. ASSUME NEW i \in 1..6, Counts(tests, i), v = Exit(tests[i].reason, tests[i].price, w, c)
      PROVE  Good
  <2>1. /\ v \in Verdicts /\ Dated(v, w) /\ v # Open /\ v.reason = tests[i].reason /\ v.reason # "trailing"
    BY <1>7, <1>9, ExitTypes
  <2>2. tests[i].holds /\ \A j \in 1..6 : j < i => ~tests[j].holds
    BY <1>1, <1>9 DEF Counts
  <2>3. CASE i = 1
    <3>1. touched /\ hit /\ stop <= Stop
      BY <1>5, <2>2, <2>3
    <3>2. HitsStop(c) /\ stop = Stop
      BY <1>3, <1>4, <3>1
    <3>3. v.reason = "ambiguous" /\ v = Exit("ambiguous", Stop, w, c)
      BY <1>6, <1>9, <2>1, <2>3, <3>2
    <3>4. QED BY <2>1, <3>1, <3>2, <3>3 DEF Survived, FixedVerdict, hit
  <2>4. CASE i = 2
    <3>1. touched /\ ~(hit /\ stop <= Stop)
      BY <1>5, <2>2, <2>4
    <3>2. v.reason \in {"stop", "raised_stop"}
      BY <1>6, <2>1, <2>4
    <3>3. plan.mode = "fixed" => HitsStop(c) /\ ~hit /\ v = Exit("stop", Stop, w, c)
      BY <1>3, <1>4, <1>6, <1>9, <2>4, <3>1
    <3>4. QED BY <2>1, <3>2, <3>3 DEF Survived, FixedVerdict, hit
  <2>5. CASE i \in {3, 5}
    <3>1. plan.mode # "fixed"
      BY <1>5, <2>2, <2>5
    <3>2. v.reason \in {"mfe_protection", "time_stop"}
      BY <1>6, <2>1, <2>5
    <3>3. QED BY <2>1, <3>1, <3>2 DEF Survived
  <2>6. CASE i = 4
    <3>1. hit /\ ~HitsStop(c)
      BY <1>4, <1>5, <2>2, <2>6
    <3>2. v = Exit("take_profit", Target(TakeProfit), w, c)
      BY <1>6, <1>9, <2>6
    <3>3. QED BY <2>1, <3>1, <3>2 DEF Survived, FixedVerdict, hit
  <2>7. CASE i = 6
    <3>1. ~hit /\ ~HitsStop(c) /\ w.age = Hold
      BY <1>4, <1>5, <2>2, <2>7
    <3>2. v = Exit("max_hold", 100 * c.close, w, c)
      BY <1>6, <1>9, <2>7
    <3>3. QED BY <2>1, <3>1, <3>2 DEF Survived, FixedVerdict, hit
  <2>8. QED BY <2>3, <2>4, <2>5, <2>6, <2>7
<1>10. Good
  <2>1. DOMAIN tests \subseteq Nat
    BY <1>1
  <2>2. \/ (\A i \in 1..6 : ~tests[i].holds) /\ v = Open
        \/ \E i \in 1..6 : Counts(tests, i) /\ v = Exit(tests[i].reason, tests[i].price, w, c)
    BY <1>1, <1>2, <2>1, FirstTestCounts
  <2> HIDE DEF Good
  <2>3. QED BY <1>8, <1>9, <2>2
<1>11. QED BY <1>10 DEF v

LEMMA DipReads ==
    ASSUME NEW w \in Windows, NEW c \in Candles, NEW weak \in BOOLEAN, plan \in Plans
    PROVE  LET v == Verdict("dip", w, c, weak)
           IN  /\ v \in Verdicts /\ Dated(v, w) /\ Survived(v, c) /\ v.reason # "trailing"
               /\ v = FixedVerdict(w, c)
<1> DEFINE tests == DipTests(w, c)
           v == Verdict("dip", w, c, weak)
           hit == HitsTarget(c, TakeProfit)
           touched == HitsStop(c)
           Good == /\ v \in Verdicts /\ Dated(v, w) /\ Survived(v, c) /\ v.reason # "trailing"
                   /\ v = FixedVerdict(w, c)
<1>1. DOMAIN tests = 1..4
  BY DEF DipTests
<1>2. v = Settled(tests, w, c)
  BY DEF Verdict
<1>3. Stop \in Int /\ Target(TakeProfit) \in Int /\ 100 * c.close \in Int
  BY PriceTypes, CandleTypes, BarriersAssumption
<1>4. /\ tests[1].holds <=> hit /\ touched
      /\ tests[2].holds <=> touched
      /\ tests[3].holds <=> hit
      /\ tests[4].holds <=> w.age = Hold
  <2>1. tests[1].holds <=> hit /\ touched
    BY DEF DipTests, Test
  <2>2. tests[2].holds <=> touched
    BY DEF DipTests, Test
  <2>3. tests[3].holds <=> hit
    BY DEF DipTests, Test
  <2>4. tests[4].holds <=> w.age = Hold
    BY DEF DipTests, Test
  <2>5. QED BY <2>1, <2>2, <2>3, <2>4
<1>5. /\ tests[1].reason = "ambiguous" /\ tests[1].price = Stop
      /\ tests[2].reason = "stop" /\ tests[2].price = Stop
      /\ tests[3].reason = "take_profit" /\ tests[3].price = Target(TakeProfit)
      /\ tests[4].reason = "max_hold" /\ tests[4].price = 100 * c.close
  BY DEF DipTests, Test
<1> HIDE DEF tests, v, hit, touched
<1>6. \A i \in 1..4 : tests[i].reason \in Words \ {"none", "trailing"} /\ tests[i].price \in Int
  BY <1>3, <1>5 DEF Words
<1>7. ASSUME \A i \in 1..4 : ~tests[i].holds, v = Open PROVE Good
  <2>1. ~touched /\ ~hit /\ w.age # Hold
    BY <1>4, <1>7
  <2>2. v = FixedVerdict(w, c)
    BY <1>7, <2>1 DEF FixedVerdict, hit, touched
  <2>3. QED BY <1>7, <2>1, <2>2, OpenTypes DEF Survived, touched
<1>8. ASSUME NEW i \in 1..4, Counts(tests, i), v = Exit(tests[i].reason, tests[i].price, w, c)
      PROVE  Good
  <2>1. /\ v \in Verdicts /\ Dated(v, w) /\ v # Open /\ v.reason = tests[i].reason /\ v.reason # "trailing"
    BY <1>6, <1>8, ExitTypes
  <2>2. tests[i].holds /\ \A j \in 1..4 : j < i => ~tests[j].holds
    BY <1>1, <1>8 DEF Counts
  <2>3. v.reason = "take_profit" => i = 3
    <3>1. i = 1 \/ i = 2 \/ i = 3 \/ i = 4
      OBVIOUS
    <3>2. QED BY <1>5, <2>1, <3>1
  <2>4. /\ i = 1 => hit /\ touched
        /\ i = 2 => touched /\ ~hit
        /\ i = 3 => hit /\ ~touched
        /\ i = 4 => w.age = Hold /\ ~hit /\ ~touched
    BY <1>4, <2>2
  <2>5. v = FixedVerdict(w, c)
    BY <1>5, <1>8, <2>4 DEF FixedVerdict, hit, touched
  <2>6. Survived(v, c)
    BY <2>1, <2>3, <2>4 DEF Survived, touched
  <2>7. QED BY <2>1, <2>5, <2>6
<1>9. Good
  <2>1. DOMAIN tests \subseteq Nat
    BY <1>1
  <2>2. \/ (\A i \in 1..4 : ~tests[i].holds) /\ v = Open
        \/ \E i \in 1..4 : Counts(tests, i) /\ v = Exit(tests[i].reason, tests[i].price, w, c)
    BY <1>1, <1>2, <2>1, FirstTestCounts
  <2> HIDE DEF Good
  <2>3. QED BY <1>7, <1>8, <2>2
<1>10. QED BY <1>9 DEF v

LEMMA TripleReads ==
    ASSUME NEW w \in Windows, NEW c \in Candles, NEW weak \in BOOLEAN, plan \in Plans
    PROVE  LET v == Verdict("triple", w, c, weak)
           IN  /\ v \in Verdicts /\ Dated(v, w) /\ Survived(v, c) /\ v.reason # "trailing"
               /\ v = Open <=> FixedVerdict(w, c) = Open
               /\ v.reason = "take_profit" <=> FixedVerdict(w, c).reason = "take_profit"
<1> DEFINE tests == TripleTests(w, c)
           v == Verdict("triple", w, c, weak)
           hit == HitsTarget(c, TakeProfit)
           touched == HitsStop(c)
           Good == /\ v \in Verdicts /\ Dated(v, w) /\ Survived(v, c) /\ v.reason # "trailing"
                   /\ v = Open <=> ~touched /\ ~hit /\ w.age # Hold
                   /\ v.reason = "take_profit" <=> ~touched /\ hit
<1>1. DOMAIN tests = 1..4
  BY DEF TripleTests
<1>2. v = Settled(tests, w, c)
  BY DEF Verdict
<1>3. Stop \in Int /\ Entry \in Int /\ Target(TakeProfit) \in Int /\ 100 * c.close \in Int
  BY PriceTypes, CandleTypes, BarriersAssumption
<1>4. /\ tests[1].holds <=> hit /\ touched
      /\ tests[2].holds <=> hit
      /\ tests[3].holds <=> touched
      /\ tests[4].holds <=> w.age = Hold
  <2>1. tests[1].holds <=> hit /\ touched
    BY DEF TripleTests, Test
  <2>2. tests[2].holds <=> hit
    BY DEF TripleTests, Test
  <2>3. tests[3].holds <=> touched
    BY DEF TripleTests, Test
  <2>4. tests[4].holds <=> w.age = Hold
    BY DEF TripleTests, Test
  <2>5. QED BY <2>1, <2>2, <2>3, <2>4
<1>5. /\ tests[1].reason = "stop" /\ tests[1].price = Stop
      /\ tests[2].reason = "take_profit" /\ tests[2].price = Target(TakeProfit)
      /\ tests[3].reason = "stop" /\ tests[3].price = Stop
      /\ tests[4].reason = "timeout" /\ tests[4].price = Entry
  BY DEF TripleTests, Test
<1>6. /\ FixedVerdict(w, c) = Open <=> ~touched /\ ~hit /\ w.age # Hold
      /\ FixedVerdict(w, c).reason = "take_profit" <=> ~touched /\ hit
  <2>1. \A reason \in Words \ {"none"}, price \in Int :
            Exit(reason, price, w, c).reason = reason /\ Exit(reason, price, w, c) # Open
    BY ExitTypes
  <2>2. {"ambiguous", "stop", "take_profit", "max_hold"} \subseteq Words \ {"none"}
    BY DEF Words
  <2> HIDE DEF hit, touched
  <2>3. /\ touched /\ hit => FixedVerdict(w, c) = Exit("ambiguous", Stop, w, c)
        /\ touched /\ ~hit => FixedVerdict(w, c) = Exit("stop", Stop, w, c)
        /\ ~touched /\ hit => FixedVerdict(w, c) = Exit("take_profit", Target(TakeProfit), w, c)
        /\ ~touched /\ ~hit /\ w.age = Hold => FixedVerdict(w, c) = Exit("max_hold", 100 * c.close, w, c)
        /\ ~touched /\ ~hit /\ w.age # Hold => FixedVerdict(w, c) = Open
    BY DEF FixedVerdict, hit, touched
  <2>4. QED BY <1>3, <2>1, <2>2, <2>3, OpenTypes
<1> HIDE DEF tests, v, hit, touched
<1>7. \A i \in 1..4 : tests[i].reason \in Words \ {"none", "trailing"} /\ tests[i].price \in Int
  BY <1>3, <1>5 DEF Words
<1>8. ASSUME \A i \in 1..4 : ~tests[i].holds, v = Open PROVE Good
  <2>1. ~touched /\ ~hit /\ w.age # Hold
    BY <1>4, <1>8
  <2>2. QED BY <1>8, <2>1, OpenTypes DEF Survived, touched
<1>9. ASSUME NEW i \in 1..4, Counts(tests, i), v = Exit(tests[i].reason, tests[i].price, w, c)
      PROVE  Good
  <2>1. /\ v \in Verdicts /\ Dated(v, w) /\ v # Open /\ v.reason = tests[i].reason /\ v.reason # "trailing"
    BY <1>7, <1>9, ExitTypes
  <2>2. tests[i].holds /\ \A j \in 1..4 : j < i => ~tests[j].holds
    BY <1>1, <1>9 DEF Counts
  <2>3. v.reason = "take_profit" <=> i = 2
    BY <1>5, <2>1
  <2>4. /\ i = 1 => hit /\ touched
        /\ i = 2 => hit /\ ~touched
        /\ i = 3 => touched /\ ~hit
        /\ i = 4 => w.age = Hold /\ ~hit /\ ~touched
    BY <1>4, <2>2
  <2>5. i = 1 \/ i = 2 \/ i = 3 \/ i = 4
    OBVIOUS
  <2>6. Survived(v, c)
    BY <2>1, <2>3, <2>4 DEF Survived, touched
  <2>7. QED BY <2>1, <2>3, <2>4, <2>5, <2>6
<1>10. Good
  <2>1. DOMAIN tests \subseteq Nat
    BY <1>1
  <2>2. \/ (\A i \in 1..4 : ~tests[i].holds) /\ v = Open
        \/ \E i \in 1..4 : Counts(tests, i) /\ v = Exit(tests[i].reason, tests[i].price, w, c)
    BY <1>1, <1>2, <2>1, FirstTestCounts
  <2> HIDE DEF Good
  <2>3. QED BY <1>8, <1>9, <2>2
<1>11. QED BY <1>6, <1>10 DEF v

LEMMA ScalpReads ==
    ASSUME NEW w \in Windows, NEW c \in Candles, NEW weak \in BOOLEAN, plan \in Plans
    PROVE  LET v == Verdict("scalp", w, c, weak)
           IN  /\ v \in Verdicts /\ Dated(v, w) /\ Survived(v, c)
               /\ v.reason \in {"take_profit", "trailing"} => v.gain >= Target(Required) - Entry
<1> DEFINE tests == ScalpTests(w, c)
           v == Verdict("scalp", w, c, weak)
           target == Max({TakeProfit, Required})
           hit == HitsTarget(c, target)
           trails == HitsTrailing(w, c)
           touched == HitsStop(c)
           Good == /\ v \in Verdicts /\ Dated(v, w) /\ Survived(v, c)
                   /\ v.reason \in {"take_profit", "trailing"} => v.gain >= Target(Required) - Entry
<1>1. DOMAIN tests = 1..5
  BY DEF ScalpTests
<1>2. v = Settled(tests, w, c)
  BY DEF Verdict
<1>3. target \in Nat /\ target >= Required /\ Required \in Nat
  BY BarriersAssumption, MaxOfTwo
<1>4. /\ Stop \in Int /\ Entry \in Int /\ Target(target) \in Int /\ TrailingPrice(w) \in Int
      /\ Target(target) >= Target(Required) /\ Target(Required) \in Int
  <2> HIDE DEF target
  <2>1. Target(target) >= Target(Required)
    BY <1>3 DEF Target
  <2>2. QED BY <1>3, <2>1, PriceTypes
<1>5. /\ tests[1].holds <=> touched /\ (hit \/ trails)
      /\ tests[2].holds <=> hit
      /\ tests[3].holds <=> trails
      /\ tests[4].holds <=> touched
  <2>1. tests[1].holds <=> touched /\ (hit \/ trails)
    BY DEF ScalpTests, Test
  <2>2. tests[2].holds <=> hit
    BY DEF ScalpTests, Test
  <2>3. tests[3].holds <=> trails
    BY DEF ScalpTests, Test
  <2>4. tests[4].holds <=> touched
    BY DEF ScalpTests, Test
  <2>5. QED BY <2>1, <2>2, <2>3, <2>4
<1>6. /\ tests[1].reason = "ambiguous" /\ tests[1].price = Stop
      /\ tests[2].reason = "take_profit" /\ tests[2].price = Target(target)
      /\ tests[3].reason = "trailing" /\ tests[3].price = TrailingPrice(w)
      /\ tests[4].reason = "stop" /\ tests[4].price = Stop
      /\ tests[5].reason = "no_profitable_exit" /\ tests[5].price = Stop
  BY DEF ScalpTests, Test
<1>7. trails => TrailingPrice(w) >= Target(Required)
  BY DEF HitsTrailing
<1> HIDE DEF tests, v, hit, trails, touched, target
<1>8. \A i \in 1..5 : tests[i].reason \in Words \ {"none"} /\ tests[i].price \in Int
  BY <1>4, <1>6 DEF Words
<1>9. ASSUME \A i \in 1..5 : ~tests[i].holds, v = Open PROVE Good
  <2>1. ~touched
    BY <1>5, <1>9
  <2>2. QED BY <1>9, <2>1, OpenTypes DEF Survived, touched
<1>10. ASSUME NEW i \in 1..5, Counts(tests, i), v = Exit(tests[i].reason, tests[i].price, w, c)
      PROVE  Good
  <2>1. /\ v \in Verdicts /\ Dated(v, w) /\ v # Open /\ v.reason = tests[i].reason
        /\ v.gain = tests[i].price - Entry
    BY <1>8, <1>10, ExitTypes
  <2>2. tests[i].holds /\ \A j \in 1..5 : j < i => ~tests[j].holds
    BY <1>1, <1>10 DEF Counts
  <2>3. v.reason \in {"take_profit", "trailing"} => i \in {2, 3}
    BY <1>6, <2>1
  <2>4. i \in {2, 3} => ~touched
    BY <1>5, <2>2
  <2>5. i \in {2, 3} => tests[i].price >= Target(Required)
    BY <1>4, <1>5, <1>6, <1>7, <2>2
  <2>6. i \in {2, 3} => v.gain >= Target(Required) - Entry
    BY <1>4, <1>8, <2>1, <2>5
  <2>7. QED BY <2>1, <2>3, <2>4, <2>6 DEF Survived, touched
<1>11. Good
  <2>1. DOMAIN tests \subseteq Nat
    BY <1>1
  <2>2. \/ (\A i \in 1..5 : ~tests[i].holds) /\ v = Open
        \/ \E i \in 1..5 : Counts(tests, i) /\ v = Exit(tests[i].reason, tests[i].price, w, c)
    BY <1>1, <1>2, <2>1, FirstTestCounts
  <2> HIDE DEF Good
  <2>3. QED BY <1>9, <1>10, <2>2
<1>12. QED BY <1>11 DEF v

LEMMA AllRead ==
    ASSUME NEW w \in Windows, NEW c \in Candles, NEW weak \in BOOLEAN, plan \in Plans, NEW r \in Readers
    PROVE  LET v == Verdict(r, w, c, weak)
           IN  v \in Verdicts /\ Dated(v, w) /\ Survived(v, c)
BY TradeReads, DipReads, TripleReads, ScalpReads DEF Readers

\* Nobody who has not left has seen the stop touched.
Unhurt == \A r \in Readers : verdict[r] = Open => 100 * walk.low > Stop

\* With fixed exits the readers leave on the same candle, and with the target together.
Together ==
    plan.mode = "fixed" =>
        /\ verdict["dip"] = verdict["trade"]
        /\ verdict["triple"].hold = verdict["trade"].hold
        /\ verdict["triple"] = Open <=> verdict["trade"] = Open
        /\ verdict["triple"].reason = "take_profit" <=> verdict["trade"].reason = "take_profit"

\* The costs of an entry are in the totals at once, and on the curve with its exit.
Balanced ==
    /\ book.gross - book.costs = book.equity - book.paid
    /\ phase # "bought" => book.paid = 0
    /\ book.peak >= 0 /\ -book.equity <= book.drawdown

SimInv == SimTypes /\ Unhurt /\ Together /\ WinnersSurvive /\ Balanced

Fresh == walk = NoWalk /\ verdict = [r \in Readers |-> Open]
Unread ==
    /\ walk \in Windows /\ verdict \in [Readers -> Verdicts]
    /\ Unhurt /\ Together /\ WinnersSurvive

LEMMA SimStarts == Fresh => Unread
<1> SUFFICES ASSUME walk = NoWalk, verdict = [r \in Readers |-> Open] PROVE Unread
  BY DEF Fresh
<1>1. walk \in Windows /\ verdict \in [Readers -> Verdicts]
  BY OpenTypes DEF NoWalk, Windows
<1>2. 100 * walk.low > Stop
  BY BarriersAssumption DEF NoWalk, Stop
<1>3. \A r \in Readers : verdict[r] = Open /\ verdict[r].reason = "none"
  BY OpenTypes
<1>4. \A r \in Readers : r \in {"scalp", "triple"} => ~LabelOne(r)
  BY <1>3 DEF LabelOne
<1>5. {"dip", "trade", "triple", "scalp"} \subseteq Readers
  BY DEF Readers
<1>6. Together
  BY <1>3, <1>5 DEF Together
<1>7. Unhurt
  BY <1>2 DEF Unhurt
<1>8. WinnersSurvive
  BY <1>3, <1>4 DEF WinnersSurvive
<1>9. QED BY <1>1, <1>6, <1>7, <1>8 DEF Unread

LEMMA CandleKeepsInv ==
    ASSUME SimInv, NextCandle
    PROVE  SimInv'
<1>1. SimTypes /\ Unhurt /\ Together /\ WinnersSurvive /\ plan' = plan /\ book' = book
  BY DEF SimInv, NextCandle
<1> DEFINE Window(c) == [age |-> walk.age + 1, high |-> Max({walk.high, c.high}),
                         low |-> Min({walk.low, c.low}),
                         oneR |-> walk.oneR \/ HitsTarget(c, StopLoss)]
<1>2. PICK c \in Candles, weak \in BOOLEAN :
        /\ walk' = Window(c)
        /\ verdict' = [r \in Readers |->
                         IF verdict[r] # Open THEN verdict[r] ELSE Verdict(r, Window(c), c, weak)]
  BY DEF NextCandle
<1> DEFINE w == Window(c)
           New(r) == Verdict(r, w, c, weak)
<1>3. /\ w \in Windows /\ w.low \in {walk.low, c.low}
      /\ walk.low \in Nat /\ c.low \in Nat
  <2>1. walk.age \in Nat /\ walk.high \in Nat /\ walk.low \in Nat /\ c.high \in Nat /\ c.low \in Nat
    BY <1>1, CandleTypes DEF SimTypes, Windows
  <2>2. Max({walk.high, c.high}) \in Nat /\ Min({walk.low, c.low}) \in {walk.low, c.low}
    <3> DEFINE h == walk.high
               l == walk.low
               high == c.high
               low == c.low
    <3>1. h \in Nat /\ l \in Nat /\ high \in Nat /\ low \in Nat
      BY <2>1
    <3> HIDE DEF h, l, high, low
    <3>2. Max({h, high}) = IF h >= high THEN h ELSE high
      BY <3>1, MaxOfTwo
    <3>3. Min({l, low}) = IF l <= low THEN l ELSE low
      BY <3>1, MaxOfTwo
    <3>4. Max({h, high}) \in Nat /\ Min({l, low}) \in {l, low}
      BY <3>1, <3>2, <3>3
    <3>5. QED BY <3>4 DEF h, l, high, low
  <2>3. (walk.oneR \/ HitsTarget(c, StopLoss)) \in BOOLEAN
    OBVIOUS
  <2>4. QED BY <2>1, <2>2, <2>3 DEF Windows
<1> HIDE DEF Window
<1>4. \A r \in Readers : New(r) \in Verdicts /\ Dated(New(r), w) /\ Survived(New(r), c)
  BY <1>1, <1>3, AllRead DEF SimTypes
<1>5. /\ plan.mode = "fixed" => New("trade") = FixedVerdict(w, c) /\ New("dip") = FixedVerdict(w, c)
      /\ New("triple") = Open <=> FixedVerdict(w, c) = Open
      /\ New("triple").reason = "take_profit" <=> FixedVerdict(w, c).reason = "take_profit"
      /\ New("scalp").reason \in {"take_profit", "trailing"} => New("scalp").gain >= Target(Required) - Entry
  BY <1>1, <1>3, TradeReads, DipReads, TripleReads, ScalpReads DEF SimTypes
<1> HIDE DEF w, New
<1>6. /\ walk' = w
      /\ \A r \in Readers : verdict'[r] = IF verdict[r] # Open THEN verdict[r] ELSE New(r)
      /\ verdict' \in [Readers -> Verdicts]
  <2>1. walk' = w /\ verdict' = [r \in Readers |-> IF verdict[r] # Open THEN verdict[r] ELSE New(r)]
    BY <1>2 DEF w, New
  <2>2. \A r \in Readers : verdict[r] \in Verdicts
    BY <1>1 DEF SimTypes
  <2>3. QED BY <1>4, <2>1, <2>2
<1>7. SimTypes'
  <2>1. phase' \in {"flat", "open", "settled", "bought"}
    BY DEF NextCandle
  <2>2. QED BY <1>1, <1>3, <1>6, <2>1 DEF SimTypes
<1>8. ASSUME NEW r \in Readers, verdict[r] = Open, Survived(New(r), c),
             New(r) = Open \/ New(r).reason \in {"take_profit", "trailing"}
      PROVE  100 * w.low > Stop
  <2>1. ~HitsStop(c)
    BY <1>8 DEF Survived
  <2>2. Stop \in Int
    BY BarriersAssumption DEF Stop
  <2>3. 100 * c.low > Stop
    BY <1>3, <2>1, <2>2 DEF HitsStop
  <2>4. 100 * walk.low > Stop
    BY <1>1, <1>8 DEF Unhurt
  <2>5. QED BY <1>3, <2>3, <2>4
<1>9. Unhurt'
  BY <1>4, <1>6, <1>8 DEF Unhurt, Stop
<1>10. {"dip", "trade", "triple", "scalp"} \subseteq Readers
  BY DEF Readers
<1>11. Together'
  <2> SUFFICES ASSUME plan.mode = "fixed"
               PROVE  /\ verdict'["dip"] = verdict'["trade"]
                      /\ verdict'["triple"].hold = verdict'["trade"].hold
                      /\ verdict'["triple"] = Open <=> verdict'["trade"] = Open
                      /\ verdict'["triple"].reason = "take_profit" <=> verdict'["trade"].reason = "take_profit"
    BY <1>1 DEF Together
  <2>1. CASE verdict["trade"] # Open
    BY <1>1, <1>6, <1>10, <2>1 DEF Together
  <2>2. CASE verdict["trade"] = Open
    <3>1. verdict["dip"] = Open /\ verdict["triple"] = Open
      BY <1>1, <2>2 DEF Together
    <3>2. verdict'["dip"] = New("dip") /\ verdict'["trade"] = New("trade") /\ verdict'["triple"] = New("triple")
      BY <1>6, <1>10, <2>2, <3>1
    <3>3. New("triple").hold = New("trade").hold
      <4>1. New("triple") = Open <=> New("trade") = Open
        BY <1>5
      <4>2. New("triple") # Open => New("triple").hold = w.age /\ New("trade").hold = w.age
        BY <1>4, <1>10, <4>1 DEF Dated
      <4>3. QED BY <4>1, <4>2
    <3>4. QED BY <1>5, <3>2, <3>3
  <2>3. QED BY <2>1, <2>2
<1>12. WinnersSurvive'
  <2>1. ASSUME NEW r \in Readers, verdict'[r].reason \in {"take_profit", "trailing"}
        PROVE  100 * verdict'[r].low > Stop
    <3>1. CASE verdict[r] # Open
      BY <1>1, <1>6, <2>1, <3>1 DEF WinnersSurvive
    <3>2. CASE verdict[r] = Open
      <4>1. verdict'[r] = New(r)
        BY <1>6, <3>2
      <4>2. New(r) # Open
        BY <2>1, <4>1, OpenTypes
      <4>3. verdict'[r].low = w.low
        BY <1>4, <4>1, <4>2 DEF Dated
      <4>4. QED BY <1>4, <1>8, <2>1, <3>2, <4>1, <4>3
    <3>3. QED BY <3>1, <3>2
  <2>2. verdict'["scalp"].reason \in {"take_profit", "trailing"} => verdict'["scalp"].gain >= Target(Required) - Entry
    <3>1. verdict["scalp"].reason \in {"take_profit", "trailing"} => verdict["scalp"].gain >= Target(Required) - Entry
      BY <1>1, <1>10 DEF WinnersSurvive, LabelOne
    <3>2. QED BY <1>5, <1>6, <1>10, <3>1
  <2>3. LabelOne("scalp")' <=> verdict'["scalp"].reason \in {"take_profit", "trailing"}
    BY DEF LabelOne
  <2>4. QED BY <2>1, <2>2, <2>3 DEF WinnersSurvive, Stop, Target, Entry
<1>13. Balanced'
  BY <1>1 DEF SimInv, Balanced, NextCandle
<1>14. QED BY <1>7, <1>9, <1>11, <1>12, <1>13 DEF SimInv

\* What an order adds to the curve leaves it a curve: it begins at 0, so no loss
\* is larger than the drawdown.
LEMMA CurveExtends ==
    ASSUME NEW b \in Books, NEW return \in Int, b.peak >= 0
    PROVE  /\ Extended(b, return) \in Books
           /\ Extended(b, return).equity = b.equity + return
           /\ Extended(b, return).gross = b.gross /\ Extended(b, return).costs = b.costs
           /\ Extended(b, return).paid = b.paid /\ Extended(b, return).entries = b.entries
           /\ Extended(b, return).peak >= 0
           /\ -Extended(b, return).equity <= Extended(b, return).drawdown
<1> DEFINE sum == b.equity + return
           peak == Max({b.peak, sum})
           drawdown == Max({b.drawdown, peak - sum})
<1>1. \A n \in {b.equity, b.peak, b.drawdown} : n \in Int
  BY DEF Books
<1>2. sum \in Int
  BY <1>1
<1> HIDE DEF sum
<1>3. peak \in Int /\ peak >= sum /\ peak >= b.peak
  BY <1>1, <1>2, MaxOfTwo
<1> HIDE DEF peak
<1>4. drawdown \in Int /\ drawdown >= peak - sum
  BY <1>1, <1>2, <1>3, MaxOfTwo
<1>5. peak >= 0 /\ -sum <= drawdown
  BY <1>1, <1>2, <1>3, <1>4
<1> HIDE DEF drawdown
<1>6. Extended(b, return) = [b EXCEPT !.equity = sum, !.peak = peak, !.drawdown = drawdown]
  BY DEF Extended, sum, peak, drawdown
<1>7. QED BY <1>2, <1>3, <1>4, <1>5, <1>6 DEF Books, sum

LEMMA ScoredIsInt ==
    ASSUME SimTypes
    PROVE  Scored(plan.scored) \in Int
<1>1. plan.scored \in Readers
  BY DEF SimTypes, Plans, Readers
<1>2. verdict[plan.scored].gain \in Int
  BY <1>1 DEF SimTypes, Verdicts
<1>3. Target(TakeProfit) \in Int /\ Stop \in Int /\ Entry \in Int
  BY BarriersAssumption DEF Target, Stop, Entry
<1>4. Fallback(plan.scored) \in Int /\ Stop - Entry \in Int
  BY <1>3 DEF Fallback
<1>5. QED BY <1>2, <1>4 DEF Scored

\* Scoring reads the verdicts and leaves them alone.
LEMMA OrdersKeepVerdicts ==
    ASSUME SimInv, FillEntry \/ CancelExit \/ FillExit, book' \in Books, Balanced'
    PROVE  SimInv'
<1>1. plan' = plan /\ walk' = walk /\ verdict' = verdict /\ phase' \in {"flat", "bought"}
  BY DEF FillEntry, CancelExit, FillExit
<1>2. SimTypes'
  BY <1>1 DEF SimInv, SimTypes
<1>3. Unhurt' /\ Together' /\ WinnersSurvive'
  BY <1>1 DEF SimInv, Unhurt, Together, WinnersSurvive, LabelOne
<1>4. QED BY <1>2, <1>3 DEF SimInv

LEMMA EntryKeepsInv ==
    ASSUME SimInv, FillEntry
    PROVE  SimInv'
<1>1. book \in Books /\ Balanced /\ phase = "settled"
  BY DEF SimInv, SimTypes, FillEntry
<1>2. PICK filled \in {0, 2, 4}, rate \in Rates :
        /\ book' = [book EXCEPT !.entries = @ + 1, !.costs = @ + rate * filled,
                                !.bought = filled, !.paid = rate * filled]
        /\ phase' = IF filled = 0 THEN "flat" ELSE "bought"
  BY DEF FillEntry
<1> DEFINE cost == rate * filled
<1>3. filled \in Nat /\ cost \in Nat /\ (filled = 0 => cost = 0)
  BY ScoreAssumption
<1>4. book' = [book EXCEPT !.entries = @ + 1, !.costs = @ + cost, !.bought = filled, !.paid = cost]
  BY <1>2
<1> HIDE DEF cost
<1>5. book' \in Books
  <2>1. book.entries + 1 \in Nat /\ book.costs + cost \in Int
    BY <1>1, <1>3 DEF Books
  <2>2. book' = [book EXCEPT !.entries = book.entries + 1, !.costs = book.costs + cost,
                            !.bought = filled, !.paid = cost]
    BY <1>1, <1>4 DEF Books
  <2>3. QED BY <1>1, <1>3, <2>1, <2>2 DEF Books
<1>6. /\ book'.costs = book.costs + cost /\ book'.paid = cost /\ book'.gross = book.gross
      /\ book'.equity = book.equity /\ book'.peak = book.peak /\ book'.drawdown = book.drawdown
  BY <1>1, <1>4 DEF Books
<1>7. book.gross \in Int /\ book.costs \in Int /\ book.equity \in Int /\ book.paid = 0
  BY <1>1 DEF Books, Balanced
<1>8. Balanced'
  BY <1>1, <1>2, <1>3, <1>6, <1>7 DEF Balanced
<1>9. QED BY <1>5, <1>8, OrdersKeepVerdicts

LEMMA UnsoldKeepsInv ==
    ASSUME SimInv, CancelExit
    PROVE  SimInv'
<1>1. book \in Books /\ Balanced /\ phase' = "flat"
  BY DEF SimInv, SimTypes, CancelExit
<1> DEFINE b == IF book.paid > 0 THEN Extended(book, -book.paid) ELSE book
<1>2. book' = Closed(b)
  BY DEF CancelExit
<1>3. /\ book.paid \in Nat /\ -book.paid \in Int /\ book.peak >= 0
      /\ book.gross \in Int /\ book.costs \in Int /\ book.equity \in Int
  BY <1>1 DEF Books, Balanced
<1>4. /\ b \in Books /\ b.gross = book.gross /\ b.costs = book.costs
      /\ b.equity = book.equity - book.paid /\ b.peak >= 0 /\ -b.equity <= b.drawdown
  <2>1. CASE book.paid > 0
    BY <1>1, <1>3, <2>1, CurveExtends
  <2>2. CASE ~(book.paid > 0)
    BY <1>1, <1>3, <2>2 DEF Balanced
  <2>3. QED BY <2>1, <2>2
<1> HIDE DEF b
<1>5. /\ book' \in Books /\ book'.paid = 0 /\ book'.gross = b.gross /\ book'.costs = b.costs
      /\ book'.equity = b.equity /\ book'.peak = b.peak /\ book'.drawdown = b.drawdown
  BY <1>2, <1>4 DEF Closed, Books
<1>6. Balanced'
  BY <1>1, <1>3, <1>4, <1>5 DEF Balanced
<1>7. QED BY <1>5, <1>6, OrdersKeepVerdicts

LEMMA ExitKeepsInv ==
    ASSUME SimInv, FillExit
    PROVE  SimInv'
<1>1. book \in Books /\ Balanced /\ phase' = "flat" /\ SimTypes
  BY DEF SimInv, SimTypes, FillExit
<1>2. PICK filled \in {book.bought \div 2, book.bought}, rate \in Rates :
        book' = Closed(Extended([book EXCEPT !.gross = @ + Scored(plan.scored) * filled,
                                             !.costs = @ + rate * filled],
                                Scored(plan.scored) * filled - (book.paid + rate * filled)))
  BY DEF FillExit
<1> DEFINE gross == Scored(plan.scored) * filled
           cost == rate * filled
           totals == [book EXCEPT !.gross = @ + gross, !.costs = @ + cost]
           return == gross - (book.paid + cost)
           b == Extended(totals, return)
<1>3. book' = Closed(b)
  BY <1>2
<1>4. /\ book.paid \in Nat /\ book.bought \in Nat /\ book.peak >= 0
      /\ book.gross \in Int /\ book.costs \in Int /\ book.equity \in Int
  BY <1>1 DEF Books, Balanced
<1>5. gross \in Int /\ cost \in Int
  <2>1. filled \in Int /\ rate \in Int
    BY <1>4, ScoreAssumption
  <2>2. Scored(plan.scored) \in Int
    BY <1>1, ScoredIsInt
  <2>3. QED BY <2>1, <2>2
<1> HIDE DEF gross, cost
<1>6. /\ totals \in Books /\ return \in Int /\ totals.peak >= 0
      /\ totals.gross = book.gross + gross /\ totals.costs = book.costs + cost
      /\ totals.equity = book.equity
  <2>1. book.gross + gross \in Int /\ book.costs + cost \in Int /\ return \in Int
    BY <1>4, <1>5
  <2>2. totals = [book EXCEPT !.gross = book.gross + gross, !.costs = book.costs + cost]
    BY <1>1 DEF Books
  <2>3. QED BY <1>1, <1>4, <2>1, <2>2 DEF Books
<1> HIDE DEF totals
<1>7. /\ b \in Books /\ b.gross = book.gross + gross /\ b.costs = book.costs + cost
      /\ b.equity = book.equity + return /\ b.peak >= 0 /\ -b.equity <= b.drawdown
  <2>1. /\ b \in Books /\ b.gross = totals.gross /\ b.costs = totals.costs
        /\ b.equity = totals.equity + return /\ b.peak >= 0 /\ -b.equity <= b.drawdown
    <3> HIDE DEF return
    <3>1. QED BY <1>6, CurveExtends
  <2>2. QED BY <1>6, <2>1
<1> HIDE DEF b
<1>8. /\ book' \in Books /\ book'.paid = 0 /\ book'.gross = b.gross /\ book'.costs = b.costs
      /\ book'.equity = b.equity /\ book'.peak = b.peak /\ book'.drawdown = b.drawdown
  BY <1>3, <1>7 DEF Closed, Books
<1>9. book'.gross - book'.costs = book'.equity
  BY <1>1, <1>4, <1>5, <1>7, <1>8 DEF Balanced
<1>10. Balanced'
  <2>1. /\ book'.gross \in Int /\ book'.costs \in Int /\ book'.equity \in Int
    BY <1>8 DEF Books
  <2>2. book'.gross - book'.costs = book'.equity - book'.paid
    BY <1>8, <1>9, <2>1
  <2>3. book'.peak >= 0 /\ -book'.equity <= book'.drawdown
    BY <1>7, <1>8
  <2>4. QED BY <1>1, <1>8, <2>2, <2>3 DEF Balanced
<1>11. QED BY <1>8, <1>10, OrdersKeepVerdicts

LEMMA SimInductive ==
    /\ SimInit => SimInv
    /\ SimInv /\ [SimNext]_simVars => SimInv'
<1>1. SimInit => SimInv
  <2> SUFFICES ASSUME SimInit PROVE SimInv
    OBVIOUS
  <2>1. /\ walk \in Windows /\ verdict \in [Readers -> Verdicts]
        /\ Unhurt /\ Together /\ WinnersSurvive
    BY SimStarts DEF SimInit, Fresh, Unread
  <2>2. book \in Books /\ Balanced
    BY DEF SimInit, NoBook, Books, Balanced
  <2>3. QED BY <2>1, <2>2 DEF SimInit, SimInv, SimTypes
<1>2. ASSUME SimInv, [SimNext]_simVars PROVE SimInv'
  <2>1. CASE Enter
    <3>1. walk' = NoWalk /\ verdict' = [r \in Readers |-> Open] /\ plan' = plan /\ book' = book /\ phase' = "open"
      BY <2>1 DEF Enter
    <3>2. /\ walk' \in Windows /\ verdict' \in [Readers -> Verdicts]
          /\ Unhurt' /\ Together' /\ WinnersSurvive'
      <4>1. Fresh' => Unread'
        BY SimStarts, PTL
      <4>2. QED BY <3>1, <4>1 DEF Fresh, Unread
    <3>3. phase = "flat" /\ Balanced'
      BY <1>2, <2>1, <3>1 DEF Enter, SimInv, Balanced
    <3>4. QED BY <1>2, <3>1, <3>2, <3>3 DEF SimInv, SimTypes
  <2>2. CASE UNCHANGED simVars
    BY <1>2, <2>2 DEF simVars, SimInv, SimTypes, Unhurt, Together, WinnersSurvive, LabelOne, Balanced
  <2>3. QED BY <1>2, <2>1, <2>2, CandleKeepsInv, EntryKeepsInv, UnsoldKeepsInv, ExitKeepsInv DEF SimNext
<1>3. QED BY <1>1, <1>2

\* Where some test holds, and every exit has a name, the reader leaves.
LEMMA SomeTestSettles ==
    ASSUME NEW tests, DOMAIN tests \subseteq Nat, NEW w, NEW c, NEW n \in DOMAIN tests,
           tests[n].holds, \A i \in DOMAIN tests : tests[i].reason # "none"
    PROVE  Settled(tests, w, c) # Open
<1>1. PICK i \in DOMAIN tests : Settled(tests, w, c) = Exit(tests[i].reason, tests[i].price, w, c)
  BY FirstTestCounts
<1>2. Settled(tests, w, c).reason # Open.reason
  BY <1>1 DEF Exit, Open
<1>3. QED BY <1>2

\* On the last candle of the hold every reader has a test that holds.
LEMMA LastCandle ==
    ASSUME NEW w, NEW c, NEW weak, NEW r \in Readers, w.age = Hold
    PROVE  Verdict(r, w, c, weak) # Open
<1>1. CASE r = "trade"
  <2> DEFINE tests == TradeTests(w, c, weak)
  <2>1. DOMAIN tests = 1..6
    BY DEF TradeTests
  <2>2. tests[6].holds
    BY DEF TradeTests, Test
  <2>3. /\ tests[1].reason # "none" /\ tests[2].reason # "none"
        /\ tests[3].reason # "none" /\ tests[4].reason # "none"
        /\ tests[5].reason # "none" /\ tests[6].reason # "none"
    BY DEF TradeTests, Test
  <2>4. Verdict(r, w, c, weak) = Settled(tests, w, c)
    BY <1>1 DEF Verdict
  <2> HIDE DEF tests
  <2>5. \A i \in DOMAIN tests : tests[i].reason # "none"
    BY <2>1, <2>3
  <2>6. 6 \in DOMAIN tests /\ DOMAIN tests \subseteq Nat
    BY <2>1
  <2>7. QED BY <2>2, <2>4, <2>5, <2>6, SomeTestSettles
<1>2. CASE r = "triple"
  <2> DEFINE tests == TripleTests(w, c)
  <2>1. DOMAIN tests = 1..4
    BY DEF TripleTests
  <2>2. tests[4].holds
    BY DEF TripleTests, Test
  <2>3. /\ tests[1].reason # "none" /\ tests[2].reason # "none"
        /\ tests[3].reason # "none" /\ tests[4].reason # "none"
    BY DEF TripleTests, Test
  <2>4. Verdict(r, w, c, weak) = Settled(tests, w, c)
    BY <1>2 DEF Verdict
  <2> HIDE DEF tests
  <2>5. \A i \in DOMAIN tests : tests[i].reason # "none"
    BY <2>1, <2>3
  <2>6. 4 \in DOMAIN tests /\ DOMAIN tests \subseteq Nat
    BY <2>1
  <2>7. QED BY <2>2, <2>4, <2>5, <2>6, SomeTestSettles
<1>3. CASE r = "dip"
  <2> DEFINE tests == DipTests(w, c)
  <2>1. DOMAIN tests = 1..4
    BY DEF DipTests
  <2>2. tests[4].holds
    BY DEF DipTests, Test
  <2>3. /\ tests[1].reason # "none" /\ tests[2].reason # "none"
        /\ tests[3].reason # "none" /\ tests[4].reason # "none"
    BY DEF DipTests, Test
  <2>4. Verdict(r, w, c, weak) = Settled(tests, w, c)
    BY <1>3 DEF Verdict
  <2> HIDE DEF tests
  <2>5. \A i \in DOMAIN tests : tests[i].reason # "none"
    BY <2>1, <2>3
  <2>6. 4 \in DOMAIN tests /\ DOMAIN tests \subseteq Nat
    BY <2>1
  <2>7. QED BY <2>2, <2>4, <2>5, <2>6, SomeTestSettles
<1>4. CASE r = "scalp"
  <2> DEFINE tests == ScalpTests(w, c)
  <2>1. DOMAIN tests = 1..5
    BY DEF ScalpTests
  <2>2. tests[5].holds
    BY DEF ScalpTests, Test
  <2>3. /\ tests[1].reason # "none" /\ tests[2].reason # "none"
        /\ tests[3].reason # "none" /\ tests[4].reason # "none"
        /\ tests[5].reason # "none"
    BY DEF ScalpTests, Test
  <2>4. Verdict(r, w, c, weak) = Settled(tests, w, c)
    BY <1>4 DEF Verdict
  <2> HIDE DEF tests
  <2>5. \A i \in DOMAIN tests : tests[i].reason # "none"
    BY <2>1, <2>3
  <2>6. 5 \in DOMAIN tests /\ DOMAIN tests \subseteq Nat
    BY <2>1
  <2>7. QED BY <2>2, <2>4, <2>5, <2>6, SomeTestSettles
<1>5. QED BY <1>1, <1>2, <1>3, <1>4 DEF Readers

\* Nobody who is still in has seen the whole hold.
InTime ==
    /\ walk.age <= Hold /\ (phase = "open" => walk.age < Hold)
    /\ \A r \in Readers : verdict[r].hold <= walk.age
    /\ book.entries <= MaxEntries
    /\ (phase \in {"open", "settled"} => book.entries < MaxEntries)

LEMMA InTimeStays ==
    ASSUME SimInv, InTime, [SimNext]_simVars
    PROVE  InTime'
<1>1. /\ walk.age \in Nat /\ book.entries \in Nat /\ Hold \in Nat \ {0} /\ MaxEntries \in Nat
      /\ \A r \in Readers : verdict[r] \in Verdicts /\ verdict[r].hold \in Nat
  BY BarriersAssumption, ScoreAssumption DEF SimInv, SimTypes, Windows, Books, Verdicts
<1>2. CASE Enter
  <2>1. /\ walk' = NoWalk /\ verdict' = [r \in Readers |-> Open] /\ book' = book
        /\ phase' = "open" /\ book.entries < MaxEntries
    BY <1>2 DEF Enter
  <2>2. walk'.age = 0 /\ \A r \in Readers : verdict'[r].hold = 0
    BY <2>1 DEF NoWalk, Open
  <2>3. QED BY <1>1, <2>1, <2>2 DEF InTime
<1>3. CASE NextCandle
  <2>1. phase = "open" /\ book' = book /\ phase' \in {"settled", "open"}
        /\ (phase' = "open" => ~\A r \in Readers : verdict'[r] # Open)
    BY <1>3 DEF NextCandle
  <2> DEFINE w == walk'
  <2>2. PICK c \in Candles, weak \in BOOLEAN :
          /\ w.age = walk.age + 1
          /\ verdict' = [r \in Readers |->
                           IF verdict[r] # Open THEN verdict[r] ELSE Verdict(r, w, c, weak)]
    BY <1>3 DEF NextCandle
  <2>3. w.age <= Hold
    BY <1>1, <2>1, <2>2 DEF InTime
  <2>4. w \in Windows
    <3>1. SimInv'
      BY <1>3, CandleKeepsInv
    <3>2. QED BY <2>2, <3>1 DEF SimInv, SimTypes
  <2>5. plan \in Plans
    BY DEF SimInv, SimTypes
  <2>6. ASSUME NEW r \in Readers PROVE verdict'[r].hold <= w.age
    <3>1. CASE verdict[r] # Open
      BY <1>1, <2>2, <3>1 DEF InTime
    <3>2. CASE verdict[r] = Open
      <4>1. verdict'[r] = Verdict(r, w, c, weak)
        BY <2>2, <3>2
      <4>2. Dated(Verdict(r, w, c, weak), w)
        BY <2>4, <2>5, AllRead
      <4>3. CASE verdict'[r] = Open
        BY <1>1, <2>2, <4>3 DEF Open
      <4>4. CASE verdict'[r] # Open
        BY <1>1, <2>2, <4>1, <4>2, <4>4 DEF Dated
      <4>5. QED BY <4>3, <4>4
    <3>3. QED BY <3>1, <3>2
  <2>7. phase' = "open" => w.age # Hold
    <3> SUFFICES ASSUME w.age = Hold PROVE \A r \in Readers : verdict'[r] # Open
      BY <2>1
    <3>1. \A r \in Readers : Verdict(r, w, c, weak) # Open
      BY LastCandle
    <3>2. QED BY <2>2, <3>1
  <2>8. QED BY <1>1, <2>1, <2>2, <2>3, <2>6, <2>7 DEF InTime
<1>4. CASE FillEntry
  <2>1. phase = "settled" /\ phase' \in {"flat", "bought"} /\ walk' = walk /\ verdict' = verdict
    BY <1>4 DEF FillEntry
  <2>2. book'.entries = book.entries + 1
    BY <1>4 DEF FillEntry, SimInv, SimTypes, Books
  <2>3. QED BY <1>1, <2>1, <2>2 DEF InTime
<1>5. CASE CancelExit \/ FillExit
  <2>1. phase' = "flat" /\ walk' = walk /\ verdict' = verdict
    BY <1>5 DEF CancelExit, FillExit
  <2>2. book'.entries = book.entries
    <3>1. ASSUME NEW b \in Books PROVE Closed(b).entries = b.entries
      BY DEF Closed, Books
    <3>2. ASSUME NEW b \in Books, NEW return
          PROVE  Closed(Extended(b, return)).entries = b.entries
      BY DEF Extended, Closed, Books
    <3>3. book \in Books
      BY DEF SimInv, SimTypes
    <3>4. CASE CancelExit
      BY <3>1, <3>2, <3>3, <3>4 DEF CancelExit
    <3>5. CASE FillExit
      <4>1. PICK filled \in {book.bought \div 2, book.bought}, rate \in Rates :
              book' = Closed(Extended([book EXCEPT !.gross = @ + Scored(plan.scored) * filled,
                                                   !.costs = @ + rate * filled],
                                      Scored(plan.scored) * filled - (book.paid + rate * filled)))
        BY <3>5 DEF FillExit
      <4> DEFINE gross == book.gross + Scored(plan.scored) * filled
                 costs == book.costs + rate * filled
                 return == Scored(plan.scored) * filled - (book.paid + rate * filled)
      <4>2. book' = Closed(Extended([book EXCEPT !.gross = gross, !.costs = costs], return))
        BY <4>1
      <4> HIDE DEF gross, costs, return
      <4>3. Closed(Extended([book EXCEPT !.gross = gross, !.costs = costs], return)).entries = book.entries
        BY <3>3 DEF Extended, Closed, Books
      <4>4. QED BY <4>2, <4>3
    <3>6. QED BY <1>5, <3>4, <3>5
  <2>3. QED BY <1>1, <2>1, <2>2 DEF InTime
<1>6. CASE UNCHANGED simVars
  BY <1>6 DEF simVars, InTime
<1>7. QED BY <1>2, <1>3, <1>4, <1>5, <1>6 DEF SimNext

\* The simulation keeps its types, and no entry is followed beyond its hold: on
\* its last candle the backtest (resolve_research_exit) and every label
\* have a test that settles it.
THEOREM SimTypesTheorem == SimSpec => []SimTypeOK
<1>1. SimInit => InTime
  <2> SUFFICES ASSUME SimInit PROVE InTime
    OBVIOUS
  <2>1. /\ walk.age = 0 /\ phase = "flat" /\ book.entries = 0
        /\ \A r \in Readers : verdict[r].hold = 0
    BY DEF SimInit, NoWalk, NoBook, Open
  <2>2. QED BY <2>1, BarriersAssumption, ScoreAssumption DEF InTime
<1>2. SimInv /\ InTime => SimTypeOK
  <2> SUFFICES ASSUME SimTypes, InTime PROVE SimTypeOK
    BY DEF SimInv
  <2>1. /\ walk.age \in Nat /\ book.entries \in Nat /\ Hold \in Nat /\ MaxEntries \in Nat
        /\ \A r \in Readers : verdict[r] \in Verdicts /\ verdict[r].hold \in Nat
    BY BarriersAssumption, ScoreAssumption DEF SimTypes, Windows, Books, Verdicts
  <2>2. QED BY <2>1 DEF SimTypes, InTime, SimTypeOK
<1>3. SimInv /\ InTime /\ [SimNext]_simVars => InTime'
  BY InTimeStays
<1>4. QED BY <1>1, <1>2, <1>3, SimInductive, PTL DEF SimSpec

\* With fixed exits the labels of a row are what the backtest of the row did,
\* for all barriers and candles: as long as nobody has left, the three loops of
\* resolve_research_exit, app/ml/labels.py and app/ml/buy_the_dip_labels.py
\* have seen the same candles, and on one that spans both barriers all of them
\* take the stop.
THEOREM LabelsTheorem == SimSpec => []LabelsAgree
<1>1. SimInv => LabelsAgree
  BY DEF SimInv, Together, LabelsAgree, LabelOne
<1>2. QED BY <1>1, SimInductive, PTL DEF SimSpec

\* Whoever reports a target or a trail has not seen the stop touched, and a
\* scalp labelled 1 returns what it must, under every exit mode: the stop may
\* be raised but never lowered, and is tested on every candle before the target.
THEOREM WinnersTheorem == SimSpec => []WinnersSurvive
<1>1. SimInv => WinnersSurvive
  BY DEF SimInv
<1>2. QED BY <1>1, SimInductive, PTL DEF SimSpec

\* Net return, equity curve and drawdown agree for every sequence of verdicts,
\* fills and costs (calculate_fee_aware_metrics): between the two orders of a
\* trade the totals are ahead of the curve by what the entry has cost, a canceled
\* exit charges just that and a fill its return less both costs; and the peak is
\* never below 0, where the curve begins, so the drawdown is never less than the loss.
THEOREM NetTheorem == SimSpec => []NetIsEquity
<1>1. SimInv => NetIsEquity
  <2>1. ASSUME SimTypes, Balanced, phase # "bought" PROVE book.gross - book.costs = book.equity
    BY <2>1 DEF SimTypes, Books, Balanced
  <2>2. QED BY <2>1 DEF SimInv, Balanced, NetIsEquity
<1>2. QED BY <1>1, SimInductive, PTL DEF SimSpec

(***************************************************************************)
(* Maker fills                                                             *)
(***************************************************************************)

Legs == [reason : {"none", "stop", "take_profit", "take_profit_after_breach", "timeout", "timeout_after_breach"},
         gain : Int, after : Nat]
Counters == {"signals", "filled", "winners", "losers", "targets", "stops", "timeouts"}

MakerTypes ==
    /\ order \in [state : {"none", "quoted", "held"}, age : Nat, breached : BOOLEAN, close : Nat]
    /\ scenario \in [Scenarios -> Legs]
    /\ tally \in [Counters -> Nat]

\* What the two scenarios of a position may have come to, b if it has been
\* breached, at an age.
SideBySide(conservative, stress, b, age) ==
    \/ conservative = Held /\ stress = Held /\ b = FALSE
    \/ conservative.reason = "take_profit" /\ stress = conservative
    \/ /\ conservative.reason = "stop" /\ b = TRUE /\ conservative.after <= age
       /\ \/ stress = Held
          \/ stress.reason = "take_profit_after_breach" /\ stress.after >= conservative.after

\* What both have come to when the position has been left.
BothLeft(conservative, stress) ==
    /\ conservative.reason \in {"take_profit", "timeout"} => conservative = stress
    /\ conservative.reason = "stop" =>
            /\ stress.reason \in {"take_profit_after_breach", "timeout_after_breach"}
            /\ stress.after >= conservative.after

InHand == IF order.state = "none" THEN 0 ELSE 1
InPosition == IF order.state = "held" THEN 1 ELSE 0
TallyAdds ==
    /\ tally.signals = tally.winners + tally.losers + tally.targets + tally.stops + tally.timeouts + InHand
    /\ tally.filled = tally.targets + tally.stops + tally.timeouts + InPosition

MakerInv ==
    /\ MakerTypes
    /\ order.state = "quoted" => order.breached = FALSE /\ \A s \in Scenarios : scenario[s] = Held
    /\ order.state = "held" =>
            SideBySide(scenario["conservative"], scenario["stress"], order.breached, order.age)
    /\ order.state = "none" => BothLeft(scenario["conservative"], scenario["stress"])
    /\ TallyAdds

LEMMA HeldTypes ==
    /\ Held \in Legs /\ Held.reason = "none"
    /\ {"conservative", "stress"} = Scenarios
BY DEF Held, Legs, Scenarios

Leg(reason, age) == [reason |-> reason, gain |-> Target(TakeProfit) - Entry, after |-> age]
StoppedLeg(age) == [reason |-> "stop", gain |-> Stop - Entry, after |-> age]

LEMMA LegTypes ==
    ASSUME NEW age \in Nat
    PROVE  /\ StoppedLeg(age) \in Legs
           /\ \A reason \in {"take_profit", "take_profit_after_breach"} : Leg(reason, age) \in Legs
<1>1. Target(TakeProfit) - Entry \in Int /\ Stop - Entry \in Int
  BY BarriersAssumption DEF Target, Entry, Stop
<1>2. QED BY <1>1 DEF StoppedLeg, Leg, Legs

\* A scenario that holds the position leaves it by the first test that holds.
LEMMA FirstTestLeaves ==
    ASSUME NEW tests, DOMAIN tests \subseteq Nat, NEW s, scenario[s] = Held, NEW age
    PROVE  \/ (\A i \in DOMAIN tests : ~tests[i].holds) /\ Left(s, tests, age) = Held
           \/ \E i \in DOMAIN tests :
                /\ Counts(tests, i)
                /\ Left(s, tests, age) =
                     [reason |-> tests[i].reason, gain |-> tests[i].price - Entry, after |-> age]
<1> DEFINE met == {i \in DOMAIN tests : tests[i].holds}
<1>1. CASE met = {}
  BY <1>1 DEF Left
<1>2. CASE met # {}
  <2>1. Min(met) \in met /\ \A j \in met : Min(met) <= j
    <3>1. met \subseteq Nat
      OBVIOUS
    <3> HIDE DEF met
    <3> QED BY <1>2, <3>1, LeastBar
  <2>2. Left(s, tests, age) =
          [reason |-> tests[Min(met)].reason, gain |-> tests[Min(met)].price - Entry, after |-> age]
    BY <1>2 DEF Left
  <2>3. \A j \in DOMAIN tests : j < Min(met) => ~tests[j].holds
    BY <2>1
  <2>4. QED BY <2>1, <2>2, <2>3 DEF Counts
<1>3. QED BY <1>1, <1>2

LEMMA ConservativeLeaves ==
    ASSUME NEW c, scenario["conservative"] = Held, NEW age
    PROVE  LET left == Left("conservative", Conservative(c), age)
           IN  /\ HitsStop(c) => left = StoppedLeg(age)
               /\ ~HitsStop(c) /\ HitsTarget(c, TakeProfit) => left = Leg("take_profit", age)
               /\ ~HitsStop(c) /\ ~HitsTarget(c, TakeProfit) => left = Held
<1> DEFINE tests == Conservative(c)
           left == Left("conservative", tests, age)
<1>1. DOMAIN tests = 1..2
  BY DEF Conservative
<1>2. tests[1].holds <=> HitsStop(c)
  BY DEF Conservative, Test
<1>3. tests[2].holds <=> HitsTarget(c, TakeProfit)
  BY DEF Conservative, Test
<1>4. /\ tests[1].reason = "stop" /\ tests[1].price = Stop
      /\ tests[2].reason = "take_profit" /\ tests[2].price = Target(TakeProfit)
  BY DEF Conservative, Test
<1> HIDE DEF tests
<1>5. \/ (\A i \in 1..2 : ~tests[i].holds) /\ left = Held
      \/ \E i \in 1..2 :
           /\ tests[i].holds /\ \A j \in 1..2 : j < i => ~tests[j].holds
           /\ left = [reason |-> tests[i].reason, gain |-> tests[i].price - Entry, after |-> age]
  <2>1. DOMAIN tests \subseteq Nat
    BY <1>1
  <2>2. QED BY <1>1, <2>1, FirstTestLeaves DEF Counts
<1> HIDE DEF left
<1>6. CASE HitsStop(c)
  <2>1. left = [reason |-> tests[1].reason, gain |-> tests[1].price - Entry, after |-> age]
    BY <1>2, <1>5, <1>6
  <2>2. QED BY <1>4, <1>6, <2>1 DEF StoppedLeg, left, tests
<1>7. CASE ~HitsStop(c) /\ HitsTarget(c, TakeProfit)
  <2>1. left = [reason |-> tests[2].reason, gain |-> tests[2].price - Entry, after |-> age]
    BY <1>2, <1>3, <1>5, <1>7
  <2>2. QED BY <1>4, <1>7, <2>1 DEF Leg, left, tests
<1>8. CASE ~HitsStop(c) /\ ~HitsTarget(c, TakeProfit)
  <2>1. left = Held
    BY <1>2, <1>3, <1>5, <1>8
  <2>2. QED BY <1>8, <2>1 DEF left, tests
<1>9. QED BY <1>6, <1>7, <1>8

LEMMA StressLeaves ==
    ASSUME NEW c, NEW b \in BOOLEAN, scenario["stress"] = Held, NEW age
    PROVE  Left("stress", Stress(c, b), age) =
             IF HitsTarget(c, TakeProfit)
             THEN Leg(IF b THEN "take_profit_after_breach" ELSE "take_profit", age) ELSE Held
<1> DEFINE tests == Stress(c, b)
           left == Left("stress", tests, age)
<1>1. DOMAIN tests = 1..1
  BY DEF Stress
<1>2. tests[1].holds <=> HitsTarget(c, TakeProfit)
  BY DEF Stress, Test
<1>3. /\ tests[1].reason = (IF b THEN "take_profit_after_breach" ELSE "take_profit")
      /\ tests[1].price = Target(TakeProfit)
  BY DEF Stress, Test
<1> HIDE DEF tests
<1>4. \/ (\A i \in 1..1 : ~tests[i].holds) /\ left = Held
      \/ \E i \in 1..1 :
           /\ tests[i].holds
           /\ left = [reason |-> tests[i].reason, gain |-> tests[i].price - Entry, after |-> age]
  <2>1. DOMAIN tests \subseteq Nat
    BY <1>1
  <2>2. QED BY <1>1, <2>1, FirstTestLeaves DEF Counts
<1> HIDE DEF left
<1>5. CASE HitsTarget(c, TakeProfit)
  <2>1. left = [reason |-> tests[1].reason, gain |-> tests[1].price - Entry, after |-> age]
    BY <1>2, <1>4, <1>5
  <2>2. QED BY <1>3, <1>5, <2>1 DEF Leg, left, tests
<1>6. CASE ~HitsTarget(c, TakeProfit)
  BY <1>2, <1>4, <1>6 DEF left, tests
<1>7. QED BY <1>5, <1>6

\* One candle of a position keeps the scenarios side by side.
LEMMA CandleOfPosition ==
    ASSUME MakerTypes, NEW c \in Candles, NEW age \in Nat, Holding(c, age), NEW was \in 0..age,
           SideBySide(scenario["conservative"], scenario["stress"], order.breached, was)
    PROVE  /\ order' \in [state : {"none", "quoted", "held"}, age : Nat, breached : BOOLEAN, close : Nat]
           /\ order'.state = "held" /\ scenario' \in [Scenarios -> Legs]
           /\ SideBySide(scenario'["conservative"], scenario'["stress"], order'.breached, order'.age)
<1> DEFINE b == order.breached \/ HitsStop(c)
           conservative == Left("conservative", Conservative(c), age)
           stress == Left("stress", Stress(c, b), age)
           old == scenario["conservative"]
           oldStress == scenario["stress"]
<1>1. c.close \in Nat /\ b \in BOOLEAN /\ order.breached \in BOOLEAN /\ was \in Nat /\ was <= age
  BY CandleTypes DEF MakerTypes
<1>2. order' = [state |-> "held", age |-> age, breached |-> b, close |-> c.close]
  BY DEF Holding
<1>3. scenario' \in [Scenarios -> {conservative, stress}]
      /\ scenario'["conservative"] = conservative /\ scenario'["stress"] = stress
  BY DEF Holding, Scenarios
<1>4. old \in Legs /\ oldStress \in Legs
  BY HeldTypes DEF MakerTypes
<1>5. /\ old # Held => conservative = old
      /\ oldStress # Held => stress = oldStress
  BY DEF Left
<1>6. old = Held =>
        /\ HitsStop(c) => conservative = StoppedLeg(age)
        /\ ~HitsStop(c) /\ HitsTarget(c, TakeProfit) => conservative = Leg("take_profit", age)
        /\ ~HitsStop(c) /\ ~HitsTarget(c, TakeProfit) => conservative = Held
  BY ConservativeLeaves
<1>7. oldStress = Held =>
        stress = IF HitsTarget(c, TakeProfit)
                 THEN Leg(IF b THEN "take_profit_after_breach" ELSE "take_profit", age) ELSE Held
  BY <1>1, StressLeaves
<1>8. /\ StoppedLeg(age).reason = "stop" /\ StoppedLeg(age).after = age
      /\ \A reason : Leg(reason, age).reason = reason /\ Leg(reason, age).after = age
      /\ Held.reason = "none"
  BY DEF StoppedLeg, Leg, Held
<1>9. order.breached = TRUE => b = TRUE
  OBVIOUS
<1>10. order.breached = FALSE => (b = TRUE <=> HitsStop(c)) /\ (b = FALSE <=> ~HitsStop(c))
  OBVIOUS
<1> HIDE DEF b, conservative, stress, old, oldStress
<1>11. conservative \in Legs
  <2>1. CASE old = Held
    BY <1>6, <2>1, LegTypes, HeldTypes
  <2>2. QED BY <1>4, <1>5, <2>1
<1>12. stress \in Legs
  <2>1. CASE oldStress = Held
    <3>1. stress \in {Leg("take_profit_after_breach", age), Leg("take_profit", age), Held}
      BY <1>7, <2>1
    <3>2. QED BY <3>1, LegTypes, HeldTypes
  <2>2. QED BY <1>4, <1>5, <2>1
<1>13. SideBySide(old, oldStress, order.breached, was)
  BY DEF old, oldStress
<1>14. SideBySide(conservative, stress, b, age)
  <2>1. CASE old = Held /\ oldStress = Held /\ order.breached = FALSE
    <3>1. CASE HitsStop(c)
      BY <1>1, <1>6, <1>7, <1>8, <1>10, <2>1, <3>1 DEF SideBySide
    <3>2. CASE ~HitsStop(c) /\ HitsTarget(c, TakeProfit)
      BY <1>6, <1>7, <1>8, <1>10, <2>1, <3>2 DEF SideBySide
    <3>3. CASE ~HitsStop(c) /\ ~HitsTarget(c, TakeProfit)
      BY <1>6, <1>7, <1>10, <2>1, <3>3 DEF SideBySide
    <3>4. QED BY <3>1, <3>2, <3>3
  <2>2. CASE old.reason = "take_profit" /\ oldStress = old
    <3>1. old # Held
      BY <1>8, <2>2
    <3>2. QED BY <1>5, <2>2, <3>1 DEF SideBySide
  <2>3. CASE /\ old.reason = "stop" /\ order.breached = TRUE /\ old.after <= was
             /\ \/ oldStress = Held
                \/ oldStress.reason = "take_profit_after_breach" /\ oldStress.after >= old.after
    <3>1. conservative = old /\ b = TRUE /\ old.after <= age
      <4>1. old # Held /\ old.after \in Nat
        BY <1>4, <1>8, <2>3 DEF Legs
      <4>2. QED BY <1>1, <1>5, <1>9, <2>3, <4>1
    <3>2. CASE oldStress = Held
      BY <1>7, <1>8, <2>3, <3>1, <3>2 DEF SideBySide
    <3>3. CASE oldStress # Held
      BY <1>5, <2>3, <3>1, <3>3 DEF SideBySide
    <3>4. QED BY <3>2, <3>3
  <2>4. QED BY <1>13, <2>1, <2>2, <2>3 DEF SideBySide
<1>15. order' \in [state : {"none", "quoted", "held"}, age : Nat, breached : BOOLEAN, close : Nat]
  BY <1>1, <1>2
<1>16. scenario' \in [Scenarios -> Legs]
  BY <1>3, <1>11, <1>12
<1>17. QED BY <1>2, <1>3, <1>14, <1>15, <1>16

LEMMA TallyTypes ==
    MakerTypes =>
        /\ tally.signals \in Nat /\ tally.filled \in Nat /\ tally.winners \in Nat /\ tally.losers \in Nat
        /\ tally.targets \in Nat /\ tally.stops \in Nat /\ tally.timeouts \in Nat
        /\ {"signals", "filled", "winners", "losers", "targets", "stops", "timeouts"} = DOMAIN tally
        /\ tally = [n \in Counters |-> tally[n]]
BY DEF MakerTypes, Counters

LEMMA QuoteKeepsInv ==
    ASSUME MakerInv, Quote
    PROVE  MakerInv'
<1>1. order.state = "none" /\ MakerTypes /\ TallyAdds
  BY DEF MakerInv, Quote
<1>2. /\ order'.state = "quoted" /\ tally' = [tally EXCEPT !.signals = @ + 1]
      /\ order' \in [state : {"none", "quoted", "held"}, age : Nat, breached : BOOLEAN, close : Nat]
      /\ order'.breached = FALSE /\ scenario' = [s \in Scenarios |-> Held]
  BY DEF Quote, NoOrder
<1>3. tally' \in [Counters -> Nat]
  BY <1>1, <1>2 DEF MakerTypes, Counters
<1>4. TallyAdds'
  BY <1>1, <1>2, TallyTypes DEF TallyAdds, InHand, InPosition
<1>5. QED BY <1>2, <1>3, <1>4, HeldTypes DEF MakerInv, MakerTypes

LEMMA QuoteCandleKeepsInv ==
    ASSUME MakerInv, QuoteCandle
    PROVE  MakerInv'
<1>1. order.state = "quoted" /\ MakerTypes /\ TallyAdds
      /\ scenario["conservative"] = Held /\ scenario["stress"] = Held
      /\ order.breached = FALSE
  BY HeldTypes DEF MakerInv, QuoteCandle
<1>2. PICK c \in Candles :
        \/ /\ Holding(c, 1)
           /\ tally' = [tally EXCEPT !.filled = @ + 1]
        \/ /\ order' = [order EXCEPT !.age = @ + 1]
           /\ scenario' = scenario /\ tally' = tally
  BY DEF QuoteCandle
<1>3. CASE /\ order' = [order EXCEPT !.age = @ + 1]
           /\ scenario' = scenario /\ tally' = tally
  <2>1. order'.state = "quoted" /\ order'.breached = FALSE /\ MakerTypes'
    BY <1>1, <1>3 DEF MakerTypes
  <2>2. TallyAdds'
    BY <1>1, <1>3, <2>1 DEF TallyAdds, InHand, InPosition
  <2>3. QED BY <1>1, <1>3, <2>1, <2>2, HeldTypes DEF MakerInv
<1>4. CASE Holding(c, 1) /\ tally' = [tally EXCEPT !.filled = @ + 1]
  <2>1. tally' \in [Counters -> Nat]
    BY <1>1, <1>4 DEF MakerTypes, Counters
  <2>2. /\ order' \in [state : {"none", "quoted", "held"}, age : Nat, breached : BOOLEAN, close : Nat]
        /\ order'.state = "held" /\ scenario' \in [Scenarios -> Legs]
        /\ SideBySide(scenario'["conservative"], scenario'["stress"], order'.breached, order'.age)
    <3>1. SideBySide(scenario["conservative"], scenario["stress"], order.breached, 0)
      BY <1>1 DEF SideBySide
    <3>2. QED BY <1>1, <1>4, <3>1, CandleOfPosition
  <2>3. TallyAdds'
    BY <1>1, <1>4, <2>2, TallyTypes DEF TallyAdds, InHand, InPosition
  <2>4. QED BY <2>1, <2>2, <2>3 DEF MakerInv, MakerTypes
<1>5. QED BY <1>2, <1>3, <1>4

LEMMA CancelKeepsInv ==
    ASSUME MakerInv, Cancel
    PROVE  MakerInv'
<1>1. order.state = "quoted" /\ MakerTypes /\ TallyAdds
      /\ scenario["conservative"] = Held /\ scenario["stress"] = Held
  BY HeldTypes DEF MakerInv, Cancel
<1>2. order' = NoOrder /\ scenario' = scenario
  BY DEF Cancel
<1>3. \/ tally' = [tally EXCEPT !.winners = @ + 1]
      \/ tally' = [tally EXCEPT !.losers = @ + 1]
  BY DEF Cancel
<1>4. order'.state = "none" /\ MakerTypes'
  <2>1. tally' \in [Counters -> Nat]
    BY <1>1, <1>3 DEF MakerTypes, Counters
  <2>2. NoOrder \in [state : {"none", "quoted", "held"}, age : Nat, breached : BOOLEAN, close : Nat]
        /\ NoOrder.state = "none"
    BY DEF NoOrder
  <2>3. QED BY <1>1, <1>2, <2>1, <2>2 DEF MakerTypes
<1>5. TallyAdds'
  BY <1>1, <1>3, <1>4, TallyTypes DEF TallyAdds, InHand, InPosition
<1>6. BothLeft(scenario'["conservative"], scenario'["stress"])
  BY <1>1, <1>2, HeldTypes DEF BothLeft
<1>7. QED BY <1>4, <1>5, <1>6 DEF MakerInv

LEMMA HoldCandleKeepsInv ==
    ASSUME MakerInv, HoldCandle
    PROVE  MakerInv'
<1>1. order.state = "held" /\ MakerTypes /\ TallyAdds /\ tally' = tally
      /\ SideBySide(scenario["conservative"], scenario["stress"], order.breached, order.age)
  BY DEF MakerInv, HoldCandle
<1>2. PICK c \in Candles : Holding(c, order.age + 1)
  BY DEF HoldCandle
<1>3. order.age + 1 \in Nat /\ order.age \in 0..(order.age + 1)
  BY <1>1 DEF MakerTypes
<1>4. /\ order' \in [state : {"none", "quoted", "held"}, age : Nat, breached : BOOLEAN, close : Nat]
      /\ order'.state = "held" /\ scenario' \in [Scenarios -> Legs]
      /\ SideBySide(scenario'["conservative"], scenario'["stress"], order'.breached, order'.age)
  BY <1>1, <1>2, <1>3, CandleOfPosition
<1>5. TallyAdds'
  BY <1>1, <1>4 DEF TallyAdds, InHand, InPosition
<1>6. QED BY <1>1, <1>4, <1>5 DEF MakerInv, MakerTypes

LEMMA LeaveKeepsInv ==
    ASSUME MakerInv, Leave
    PROVE  MakerInv'
<1>1. order.state = "held" /\ MakerTypes /\ TallyAdds
      /\ SideBySide(scenario["conservative"], scenario["stress"], order.breached, order.age)
  BY DEF MakerInv, Leave
<1> DEFINE old == scenario["conservative"]
           oldStress == scenario["stress"]
           conservative == TimedOut("conservative")
           stress == TimedOut("stress")
           gain == 100 * order.close - Entry
           TimedLeg(reason) == [reason |-> reason, gain |-> gain, after |-> order.age]
<1>2. order.age \in Nat /\ order.close \in Nat /\ old \in Legs /\ oldStress \in Legs
  BY <1>1, HeldTypes DEF MakerTypes
<1>3. gain \in Int
  BY <1>2 DEF Entry
<1>4. /\ scenario' = [s \in Scenarios |-> TimedOut(s)]
      /\ order' = NoOrder
  BY DEF Leave
<1>5. tally' = [tally EXCEPT !.targets = @ + (IF conservative.reason = "take_profit" THEN 1 ELSE 0),
                             !.stops = @ + (IF conservative.reason = "stop" THEN 1 ELSE 0),
                             !.timeouts = @ + (IF conservative.reason = "timeout" THEN 1 ELSE 0)]
  <2>1. scenario'["conservative"] = conservative
    BY <1>4, HeldTypes
  <2>2. QED BY <2>1 DEF Leave
<1>6. conservative = IF old # Held THEN old ELSE TimedLeg("timeout")
  BY DEF TimedOut
<1>7. stress = IF oldStress # Held THEN oldStress
               ELSE IF order.breached THEN TimedLeg("timeout_after_breach") ELSE TimedLeg("timeout")
  BY DEF TimedOut
<1>8. /\ TimedLeg("timeout") \in Legs /\ TimedLeg("timeout_after_breach") \in Legs
      /\ \A reason : TimedLeg(reason).reason = reason /\ TimedLeg(reason).after = order.age
      /\ Held.reason = "none"
  BY <1>2, <1>3 DEF Legs, Held
<1>9. scenario'["conservative"] = conservative /\ scenario'["stress"] = stress
  BY <1>4, HeldTypes
<1> HIDE DEF old, oldStress, conservative, stress, gain, TimedLeg
<1>10. conservative \in Legs /\ stress \in Legs
  BY <1>2, <1>6, <1>7, <1>8
<1>11. scenario' \in [Scenarios -> Legs]
  BY <1>4, <1>9, <1>10 DEF Scenarios
<1>12. SideBySide(old, oldStress, order.breached, order.age)
  BY <1>1 DEF old, oldStress
<1>13. conservative.reason \in {"take_profit", "stop", "timeout"} /\ BothLeft(conservative, stress)
  <2>1. CASE old = Held /\ oldStress = Held /\ order.breached = FALSE
    BY <1>6, <1>7, <1>8, <2>1 DEF BothLeft
  <2>2. CASE old.reason = "take_profit" /\ oldStress = old
    BY <1>6, <1>7, <1>8, <2>2 DEF BothLeft
  <2>3. CASE /\ old.reason = "stop" /\ order.breached = TRUE /\ old.after <= order.age
             /\ \/ oldStress = Held
                \/ oldStress.reason = "take_profit_after_breach" /\ oldStress.after >= old.after
    <3>1. conservative = old
      BY <1>6, <1>8, <2>3
    <3>2. stress.reason \in {"take_profit_after_breach", "timeout_after_breach"} /\ stress.after >= old.after
      <4>1. old.after \in Nat
        BY <1>2 DEF Legs
      <4>2. CASE oldStress = Held
        <5>1. stress = TimedLeg("timeout_after_breach")
          BY <1>7, <2>3, <4>2
        <5>2. QED BY <1>2, <1>8, <2>3, <4>1, <5>1
      <4>3. CASE oldStress # Held
        BY <1>7, <2>3, <4>3
      <4>4. QED BY <4>2, <4>3
    <3>3. QED BY <2>3, <3>1, <3>2 DEF BothLeft
  <2>4. QED BY <1>12, <2>1, <2>2, <2>3 DEF SideBySide
<1>14. order'.state = "none" /\ NoOrder \in [state : {"none", "quoted", "held"}, age : Nat, breached : BOOLEAN, close : Nat]
  BY <1>4 DEF NoOrder
<1>15. tally' \in [Counters -> Nat] /\ TallyAdds'
  <2> DEFINE t == IF conservative.reason = "take_profit" THEN 1 ELSE 0
             s == IF conservative.reason = "stop" THEN 1 ELSE 0
             u == IF conservative.reason = "timeout" THEN 1 ELSE 0
  <2>1. t \in Nat /\ s \in Nat /\ u \in Nat /\ t + s + u = 1
    BY <1>13
  <2>2. tally' = [tally EXCEPT !.targets = @ + t, !.stops = @ + s, !.timeouts = @ + u]
    BY <1>5
  <2> HIDE DEF t, s, u
  <2>3. tally' \in [Counters -> Nat]
    <3>1. /\ tally \in [Counters -> Nat] /\ {"targets", "stops", "timeouts"} \subseteq Counters
      BY <1>1 DEF MakerTypes, Counters
    <3>2. tally.targets + t \in Nat /\ tally.stops + s \in Nat /\ tally.timeouts + u \in Nat
      BY <2>1, <3>1
    <3>3. [tally EXCEPT !.targets = @ + t] \in [Counters -> Nat]
      BY <3>1, <3>2
    <3>4. [tally EXCEPT !.targets = @ + t, !.stops = @ + s] \in [Counters -> Nat]
      BY <3>1, <3>2, <3>3
    <3>5. QED BY <2>2, <3>1, <3>2, <3>4
  <2>4. /\ tally'.signals = tally.signals /\ tally'.filled = tally.filled
        /\ tally'.winners = tally.winners /\ tally'.losers = tally.losers
        /\ tally'.targets = tally.targets + t /\ tally'.stops = tally.stops + s
        /\ tally'.timeouts = tally.timeouts + u
    BY <1>1, <2>2, TallyTypes
  <2>5. InHand = 1 /\ InPosition = 1 /\ InHand' = 0 /\ InPosition' = 0
    BY <1>1, <1>14 DEF InHand, InPosition
  <2>6. QED BY <1>1, <2>1, <2>3, <2>4, <2>5, TallyTypes DEF TallyAdds
<1>16. QED BY <1>4, <1>9, <1>11, <1>13, <1>14, <1>15 DEF MakerInv, MakerTypes

LEMMA MakerInductive ==
    /\ MakerInit => MakerInv
    /\ MakerInv /\ [MakerNext]_makerVars => MakerInv'
<1>1. ASSUME MakerInit PROVE MakerInv
  <2>1. /\ order = NoOrder /\ scenario = [s \in Scenarios |-> Held] /\ tally = NoTally
    BY <1>1 DEF MakerInit
  <2>2. MakerTypes /\ order.state = "none"
    BY <2>1, HeldTypes DEF MakerTypes, NoOrder, NoTally, Counters
  <2>3. TallyAdds
    BY <2>1, <2>2 DEF NoTally, TallyAdds, InHand, InPosition
  <2>4. BothLeft(scenario["conservative"], scenario["stress"])
    BY <2>1, HeldTypes DEF BothLeft
  <2>5. QED BY <2>2, <2>3, <2>4 DEF MakerInv
<1>2. ASSUME MakerInv, [MakerNext]_makerVars PROVE MakerInv'
  <2>1. CASE UNCHANGED makerVars
    BY <1>2, <2>1 DEF makerVars, MakerInv, MakerTypes, TallyAdds, InHand, InPosition
  <2>2. QED BY <1>2, <2>1, QuoteKeepsInv, QuoteCandleKeepsInv, CancelKeepsInv, HoldCandleKeepsInv,
               LeaveKeepsInv DEF MakerNext
<1>3. QED BY <1>1, <1>2

\* The two scenarios of a fill leave the same position consistently for all
\* candles, barriers and deadlines, and no signal is lost from the counts
\* (simulate_post_only_maker_fill_scenario and simulate_maker_exit_scenarios).  While a position is
\* held, the conservative one has left exactly if the target was reached before
\* the stop, by both at once, or the stop was touched.
THEOREM ScenariosTheorem == MakerSpec => []ScenariosAgree
<1>1. MakerInv => ScenariosAgree
  <2> SUFFICES ASSUME MakerInv, order.state = "none", scenario["conservative"] # Held
               PROVE  ScenariosAgree
    BY DEF ScenariosAgree
  <2>1. BothLeft(scenario["conservative"], scenario["stress"]) /\ TallyAdds /\ MakerTypes
    BY DEF MakerInv
  <2>2. InHand = 0 /\ InPosition = 0
    BY DEF InHand, InPosition
  <2>3. QED BY <2>1, <2>2, TallyTypes DEF ScenariosAgree, BothLeft, TallyAdds
<1>2. QED BY <1>1, MakerInductive, PTL DEF MakerSpec

\* The maker fill simulation keeps its types: no order waits beyond its
\* deadline and no position is held longer than the hold.
THEOREM MakerTypesTheorem == MakerSpec => []MakerTypeOK
<1>1. MakerInit => MakerTypeOK
  BY MakerAssumption, ScoreAssumption DEF MakerInit, NoOrder, NoTally, MakerTypeOK
<1>2. ASSUME MakerInv, MakerTypeOK, [MakerNext]_makerVars PROVE MakerTypeOK'
  <2>1. /\ order.age \in Nat /\ tally.signals \in Nat /\ tally.signals <= MaxEntries
        /\ DOMAIN tally = Counters
        /\ EntryCandles \in Nat /\ HoldCandles \in Nat \ {0} /\ MaxEntries \in Nat
    BY <1>2, MakerAssumption, ScoreAssumption DEF MakerInv, MakerTypes, MakerTypeOK, Counters
  <2>2. ASSUME order' = NoOrder PROVE order'.state = "none" /\ order'.age = 0
    BY <2>2 DEF NoOrder
  <2>3. CASE Quote
    <3>1. tally.signals < MaxEntries /\ tally' = [tally EXCEPT !.signals = @ + 1]
          /\ order'.state = "quoted" /\ order'.age = 0
      BY <2>3 DEF Quote, NoOrder
    <3>2. tally'.signals = tally.signals + 1
      BY <2>1, <3>1 DEF Counters
    <3>3. QED BY <2>1, <3>1, <3>2 DEF MakerTypeOK
  <2>4. CASE QuoteCandle
    <3>1. order.state = "quoted" /\ order.age < EntryCandles
      BY <2>4 DEF QuoteCandle, BeforeDeadline
    <3>2. \/ order'.state = "held" /\ order'.age = 1 /\ tally' = [tally EXCEPT !.filled = @ + 1]
          \/ order' = [order EXCEPT !.age = @ + 1] /\ tally' = tally
      BY <2>4 DEF QuoteCandle, Holding
    <3>3. tally'.signals = tally.signals
      BY <2>1, <3>2 DEF Counters
    <3>4. \/ order'.state = "held" /\ order'.age = 1
          \/ order'.state = "quoted" /\ order'.age = order.age + 1
      <4>1. order \in [state : {"none", "quoted", "held"}, age : Nat, breached : BOOLEAN, close : Nat]
        BY <1>2 DEF MakerInv, MakerTypes
      <4>2. QED BY <3>1, <3>2, <4>1
    <3>5. QED BY <2>1, <3>1, <3>3, <3>4 DEF MakerTypeOK
  <2>5. CASE Cancel
    <3>1. order' = NoOrder /\ tally'.signals = tally.signals
      BY <2>1, <2>5 DEF Cancel, Counters
    <3>2. QED BY <2>1, <2>2, <3>1 DEF MakerTypeOK
  <2>6. CASE HoldCandle
    <3>1. order.age < HoldCandles /\ order'.state = "held" /\ order'.age = order.age + 1 /\ tally' = tally
      BY <2>6 DEF HoldCandle, Holding
    <3>2. QED BY <2>1, <3>1 DEF MakerTypeOK
  <2>7. CASE Leave
    <3>1. order' = NoOrder /\ tally'.signals = tally.signals
      BY <2>1, <2>7 DEF Leave, Counters
    <3>2. QED BY <2>1, <2>2, <3>1 DEF MakerTypeOK
  <2>8. CASE UNCHANGED makerVars
    BY <1>2, <2>8 DEF makerVars, MakerTypeOK
  <2>9. QED BY <1>2, <2>3, <2>4, <2>5, <2>6, <2>7, <2>8 DEF MakerNext
<1>3. QED BY <1>1, <1>2, MakerInductive, PTL DEF MakerSpec

(***************************************************************************)
(* Gates and verdicts                                                      *)
(***************************************************************************)

LEMMA TestApplies ==
    ASSUME NEW tests, NEW reason, NEW holds \in BOOLEAN, <<reason, holds>> \in tests, holds = TRUE
    PROVE  reason \in Where(tests)
<1> DEFINE t == <<reason, holds>>
<1>1. t[1] = reason /\ t[2] = TRUE
  OBVIOUS
<1>2. t \in {u \in tests : u[2]}
  BY <1>1
<1> HIDE DEF t
<1>3. QED BY <1>1, <1>2 DEF Where

LEMMA NoTestApplies ==
    ASSUME NEW tests, \A t \in tests : t[2] = FALSE
    PROVE  Where(tests) = {}
BY DEF Where

LEMMA Untrue ==
    ASSUME NEW reason, NEW holds \in BOOLEAN, ~holds
    PROVE  \A t \in {<<reason, holds>>} : t[2] = FALSE
<1>1. holds = FALSE
  OBVIOUS
<1> DEFINE t == <<reason, holds>>
<1>2. t[2] = FALSE
  BY <1>1
<1> HIDE DEF t
<1>3. QED BY <1>2 DEF t

\* The tests of CandidateReasons.
CandidateTests(config, o) ==
    Baselines(o) \cup
    { <<"research_data_source_invalid", ~sources[config[2]].valid>>,
      <<"synthetic_data_used", sources[config[2]].kind = "synthetic">>,
      <<"timeframe_not_1h", config[2] # "1H">>,
      <<"strategy_not_volatility_breakout", config[1] # "breakout">>,
      <<"number_of_trades_below_20", o.trades < MinTrades>>,
      <<"walk_forward_not_passed", ~WalksForward(o.folds)>>,
      <<"folds_with_min_trades_below_required",
        Cardinality(Thick(o.folds)) # FoldCount(o.folds)>>,
      <<"maker_current_net_return_not_positive", ~Survives(o, "maker_current")>>,
      <<"maker_current_profit_factor_below_1_05", ~Strong(o, "maker_current")>>,
      <<"max_drawdown_above_research_limit", o.drawdown > ResearchDrawdown>> }

LEMMA CandidateReasonsOf ==
    \A config, o : CandidateReasons(config, o) = Where(CandidateTests(config, o))
BY DEF CandidateReasons, CandidateTests

\* The two halves of Blockers.
Derived(reasons) == UNION {BlockerFrom(reason) : reason \in reasons}
BlockerTests(config, o, valid) ==
    Baselines(o) \cup
      { <<"max_drawdown_above_configured_limit", o.drawdown > ResearchDrawdown>>,
        <<"maker_current_net_return_not_positive", ~Survives(o, "maker_current")>>,
        <<"maker_current_profit_factor_below_1_05", ~Strong(o, "maker_current")>>,
        <<"number_of_trades_below_20", o.trades < MinTrades>>,
        <<"statistically_weak", o.trades < MinTrades>>,
        <<"walk_forward_not_passed", ~WalksForward(o.folds)>>,
        <<"folds_with_min_trades_below_required",
          Cardinality(Thick(o.folds)) < Min({4, FoldCount(o.folds)})>>,
        <<"invalid_data_source", ~valid \/ sources[config[2]].kind # "collected">> }

LEMMA BlockersOf ==
    ASSUME NEW row, NEW valid
    PROVE  Blockers(row, valid) = Derived(row.maker) \cup Where(BlockerTests(row.config, row.o, valid))
BY DEF Blockers, Derived, BlockerTests

\* A row of the last series that is not a candidate has a blocker.
LEMMA RejectedHasBlocker ==
    ASSUME request.v9 = TRUE, request.mode = "focus", request.frames = {"1H"},
           NEW config \in Configs, NEW o, CandidateReasons(config, o) # {}
    PROVE  Blockers(GatedRow(config, o), ResultValid) # {}
<1> DEFINE row == GatedRow(config, o)
           source == sources[config[2]]
           tests == BlockerTests(config, o, ResultValid)
           derived == Derived(MakerReasons(config, o))
           uneven == Cardinality(Thick(o.folds)) # FoldCount(o.folds)
<1>1. config[1] = "breakout" /\ config[2] = "1H"
  BY DEF Configs
<1>2. row.config = config /\ row.o = o /\ row.maker = MakerReasons(config, o)
  BY DEF GatedRow
<1>3. Blockers(row, ResultValid) = derived \cup Where(tests)
  BY <1>2, BlockersOf
<1> SUFFICES ASSUME Blockers(row, ResultValid) = {} PROVE FALSE
  OBVIOUS
<1>4. Where(tests) = {} /\ derived = {}
  <2> HIDE DEF tests, row, derived
  <2>1. QED BY <1>3
<1>5. /\ ~(~o.hold) /\ ~(~o.dca)
  <2>1. <<"does_not_beat_buy_and_hold_risk_adjusted", ~o.hold>> \in tests
    BY DEF BlockerTests, Baselines
  <2>2. <<"does_not_beat_dca_risk_adjusted", ~o.dca>> \in tests
    BY DEF BlockerTests, Baselines
  <2>3. (~o.hold) \in BOOLEAN /\ (~o.dca) \in BOOLEAN
    OBVIOUS
  <2> HIDE DEF tests
  <2>4. QED BY <1>4, <2>1, <2>2, <2>3, TestApplies
<1>6. ~(o.drawdown > ResearchDrawdown) /\ ~(~Survives(o, "maker_current")) /\ ~(~Strong(o, "maker_current"))
  <2>1. <<"max_drawdown_above_configured_limit", o.drawdown > ResearchDrawdown>> \in tests
    BY DEF BlockerTests
  <2>2. <<"maker_current_net_return_not_positive", ~Survives(o, "maker_current")>> \in tests
    BY DEF BlockerTests
  <2>3. <<"maker_current_profit_factor_below_1_05", ~Strong(o, "maker_current")>> \in tests
    BY DEF BlockerTests
  <2>4. (o.drawdown > ResearchDrawdown) \in BOOLEAN /\ (~Survives(o, "maker_current")) \in BOOLEAN
        /\ (~Strong(o, "maker_current")) \in BOOLEAN
    OBVIOUS
  <2> HIDE DEF tests
  <2>5. QED BY <1>4, <2>1, <2>2, <2>3, <2>4, TestApplies
<1>7. ~(o.trades < MinTrades) /\ ~(~WalksForward(o.folds)) /\ ~(~ResultValid \/ source.kind # "collected")
  <2>1. <<"number_of_trades_below_20", o.trades < MinTrades>> \in tests
    BY DEF BlockerTests
  <2>2. <<"walk_forward_not_passed", ~WalksForward(o.folds)>> \in tests
    BY DEF BlockerTests
  <2>3. <<"invalid_data_source", ~ResultValid \/ source.kind # "collected">> \in tests
    BY DEF BlockerTests
  <2>4. (o.trades < MinTrades) \in BOOLEAN /\ (~WalksForward(o.folds)) \in BOOLEAN
        /\ (~ResultValid \/ source.kind # "collected") \in BOOLEAN
    OBVIOUS
  <2> HIDE DEF tests
  <2>5. QED BY <1>4, <2>1, <2>2, <2>3, <2>4, TestApplies
<1>8. ~uneven
  <2>1. "folds_with_min_trades_not_all_4" \notin MakerReasons(config, o)
    <3>1. BlockerFrom("folds_with_min_trades_not_all_4") # {}
      BY DEF BlockerFrom
    <3>2. QED BY <1>4, <3>1 DEF Derived
  <2>2. uneven \in BOOLEAN
    OBVIOUS
  <2>3. uneven = TRUE => "folds_with_min_trades_not_all_4" \in MakerReasons(config, o)
    BY <2>2, TestApplies DEF MakerReasons
  <2>4. QED BY <2>1, <2>2, <2>3
<1>9. source.valid /\ source.kind # "synthetic"
  BY <1>1, <1>7 DEF ResultValid
<1>10. CandidateReasons(config, o) = {}
  <2> DEFINE asked == CandidateTests(config, o)
  <2>1. \A t \in asked : t[2] = FALSE
    <3>1. \A t \in {<<"does_not_beat_buy_and_hold_risk_adjusted",
                    ~o.hold>>} : t[2] = FALSE
      BY <1>5, Untrue
    <3>2. \A t \in {<<"does_not_beat_dca_risk_adjusted",
                    ~o.dca>>} : t[2] = FALSE
      BY <1>5, Untrue
    <3>3. \A t \in {<<"research_data_source_invalid",
                    ~sources[config[2]].valid>>} : t[2] = FALSE
      BY <1>9, Untrue
    <3>4. \A t \in {<<"synthetic_data_used",
                    sources[config[2]].kind = "synthetic">>} : t[2] = FALSE
      BY <1>9, Untrue
    <3>5. \A t \in {<<"timeframe_not_1h",
                    config[2] # "1H">>} : t[2] = FALSE
      BY <1>1, Untrue
    <3>6. \A t \in {<<"strategy_not_volatility_breakout",
                    config[1] # "breakout">>} : t[2] = FALSE
      BY <1>1, Untrue
    <3>7. \A t \in {<<"number_of_trades_below_20",
                    o.trades < MinTrades>>} : t[2] = FALSE
      <4> DEFINE holds == o.trades < MinTrades
      <4>1. holds \in BOOLEAN /\ ~holds
        BY <1>7
      <4> HIDE DEF holds
      <4>2. \A t \in {<<"number_of_trades_below_20", holds>>} : t[2] = FALSE
        BY <4>1, Untrue
      <4>3. QED BY <4>2 DEF holds
    <3>8. \A t \in {<<"walk_forward_not_passed",
                    ~WalksForward(o.folds)>>} : t[2] = FALSE
      BY <1>7, Untrue
    <3>9. \A t \in {<<"folds_with_min_trades_below_required",
                    Cardinality(Thick(o.folds)) # FoldCount(o.folds)>>} : t[2] = FALSE
      BY <1>8, Untrue
    <3>10. \A t \in {<<"maker_current_net_return_not_positive",
                    ~Survives(o, "maker_current")>>} : t[2] = FALSE
      BY <1>6, Untrue
    <3>11. \A t \in {<<"maker_current_profit_factor_below_1_05",
                    ~Strong(o, "maker_current")>>} : t[2] = FALSE
      BY <1>6, Untrue
    <3>12. \A t \in {<<"max_drawdown_above_research_limit",
                    o.drawdown > ResearchDrawdown>>} : t[2] = FALSE
      <4> DEFINE holds == o.drawdown > ResearchDrawdown
      <4>1. holds \in BOOLEAN /\ ~holds
        BY <1>6
      <4> HIDE DEF holds
      <4>2. \A t \in {<<"max_drawdown_above_research_limit", holds>>} : t[2] = FALSE
        BY <4>1, Untrue
      <4>3. QED BY <4>2 DEF holds
    <3>13. QED BY ONLY <3>1, <3>2, <3>3, <3>4, <3>5, <3>6, <3>7, <3>8, <3>9, <3>10, <3>11, <3>12 DEF asked, CandidateTests, Baselines
  <2>2. Where(asked) = {}
    <3> HIDE DEF asked
    <3> QED BY <2>1, NoTestApplies
  <2>3. QED BY <2>2, CandidateReasonsOf
<1>11. QED BY <1>10

\* What a row that passed its gate or is a candidate is known to be.
Sound(row, config) ==
    /\ row.viable \in BOOLEAN /\ row.eligible \in BOOLEAN /\ row.candidate \in BOOLEAN
    /\ row.eligible = TRUE => row.viable = TRUE
    /\ row.viable = TRUE \/ row.candidate = TRUE => WalksForward(row.o.folds)
    /\ row.candidate = TRUE <=> request.mode = "focus" /\ CandidateReasons(config, row.o) = {}
    /\ row.candidate = TRUE => sources[config[2]].valid /\ sources[config[2]].kind # "synthetic"

LEMMA PassedRow ==
    ASSUME NEW config, NEW o, request.mode \in {"standard", "reality", "focus"},
           NEW row, row = GatedRow(config, o)
    PROVE  Sound(row, config)
<1> DEFINE ready == ReadinessReasons(config, o)
           reality == RealityReasons(config, o)
           focus == FocusReasons(config, o)
           wanted == CandidateReasons(config, o)
           viable == CASE request.mode = "standard" -> ready = {}
                       [] request.mode = "reality" -> ready \cup reality = {}
                       [] request.mode = "focus" -> focus = {}
           stays == ~WalksForward(o.folds)
<1>1. /\ row.viable = viable /\ row.eligible = (viable /\ request.model) /\ row.o = o
      /\ row.candidate = (request.mode = "focus" /\ wanted = {})
  BY DEF GatedRow
<1>2. stays \in BOOLEAN
  OBVIOUS
<1>3. /\ stays = TRUE => "walk_forward_not_passed" \in ready
      /\ stays = TRUE => "walk_forward_not_passed" \in focus
      /\ stays = TRUE => "walk_forward_not_passed" \in wanted
  <2>1. stays = TRUE => "walk_forward_not_passed" \in ready
    <3>1. \E tests : ready = Where(tests) /\ <<"walk_forward_not_passed", stays>> \in tests
      BY DEF ReadinessReasons
    <3> HIDE DEF stays, ready
    <3>2. QED BY <1>2, <3>1, TestApplies
  <2>2. stays = TRUE => "walk_forward_not_passed" \in focus
    <3>1. \E tests : focus = Where(tests) /\ <<"walk_forward_not_passed", stays>> \in tests
      BY DEF FocusReasons
    <3> HIDE DEF stays, focus
    <3>2. QED BY <1>2, <3>1, TestApplies
  <2>3. stays = TRUE => "walk_forward_not_passed" \in wanted
    <3>1. <<"walk_forward_not_passed", stays>> \in CandidateTests(config, o)
      BY DEF CandidateTests
    <3>2. wanted = Where(CandidateTests(config, o))
      BY CandidateReasonsOf
    <3> HIDE DEF stays, wanted
    <3>3. QED BY <1>2, <3>1, <3>2, TestApplies
  <2>4. QED BY <2>1, <2>2, <2>3
<1>4. wanted = {} => sources[config[2]].valid /\ sources[config[2]].kind # "synthetic"
  <2> DEFINE invalid == ~sources[config[2]].valid
             made == sources[config[2]].kind = "synthetic"
  <2>1. invalid \in BOOLEAN /\ made \in BOOLEAN
    OBVIOUS
  <2>2. /\ <<"research_data_source_invalid", invalid>> \in CandidateTests(config, o)
        /\ <<"synthetic_data_used", made>> \in CandidateTests(config, o)
    BY DEF CandidateTests
  <2>3. wanted = Where(CandidateTests(config, o))
    BY CandidateReasonsOf
  <2> HIDE DEF invalid, made, wanted
  <2>4. wanted = {} => invalid = FALSE /\ made = FALSE
    BY <2>1, <2>2, <2>3, TestApplies
  <2>5. QED BY <2>4 DEF invalid, made
<1> HIDE DEF ready, reality, focus, wanted
<1>5. viable = TRUE => ready = {} \/ focus = {}
  OBVIOUS
<1>6. viable \in BOOLEAN
  OBVIOUS
<1> HIDE DEF viable
<1>7. row.viable = TRUE \/ row.candidate = TRUE => stays = FALSE
  BY <1>1, <1>2, <1>3, <1>5
<1>8. stays = FALSE => WalksForward(row.o.folds)
  BY <1>1
<1> HIDE DEF stays
<1>9. row.candidate = TRUE <=> request.mode = "focus" /\ wanted = {}
  BY <1>1
<1>10. row.viable \in BOOLEAN /\ row.eligible \in BOOLEAN /\ row.candidate \in BOOLEAN
  BY <1>1, <1>6
<1>11. row.eligible = TRUE => row.viable = TRUE
  BY <1>1, <1>6
<1>12. QED BY <1>1, <1>4, <1>7, <1>8, <1>9, <1>10, <1>11 DEF wanted, Sound

Onward == {"run_paper_forward_research_only", "candidate_found_keep_trading_disabled"}

RowsGated == \A row \in results : row.config \in Configs /\ row = GatedRow(row.config, row.o)

Asked ==
    /\ \/ request = NoRequest
       \/ request.mode \in {"standard", "reality", "focus"} /\ request.v9 \in BOOLEAN
    /\ request = NoRequest => results = {} /\ summary = NoSummary
    /\ request.v9 = TRUE => request.mode = "focus" /\ request.frames = {"1H"}

GateInv == Asked /\ RowsGated /\ TerminalExplained /\ VerdictsAgree

LEMMA RowKinds ==
    ASSUME Asked, RowsGated
    PROVE  \A row \in results :
             /\ row.viable \in BOOLEAN /\ row.eligible \in BOOLEAN /\ row.candidate \in BOOLEAN
             /\ row.eligible = TRUE => row.viable = TRUE
             /\ row.viable = TRUE \/ row.candidate = TRUE => WalksForward(row.o.folds)
             /\ row.candidate = TRUE /\ request.v9 = TRUE => ResultValid
<1> SUFFICES ASSUME NEW row \in results
             PROVE  /\ row.viable \in BOOLEAN /\ row.eligible \in BOOLEAN /\ row.candidate \in BOOLEAN
                    /\ row.eligible = TRUE => row.viable = TRUE
                    /\ row.viable = TRUE \/ row.candidate = TRUE => WalksForward(row.o.folds)
                    /\ row.candidate = TRUE /\ request.v9 = TRUE => ResultValid
  OBVIOUS
<1> DEFINE config == row.config
           o == row.o
<1>1. config \in Configs /\ row = GatedRow(config, o)
  BY DEF RowsGated
<1>2. request.mode \in {"standard", "reality", "focus"}
  BY DEF Asked
<1>3. Sound(row, config)
  BY <1>1, <1>2, PassedRow
<1>4. request.v9 = TRUE => config[2] = "1H" /\ request.frames = {"1H"}
  BY <1>1 DEF Asked, Configs
<1>5. row.candidate = TRUE /\ request.v9 = TRUE => ResultValid
  BY <1>3, <1>4 DEF ResultValid, Sound
<1>6. QED BY <1>3, <1>5 DEF Sound

LEMMA StandardAgrees ==
    ASSUME \A row \in results : row.eligible = TRUE => row.viable = TRUE,
           \A row \in results : row.viable \in BOOLEAN /\ row.eligible \in BOOLEAN
    PROVE  StandardAdvice \in Onward <=> ResultValid /\ \E row \in results : row.viable = TRUE
<1>1. CASE ~ResultValid
  BY <1>1 DEF StandardAdvice, Onward
<1>2. CASE ResultValid /\ \E row \in results : row.eligible = TRUE
  BY <1>2 DEF StandardAdvice, Onward
<1>3. CASE ResultValid /\ \A row \in results : row.eligible = FALSE
  <2>1. CASE \E row \in results : row.viable = TRUE
    BY <1>3, <2>1 DEF StandardAdvice, Onward
  <2>2. CASE \A row \in results : row.viable = FALSE
    <3>1. StandardAdvice \in {"rejected_strategy", "improve_strategy"}
      BY <1>3, <2>2 DEF StandardAdvice
    <3>2. QED BY <2>2, <3>1 DEF Onward
  <2>3. QED BY <2>1, <2>2
<1>4. QED BY <1>1, <1>2, <1>3

LEMMA RealityAgrees ==
    ASSUME \A row \in results : row.viable \in BOOLEAN, RealityAdvice \in Onward
    PROVE  ResultValid /\ \E row \in results : row.viable = TRUE
BY DEF RealityAdvice, Onward

LEMMA FocusAgrees ==
    ASSUME \A row \in results : row.viable \in BOOLEAN, NEW diagnosis \in Diagnoses
    PROVE  FocusAdvice(diagnosis) \in Onward <=> ResultValid /\ \E row \in results : row.viable = TRUE
<1>1. diagnosis \notin Onward
  BY DEF Diagnoses, Onward
<1>2. QED BY <1>1 DEF FocusAdvice, Onward

LEMMA GatesStand ==
    ASSUME request' = request, sources' = sources
    PROVE  /\ Configs' = Configs /\ ResultValid' = ResultValid
           /\ \A config, o : GatedRow(config, o)' = GatedRow(config, o)
<1>1. Configs' = Configs /\ ResultValid' = ResultValid
  BY DEF Configs, ResultValid
<1>2. \A config : Unfit(config)' = Unfit(config)
  BY DEF Unfit
<1>3. \A config, o : ReadinessReasons(config, o)' = ReadinessReasons(config, o)
  BY <1>2 DEF ReadinessReasons
<1>4. \A config, o : RealityReasons(config, o)' = RealityReasons(config, o)
  BY DEF RealityReasons
<1>5. \A config, o : FocusReasons(config, o)' = FocusReasons(config, o)
  BY <1>2 DEF FocusReasons
<1>6. \A config, o : MakerReasons(config, o)' = MakerReasons(config, o)
  BY <1>2 DEF MakerReasons
<1>7. \A config, o : CandidateReasons(config, o)' = CandidateReasons(config, o)
  BY DEF CandidateReasons
<1>8. \A config, o : GatedRow(config, o)' = GatedRow(config, o)
  BY <1>3, <1>4, <1>5, <1>6, <1>7 DEF GatedRow
<1>9. QED BY <1>1, <1>8

\* Advice to go on is given for a valid result with a row that passed, and,
\* except by the reality check, for every such result.
Justified(advice) ==
    LET passed == ResultValid /\ \E row \in results : row.viable = TRUE
    IN  IF request.mode = "reality" THEN advice \in Onward => passed
        ELSE advice \in Onward <=> passed

LEMMA SayKeepsInv ==
    ASSUME GateInv, request.mode \in {"standard", "reality", "focus"},
           NEW advice, Justified(advice), Say(advice),
           request' = request, sources' = sources, results' = results
    PROVE  GateInv'
<1> DEFINE kinds == \A row \in results :
                      /\ row.viable \in BOOLEAN /\ row.eligible \in BOOLEAN /\ row.candidate \in BOOLEAN
                      /\ row.eligible = TRUE => row.viable = TRUE
                      /\ row.viable = TRUE \/ row.candidate = TRUE => WalksForward(row.o.folds)
                      /\ row.candidate = TRUE /\ request.v9 = TRUE => ResultValid
<1>1. Asked /\ RowsGated /\ kinds
  BY RowKinds DEF GateInv
<1>2. request # NoRequest
  BY DEF NoRequest
<1>3. Asked'
  BY <1>1, <1>2 DEF Asked
<1>4. RowsGated'
  BY <1>1, GatesStand DEF RowsGated
<1>5. /\ summary'.viable = {row \in CountedRows : row.viable}
      /\ summary'.candidates = {row \in CountedRows : row.candidate}
      /\ summary'.recommendation = advice /\ summary'.terminal = TerminalState
      /\ summary'.blocked = IF request.v9
                            THEN {<<row, Blockers(row, ResultValid)>> : row \in results}
                            ELSE {}
  BY DEF Say
<1>6. TerminalExplained'
  <2> SUFFICES ASSUME TerminalState = "failed", NEW entry \in summary'.blocked
               PROVE  entry[2] # {}
    BY <1>5 DEF TerminalExplained
  <2>1. request.v9 /\ \A row \in results : ~row.candidate
    BY DEF TerminalState
  <2>2. PICK row \in results : entry = <<row, Blockers(row, ResultValid)>>
    BY <1>5, <2>1
  <2> DEFINE config == row.config
             o == row.o
  <2>3. config \in Configs /\ row = GatedRow(config, o)
    BY <1>1 DEF RowsGated
  <2>4. request.v9 = TRUE
    <3>1. request.v9 \in BOOLEAN
      BY <1>1, <1>2 DEF Asked
    <3>2. QED BY <2>1, <3>1
  <2>5. request.mode = "focus" /\ request.frames = {"1H"}
    BY <1>1, <2>4 DEF Asked
  <2>6. CandidateReasons(config, o) # {}
    <3>1. Sound(row, config)
      BY <2>3, PassedRow
    <3>2. QED BY <2>1, <2>5, <3>1 DEF Sound
  <2>7. Blockers(row, ResultValid) # {}
    BY <2>3, <2>4, <2>5, <2>6, RejectedHasBlocker
  <2>8. QED BY <2>2, <2>7
<1>7. CountedRows \subseteq results /\ (CountedRows # {} => ResultValid)
      /\ (ResultValid => CountedRows = results)
  BY DEF CountedRows
<1>8. summary'.viable # {} <=> ResultValid /\ \E row \in results : row.viable = TRUE
  BY <1>1, <1>5, <1>7
<1>9. summary'.terminal = "found" <=> request.v9 /\ summary'.candidates # {}
  BY <1>1, <1>5, <1>7 DEF TerminalState
<1>10. \A row \in summary'.viable \cup summary'.candidates : WalksForward(row.o.folds) /\ ResultValid
  BY <1>1, <1>5, <1>7
<1>11. VerdictsAgree'
  BY <1>5, <1>8, <1>9, <1>10 DEF VerdictsAgree, Justified, Onward, ResultValid
<1>12. QED BY <1>3, <1>4, <1>6, <1>11 DEF GateInv

LEMMA GateInductive ==
    /\ GateInit => GateInv
    /\ GateInv /\ [GateNext]_gateVars => GateInv'
<1>1. ASSUME GateInit PROVE GateInv
  <2>1. request = NoRequest /\ results = {} /\ summary = NoSummary
    BY <1>1 DEF GateInit
  <2>2. Asked /\ RowsGated
    BY <2>1 DEF Asked, RowsGated, NoRequest
  <2>3. TerminalExplained /\ VerdictsAgree
    BY <2>1 DEF NoSummary, TerminalExplained, VerdictsAgree
  <2>4. QED BY <2>2, <2>3 DEF GateInv
<1>2. ASSUME GateInv, [GateNext]_gateVars PROVE GateInv'
  <2>1. Asked /\ RowsGated /\ TerminalExplained /\ VerdictsAgree
    BY <1>2 DEF GateInv
  <2>2. CASE BeginResearch
    <3>1. request = NoRequest /\ results' = {} /\ summary' = NoSummary
      BY <2>1, <2>2 DEF BeginResearch, Asked
    <3>2. /\ request'.mode \in {"standard", "reality", "focus"}
          /\ request'.v9 \in BOOLEAN
          /\ request'.v9 = TRUE => request'.mode = "focus" /\ request'.frames = {"1H"}
      <4>1. PICK mode \in {"standard", "reality", "focus"}, frames \in {{"1H"}, {"15Min", "1H"}},
                 size \in BOOLEAN :
              /\ request'.mode = mode /\ request'.frames = frames
              /\ request'.v9 = (mode = "focus" /\ V9Enabled(frames, size))
        BY <2>2 DEF BeginResearch
      <4> DEFINE last == mode = "focus" /\ V9Enabled(frames, size)
      <4>2. last \in BOOLEAN /\ (last = TRUE => mode = "focus" /\ frames = {"1H"})
        BY DEF V9Enabled
      <4>3. request'.v9 = last
        BY <4>1
      <4> HIDE DEF last
      <4>4. QED BY <4>1, <4>2, <4>3
    <3>3. Asked' /\ RowsGated'
      BY <3>1, <3>2 DEF Asked, RowsGated
    <3>4. TerminalExplained' /\ VerdictsAgree'
      BY <3>1 DEF NoSummary, TerminalExplained, VerdictsAgree
    <3>5. QED BY <3>3, <3>4 DEF GateInv
  <2>3. CASE EvaluateConfig
    <3>1. request # NoRequest /\ request' = request /\ sources' = sources /\ summary' = summary
      BY <2>3 DEF EvaluateConfig
    <3>2. PICK config \in Configs, o \in Outcomes :
            results' = results \cup {GatedRow(config, Measured(config, o))}
      BY <2>3 DEF EvaluateConfig
    <3>3. RowsGated'
      <4> DEFINE row == GatedRow(config, Measured(config, o))
      <4>1. row.config \in Configs /\ row = GatedRow(row.config, row.o)
        BY DEF GatedRow
      <4> HIDE DEF row
      <4>2. QED BY <2>1, <3>1, <3>2, <4>1, GatesStand DEF RowsGated, row
    <3>4. Asked' /\ TerminalExplained' /\ VerdictsAgree'
      BY <2>1, <3>1 DEF Asked, TerminalExplained, VerdictsAgree
    <3>5. QED BY <3>3, <3>4 DEF GateInv
  <2>4. CASE SummarizeStandard
    <3>1. request.mode = "standard" /\ Say(StandardAdvice)
          /\ request' = request /\ sources' = sources /\ results' = results
      BY <2>4 DEF SummarizeStandard, Summarizing
    <3>2. Justified(StandardAdvice)
      BY <2>1, <3>1, RowKinds, StandardAgrees DEF Justified
    <3>3. QED BY <1>2, <3>1, <3>2, SayKeepsInv
  <2>5. CASE SummarizeReality
    <3>1. request.mode = "reality" /\ Say(RealityAdvice)
          /\ request' = request /\ sources' = sources /\ results' = results
      BY <2>5 DEF SummarizeReality, Summarizing
    <3>2. Justified(RealityAdvice)
      BY <2>1, <3>1, RowKinds, RealityAgrees DEF Justified
    <3>3. QED BY <1>2, <3>1, <3>2, SayKeepsInv
  <2>6. CASE SummarizeFocus
    <3>1. PICK diagnosis \in Diagnoses : Say(FocusAdvice(diagnosis))
      BY <2>6 DEF SummarizeFocus
    <3>2. request.mode = "focus" /\ request' = request /\ sources' = sources /\ results' = results
      BY <2>6 DEF SummarizeFocus, Summarizing
    <3>3. Justified(FocusAdvice(diagnosis))
      BY <2>1, <3>2, RowKinds, FocusAgrees DEF Justified
    <3>4. QED BY <1>2, <3>1, <3>2, <3>3, SayKeepsInv
  <2>7. CASE UNCHANGED gateVars
    <3>1. request' = request /\ sources' = sources /\ results' = results /\ summary' = summary
      BY <2>7 DEF gateVars
    <3>2. RowsGated'
      BY <2>1, <3>1, GatesStand DEF RowsGated
    <3>3. QED BY <2>1, <3>1, <3>2 DEF GateInv, Asked, TerminalExplained, VerdictsAgree
  <2>8. QED BY <1>2, <2>2, <2>3, <2>4, <2>5, <2>6, <2>7 DEF GateNext
<1>3. QED BY <1>1, <1>2

\* Giving the last series up has a blocker for every row of it, whatever was
\* measured and whatever the limits are: each test of
\* CandidateReasons is covered by a test of Blockers, by its own name or, for
\* folds and sources, by another.
THEOREM TerminalTheorem == GateSpec => []TerminalExplained
<1>1. GateInv => TerminalExplained
  BY DEF GateInv
<1>2. QED BY <1>1, GateInductive, PTL DEF GateSpec

\* The verdicts of a research run agree with each other and with its rows, for
\* any number of rows, any measurements and any limits: a candidate of the last
\* series is only found among 1H rows, so the rows counted are all rows.
THEOREM VerdictsTheorem == GateSpec => []VerdictsAgree
<1>1. GateInv => VerdictsAgree
  BY DEF GateInv
<1>2. QED BY <1>1, GateInductive, PTL DEF GateSpec

LEMMA AdviceGiven ==
    ASSUME GateTypeOK
    PROVE  /\ StandardAdvice \in Advice /\ RealityAdvice \in Advice
           /\ \A diagnosis \in Diagnoses : FocusAdvice(diagnosis) \in Advice
<1>1. StandardAdvice \in Advice
  BY DEF StandardAdvice, Advice
<1>2. RealityAdvice \in Advice
  BY DEF RealityAdvice, Advice
<1>3. \A diagnosis \in Diagnoses : FocusAdvice(diagnosis) \in Advice
  BY DEF Diagnoses, FocusAdvice, Advice
<1>4. QED BY <1>1, <1>2, <1>3

LEMMA SayKeepsTypes ==
    ASSUME GateTypeOK, NEW advice \in Advice, Say(advice),
           request' = request, sources' = sources, results' = results
    PROVE  GateTypeOK'
<1>1. /\ summary'.recommendation \in Advice
      /\ summary'.terminal \in {"none", "found", "failed"}
      /\ summary'.viable \cup summary'.eligible \cup summary'.candidates \subseteq results
  <2>1. CountedRows \subseteq results
    BY DEF CountedRows
  <2>2. TerminalState \in {"none", "found", "failed"}
    BY DEF TerminalState
  <2>3. QED BY <2>1, <2>2 DEF Say
<1>2. Configs' = Configs
  BY GatesStand
<1>3. QED BY <1>1, <1>2 DEF GateTypeOK

\* A research run keeps its types: rows are of the configurations that were
\* asked for, no more of them than were to be evaluated, and the summary counts
\* no other.
THEOREM GateTypesTheorem == GateSpec => []GateTypeOK
<1> DEFINE Inv == GateInv /\ GateTypeOK /\ IsFiniteSet(results)
<1>1. GateInit => Inv
  <2> SUFFICES ASSUME GateInit PROVE Inv
    OBVIOUS
  <2>1. /\ request.mode = "none" /\ request.frames = {} /\ sources = <<>> /\ results = {}
        /\ summary.viable = {} /\ summary.eligible = {} /\ summary.candidates = {}
        /\ summary.recommendation = "none" /\ summary.terminal = "none"
    BY DEF GateInit, NoRequest, NoSummary
  <2>2. sources \in [request.frames -> FoundSources]
    <3>1. sources = [frame \in {} |-> frame]
      BY <2>1
    <3>2. QED BY <2>1, <3>1
  <2>3. IsFiniteSet(results) /\ Cardinality(results) = 0
    BY <2>1, FS_EmptySet
  <2>4. GateTypeOK
    BY <2>1, <2>2, <2>3, GateAssumption DEF GateTypeOK, Advice
  <2>5. QED BY <2>3, <2>4, GateInductive
<1>2. ASSUME Inv, [GateNext]_gateVars PROVE Inv'
  <2>1. GateInv' /\ GateInv /\ GateTypeOK /\ IsFiniteSet(results)
    BY <1>2, GateInductive
  <2>2. CASE BeginResearch
    <3>1. request = NoRequest /\ results' = results /\ summary' = summary
      BY <2>2 DEF BeginResearch
    <3>2. results = {} /\ summary = NoSummary
      BY <2>1, <3>1 DEF GateInv, Asked
    <3>3. /\ request'.mode \in {"standard", "reality", "focus"}
          /\ request'.frames \subseteq {"15Min", "1H"}
          /\ sources' \in [request'.frames -> FoundSources]
      BY <2>2 DEF BeginResearch
    <3>4. Cardinality(results) <= MaxResults
      BY <2>1 DEF GateTypeOK
    <3>5. GateTypeOK'
      BY <3>1, <3>2, <3>3, <3>4 DEF GateTypeOK, NoSummary, Advice
    <3>6. QED BY <2>1, <3>1, <3>5
  <2>3. CASE EvaluateConfig
    <3>1. /\ request' = request /\ sources' = sources /\ summary' = summary
          /\ Cardinality(results) < MaxResults
      BY <2>3 DEF EvaluateConfig
    <3>2. PICK row : results' = results \cup {row}
      BY <2>3 DEF EvaluateConfig
    <3>3. /\ IsFiniteSet(results') /\ Cardinality(results) \in Nat
          /\ Cardinality(results') \in {Cardinality(results), Cardinality(results) + 1}
      BY <2>1, <3>2, FS_AddElement, FS_CardinalityType
    <3>4. Cardinality(results') <= MaxResults
      BY <3>1, <3>3, GateAssumption
    <3>5. \A r \in results' : r.config \in Configs'
      BY <2>1 DEF GateInv, RowsGated
    <3>6. GateTypeOK'
      BY <2>1, <3>1, <3>2, <3>4, <3>5 DEF GateTypeOK
    <3>7. QED BY <2>1, <3>3, <3>6
  <2>4. ASSUME NEW advice \in Advice, Say(advice),
               request' = request, sources' = sources, results' = results
        PROVE  Inv'
    <3>1. GateTypeOK'
      BY <2>1, <2>4, SayKeepsTypes
    <3>2. QED BY <2>1, <2>4, <3>1
  <2>5. CASE SummarizeStandard
    BY <2>1, <2>4, <2>5, AdviceGiven DEF SummarizeStandard, Summarizing
  <2>6. CASE SummarizeReality
    BY <2>1, <2>4, <2>6, AdviceGiven DEF SummarizeReality, Summarizing
  <2>7. CASE SummarizeFocus
    BY <2>1, <2>4, <2>7, AdviceGiven DEF SummarizeFocus, Summarizing
  <2>8. CASE UNCHANGED gateVars
    <3>1. request' = request /\ sources' = sources /\ results' = results /\ summary' = summary
      BY <2>8 DEF gateVars
    <3>2. Configs' = Configs
      BY <3>1 DEF Configs
    <3>3. QED BY <2>1, <3>1, <3>2 DEF GateTypeOK
  <2>9. QED BY <1>2, <2>2, <2>3, <2>5, <2>6, <2>7, <2>8 DEF GateNext
<1>3. Inv => GateTypeOK
  OBVIOUS
<1>4. QED BY <1>1, <1>2, <1>3, PTL DEF GateSpec

=============================================================================
