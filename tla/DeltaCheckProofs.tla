-------------------------- MODULE DeltaCheckProofs --------------------------
(***************************************************************************)
(* Theorems about DeltaCheck, for any hosts, gaps, values and rows: the    *)
(* window of a counter's query is exact, and what the verdicts say.        *)
(*                                                                         *)
(* The invariant Base says that the rows of Own are in the order of time   *)
(* and further apart than a millisecond (Clock), that the running totals   *)
(* of the rows telescope (Totals), and that the file's points, and with    *)
(* them the endpoints of the series, are such rows (FileTrue, SeriesTrue). *)
(* A window is then an interval of Own's rows (WindowIs), its sum the      *)
(* difference of the totals at the endpoints (SumAnswer), and a verdict,   *)
(* once given, stays true while rows are added behind it (VerdictStays).   *)
(* Lasts, that sets of positions have a greatest element, would need an    *)
(* induction; it is carried along from row to row instead.                 *)
(***************************************************************************)
EXTENDS DeltaCheck, OtlpPointsProofs, TLAPS

-----------------------------------------------------------------------------
(* Milliseconds. *)

\* A millisecond holds NsPerMs nanoseconds.
LEMMA DivBounds ==
  ASSUME NEW a \in Nat
  PROVE  /\ ToMS(a) \in Nat
         /\ NsPerMs * ToMS(a) <= a
         /\ a < NsPerMs * ToMS(a) + NsPerMs
BY TimeAssumption DEF ToMS

LEMMA ProductMono ==
  ASSUME NEW n \in Nat, NEW p \in Nat, NEW q \in Nat, p <= q
  PROVE  n * p <= n * q /\ n * p \in Nat
OBVIOUS

\* Cutting to milliseconds keeps the order,
LEMMA MsMono ==
  ASSUME NEW a \in Nat, NEW b \in Nat, a <= b
  PROVE  ToMS(a) <= ToMS(b)
<1>1. SUFFICES ASSUME ToMS(b) + 1 <= ToMS(a) PROVE FALSE
  BY DivBounds
<1>2. NsPerMs * (ToMS(b) + 1) <= NsPerMs * ToMS(a)
  BY <1>1, DivBounds, ProductMono, TimeAssumption
<1>3. NsPerMs * (ToMS(b) + 1) = NsPerMs * ToMS(b) + NsPerMs
  BY DivBounds, TimeAssumption
<1> QED
  BY <1>2, <1>3, DivBounds, TimeAssumption

\* and points that are k milliseconds apart stay so.
LEMMA MsFar ==
  ASSUME NEW a \in Nat, NEW b \in Nat, NEW k \in Nat, a + k * NsPerMs <= b
  PROVE  ToMS(a) + k <= ToMS(b)
<1>1. SUFFICES ASSUME ToMS(b) + 1 <= ToMS(a) + k PROVE FALSE
  BY DivBounds
<1>2. NsPerMs * (ToMS(b) + 1) <= NsPerMs * (ToMS(a) + k)
  BY <1>1, DivBounds, ProductMono, TimeAssumption
<1>3. NsPerMs * (ToMS(b) + 1) = NsPerMs * ToMS(b) + NsPerMs
  BY DivBounds, TimeAssumption
<1>4. NsPerMs * (ToMS(a) + k) = NsPerMs * ToMS(a) + k * NsPerMs
  BY DivBounds, TimeAssumption
<1>5. /\ NsPerMs * ToMS(a) \in Int /\ k * NsPerMs \in Int
      /\ NsPerMs * ToMS(b) \in Int
  BY DivBounds, TimeAssumption
<1> QED
  BY <1>2, <1>3, <1>4, <1>5, DivBounds, TimeAssumption

-----------------------------------------------------------------------------
(* The last of a set of positions. *)

HasLast(I) == I # {} => \E i \in I : \A j \in I : j <= i

LEMMA LastInIsLast ==
  ASSUME NEW I, I \subseteq Nat, HasLast(I)
  PROVE  /\ I = {} => LastIn(I) = 0
         /\ I # {} => LastIn(I) \in I /\ \A j \in I : j <= LastIn(I)
<1>1. CASE I = {}
  BY <1>1 DEF LastIn
<1>2. CASE I # {}
  BY <1>2 DEF LastIn, HasLast
<1> QED
  BY <1>1, <1>2

LEMMA LastInUnique ==
  ASSUME NEW I, I \subseteq Nat, NEW i \in I, \A j \in I : j <= i
  PROVE  LastIn(I) = i
<1>1. LastIn(I) \in I /\ \A j \in I : j <= LastIn(I)
  BY DEF LastIn
<1>2. LastIn(I) \in Nat /\ i \in Nat /\ LastIn(I) <= i /\ i <= LastIn(I)
  BY <1>1
<1> QED
  BY <1>2

-----------------------------------------------------------------------------
(* What is known of every state. *)

Lasts == \A I \in SUBSET (1..Len(rows)) : HasLast(I)

\* Rows are in the order of time, and two of Own's a scrape interval apart.
Clock ==
  /\ \A i \in 1..Len(rows) : rows[i].ts <= now
  /\ \A i, j \in 1..Len(rows) : i < j => rows[i].ts <= rows[j].ts
  /\ \A i, j \in RowsOf(Own) : i < j => rows[i].ts + ScrapeNs <= rows[j].ts

\* No row after p and up to q is Own's; none of Own's is a reset.
NoneBetween(p, q) == \A k \in RowsOf(Own) : ~(p < k /\ k <= q)
NoResetBetween(p, q) ==
  \A k \in RowsOf(Own) : p < k /\ k <= q => ~rows[k].reset

\* Own's running total changes with Own's rows only; without other hosts it is
\* the account's; between two of Own's rows it grows by the difference of their
\* values if New Relic converts, and at least by the last value if it does not.
Totals ==
  /\ \A p, q \in 0..Len(rows) :
       p <= q /\ NoneBetween(p, q) => OwnTotal(q) = OwnTotal(p)
  /\ Others = {} => \A q \in 1..Len(rows) : rows[q].all = rows[q].own
  /\ \A p, q \in RowsOf(Own) : p < q /\ NoResetBetween(p, q) =>
       /\ rows[p].val <= rows[q].val
       /\ conv = "delta" =>
            rows[q].own - rows[p].own = rows[q].val - rows[p].val
  /\ conv = "raw" => \A p, q \in RowsOf(Own) : p < q =>
       rows[p].own + rows[q].val <= rows[q].own

\* Value v was scraped from Own at time t.
FromRow(t, v) == \E j \in RowsOf(Own) : rows[j].ts = t /\ rows[j].val = v

\* Every point of the file was scraped, and every window has its extremes.
FileTrue ==
  /\ \A i \in DOMAIN file : FromRow(file[i].ts, file[i].val)
  /\ \A since \in Nat : SeriesFits(SeriesOf(file, since), file, since)

SeriesTrue ==
  pc # "idle" =>
    /\ series.firstTS <= series.lastTS
    /\ FromRow(series.firstTS, series.firstVal)
    /\ FromRow(series.lastTS, series.lastVal)

QueryTrue ==
  pc = "asked" =>
    /\ vt # "unmapped"
    /\ IF vt = "sum"
       THEN query = BuildDeltaQuery /\ ToMS(series.firstTS) < ToMS(series.lastTS)
       ELSE query = BuildLatestQuery

Base == TypeOK /\ Lasts /\ Clock /\ Totals /\ FileTrue /\ SeriesTrue /\ QueryTrue

-----------------------------------------------------------------------------
(* What a scrape does to the rows. *)

LEMMA Bounds ==
  /\ NsPerMs \in Nat /\ NsPerMs >= 1
  /\ GaugeSlackMs \in Nat /\ GaugeSlackMs >= 1
  /\ ScrapeNs \in Nat /\ ScrapeNs >= NsPerMs
  /\ GaugeSlackMs * NsPerMs \in Nat
<1>1. /\ NsPerMs \in Nat /\ NsPerMs >= 1
      /\ GaugeSlackMs \in Nat /\ GaugeSlackMs >= 1
      /\ ScrapeNs \in Nat
  BY TimeAssumption
<1>2. NsPerMs * 1 <= NsPerMs * GaugeSlackMs
  BY <1>1, ProductMono
<1>3. NsPerMs * GaugeSlackMs = GaugeSlackMs * NsPerMs /\ NsPerMs * 1 = NsPerMs
  BY <1>1
<1>4. GaugeSlackMs * NsPerMs \in Nat
  BY <1>1
<1> QED
  BY <1>1, <1>2, <1>3, <1>4, ScrapeAssumption

LEMMA RowFacts ==
  ASSUME TypeOK
  PROVE  /\ Len(rows) \in Nat /\ DOMAIN rows = 1..Len(rows)
         /\ \A i \in 1..Len(rows) : rows[i] \in Row
         /\ \A h : RowsOf(h) \subseteq 1..Len(rows)
<1>1. rows \in Seq(Row)
  BY DEF TypeOK
<1> QED
  BY <1>1 DEF RowsOf

LEMMA PreviousFacts ==
  ASSUME TypeOK, Lasts, NEW h
  PROVE  /\ RowsOf(h) = {} <=> PreviousOf(h) = 0
         /\ PreviousOf(h) # 0 =>
              /\ PreviousOf(h) \in RowsOf(h)
              /\ \A j \in RowsOf(h) : j <= PreviousOf(h)
<1>1. RowsOf(h) \subseteq 1..Len(rows) /\ Len(rows) \in Nat
  BY RowFacts
<1>2. RowsOf(h) \subseteq Nat /\ HasLast(RowsOf(h)) /\ 0 \notin RowsOf(h)
  BY <1>1 DEF Lasts
<1> QED
  BY <1>2, LastInIsLast DEF PreviousOf

LEMMA DeltaFacts ==
  ASSUME TypeOK, Lasts, NEW h, NEW v \in Nat
  PROVE  DeltaOf(h, v) \in Nat
<1>1. PreviousOf(h) # 0 => rows[PreviousOf(h)].val \in Nat
  BY PreviousFacts, RowFacts DEF Row
<1> QED
  BY <1>1 DEF DeltaOf

LEMMA TotalsType ==
  ASSUME TypeOK
  PROVE  \A i \in 0..Len(rows) : OwnTotal(i) \in Nat /\ AllTotal(i) \in Nat
BY RowFacts DEF OwnTotal, AllTotal, Row

LEMMA RowForType ==
  ASSUME TypeOK, Lasts, NEW h \in Hosts, NEW t \in Nat, NEW v \in Nat
  PROVE  RowFor(h, t, v) \in Row
<1>1. DeltaOf(h, v) \in Nat
  BY DeltaFacts
<1>2. OwnTotal(Len(rows)) \in Nat /\ AllTotal(Len(rows)) \in Nat
  BY TotalsType, RowFacts
<1>3. (PreviousOf(h) # 0 /\ v < rows[PreviousOf(h)].val) \in BOOLEAN
  OBVIOUS
<1> QED
  BY <1>1, <1>2, <1>3 DEF RowFor, Row

\* The rows after a scrape are those before it and one more.
LEMMA ScrapeRows ==
  ASSUME TypeOK, Lasts, NEW h \in Hosts, NEW gap \in Gaps, NEW v \in 0..MaxVal,
         NEW shape \in Written, Scrape(h, gap, v, shape)
  PROVE  /\ rows' \in Seq(Row)
         /\ Len(rows') = Len(rows) + 1
         /\ \A i \in 1..Len(rows) : rows'[i] = rows[i]
         /\ rows'[Len(rows) + 1] = RowFor(h, now + gap, v)
         /\ now' = now + gap /\ now \in Nat /\ gap \in Nat /\ v \in Nat
         /\ \A g : RowsOf(g)' = RowsOf(g) \cup (IF g = h THEN {Len(rows) + 1} ELSE {})
<1>1. /\ rows \in Seq(Row) /\ rows' = Append(rows, RowFor(h, now + gap, v))
      /\ now' = now + gap /\ now \in Nat /\ gap \in Nat /\ v \in Nat
  BY TimeAssumption, ModelBounds DEF TypeOK, Scrape
<1>2. RowFor(h, now + gap, v) \in Row
  BY <1>1, RowForType
<1>3. /\ rows' \in Seq(Row)
      /\ Len(rows') = Len(rows) + 1
      /\ \A i \in 1..Len(rows) : rows'[i] = rows[i]
      /\ rows'[Len(rows) + 1] = RowFor(h, now + gap, v)
  BY <1>1, <1>2
<1>4. rows'[Len(rows) + 1].host = h
  BY <1>3 DEF RowFor
<1>5. DOMAIN rows' = 1..Len(rows) + 1 /\ DOMAIN rows = 1..Len(rows) /\ Len(rows) \in Nat
  BY <1>3, RowFacts
<1>6. ASSUME NEW g
      PROVE  RowsOf(g)' = RowsOf(g) \cup (IF g = h THEN {Len(rows) + 1} ELSE {})
  <2>1. RowsOf(g)' = {i \in 1..Len(rows) + 1 : rows'[i].host = g}
    BY <1>5 DEF RowsOf
  <2>2. RowsOf(g) = {i \in 1..Len(rows) : rows'[i].host = g}
    BY <1>3, <1>5 DEF RowsOf
  <2>3. 1..Len(rows) + 1 = 1..Len(rows) \cup {Len(rows) + 1}
    BY <1>5
  <2> QED
    BY <2>1, <2>2, <2>3, <1>4
<1> QED
  BY <1>1, <1>3, <1>6

\* The row a scrape adds.
LEMMA NewRow ==
  ASSUME TypeOK, Lasts, NEW h \in Hosts, NEW gap \in Gaps, NEW v \in 0..MaxVal,
         NEW shape \in Written, Scrape(h, gap, v, shape)
  PROVE  LET r == rows'[Len(rows) + 1]
         IN /\ r.host = h /\ r.ts = now' /\ r.val = v
            /\ r.reset <=> PreviousOf(h) # 0 /\ v < rows[PreviousOf(h)].val
            /\ r.own = OwnTotal(Len(rows)) + (IF h = Own THEN DeltaOf(h, v) ELSE 0)
            /\ r.all = AllTotal(Len(rows)) + DeltaOf(h, v)
<1>1. rows'[Len(rows) + 1] = RowFor(h, now + gap, v) /\ now' = now + gap
  BY ScrapeRows
<1>2. RowFor(h, now + gap, v).reset <=>
        PreviousOf(h) # 0 /\ v < rows[PreviousOf(h)].val
  BY Zenon DEF RowFor
<1>3. LET r == RowFor(h, now + gap, v)
      IN /\ r.host = h /\ r.ts = now + gap /\ r.val = v
         /\ r.own = OwnTotal(Len(rows)) + (IF h = Own THEN DeltaOf(h, v) ELSE 0)
         /\ r.all = AllTotal(Len(rows)) + DeltaOf(h, v)
  BY DEF RowFor
<1> QED
  BY <1>1, <1>2, <1>3

-----------------------------------------------------------------------------
(* What ReadOTLPSeries finds in the file. *)

LEMMA FilePoints ==
  ASSUME TypeOK
  PROVE  /\ ArePoints(file)
         /\ DOMAIN file = 1..Len(file) /\ Len(file) \in Nat
         /\ \A i \in DOMAIN file : file[i] \in RawPoint
<1>1. file \in Seq(RawPoint)
  BY DEF TypeOK
<1>2. \A p \in RawPoint : IsPoint(p)
  BY DEF RawPoint, IsPoint
<1>3. ArePoints(file) /\ \A i \in DOMAIN file : file[i] \in RawPoint
  BY <1>1, <1>2, SeqArePoints
<1> QED
  BY <1>1, <1>3

LEMMA FoundSeries ==
  ASSUME TypeOK, FileTrue, NEW since \in Nat, Key \in KeysOf(file, since),
         NEW s, s = SeriesOf(file, since)[Key]
  PROVE  /\ s \in SeriesRecord
         /\ s.firstTS <= s.lastTS
         /\ FromRow(s.firstTS, s.firstVal)
         /\ FromRow(s.lastTS, s.lastVal)
<1> DEFINE I == Positions(file, Key, since)
<1>1. SeriesFits(SeriesOf(file, since), file, since)
  BY DEF FileTrue
<1>2. PICK o, n, f : Ends(file, I, s, o, n, f)
  BY <1>1 DEF SeriesFits
<1>3. /\ o \in I /\ n \in I /\ f \in I
      /\ s = [res |-> file[f].res, firstVal |-> file[o].val,
              firstTS |-> TimeOf(file[o]), lastVal |-> file[n].val,
              lastTS |-> TimeOf(file[n]), nPoints |-> Cardinality(I)]
      /\ TimeOf(file[o]) <= TimeOf(file[n])
  <2>1. o \in I /\ n \in I /\ f \in I
    BY <1>2 DEF Ends, IsOldest, IsNewest, IsFirstRead
  <2>2. \A i \in I : TimeOf(file[i]) \in Int
    BY FilePoints, TimeOfInt DEF Positions, ArePoints
  <2>3. TimeOf(file[n]) > TimeOf(file[o]) \/ TimeOf(file[n]) = TimeOf(file[o])
    BY <1>2, <2>1 DEF Ends, IsOldest
  <2> QED
    BY <1>2, <2>1, <2>2, <2>3 DEF Ends
<1>4. \A i \in I : /\ i \in DOMAIN file /\ file[i] \in RawPoint
                    /\ TimeOf(file[i]) = file[i].ts
  BY FilePoints DEF Positions, InWindow, Emits, TimeOf, RawPoint
<1>5. Cardinality(I) \in Nat
  <2>1. I \subseteq 1..Len(file) /\ Len(file) \in Nat
    BY FilePoints DEF Positions
  <2> QED
    BY <2>1, CountGrown
<1>6. \A i \in I : FromRow(file[i].ts, file[i].val)
  BY <1>4 DEF FileTrue
<1> HIDE DEF I
<1>7. s \in SeriesRecord
  BY <1>3, <1>4, <1>5 DEF SeriesRecord, RawPoint
<1> QED
  BY <1>3, <1>4, <1>6, <1>7

-----------------------------------------------------------------------------
(* Type correctness. *)

LEMMA SinceNat == TypeOK => Sinces \subseteq Nat
BY DEF TypeOK, Sinces

LEMMA ExpectedType ==
  ASSUME series \in SeriesRecord
  PROVE  Expected \in Int
BY DEF Expected, SeriesRecord

LEMMA QueryType ==
  ASSUME series \in SeriesRecord
  PROVE  /\ BuildDeltaQuery \in [fn : {"none", "sum", "latest"}, since : Nat, until : Nat]
         /\ BuildLatestQuery \in [fn : {"none", "sum", "latest"}, since : Nat, until : Nat]
<1>1. series.firstTS \in Nat /\ series.lastTS \in Nat
  BY DEF SeriesRecord
<1>2. ToMS(series.firstTS) \in Nat /\ ToMS(series.lastTS) \in Nat
  BY <1>1, DivBounds
<1> QED
  BY <1>2, Bounds DEF BuildDeltaQuery, BuildLatestQuery

\* The visible rows before a millisecond, and the last of them.
LEMMA BeforeFacts ==
  ASSUME TypeOK, Lasts, NEW ms
  PROVE  /\ Before(ms) \subseteq 1..visible
         /\ visible \in 0..Len(rows) /\ Len(rows) \in Nat
         /\ LastIn(Before(ms)) \in 0..Len(rows)
         /\ Before(ms) = {} => LastIn(Before(ms)) = 0
         /\ Before(ms) # {} => LastIn(Before(ms)) \in Before(ms)
         /\ \A j \in Before(ms) : j <= LastIn(Before(ms))
<1>1. Before(ms) \subseteq 1..visible
  BY DEF Before
<1>2. visible \in 0..Len(rows) /\ Len(rows) \in Nat
  BY RowFacts DEF TypeOK
<1>3. Before(ms) \in SUBSET (1..Len(rows)) /\ Before(ms) \subseteq Nat
  BY <1>1, <1>2
<1>4. HasLast(Before(ms))
  BY <1>3 DEF Lasts
<1>5. /\ Before(ms) = {} => LastIn(Before(ms)) = 0
      /\ Before(ms) # {} => LastIn(Before(ms)) \in Before(ms)
      /\ \A j \in Before(ms) : j <= LastIn(Before(ms))
  BY <1>3, <1>4, LastInIsLast
<1>6. LastIn(Before(ms)) \in 0..Len(rows)
  BY <1>2, <1>3, <1>5
<1> QED
  BY <1>1, <1>2, <1>5, <1>6

LEMMA WindowFacts ==
  ASSUME TypeOK, Lasts, NEW since, NEW until
  PROVE  /\ WindowRows(since, until) \subseteq 1..Len(rows)
         /\ WindowRows(since, until) # {} =>
              LastIn(WindowRows(since, until)) \in WindowRows(since, until)
<1>1. WindowRows(since, until) \subseteq 1..visible
  BY DEF WindowRows, Before
<1>2. visible \in 0..Len(rows) /\ Len(rows) \in Nat
  BY RowFacts DEF TypeOK
<1>3. /\ WindowRows(since, until) \in SUBSET (1..Len(rows))
      /\ WindowRows(since, until) \subseteq Nat
  BY <1>1, <1>2
<1>4. HasLast(WindowRows(since, until))
  BY <1>3 DEF Lasts
<1> QED
  BY <1>3, <1>4, LastInIsLast

LEMMA AnswerType ==
  ASSUME TypeOK, Lasts, query.fn \in {"sum", "latest"},
         query.fn = "latest" => Matching # {}
  PROVE  Answer \in Int
<1>1. CASE query.fn = "sum"
  <2>1. /\ LastIn(Before(query.since)) \in 0..Len(rows)
        /\ LastIn(Before(query.until)) \in 0..Len(rows)
    BY BeforeFacts
  <2> QED
    BY <1>1, <2>1, TotalsType DEF Answer, WindowSum
<1>2. CASE query.fn = "latest"
  <2>1. LastIn(Matching) \in 1..Len(rows)
    BY <1>2, WindowFacts DEF Matching
  <2>2. rows[LastIn(Matching)].val \in Nat
    BY <2>1, RowFacts DEF Row
  <2> QED
    BY <1>2, <2>2 DEF Answer
<1> QED
  BY <1>1, <1>2


LEMMA AskedQuery ==
  ASSUME QueryTrue, pc = "asked"
  PROVE  query.fn = IF vt = "sum" THEN "sum" ELSE "latest"
BY DEF QueryTrue, BuildDeltaQuery, BuildLatestQuery

LEMMA ScrapeType ==
  ASSUME TypeOK, Lasts, NEW h \in Hosts, NEW gap \in Gaps, NEW v \in 0..MaxVal,
         NEW shape \in Written, Scrape(h, gap, v, shape)
  PROVE  TypeOK'
<1>1. /\ rows' \in Seq(Row) /\ Len(rows') = Len(rows) + 1
      /\ now' \in Nat /\ v \in Nat
  BY ScrapeRows
<1>2. visible' \in 0..Len(rows')
  BY <1>1, RowFacts DEF TypeOK, Scrape
<1> DEFINE p == [key |-> Key, res |-> h, ts |-> now + gap, val |-> v,
                 shape |-> shape]
<1>3. h = Own => p \in RawPoint
  <2>1. now + gap \in Nat
    BY ScrapeRows
  <2> QED
    BY <1>1, <2>1, WrittenAssumption DEF RawPoint
<1>4. file' \in Seq(RawPoint)
  <2>1. CASE h = Own
    <3>1. file' = Append(file, p)
      BY <2>1 DEF Scrape
    <3> HIDE DEF p
    <3> QED
      BY <2>1, <3>1, <1>3 DEF TypeOK
  <2>2. CASE h # Own
    BY <2>2 DEF Scrape, TypeOK
  <2> QED
    BY <2>1, <2>2
<1>5. UNCHANGED <<vt, conv, pc, series, query, verdict>>
  BY DEF Scrape, checkVars
<1> QED
  BY <1>1, <1>2, <1>4, <1>5 DEF TypeOK

LEMMA JudgeType ==
  ASSUME TypeOK, pc # "idle", NEW status \in Statuses, NEW actual \in Int,
         NEW answer \in {"none", "value", "null", "empty", "error"},
         Judge(status, actual, answer), UNCHANGED <<envVars, series, query>>
  PROVE  TypeOK'
<1>1. Expected \in Int /\ visible \in Nat
  BY ExpectedType, RowFacts DEF TypeOK
<1>2. verdict' \in [status : Statuses, expected : Int, actual : Int,
                    answer : {"none", "value", "null", "empty", "error"},
                    seen : Nat]
  BY <1>1 DEF Judge
<1> QED
  BY <1>2 DEF Judge, TypeOK, envVars

LEMMA StepType ==
  ASSUME TypeOK, Lasts, FileTrue, QueryTrue, [Next]_vars
  PROVE  TypeOK'
<1>1. ASSUME NEW h \in Hosts, NEW gap \in Gaps, NEW v \in 0..MaxVal,
             NEW shape \in Written, Scrape(h, gap, v, shape)
      PROVE  TypeOK'
  BY <1>1, ScrapeType
<1>2. ASSUME Rotate PROVE TypeOK'
  <2>1. << >> \in Seq(RawPoint)
    OBVIOUS
  <2> QED
    BY <1>2, <2>1 DEF Rotate, TypeOK, checkVars
<1>3. ASSUME Land PROVE TypeOK'
  <2>1. visible + 1 \in 0..Len(rows)
    BY <1>3, RowFacts DEF Land, TypeOK
  <2> QED
    BY <1>3, <2>1 DEF Land, TypeOK, checkVars
<1>4. ASSUME NEW since \in Sinces, ReadSeries(since) PROVE TypeOK'
  <2>1. since \in Nat /\ Key \in KeysOf(file, since)
    BY <1>4, SinceNat DEF ReadSeries
  <2>2. series' \in SeriesRecord
    BY <1>4, <2>1, FoundSeries DEF ReadSeries
  <2> QED
    BY <1>4, <2>2 DEF ReadSeries, TypeOK, envVars
<1>5. ASSUME Skip PROVE TypeOK'
  BY <1>5, JudgeType DEF Skip, Statuses
<1>6. ASSUME Ask PROVE TypeOK'
  <2>1. series \in SeriesRecord
    BY <1>6 DEF Ask, TypeOK
  <2> QED
    BY <1>6, <2>1, QueryType DEF Ask, TypeOK, envVars
<1>7. ASSUME AnswerValue PROVE TypeOK'
  <2>1. query.fn \in {"sum", "latest"} /\ (query.fn = "latest" => Matching # {})
    BY <1>7, AskedQuery DEF AnswerValue
  <2>2. Answer \in Int /\ Compared(Answer) \in Statuses
    BY <2>1, AnswerType DEF Compared, Statuses
  <2> QED
    BY <1>7, <2>2, JudgeType DEF AnswerValue
<1>8. ASSUME AnswerNull PROVE TypeOK'
  <2>1. NullScalar \in Int /\ Compared(NullScalar) \in Statuses
    BY DEF Compared, Statuses, NullScalar
  <2> QED
    BY <1>8, <2>1, JudgeType DEF AnswerNull
<1>9. ASSUME AnswerEmpty PROVE TypeOK'
  BY <1>9, JudgeType DEF AnswerEmpty, Statuses
<1>10. ASSUME AnswerError PROVE TypeOK'
  BY <1>10, JudgeType DEF AnswerError, Statuses
<1>11. ASSUME NextCycle PROVE TypeOK'
  BY <1>11 DEF NextCycle, TypeOK, envVars, NoQuery, NoVerdict, Statuses
<1>12. ASSUME UNCHANGED vars PROVE TypeOK'
  BY <1>12 DEF vars, envVars, checkVars, TypeOK
<1> QED
  BY <1>1, <1>2, <1>3, <1>4, <1>5, <1>6, <1>7, <1>8, <1>9, <1>10, <1>11, <1>12
     DEF Next, Collector, NewRelic, Check

-----------------------------------------------------------------------------
(* Rows stay in the order of time, and their totals add up. *)

LEMMA ScrapeLasts ==
  ASSUME TypeOK, Lasts, NEW h \in Hosts, NEW gap \in Gaps, NEW v \in 0..MaxVal,
         NEW shape \in Written, Scrape(h, gap, v, shape)
  PROVE  Lasts'
<1>1. Len(rows') = Len(rows) + 1 /\ Len(rows) \in Nat
  BY ScrapeRows, RowFacts
<1>2. SUFFICES ASSUME NEW I \in SUBSET (1..Len(rows) + 1) PROVE HasLast(I)
  BY <1>1 DEF Lasts
<1>3. CASE Len(rows) + 1 \in I
  <2>1. \A j \in I : j <= Len(rows) + 1
    BY <1>1
  <2> QED
    BY <2>1, <1>3 DEF HasLast
<1>4. CASE Len(rows) + 1 \notin I
  <2>1. I \in SUBSET (1..Len(rows))
    BY <1>1, <1>4
  <2> QED
    BY <2>1 DEF Lasts
<1> QED
  BY <1>3, <1>4

LEMMA ScrapeClock ==
  ASSUME TypeOK, Lasts, Clock, NEW h \in Hosts, NEW gap \in Gaps,
         NEW v \in 0..MaxVal, NEW shape \in Written, Scrape(h, gap, v, shape)
  PROVE  Clock'
<1> DEFINE n == Len(rows)
<1>1. /\ n \in Nat /\ Len(rows') = n + 1
      /\ \A i \in 1..n : rows'[i] = rows[i] /\ rows[i].ts \in Nat
      /\ rows'[n + 1].ts = now' /\ now' \in Nat /\ now \in Nat /\ now <= now'
      /\ RowsOf(Own) \subseteq 1..n
  <2>1. \A i \in 1..n : rows[i].ts \in Nat
    BY RowFacts DEF Row
  <2>2. rows'[n + 1].ts = now'
    BY NewRow
  <2> QED
    BY <2>1, <2>2, ScrapeRows, RowFacts
<1>2. RowsOf(Own)' = RowsOf(Own) \cup (IF h = Own THEN {n + 1} ELSE {})
  BY ScrapeRows
<1>3. \A i \in 1..n + 1 : i \in 1..n \/ i = n + 1
  BY <1>1
<1>4. \A i \in 1..n : rows[i].ts <= now
  BY DEF Clock
<1> HIDE DEF n
<1>5. \A i \in 1..n + 1 : rows'[i].ts <= now'
  BY <1>1, <1>3, <1>4
<1>6. \A i, j \in 1..n + 1 : i < j => rows'[i].ts <= rows'[j].ts
  <2>1. SUFFICES ASSUME NEW i \in 1..n + 1, NEW j \in 1..n + 1, i < j
                 PROVE  rows'[i].ts <= rows'[j].ts
    OBVIOUS
  <2>2. i \in 1..n
    BY <2>1, <1>1
  <2>3. CASE j \in 1..n
    BY <2>1, <2>2, <2>3, <1>1 DEF Clock, n
  <2>4. CASE j = n + 1
    BY <2>2, <2>4, <1>1, <1>4
  <2> QED
    BY <2>3, <2>4, <1>3
<1>7. \A i, j \in RowsOf(Own)' : i < j => rows'[i].ts + ScrapeNs <= rows'[j].ts
  <2>1. SUFFICES ASSUME NEW i \in RowsOf(Own)', NEW j \in RowsOf(Own)', i < j
                 PROVE  rows'[i].ts + ScrapeNs <= rows'[j].ts
    OBVIOUS
  <2>2. i \in RowsOf(Own) /\ i \in 1..n
    BY <2>1, <1>1, <1>2
  <2>3. CASE j \in RowsOf(Own)
    BY <2>1, <2>2, <2>3, <1>1 DEF Clock
  <2>4. CASE j = n + 1 /\ h = Own
    <3>1. /\ PreviousOf(h) \in RowsOf(Own) /\ i <= PreviousOf(h)
          /\ PreviousOf(h) # 0
      BY <2>2, <2>4, PreviousFacts
    <3>2. now' >= rows[PreviousOf(h)].ts + ScrapeNs
      BY <3>1 DEF Scrape
    <3>3. rows[i].ts <= rows[PreviousOf(h)].ts
      BY <2>2, <3>1, <1>1 DEF Clock, n
    <3> QED
      BY <2>2, <2>4, <3>1, <3>2, <3>3, <1>1, Bounds
  <2> QED
    BY <2>1, <2>3, <2>4, <1>2
<1> QED
  BY <1>1, <1>5, <1>6, <1>7 DEF Clock, n

LEMMA ScrapeTotals ==
  ASSUME TypeOK, Lasts, Totals, NEW h \in Hosts, NEW gap \in Gaps,
         NEW v \in 0..MaxVal, NEW shape \in Written, Scrape(h, gap, v, shape)
  PROVE  Totals'
<1> DEFINE n == Len(rows)
           own == rows'[n + 1].own
           prev == PreviousOf(Own)
<1>1. /\ n \in Nat /\ Len(rows') = n + 1 /\ v \in Nat
      /\ \A i \in 1..n : /\ rows'[i] = rows[i]
                         /\ rows[i].own \in Nat /\ rows[i].val \in Nat
      /\ RowsOf(Own) \subseteq 1..n
  <2>1. \A i \in 1..n : rows[i].own \in Nat /\ rows[i].val \in Nat
    BY RowFacts DEF Row
  <2> QED
    BY <2>1, ScrapeRows, RowFacts
<1>2. /\ RowsOf(Own)' = RowsOf(Own) \cup (IF h = Own THEN {n + 1} ELSE {})
      /\ conv' = conv
  BY ScrapeRows DEF Scrape
<1>3. \A q \in 0..n : OwnTotal(q)' = OwnTotal(q) /\ OwnTotal(q) \in Nat
  BY <1>1, TotalsType DEF OwnTotal
<1>4. /\ own = OwnTotal(n) + (IF h = Own THEN DeltaOf(h, v) ELSE 0)
      /\ \A q : q = n + 1 => OwnTotal(q)' = own
      /\ DeltaOf(h, v) \in Nat
  <2>1. own = OwnTotal(n) + (IF h = Own THEN DeltaOf(h, v) ELSE 0)
    BY NewRow
  <2>2. DeltaOf(h, v) \in Nat
    BY <1>1, DeltaFacts
  <2>3. \A q : q = n + 1 => OwnTotal(q)' = own
    BY <1>1 DEF OwnTotal
  <2> QED
    BY <2>1, <2>2, <2>3
<1>5. \A p, q \in 0..n + 1, k \in 0..n : k <= q =>
        /\ NoneBetween(p, q)' => NoneBetween(p, k)
        /\ NoResetBetween(p, q)' => NoResetBetween(p, k)
  <2>1. \A k \in RowsOf(Own) : k \in 1..n /\ k \in RowsOf(Own)' /\ rows'[k] = rows[k]
    BY <1>1, <1>2
  <2> QED
    BY <2>1, <1>1 DEF NoneBetween, NoResetBetween
<1>6. \A i \in 0..n + 1 : i \in 0..n \/ i = n + 1
  BY <1>1
<1>7. \A p, q \in 0..n + 1 :
        p <= q /\ NoneBetween(p, q)' => OwnTotal(q)' = OwnTotal(p)'
  <2>1. SUFFICES ASSUME NEW p \in 0..n + 1, NEW q \in 0..n + 1,
                        p <= q, NoneBetween(p, q)'
                 PROVE  OwnTotal(q)' = OwnTotal(p)'
    OBVIOUS
  <2>2. CASE q \in 0..n
    <3>1. p \in 0..n /\ NoneBetween(p, q)
      BY <2>1, <2>2, <1>1, <1>5
    <3> QED
      BY <3>1, <2>1, <2>2, <1>3 DEF Totals
  <2>3. CASE q = n + 1 /\ p \in 0..n
    <3>1. h # Own
      BY <2>1, <2>3, <1>1, <1>2 DEF NoneBetween
    <3>2. NoneBetween(p, n) /\ n \in 0..n /\ p <= n
      BY <2>1, <2>3, <1>1, <1>5
    <3>3. OwnTotal(n) = OwnTotal(p)
      BY <3>2, <2>3 DEF Totals
    <3> QED
      BY <3>1, <3>2, <3>3, <2>3, <1>3, <1>4
  <2> QED
    BY <2>2, <2>3, <1>6
<1>8. Others = {} => \A q \in 1..n + 1 : rows'[q].all = rows'[q].own
  <2>1. SUFFICES ASSUME Others = {}, NEW q \in 1..n + 1
                 PROVE  rows'[q].all = rows'[q].own
    OBVIOUS
  <2>2. CASE q \in 1..n
    BY <2>1, <2>2, <1>1 DEF Totals
  <2>3. CASE q = n + 1
    <3>1. h = Own
      BY <2>1 DEF Hosts
    <3>2. AllTotal(n) = OwnTotal(n)
      BY <2>1, <1>1 DEF Totals, AllTotal, OwnTotal
    <3> QED
      BY <3>1, <3>2, <2>3, <1>4, NewRow
  <2> QED
    BY <2>2, <2>3, <1>1
<1>9. ASSUME h = Own, NEW p \in RowsOf(Own)
      PROVE  /\ prev \in RowsOf(Own) /\ p <= prev /\ prev # 0
             /\ own = rows[prev].own + DeltaOf(Own, v)
  <2>1. prev \in RowsOf(Own) /\ p <= prev /\ prev # 0 /\ prev \in 1..n
    BY <1>9, <1>1, PreviousFacts
  <2>2. NoneBetween(prev, n)
    BY <2>1, <1>1, PreviousFacts DEF NoneBetween
  <2>3. OwnTotal(n) = OwnTotal(prev)
    BY <2>1, <2>2, <1>1 DEF Totals
  <2> QED
    BY <2>1, <2>3, <1>4, <1>9 DEF OwnTotal
<1>10. \A p, q \in RowsOf(Own)' : p < q /\ NoResetBetween(p, q)' =>
         /\ rows'[p].val <= rows'[q].val
         /\ conv' = "delta" =>
              rows'[q].own - rows'[p].own = rows'[q].val - rows'[p].val
  <2>1. SUFFICES ASSUME NEW p \in RowsOf(Own)', NEW q \in RowsOf(Own)', p < q,
                        NoResetBetween(p, q)'
                 PROVE  /\ rows'[p].val <= rows'[q].val
                        /\ conv' = "delta" => rows'[q].own - rows'[p].own =
                                              rows'[q].val - rows'[p].val
    OBVIOUS
  <2>2. p \in RowsOf(Own) /\ p \in 1..n
    BY <2>1, <1>1, <1>2
  <2>3. CASE q \in RowsOf(Own)
    <3>1. q \in 1..n
      BY <2>3, <1>1
    <3>2. NoResetBetween(p, q)
      BY <2>1, <2>2, <3>1, <1>1, <1>5
    <3> QED
      BY <3>1, <3>2, <2>1, <2>2, <2>3, <1>1, <1>2 DEF Totals
  <2>4. CASE q = n + 1 /\ h = Own
    <3>1. /\ prev \in RowsOf(Own) /\ p <= prev /\ prev # 0 /\ prev \in 1..n
          /\ own = rows[prev].own + DeltaOf(Own, v)
      BY <2>2, <2>4, <1>1, <1>9
    <3>2. ~rows'[n + 1].reset
      BY <2>1, <2>2, <2>4, <1>1, <1>2 DEF NoResetBetween
    <3>3. rows'[n + 1].val = v /\ rows[prev].val <= v
      BY <3>1, <3>2, <2>4, <1>1, NewRow
    <3>4. conv = "delta" => DeltaOf(Own, v) = v - rows[prev].val
      BY <3>1, <3>3, <1>1 DEF DeltaOf
    <3>5. p < prev => /\ rows[p].val <= rows[prev].val
                      /\ conv = "delta" => rows[prev].own - rows[p].own =
                                           rows[prev].val - rows[p].val
      <4>1. NoResetBetween(p, prev)
        BY <2>1, <2>2, <2>4, <3>1, <1>1, <1>5
      <4> QED
        BY <4>1, <2>2, <3>1 DEF Totals
    <3>6. p = prev \/ p < prev
      BY <2>2, <3>1, <1>1
    <3>7. /\ rows[prev].val \in Nat /\ rows[prev].own \in Nat
          /\ rows[p].val \in Nat /\ rows[p].own \in Nat
          /\ rows'[p] = rows[p] /\ v \in Nat
          /\ rows'[q].own = own /\ rows'[q].val = v
      BY <2>2, <2>4, <3>1, <3>3, <1>1
    <3>8. /\ rows[prev].val <= v
          /\ conv = "delta" => own - rows[prev].own = v - rows[prev].val
      BY <3>1, <3>3, <3>4, <3>7
    <3> HIDE DEF own, prev
    <3>9. CASE p = prev
      BY <3>7, <3>8, <3>9, <1>2
    <3>10. CASE p < prev
      <4>1. rows[p].val <= v
        BY <3>5, <3>7, <3>8, <3>10
      <4>2. conv = "delta" => own - rows[p].own = v - rows[p].val
        <5>1. SUFFICES ASSUME conv = "delta" PROVE own - rows[p].own = v - rows[p].val
          OBVIOUS
        <5>2. /\ rows[prev].own - rows[p].own = rows[prev].val - rows[p].val
              /\ own - rows[prev].own = v - rows[prev].val
              /\ own \in Int
          BY <5>1, <3>1, <3>4, <3>5, <3>7, <3>8, <3>10
        <5> QED
          BY <5>2, <3>7
      <4> QED
        BY <4>1, <4>2, <3>7, <1>2
    <3> QED
      BY <3>6, <3>9, <3>10
  <2> QED
    BY <2>1, <2>3, <2>4, <1>2
<1>11. conv' = "raw" => \A p, q \in RowsOf(Own)' : p < q =>
         rows'[p].own + rows'[q].val <= rows'[q].own
  <2>1. SUFFICES ASSUME conv = "raw", NEW p \in RowsOf(Own)',
                        NEW q \in RowsOf(Own)', p < q
                 PROVE  rows'[p].own + rows'[q].val <= rows'[q].own
    BY <1>2
  <2>2. p \in RowsOf(Own) /\ p \in 1..n
    BY <2>1, <1>1, <1>2
  <2>3. CASE q \in RowsOf(Own)
    BY <2>1, <2>2, <2>3, <1>1 DEF Totals
  <2>4. CASE q = n + 1 /\ h = Own
    <3>1. /\ prev \in RowsOf(Own) /\ p <= prev /\ prev \in 1..n
          /\ own = rows[prev].own + DeltaOf(Own, v)
      BY <2>2, <2>4, <1>1, <1>9
    <3>2. DeltaOf(Own, v) = v /\ rows'[n + 1].val = v
      BY <2>1, NewRow DEF DeltaOf
    <3>3. p < prev => rows[p].own + rows[prev].val <= rows[prev].own
      BY <2>1, <2>2, <3>1 DEF Totals
    <3> HIDE DEF own, prev
    <3>4. p = prev \/ p < prev
      BY <2>2, <3>1, <1>1
    <3> QED
      BY <3>1, <3>2, <3>3, <3>4, <2>2, <2>4, <1>1 DEF own
  <2> QED
    BY <2>1, <2>3, <2>4, <1>2
<1> QED
  BY <1>1, <1>7, <1>8, <1>10, <1>11 DEF Totals

-----------------------------------------------------------------------------
(* The file's points are rows, and it has its extremes. *)

LEMMA FromRowKept ==
  ASSUME TypeOK, Lasts, NEW h \in Hosts, NEW gap \in Gaps, NEW v \in 0..MaxVal,
         NEW shape \in Written, Scrape(h, gap, v, shape)
  PROVE  /\ \A t, w : FromRow(t, w) =>
              \E j \in RowsOf(Own)' : rows'[j].ts = t /\ rows'[j].val = w
         /\ h = Own =>
              \E j \in RowsOf(Own)' : rows'[j].ts = now' /\ rows'[j].val = v
<1>1. \A j \in RowsOf(Own) : j \in RowsOf(Own)' /\ rows'[j] = rows[j]
  BY ScrapeRows, RowFacts
<1>2. h = Own => Len(rows) + 1 \in RowsOf(Own)'
  BY ScrapeRows
<1>3. rows'[Len(rows) + 1].ts = now' /\ rows'[Len(rows) + 1].val = v
  BY NewRow
<1>4. ASSUME NEW t, NEW w, FromRow(t, w)
      PROVE  \E j \in RowsOf(Own)' : rows'[j].ts = t /\ rows'[j].val = w
  BY <1>1, <1>4 DEF FromRow
<1>5. ASSUME h = Own
      PROVE  \E j \in RowsOf(Own)' : rows'[j].ts = now' /\ rows'[j].val = v
  BY <1>2, <1>3, <1>5
<1> QED
  BY <1>4, <1>5

LEMMA ScrapeFile ==
  ASSUME TypeOK, Lasts, FileTrue, NEW h \in Hosts, NEW gap \in Gaps,
         NEW v \in 0..MaxVal, NEW shape \in Written, Scrape(h, gap, v, shape)
  PROVE  FileTrue'
<1> DEFINE p == [key |-> Key, res |-> h, ts |-> now + gap, val |-> v,
                 shape |-> shape]
<1>1. CASE h # Own
  <2>1. file' = file
    BY <1>1 DEF Scrape
  <2> QED
    BY <2>1, FromRowKept DEF FileTrue, FromRow
<1>2. CASE h = Own
  <2>1. file' = Append(file, p) /\ now' = now + gap
    BY <1>2 DEF Scrape
  <2>2. /\ file \in Seq(RawPoint) /\ p \in RawPoint
        /\ \A q \in RawPoint : IsPoint(q)
    <3>1. now + gap \in Nat /\ v \in Nat
      BY ScrapeRows
    <3> QED
      BY <1>2, <3>1, WrittenAssumption DEF TypeOK, RawPoint, IsPoint
  <2>3. p.ts = now' /\ p.val = v
    BY <2>1
  <2> HIDE DEF p
  <2>4. file' \in Seq(RawPoint) /\ file' = Grown(file, p)
    BY <2>1, <2>2, AppendIsGrown
  <2>5. ArePoints(file) /\ ArePoints(file') /\ IsPoint(p)
    BY <2>2, <2>4, SeqArePoints
  <2>6. ASSUME NEW i \in DOMAIN file'
        PROVE  \E j \in RowsOf(Own)' :
                 rows'[j].ts = file'[i].ts /\ rows'[j].val = file'[i].val
    <3>1. CASE i \in DOMAIN file
      <4>1. file'[i] = file[i] /\ FromRow(file[i].ts, file[i].val)
        BY <2>1, <2>2, <3>1 DEF FileTrue
      <4> QED
        BY <4>1, FromRowKept
    <3>2. CASE i \notin DOMAIN file
      <4>1. file'[i] = p
        BY <2>1, <2>2, <2>6, <3>2
      <4> QED
        BY <1>2, <2>3, <4>1, FromRowKept
    <3> QED
      BY <3>1, <3>2
  <2>7. ASSUME NEW since \in Nat
        PROVE  SeriesFits(SeriesOf(file', since), file', since)
    <3>1. SeriesFits(SeriesOf(file, since), file, since)
      BY DEF FileTrue
    <3>2. SeriesFits(SeriesStep(SeriesOf(file, since), p, since), file', since)
      BY <2>4, <2>5, <3>1, SeriesFitsStep
    <3>3. SeriesStep(SeriesOf(file, since), p, since) = SeriesOf(file', since)
      BY <2>5, <3>2, SeriesFitsIsSeriesOf
    <3> QED
      BY <3>2, <3>3
  <2> QED
    BY <2>6, <2>7 DEF FileTrue, FromRow
<1> QED
  BY <1>1, <1>2

LEMMA RotateFile ==
  ASSUME TypeOK, FileTrue, Rotate
  PROVE  FileTrue'
<1>1. file' = << >> /\ rows' = rows
  BY DEF Rotate
<1>2. ArePoints(<< >>) /\ DOMAIN << >> = {}
  BY DEF ArePoints
<1>3. ASSUME NEW since \in Nat
      PROVE  SeriesFits(SeriesOf(<< >>, since), << >>, since)
  <2>1. SeriesFits(<< >>, << >>, since)
    BY <1>2, SeriesFitsEmpty
  <2>2. << >> = SeriesOf(<< >>, since)
    BY <1>2, <2>1, SeriesFitsIsSeriesOf
  <2> QED
    BY <2>1, <2>2
<1> QED
  BY <1>1, <1>2, <1>3 DEF FileTrue

-----------------------------------------------------------------------------
(* Base is inductive. *)

LEMMA RowsStay ==
  ASSUME Lasts, Clock, Totals, UNCHANGED <<rows, now, conv>>
  PROVE  Lasts' /\ Clock' /\ Totals'
<1>1. Lasts'
  BY DEF Lasts
<1>2. RowsOf(Own)' = RowsOf(Own)
  BY DEF RowsOf
<1>3. Clock'
  BY <1>2 DEF Clock
<1>4. \A p, q : /\ NoneBetween(p, q)' <=> NoneBetween(p, q)
                /\ NoResetBetween(p, q)' <=> NoResetBetween(p, q)
                /\ OwnTotal(p)' = OwnTotal(p)
  BY <1>2 DEF NoneBetween, NoResetBetween, OwnTotal
<1>5. Totals'
  BY <1>2, <1>4 DEF Totals
<1> QED
  BY <1>1, <1>3, <1>5

\* A step of the world outside leaves the check's series and query as true as
\* they were.
LEMMA CheckStays ==
  ASSUME SeriesTrue, QueryTrue, UNCHANGED <<vt, checkVars>>,
         \A t, w : FromRow(t, w) =>
           \E j \in RowsOf(Own)' : rows'[j].ts = t /\ rows'[j].val = w
  PROVE  SeriesTrue' /\ QueryTrue'
<1>1. UNCHANGED <<vt, pc, series, query>>
  BY DEF checkVars
<1>2. SeriesTrue'
  BY <1>1 DEF SeriesTrue, FromRow
<1>3. QueryTrue'
  BY <1>1 DEF QueryTrue, BuildDeltaQuery, BuildLatestQuery
<1> QED
  BY <1>2, <1>3

\* A step of the check leaves the world outside as it was.
LEMMA WorldStays ==
  ASSUME Base, UNCHANGED envVars
  PROVE  /\ Lasts' /\ Clock' /\ Totals' /\ FileTrue'
         /\ UNCHANGED <<vt, conv, now, file, rows, visible>>
         /\ \A t, w : FromRow(t, w) <=>
              \E j \in RowsOf(Own)' : rows'[j].ts = t /\ rows'[j].val = w
<1>1. UNCHANGED <<vt, conv, now, file, rows, visible>>
  BY DEF envVars
<1>2. Lasts' /\ Clock' /\ Totals'
  BY <1>1, RowsStay DEF Base
<1>3. RowsOf(Own)' = RowsOf(Own)
  BY <1>1 DEF RowsOf
<1>4. FileTrue'
  BY <1>1, <1>3 DEF Base, FileTrue, FromRow
<1> QED
  BY <1>1, <1>2, <1>3, <1>4 DEF FromRow

LEMMA InitBase == Init => Base
<1> SUFFICES ASSUME Init PROVE Base
  OBVIOUS
<1>1. TypeOK
  BY DEF Init, TypeOK, NoSeries, NoQuery, NoVerdict, Statuses
<1>2. rows = << >> /\ Len(rows) = 0 /\ file = << >> /\ pc = "idle" /\ RowsOf(Own) = {}
  BY DEF Init, RowsOf
<1>3. Lasts /\ Clock
  <2>1. 1..0 = {} /\ SUBSET {} = {{}}
    OBVIOUS
  <2>2. Lasts
    BY <1>2, <2>1 DEF Lasts, HasLast
  <2>3. Clock
    BY <1>2, <2>1 DEF Clock
  <2> QED
    BY <2>2, <2>3
<1>4. Totals
  <2>1. \A p, q \in 0..0 : p = 0 /\ q = 0
    OBVIOUS
  <2> QED
    BY <1>2, <2>1 DEF Totals
<1>5. FileTrue
  <2>1. ArePoints(<< >>) /\ DOMAIN << >> = {}
    BY DEF ArePoints
  <2>2. ASSUME NEW since \in Nat
        PROVE  SeriesFits(SeriesOf(<< >>, since), << >>, since)
    <3>1. SeriesFits(<< >>, << >>, since)
      BY <2>1, SeriesFitsEmpty
    <3>2. << >> = SeriesOf(<< >>, since)
      BY <2>1, <3>1, SeriesFitsIsSeriesOf
    <3> QED
      BY <3>1, <3>2
  <2> QED
    BY <1>2, <2>1, <2>2 DEF FileTrue
<1>6. SeriesTrue /\ QueryTrue
  BY <1>2 DEF SeriesTrue, QueryTrue
<1> QED
  BY <1>1, <1>3, <1>4, <1>5, <1>6 DEF Base

LEMMA StepBase == Base /\ [Next]_vars => Base'
<1> SUFFICES ASSUME Base, [Next]_vars PROVE Base'
  OBVIOUS
<1>0. TypeOK'
  BY StepType DEF Base
<1>1. ASSUME NEW h \in Hosts, NEW gap \in Gaps, NEW v \in 0..MaxVal,
             NEW shape \in Written, Scrape(h, gap, v, shape)
      PROVE  Base'
  <2>1. Lasts' /\ Clock' /\ Totals' /\ FileTrue'
    BY <1>1, ScrapeLasts, ScrapeClock, ScrapeTotals, ScrapeFile DEF Base
  <2>2. SeriesTrue' /\ QueryTrue'
    BY <1>1, FromRowKept, CheckStays DEF Base, Scrape
  <2> QED
    BY <1>0, <2>1, <2>2 DEF Base
<1>2. ASSUME Rotate \/ Land PROVE Base'
  <2>1. UNCHANGED <<vt, conv, now, rows, checkVars>>
    BY <1>2 DEF Rotate, Land
  <2>2. Lasts' /\ Clock' /\ Totals'
    BY <2>1, RowsStay DEF Base
  <2>3. RowsOf(Own)' = RowsOf(Own)
    BY <2>1 DEF RowsOf
  <2>4. SeriesTrue' /\ QueryTrue'
    BY <2>1, <2>3, CheckStays DEF Base, FromRow
  <2>5. FileTrue'
    <3>1. CASE Rotate
      BY <3>1, RotateFile DEF Base
    <3>2. CASE Land
      BY <3>2, <2>3 DEF Land, Base, FileTrue, FromRow
    <3> QED
      BY <1>2, <3>1, <3>2
  <2> QED
    BY <1>0, <2>2, <2>4, <2>5 DEF Base
<1>3. ASSUME NEW since \in Sinces, ReadSeries(since) PROVE Base'
  <2>1. since \in Nat /\ Key \in KeysOf(file, since) /\ UNCHANGED envVars
    BY <1>3, SinceNat DEF ReadSeries, Base
  <2>2. /\ series'.firstTS <= series'.lastTS
        /\ FromRow(series'.firstTS, series'.firstVal)
        /\ FromRow(series'.lastTS, series'.lastVal)
    BY <1>3, <2>1, FoundSeries DEF ReadSeries, Base
  <2>3. SeriesTrue'
    BY <2>1, <2>2, WorldStays DEF SeriesTrue, FromRow
  <2>4. QueryTrue'
    BY <1>3 DEF ReadSeries, QueryTrue
  <2> QED
    BY <1>0, <2>1, <2>3, <2>4, WorldStays DEF Base
<1>4. ASSUME Ask PROVE Base'
  <2>1. UNCHANGED <<series, vt>> /\ UNCHANGED envVars /\ pc # "idle"
    BY <1>4 DEF Ask, envVars
  <2>2. SeriesTrue'
    BY <2>1, WorldStays DEF SeriesTrue, FromRow, Base
  <2>3. ToMS(series.firstTS) \in Nat /\ ToMS(series.lastTS) \in Nat
    BY <1>4, DivBounds DEF Ask, Base, TypeOK, SeriesRecord
  <2>4. QueryTrue'
    BY <1>4, <2>1, <2>3
       DEF Ask, QueryTrue, Unmapped, TooFewPoints, BuildDeltaQuery, BuildLatestQuery
  <2> QED
    BY <1>0, <2>1, <2>2, <2>4, WorldStays DEF Base
<1>5. ASSUME Skip \/ AnswerValue \/ AnswerNull \/ AnswerEmpty \/ AnswerError
      PROVE  Base'
  <2>1. UNCHANGED series /\ UNCHANGED envVars /\ pc # "idle" /\ pc' = "judged"
    BY <1>5 DEF Skip, AnswerValue, AnswerNull, AnswerEmpty, AnswerError, Judge
  <2>2. SeriesTrue' /\ QueryTrue'
    BY <2>1, WorldStays DEF SeriesTrue, QueryTrue, FromRow, Base
  <2> QED
    BY <1>0, <2>1, <2>2, WorldStays DEF Base
<1>6. ASSUME NextCycle PROVE Base'
  <2>1. UNCHANGED envVars /\ pc' = "idle"
    BY <1>6 DEF NextCycle
  <2>2. SeriesTrue' /\ QueryTrue'
    BY <2>1 DEF SeriesTrue, QueryTrue
  <2> QED
    BY <1>0, <2>1, <2>2, WorldStays DEF Base
<1>7. ASSUME UNCHANGED vars PROVE Base'
  <2>1. UNCHANGED envVars /\ UNCHANGED <<vt, checkVars>>
    BY <1>7 DEF vars, envVars
  <2>2. SeriesTrue' /\ QueryTrue'
    BY <2>1, WorldStays, CheckStays DEF Base
  <2> QED
    BY <1>0, <2>1, <2>2, WorldStays DEF Base
<1> QED
  BY <1>1, <1>2, <1>3, <1>4, <1>5, <1>6, <1>7 DEF Next, Collector, NewRelic, Check

-----------------------------------------------------------------------------
(* Windows. *)

\* Own rows in the order of their timestamps, further apart than a millisecond.
LEMMA OwnOrder ==
  ASSUME Base, NEW i \in RowsOf(Own), NEW j \in RowsOf(Own)
  PROVE  /\ rows[i].ts \in Nat /\ rows[j].ts \in Nat
         /\ i \in 1..Len(rows) /\ j \in 1..Len(rows)
         /\ ToMS(rows[i].ts) \in Nat /\ ToMS(rows[j].ts) \in Nat
         /\ i < j <=> rows[i].ts < rows[j].ts
         /\ i = j <=> rows[i].ts = rows[j].ts
         /\ rows[i].ts < rows[j].ts =>
              ToMS(rows[i].ts) + GaugeSlackMs <= ToMS(rows[j].ts)
         /\ rows[i].ts <= rows[j].ts <=> ToMS(rows[i].ts) <= ToMS(rows[j].ts)
<1>1. /\ i \in 1..Len(rows) /\ j \in 1..Len(rows) /\ Len(rows) \in Nat
      /\ rows[i].ts \in Nat /\ rows[j].ts \in Nat
  BY RowFacts DEF Base, Row
<1>2. ToMS(rows[i].ts) \in Nat /\ ToMS(rows[j].ts) \in Nat
  BY <1>1, DivBounds
<1>3. /\ i < j => rows[i].ts + ScrapeNs <= rows[j].ts
      /\ j < i => rows[j].ts + ScrapeNs <= rows[i].ts
  BY DEF Base, Clock
<1>4. /\ i < j <=> rows[i].ts < rows[j].ts
      /\ j < i <=> rows[j].ts < rows[i].ts
  <2>1. ScrapeNs \in Nat /\ ScrapeNs >= 1
    BY Bounds
  <2>2. /\ i < j => rows[i].ts < rows[j].ts
        /\ j < i => rows[j].ts < rows[i].ts
    BY <1>1, <1>3, <2>1
  <2>3. /\ i \in Int /\ j \in Int
        /\ i = j => rows[i].ts = rows[j].ts
    BY <1>1
  <2> QED
    BY <1>1, <2>2, <2>3
<1>5. i = j <=> rows[i].ts = rows[j].ts
  BY <1>1, <1>4
<1>6. \A a, b \in Nat : a + ScrapeNs <= b => a + GaugeSlackMs * NsPerMs <= b
  BY Bounds, ScrapeAssumption
<1>7. /\ rows[i].ts < rows[j].ts =>
           ToMS(rows[i].ts) + GaugeSlackMs <= ToMS(rows[j].ts)
      /\ rows[j].ts < rows[i].ts =>
           ToMS(rows[j].ts) + GaugeSlackMs <= ToMS(rows[i].ts)
  BY <1>1, <1>3, <1>4, <1>6, MsFar, Bounds
<1>8. rows[i].ts <= rows[j].ts => ToMS(rows[i].ts) <= ToMS(rows[j].ts)
  BY <1>1, MsMono
<1>9. ToMS(rows[i].ts) <= ToMS(rows[j].ts) => rows[i].ts <= rows[j].ts
  BY <1>1, <1>2, <1>7, Bounds
<1> QED
  BY <1>1, <1>2, <1>4, <1>5, <1>7, <1>8, <1>9

\* The rows of the series' endpoints.
Endpoints(a, b) ==
  /\ a \in RowsOf(Own) /\ rows[a].ts = series.firstTS /\ rows[a].val = series.firstVal
  /\ b \in RowsOf(Own) /\ rows[b].ts = series.lastTS /\ rows[b].val = series.lastVal

LEMMA EndpointsExist ==
  ASSUME Base, pc # "idle"
  PROVE  \E a, b : Endpoints(a, b)
BY DEF Base, SeriesTrue, FromRow, Endpoints

\* Under ScopeIsOwn the WHERE clause selects Own's rows.
LEMMA ScopedRows ==
  ASSUME Base, ScopeIsOwn
  PROVE  \A i \in 1..Len(rows) : InScope(i) <=> i \in RowsOf(Own)
<1>1. \A i \in 1..Len(rows) : rows[i].host \in Hosts /\ i \in DOMAIN rows
  BY RowFacts DEF Base, Row
<1> QED
  BY <1>1 DEF ScopeIsOwn, InScope, FiltersHost, RowsOf, Hosts

\* The rows the two queries of a series select.
LEMMA WindowIs ==
  ASSUME Base, pc = "asked", ScopeIsOwn, NEW a, NEW b, Endpoints(a, b)
  PROVE  /\ vt = "sum" =>
              Matching = {i \in RowsOf(Own) : a < i /\ i <= b /\ i <= visible}
         /\ vt # "sum" =>
              Matching = {i \in RowsOf(Own) : a <= i /\ i <= b /\ i <= visible}
<1>1. /\ a \in RowsOf(Own) /\ b \in RowsOf(Own)
      /\ series.firstTS = rows[a].ts /\ series.lastTS = rows[b].ts
  BY DEF Endpoints
<1>2. /\ visible \in 0..Len(rows) /\ Len(rows) \in Nat
      /\ RowsOf(Own) \subseteq 1..Len(rows)
  BY RowFacts DEF Base, TypeOK
<1>3. Matching = {i \in RowsOf(Own) :
                   /\ i <= visible
                   /\ ToMS(rows[i].ts) < query.until
                   /\ ToMS(rows[i].ts) >= query.since}
  BY <1>2, ScopedRows DEF Matching, WindowRows, Before
<1>4. ASSUME vt = "sum"
      PROVE  Matching = {i \in RowsOf(Own) : a < i /\ i <= b /\ i <= visible}
  <2>1. /\ query.since = ToMS(rows[a].ts) + 1
        /\ query.until = ToMS(rows[b].ts) + 1
    BY <1>1, <1>4 DEF Base, QueryTrue, BuildDeltaQuery
  <2>2. ASSUME NEW i \in RowsOf(Own)
        PROVE  /\ ToMS(rows[i].ts) >= query.since <=> a < i
               /\ ToMS(rows[i].ts) < query.until <=> i <= b
    BY <1>1, <2>1, OwnOrder
  <2> QED
    BY <1>3, <2>2
<1>5. ASSUME vt # "sum"
      PROVE  Matching = {i \in RowsOf(Own) : a <= i /\ i <= b /\ i <= visible}
  <2>1. /\ query.since = ToMS(rows[a].ts)
        /\ query.until = ToMS(rows[b].ts) + GaugeSlackMs
    BY <1>1, <1>5 DEF Base, QueryTrue, BuildLatestQuery
  <2>2. ASSUME NEW i \in RowsOf(Own)
        PROVE  /\ ToMS(rows[i].ts) >= query.since <=> a <= i
               /\ ToMS(rows[i].ts) < query.until <=> i <= b
    BY <1>1, <2>1, OwnOrder, Bounds
  <2> QED
    BY <1>3, <2>2
<1> QED
  BY <1>4, <1>5

\* Interval, in positions instead of times.
LEMMA IntervalIs ==
  ASSUME Base, NEW a, NEW b, Endpoints(a, b)
  PROVE  Interval = {i \in RowsOf(Own) : a < i /\ i <= b}
<1>1. /\ a \in RowsOf(Own) /\ b \in RowsOf(Own)
      /\ series.firstTS = rows[a].ts /\ series.lastTS = rows[b].ts
  BY DEF Endpoints
<1>2. ASSUME NEW i \in RowsOf(Own)
      PROVE  /\ rows[a].ts < rows[i].ts <=> a < i
             /\ rows[i].ts <= rows[b].ts <=> i <= b
  BY <1>1, OwnOrder
<1> QED
  BY <1>1, <1>2 DEF Interval

LEMMA BaseWindowExact == Base => WindowExact
<1> SUFFICES ASSUME Base, pc = "asked", vt = "sum", ScopeIsOwn
             PROVE  Matching = Interval \cap 1..visible
  BY DEF WindowExact
<1>1. PICK a, b : Endpoints(a, b)
  BY EndpointsExist
<1>2. /\ Matching = {i \in RowsOf(Own) : a < i /\ i <= b /\ i <= visible}
      /\ Interval = {i \in RowsOf(Own) : a < i /\ i <= b}
  BY <1>1, WindowIs, IntervalIs
<1>3. /\ RowsOf(Own) \subseteq 1..Len(rows) /\ Len(rows) \in Nat
      /\ visible \in 0..Len(rows)
  BY RowFacts DEF Base, TypeOK
<1> QED
  BY <1>2, <1>3

\* The rows before the millisecond after an own row end with that row's total.
LEMMA TotalBefore ==
  ASSUME Base, NEW a \in RowsOf(Own), a <= visible
  PROVE  OwnTotal(LastIn(Before(ToMS(rows[a].ts) + 1))) = rows[a].own
<1> DEFINE ms == ToMS(rows[a].ts) + 1
           i  == LastIn(Before(ms))
<1>1. /\ RowsOf(Own) \subseteq 1..Len(rows) /\ Len(rows) \in Nat
      /\ visible \in 0..Len(rows)
      /\ \A k \in 1..Len(rows) : rows[k].ts \in Nat
  BY RowFacts DEF Base, TypeOK, Row
<1>2. ToMS(rows[a].ts) \in Nat
  BY OwnOrder
<1>3. a \in Before(ms)
  BY <1>1, <1>2 DEF Before
<1>4. /\ i \in Before(ms) /\ a <= i /\ i \in 1..Len(rows)
      /\ ToMS(rows[i].ts) < ms
  <2>1. /\ i \in Before(ms) /\ a <= i /\ Before(ms) \subseteq 1..visible
    BY <1>3, BeforeFacts DEF Base
  <2> QED
    BY <2>1, <1>1 DEF Before
<1> HIDE DEF i
<1>5. NoneBetween(a, i)
  <2>1. SUFFICES ASSUME NEW k \in RowsOf(Own), a < k, k <= i PROVE FALSE
    BY DEF NoneBetween
  <2>2. rows[k].ts <= rows[i].ts
    BY <2>1, <1>1, <1>4 DEF Base, Clock
  <2>3. ToMS(rows[k].ts) <= ToMS(rows[i].ts) /\ ToMS(rows[i].ts) \in Nat
    BY <2>2, <1>1, <1>4, MsMono, DivBounds
  <2>4. ToMS(rows[k].ts) <= ToMS(rows[a].ts)
    BY <2>3, <1>2, <1>4, OwnOrder
  <2> QED
    BY <2>1, <2>4, OwnOrder
<1>6. OwnTotal(i) = OwnTotal(a)
  BY <1>1, <1>4, <1>5 DEF Base, Totals
<1> QED
  BY <1>1, <1>6 DEF OwnTotal, i

\* The sum is over Own's rows, whether by the filter or for lack of others.
LEMMA WindowSumIsOwn ==
  ASSUME Base, ScopeIsOwn, NEW since, NEW until
  PROVE  WindowSum(since, until) =
           OwnTotal(LastIn(Before(until))) - OwnTotal(LastIn(Before(since)))
<1>1. /\ LastIn(Before(since)) \in 0..Len(rows)
      /\ LastIn(Before(until)) \in 0..Len(rows)
      /\ Len(rows) \in Nat
  BY BeforeFacts DEF Base
<1>2. CASE Scoped
  BY <1>2 DEF WindowSum, FiltersHost
<1>3. CASE Others = {}
  <2>1. \A q \in 0..Len(rows) : AllTotal(q) = OwnTotal(q)
    BY <1>1, <1>3 DEF Base, Totals, AllTotal, OwnTotal
  <2> QED
    BY <1>1, <2>1 DEF WindowSum
<1> QED
  BY <1>2, <1>3 DEF ScopeIsOwn

\* What New Relic answers for a counter: the increase of the totals over the
\* whole window, or nothing at all.
LEMMA SumAnswer ==
  ASSUME Base, pc = "asked", vt = "sum", ScopeIsOwn, NEW a, NEW b, Endpoints(a, b)
  PROVE  /\ a < b
         /\ b <= visible => Answer = rows[b].own - rows[a].own /\ b \in Matching
         /\ Matching = {} => Answer = 0
<1>1. /\ a \in RowsOf(Own) /\ b \in RowsOf(Own)
      /\ series.firstTS = rows[a].ts /\ series.lastTS = rows[b].ts
  BY DEF Endpoints
<1>2. /\ query.fn = "sum"
      /\ query.since = ToMS(rows[a].ts) + 1
      /\ query.until = ToMS(rows[b].ts) + 1
      /\ ToMS(rows[a].ts) < ToMS(rows[b].ts)
  BY <1>1 DEF Base, QueryTrue, BuildDeltaQuery
<1> DEFINE i == LastIn(Before(query.since))
           j == LastIn(Before(query.until))
<1>3. Answer = OwnTotal(j) - OwnTotal(i)
  BY <1>2, WindowSumIsOwn DEF Answer
<1>4. a < b
  BY <1>1, <1>2, OwnOrder
<1>5. /\ RowsOf(Own) \subseteq 1..Len(rows) /\ Len(rows) \in Nat
      /\ visible \in 0..Len(rows)
      /\ \A k \in 1..Len(rows) : rows[k].ts \in Nat
  BY RowFacts DEF Base, TypeOK, Row
<1>6. Matching = {k \in RowsOf(Own) : a < k /\ k <= b /\ k <= visible}
  BY WindowIs
<1>7. ASSUME b <= visible
      PROVE  Answer = rows[b].own - rows[a].own /\ b \in Matching
  <2>1. a <= visible
    BY <1>1, <1>4, <1>5, <1>7
  <2>2. OwnTotal(i) = rows[a].own /\ OwnTotal(j) = rows[b].own
    BY <2>1, <1>1, <1>2, <1>7, TotalBefore
  <2> QED
    BY <2>2, <1>1, <1>3, <1>4, <1>5, <1>6, <1>7
<1>8. ASSUME Matching = {}
      PROVE  Answer = 0
  <2>1. Before(query.since) \subseteq Before(query.until)
    <3>1. ToMS(rows[a].ts) \in Nat /\ ToMS(rows[b].ts) \in Nat
      BY <1>1, OwnOrder
    <3>2. \A k \in 1..visible : rows[k].ts \in Nat
      BY <1>5
    <3>3. \A k \in 1..visible : ToMS(rows[k].ts) \in Nat
      BY <3>2, DivBounds
    <3> QED
      BY <3>1, <3>3, <1>2 DEF Before
  <2>2. /\ i \in 0..Len(rows) /\ j \in 0..Len(rows) /\ i <= j
        /\ \A k \in Before(query.since) : k <= i
        /\ j # 0 => j \in Before(query.until)
    <3>1. /\ i \in 0..Len(rows) /\ j \in 0..Len(rows)
          /\ \A k \in Before(query.since) : k <= i
          /\ \A k \in Before(query.until) : k <= j
          /\ i # 0 => i \in Before(query.since)
          /\ j # 0 => j \in Before(query.until)
      BY BeforeFacts DEF Base
    <3> QED
      BY <3>1, <2>1
  <2> HIDE DEF i, j
  <2>3. NoneBetween(i, j)
    <3>1. SUFFICES ASSUME NEW k \in RowsOf(Own), i < k, k <= j PROVE FALSE
      BY DEF NoneBetween
    <3>2. j \in Before(query.until) /\ j \in 1..visible /\ k \in 1..visible
      BY <3>1, <2>2, <1>5 DEF Before
    <3>3. ToMS(rows[k].ts) <= ToMS(rows[j].ts) /\ ToMS(rows[j].ts) \in Nat
      <4>1. rows[k].ts <= rows[j].ts
        BY <3>1, <3>2, <1>5 DEF Base, Clock
      <4>2. rows[k].ts \in Nat /\ rows[j].ts \in Nat
        BY <3>2, <1>5
      <4> QED
        BY <4>1, <4>2, MsMono, DivBounds
    <3>4. ToMS(rows[k].ts) < query.until
      BY <3>2, <3>3, <1>1, <1>2, OwnOrder DEF Before
    <3>5. ~(ToMS(rows[k].ts) < query.since)
      BY <3>1, <3>2, <2>2, <1>5 DEF Before
    <3>6. k <= b /\ a < k
      BY <3>4, <3>5, <1>1, <1>2, OwnOrder
    <3> QED
      BY <3>2, <3>6, <1>6, <1>8
  <2>4. OwnTotal(j) = OwnTotal(i) /\ OwnTotal(j) \in Nat
    BY <2>2, <2>3, TotalsType DEF Base, Totals
  <2> QED
    BY <2>4, <1>3 DEF i, j
<1> QED
  BY <1>4, <1>7, <1>8

\* What it answers for a gauge whose last point it has.
LEMMA LatestAnswer ==
  ASSUME Base, pc = "asked", vt # "sum", ScopeIsOwn, NEW a, NEW b,
         Endpoints(a, b), b <= visible
  PROVE  Answer = rows[b].val /\ b \in Matching
<1>1. /\ a \in RowsOf(Own) /\ b \in RowsOf(Own)
      /\ rows[a].ts <= rows[b].ts
  BY DEF Endpoints, Base, SeriesTrue
<1>2. a <= b /\ b \in Nat
  BY <1>1, OwnOrder
<1>3. Matching = {i \in RowsOf(Own) : a <= i /\ i <= b /\ i <= visible}
  BY WindowIs
<1>4. b \in Matching /\ \A i \in Matching : i <= b
  BY <1>1, <1>2, <1>3
<1>5. Matching \subseteq Nat
  BY <1>3, RowFacts DEF Base
<1>6. LastIn(Matching) = b
  BY <1>4, <1>5, LastInUnique
<1>7. query.fn # "sum"
  BY DEF Base, QueryTrue, BuildLatestQuery
<1> QED
  BY <1>4, <1>6, <1>7 DEF Answer

-----------------------------------------------------------------------------
(* Tolerances. *)

\* Equal numbers agree,
LEMMA EqualPasses ==
  ASSUME NEW n \in Int, NEW kind
  PROVE  WithinTolerance(n, n, kind)
<1> DEFINE tol == IF kind = "sum" THEN TolCounter ELSE TolGauge
<1>1. tol \in Nat /\ AbsEpsilon \in Nat
  BY ToleranceAssumption
<1>2. Abs(n - n) = 0 /\ Abs(n) \in Nat
  BY DEF Abs
<1>3. tol * Abs(n) \in Nat
  BY <1>1, <1>2, ProductMono
<1>4. 100 * Abs(n - n) <= tol * Abs(n) /\ Abs(n - n) <= AbsEpsilon
  BY <1>1, <1>2, <1>3
<1> QED
  BY <1>4 DEF WithinTolerance

\* a number that is not near zero does not agree with zero,
LEMMA NothingFails ==
  ASSUME NEW n \in Int, NEW kind, Abs(n) > AbsEpsilon,
         TolCounter < 100, TolGauge < 100
  PROVE  ~WithinTolerance(n, 0, kind)
<1> DEFINE tol == IF kind = "sum" THEN TolCounter ELSE TolGauge
<1>1. tol \in Nat /\ tol <= 99 /\ AbsEpsilon \in Nat
  BY ToleranceAssumption
<1>2. Abs(0 - n) = Abs(n) /\ Abs(n) \in Nat /\ Abs(n) >= 1
  BY <1>1 DEF Abs
<1> DEFINE m == Abs(n)
<1>3. m * tol <= m * 99
  BY <1>1, <1>2, ProductMono
<1> HIDE DEF m, tol
<1>4. m * tol = tol * m /\ m * 99 < 100 * m
  BY <1>1, <1>2 DEF m
<1>5. ~(100 * m <= tol * m)
  BY <1>1, <1>2, <1>3, <1>4 DEF m
<1>6. WithinTolerance(n, 0, kind) => 100 * Abs(0 - n) <= tol * Abs(n)
  BY <1>1, <1>2 DEF WithinTolerance, m, tol
<1> QED
  BY <1>2, <1>5, <1>6 DEF m

\* nor one with another that exceeds it by more than the tolerance.
LEMMA ExcessFails ==
  ASSUME NEW n \in Nat, NEW first \in Nat, NEW actual \in Int,
         n + first <= actual, first > AbsEpsilon, 100 * first > TolCounter * n
  PROVE  ~WithinTolerance(n, actual, "sum")
<1>1. TolCounter \in Nat /\ AbsEpsilon \in Nat
  BY ToleranceAssumption
<1>2. Abs(n) = n /\ Abs(actual - n) = actual - n
  BY DEF Abs
<1>3. TolCounter * n \in Nat
  BY <1>1, ProductMono
<1>4. actual - n > AbsEpsilon /\ 100 * (actual - n) > TolCounter * n
  BY <1>1, <1>3
<1> QED
  BY <1>1, <1>2, <1>3, <1>4 DEF WithinTolerance

-----------------------------------------------------------------------------
(* Verdicts. *)

Answered == AnswerValue \/ AnswerNull \/ AnswerEmpty \/ AnswerError

\* What a step to a verdict leaves as it was, and what it says.
LEMMA Verdicts ==
  ASSUME Base, Skip \/ Answered
  PROVE  /\ UNCHANGED <<vt, conv, rows, series>>
         /\ RowsOf(Own)' = RowsOf(Own) /\ (NoReset' <=> NoReset)
         /\ pc # "idle" /\ verdict'.seen = visible /\ verdict'.expected = Expected
         /\ Landed' => \A b \in RowsOf(Own) :
                         rows[b].ts <= series.lastTS => b <= visible
         /\ Skip => verdict'.status = "INGEST_SKIPPED" /\ vt \in {"sum", "unmapped"}
         /\ Answered => pc = "asked"
         /\ AnswerValue =>
              /\ query.fn = "latest" => Matching # {}
              /\ verdict'.status = Compared(Answer) /\ verdict'.actual = Answer
         /\ AnswerNull =>
              Matching = {} /\ verdict'.status = Compared(0) /\ verdict'.actual = 0
         /\ AnswerEmpty => Matching = {} /\ verdict'.status = "INGEST_NO_DATA"
         /\ AnswerError => verdict'.status = "INGEST_ERROR"
<1>1. UNCHANGED <<vt, conv, rows, series, visible>> /\ pc # "idle"
  BY DEF Answered, Skip, AnswerValue, AnswerNull, AnswerEmpty, AnswerError, envVars
<1>2. verdict'.seen = visible /\ verdict'.expected = Expected
  BY DEF Answered, Skip, AnswerValue, AnswerNull, AnswerEmpty, AnswerError, Judge
<1>3. RowsOf(Own)' = RowsOf(Own)
  BY <1>1 DEF RowsOf
<1>4. NoReset' <=> NoReset
  BY <1>1, <1>3 DEF NoReset, Interval
<1>5. Landed' => \A b \in RowsOf(Own) : rows[b].ts <= series.lastTS => b <= visible
  BY <1>1, <1>2, <1>3 DEF Landed
<1>6. Skip => verdict'.status = "INGEST_SKIPPED" /\ vt \in {"sum", "unmapped"}
  BY DEF Skip, Judge, Unmapped, TooFewPoints
<1>7. /\ Answered => pc = "asked"
      /\ AnswerValue =>
           /\ query.fn = "latest" => Matching # {}
           /\ verdict'.status = Compared(Answer) /\ verdict'.actual = Answer
      /\ AnswerNull =>
           Matching = {} /\ verdict'.status = Compared(0) /\ verdict'.actual = 0
      /\ AnswerEmpty => Matching = {} /\ verdict'.status = "INGEST_NO_DATA"
      /\ AnswerError => verdict'.status = "INGEST_ERROR"
  BY DEF Answered, AnswerValue, AnswerNull, AnswerEmpty, AnswerError, Judge, NullScalar
<1> QED
  BY <1>1, <1>2, <1>3, <1>4, <1>5, <1>6, <1>7

LEMMA VerdictTelescopes ==
  ASSUME Base, Skip \/ Answered
  PROVE  CounterTelescopes'
<1> SUFFICES ASSUME vt = "sum",
                    verdict'.status \notin {"INGEST_SKIPPED", "INGEST_ERROR"},
                    conv = "delta", ScopeIsOwn, NoReset, Landed'
             PROVE  verdict'.status = "INGEST_OK" /\ verdict'.actual = verdict'.expected
  BY Verdicts DEF CounterTelescopes, ScopeIsOwn
<1>1. pc = "asked" /\ (AnswerValue \/ Matching = {})
  BY Verdicts DEF Answered
<1>2. PICK a, b : Endpoints(a, b)
  BY <1>1, EndpointsExist
<1>3. /\ a \in RowsOf(Own) /\ b \in RowsOf(Own)
      /\ rows[a].val = series.firstVal /\ rows[b].val = series.lastVal
      /\ rows[b].ts = series.lastTS
  BY <1>2 DEF Endpoints
<1>4. rows[b].ts <= series.lastTS
  BY <1>3, OwnOrder
<1>5. b <= visible
  BY <1>3, <1>4, Verdicts
<1>6. a < b /\ Answer = rows[b].own - rows[a].own /\ b \in Matching
  BY <1>1, <1>2, <1>5, SumAnswer
<1>7. NoResetBetween(a, b)
  BY <1>2, IntervalIs DEF NoReset, NoResetBetween
<1>8. rows[b].own - rows[a].own = rows[b].val - rows[a].val
  BY <1>3, <1>6, <1>7 DEF Base, Totals
<1>9. Answer = Expected /\ Expected \in Int
  BY <1>1, <1>3, <1>6, <1>8, ExpectedType DEF Expected, Base, TypeOK
<1>10. Compared(Answer) = "INGEST_OK"
  BY <1>9, EqualPasses DEF Compared
<1> QED
  BY <1>1, <1>6, <1>9, <1>10, Verdicts

LEMMA VerdictLatest ==
  ASSUME Base, Skip \/ Answered
  PROVE  GaugeIsLatest'
<1> SUFFICES ASSUME vt = "gauge", verdict'.status # "INGEST_ERROR",
                    ScopeIsOwn, Landed'
             PROVE  verdict'.status = "INGEST_OK" /\ verdict'.actual = verdict'.expected
  BY Verdicts DEF GaugeIsLatest, ScopeIsOwn
<1>1. pc = "asked" /\ (AnswerValue \/ Matching = {})
  BY Verdicts DEF Answered
<1>2. PICK a, b : Endpoints(a, b)
  BY <1>1, EndpointsExist
<1>3. /\ b \in RowsOf(Own) /\ rows[b].val = series.lastVal
      /\ rows[b].ts = series.lastTS
  BY <1>2 DEF Endpoints
<1>4. rows[b].ts <= series.lastTS
  BY <1>3, OwnOrder
<1>5. b <= visible
  BY <1>3, <1>4, Verdicts
<1>6. Answer = rows[b].val /\ b \in Matching
  BY <1>1, <1>2, <1>5, LatestAnswer
<1>7. Answer = Expected /\ Expected \in Int
  BY <1>1, <1>3, <1>6, ExpectedType DEF Expected, Base, TypeOK
<1>8. Compared(Answer) = "INGEST_OK"
  BY <1>7, EqualPasses DEF Compared
<1> QED
  BY <1>1, <1>6, <1>7, <1>8, Verdicts

LEMMA VerdictRaw ==
  ASSUME Base, Skip \/ Answered
  PROVE  RawCounterIsCaught'
<1> SUFFICES ASSUME vt = "sum",
                    verdict'.status \notin {"INGEST_SKIPPED", "INGEST_ERROR"},
                    conv = "raw", ScopeIsOwn, NoReset, Landed',
                    series.firstVal > AbsEpsilon,
                    100 * series.firstVal > TolCounter * Expected
             PROVE  verdict'.status = "INGEST_MISMATCH"
  BY Verdicts DEF RawCounterIsCaught, ScopeIsOwn
<1>1. pc = "asked" /\ (AnswerValue \/ Matching = {})
  BY Verdicts DEF Answered
<1>2. PICK a, b : Endpoints(a, b)
  BY <1>1, EndpointsExist
<1>3. /\ a \in RowsOf(Own) /\ b \in RowsOf(Own)
      /\ rows[a].val = series.firstVal /\ rows[b].val = series.lastVal
      /\ rows[b].ts = series.lastTS
  BY <1>2 DEF Endpoints
<1>4. rows[b].ts <= series.lastTS
  BY <1>3, OwnOrder
<1>5. b <= visible
  BY <1>3, <1>4, Verdicts
<1>6. a < b /\ Answer = rows[b].own - rows[a].own /\ b \in Matching
  BY <1>1, <1>2, <1>5, SumAnswer
<1>7. NoResetBetween(a, b)
  BY <1>2, IntervalIs DEF NoReset, NoResetBetween
<1>8. /\ rows[a].val <= rows[b].val
      /\ rows[a].own + rows[b].val <= rows[b].own
  BY <1>3, <1>6, <1>7 DEF Base, Totals
<1>9. /\ rows[a].val \in Nat /\ rows[b].val \in Nat
      /\ rows[a].own \in Nat /\ rows[b].own \in Nat
  BY <1>3, RowFacts DEF Base, Row
<1>10. Expected = rows[b].val - rows[a].val
  BY <1>3 DEF Expected
<1>11. /\ Expected \in Nat /\ series.firstVal \in Nat /\ Answer \in Int
       /\ Expected + series.firstVal <= Answer
  BY <1>3, <1>6, <1>8, <1>9, <1>10
<1>12. ~WithinTolerance(Expected, Answer, "sum")
  BY <1>11, ExcessFails
<1>13. Compared(Answer) = "INGEST_MISMATCH"
  BY <1>12 DEF Compared
<1> QED
  BY <1>1, <1>6, <1>13, Verdicts

LEMMA VerdictHasEvidence ==
  ASSUME Base, Skip \/ Answered
  PROVE  OkHasEvidence'
<1> SUFFICES ASSUME verdict'.status = "INGEST_OK", ScopeIsOwn,
                    Abs(Expected) > AbsEpsilon, TolCounter < 100, TolGauge < 100
             PROVE  \E i \in RowsOf(Own) :
                      /\ i <= visible
                      /\ series.firstTS <= rows[i].ts /\ rows[i].ts <= series.lastTS
                      /\ vt = "sum" => series.firstTS < rows[i].ts
  BY Verdicts DEF OkHasEvidence, ScopeIsOwn
<1>1. /\ pc = "asked"
      /\ \/ /\ Compared(Answer) = "INGEST_OK"
            /\ query.fn = "latest" => Matching # {}
         \/ Compared(0) = "INGEST_OK"
  BY Verdicts DEF Answered
<1>2. Expected \in Int
  BY <1>1, ExpectedType DEF Base, TypeOK
<1>3. Compared(0) # "INGEST_OK"
  BY <1>2, NothingFails DEF Compared
<1>4. PICK a, b : Endpoints(a, b)
  BY <1>1, EndpointsExist
<1>5. Matching # {}
  <2>1. CASE vt = "sum"
    BY <2>1, <1>1, <1>3, <1>4, SumAnswer
  <2>2. CASE vt # "sum"
    BY <2>2, <1>1, <1>3, AskedQuery DEF Base
  <2> QED
    BY <2>1, <2>2
<1>6. PICK i : i \in Matching
  BY <1>5
<1>7. /\ i \in RowsOf(Own) /\ i <= visible /\ i <= b /\ a <= i
      /\ vt = "sum" => a < i
  <2>1. a \in RowsOf(Own) /\ a \in Nat
    BY <1>4, RowFacts DEF Endpoints, Base
  <2>2. CASE vt = "sum"
    <3>1. i \in RowsOf(Own) /\ i <= visible /\ i <= b /\ a < i
      BY <2>2, <1>1, <1>4, <1>6, WindowIs
    <3>2. i \in Nat
      BY <3>1, RowFacts DEF Base
    <3> QED
      BY <3>1, <3>2, <2>1
  <2>3. CASE vt # "sum"
    BY <2>3, <1>1, <1>4, <1>6, WindowIs
  <2> QED
    BY <2>2, <2>3
<1>8. /\ a \in RowsOf(Own) /\ b \in RowsOf(Own)
      /\ series.firstTS = rows[a].ts /\ series.lastTS = rows[b].ts
  BY <1>4 DEF Endpoints
<1>9. /\ rows[a].ts <= rows[i].ts /\ rows[i].ts <= rows[b].ts
      /\ a < i => rows[a].ts < rows[i].ts
  BY <1>7, <1>8, OwnOrder
<1> QED
  BY <1>7, <1>8, <1>9

-----------------------------------------------------------------------------
(* The theorems. *)

Judgements == CounterTelescopes /\ GaugeIsLatest /\ OkHasEvidence /\ RawCounterIsCaught

\* A verdict stays true while rows are added behind it.
LEMMA VerdictStays ==
  ASSUME Judgements, UNCHANGED <<vt, conv, checkVars>>,
         \A i \in RowsOf(Own) : i \in RowsOf(Own)' /\ rows'[i] = rows[i]
  PROVE  Judgements'
<1>1. UNCHANGED <<vt, conv, pc, series, verdict>>
  BY DEF checkVars
<1>2. NoReset' => NoReset
  BY <1>1 DEF NoReset, Interval
<1>3. Landed' => Landed
  BY <1>1 DEF Landed
<1>4. Expected' = Expected
  BY <1>1 DEF Expected
<1>5. CounterTelescopes' /\ GaugeIsLatest' /\ RawCounterIsCaught'
  BY <1>1, <1>2, <1>3
     DEF Judgements, CounterTelescopes, GaugeIsLatest, RawCounterIsCaught, ScopeIsOwn
<1>6. OkHasEvidence'
  BY <1>1 DEF Judgements, OkHasEvidence, ScopeIsOwn
<1> QED
  BY <1>5, <1>6 DEF Judgements

IInv == Base /\ Judgements

LEMMA StepJudgements == IInv /\ [Next]_vars => Judgements'
<1> SUFFICES ASSUME Base, Judgements, [Next]_vars PROVE Judgements'
  BY DEF IInv
<1>1. ASSUME NEW h \in Hosts, NEW gap \in Gaps, NEW v \in 0..MaxVal,
             NEW shape \in Written, Scrape(h, gap, v, shape)
      PROVE  Judgements'
  <2>1. \A i \in RowsOf(Own) : i \in RowsOf(Own)' /\ rows'[i] = rows[i]
    BY <1>1, ScrapeRows, RowFacts DEF Base
  <2> QED
    BY <1>1, <2>1, VerdictStays DEF Scrape
<1>2. ASSUME Rotate \/ Land \/ UNCHANGED vars PROVE Judgements'
  <2>1. UNCHANGED <<vt, conv, rows, checkVars>>
    BY <1>2 DEF Rotate, Land, vars, envVars
  <2> QED
    BY <2>1, VerdictStays DEF RowsOf
<1>3. ASSUME (\E since \in Sinces : ReadSeries(since)) \/ Ask \/ NextCycle
      PROVE  Judgements'
  <2>1. pc' # "judged"
    BY <1>3 DEF ReadSeries, Ask, NextCycle
  <2> QED
    BY <2>1 DEF Judgements, CounterTelescopes, GaugeIsLatest, OkHasEvidence,
                RawCounterIsCaught
<1>4. ASSUME Skip \/ Answered PROVE Judgements'
  BY <1>4, VerdictTelescopes, VerdictLatest, VerdictRaw, VerdictHasEvidence
     DEF Judgements
<1> QED
  BY <1>1, <1>2, <1>3, <1>4 DEF Next, Collector, NewRelic, Check, Answered

LEMMA Inductive == Spec => []IInv
<1>1. Init => IInv
  <2>1. Init => Judgements
    BY DEF Init, Judgements, CounterTelescopes, GaugeIsLatest, OkHasEvidence,
           RawCounterIsCaught
  <2> QED
    BY <2>1, InitBase DEF IInv
<1>2. IInv /\ [Next]_vars => IInv'
  BY StepBase, StepJudgements DEF IInv
<1> QED
  BY <1>1, <1>2, PTL DEF Spec

\* Every variable of the check, of the collector and of New Relic has its type in
\* every reachable state.
THEOREM TypeCorrect == Spec => []TypeOK
<1>1. IInv => TypeOK
  BY DEF IInv, Base
<1> QED
  BY <1>1, Inductive, PTL

\* BuildDeltaQuery's window holds the rows between the endpoints and no others,
\* for any resolution of the clock and any scrapes at least the slack apart.
THEOREM WindowExactAlways == Spec => []WindowExact
<1>1. IInv => WindowExact
  BY BaseWindowExact DEF IInv
<1> QED
  BY <1>1, Inductive, PTL

\* A counter that New Relic converts, without a reset in a window that has
\* landed, is found equal by checkOne, for all histories of all hosts.
THEOREM CounterTelescopesAlways == Spec => []CounterTelescopes
<1>1. IInv => CounterTelescopes
  BY DEF IInv, Judgements
<1> QED
  BY <1>1, Inductive, PTL

\* A gauge whose last point has landed is found equal by checkOne.
THEOREM GaugeIsLatestAlways == Spec => []GaugeIsLatest
<1>1. IInv => GaugeIsLatest
  BY DEF IInv, Judgements
<1> QED
  BY <1>1, Inductive, PTL

\* checkOne's INGEST_OK for a series that is not near zero has a row of this
\* host between the series' endpoints behind it.
THEOREM OkHasEvidenceAlways == Spec => []OkHasEvidence
<1>1. IInv => OkHasEvidence
  BY DEF IInv, Judgements
<1> QED
  BY <1>1, Inductive, PTL

\* A counter that New Relic stores as it is fails checkOne when its window starts
\* at a value beyond the tolerance.
THEOREM RawCounterIsCaughtAlways == Spec => []RawCounterIsCaught
<1>1. IInv => RawCounterIsCaught
  BY DEF IInv, Judgements
<1> QED
  BY <1>1, Inductive, PTL
=============================================================================
