----------------------------- MODULE DeltaCheck -----------------------------
(***************************************************************************)
(* The ingest check (packages ingestcheck and nrql) of one series, against *)
(* New Relic as the check understands it: the collector writes every       *)
(* scraped point to the file and sends it to New Relic, where it shows up  *)
(* some time later, counters converted from running totals to deltas, each *)
(* stamped with the end of its interval.                                   *)
(*                                                                         *)
(* Own is the host whose collector writes the file.  Other hosts of the    *)
(* same account send the same metric with the same data-point attributes   *)
(* and differ in the resource attribute host.name only.                    *)
(*                                                                         *)
(* The rows are kept in the order of their timestamps.  Instead of a sum   *)
(* over a window, each row carries the running totals of the deltas up to  *)
(* it, for Own and for the whole account; the sum of a window is the       *)
(* difference of two of them.                                              *)
(***************************************************************************)
EXTENDS OtlpPoints, Tolerance

CONSTANTS
  Own, Others,   \* host names
  Scoped,        \* host.name is among VALIDATOR_NR_SCOPE_ATTRS
  NsPerMs,       \* nanosPerMS: 1000000 in the code
  GaugeSlackMs,  \* what checkOne adds to the end of a gauge's window: 1000
  ScrapeNs,      \* least time between two scrapes of a host
  Gaps,          \* steps of the clock between two scrapes
  Written,       \* how a line may come out: "sum", or "torn" as well
  MaxVal,        \* bound of the model: values scraped
  MaxRows        \* bound of the model: points scraped in all

ASSUME HostsAssumption == Own \notin Others /\ Scoped \in BOOLEAN
ASSUME TimeAssumption ==
  /\ NsPerMs \in Nat \ {0}
  /\ GaugeSlackMs \in Nat \ {0}
  /\ ScrapeNs \in Nat
  /\ Gaps \subseteq Nat
ASSUME WrittenAssumption == Written \subseteq {"sum", "torn"}
\* Scrapes are further apart than the slack.  The code relies on it without
\* checking: a collector that scrapes more often would break GaugeIsLatest.
ASSUME ScrapeAssumption == ScrapeNs >= GaugeSlackMs * NsPerMs
ASSUME ModelBounds == MaxVal \in Nat /\ MaxRows \in Nat

Hosts == {Own} \cup Others
Key   == "series"   \* the join key of the one series checked

VARIABLES
  vt,       \* what metricmap.ValueTypeOf says of the metric
  conv,     \* how New Relic stores a counter: "delta", or "raw" when it fails to
  now,      \* the clock, in nanoseconds
  file,     \* the collector's file: raw points, in the order written
  rows,     \* what was sent to New Relic, in the order of time
  visible,  \* how many of them a query can see
  pc,       \* the check: "idle", "series", "asked", "judged"
  series,   \* the endpoints ReadOTLPSeries found
  query,    \* the NRQL query under way
  verdict   \* the result row

envVars   == <<vt, conv, now, file, rows, visible>>
checkVars == <<pc, series, query, verdict>>
vars      == <<envVars, checkVars>>

NoSeries  == << >>
NoQuery   == [fn |-> "none", since |-> 0, until |-> 0]
NoVerdict == [status |-> "none", expected |-> 0, actual |-> 0,
              answer |-> "none", seen |-> 0]

-----------------------------------------------------------------------------
(* New Relic and the collector. *)

ToMS(ns) == ns \div NsPerMs

RowsOf(h) == {i \in DOMAIN rows : rows[i].host = h}

\* The greatest element of a set of positions, 0 if there is none.
LastIn(I) == IF I = {} THEN 0 ELSE CHOOSE i \in I : \A j \in I : j <= i

PreviousOf(h) == LastIn(RowsOf(h))

OwnTotal(i) == IF i = 0 THEN 0 ELSE rows[i].own
AllTotal(i) == IF i = 0 THEN 0 ELSE rows[i].all

\* What New Relic stores for value v of host h.  The first point of a host and
\* the point after a reset only set the baseline.
DeltaOf(h, v) ==
  LET i == PreviousOf(h)
  IN IF conv = "raw" THEN v
     ELSE IF i = 0 \/ v < rows[i].val THEN 0
     ELSE v - rows[i].val

RowFor(h, t, v) ==
  LET n == Len(rows)
      d == DeltaOf(h, v)
  IN [host  |-> h, ts |-> t, val |-> v,
      reset |-> PreviousOf(h) # 0 /\ v < rows[PreviousOf(h)].val,
      own   |-> OwnTotal(n) + (IF h = Own THEN d ELSE 0),
      all   |-> AllTotal(n) + d]

\* A scrape of host h at time t = now + gap reads value v.  Own's point also
\* goes to the file, on a line that may be torn.
Scrape(h, gap, v, shape) ==
  LET t == now + gap
  IN /\ Len(rows) < MaxRows
     /\ PreviousOf(h) # 0 => t >= rows[PreviousOf(h)].ts + ScrapeNs
     /\ now' = t
     /\ rows' = Append(rows, RowFor(h, t, v))
     /\ IF h = Own
        THEN file' = Append(file, [key |-> Key, res |-> h, ts |-> t,
                                   val |-> v, shape |-> shape])
        ELSE UNCHANGED file
     /\ UNCHANGED <<vt, conv, visible, checkVars>>

\* The next row becomes visible to queries.
Land ==
  /\ visible < Len(rows)
  /\ visible' = visible + 1
  /\ UNCHANGED <<vt, conv, now, file, rows, checkVars>>

\* The file is rotated away and begun anew.
Rotate ==
  /\ file # << >>
  /\ file' = << >>
  /\ UNCHANGED <<vt, conv, now, rows, visible, checkVars>>

\* Visible rows stamped before millisecond ms.
Before(ms) == {i \in 1..visible : ToMS(rows[i].ts) < ms}

\* Mutant: VALIDATOR_NR_SCOPE_ATTRS is not applied.
FiltersHost_Never == FALSE

\* scopedAttrs puts the series' host.name into the WHERE clause.
FiltersHost == Scoped

\* sum(metric) SINCE since UNTIL until: the end is exclusive.
WindowSum(since, until) ==
  LET i == LastIn(Before(since))
      j == LastIn(Before(until))
  IN IF FiltersHost THEN OwnTotal(j) - OwnTotal(i) ELSE AllTotal(j) - AllTotal(i)

InScope(i) == FiltersHost => rows[i].host = Own

WindowRows(since, until) ==
  {i \in Before(until) : ToMS(rows[i].ts) >= since /\ InScope(i)}

-----------------------------------------------------------------------------
(* The check. *)

\* ReadOTLPSeries; the series is absent when no point of it is in the window.
ReadSeries(since) ==
  /\ pc = "idle"
  /\ Key \in KeysOf(file, since)
  /\ series' = SeriesOf(file, since)[Key]
  /\ pc' = "series"
  /\ UNCHANGED <<envVars, query, verdict>>

\* Mutant: the counter's last value is expected, not its increase.
Expected_Last == series.lastVal

Expected ==
  IF vt = "sum" THEN series.lastVal - series.firstVal ELSE series.lastVal

Judge(status, actual, answer) ==
  /\ verdict' = [status |-> status, expected |-> Expected, actual |-> actual,
                 answer |-> answer, seen |-> visible]
  /\ pc' = "judged"

Unmapped == vt = "unmapped"

TooFewPoints ==
  /\ vt = "sum"
  /\ \/ series.nPoints < 2
     \/ ToMS(series.lastTS) <= ToMS(series.firstTS)

Skip ==
  /\ pc = "series"
  /\ Unmapped \/ TooFewPoints
  /\ Judge("INGEST_SKIPPED", 0, "none")
  /\ UNCHANGED <<envVars, series, query>>

\* Mutant: the window starts at the first point and takes its delta in.
BuildDeltaQuery_FromFirst ==
  [fn |-> "sum", since |-> ToMS(series.firstTS),
   until |-> ToMS(series.lastTS) + 1]

\* Mutant: the window ends at the last point, whose delta NRQL then leaves out.
BuildDeltaQuery_ToLast ==
  [fn |-> "sum", since |-> ToMS(series.firstTS) + 1,
   until |-> ToMS(series.lastTS)]

\* SINCE first+1 drops the first point's own delta; UNTIL last+1 keeps the last.
BuildDeltaQuery ==
  [fn |-> "sum", since |-> ToMS(series.firstTS) + 1,
   until |-> ToMS(series.lastTS) + 1]

\* Mutant: the window ends at the last point, which NRQL then leaves out.
BuildLatestQuery_ToLast ==
  [fn |-> "latest", since |-> ToMS(series.firstTS),
   until |-> ToMS(series.lastTS)]

BuildLatestQuery ==
  [fn |-> "latest", since |-> ToMS(series.firstTS),
   until |-> ToMS(series.lastTS) + GaugeSlackMs]

Ask ==
  /\ pc = "series"
  /\ ~Unmapped /\ ~TooFewPoints
  /\ query' = IF vt = "sum" THEN BuildDeltaQuery ELSE BuildLatestQuery
  /\ pc' = "asked"
  /\ UNCHANGED <<envVars, series, verdict>>

Compared(actual) ==
  IF WithinTolerance(Expected, actual, vt) THEN "INGEST_OK" ELSE "INGEST_MISMATCH"

Matching == WindowRows(query.since, query.until)

\* The number New Relic computes over the rows that match.
Answer ==
  IF query.fn = "sum" THEN WindowSum(query.since, query.until)
  ELSE rows[LastIn(Matching)].val

AnswerValue ==
  /\ pc = "asked"
  /\ query.fn = "latest" => Matching # {}
  /\ Judge(Compared(Answer), Answer, "value")
  /\ UNCHANGED <<envVars, series, query>>

\* Mutant: null is taken for agreement.
NullScalar_Agrees == Expected

\* What ParseScalar makes of a result row whose column is JSON null: decoding
\* null into a float64 is no error and leaves it zero.
NullScalar == 0

\* New Relic answers an aggregate over nothing with a null column.
AnswerNull ==
  /\ pc = "asked"
  /\ Matching = {}
  /\ Judge(Compared(NullScalar), NullScalar, "null")
  /\ UNCHANGED <<envVars, series, query>>

\* An answer with no result row at all.
AnswerEmpty ==
  /\ pc = "asked"
  /\ Matching = {}
  /\ Judge("INGEST_NO_DATA", 0, "empty")
  /\ UNCHANGED <<envVars, series, query>>

\* The 30 s timeout, a transport or HTTP error, or a GraphQL error.
AnswerError ==
  /\ pc = "asked"
  /\ Judge("INGEST_ERROR", 0, "error")
  /\ UNCHANGED <<envVars, series, query>>

\* Mutant: the series of the last cycle is kept.
NextCycle_KeepsSeries ==
  /\ pc = "judged"
  /\ pc' = "idle"
  /\ query' = NoQuery /\ verdict' = NoVerdict
  /\ UNCHANGED <<envVars, series>>

\* The next cycle of watch mode starts from nothing.
NextCycle ==
  /\ pc = "judged"
  /\ pc' = "idle"
  /\ series' = NoSeries /\ query' = NoQuery /\ verdict' = NoVerdict
  /\ UNCHANGED envVars

-----------------------------------------------------------------------------
Init ==
  /\ vt \in {"sum", "gauge", "unmapped"}
  /\ conv \in {"delta", "raw"}
  /\ conv = "raw" => vt = "sum"   \* gauges are stored as they are
  /\ now = 1 /\ file = << >> /\ rows = << >> /\ visible = 0
  /\ pc = "idle"
  /\ series = NoSeries /\ query = NoQuery /\ verdict = NoVerdict

\* runOnce's window: now minus VALIDATOR_INGEST_WINDOW_MINUTES, or 0.
Sinces == {0} \cup 1..now

NewRelic == Land
Collector ==
  \/ \E h \in Hosts, gap \in Gaps, v \in 0..MaxVal, shape \in Written :
       Scrape(h, gap, v, shape)
  \/ Rotate
Check ==
  \/ \E since \in Sinces : ReadSeries(since)
  \/ Skip
  \/ Ask
  \/ AnswerValue
  \/ AnswerNull
  \/ AnswerEmpty
  \/ AnswerError
  \/ NextCycle

Next == Collector \/ NewRelic \/ Check

Spec == Init /\ [][Next]_vars

-----------------------------------------------------------------------------
(* Properties. *)

RawPoint == [key : {Key}, res : {Own}, ts : Nat, val : Nat,
             shape : {"sum", "torn"}]
Row == [host : Hosts, ts : Nat, val : Nat, reset : BOOLEAN,
        own : Nat, all : Nat]
SeriesRecord == [res : {Own}, firstVal : Nat, firstTS : Nat,
                 lastVal : Nat, lastTS : Nat, nPoints : Nat]
Statuses == {"none", "INGEST_OK", "INGEST_MISMATCH", "INGEST_NO_DATA",
             "INGEST_ERROR", "INGEST_SKIPPED"}

\* Every variable has its type.
TypeOK ==
  /\ vt \in {"sum", "gauge", "unmapped"}
  /\ conv \in {"delta", "raw"}
  /\ now \in Nat
  /\ file \in Seq(RawPoint)
  /\ rows \in Seq(Row)
  /\ visible \in 0..Len(rows)
  /\ pc \in {"idle", "series", "asked", "judged"}
  /\ IF pc = "idle" THEN series = NoSeries ELSE series \in SeriesRecord
  /\ query \in [fn : {"none", "sum", "latest"}, since : Nat, until : Nat]
  /\ verdict \in [status : Statuses, expected : Int, actual : Int,
                  answer : {"none", "value", "null", "empty", "error"},
                  seen : Nat]

\* The own rows that lie after the series' first point and up to its last.
Interval ==
  {i \in RowsOf(Own) : series.firstTS < rows[i].ts /\ rows[i].ts <= series.lastTS}

NoReset == \A i \in Interval : ~rows[i].reset

\* The NRQL filter selects Own's rows and no other host's.
ScopeIsOwn == Scoped \/ Others = {}

\* When New Relic answered, it could see the series' last point.
Landed == \A i \in RowsOf(Own) : rows[i].ts <= series.lastTS => i <= verdict.seen

\* A counter's query covers exactly the deltas of the intervals between the
\* first and the last point, neither the one that ends at the first point nor
\* one that ends after the last, although timestamps are cut to milliseconds
\* and the collector keeps sending while the check runs.
WindowExact ==
  pc = "asked" /\ vt = "sum" /\ ScopeIsOwn =>
    Matching = Interval \cap 1..visible

\* Telescoping: if New Relic converts correctly, has all of the window and was
\* asked about this host alone, and the counter was not reset in the window,
\* then the counter passes and the two numbers are equal, whichever lines of
\* the file were torn or rotated away.
CounterTelescopes ==
  /\ pc = "judged" /\ vt = "sum"
  /\ verdict.status \notin {"INGEST_SKIPPED", "INGEST_ERROR"}
  /\ conv = "delta" /\ ScopeIsOwn /\ NoReset /\ Landed
  => verdict.status = "INGEST_OK" /\ verdict.actual = verdict.expected

\* A gauge whose last point New Relic has passes with equal numbers: the slack
\* at the end of the window never reaches a newer point of the same host.
GaugeIsLatest ==
  /\ pc = "judged" /\ vt = "gauge"
  /\ verdict.status # "INGEST_ERROR"
  /\ ScopeIsOwn /\ Landed
  => verdict.status = "INGEST_OK" /\ verdict.actual = verdict.expected

\* A series that is not zero passes only on evidence: New Relic could see a
\* point of this host between the series' endpoints, the last one included.  A
\* null answer, which reads as the number 0, passes for no other series.
OkHasEvidence ==
  /\ pc = "judged" /\ verdict.status = "INGEST_OK" /\ ScopeIsOwn
  /\ Abs(verdict.expected) > AbsEpsilon /\ TolCounter < 100 /\ TolGauge < 100
  => \E i \in RowsOf(Own) :
       /\ i <= verdict.seen
       /\ series.firstTS <= rows[i].ts /\ rows[i].ts <= series.lastTS
       /\ vt = "sum" => series.firstTS < rows[i].ts

\* What the check is for: when New Relic stores a counter unconverted, the
\* check says so, provided the window starts at a value that the tolerance
\* does not swallow.
RawCounterIsCaught ==
  /\ pc = "judged" /\ vt = "sum"
  /\ verdict.status \notin {"INGEST_SKIPPED", "INGEST_ERROR"}
  /\ conv = "raw" /\ ScopeIsOwn /\ NoReset /\ Landed
  /\ series.firstVal > AbsEpsilon
  /\ 100 * series.firstVal > TolCounter * verdict.expected
  => verdict.status = "INGEST_MISMATCH"
=============================================================================
