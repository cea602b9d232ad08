------------------------------- MODULE Report -------------------------------
(***************************************************************************)
(* What the operator sees of a cycle: package report and the part of main  *)
(* that filters, counts and prints (run, runOnce's end, emit).  The rows   *)
(* are those of the two checks; what is asked is whether the one line that *)
(* matters can get lost on the way to the terminal.                        *)
(*                                                                         *)
(* A series is a pair of numbers, its metric and its attributes in the     *)
(* order of their texts.  A printed number is only told apart by whether   *)
(* encoding/json can write it.                                             *)
(***************************************************************************)
EXTENDS Tolerance, SequencesExt, FiniteSets

CONSTANTS
  AllSeries,       \* pairs <<metric, attributes>>
  Pairs,           \* possible <<expected, emitted>>, with None
  IngestStatuses,  \* statuses that New Relic's answers lead to
  Notes,           \* texts of errors
  Matching,        \* metrics whose name contains --metric
  Filters,         \* possible values of: --metric is given
  Epsilons,        \* possible values of VALIDATOR_ABS_EPSILON, negative ones too
  None,
  nil              \* no slice at all

VARIABLES
  opt,      \* the command line: watch, checkIngest, jsonOut, failOnly, metric;
            \* and VALIDATOR_ABS_EPSILON
  results,  \* rows of the DB check
  ic,       \* rows of the ingest check, or nil
  shown,    \* what was printed of the last cycle
  phase     \* "cycle", "report", "sleep", or the exit code

vars == <<opt, results, ic, shown, phase>>

Options == [watch : BOOLEAN, checkIngest : BOOLEAN, jsonOut : BOOLEAN,
            failOnly : BOOLEAN, metric : Filters, epsilon : Epsilons]

-----------------------------------------------------------------------------
(* The rows of a cycle. *)

dbOrder == [MISMATCH |-> 0, MISSING_IN_INGEST |-> 1, OK |-> 2, MISSING_IN_DB |-> 3]

ingestOrder == [INGEST_MISMATCH |-> 0, INGEST_ERROR |-> 1, INGEST_NO_DATA |-> 2,
                INGEST_OK |-> 3, INGEST_SKIPPED |-> 4]

Row == [metric : Int, attrs : Int, status : DOMAIN dbOrder \cup DOMAIN ingestOrder,
        rel : {"finite", "nonfinite", None}, note : Notes \cup {None}]

ASSUME ReportAssumption ==
  /\ AllSeries \subseteq Int \X Int /\ IsFiniteSet(AllSeries)
  /\ IngestStatuses \subseteq DOMAIN ingestOrder
  /\ Filters \subseteq BOOLEAN
  /\ nil \notin Seq(Row)

\* Relative to an expected 0 the difference is NaN or infinite, which is
\* within no tolerance; a positive epsilon keeps the code from dividing.
RelDiff(e, a) == IF e = 0 /\ opt.epsilon < 0 THEN "nonfinite" ELSE "finite"

Within(e, a) ==
  LET T == INSTANCE Tolerance WITH AbsEpsilon <- opt.epsilon
  IN RelDiff(e, a) = "finite" /\ T!WithinTolerance(e, a, "gauge")

DBRow(s, p) ==
  [metric |-> s[1], attrs |-> s[2], note |-> None,
   status |-> IF p[2] = None THEN "MISSING_IN_INGEST"
              ELSE IF p[1] = None THEN "MISSING_IN_DB"
              ELSE IF Within(p[1], p[2]) THEN "OK" ELSE "MISMATCH",
   rel |-> IF None \in {p[1], p[2]} THEN None ELSE RelDiff(p[1], p[2])]

\* The differences of this check are taken to be finite.
IngestRow(s, status, note) ==
  [metric |-> s[1], attrs |-> s[2], status |-> status, rel |-> "finite",
   note |-> IF status = "INGEST_ERROR" THEN note ELSE None]

Precedes(s, t) ==
  \E n \in DOMAIN s : s[n] < t[n] /\ \A m \in 1..n - 1 : s[m] = t[m]

\* The domain of rank in the order of what it is mapped to, different
\* tuples of numbers.
Ranked(rank) ==
  [n \in 1..Cardinality(DOMAIN rank) |->
     CHOOSE i \in DOMAIN rank :
       Cardinality({j \in DOMAIN rank : Precedes(rank[j], rank[i])}) = n - 1]

\* checkWith: sorted by status and metric.  The sort is not stable and its
\* input in the random order of a map.
StatusText == <<"INGEST_ERROR", "INGEST_MISMATCH", "INGEST_NO_DATA", "INGEST_OK",
                "INGEST_SKIPPED">>
CheckWithOrders(rows) ==
  LET text(r) == SelectInSeq(StatusText, LAMBDA t : t = r.status)
      less(r, q) == text(r) < text(q) \/ (text(r) = text(q) /\ r.metric < q.metric)
  IN {o \in SetToSeqs(rows) : \A i, j \in DOMAIN o : i < j => ~less(o[j], o[i])}

\* Mutant: --metric is not applied.
Filtered_Never(rows) == rows

\* filterDB and filterIngest: with --metric, what is left of nothing is nil.
Filtered(rows) ==
  LET kept == {i \in DOMAIN rows : rows[i].metric \in Matching}
      left == Ranked([i \in kept |-> <<i>>])
  IN IF ~opt.metric THEN rows
     ELSE IF kept = {} THEN nil ELSE [n \in DOMAIN left |-> rows[left[n]]]

-----------------------------------------------------------------------------
(* Package report. *)

Rows(rs) == IF rs = nil THEN <<>> ELSE rs

\* Mutant: --fail-only keeps the failures only.
RenderTable_OnlyFailures(rs, order, ok, showOK) ==
  LET kept == {i \in DOMAIN Rows(rs) :
                 showOK \/ rs[i].status \in {"MISMATCH", "INGEST_MISMATCH"}}
      sorted == Ranked([i \in kept |-> <<order[rs[i].status], rs[i].metric, i>>])
  IN [n \in DOMAIN sorted |-> rs[sorted[n]]]

\* RenderTable and RenderIngestTable: filter, then a stable sort.
RenderTable(rs, order, ok, showOK) ==
  LET kept == {i \in DOMAIN Rows(rs) : showOK \/ rs[i].status # ok}
      sorted == Ranked([i \in kept |-> <<order[rs[i].status], rs[i].metric, i>>])
  IN [n \in DOMAIN sorted |-> rs[sorted[n]]]

\* RenderJSON and RenderIngestJSON: an error of the encoder gives "[]".
RenderJSON(rs) ==
  IF \E i \in DOMAIN Rows(rs) : rs[i].rel = "nonfinite" THEN <<>> ELSE rs

Summarize(rs) ==
  [t \in {Rows(rs)[i].status : i \in DOMAIN Rows(rs)} |->
     Cardinality({i \in DOMAIN Rows(rs) : rs[i].status = t})]

Nothing == [state |-> "none", form |-> "none", db |-> <<>>, ingest |-> nil,
            dbSum |-> <<>>, icSum |-> <<>>, errors |-> {}]

-----------------------------------------------------------------------------
(* The end of a cycle. *)

Has(rs, status) == \E i \in DOMAIN Rows(rs) : rs[i].status = status

failed == Has(results, "MISMATCH") \/ Has(ic, "INGEST_MISMATCH")

\* distinctIngestErrors.
ErrorNotes ==
  {Rows(ic)[i].note : i \in {j \in DOMAIN Rows(ic) : ic[j].status = "INGEST_ERROR"}}

\* What emit prints.
emit ==
  IF opt.jsonOut
  THEN [form |-> "json", db |-> RenderJSON(results), ingest |-> RenderJSON(ic)]
  ELSE [form |-> "table",
        db |-> RenderTable(results, dbOrder, "OK", ~opt.failOnly),
        ingest |-> IF ic = nil THEN nil
                   ELSE RenderTable(ic, ingestOrder, "INGEST_OK", ~opt.failOnly)]

Shows(state, what, sums) ==
  [state |-> state, form |-> what.form, db |-> what.db, ingest |-> what.ingest,
   dbSum |-> IF sums THEN Summarize(results) ELSE <<>>,
   icSum |-> IF sums THEN Summarize(ic) ELSE <<>>,
   errors |-> ErrorNotes]

Init ==
  /\ opt \in Options
  /\ results = nil /\ ic = nil /\ shown = Nothing /\ phase = "cycle"

\* A cycle without an error: the rows of both checks for the same series.
Judge ==
  /\ phase = "cycle"
  /\ \E S \in SUBSET AllSeries : \E pair \in [S -> Pairs] :
       LET emitted == {s \in S : pair[s][2] # None}
           ordered == Ranked([s \in S |-> s])
       IN /\ results' = Filtered([n \in DOMAIN ordered |-> DBRow(ordered[n], pair[ordered[n]])])
          /\ IF ~opt.checkIngest THEN ic' = nil
             ELSE \E status \in [emitted -> IngestStatuses], note \in [emitted -> Notes] :
                    \E o \in CheckWithOrders({IngestRow(s, status[s], note[s]) : s \in emitted}) :
                      ic' = Filtered(o)
  /\ phase' = "report" /\ shown' = Nothing
  /\ UNCHANGED opt

ReportOnce ==
  /\ phase = "report" /\ ~opt.watch
  /\ shown' = Shows("none", emit, ~opt.jsonOut)
  /\ phase' = IF failed THEN "1" ELSE "0"
  /\ UNCHANGED <<opt, results, ic>>

\* Mutant: the ingest check's mismatches print no tables.
ReportWatch_DBOnly ==
  /\ phase = "report" /\ opt.watch
  /\ shown' = Shows(IF failed THEN "FAIL" ELSE "pass",
                    IF Has(results, "MISMATCH") \/ opt.jsonOut THEN emit ELSE Nothing, TRUE)
  /\ phase' = "sleep"
  /\ UNCHANGED <<opt, results, ic>>

\* Summaries are in the line of the cycle, rows follow if it failed.
ReportWatch ==
  /\ phase = "report" /\ opt.watch
  /\ shown' = Shows(IF failed THEN "FAIL" ELSE "pass",
                    IF failed \/ opt.jsonOut THEN emit ELSE Nothing, TRUE)
  /\ phase' = "sleep"
  /\ UNCHANGED <<opt, results, ic>>

\* The rows are local to a turn of the loop.
Wake ==
  /\ phase = "sleep"
  /\ phase' = "cycle" /\ results' = nil /\ ic' = nil /\ shown' = Nothing
  /\ UNCHANGED opt

Next == Judge \/ ReportOnce \/ ReportWatch \/ Wake

Spec == Init /\ [][Next]_vars

-----------------------------------------------------------------------------
(* Properties. *)

Reported == phase \in {"0", "1", "sleep"}

TypeOK ==
  /\ opt \in Options
  /\ phase \in {"cycle", "report", "sleep", "0", "1"}
  /\ {results, ic} \subseteq Seq(Row) \cup {nil}
  /\ \A rs \in {results, ic} : \A i \in DOMAIN Rows(rs) :
       /\ <<rs[i].metric, rs[i].attrs>> \in AllSeries
       /\ opt.metric => rs[i].metric \in Matching
  /\ Reported => shown.form \in {"none", "table", "json"}

\* Every mismatch of rs is in the table, once and above all other rows.
OnTop(rs, table, mismatch) ==
  LET bad == {i \in DOMAIN Rows(rs) : rs[i].status = mismatch}
  IN {<<table[n].metric, table[n].attrs>> :
        n \in {m \in DOMAIN table : table[m].status = mismatch}}
       = {<<rs[i].metric, rs[i].attrs>> : i \in bad}
     /\ \A n \in DOMAIN table : n <= Cardinality(bad) => table[n].status = mismatch

Writable(rs) == \A i \in DOMAIN Rows(rs) : rs[i].rel # "nonfinite"

(***************************************************************************)
(* A verdict is never without its evidence: after exit code 1 or a cycle   *)
(* that reads FAIL every mismatch of either check is on the screen, above  *)
(* every other row of its table or in the JSON document, whatever options  *)
(* were given (emit, RenderTable, RenderIngestTable, main's watch loop).   *)
(* The exception is a row whose difference is NaN or infinite, which a     *)
(* negative epsilon allows: JSON is then an empty list (mustJSON).         *)
(***************************************************************************)
FailureIsShown ==
  Reported /\ (phase = "1" \/ shown.state = "FAIL") =>
    /\ shown.form \in {"table", "json"}
    /\ shown.form = "table" =>
         /\ OnTop(results, shown.db, "MISMATCH")
         /\ OnTop(ic, Rows(shown.ingest), "INGEST_MISMATCH")
    /\ shown.form = "json" =>
         /\ Writable(results) => shown.db = results
         /\ shown.ingest = ic

(***************************************************************************)
(* What the tables leave out the summaries still count, and only rows that *)
(* agree are left out: of every other status there are as many rows in the *)
(* table as the summary says, and the error of every answer of New Relic   *)
(* has been printed (RenderTable, Summarize, distinctIngestErrors).        *)
(***************************************************************************)
SummaryAddsUp ==
  Reported /\ shown.form = "table" =>
    \A side \in {<<shown.db, shown.dbSum, "OK">>,
                 <<Rows(shown.ingest), shown.icSum, "INGEST_OK">>} :
      \A t \in DOMAIN side[2] :
        LET n == Cardinality({i \in DOMAIN side[1] : side[1][i].status = t})
        IN /\ t # side[3] \/ ~opt.failOnly => side[2][t] = n
           /\ t = "INGEST_ERROR" =>
                \A i \in DOMAIN side[1] : side[1][i].status = t => side[1][i].note \in shown.errors
=============================================================================
