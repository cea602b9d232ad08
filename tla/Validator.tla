------------------------------ MODULE Validator ------------------------------
(***************************************************************************)
(* The validator's run (cmd/validator): one cycle reads the newest emitted *)
(* points from the ingest file, probes the database query by query, joins  *)
(* the two, and, with --check-ingest, reads the file once more and asks    *)
(* New Relic about every series.  One-shot mode ends with an exit code;    *)
(* watch mode sleeps and begins again.  Around it the database moves, is   *)
(* restarted and refuses queries, and the collector scrapes, rotates the   *)
(* file and sometimes emits a wrong value, which is what the validator is  *)
(* there to find.                                                          *)
(*                                                                         *)
(* A metric stands for one join key.  What a read of the file returns is   *)
(* OtlpReader's subject, and what the check of one series answers is       *)
(* DeltaCheck's: here the first is the map of newest points, and the       *)
(* second any status such a series can get.                                *)
(***************************************************************************)
EXTENDS Tolerance, Sequences, FiniteSets

CONSTANTS
  Counters, Gauges,  \* metrics of metricmap's tables
  Unmapped,          \* metrics the receiver emits and metricmap has no table for
  Queries,           \* the query keys, in the order of AllQueryKeys
  QueryOf,           \* the query a mapped metric is extracted from
  Matching,          \* metrics whose name contains --metric
  CheckIngest,       \* --check-ingest with the otlp-json format
  Watch,             \* --watch
  MaxVal,            \* bound of the model: values
  Skew,              \* what a faulty receiver adds to a value
  MaxRestarts        \* bound of the model: database restarts

Mapped  == Counters \cup Gauges
Metrics == Mapped \cup Unmapped

ASSUME MetricsAssumption ==
  /\ Counters \cap Gauges = {} /\ Mapped \cap Unmapped = {}
ASSUME QueriesAssumption ==
  /\ Queries \in Seq(STRING)
  /\ \A m \in Mapped : \E i \in DOMAIN Queries : QueryOf[m] = Queries[i]
ASSUME OptionsAssumption == CheckIngest \in BOOLEAN /\ Watch \in BOOLEAN
ASSUME BoundsAssumption ==
  MaxVal \in Nat /\ Skew \in Nat \ {0} /\ MaxRestarts \in Nat

TypeOf == [m \in Mapped |-> IF m \in Counters THEN "sum" ELSE "gauge"]

VARIABLES
  db,        \* the database: a value for each metric (0 for one that no query
             \* of the validator looks at)
  restarts,  \* how often it was restarted
  exists,    \* the ingest file exists
  file,      \* its newest point of each metric
  pc,        \* "setup", "read", "probe", "compare", "reread", "ingest",
             \* "report", "sleep" or "exit"
  emitted,   \* ingest.Read's result
  expected,  \* probe.Expected
  next,      \* index in Queries of the query under way
  results,   \* the rows of the DB check, which only a cycle without an error reports
  pending,   \* series whose ingest check is still to be made
  ic,        \* the ingest check's rows
  err,       \* runOnce returned an error
  fail,      \* what failed() said of the last cycle that did not
  code       \* the exit code, -1 while running

(***************************************************************************)
(* History: of each metric, whether the receiver's value of the point in   *)
(* the file (seen by this cycle) was wrong, and whether the database's     *)
(* value changed, or the database restarted, after the point was scraped;  *)
(* the last two up to the metric's probe.                                  *)
(***************************************************************************)
VARIABLES inFile, inCycle

Clean == [wrong |-> {}, moved |-> {}, reset |-> {}]

envVars   == <<db, restarts, exists, file>>
cycleVars == <<emitted, expected, next, results, pending, ic, err>>
history   == <<inFile, inCycle>>
vars      == <<envVars, pc, cycleVars, fail, code, history>>

Empty == << >>

Put(f, k, v) == [x \in DOMAIN f \cup {k} |-> IF x = k THEN v ELSE f[x]]

-----------------------------------------------------------------------------
(* Database and collector. *)

\* Metrics the cycle has emitted values for and has not probed yet.
Unprobed ==
  IF pc # "probe" THEN {}
  ELSE {m \in Mapped \cap DOMAIN emitted :
          \E i \in next..Len(Queries) : Queries[i] = QueryOf[m]}

Moves(M) ==
  /\ inFile'  = [inFile EXCEPT !.moved = @ \cup M]
  /\ inCycle' = [inCycle EXCEPT !.moved = @ \cup (M \cap Unprobed)]

\* A counter counts; a gauge goes anywhere.
Work(m) ==
  /\ \E v \in 0..MaxVal :
       /\ v # db[m]
       /\ m \in Counters => v > db[m]
       /\ db' = [db EXCEPT ![m] = v]
  /\ Moves({m})
  /\ UNCHANGED <<restarts, exists, file, pc, cycleVars, fail, code>>

\* A restarted database counts from zero.
RestartDB ==
  /\ restarts < MaxRestarts
  /\ restarts' = restarts + 1
  /\ db' = [m \in Metrics |-> IF m \in Counters THEN 0 ELSE db[m]]
  /\ inFile'  = [inFile EXCEPT !.moved = @ \cup Counters,
                               !.reset = @ \cup Counters]
  /\ inCycle' = [inCycle EXCEPT !.moved = @ \cup (Counters \cap Unprobed),
                                !.reset = @ \cup (Counters \cap Unprobed)]
  /\ UNCHANGED <<exists, file, pc, cycleVars, fail, code>>

\* The receiver scrapes a metric, rightly or wrongly, into the file.
Scrape(m, wrong) ==
  /\ exists
  /\ file' = Put(file, m, IF wrong THEN db[m] + Skew ELSE db[m])
  /\ inFile' = [wrong |-> (inFile.wrong \ {m}) \cup (IF wrong THEN {m} ELSE {}),
                moved |-> inFile.moved \ {m},
                reset |-> inFile.reset \ {m}]
  /\ UNCHANGED <<db, restarts, exists, pc, cycleVars, fail, code, inCycle>>

CreateFile ==
  /\ ~exists
  /\ exists' = TRUE
  /\ UNCHANGED <<db, restarts, file, pc, cycleVars, fail, code, history>>

\* The file is renamed away; the path names nothing until CreateFile.
RotateFile ==
  /\ exists
  /\ exists' = FALSE
  /\ file' = Empty
  /\ inFile' = Clean
  /\ UNCHANGED <<db, restarts, pc, cycleVars, fail, code, inCycle>>

-----------------------------------------------------------------------------
(* One cycle. *)

\* Flags, .env file, configuration, New Relic's credentials.
\* Mutant: the exit code of a failed setup is forgotten.
SetupFails_NoCode ==
  /\ pc = "setup"
  /\ pc' = "exit"
  /\ UNCHANGED <<envVars, cycleVars, fail, code, history>>

SetupFails ==
  /\ pc = "setup"
  /\ pc' = "exit" /\ code' = 2
  /\ UNCHANGED <<envVars, cycleVars, fail, history>>

SetupSucceeds ==
  /\ pc = "setup"
  /\ pc' = "read"
  /\ UNCHANGED <<envVars, cycleVars, fail, code, history>>

ReadEmitted ==
  /\ pc = "read"
  /\ exists
  /\ emitted' = file
  /\ inCycle' = inFile
  /\ pc' = "probe"
  /\ UNCHANGED <<envVars, expected, next, results, pending, ic, err, fail, code,
                 inFile>>

\* The file is missing, or reading it fails.
ReadFails ==
  /\ pc = "read"
  /\ err' = TRUE
  /\ pc' = "report"
  /\ UNCHANGED <<envVars, emitted, expected, next, results, pending, ic, fail,
                 code, history>>

\* sql.Open refuses the connection URL, before any query is made.
OpenFails ==
  /\ pc = "probe"
  /\ next = 1
  /\ err' = TRUE
  /\ pc' = "report"
  /\ UNCHANGED <<envVars, emitted, expected, next, results, pending, ic, fail,
                 code, history>>

Extracted(q) == {m \in Mapped : QueryOf[m] = q}

\* The next query answers; the rows it lacks are metrics the database has not.
\* A later value of the same key replaces an earlier one.
QuerySucceeds ==
  /\ pc = "probe"
  /\ next <= Len(Queries)
  /\ expected' =
       [m \in DOMAIN expected \cup Extracted(Queries[next]) |->
          IF m \in Extracted(Queries[next]) THEN db[m] ELSE expected[m]]
  /\ next' = next + 1
  /\ UNCHANGED <<envVars, pc, emitted, results, pending, ic, err, fail, code,
                 history>>

\* Mutant: the metrics of a failed query are expected to be zero.
QueryFails_ReadsZero ==
  /\ pc = "probe"
  /\ next <= Len(Queries)
  /\ expected' = [m \in DOMAIN expected \cup Extracted(Queries[next]) |->
                    IF m \in DOMAIN expected THEN expected[m] ELSE 0]
  /\ next' = next + 1
  /\ UNCHANGED <<envVars, pc, emitted, results, pending, ic, err, fail, code,
                 history>>

\* The next query fails; that is noted on stderr, and the probe goes on.
QueryFails ==
  /\ pc = "probe"
  /\ next <= Len(Queries)
  /\ next' = next + 1
  /\ UNCHANGED <<envVars, pc, emitted, expected, results, pending, ic, err, fail,
                 code, history>>

\* Mutant: the file is read after the probe.
CompareRows_ReadsLate ==
  /\ pc = "probe"
  /\ next > Len(Queries)
  /\ emitted' = file
  /\ results' = Filter(Compare(expected, emitted', TypeOf), Matching)
  /\ pc' = IF CheckIngest THEN "reread" ELSE "report"
  /\ UNCHANGED <<envVars, expected, next, pending, ic, err, fail, code, history>>

CompareRows ==
  /\ pc = "probe"
  /\ next > Len(Queries)
  /\ results' = Filter(Compare(expected, emitted, TypeOf), Matching)
  /\ pc' = IF CheckIngest THEN "reread" ELSE "report"
  /\ UNCHANGED <<envVars, emitted, expected, next, pending, ic, err, fail, code,
                 history>>

\* Any part of what the file holds may lie in the ingest window.
Reread ==
  /\ pc = "reread"
  /\ exists
  /\ pending' \in SUBSET DOMAIN file
  /\ pc' = "ingest"
  /\ UNCHANGED <<envVars, emitted, expected, next, results, ic, err, fail, code,
                 history>>

\* runOnce returns the error alone: the rows of the DB check go unreported.
RereadFails ==
  /\ pc = "reread"
  /\ err' = TRUE
  /\ pc' = "report"
  /\ UNCHANGED <<envVars, emitted, expected, next, results, pending, ic, fail,
                 code, history>>

\* The statuses checkOne can give a series, see DeltaCheck.
IngestStatuses(m) ==
  IF m \in Unmapped THEN {"INGEST_SKIPPED"}
  ELSE {"INGEST_OK", "INGEST_MISMATCH", "INGEST_NO_DATA", "INGEST_ERROR"}
       \cup (IF m \in Counters THEN {"INGEST_SKIPPED"} ELSE {})

\* The series are checked in the random order of Go's maps; a query that is
\* not answered ends after 30 seconds as INGEST_ERROR.
CheckSeries(m) ==
  /\ pc = "ingest"
  /\ m \in pending
  /\ \E s \in IngestStatuses(m) : ic' = Put(ic, m, s)
  /\ pending' = pending \ {m}
  /\ UNCHANGED <<envVars, pc, emitted, expected, next, results, err, fail, code,
                 history>>

IngestDone ==
  /\ pc = "ingest"
  /\ pending = {}
  /\ ic' = Filter(ic, Matching)
  /\ pc' = "report"
  /\ UNCHANGED <<envVars, emitted, expected, next, results, pending, err, fail,
                 code, history>>

\* Mutant: the ingest check does not fail the run.
failed_DBOnly == HasFailures(results)

failed == HasFailures(results) \/ \E m \in DOMAIN ic : ic[m] = "INGEST_MISMATCH"

\* Mutant: a failed cycle is tried again.
ReportOnce_Retries ==
  /\ pc = "report"
  /\ ~Watch
  /\ code' = IF err THEN code ELSE IF failed THEN 1 ELSE 0
  /\ pc' = IF err THEN "read" ELSE "exit"
  /\ err' = FALSE
  /\ UNCHANGED <<envVars, emitted, expected, next, results, pending, ic, fail,
                 history>>

ReportOnce ==
  /\ pc = "report"
  /\ ~Watch
  /\ code' = IF err THEN 2 ELSE IF failed THEN 1 ELSE 0
  /\ pc' = "exit"
  /\ UNCHANGED <<envVars, cycleVars, fail, history>>

\* Mutant: an error ends watch mode as it ends a one-shot run.
ReportWatch_Exits ==
  /\ pc = "report"
  /\ Watch
  /\ fail' = IF err THEN fail ELSE failed
  /\ pc' = IF err THEN "exit" ELSE "sleep"
  /\ code' = IF err THEN 2 ELSE code
  /\ UNCHANGED <<envVars, cycleVars, history>>

\* An error is printed and the loop goes on.
ReportWatch ==
  /\ pc = "report"
  /\ Watch
  /\ fail' = IF err THEN fail ELSE failed
  /\ pc' = "sleep"
  /\ UNCHANGED <<envVars, cycleVars, code, history>>

\* Mutant: the expectations of the last cycle are kept.
Wake_KeepsExpected ==
  /\ pc = "sleep"
  /\ pc' = "read"
  /\ emitted' = Empty /\ next' = 1
  /\ results' = Empty /\ pending' = {} /\ ic' = Empty /\ err' = FALSE
  /\ inCycle' = Clean
  /\ UNCHANGED <<envVars, expected, fail, code, inFile>>

\* The next cycle's runOnce has variables of its own.
Wake ==
  /\ pc = "sleep"
  /\ pc' = "read"
  /\ emitted' = Empty /\ expected' = Empty /\ next' = 1
  /\ results' = Empty /\ pending' = {} /\ ic' = Empty /\ err' = FALSE
  /\ inCycle' = Clean
  /\ UNCHANGED <<envVars, fail, code, inFile>>

-----------------------------------------------------------------------------
Init ==
  /\ db = [m \in Metrics |-> 0] /\ restarts = 0
  /\ exists = FALSE /\ file = Empty
  /\ pc = "setup"
  /\ emitted = Empty /\ expected = Empty /\ next = 1
  /\ results = Empty /\ pending = {} /\ ic = Empty
  /\ err = FALSE /\ fail = FALSE /\ code = -1
  /\ inFile = Clean /\ inCycle = Clean

Environment ==
  \/ \E m \in Mapped : Work(m)
  \/ RestartDB
  \/ \E m \in Mapped, wrong \in BOOLEAN : Scrape(m, wrong)
  \/ \E m \in Unmapped : Scrape(m, FALSE)
  \/ CreateFile
  \/ RotateFile

\* Steps that wait for Oracle, which may never come, and the failure to reach it.
DatabaseAnswers == OpenFails \/ QuerySucceeds \/ QueryFails

\* Steps of the validator that wait for nobody, or not for ever.
OwnSteps ==
  \/ SetupFails \/ SetupSucceeds
  \/ ReadEmitted \/ ReadFails
  \/ CompareRows
  \/ Reread \/ RereadFails
  \/ \E m \in Metrics : CheckSeries(m)
  \/ IngestDone
  \/ ReportOnce \/ ReportWatch \/ Wake

Next == Environment \/ DatabaseAnswers \/ OwnSteps

Spec == Init /\ [][Next]_vars

FairSpec == Spec /\ WF_vars(OwnSteps)

-----------------------------------------------------------------------------
(* Properties. *)

IsMap(f, D, S) == DOMAIN f \subseteq D /\ \A x \in DOMAIN f : f[x] \in S

Value == 0..(MaxVal + Skew)
Marks == [wrong : SUBSET Metrics, moved : SUBSET Metrics, reset : SUBSET Metrics]

\* Every variable has its type.
TypeOK ==
  /\ IsMap(db, Metrics, 0..MaxVal) /\ DOMAIN db = Metrics
  /\ restarts \in 0..MaxRestarts
  /\ exists \in BOOLEAN
  /\ IsMap(file, Metrics, Value)
  /\ pc \in {"setup", "read", "probe", "reread", "ingest", "report", "sleep",
             "exit"}
  /\ IsMap(emitted, Metrics, Value)
  /\ IsMap(expected, Mapped, 0..MaxVal)
  /\ next \in 1..Len(Queries) + 1
  /\ IsMap(results, Metrics, {"OK", "MISMATCH", "MISSING_IN_INGEST",
                              "MISSING_IN_DB"})
  /\ pending \subseteq Metrics
  /\ IsMap(ic, Metrics, {"INGEST_OK", "INGEST_MISMATCH", "INGEST_NO_DATA",
                         "INGEST_ERROR", "INGEST_SKIPPED"})
  /\ err \in BOOLEAN /\ fail \in BOOLEAN /\ code \in {-1, 0, 1, 2}
  /\ pc = "exit" <=> code # -1
  /\ inFile \in Marks /\ inCycle \in Marks

\* The DB check accuses no receiver of a value it emitted rightly and that the
\* database still held when it was probed, however long ago the point was
\* scraped, whatever other queries failed, and whatever earlier cycles of watch
\* mode saw.
NoFalseAlarm ==
  \A m \in DOMAIN results :
    results[m] = "MISMATCH" => m \in inCycle.wrong \cup inCycle.moved

\* Since the file is read before the database is probed, the database's value
\* of a counter is never behind the collector's unless the database restarted:
\* drift between scrape and probe has one sign only.
CounterNeverAhead ==
  \A m \in Counters \cap DOMAIN expected \cap DOMAIN emitted :
    m \notin inCycle.wrong \cup inCycle.reset => emitted[m] <= expected[m]

\* The receiver's fault is more than the tolerance of metric m swallows.
Noticeable(m) ==
  /\ Skew > AbsEpsilon
  /\ 100 * Skew > (IF m \in Counters THEN TolCounter ELSE TolGauge) * expected[m]

\* A wrong value is found: if its query answered, the database had not moved
\* and the tolerance does not swallow the difference, the DB check's rows have a
\* MISMATCH for the metric, unless --metric hides it.
WrongValueIsFound ==
  pc \in {"reread", "ingest", "report", "exit"} =>
    \A m \in (Mapped \cap inCycle.wrong) \ inCycle.moved :
      m \in DOMAIN expected \cap Matching /\ Noticeable(m) =>
        m \in DOMAIN results /\ results[m] = "MISMATCH"

\* Exit code 0 is only given when no value compared, in either check, of a
\* metric that --metric selects disagreed, and 1 only when one did.
ExitCodeIsTrue ==
  code \in {0, 1} =>
    (code = 1 <=>
       \/ \E m \in DOMAIN expected \cap DOMAIN emitted \cap Matching :
            ~WithinTolerance(expected[m], emitted[m], TypeOf[m])
       \/ \E m \in DOMAIN ic \cap Matching : ic[m] = "INGEST_MISMATCH")

WaitsForOracle == pc = "probe" /\ next <= Len(Queries)

\* Watch mode goes on for ever, through missing files, failing queries and
\* failing checks, unless Oracle leaves a query without an answer for ever:
\* the probe, unlike the NRQL client, has no timeout.
WatchGoesOn ==
  Watch => /\ [](pc = "read" => <>(pc = "sleep") \/ <>[]WaitsForOracle)
           /\ pc = "sleep" ~> pc = "read"

\* A one-shot run ends with an exit code, under the same condition.
OneShotEnds == ~Watch => <>(code # -1) \/ <>[]WaitsForOracle

-----------------------------------------------------------------------------
(* What documents say and the code does not do. *)

\* specs/SPEC.md, section 11: the one-shot exit code is 1 if either a MISMATCH
\* or an INGEST_MISMATCH occurs.
EitherMismatchExitsOne ==
  code # -1 /\ HasFailures(results) => code = 1
=============================================================================
