# A verification of otel-metric-validator in TLA+

The validator compares the Oracle metrics that an OpenTelemetry collector wrote
to a file with two other sources: what the receiver's own SQL says the values
should be (the *DB check*), and what New Relic stored of them (the *ingest
check*). It tells its operator whom to believe, so this project asks of it what
one asks of a judge: does it ever accuse the innocent, does it find the guilty,
does its exit code say what its report says, does its report show what its exit
code says, and does it always come to an end.

## The system

| part | state it keeps | operations | talks to |
|---|---|---|---|
| `internal/config` | the process environment | `LoadDotenv`, `Load`, `RequireNR` | the `.env` file |
| `internal/ingest`, OTLP/JSON | an open file and a map under construction, for the length of one read | `scanLines`, `iterOTLP`, `ReadOTLPJSON`, `ReadOTLPSeries` | the collector, through a file that it appends to and rotates without any lock |
| `internal/ingest`, debug log | `curMetric`, `curAttrs`, `inAttrs` and the map | `ReadDebugLog` | the same |
| `internal/dbprobe` | the map of expected values | `Probe`, `runOrLog`, `runQuery` | Oracle, one query after the other |
| `internal/metricmap` | none (tables) | `ExpectedFor`, `ExpectedForSysmetricCDB`, `Key`, `NormAttrs`, `AttrsFromKey`, `ValueTypeOf`, `ScopeMatches` | - |
| `internal/compare` | none | `WithinTolerance`, `Compare`, `HasFailures`, `Summarize` | - |
| `internal/ingestcheck` | none | `checkOne`, `checkWith`, `scopedAttrs`, `HasFailures` | New Relic, through `nrql` |
| `internal/nrql` | none | `BuildDeltaQuery`, `BuildLatestQuery`, `ParseScalar`, `Client.Run` | NerdGraph over HTTP, with a timeout of 30 s |
| `internal/report` | none | `RenderTable`, `RenderIngestTable`, `RenderJSON`, `RenderIngestJSON` | the terminal |
| `cmd/validator` | of one cycle: emitted, expected, results, ingest results | `run`, `runOnce`, `emit`, `failed`, the filters | all of the above |

A run loads its settings, and then runs one cycle, or one after the other in
watch mode: read the file into a map from series to newest values; probe the
database into a map of the same keys; join the two; with `--check-ingest`, read
the file once more, for the endpoints of every series, and ask New Relic about
each; filter, print, and exit or sleep. A series is known by a *join key*, a text
made of the metric and its attributes.

The validator is one goroutine. What makes it hard is that everything it
compares is moving and nothing is synchronised with it:

- the collector writes, tears and rotates the file while it is read, and the file
  is read twice in one cycle (`main.go:121` and `:162`);
- the debug exporter's text has to be put together again from lines that were
  printed for people, among lines of other components;
- the database moves between the scrape of a point and its probe, may be
  restarted, and refuses single queries;
- which of two `sysmetric` views is believed for a metric depends on what the other
  one answered;
- New Relic converts counters to deltas, has the rows some time later, holds
  those of other hosts too, and answers in four different ways;
- timestamps are nanoseconds in the file and milliseconds in NRQL, with
  exclusive window ends;
- a series has three names, the join key, the attributes read back from it and
  the WHERE clause, that have to mean the same points;
- a cycle may fail at every one of its steps, and watch mode must go on.

What makes each part correct:

- *settings*: a setting has the value its environment or file declares, and a run
  that starts can use what it was given.
- *OTLP reader*: the result is a function of the complete lines of one file at one
  instant; the newest point wins; endpoints are minimum and maximum of time.
- *debug log*: an undisturbed metric is read as printed, and a disturbed one yields
  nothing that was not printed of it.
- *probe*: every row of every query that was answered is expected, under a series
  of its own; a query that fails takes away its own rows and nothing else.
- *keys*: two attribute sets never share a name, and New Relic is asked about the
  points the file has.
- *ingest check*: the query's window covers exactly the deltas between the two
  endpoints; a good series passes, an unconverted one does not, and what passes
  has rows to show.
- *DB check*: a mismatch means that the receiver was wrong or the database moved;
  a wrong value is found; counters drift in one direction only.
- *command*: the exit code is 1 exactly when a compared value disagreed; every run
  ends; watch mode never does.
- *report*: no verdict without its evidence, whatever the options hide.

## The modules

| module | models | of |
|---|---|---|
| `OtlpPoints` | the two folds over points, as steps and as definitions of the result | `ingest.go`, `metricmap.ScopeMatches` |
| `OtlpReader` | one reader and the collector's file exporter around it | `ingest.go`, `file-exporter.partial.yaml` |
| `SnapshotRead` | the abstract promise: a read is an atomic snapshot of one file | what `main.go` relies on |
| `DebugLog` | the line machine of the debug-log reader, and the exporter that feeds it | `ingest.go` |
| `MetricMap` | the tables, the extractors row by row, value types, the two-pass merge | `metricmap.go` |
| `Probe` | the loop over queries, passes and rows | `dbprobe.go`, `metricmap.go` |
| `QueryByQuery` | the abstract promise: each statement is answered whole or not at all | what `main.go` relies on |
| `Texts` | texts as sequences of characters, and Go's `strings` | external |
| `JoinKeys` | join keys, attributes read back from them, the WHERE clause | `metricmap.go`, `ingestcheck.go`, `nrql.go` |
| `Tolerance` | agreement of two numbers, classification of the join, filters | `compare.go`, `main.go:199-223` |
| `DeltaCheck` | the ingest check of one series, with New Relic | `ingestcheck.go`, `nrql.go` |
| `Settings` | the `.env` file, `Load` and `RequireNR` | `config.go`, the start of `main.go` |
| `Report` | the end of a cycle: rows, filters, tables, JSON, summaries | `report.go`, `ingestcheck.go`, `main.go` |
| `Validator` | the cycle, one-shot and watch mode, with database and collector | `main.go`, `dbprobe.go` |
| `MC...` | the small instances that TLC checks | |
| `...Proofs` | theorems and proofs about the module they are named after; `TextsProofs` is about the two whose data are texts, `Settings` and `JoinKeys` | |

The modules are joined by what they promise each other. `Validator` contains none of
the readers, probes and checks: it takes from `OtlpReader` that a read returns the newest point
of each metric of one instant (`ReadsAreSnapshots`, `LatestWins`), from `Probe` that a query is one
step that gives all its rows or nothing (`ImplementsQueryByQuery`), and from `DeltaCheck` that a series
gets some status. `DeltaCheck` reads the file in one step, which `ReadsAreSnapshots` justifies, and
asks about "the series", which `JoinKeys` says when it may. `Report` starts from the rows
that the checks can produce. This is the reason why the two refinements are
stated at all: they are what lets the other modules be small. `OtlpPoints`, `MetricMap`,
`Texts` and `Tolerance` are pure and used by the others.

### OtlpReader: state and actions

`inodes` are the physical files, `cur` the one the path names (0 between rename
and create), `tail` the line being written. A line's points become visible
together (`FinishLine`), since a line that is met half written does not parse and
is dropped whole. `TearLine` is a collector that stops inside a line and, started
again, writes its next line behind the fragment. `Open` is `os.Open`; `ScanPoint` is
one point of `sc.Scan` and `iterOTLP`, applied to the map that the mode asks for;
`EndOfFile`, `ScanError` and `Return` are `sc.Err()` and the deferred `f.Close()`. A point's
`shape` says how it is written (`Shapes`), so that each `continue` of `iterOTLP` has a
shape that takes it. The reader keeps its descriptor when the path is rotated.

### DebugLog: state and actions

The parser's part is `curMetric`, `curAttrs`, `inAttrs` and `latest`, and has one operator for each
kind of line, in the order in which `ReadDebugLog` tests for them: `ReadName`, `ReadHeader`, `ReadAttr`,
`ReadNumber` with its flush, `ReadUnparsable`, `ReadOther`. The exporter's part prints such lines. Printing a line
and parsing it is one step: the file is only appended to and the parser never
looks ahead, so what it holds after any number of lines is what a read that
ends there returns. What can go wrong between the two is in the exporter:
attribute lines whose key or value the regular expression does not take
(`OddKeys`, `Cut`), lines of other components inside a block, `+Inf` and `NaN`, exemplars,
a collector that restarts in the middle (`Restart`), and a file that ends inside a
number (`TearNumber`). `odd` is the history of the metrics this has happened to.

### MetricMap and Probe: state and actions

The tables are those of the program, entry by entry, because what can be wrong
with them is an entry. They are written with an underscore where Oracle's names
have a blank, which changes no comparison between them. A cell is what `asString` and `toFloat` make of it; a row, like
in `runQuery`, a function from column names in which a repeated column wins.
`SendQuery`, `ScanRow`, `EndRows` and `QueryFails` are one statement: it may fail before its first row or
after any other, and then counts for nothing. `pass` is the two statements of
`sysmetric` in CDB mode, of which each may fail alone. The refinement mapping hides the
first pass's error until the second has ended.

### JoinKeys: state and actions

`Emit` is a point that the collector of this file writes and sends, `EmitElsewhere` one that
another collector of the account sends. `series` is the map that `ReadOTLPSeries` builds, with the
resource of the first point; `folded` remembers which points a key stands for.
Texts are sequences of characters here, since the question is what '=' and ','
inside a value do. `KeysInit`, `KeysSpec` and the other names with `Keys` are so called because
`TextsProofs` reads this module beside `Settings`.

### DeltaCheck: state and actions

`Scrape` writes a point to the file and sends it to New Relic; a row carries the
running totals of the deltas, of the file's own host and of the account, so that
the sum of a window is the difference of two rows. `Land` is ingest lag. `ReadSeries`,
`Skip`, `Ask`, `AnswerValue`, `AnswerNull`, `AnswerEmpty` and `AnswerError` are `checkOne` cut where
the outside world can move: before the file is read, before the query is sent,
before it is answered. `conv = "raw"` is the fault that the check exists for: New Relic
stores the running totals as they are.

### Settings: state and actions

`LoadLine` is one turn of `LoadDotenv`'s loop, `Load` and `RequireNR` are themselves; `env` is the environment
that they share. What trimming, quotes and comments make of a value is what the
code makes of it, character by character; of a number only whether it parses is
kept, and a name is one character.

### Report: state and actions

`Judge` is everything up to the end of a cycle, with every pair of values and every
status that the checks can give a series; `ReportOnce` and `ReportWatch` are what `run` prints, `Wake` the
next turn of the loop. `checkWith`'s sort is not stable and starts from the order of a
map, so that its result is any order that is sorted; the tables' sort is stable.
A sort is a rank: the place of a row is the number of rows before it (`Ranked`).

### Validator: state and actions

`pc` follows `run` and `runOnce`: setup, read, probe (one step per query, each of which
may fail), compare, reread, ingest, report, and then exit or sleep. `Work`,
`RestartDB`, `Scrape` and `RotateFile` move the rest of the world between any two
steps. `inFile` and `inCycle` are history: whether the point in the file (read by
this cycle) was wrong, and whether the database has moved since it was scraped.

## The runs

| run | instance | shows |
|---|---|---|
| `reader` | four lines (ties, out of order, no usable time, dropped points), two files of three points, `FairSpec` | `TypeOK`, `LatestWins`, `SeriesEndpoints`, `SecondReadCoversFirst`, `ReadsAreSnapshots`, `ReadReturns` |
| `debug_log` | two metrics, a readable and an unreadable key, a value that is cut, two numbers one of which begins the other, two points | `TypeOK`, `ParsedIsPrinted`, `NothingInvented`, `MetricIsSeen` |
| `probe` | a database with every name of the tables, and all tables of up to two rows of each query, in both modes | `TypeOK`, `EveryRowIsExpected`, `TypesAgree`, `PerPdbWins`, `InstanceFillsGaps`, `ImplementsQueryByQuery` |
| `join_keys` | two keys, four values with '=' and ',', three hosts, three points | `KeysTypeOK`, `RowsNameTheirSeries`, `WhereIsTheSeries` |
| `delta` | two hosts scoped by host, 3 rows, values 0..2, torn lines | `TypeOK`, `WindowExact`, `CounterTelescopes`, `GaugeIsLatest`, `OkHasEvidence`, `RawCounterIsCaught` |
| `settings` | all short lines; files of two lines over environments with gaps; environments with any two settings spoilt | `TypeOK`, `SettingIsDeclared`, `ReadyIsUsable` |
| `report` | three series of two metrics, a pair of values for each status, all options, two epsilons | `TypeOK`, `FailureIsShown`, `SummaryAddsUp` |
| `validator_once` | a counter and a gauge from two queries | `TypeOK`, `NoFalseAlarm`, `CounterNeverAhead`, `WrongValueIsFound`, `ExitCodeIsTrue` |
| `validator_ingest` | a mapped and an unmapped metric, `--check-ingest`, `--metric` | `ExitCodeIsTrue`, `OneShotEnds` |
| `validator_watch` | the same, `--watch` | `NoFalseAlarm`, `WatchGoesOn` |
| `validator_exit_doc`, `settings_comment_doc` | small | that the code does not do what a document or comment says; see below |

**Bounds.** A series' fold depends on the order of at most three points (an
endpoint, a challenger and a tie), so files of three points over two keys show
every branch, and the proofs below remove the bound. Two files are enough for a
reader to hold one while the path names another or nothing. The debug log's
parser forgets at every value, so two points of two metrics are enough for what
the first leaves behind to spoil the second; the bound is removed by proof as
well. `Probe` treats queries one after the other and rows one by one: two rows show
every way in which one can hide another, and the database with all names shows
that no two entries of the tables collide. Only the statements that have rows
there, and the two of `sysmetric`, may fail, since the others have nothing to lose.
`JoinKeys`' values are chosen so that one of them reads like two attributes; a series,
a point with more attributes and a point of another host make three. In
`DeltaCheck` a millisecond is two ticks and scrapes of a host are at least four
apart, so that timestamps fall before, on and after a millisecond's boundary; a
window has a row before it, one in it and one after it, or a foreign one; the
proofs remove the bound. In `Settings` a value of five characters holds a quote, a
blank and a comment in any order, two lines with one name show which wins, and
any two settings can be wrong at once. In `Validator` a metric that is 0 or 1 and a
receiver that is wrong by 1 give equality, drift both ways and a wrong value
that drift hides; one restart is enough, as a second one sets the same marks.
`AbsEpsilon` is 0 there (the code's default is 1) because the values are small;
tolerances are the code's defaults, 5 % and 2 %.

**Deadlock** is not checked: a one-shot run, a read, a probe and the loading of the
settings end, and the environment of every instance is bounded by its constants.

**Fairness.** `OtlpReader` has weak fairness of `ScanPoint \/ EndOfFile`: the loop of
`scanLines` runs without waiting for anyone. The collector gets none. That a read
returns although the file grows is due to rotation (`max_megabytes` in the
collector's configuration, `RotateAt` here), not to fairness. `Validator` has weak
fairness of the validator's own steps, among them `CheckSeries`, which ends after 30 s
whatever New Relic does. `QuerySucceeds` and `QueryFails` have none, since `db.Query` is
called without a context or a timeout; `OneShotEnds` and `WatchGoesOn` therefore have
to allow for a probe that waits for Oracle for ever, and say that nothing else
can stop the program. The other modules state safety only.

### What the code does and a document does not say

Two runs show a disagreement by a counterexample:

- `EitherMismatchExitsOne`: if the second read of the file fails, the mismatch that
  the DB check has found is dropped and the exit code is 2; `SPEC.md:350` promises 1.
- `CommentIsNoValue`: `KEY= # note` sets `KEY` to `# note`, because the value is trimmed before the
  comment is looked for; the comment at `config.go:68` says that an inline comment
  starts at the first '#' that follows whitespace.

Others are named in the properties, as the exceptions under which these hold:

- `SPEC.md:319` ends the window at `tN_ms`; the code asks for `tN_ms + 1`, and has to: with the
  documented window, the mutant `BuildDeltaQuery_ToLast`, a property of `DeltaCheck` fails.
- A window of which New Relic has only a part gives `INGEST_MISMATCH` and fails the run;
  `SPEC.md:355` speaks of `INGEST_NO_DATA`. `CounterTelescopes` and `GaugeIsLatest` therefore ask for `Landed`.
- A JSON null decodes into 0 without an error, so that a null column is compared
  as the number 0; the comment at `nrql.go:108` has it as no data. `OkHasEvidence` says that only
  a series of 0 can pass in this way.
- A gauge's or counter's WHERE clause also selects points with further attributes
  (`NoRicherPoint`), and two hosts in one file make one series that is asked about under
  the name of one (`OneHost`); `COMPARISON.md:296` says that both identify the same
  logical series. A comma inside a value breaks `AttrsFromKey` (`Plain`).
- The metrics of a query that failed are reported as `MISSING_IN_DB`; `USAGE.md:152` keeps that
  status for metrics without a mapping.
- The debug log is not filtered by scope; `SPEC.md:40` says that emitted metrics are.
- A required setting of blanks only passes `Load` (`ReadyIsUsable` claims the path and the
  password only), and with a negative epsilon `--json` prints an empty list for
  results that cannot be encoded (`FailureIsShown`).
- A per-PDB row whose value is null hides the instance-wide value of its metric
  (`InstanceFillsGaps`), as it does in the receiver that this code mirrors.

## What is proved

In `OtlpReaderProofs`, for all lines, windows, file sizes and numbers of files:

| theorem | says |
|---|---|
| `TypeCorrect` | `Spec => []TypeOK` |
| `LatestWinsAlways` | `Spec => []LatestWins` |
| `SeriesEndpointsAlways` | `Spec => []SeriesEndpoints` |
| `SecondReadCoversFirstAlways` | `Spec => []SecondReadCoversFirst` |
| `ReadIsSnapshot` | `Spec => ReadsAreSnapshots`, the refinement of `SnapshotRead` |

They assume of the constants only what `OtlpReader` says of them: lines are
sequences of raw points, windows are natural numbers.

*Argument.* `LatestWins` speaks of `CHOOSE` over positions and is not inductive in a form
that a prover can follow. `OtlpPointsProofs` says instead what it means that a map
*fits* a sequence of points (`LatestFits`, `SeriesFits`): for each key some position of the
sequence is the newest, oldest or first read, and the map holds its values. Its
lemmas are that the empty map fits the empty sequence, that one step of the code
keeps the fit when one point is added (`LatestFitsStep`, `SeriesFitsStep`), and that a map
that fits is the declared one, because extremes are unique (`LatestFitsIsNewestOf`,
`SeriesFitsIsSeriesOf`). The inductive invariant `IInv` is `TypeOK`, that a reader at rest holds
nothing, and that the map of a reader at work fits what it has scanned. The
collector keeps it because files only grow at the end (`PrefixKept`). The
refinement maps `result` to the finished map; `EndOfFile` is the abstract `Succeed`,
since what was scanned is then the whole file. For the second read, a further
invariant remembers that the first map fits a prefix of its file.

In `ValidatorProofs`, for all metrics, queries, tolerances, values and restarts, in
one-shot and in watch mode:

| theorem | says |
|---|---|
| `TypeCorrect` | `Spec => []TypeOK` |
| `NoFalseAlarmAlways` | `Spec => []NoFalseAlarm` |
| `CounterNeverAheadAlways` | `Spec => []CounterNeverAhead` |
| `WrongValueIsFoundAlways` | `Spec => []WrongValueIsFound` |
| `ExitCodeIsTrueAlways` | `Spec => []ExitCodeIsTrue` |

They assume that the metric sets are disjoint, that every mapped metric has a
query, that `Skew` is positive and that tolerances and bounds are natural numbers.

*Argument.* `NoFalseAlarm` speaks of the final rows only, and nothing in them says
why two values agree. The invariant follows a value on its way instead: one
predicate, `Holds(m, a, d, h)`, says what a value `a` taken from a database that is now
at `d` can be, given the marks `h` (equal if neither wrong nor moved, off by `Skew` if
wrong and not moved, not ahead if a counter without a restart). It holds of the
file and the database (`FileTrue`), of the emitted map and the database until the
metric is probed (`EmittedTrue`), and of the emitted and the expected map from then
on (`ProbedTrue`). Reading the file passes the first to the second, a query that
answers passes the second to the third. The theorems about rows then need only
that equal numbers agree (`EqualAgrees`), that a noticeable fault does not
(`SkewDisagrees`), and which rows there are (`VerdictRows`).

In `DebugLogProofs`, for all metrics, attributes, values and numbers of points:

| theorem | says |
|---|---|
| `TypeCorrect` | `Spec => []TypeOK` |
| `ParsedIsPrintedAlways` | `Spec => []ParsedIsPrinted` |
| `NothingInventedAlways` | `Spec => []NothingInvented` |
| `MetricIsSeenAlways` | `Spec => []MetricIsSeen` |

They assume that `NoMetric` and `None` are no metric and no number, and that a value is cut to
a value, an empty one to itself.

*Argument.* Between the lines of a block the parser holds a part of a point, of
which the properties say nothing. `Aligned` says that parser and exporter are in
step: the parser's metric is the exporter's block, and, unless the block was
disturbed, its attributes are those printed so far (`Collected`). `Held` says what is left of
this when it was disturbed: what the parser holds are attributes of one point
that was printed under the same metric. `FlushStep` is what a value does to the map; a
step is one of four kinds - a line that leaves the map alone, a number, an
exemplar, a number cut short - and each kind is one lemma per property.

In `DeltaCheckProofs`, for all hosts, clocks, values, gaps, tolerances and windows:

| theorem | says |
|---|---|
| `TypeCorrect` | `Spec => []TypeOK` |
| `WindowExactAlways` | `Spec => []WindowExact` |
| `CounterTelescopesAlways` | `Spec => []CounterTelescopes` |
| `GaugeIsLatestAlways` | `Spec => []GaugeIsLatest` |
| `OkHasEvidenceAlways` | `Spec => []OkHasEvidence` |
| `RawCounterIsCaughtAlways` | `Spec => []RawCounterIsCaught` |

They assume that `Own` is not among the other hosts, that a millisecond and the gauge's
slack are not zero, that tolerances are natural numbers, and that a host's
scrapes are at least the slack apart (`ScrapeAssumption`: the slack is one second, and the code takes it
for granted that no collector scrapes faster; with a shorter interval the slack
reaches a newer point and `GaugeIsLatest` does not hold).

*Argument.* The verdict depends on sums over rows and on greatest rows, which a
prover without induction can not reach from the definitions. The invariant
`Base` carries them along instead: `Lasts` (every set of rows has a last one), `Clock` (rows are in
the order of time and two of `Own`'s a scrape interval apart, hence in different
milliseconds), `Totals` (between two rows of `Own` without a reset the running total grows
by the difference of their values - or, unconverted, by at least the last value -
and rows of others leave it alone), `FileTrue` (every point of the file was scraped, and
every window of it has its extremes, by the lemmas of `OtlpPointsProofs`), `SeriesTrue` and `QueryTrue` (what
the check holds is of such points). From it follow what the window selects
(`WindowIs`) and what its sum and its latest value are (`SumAnswer`, `LatestAnswer`). A verdict speaks of the
rows visible when it was made, so that later steps leave it true (`VerdictStays`).

In `ProbeProofs`, for any rows of any statement, any failures, both modes:

| theorem | says |
|---|---|
| `ProbeTypeOK` | `Spec => []TypeOK` |
| `ProbeAsksQueryByQuery` | `Spec => ImplementsQueryByQuery`, the refinement of `QueryByQuery` |
| `ProbeTypesAgree` | `Spec => []TypesAgree` |
| `ProbePerPdbWins` | `Spec => []PerPdbWins` |
| `ProbeInstanceFillsGaps` | `Spec => []InstanceFillsGaps` |
| `ProbeEveryRowIsExpected` | `Spec => []EveryRowIsExpected` |

They assume of a database what `DatabasesAssumption` says: a cell has a text and at most one
number, the rows of `sysmetric` have its two columns, and two rows of a statement with
the same texts in the columns that name a point are alike in all that names it.
The tables of the program are not assumed: what is used of them is proved from
their entries.

*Argument.* The invariant has two halves. `Control` says where the loop is: the rows read are
the first rows of the statement, the first pass left the rows of its statement
or nothing, and every failure is of a statement behind the loop. From it, each
step of `Probe` is a step of `QueryByQuery` or a stutter (`StepIsAsked`). The program puts points into
the map one after the other, the abstract specification takes the last point of
each key; that these give one map is an induction over the points
(`FoldIsUpdate`, `PutAllIsUpdated`). `Data` says what the map holds: each entry is a point of a query that
was answered, each key of such a query is there, and of two points with a key
the later one is. Both need to know what a point tells of its row. `Marks` is this
knowledge, proved extractor by extractor: a point's metric belongs to its query
and to no other (`OneHome`), its type is what `ValueTypeOf` says, and its metric and attributes
determine the texts of the row that name it (`KeyTellsNames`).

In `TextsProofs`, about `Settings`, for every environment and every file of lines of any length:

| theorem | says |
|---|---|
| `SettingsTypeOK` | `Spec => []TypeOK` |
| `SettingIsDeclaredAlways` | `Spec => []SettingIsDeclared` |
| `ReadyIsUsableAlways` | `Spec => []ReadyIsUsable` |

They assume that an environment has texts or nothing for its names and that a
file is a sequence of texts, without NUL in either (`StartsAssumption`).

*Argument.* `SettingIsDeclared` compares two readings of a line. The code trims the line, cuts it at
the first '=', trims again, and then looks for quotes and comments; the grammar
of the property speaks of positions in the line as it stands. `DefinedIsAssigned` shows that they
agree on names and `ValueIsDocumented` on values, from lemmas about what trimming leaves and
what the first occurrence of a character is. `FileLoaded` is the loop's invariant: a name
that the process did not set has the value of the first line that defines it.
`Loaded` says that from `Load` on the environment does not move, so that the configuration is
what was found acceptable, and that the fields that are trimmed were looked at
after trimming; `ScopeNamed`, by induction over the parts, that no name of the scope is
empty.

In `TextsProofs`, about `JoinKeys`, for all finite sets of keys, all values, all hosts and any number of
points:

| theorem | says |
|---|---|
| `JoinKeysTypeOK` | `KeysSpec => []KeysTypeOK` |
| `RowsNameTheirSeriesAlways` | `KeysSpec => []RowsNameTheirSeries` |
| `WhereIsTheSeriesAlways` | `KeysSpec => []WhereIsTheSeries` |

They assume that attribute keys are finitely many, not empty, and free of '=' and
',' (the receiver's are `tablespace_name` and the like); values are any texts.

*Argument.* The invariant `Keyed` says that each point is filed under the key that `NormAttrs` makes of
it. The rest is about texts. `Less` is a total order (`LessIsOrder`), so that ranks are a bijection
(`RankGrows`) and the sorted parts are all the parts, once (`SortedHasAll`). Splitting a joined
text at its commas gives the parts again if none has a comma (`JoinedIsSplit`), and cutting a
part at its first '=' gives key and value, whatever the value (`PairIsCut`). Hence a key without
commas in its values names one set of attributes, and `AttrsFromKey` finds it, and the WHERE
clause made of it selects the points that have it.

In `ReportProofs`, for every finite set of series, all values, statuses and options:

| theorem | says |
|---|---|
| `ReportTypeOK` | `Spec => []TypeOK` |
| `FailureIsShownAlways` | `Spec => []FailureIsShown` |
| `SummaryAddsUpAlways` | `Spec => []SummaryAddsUp` |

They assume that metrics and attributes are numbered in their alphabetical
order, that the ingest check's statuses are among those its table can sort, and
that `nil` is no slice.

*Argument.* A table is its rows by rank. Counting predecessors in a strict order of a
finite set gives every rank once (`RankBijection`), so that the table has each row that is kept,
once (`TableIs`). A row that is no mismatch is behind all mismatches, whose number is therefore
at most its place less one (`TableOnTop`); and the places and the rows of a status are in bijection,
so that there are as many (`TableCounts`). The invariant adds that the rows of a cycle have
statuses of their own table (`RowsTrue`), which the filters and sorts keep, and that what has
been printed is evidence.

**Assumptions.** All theorems rest on the named `ASSUME`s of the modules, which TLC
evaluates in every run, and on nothing else.

**Inductions.** The library's induction theorems can not be used with the installed
provers, because they take an operator as a parameter. `ProbeProofs` and `TextsProofs` use the fact they
are made of instead, that every nonempty set of numbers has a least element
(`NatLessThanWellFounded`, `WFMin`): the set of counterexamples to a fact about the first *n* elements has
none. In this way facts about folds and recursive functions with concrete arguments
are proved for sequences of any length.

**Only model-checked**: the liveness properties `ReadReturns`, `OneShotEnds` and `WatchGoesOn`, which need fairness and are out
of the prover's reach, and the two counterexamples to documents. Every invariant
and both refinements that a run checks are theorems as well.

## What is not modelled

- Column widths, number formats and the text of the reports; the text of SQL and
  of NRQL. In particular a value is escaped for NRQL and the query then put into a
  GraphQL string (`nrql.go:62`): what the two lexers at New Relic make of it is not in the
  repository, and a model of them would be a guess.
- Which column of an answer `ParseScalar` takes when there are several: each query asks for one.
- Floating point: values are integers, tolerances whole percents. A NaN occurs only
  as a difference that cannot be printed (`Report`).
- `attrValue`'s conversion of attributes that are no strings: an attribute is a text
  from the start.
- A database that moves during a probe is in `Validator` and not in `Probe`, where it would hide
  what a row has to do with its entry.
- The time watch mode sleeps; an interval of zero or less makes it spin.
- `run.sh`, `Dockerfile`, `docker-compose.yml`, which keep no state.

## What is left

1. `OtlpReader`, `Probe` and `DeltaCheck` promise what `Validator` and `Report` start from, in words (see *The modules*). The
   promises could be stated as formulas: that `Validator` with its one-step read and its
   one-step queries is implemented by a cycle in which the reader and the probe
   of their own modules run.
2. `EveryRowIsExpected` has, as its exception, a later row with the same names. Which of Oracle's
   statements can return two such rows depends on their GROUP BY clauses, which
   are not modelled.
3. Time in watch mode: an interval of zero or less, and a query that never returns,
   are only allowed for in the liveness properties.
