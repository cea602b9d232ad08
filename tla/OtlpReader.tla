----------------------------- MODULE OtlpReader -----------------------------
(***************************************************************************)
(* Package ingest reading the collector's OTLP/JSON file (scanLines,       *)
(* ReadOTLPJSON, ReadOTLPSeries) while the collector's file exporter goes  *)
(* on writing, tearing and rotating it.                                    *)
(*                                                                         *)
(* A physical file is the sequence of the points of its complete lines; a  *)
(* line under way is `tail'.  A line of several points becomes visible at  *)
(* once, since a reader that meets half of it at the end of the file drops *)
(* it whole.  The exporter is not in the repository: it is modelled from   *)
(* collector/file-exporter.partial.yaml and from what the reader expects.  *)
(***************************************************************************)
EXTENDS OtlpPoints

CONSTANTS
  Keys, Resources, Values,  \* of the points
  Lines,       \* the lines the collector may write: sequences of raw points
  Windows,     \* the lower bounds runOnce may compute for ReadOTLPSeries
  RotateAt,    \* points per file: the exporter's rotation.max_megabytes
  MaxInodes    \* bound of the model: physical files made

RawPoint ==
  [key : Keys, res : Resources, ts : Int, val : Values, shape : Shapes]

ASSUME LinesAssumption   == \A l \in Lines : l \in Seq(RawPoint)
ASSUME WindowsAssumption == Windows \subseteq Nat
ASSUME BoundsAssumption  == RotateAt \in Nat /\ MaxInodes \in Nat

VARIABLES
  inodes,  \* physical files made so far, oldest first
  cur,     \* index of the file the path names, 0 between rename and create
  tail,    \* points of the line being written to inodes[cur]
  phase,   \* the reader: "idle", "scan", "done", "failed"
  mode,    \* "latest" (ReadOTLPJSON) or "series" (ReadOTLPSeries)
  since,   \* sinceNanos
  fd,      \* index of the file that is open, 0 when none
  pos,     \* points of inodes[fd] read so far
  latest,  \* the map ReadOTLPJSON builds
  series,  \* the map ReadOTLPSeries builds
  prior    \* history: file and result of the last successful ReadOTLPJSON

collectorVars == <<inodes, cur, tail>>
readerVars    == <<phase, mode, since, fd, pos, latest, series, prior>>
vars          == <<collectorVars, readerVars>>

Empty == << >>   \* the empty map

Init ==
  /\ inodes = << >> /\ cur = 0 /\ tail = << >>
  /\ phase = "idle" /\ mode = "latest" /\ since = 0
  /\ fd = 0 /\ pos = 0
  /\ latest = Empty /\ series = Empty
  /\ prior = [fd |-> 0, latest |-> Empty]

-----------------------------------------------------------------------------
(* The file exporter. *)

CreateFile ==
  /\ cur = 0
  /\ Len(inodes) < MaxInodes
  /\ inodes' = Append(inodes, << >>)
  /\ cur' = Len(inodes')
  /\ UNCHANGED <<tail, readerVars>>

StartLine(l) ==
  /\ cur # 0
  /\ tail = << >>
  /\ Len(inodes[cur]) + Len(l) <= RotateAt
  /\ tail' = l
  /\ UNCHANGED <<inodes, cur, readerVars>>

FinishLine ==
  /\ tail # << >>
  /\ inodes' = [inodes EXCEPT ![cur] = @ \o tail]
  /\ tail' = << >>
  /\ UNCHANGED <<cur, readerVars>>

Torn(l) == [i \in DOMAIN l |-> [l[i] EXCEPT !.shape = "torn"]]

\* The collector dies inside a line; restarted, it appends the next line right
\* behind the fragment, and the two together are not a JSON document.
TearLine(l) ==
  /\ tail # << >>
  /\ Len(inodes[cur]) + Len(tail) + Len(l) <= RotateAt
  /\ tail' = Torn(tail \o l)
  /\ UNCHANGED <<inodes, cur, readerVars>>

\* The full file is renamed; until CreateFile the path names nothing.
Rotate ==
  /\ cur # 0
  /\ tail = << >>
  /\ cur' = 0
  /\ UNCHANGED <<inodes, tail, readerVars>>

-----------------------------------------------------------------------------
(* The reader. *)

Open(m, s) ==
  /\ phase = "idle"
  /\ cur # 0
  /\ m = "latest" => s = 0
  /\ phase' = "scan"
  /\ mode' = m /\ since' = s
  /\ fd' = cur
  /\ UNCHANGED <<collectorVars, pos, latest, series, prior>>

\* Mutant: the error of os.Open is not looked at.
OpenMissing_Ignored(m, s) ==
  /\ phase = "idle"
  /\ cur = 0
  /\ m = "latest" => s = 0
  /\ phase' = "scan"
  /\ mode' = m /\ since' = s
  /\ UNCHANGED <<collectorVars, fd, pos, latest, series, prior>>

OpenMissing(m, s) ==
  /\ phase = "idle"
  /\ cur = 0
  /\ m = "latest" => s = 0
  /\ phase' = "failed"
  /\ mode' = m /\ since' = s
  /\ UNCHANGED <<collectorVars, fd, pos, latest, series, prior>>

ScanPoint ==
  /\ phase = "scan"
  /\ pos < Len(inodes[fd])
  /\ pos' = pos + 1
  /\ LET p == inodes[fd][pos + 1]
     IN IF mode = "latest"
        THEN /\ latest' = NewestStep(latest, p)
             /\ UNCHANGED series
        ELSE /\ series' = SeriesStep(series, p, since)
             /\ UNCHANGED latest
  /\ UNCHANGED <<collectorVars, phase, mode, since, fd, prior>>

\* Mutant: at the end of the file the reader starts over.
EndOfFile_StartsOver ==
  /\ phase = "scan"
  /\ pos = Len(inodes[fd])
  /\ pos' = 0
  /\ UNCHANGED <<collectorVars, phase, mode, since, fd, latest, series, prior>>

\* At the end of the file a line still being written is the scanner's last
\* token; it does not parse and is dropped.
EndOfFile ==
  /\ phase = "scan"
  /\ pos = Len(inodes[fd])
  /\ phase' = "done"
  /\ UNCHANGED <<collectorVars, mode, since, fd, pos, latest, series, prior>>

\* Mutant: sc.Err() is not returned, so that a broken read looks complete.
ScanError_Ignored ==
  /\ phase = "scan"
  /\ phase' = "done"
  /\ UNCHANGED <<collectorVars, mode, since, fd, pos, latest, series, prior>>

\* An I/O error, or a line beyond the scanner's 16 MiB.
ScanError ==
  /\ phase = "scan"
  /\ phase' = "failed"
  /\ UNCHANGED <<collectorVars, mode, since, fd, pos, latest, series, prior>>

\* The caller takes the result (or the error) and the file is closed.
Return ==
  /\ phase \in {"done", "failed"}
  /\ phase' = "idle"
  /\ fd' = 0
  /\ prior' = IF phase = "done" /\ mode = "latest"
              THEN [fd |-> fd, latest |-> latest] ELSE prior
  /\ pos' = 0
  /\ latest' = Empty /\ series' = Empty
  /\ UNCHANGED <<collectorVars, mode, since>>

-----------------------------------------------------------------------------
Collector ==
  \/ CreateFile
  \/ \E l \in Lines : StartLine(l)
  \/ FinishLine
  \/ \E l \in Lines : TearLine(l)
  \/ Rotate

Reader ==
  \/ \E m \in {"latest", "series"}, s \in Windows \cup {0} :
       Open(m, s) \/ OpenMissing(m, s)
  \/ ScanPoint
  \/ EndOfFile
  \/ ScanError
  \/ Return

Next == Collector \/ Reader

Spec == Init /\ [][Next]_vars

\* The read is a loop of the validator's only goroutine; the collector, and
\* the errors of the disk, owe it nothing.
FairSpec == Spec /\ WF_vars(ScanPoint \/ EndOfFile)

-----------------------------------------------------------------------------
(* Properties. *)

EmittedPoint == [key : Keys, res : Resources, ts : Int, val : Values]
SeriesRecord ==
  [res : Resources, firstVal : Values, firstTS : Int,
   lastVal : Values, lastTS : Int, nPoints : Nat]

\* m is a map from join keys to elements of S.
IsMap(m, S) ==
  /\ m = [k \in DOMAIN m |-> m[k]]
  /\ \A k \in DOMAIN m : k \in Keys /\ m[k] \in S

\* Every variable has its type, and the open file is one that exists.
TypeOK ==
  /\ inodes \in Seq(Seq(RawPoint))
  /\ cur \in 0..Len(inodes)
  /\ tail \in Seq(RawPoint)
  /\ tail # << >> => cur # 0
  /\ phase \in {"idle", "scan", "done", "failed"}
  /\ mode \in {"latest", "series"}
  /\ since \in Nat
  /\ fd \in 0..Len(inodes)
  /\ pos \in Nat
  /\ phase \in {"scan", "done"} => fd # 0
  /\ fd # 0 => pos <= Len(inodes[fd])
  /\ IsMap(latest, EmittedPoint)
  /\ IsMap(series, SeriesRecord)
  /\ prior.fd \in 0..Len(inodes)
  /\ IsMap(prior.latest, EmittedPoint)

Scanned == SubSeq(inodes[fd], 1, pos)

\* ReadOTLPJSON's map holds, for every series that the part of the file read
\* so far emits and for no other, its newest point, the one written later
\* when two are equally new; whatever the order of the timestamps, and
\* whatever the collector appended, tore or rotated while the file was open.
LatestWins ==
  phase \in {"scan", "done"} /\ mode = "latest" => latest = NewestOf(Scanned)

\* ReadOTLPSeries' map holds, for every series with a point in the window and
\* for no other, its oldest and newest points of the window and their number.
SeriesEndpoints ==
  phase \in {"scan", "done"} /\ mode = "series" =>
    series = SeriesOf(Scanned, since)

Wanted(ps, m, s) == IF m = "latest" THEN NewestOf(ps) ELSE SeriesOf(ps, s)

SnapshotOfOneFile ==
  INSTANCE SnapshotRead WITH
    Meaning <- Wanted,
    result  <- IF phase # "done" THEN Empty
              ELSE IF mode = "latest" THEN latest ELSE series

\* The read implements an atomic snapshot of one file: a read that succeeds
\* returns the meaning of the complete lines, at the instant it ends, of the
\* one file that the path named when it began.
ReadsAreSnapshots == SnapshotOfOneFile!Spec

\* runOnce reads the path twice, first for the DB check and then for the
\* ingest check.  If no rotation came between, a whole-file second read knows
\* every series of the first and ends it no earlier: the ingest check covers
\* all that the DB check compared, with data at least as new.
SecondReadCoversFirst ==
  phase = "done" /\ mode = "series" /\ since = 0 /\ fd = prior.fd =>
    \A k \in DOMAIN prior.latest :
      /\ k \in DOMAIN series
      /\ series[k].lastTS >= prior.latest[k].ts
      /\ series[k].firstTS <= prior.latest[k].ts

\* A read that was begun returns, even though the collector may append while
\* it runs: rotation bounds the file that the reader has open.
ReadReturns == phase = "scan" ~> phase # "scan"
=============================================================================
