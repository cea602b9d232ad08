------------------------------- MODULE Probe --------------------------------
(***************************************************************************)
(* Package dbprobe: Probe runs every query once, a row at a time, and puts *)
(* the points of its rows into the map of expected values.  Whatever goes  *)
(* wrong - the statement, its columns, the scan of a row, the error after  *)
(* the last one - is recorded and the loop goes on.  That no half-read     *)
(* query is ever used, that each is one step as far as the rest of the     *)
(* program can see, is the refinement of QueryByQuery; the module          *)
(* Validator takes it for granted.                                         *)
(*                                                                         *)
(* The database stands still during a probe: Validator has its movement.   *)
(***************************************************************************)
EXTENDS MetricMap, FiniteSets

CONSTANTS
  Databases,   \* see QueryByQuery
  MayFail(_)   \* of a database: the statements that may fail

AllStatements == {AllQueryKeys[i] : i \in DOMAIN AllQueryKeys} \X {"pdb", "cdb"}

\* The columns by which a query names its series; all others are numbers.
NameColumns(queryKey) ==
  CASE queryKey = "sysstat" -> {"NAME", "PDB_NAME"}
    [] queryKey = "session_count" -> {"TYPE", "STATUS", "PDB_NAME"}
    [] queryKey = "resource_limits" -> {"RESOURCE_NAME"}
    [] queryKey = "tablespace" -> {"TABLESPACE_NAME", "PDB_NAME"}
    [] queryKey = "sga" -> {"NAME"}
    [] queryKey = "sysmetric" -> {"METRIC_NAME", "PDB_NAME"}
    [] queryKey = "osstat" -> {"STAT_NAME"}
    [] OTHER -> {}

\* What tells the rows of a table apart: their texts, not their numbers.
Identity(row) == [c \in DOMAIN row |-> IF row[c].num = {} THEN row[c].text ELSE ""]

\* A cell is one number or none.
IsCell(cell) == \A m, n \in cell.num : m \in Int /\ m = n

(***************************************************************************)
(* What the statements of metricmap promise of their rows: cells under the *)
(* columns selected, and no text that varies but in the name columns (two  *)
(* rows with the same names have the same columns and the same texts).     *)
(***************************************************************************)
ASSUME DatabasesAssumption ==
  \A d \in Databases : \A st \in AllStatements :
    /\ d[st] \in Seq(Seq(STRING \X [text : STRING, num : SUBSET Int]))
    /\ \A i \in DOMAIN d[st] : \A c \in DOMAIN d[st][i] : IsCell(d[st][i][c][2])
    /\ st[1] = "sysmetric" =>
         \A i \in DOMAIN d[st] : {"METRIC_NAME", "VALUE"} \subseteq DOMAIN RowMap(d[st][i])
    /\ \A i, j \in DOMAIN d[st] :
         LET r == RowMap(d[st][i])
             s == RowMap(d[st][j])
         IN (\A c \in NameColumns(st[1]) : asString(r, c) = asString(s, c)) =>
              Identity(r) = Identity(s)

VARIABLES
  db, cdb,
  next,      \* position in AllQueryKeys
  pass,      \* of the CDB's sysmetric: 1 per PDB, 2 instance-wide; else 1
  reading,   \* a statement was sent and its rows are read
  rows,      \* the rows read so far
  conRows,   \* what runOrLog returned for the first pass
  expected, errors

vars == <<db, cdb, next, pass, reading, rows, conRows, expected, errors>>

Asked == INSTANCE QueryByQuery WITH
  errors <- IF pass = 2 THEN errors \ {<<"sysmetric", "cdb">>} ELSE errors

TypeOK ==
  /\ cdb \in BOOLEAN
  /\ next \in 1..Len(AllQueryKeys) + 1
  /\ pass \in {1, 2} /\ reading \in BOOLEAN
  /\ \A k \in DOMAIN expected : Key(expected[k]) = k /\ expected[k].value \in Int
  /\ errors \subseteq MayFail(db)

Init ==
  /\ db \in Databases /\ cdb \in BOOLEAN
  /\ next = 1 /\ pass = 1 /\ reading = FALSE
  /\ rows = <<>> /\ conRows = <<>>
  /\ expected = <<>> /\ errors = {}

key == AllQueryKeys[next]

TwoPasses == key = "sysmetric" /\ cdb

\* QuerySQL: the variant for the CDB root, or the plain one.
QuerySQL == <<key, IF cdb /\ pass = 1 THEN "cdb" ELSE "pdb">>

\* Mutant: the map is by metric, whatever the attributes.
PutPoint_ByMetric(m, p) ==
  [k \in DOMAIN m \cup {<<p.metric, {}>>} |-> IF k = <<p.metric, {}>> THEN p ELSE m[k]]

PutPoint(m, p) ==
  [k \in DOMAIN m \cup {Key(p)} |-> IF k = Key(p) THEN p ELSE m[k]]

PutAll(points) == expected' = FoldLeft(PutPoint, expected, points)

SendQuery ==
  /\ next \in DOMAIN AllQueryKeys /\ ~reading
  /\ reading' = TRUE /\ rows' = <<>>
  /\ UNCHANGED <<db, cdb, next, pass, conRows, expected, errors>>

ScanRow ==
  /\ reading /\ Len(rows) < Len(db[QuerySQL])
  /\ rows' = Append(rows, RowMap(db[QuerySQL][Len(rows) + 1]))
  /\ UNCHANGED <<db, cdb, next, pass, reading, conRows, expected, errors>>

\* The end of a statement with result rs (none if it failed).
UseRows(rs) ==
  /\ reading' = FALSE /\ rows' = <<>>
  /\ \/ /\ TwoPasses /\ pass = 1
        /\ pass' = 2 /\ conRows' = rs
        /\ UNCHANGED <<next, expected>>
     \/ /\ TwoPasses /\ pass = 2
        /\ PutAll(ExpectedForSysmetricCDB(conRows, rs))
        /\ pass' = 1 /\ conRows' = <<>> /\ next' = next + 1
     \/ /\ ~TwoPasses
        /\ PutAll(ExpectedFor(key, rs))
        /\ next' = next + 1
        /\ UNCHANGED <<pass, conRows>>
  /\ UNCHANGED <<db, cdb>>

EndRows ==
  /\ reading /\ Len(rows) = Len(db[QuerySQL])
  /\ UseRows(rows)
  /\ UNCHANGED errors

\* Mutant: what was read in front of the failure is used.
QueryFails_UsesRows ==
  /\ reading /\ QuerySQL \in MayFail(db)
  /\ UseRows(rows)
  /\ errors' = errors \cup {QuerySQL}

\* Query, Columns, a Scan or rows.Err returns an error: after any number
\* of rows, all of which are dropped.
QueryFails ==
  /\ reading /\ QuerySQL \in MayFail(db)
  /\ UseRows(<<>>)
  /\ errors' = errors \cup {QuerySQL}

Next == SendQuery \/ ScanRow \/ EndRows \/ QueryFails

Spec == Init /\ [][Next]_vars

-----------------------------------------------------------------------------
(* Properties. *)

done == next = Len(AllQueryKeys) + 1

Table(st) == [i \in DOMAIN db[st] |-> RowMap(db[st][i])]

\* The statements of this mode that were answered.
Answered ==
  {<<AllQueryKeys[i], IF cdb THEN "cdb" ELSE "pdb">> : i \in DOMAIN AllQueryKeys}
    \ errors

(***************************************************************************)
(* The loop over queries, rows and passes behaves as if every statement    *)
(* were answered whole or not at all (runQuery, runOrLog, Probe).          *)
(***************************************************************************)
ImplementsQueryByQuery == Asked!Spec

(***************************************************************************)
(* Nothing is lost in the map: every point of every row of an answered     *)
(* statement has its entry at the end, with its value, unless a later row  *)
(* of the same table has the very same names.  So no two names, no two     *)
(* PDBs and no two queries share a series.                                 *)
(***************************************************************************)
EveryRowIsExpected ==
  done => \A st \in Answered : \A i \in DOMAIN db[st] :
    LET t == Table(st)
        ps == PointsOf(st[1], t[i])
    IN (\A j \in i + 1..Len(t) : Identity(t[j]) # Identity(t[i])) =>
         \A n \in DOMAIN ps :
           Key(ps[n]) \in DOMAIN expected /\ expected[Key(ps[n])] = ps[n]

(***************************************************************************)
(* The two checks agree on what a metric is: the type of an expected value *)
(* (which tolerance the DB check takes) is the one ValueTypeOf gives (a    *)
(* delta or a latest value in the ingest check).                           *)
(***************************************************************************)
TypesAgree ==
  \A k \in DOMAIN expected : expected[k].type = ValueTypeOf(expected[k].metric)

ConRows == Table(<<"sysmetric", "cdb">>)
SysRows == Table(<<"sysmetric", "pdb">>)
NamesOf(t) == {t[i]["METRIC_NAME"].text : i \in DOMAIN t}

(***************************************************************************)
(* CDB mode, both passes answered: a metric the per-PDB view names is      *)
(* never expected from the instance-wide view as well (its value would be  *)
(* compared as a series of no PDB, which the receiver does not emit).      *)
(***************************************************************************)
PerPdbWins ==
  done /\ cdb /\ <<"sysmetric", "cdb">> \notin errors =>
    \A k \in DOMAIN expected : \A name \in NamesOf(ConRows) \cap DOMAIN sysmetricMap :
      expected[k].metric = sysmetricMap[name].metric =>
        \E i \in DOMAIN ConRows : \E n \in DOMAIN extractSysmetric(ConRows[i]) :
          Key(extractSysmetric(ConRows[i])[n]) = k

(***************************************************************************)
(* CDB mode: a metric the instance-wide view has a number for is expected  *)
(* under some series, whichever pass fails, but for one case: the per-PDB  *)
(* view names it and has no number for it anywhere.                        *)
(***************************************************************************)
InstanceFillsGaps ==
  done /\ cdb /\ <<"sysmetric", "pdb">> \notin errors =>
    \A i \in DOMAIN SysRows : \A n \in DOMAIN extractSysmetric(SysRows[i]) :
      LET name == SysRows[i]["METRIC_NAME"].text
          metric == sysmetricMap[name].metric
      IN \/ \E k \in DOMAIN expected : expected[k].metric = metric
         \/ /\ <<"sysmetric", "cdb">> \notin errors
            /\ name \in NamesOf(ConRows)
            /\ \A j \in DOMAIN ConRows :
                 ConRows[j]["METRIC_NAME"].text = name => ConRows[j]["VALUE"].num = {}
=============================================================================
