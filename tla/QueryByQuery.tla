---------------------------- MODULE QueryByQuery ----------------------------
(***************************************************************************)
(* What a probe promises: the queries are asked one after the other, and   *)
(* each, in one step, either gives all that its rows say or is named as    *)
(* failed and gives nothing.  In CDB mode sysmetric is asked twice, per    *)
(* PDB and instance-wide, and each half can fail alone.                    *)
(***************************************************************************)
EXTENDS MetricMap

CONSTANT Databases  \* each a function from statements to sequences of rows

VARIABLES
  db,        \* the database probed: for every statement, the cells of its rows
  cdb,       \* whether the receiver connects to the container root
  next,      \* the position in AllQueryKeys of the next query
  expected,  \* the map from join keys to points
  errors     \* the statements that failed

vars == <<db, cdb, next, expected, errors>>

\* A statement is named by its query key and the kind of views it asks.
Statement(key, container) == <<key, IF container THEN "cdb" ELSE "pdb">>

Statements(key) ==
  IF key = "sysmetric" /\ cdb
  THEN {Statement(key, TRUE), Statement(key, FALSE)}
  ELSE {Statement(key, cdb)}

\* The rows of a statement that counts if it is in good.
RowsOf(st, good) ==
  IF st \in good THEN [i \in DOMAIN db[st] |-> RowMap(db[st][i])] ELSE <<>>

\* The points of a query of which the statements good were answered.
PointsFrom(key, good) ==
  IF key = "sysmetric" /\ cdb
  THEN ExpectedForSysmetricCDB(RowsOf(Statement(key, TRUE), good),
                               RowsOf(Statement(key, FALSE), good))
  ELSE ExpectedFor(key, RowsOf(Statement(key, cdb), good))

\* The map m after the points ps: of points with one key the last stays.
Updated(m, ps) ==
  LET new == {Key(ps[i]) : i \in DOMAIN ps}
      last(k) == ps[SelectLastInSeq(ps, LAMBDA p : Key(p) = k)]
  IN [k \in DOMAIN m \cup new |-> IF k \in new THEN last(k) ELSE m[k]]

Init ==
  /\ db \in Databases /\ cdb \in BOOLEAN
  /\ next = 1 /\ expected = <<>> /\ errors = {}

AskQuery ==
  /\ next \in DOMAIN AllQueryKeys
  /\ next' = next + 1
  /\ LET key == AllQueryKeys[next]
     IN \E bad \in SUBSET Statements(key) :
          /\ expected' = Updated(expected, PointsFrom(key, Statements(key) \ bad))
          /\ errors' = errors \cup bad
  /\ UNCHANGED <<db, cdb>>

Spec == Init /\ [][AskQuery]_vars
=============================================================================
