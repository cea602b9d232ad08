------------------------------ MODULE DebugLog ------------------------------
(***************************************************************************)
(* ReadDebugLog: the text of the collector's debug exporter read line by   *)
(* line by a machine of three variables (curMetric, curAttrs, inAttrs).    *)
(*                                                                         *)
(* The exporter and the parser take every line in one step: the file is    *)
(* only appended to and the parser never looks ahead, so what it has       *)
(* after any number of lines is what a read that ends there returns.       *)
(* The exporter is the environment.  It names a metric, then prints its    *)
(* points: a header and one line per attribute if the point has any, other *)
(* lines, and the value.  What may disturb it is part of the model: lines  *)
(* of other components, attribute lines the regular expression does not    *)
(* match or cuts, values that are not a number, exemplars, a restart of    *)
(* the collector inside a block, and an end of the file inside a number.   *)
(***************************************************************************)
EXTENDS Integers, FiniteSets

CONSTANTS
  Metrics,     \* metric names, of whatever receiver
  AttrKeys,    \* attribute keys
  OddKeys,     \* those with a character that attrRE's key does not allow
  AttrValues,  \* attribute values, with Empty
  Cut,         \* what of a value is in front of its first ')'
  Numbers,     \* printed numbers
  NoMetric, Empty, None,
  MaxPoints    \* bound: points and exemplars printed

ASSUME DebugLogAssumption ==
  /\ NoMetric \notin Metrics
  /\ OddKeys \subseteq AttrKeys
  /\ Empty \in AttrValues
  /\ Cut \in [AttrValues -> AttrValues] /\ Cut[Empty] = Empty
  /\ {"inf", "nan", None} \cap Numbers = {}
  /\ MaxPoints \in Nat

VARIABLES
  curMetric, curAttrs, inAttrs,  \* of ReadDebugLog
  latest,    \* its result: a number for every series, or None
  phase,     \* "between" points, inside a "point", or the file ends "torn"
  block,     \* the metric the exporter has named, or NoMetric
  point,     \* [attrs, val]: the point being printed
  todo,      \* keys of its attributes still to be printed
  points,    \* history: [metric, attrs, val] of all that was begun
  newest,    \* history: the last number printed whole, of every series
  odd,       \* history: metrics that were disturbed
  count

parser   == <<curMetric, curAttrs, inAttrs, latest>>
exporter == <<phase, block, point, todo, points, newest, odd, count>>
vars     == <<parser, exporter>>

\* The join key drops attributes with an empty value, so that an absent
\* attribute and an empty one are the same here.
Attrs   == [AttrKeys -> AttrValues]
NoAttrs == [k \in AttrKeys |-> Empty]
Series  == Metrics \X Attrs
Key(m, a) == <<m, a>>

TypeOK ==
  /\ curMetric \in Metrics \cup {NoMetric}
  /\ curAttrs \in Attrs
  /\ inAttrs \in BOOLEAN
  /\ latest \in [Series -> Numbers \cup {None}]
  /\ phase \in {"between", "point", "torn"}
  /\ block \in Metrics \cup {NoMetric}
  /\ phase = "point" => block # NoMetric
  /\ point \in [attrs : Attrs, val : Numbers \cup {"inf", "nan"}]
  /\ todo \in SUBSET AttrKeys
  /\ points \in SUBSET [metric : Metrics, attrs : Attrs,
                        val : Numbers \cup {"inf", "nan"}]
  /\ newest \in [Series -> Numbers \cup {None}]
  /\ odd \in SUBSET Metrics
  /\ count \in 0..MaxPoints

Init ==
  /\ curMetric = NoMetric /\ curAttrs = NoAttrs /\ inAttrs = FALSE
  /\ latest = [s \in Series |-> None]
  /\ phase = "between" /\ block = NoMetric
  /\ point \in [attrs : {NoAttrs}, val : {"nan"}]
  /\ todo = {} /\ points = {} /\ odd = {} /\ count = 0
  /\ newest = [s \in Series |-> None]

-----------------------------------------------------------------------------
(* The parser, one line at a time, in the order of its tests. *)

\* Mutant: the attributes survive the name of the next metric.
ReadName_KeepsAttrs(m) ==
  curMetric' = m /\ inAttrs' = FALSE /\ UNCHANGED <<curAttrs, latest>>

ReadName(m) ==
  /\ curMetric' = m /\ curAttrs' = NoAttrs /\ inAttrs' = FALSE
  /\ UNCHANGED latest

\* Mutant: the header of the attributes ends the metric.
ReadHeader_EndsMetric ==
  /\ curAttrs' = NoAttrs /\ inAttrs' = TRUE /\ curMetric' = NoMetric
  /\ UNCHANGED latest

ReadHeader ==
  curAttrs' = NoAttrs /\ inAttrs' = TRUE /\ UNCHANGED <<curMetric, latest>>

\* A line that attrRE matches; it has a meaning under a header only.
ReadAttr(k, v) ==
  /\ curAttrs' = IF inAttrs THEN [curAttrs EXCEPT ![k] = Cut[v]] ELSE curAttrs
  /\ UNCHANGED <<curMetric, inAttrs, latest>>

\* A line that none of the regular expressions matches.
ReadOther == inAttrs' = FALSE /\ UNCHANGED <<curMetric, curAttrs, latest>>

\* Mutant: the attributes survive the value.
ReadNumber_KeepsAttrs(v) ==
  /\ inAttrs' = FALSE
  /\ latest' = IF curMetric = NoMetric THEN latest
               ELSE [latest EXCEPT ![Key(curMetric, curAttrs)] = v]
  /\ UNCHANGED <<curMetric, curAttrs>>

\* A Value line whose number parses: flush.
ReadNumber(v) ==
  /\ inAttrs' = FALSE /\ curAttrs' = NoAttrs
  /\ latest' = IF curMetric = NoMetric THEN latest
               ELSE [latest EXCEPT ![Key(curMetric, curAttrs)] = v]
  /\ UNCHANGED curMetric

\* Mutant: the error of ParseFloat is not looked at.
ReadUnparsable_Flushes ==
  /\ inAttrs' = FALSE /\ curAttrs' = NoAttrs
  /\ latest' = IF curMetric = NoMetric THEN latest
               ELSE [latest EXCEPT ![Key(curMetric, curAttrs)] = "inf"]
  /\ UNCHANGED curMetric

\* A Value line of which only a sign matches (-Inf).
ReadUnparsable ==
  inAttrs' = FALSE /\ curAttrs' = NoAttrs /\ UNCHANGED <<curMetric, latest>>

-----------------------------------------------------------------------------
(* The exporter. *)

PrintName(m) ==
  /\ phase = "between"
  /\ block' = m
  /\ ReadName(m)
  /\ UNCHANGED <<phase, point, todo, points, newest, odd, count>>

\* A point with attributes keys; only then is there a header.
BeginPoint(a, keys, v) ==
  /\ phase = "between" /\ block # NoMetric /\ count < MaxPoints
  /\ {k \in AttrKeys : a[k] # Empty} \subseteq keys
  /\ phase' = "point" /\ count' = count + 1
  /\ point' = [attrs |-> a, val |-> v]
  /\ todo' = keys
  /\ points' = points \cup {[metric |-> block, attrs |-> a, val |-> v]}
  /\ IF keys = {} THEN UNCHANGED parser ELSE ReadHeader
  /\ UNCHANGED <<block, newest, odd>>

PrintAttr(k) ==
  /\ phase = "point" /\ k \in todo
  /\ todo' = todo \ {k}
  /\ IF k \in OddKeys THEN ReadOther ELSE ReadAttr(k, point.attrs[k])
  /\ odd' = IF k \in OddKeys \/ Cut[point.attrs[k]] # point.attrs[k]
            THEN odd \cup {block} ELSE odd
  /\ UNCHANGED <<phase, block, point, points, newest, count>>

\* A timestamp, a description, or a line of another component.
PrintOther ==
  /\ phase # "torn"
  /\ ReadOther
  /\ odd' = IF phase = "point" /\ todo # {} THEN odd \cup {block} ELSE odd
  /\ UNCHANGED <<phase, block, point, todo, points, newest, count>>

EndPoint ==
  /\ phase = "point" /\ todo = {}
  /\ phase' = "between"
  /\ UNCHANGED <<block, point, todo, points, count>>

PrintNumber ==
  /\ EndPoint
  /\ point.val \in Numbers
  /\ ReadNumber(point.val)
  /\ newest' = [newest EXCEPT ![Key(block, point.attrs)] = point.val]
  /\ UNCHANGED odd

PrintInf ==
  /\ EndPoint
  /\ point.val = "inf"
  /\ ReadUnparsable
  /\ UNCHANGED <<newest, odd>>

\* NaN, or no value: what was collected of the attributes stays.
PrintNaN ==
  /\ EndPoint
  /\ point.val = "nan"
  /\ ReadOther
  /\ odd' = IF point.attrs = NoAttrs THEN odd ELSE odd \cup {block}
  /\ UNCHANGED newest

\* A line "-> Value: ..." under a point that was printed already.
PrintExemplar(v) ==
  /\ phase = "between" /\ block # NoMetric /\ count < MaxPoints
  /\ count' = count + 1
  /\ ReadNumber(v)
  /\ odd' = odd \cup {block}
  /\ points' = points \cup {[metric |-> block, attrs |-> NoAttrs, val |-> v]}
  /\ UNCHANGED <<phase, block, point, todo, newest>>

\* The file ends, for now, inside a number: the reader gets another one.
TearNumber(v) ==
  /\ phase = "point" /\ todo = {} /\ point.val \in Numbers \ {v}
  /\ phase' = "torn"
  /\ ReadNumber(v)
  /\ odd' = odd \cup {block}
  /\ UNCHANGED <<block, point, todo, points, newest, count>>

\* The collector restarts: what follows begins with the name of a metric.
Restart ==
  /\ phase # "torn" /\ block # NoMetric
  /\ phase' = "between" /\ block' = NoMetric /\ todo' = {}
  /\ UNCHANGED <<parser, point, points, newest, odd, count>>

Next ==
  \/ \E m \in Metrics : PrintName(m)
  \/ \E a \in Attrs, keys \in SUBSET AttrKeys, v \in Numbers \cup {"inf", "nan"} :
       BeginPoint(a, keys, v)
  \/ \E k \in AttrKeys : PrintAttr(k)
  \/ PrintOther \/ PrintNumber \/ PrintInf \/ PrintNaN
  \/ \E v \in Numbers : PrintExemplar(v) \/ TearNumber(v)
  \/ Restart

Spec == Init /\ [][Next]_vars

-----------------------------------------------------------------------------
(* What the parser promises. *)

(***************************************************************************)
(* For a metric none of whose points was disturbed the result is what was  *)
(* printed: every series has the last number printed for it, whatever      *)
(* happened to the blocks of other metrics before, between and after.      *)
(***************************************************************************)
ParsedIsPrinted ==
  \A s \in Series : s[1] \notin odd => latest[s] = newest[s]

(***************************************************************************)
(* Disturbed or not, an entry is made of what was printed under the name   *)
(* of its metric: its number is that of a point or exemplar of the metric, *)
(* and its attributes are some of those of one point of the metric.  (Only *)
(* a file that ends inside a number can yield another number.)             *)
(***************************************************************************)
NothingInvented ==
  phase # "torn" =>
  \A s \in Series : latest[s] # None =>
    \E p, q \in points :
      /\ p.metric = s[1] /\ p.val = latest[s]
      /\ q.metric = s[1]
      /\ \A k \in AttrKeys : s[2][k] \in {Empty, Cut[q.attrs[k]]}

(***************************************************************************)
(* A metric of which a number was printed is in the result, under these    *)
(* attributes or others: a disturbance can move a point to another series, *)
(* but cannot make the metric disappear.                                   *)
(***************************************************************************)
MetricIsSeen ==
  \A s \in Series : newest[s] # None =>
    \E t \in Series : t[1] = s[1] /\ latest[t] # None
=============================================================================
