----------------------------- MODULE OtlpPoints -----------------------------
(***************************************************************************)
(* Data points of the collector's OTLP/JSON file, and the two ways in      *)
(* which package ingest folds them: the newest point of every series       *)
(* (ReadOTLPJSON) and the first and last point of every series             *)
(* (ReadOTLPSeries).                                                       *)
(*                                                                         *)
(* A raw point is a record [key, res, ts, val, shape].  key stands for the *)
(* canonical join key (metric name and data-point attributes), res for the *)
(* resource attributes, and shape for how the point is written on its line *)
(* (see Shapes).  Each fold is given twice: as the step the code makes for *)
(* one more point, and as a declarative definition of the result wanted    *)
(* for a whole sequence of points.                                         *)
(***************************************************************************)
EXTENDS Integers, Sequences, FiniteSets

(***************************************************************************)
(* gauge, sum:  a number under the aggregation the parser looks at         *)
(* badtime:     a number whose timeUnixNano is absent or not an integer    *)
(* novalue:     asDouble absent, asInt absent or not an integer            *)
(* unnamed:     a metric whose name is empty                               *)
(* histogram:   an aggregation that is neither gauge nor sum               *)
(* foreign:     a scope that is not the Oracle receiver's                  *)
(* torn:        the whole line is not one JSON document                    *)
(***************************************************************************)
Shapes == {"gauge", "sum", "badtime", "novalue", "unnamed", "histogram",
           "foreign", "torn"}

\* The scopes of the receiver and its fork, and the empty name, all match.
ScopeMatches(p) == p.shape # "foreign"

\* The value the point contributes exists.
HasValue(p) == p.shape # "novalue"

\* What iterOTLP hands to its callback.
Emits(p) ==
  /\ p.shape # "torn"
  /\ ScopeMatches(p)
  /\ p.shape # "unnamed"
  /\ p.shape # "histogram"
  /\ HasValue(p)

\* A timestamp that does not parse is read as zero, not as an error.
TimeOf(p) == IF p.shape = "badtime" THEN 0 ELSE p.ts

\* The point as the callback sees it.
Emitted(p) == [key |-> p.key, res |-> p.res, ts |-> TimeOf(p), val |-> p.val]

\* The function m with k mapped to v.
Put(m, k, v) == [x \in DOMAIN m \cup {k} |-> IF x = k THEN v ELSE m[x]]

-----------------------------------------------------------------------------
(* The folds, one point at a time. *)

\* Mutant: of two equally new points the one read first stays.
NewestStep_KeepsTie(latest, p) ==
  IF Emits(p) /\ (p.key \in DOMAIN latest => TimeOf(p) > latest[p.key].ts)
  THEN Put(latest, p.key, Emitted(p))
  ELSE latest

NewestStep(latest, p) ==
  IF Emits(p) /\ (p.key \in DOMAIN latest => TimeOf(p) >= latest[p.key].ts)
  THEN Put(latest, p.key, Emitted(p))
  ELSE latest

InWindow(p, since) == Emits(p) /\ (since > 0 => TimeOf(p) >= since)

NewSeries(p) ==
  [res |-> p.res, firstVal |-> p.val, firstTS |-> TimeOf(p),
   lastVal |-> p.val, lastTS |-> TimeOf(p), nPoints |-> 1]

\* Mutant: the first endpoint is only moved by a strictly older point.
ExtendSeries_KeepsTie(s, p) ==
  LET earliest == TimeOf(p) < s.firstTS
      newest   == TimeOf(p) >= s.lastTS
  IN [res      |-> s.res,
      firstVal |-> IF earliest THEN p.val ELSE s.firstVal,
      firstTS  |-> IF earliest THEN TimeOf(p) ELSE s.firstTS,
      lastVal  |-> IF newest THEN p.val ELSE s.lastVal,
      lastTS   |-> IF newest THEN TimeOf(p) ELSE s.lastTS,
      nPoints  |-> s.nPoints + 1]

\* Mutant: the point read last is taken for the newest.
ExtendSeries_ReadOrder(s, p) ==
  [s EXCEPT !.lastVal = p.val, !.lastTS = TimeOf(p), !.nPoints = @ + 1]

ExtendSeries(s, p) ==
  LET earliest == TimeOf(p) <= s.firstTS
      newest   == TimeOf(p) >= s.lastTS
  IN [res      |-> s.res,
      firstVal |-> IF earliest THEN p.val ELSE s.firstVal,
      firstTS  |-> IF earliest THEN TimeOf(p) ELSE s.firstTS,
      lastVal  |-> IF newest THEN p.val ELSE s.lastVal,
      lastTS   |-> IF newest THEN TimeOf(p) ELSE s.lastTS,
      nPoints  |-> s.nPoints + 1]

SeriesStep(series, p, since) ==
  IF ~InWindow(p, since) THEN series
  ELSE Put(series, p.key,
           IF p.key \in DOMAIN series THEN ExtendSeries(series[p.key], p)
                                      ELSE NewSeries(p))

-----------------------------------------------------------------------------
(* What the folds are meant to compute. *)

\* Positions of ps that contribute to series k of the window.
Positions(ps, k, since) ==
  {i \in DOMAIN ps : ps[i].key = k /\ InWindow(ps[i], since)}

KeysOf(ps, since) == {ps[i].key : i \in {j \in DOMAIN ps : InWindow(ps[j], since)}}

\* i is the newest of the positions I, the later one of equally new ones.
IsNewest(ps, I, i) ==
  /\ i \in I
  /\ \A j \in I : \/ TimeOf(ps[j]) < TimeOf(ps[i])
                  \/ TimeOf(ps[j]) = TimeOf(ps[i]) /\ j <= i

\* i is the oldest of the positions I, the later one of equally old ones.
IsOldest(ps, I, i) ==
  /\ i \in I
  /\ \A j \in I : \/ TimeOf(ps[j]) > TimeOf(ps[i])
                  \/ TimeOf(ps[j]) = TimeOf(ps[i]) /\ j <= i

\* i is the position of I that the reader meets first.
IsFirstRead(I, i) == i \in I /\ \A j \in I : i <= j

NewestOf(ps) ==
  [k \in KeysOf(ps, 0) |->
     LET I == Positions(ps, k, 0)
     IN Emitted(ps[CHOOSE i \in I : IsNewest(ps, I, i)])]

SeriesOf(ps, since) ==
  [k \in KeysOf(ps, since) |->
     LET I == Positions(ps, k, since)
         o == CHOOSE i \in I : IsOldest(ps, I, i)
         n == CHOOSE i \in I : IsNewest(ps, I, i)
         f == CHOOSE i \in I : IsFirstRead(I, i)
     IN [res |-> ps[f].res, firstVal |-> ps[o].val, firstTS |-> TimeOf(ps[o]),
         lastVal |-> ps[n].val, lastTS |-> TimeOf(ps[n]),
         nPoints |-> Cardinality(I)]]
=============================================================================
