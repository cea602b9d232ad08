------------------------------ MODULE Tolerance ------------------------------
(***************************************************************************)
(* Package compare: when two numbers agree, and how the join of the        *)
(* expected (database) and emitted (collector) values is classified.       *)
(*                                                                         *)
(* Values are integers and tolerances are whole percents of the expected   *)
(* value, so that the quotient of the code becomes a product:              *)
(* diff / |expected| <= tol  is  100 * diff <= tolPercent * |expected|.    *)
(***************************************************************************)
EXTENDS Integers

CONSTANTS
  TolCounter,  \* cfg.TolCounter, in percent
  TolGauge,    \* cfg.TolGauge, in percent
  AbsEpsilon   \* cfg.AbsEpsilon

ASSUME ToleranceAssumption ==
  TolCounter \in Nat /\ TolGauge \in Nat /\ AbsEpsilon \in Nat

Abs(n) == IF n < 0 THEN -n ELSE n

\* Mutant: near zero everything agrees.
WithinTolerance_ZeroAgrees(expected, actual, vt) ==
  \/ Abs(expected) <= AbsEpsilon
  \/ 100 * Abs(actual - expected) <=
       (IF vt = "sum" THEN TolCounter ELSE TolGauge) * Abs(expected)

WithinTolerance(expected, actual, vt) ==
  LET diff == Abs(actual - expected)
  IN IF Abs(expected) <= AbsEpsilon
     THEN diff <= AbsEpsilon
     ELSE 100 * diff <=
            (IF vt = "sum" THEN TolCounter ELSE TolGauge) * Abs(expected)

\* The status of one key.  expected and emitted are maps from keys to values,
\* and vt gives the value type of a key that has an expected value.
StatusOf(k, expected, emitted, vt) ==
  IF k \in DOMAIN expected
  THEN IF k \in DOMAIN emitted
       THEN IF WithinTolerance(expected[k], emitted[k], vt[k])
            THEN "OK" ELSE "MISMATCH"
       ELSE "MISSING_IN_INGEST"
  ELSE "MISSING_IN_DB"

\* One row for every key of either side.
Compare(expected, emitted, vt) ==
  [k \in DOMAIN expected \cup DOMAIN emitted |->
     StatusOf(k, expected, emitted, vt)]

\* Mutant: --metric is not applied.
Filter_None(rows, matches) == rows

\* The rows whose metric name contains --metric.
Filter(rows, matches) == [k \in DOMAIN rows \cap matches |-> rows[k]]

HasFailures(rows) == \E k \in DOMAIN rows : rows[k] = "MISMATCH"
=============================================================================
