---------------------------- MODULE MCOtlpReader ----------------------------
(***************************************************************************)
(* A small instance of OtlpReader: two series emitted by two hosts, lines  *)
(* that arrive in and out of time order and with equal timestamps, one     *)
(* point without a usable timestamp, and points that the parser drops.     *)
(* Values are all different, so that they tell which point an endpoint was *)
(* taken from.                                                             *)
(***************************************************************************)
EXTENDS OtlpReader

Pt(k, r, t, v, s) == [key |-> k, res |-> r, ts |-> t, val |-> v, shape |-> s]

MCKeys == {"a", "b"}
MCResources == {"h1", "h2"}
MCValues == 1..9
MCWindows == {2}

\* A point that others precede and tie with, and lines that hold a point
\* without a usable time, and points that are dropped.
MCLines ==
  { << Pt("a", "h1", 2, 1, "sum") >>,
    << Pt("a", "h2", 1, 2, "gauge"), Pt("b", "h1", 2, 3, "sum") >>,
    << Pt("a", "h2", 2, 4, "sum"), Pt("a", "h1", 3, 5, "badtime") >>,
    << Pt("b", "h2", 3, 6, "foreign"), Pt("a", "h1", 3, 7, "novalue") >> }
=============================================================================
