---------------------------- MODULE MCValidator ----------------------------
(***************************************************************************)
(* A small instance of Validator: a counter and a gauge from two queries,  *)
(* and a metric without a mapping.                                         *)
(***************************************************************************)
EXTENDS Validator

MCCounters == {"executions"}
MCGauges   == {"sessions"}
MCUnmapped == {"new"}
MCNone     == {}
MCQueries  == <<"sysstat", "session_count">>
MCQueryOf  == [executions |-> "sysstat", sessions |-> "session_count"]
MCAll      == {"executions", "sessions", "new"}
MCOne      == {"sessions"}
=============================================================================
