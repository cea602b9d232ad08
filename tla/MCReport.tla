------------------------------ MODULE MCReport ------------------------------
(***************************************************************************)
(* Three series of two metrics, one of which matches --metric, with one    *)
(* pair of values for each status of the DB check.                         *)
(***************************************************************************)
EXTENDS Report

MCSeries == {<<1, 1>>, <<1, 2>>, <<2, 1>>}
MCPairs == {<<0, 0>>, <<100, 0>>, <<100, None>>, <<None, 0>>}
MCStatuses == {"INGEST_OK", "INGEST_MISMATCH", "INGEST_ERROR", "INGEST_SKIPPED"}
MCEpsilons == {-1, 1}
=============================================================================
