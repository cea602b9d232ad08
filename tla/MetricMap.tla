----------------------------- MODULE MetricMap ------------------------------
(***************************************************************************)
(* Package metricmap: which series the rows of a query say the collector   *)
(* ought to have emitted.  The tables from statistic names to metrics are  *)
(* the program's, entry by entry, since what can be wrong about them is an *)
(* entry: a metric of two types, two names for one series, one series of   *)
(* two queries.                                                            *)
(*                                                                         *)
(* Blanks in the database's names are written _.                           *)
(*                                                                         *)
(* A cell of a row is a record [text, num]: what asString makes of it, and *)
(* what toFloat does, {} when that fails (null, empty, not a number) and   *)
(* {n} when it does not.  Numbers are scaled so that quotients are whole.  *)
(* A row is a function from column names to cells.                         *)
(***************************************************************************)
EXTENDS Integers, Sequences, SequencesExt

Null    == [text |-> "", num |-> {}]
Text(s) == [text |-> s, num |-> {}]
Num(n)  == [text |-> "a_number", num |-> {n}]

SUM == "sum"
GAUGE == "gauge"

\* The function given by a set of pairs.
MapOf(pairs) ==
  [n \in {p[1] : p \in pairs} |-> (CHOOSE p \in pairs : p[1] = n)[2]]

sysstatCounters == MapOf({
  <<"execute_count", "oracledb.executions">>,
  <<"parse_count_(total)", "oracledb.parse_calls">>,
  <<"parse_count_(hard)", "oracledb.hard_parses">>,
  <<"enqueue_deadlocks", "oracledb.enqueue_deadlocks">>,
  <<"exchange_deadlocks", "oracledb.exchange_deadlocks">>,
  <<"logons_cumulative", "oracledb.logons">>,
  <<"user_commits", "oracledb.user_commits">>,
  <<"user_rollbacks", "oracledb.user_rollbacks">>,
  <<"physical_reads", "oracledb.physical_reads">>,
  <<"physical_reads_direct", "oracledb.physical_reads_direct">>,
  <<"physical_read_IO_requests", "oracledb.physical_read_io_requests">>,
  <<"physical_writes", "oracledb.physical_writes">>,
  <<"physical_writes_direct", "oracledb.physical_writes_direct">>,
  <<"physical_write_IO_requests", "oracledb.physical_write_io_requests">>,
  <<"queries_parallelized", "oracledb.queries_parallelized">>,
  <<"DDL_statements_parallelized", "oracledb.ddl_statements_parallelized">>,
  <<"DML_statements_parallelized", "oracledb.dml_statements_parallelized">>,
  <<"Parallel_operations_not_downgraded",
    "oracledb.parallel_operations_not_downgraded">>,
  <<"Parallel_operations_downgraded_to_serial",
    "oracledb.parallel_operations_downgraded_to_serial">>,
  <<"Parallel_operations_downgraded_1_to_25_pct",
    "oracledb.parallel_operations_downgraded_1_to_25_pct">>,
  <<"Parallel_operations_downgraded_25_to_50_pct",
    "oracledb.parallel_operations_downgraded_25_to_50_pct">>,
  <<"Parallel_operations_downgraded_50_to_75_pct",
    "oracledb.parallel_operations_downgraded_50_to_75_pct">>,
  <<"Parallel_operations_downgraded_75_to_99_pct",
    "oracledb.parallel_operations_downgraded_75_to_99_pct">>,
  <<"session_logical_reads", "oracledb.logical_reads">>,
  <<"db_block_gets", "oracledb.db_block_gets">>,
  <<"consistent_gets", "oracledb.consistent_gets">> })

cpuTimeStat == "CPU_used_by_this_session"

sysstatGauges == MapOf({ <<"session_pga_memory", "oracledb.pga_memory">> })

\* Attributes are sets of <<key, value>>; those below are constant.
Disk(dir, k, v) == {<<"disk.io.direction", dir>>, <<k, v>>}
Net(dir, dest) ==
  {<<"network.io.direction", dir>>, <<"destination.type", dest>>}
IO(metric, attrs) == [metric |-> metric, attrs |-> attrs]
Transferred(dir, type) ==
  IO("oracledb.physical_io.transferred", Disk(dir, "disk.io.type", type))
Requests(dir, size) ==
  IO("oracledb.physical_io.requests", Disk(dir, "disk.io.block_size", size))
SqlNet(dir, dest) == IO("oracledb.sqlnet.io.transferred", Net(dir, dest))

sysstatIO == MapOf({
  <<"physical_read_bytes", Transferred("read", "buffered")>>,
  <<"physical_write_bytes", Transferred("write", "buffered")>>,
  <<"physical_read_total_bytes", Transferred("read", "total")>>,
  <<"physical_write_total_bytes", Transferred("write", "total")>>,
  <<"physical_read_total_IO_requests", Requests("read", "all")>>,
  <<"physical_write_total_IO_requests", Requests("write", "all")>>,
  <<"physical_read_total_multi_block_requests", Requests("read", "multi")>>,
  <<"physical_write_total_multi_block_requests", Requests("write", "multi")>>,
  <<"physical_writes_from_cache", IO("oracledb.physical_io.cache_writes", {})>>,
  <<"bytes_received_via_SQL*Net_from_client", SqlNet("receive", "client")>>,
  <<"bytes_sent_via_SQL*Net_to_client", SqlNet("transmit", "client")>>,
  <<"bytes_received_via_SQL*Net_from_dblink", SqlNet("receive", "dblink")>>,
  <<"bytes_sent_via_SQL*Net_to_dblink", SqlNet("transmit", "dblink")>> })

Col(metric, c) == [metric |-> metric, col |-> c]
UsageAndLimit(usage, limit) ==
  << Col(usage, "CURRENT_UTILIZATION"), Col(limit, "LIMIT_VALUE") >>

resourceLimitMap == MapOf({
  <<"processes",
    UsageAndLimit("oracledb.processes.usage", "oracledb.processes.limit")>>,
  <<"sessions", << Col("oracledb.sessions.limit", "LIMIT_VALUE") >> >>,
  <<"enqueue_locks",
    UsageAndLimit("oracledb.enqueue_locks.usage", "oracledb.enqueue_locks.limit")>>,
  <<"dml_locks",
    UsageAndLimit("oracledb.dml_locks.usage", "oracledb.dml_locks.limit")>>,
  <<"enqueue_resources",
    UsageAndLimit("oracledb.enqueue_resources.usage",
                  "oracledb.enqueue_resources.limit")>>,
  <<"transactions",
    UsageAndLimit("oracledb.transactions.usage", "oracledb.transactions.limit")>> })

As(metric) == [metric |-> metric, per |-> 1, attrs |-> {}]
With(metric, k, v) == [metric |-> metric, per |-> 1, attrs |-> {<<k, v>>}]

\* per is the divisor of the transform, 1 where there is none.
sysmetricMap == MapOf({
  <<"Buffer_Cache_Hit_Ratio", As("oracledb.buffer_cache.utilization")>>,
  <<"Host_CPU_Utilization_(%)", As("oracledb.host.cpu.utilization")>>,
  <<"Database_CPU_Time_Ratio", As("oracledb.database.cpu.utilization")>>,
  <<"Library_Cache_Hit_Ratio", As("oracledb.library_cache.utilization")>>,
  <<"Shared_Pool_Free_%", As("oracledb.shared_pool.utilization")>>,
  <<"Database_Wait_Time_Ratio", As("oracledb.database.wait.utilization")>>,
  <<"Soft_Parse_Ratio", As("oracledb.parse.utilization")>>,
  <<"Redo_Allocation_Hit_Ratio", As("oracledb.redo_allocation.utilization")>>,
  <<"SQL_Service_Response_Time",
    [As("oracledb.sql_service.response.duration") EXCEPT !.per = 100]>>,
  <<"Memory_Sorts_Ratio", With("oracledb.sort.ratio", "oracledb.sort.type", "memory")>>,
  <<"Parse_Failure_Count_Per_Sec",
    With("oracledb.parse.rate", "oracledb.parse.result", "failure")>>,
  <<"Execute_Without_Parse_Ratio",
    With("oracledb.execution.utilization", "oracledb.parse.type", "soft")>> })

osStatMap == MapOf({
  <<"NUM_CPUS", "system.cpu.physical.count">>,
  <<"LOAD", "oracledb.system.cpu.load">>,
  <<"PHYSICAL_MEMORY_BYTES", "system.memory.limit">> })

-----------------------------------------------------------------------------
(* The type of a metric, for the ingest check. *)

\* Mutant: the counter with a transform is forgotten.
sumMetrics_NoCPU ==
  Range(sysstatCounters) \cup {e.metric : e \in Range(sysstatIO)}

sumMetrics ==
  Range(sysstatCounters) \cup {"oracledb.cpu_time"}
    \cup {e.metric : e \in Range(sysstatIO)}

\* What is assigned GAUGE, all of it after the counters.
gaugeMetrics ==
  Range(sysstatGauges)
    \cup (UNION {{cols[i].metric : i \in DOMAIN cols} : cols \in Range(resourceLimitMap)})
    \cup {e.metric : e \in Range(sysmetricMap)}
    \cup {"oracledb.sessions.usage", "oracledb.tablespace_size.usage",
          "oracledb.tablespace_size.limit", "oracledb.sga.usage",
          "oracledb.sga.limit", "oracledb.data_dictionary.hit_ratio",
          "oracledb.storage.usage", "oracledb.storage.utilization",
          "oracledb.system.cpu.load", "system.cpu.physical.count",
          "system.memory.limit", "oracledb.recycle_bin.limit"}

ValueTypeOf(metric) ==
  CASE metric \in gaugeMetrics -> GAUGE
    [] metric \in sumMetrics \ gaugeMetrics -> SUM
    [] OTHER -> "not_mapped"

-----------------------------------------------------------------------------
(* The extractors, row by row: each gives the points of one row. *)

\* How runQuery makes a row of the cells scanned, a sequence of <<column,
\* cell>>: later duplicates of a column overwrite earlier ones.
RowMap(cells) ==
  [c \in {cells[i][1] : i \in DOMAIN cells} |->
     cells[SelectLastInSeq(cells, LAMBDA cell : cell[1] = c)][2]]

Cell(row, c) == IF c \in DOMAIN row THEN row[c] ELSE Null
asString(row, c) == Cell(row, c).text
toFloat(row, c) == Cell(row, c).num

\* An attribute with an empty value is none.
Attr(k, v) == IF v = "" THEN {} ELSE {<<k, v>>}
pdbAttr(row) == Attr("oracle.db.pdb", asString(row, "PDB_NAME"))

\* A point for every value of nums, that is one or none.
Points(metric, attrs, nums, type) ==
  SetToSeq({[metric |-> metric, attrs |-> attrs, value |-> n, type |-> type] : n \in nums})

Key(p) == <<p.metric, p.attrs>>

Per(nums, d) == {n \div d : n \in nums}
Product(ms, ns) == {m * n : m \in ms, n \in ns}

extractSysstat(row) ==
  LET name == asString(row, "NAME")
      value == toFloat(row, "VALUE")
      pdb == pdbAttr(row)
  IN CASE name \in DOMAIN sysstatCounters ->
            Points(sysstatCounters[name], pdb, value, SUM)
       [] name = cpuTimeStat ->
            Points("oracledb.cpu_time", pdb, Per(value, 100), SUM)
       [] name \in DOMAIN sysstatGauges ->
            Points(sysstatGauges[name], pdb, value, GAUGE)
       [] name \in DOMAIN sysstatIO ->
            Points(sysstatIO[name].metric, sysstatIO[name].attrs \cup pdb, value, SUM)
       [] OTHER -> <<>>

extractSessionCount(row) ==
  Points("oracledb.sessions.usage",
         Attr("session_type", asString(row, "TYPE"))
           \cup Attr("session_status", asString(row, "STATUS")) \cup pdbAttr(row),
         toFloat(row, "VALUE"), GAUGE)

extractResourceLimits(row) ==
  LET name == asString(row, "RESOURCE_NAME")
      cols == IF name \in DOMAIN resourceLimitMap THEN resourceLimitMap[name] ELSE <<>>
  IN FlattenSeq([i \in DOMAIN cols |->
       Points(cols[i].metric, {}, toFloat(row, cols[i].col), GAUGE)])

\* A size that is null or no number is no limit, -1.
extractTablespace(row) ==
  LET used  == toFloat(row, "USED_SPACE")
      block == toFloat(row, "BLOCK_SIZE")
      size  == toFloat(row, "TABLESPACE_SIZE")
      name  == asString(row, "TABLESPACE_NAME")
      attrs == Attr("tablespace_name", name) \cup pdbAttr(row)
  IN IF used = {} \/ block = {} \/ name = "" THEN <<>>
     ELSE Points("oracledb.tablespace_size.usage", attrs, Product(used, block), GAUGE)
          \o Points("oracledb.tablespace_size.limit", attrs,
                    IF size = {} THEN {-1} ELSE Product(size, block), GAUGE)

\* Mutant: a component of the SGA is not told from another.
extractSGA_NoComponent(row) ==
  IF asString(row, "NAME") = "Maximum_SGA_Size"
  THEN Points("oracledb.sga.limit", {}, toFloat(row, "BYTES"), GAUGE)
  ELSE Points("oracledb.sga.usage", {}, toFloat(row, "BYTES"), GAUGE)

extractSGA(row) ==
  LET name == asString(row, "NAME")
      value == toFloat(row, "BYTES")
  IN CASE name = "" -> <<>>
       [] name = "Maximum_SGA_Size" -> Points("oracledb.sga.limit", {}, value, GAUGE)
       [] OTHER -> Points("oracledb.sga.usage",
                          {<<"oracledb.sga.component.name", name>>}, value, GAUGE)

extractDataDict(row) ==
  Points("oracledb.data_dictionary.hit_ratio", {},
         toFloat(row, "DATA_DICTIONARY_HIT_RATIO"), GAUGE)

extractStorage(row) ==
  LET used  == toFloat(row, "USED_DB_SIZE")
      alloc == {n \in toFloat(row, "ALLOCATED_DB_SIZE") : n > 0}
  IN Points("oracledb.storage.usage", {}, used, GAUGE)
     \o Points("oracledb.storage.utilization", {},
               {u \div a : u \in used, a \in alloc}, GAUGE)

extractSysmetric(row) ==
  LET name == asString(row, "METRIC_NAME")
      e == sysmetricMap[name]
  IN IF name \notin DOMAIN sysmetricMap THEN <<>>
     ELSE Points(e.metric, e.attrs \cup pdbAttr(row),
                 Per(toFloat(row, "VALUE"), e.per), GAUGE)

extractOSStat(row) ==
  LET name == asString(row, "STAT_NAME")
  IN IF name \notin DOMAIN osStatMap THEN <<>>
     ELSE Points(osStatMap[name], {}, toFloat(row, "VALUE"), GAUGE)

extractRecycleBin(row) ==
  Points("oracledb.recycle_bin.limit", {}, toFloat(row, "RECYCLE_BIN_SIZE_BYTES"), GAUGE)

PointsOf(queryKey, row) ==
  CASE queryKey = "sysstat" -> extractSysstat(row)
    [] queryKey = "session_count" -> extractSessionCount(row)
    [] queryKey = "resource_limits" -> extractResourceLimits(row)
    [] queryKey = "tablespace" -> extractTablespace(row)
    [] queryKey = "sga" -> extractSGA(row)
    [] queryKey = "data_dict" -> extractDataDict(row)
    [] queryKey = "storage" -> extractStorage(row)
    [] queryKey = "sysmetric" -> extractSysmetric(row)
    [] queryKey = "osstat" -> extractOSStat(row)
    [] queryKey = "recycle_bin" -> extractRecycleBin(row)

ExpectedFor(queryKey, rows) ==
  FlattenSeq([i \in DOMAIN rows |-> PointsOf(queryKey, rows[i])])

\* Mutant: the two passes are simply put together.
ExpectedForSysmetricCDB_Both(conRows, sysRows) ==
  ExpectedFor("sysmetric", conRows) \o ExpectedFor("sysmetric", sysRows)

\* Mutant: the second pass counts only if the first found nothing.
ExpectedForSysmetricCDB_Either(conRows, sysRows) ==
  ExpectedFor("sysmetric", IF conRows = <<>> THEN sysRows ELSE conRows)

\* The instance-wide rows count only for names that no per-PDB row has.
ExpectedForSysmetricCDB(conRows, sysRows) ==
  LET seen == {asString(conRows[i], "METRIC_NAME") : i \in DOMAIN conRows} \ {""}
      PointsOfUnseen(row) ==
        IF asString(row, "METRIC_NAME") \in seen THEN <<>> ELSE extractSysmetric(row)
  IN ExpectedFor("sysmetric", conRows)
     \o FlattenSeq([i \in DOMAIN sysRows |-> PointsOfUnseen(sysRows[i])])

AllQueryKeys ==
  << "sysstat", "session_count", "resource_limits", "tablespace", "sga",
     "data_dict", "storage", "sysmetric", "osstat", "recycle_bin" >>
=============================================================================
