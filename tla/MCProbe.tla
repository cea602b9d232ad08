------------------------------ MODULE MCProbe -------------------------------
(***************************************************************************)
(* Databases to probe.  WholeDatabase has every name of the tables, so     *)
(* that entries that collide show; SmallDatabases have all tables of up to *)
(* two rows of one query, with nulls, repeated names and the outer joins'  *)
(* missing PDBs.                                                           *)
(***************************************************************************)
EXTENDS Probe, FiniteSetsExt

Row2(c, t, d, v) == << <<c, Text(t)>>, <<d, v>> >>
InPdb(row, pdb) == Append(row, <<"PDB_NAME", Text(pdb)>>)
Limits(name, used, raw, limit) ==
  << <<"RESOURCE_NAME", Text(name)>>, <<"CURRENT_UTILIZATION", used>>,
     <<"LIMIT_VALUE", raw>>, <<"INITIAL_ALLOCATION", limit>>, <<"LIMIT_VALUE", limit>> >>
Tablespace(name, used, size) ==
  << <<"TABLESPACE_NAME", Text(name)>>, <<"USED_SPACE", used>>,
     <<"TABLESPACE_SIZE", size>>, <<"BLOCK_SIZE", Num(8)>> >>
Session(type, status, n) ==
  << <<"TYPE", Text(type)>>, <<"STATUS", Text(status)>>, <<"VALUE", n>> >>
Storage(used, alloc) == << <<"USED_DB_SIZE", used>>, <<"ALLOCATED_DB_SIZE", alloc>> >>

AsSequence(S) == FoldSet(LAMBDA x, s : Append(s, x), <<>>, S)

\* One row for every name, in some order, each with a number of its own.
Listed(col, names, valueCol) ==
  LET s == AsSequence(names)
  IN [i \in DOMAIN s |-> Row2(col, s[i], valueCol, Num(100 * i))]

PerPdb(t) ==
  [i \in DOMAIN t |-> InPdb(t[i], "P1")]
    \o [i \in DOMAIN t |-> InPdb(t[i], "P2")]

StatNames ==
  DOMAIN sysstatCounters \cup DOMAIN sysstatGauges \cup DOMAIN sysstatIO
    \cup {cpuTimeStat, "another_statistic"}

WholeTable(q) ==
  CASE q = "sysstat" -> Listed("NAME", StatNames, "VALUE")
    [] q = "session_count" ->
         << Session("USER", "ACTIVE", Num(1)), Session("USER", "INACTIVE", Num(2)),
            Session("BACKGROUND", "ACTIVE", Num(3)) >>
    [] q = "resource_limits" ->
         LET s == AsSequence(DOMAIN resourceLimitMap)
         IN [i \in DOMAIN s |-> Limits(s[i], Num(i), Text("UNLIMITED"), Num(-1))]
    [] q = "tablespace" -> << Tablespace("USERS", Num(1), Num(2)),
                              Tablespace("TEMP", Num(3), Null) >>
    [] q = "sga" -> Listed("NAME", {"Maximum_SGA_Size", "Buffer_Cache_Size",
                                    "Fixed_SGA_Size"}, "BYTES")
    [] q = "data_dict" -> << << <<"DATA_DICTIONARY_HIT_RATIO", Num(9)>> >> >>
    [] q = "storage" -> << Storage(Num(400), Num(8)) >>
    [] q = "sysmetric" -> Listed("METRIC_NAME", DOMAIN sysmetricMap, "VALUE")
    [] q = "osstat" -> Listed("STAT_NAME", DOMAIN osStatMap, "VALUE")
    [] q = "recycle_bin" -> << << <<"RECYCLE_BIN_SIZE_BYTES", Num(5)>> >> >>

WholeDatabase ==
  [st \in AllStatements |->
     IF st[2] = "cdb" /\ st[1] \in {"sysstat", "session_count", "tablespace"}
     THEN PerPdb(WholeTable(st[1]))
     ELSE IF st = <<"sysmetric", "cdb">>
     THEN PerPdb(Listed("METRIC_NAME", {"Buffer_Cache_Hit_Ratio", "Memory_Sorts_Ratio"},
                        "VALUE"))
     ELSE WholeTable(st[1])]

Cells == {Null, Num(200), Num(500)}

RowKinds(q) ==
  CASE q = "sysstat" ->
         {InPdb(Row2("NAME", n, "VALUE", v), p) :
            n \in {cpuTimeStat, "physical_read_bytes"}, v \in Cells, p \in {"", "P1"}}
    [] q = "session_count" ->
         {InPdb(Session(t, "ACTIVE", v), p) :
            t \in {"USER", ""}, v \in Cells, p \in {"", "P1"}}
    [] q = "resource_limits" ->
         {Limits(n, v, w, w) : n \in {"processes", "sessions"},
                               v, w \in {Null, Num(200)}}
    [] q = "tablespace" -> 
         {Tablespace(n, v, w) : n \in {"USERS", ""}, v, w \in {Null, Num(200)}}
    [] q = "sga" ->
         {Row2("NAME", n, "BYTES", v) : n \in {"Maximum_SGA_Size", "Fixed_SGA_Size", ""},
                                        v \in Cells}
    [] q = "data_dict" -> {<< <<"DATA_DICTIONARY_HIT_RATIO", v>> >> : v \in Cells}
    [] q = "storage" -> {Storage(v, w) : v \in Cells, w \in {Null, Num(0), Num(5)}}
    [] q = "sysmetric" ->
         {Row2("METRIC_NAME", n, "VALUE", v) :
            n \in {"Buffer_Cache_Hit_Ratio", "Host_CPU_Utilization_(%)"},
            v \in {Null, Num(200)}}
    [] q = "osstat" -> {Row2("STAT_NAME", n, "VALUE", v) : n \in {"LOAD", "NUM_CPUS"},
                                                           v \in Cells}
    [] q = "recycle_bin" -> {<< <<"RECYCLE_BIN_SIZE_BYTES", v>> >> : v \in Cells}

ConKinds ==
  {InPdb(Row2("METRIC_NAME", n, "VALUE", v), p) :
     n \in {"Buffer_Cache_Hit_Ratio", "SQL_Service_Response_Time"},
     v \in {Null, Num(500)}, p \in {"P1", "P2"}}

UpTo2(S) == {<<>>} \cup {<<a>> : a \in S} \cup {<<a, b>> : a, b \in S}

OneQueryDatabases ==
  UNION {{[st \in AllStatements |-> IF st[1] = q THEN t ELSE <<>>] : t \in UpTo2(RowKinds(q))}
         : q \in {AllQueryKeys[i] : i \in DOMAIN AllQueryKeys}}

SysmetricDatabases ==
  {[st \in AllStatements |-> CASE st = <<"sysmetric", "cdb">> -> con
                               [] st = <<"sysmetric", "pdb">> -> sys
                               [] OTHER -> <<>>] :
     con \in UpTo2(ConKinds), sys \in UpTo2(RowKinds("sysmetric"))}

MCDatabases == OneQueryDatabases \cup SysmetricDatabases \cup {WholeDatabase}

\* Where the others have no rows their failure changes nothing.
MCMayFail(database) ==
  IF Len(database[<<"sga", "pdb">>]) > 2 THEN AllStatements
  ELSE {<<"sysmetric", "cdb">>, <<"sysmetric", "pdb">>}
=============================================================================
