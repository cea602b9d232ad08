--------------------------- MODULE ValidatorProofs ---------------------------
(***************************************************************************)
(* What is proved of Validator, for any metrics, queries, values and       *)
(* tolerances, in one-shot and in watch mode.                              *)
(*                                                                         *)
(* The inductive invariant follows a value on its way: what the file says  *)
(* of the database (FileTrue), what the emitted map says of it until the   *)
(* metric is probed (EmittedTrue), and what the emitted map says of the    *)
(* expected one from then on (ProbedTrue).                                 *)
(***************************************************************************)
EXTENDS Validator, TLAPS

\* The value a of metric m, with marks h, was taken from a database that is
\* now at d.
Holds(m, a, d, h) ==
  /\ m \notin h.wrong \cup h.moved => a = d
  /\ m \in h.wrong \ h.moved => a = d + Skew
  /\ m \in Counters /\ m \notin h.wrong \cup h.reset => a <= d

FileTrue ==
  \A m \in Mapped \cap DOMAIN file : Holds(m, file[m], db[m], inFile)

EmittedTrue == \A m \in Unprobed : Holds(m, emitted[m], db[m], inCycle)

ProbedTrue ==
  \A m \in DOMAIN expected \cap DOMAIN emitted :
    Holds(m, emitted[m], expected[m], inCycle)

WrongKnown ==
  /\ inFile.wrong \subseteq DOMAIN file
  /\ inCycle.wrong \subseteq DOMAIN emitted

Fresh ==
  /\ pc \in {"setup", "read"} => ~err /\ next = 1
  /\ pc \in {"setup", "read"} => emitted = Empty /\ inCycle = Clean
  /\ pc \in {"setup", "read"} \/ (pc = "probe" /\ next = 1) => expected = Empty
  /\ pc \in {"setup", "read", "probe"} => results = Empty
  /\ pc \in {"setup", "read", "probe", "reread"} => ic = Empty

Verdicts == Filter(Compare(expected, emitted, TypeOf), Matching)

Judged ==
  pc \notin {"setup", "read", "probe"} =>
    results = Verdicts \/ (results = Empty /\ expected = Empty)

IngestFiltered == pc = "report" /\ ~err => DOMAIN ic \subseteq Matching

IInv ==
  /\ TypeOK
  /\ FileTrue /\ EmittedTrue /\ ProbedTrue
  /\ WrongKnown /\ Fresh /\ Judged /\ IngestFiltered
  /\ ExitCodeIsTrue

-----------------------------------------------------------------------------
(* Lemmas about maps, tolerances and rows. *)

LEMMA EmptyMap == DOMAIN Empty = {}
BY DEF Empty

\* Putting a value of the right type keeps the type of a map.
LEMMA PutMap ==
  ASSUME NEW f, NEW D, NEW S, IsMap(f, D, S), NEW k \in D, NEW v \in S
  PROVE  /\ IsMap(Put(f, k, v), D, S)
         /\ DOMAIN Put(f, k, v) = DOMAIN f \cup {k}
         /\ Put(f, k, v)[k] = v
         /\ \A x \in DOMAIN f \ {k} : Put(f, k, v)[x] = f[x]
BY DEF IsMap, Put

\* Filtering keeps the type of a map.
LEMMA FilterMap ==
  ASSUME NEW f, NEW D, NEW S, IsMap(f, D, S), NEW M
  PROVE  /\ IsMap(Filter(f, M), D, S)
         /\ DOMAIN Filter(f, M) = DOMAIN f \cap M
         /\ \A x \in DOMAIN f \cap M : Filter(f, M)[x] = f[x]
BY DEF IsMap, Filter

LEMMA ProductNat == \A a, b \in Nat : a * b \in Nat
OBVIOUS

\* Equal numbers agree, whatever the tolerances.
LEMMA EqualAgrees ==
  ASSUME NEW n \in Nat, NEW vt
  PROVE  WithinTolerance(n, n, vt)
<1>. DEFINE tol == IF vt = "sum" THEN TolCounter ELSE TolGauge
<1>1. tol \in Nat
  BY ToleranceAssumption
<1>2. Abs(n - n) = 0 /\ Abs(n) = n
  BY DEF Abs
<1>3. tol * n \in Nat
  BY <1>1, ProductNat
<1>4. 100 * Abs(n - n) <= tol * Abs(n)
  BY <1>2, <1>3
<1>5. Abs(n - n) <= AbsEpsilon
  BY <1>2, ToleranceAssumption
<1>. QED  BY <1>4, <1>5 DEF WithinTolerance

\* A number that is off by a noticeable Skew does not agree.
LEMMA SkewDisagrees ==
  ASSUME NEW n \in Nat, NEW vt,
         Skew > AbsEpsilon,
         100 * Skew > (IF vt = "sum" THEN TolCounter ELSE TolGauge) * n
  PROVE  ~WithinTolerance(n, n + Skew, vt)
<1>. DEFINE tol == IF vt = "sum" THEN TolCounter ELSE TolGauge
<1>1. Abs((n + Skew) - n) = Skew /\ Abs(n) = n
  BY BoundsAssumption DEF Abs
<1>2. tol \in Nat /\ AbsEpsilon \in Nat /\ Skew \in Nat
  BY ToleranceAssumption, BoundsAssumption
<1>3. tol * n \in Nat
  BY <1>2, ProductNat
<1>4. ~(100 * Abs((n + Skew) - n) <= tol * Abs(n))
  BY <1>1, <1>2, <1>3
<1>5. ~(Abs((n + Skew) - n) <= AbsEpsilon)
  BY <1>1, <1>2
<1>. QED  BY <1>4, <1>5 DEF WithinTolerance

\* The rows of the DB check: which there are, and which are mismatches.
LEMMA VerdictRows ==
  /\ DOMAIN Verdicts = (DOMAIN expected \cup DOMAIN emitted) \cap Matching
  /\ \A m \in DOMAIN Verdicts :
       /\ Verdicts[m] \in {"OK", "MISMATCH", "MISSING_IN_INGEST", "MISSING_IN_DB"}
       /\ Verdicts[m] = "MISMATCH" <=>
            /\ m \in DOMAIN expected \cap DOMAIN emitted
            /\ ~WithinTolerance(expected[m], emitted[m], TypeOf[m])
<1>. DEFINE rows == Compare(expected, emitted, TypeOf)
<1>1. /\ DOMAIN rows = DOMAIN expected \cup DOMAIN emitted
      /\ \A m \in DOMAIN rows : rows[m] = StatusOf(m, expected, emitted, TypeOf)
  BY DEF Compare
<1>2. /\ DOMAIN Verdicts = DOMAIN rows \cap Matching
      /\ \A m \in DOMAIN Verdicts : Verdicts[m] = rows[m]
  BY DEF Verdicts, Filter
<1>3. \A m \in DOMAIN rows :
        /\ rows[m] \in {"OK", "MISMATCH", "MISSING_IN_INGEST", "MISSING_IN_DB"}
        /\ rows[m] = "MISMATCH" <=>
             /\ m \in DOMAIN expected \cap DOMAIN emitted
             /\ ~WithinTolerance(expected[m], emitted[m], TypeOf[m])
  BY <1>1 DEF StatusOf
<1>. QED  BY <1>1, <1>2, <1>3

-----------------------------------------------------------------------------
(* Initially. *)

LEMMA InitIInv == Init => IInv
<1>. SUFFICES ASSUME Init PROVE IInv
  OBVIOUS
<1>. USE BoundsAssumption, EmptyMap DEF Init
<1>1. Unprobed = {}
  BY DEF Unprobed
<1>2. TypeOK
  <2>1. IsMap(db, Metrics, 0..MaxVal) /\ DOMAIN db = Metrics
    BY DEF IsMap
  <2>2. \A D, S : IsMap(Empty, D, S)
    BY DEF IsMap
  <2>3. inFile \in Marks /\ inCycle \in Marks
    BY DEF Clean, Marks
  <2>4. next \in 1..Len(Queries) + 1
    <3>1. Len(Queries) \in Nat
      BY QueriesAssumption
    <3>. QED  BY <3>1
  <2>5. /\ IsMap(file, Metrics, Value) /\ IsMap(emitted, Metrics, Value)
        /\ IsMap(expected, Mapped, 0..MaxVal)
        /\ IsMap(results, Metrics, {"OK", "MISMATCH", "MISSING_IN_INGEST",
                                    "MISSING_IN_DB"})
        /\ IsMap(ic, Metrics, {"INGEST_OK", "INGEST_MISMATCH", "INGEST_NO_DATA",
                               "INGEST_ERROR", "INGEST_SKIPPED"})
    BY <2>2, Zenon
  <2>6. restarts \in 0..MaxRestarts
    OBVIOUS
  <2>. QED  BY <2>1, <2>3, <2>4, <2>5, <2>6 DEF TypeOK
<1>3. FileTrue /\ EmittedTrue /\ ProbedTrue
  BY <1>1 DEF FileTrue, EmittedTrue, ProbedTrue
<1>4. WrongKnown /\ Fresh /\ Judged /\ IngestFiltered
  BY DEF WrongKnown, Fresh, Judged, IngestFiltered, Clean
<1>5. ExitCodeIsTrue
  BY DEF ExitCodeIsTrue
<1>. QED  BY <1>2, <1>3, <1>4, <1>5 DEF IInv

-----------------------------------------------------------------------------
(* The database and the collector. *)

\* What a step of the environment has to show: the cycle's variables stay, and
\* so does everything said of them, as its marks only grow.
LEMMA EnvironmentKeeps ==
  ASSUME IInv,
         UNCHANGED <<pc, cycleVars, fail, code>>,
         IsMap(db', Metrics, 0..MaxVal), DOMAIN db' = Metrics,
         restarts' \in 0..MaxRestarts, exists' \in BOOLEAN,
         IsMap(file', Metrics, Value),
         inFile' \in Marks, inCycle' \in Marks,
         inCycle'.wrong = inCycle.wrong,
         inCycle.moved \subseteq inCycle'.moved,
         inCycle.reset \subseteq inCycle'.reset,
         pc # "probe" => inCycle' = inCycle,
         inFile'.wrong \subseteq DOMAIN file',
         FileTrue', EmittedTrue'
  PROVE  IInv'
<1>. USE DEF IInv, cycleVars
<1>1. TypeOK'
  BY DEF TypeOK
<1>2. ProbedTrue'
  BY DEF ProbedTrue, Holds
<1>3. WrongKnown'
  BY DEF WrongKnown
<1>4. Fresh'
  BY DEF Fresh
<1>5. Judged'
  BY DEF Judged, Verdicts
<1>6. IngestFiltered'
  BY DEF IngestFiltered
<1>7. ExitCodeIsTrue'
  BY DEF ExitCodeIsTrue
<1>. QED  BY <1>1, <1>2, <1>3, <1>4, <1>5, <1>6, <1>7

LEMMA WorkStep ==
  ASSUME IInv, NEW k \in Mapped, Work(k)
  PROVE  IInv'
<1>. USE DEF IInv
<1>1. PICK v \in 0..MaxVal : /\ k \in Counters => v > db[k]
                            /\ db' = [db EXCEPT ![k] = v]
  BY DEF Work
<1>2. /\ UNCHANGED <<restarts, exists, file, pc, cycleVars, fail, code>>
      /\ Moves({k})
  BY DEF Work
<1>3. Unprobed' = Unprobed
  BY <1>2 DEF Unprobed, cycleVars
<1>4. IsMap(db', Metrics, 0..MaxVal) /\ DOMAIN db' = Metrics
  BY <1>1 DEF TypeOK, IsMap, Metrics
<1>5. /\ inFile' \in Marks
      /\ inFile'.wrong = inFile.wrong
      /\ inFile'.moved = inFile.moved \cup {k}
      /\ inFile'.reset = inFile.reset
  BY <1>2 DEF Moves, TypeOK, Marks, Metrics
<1>6. /\ inCycle' \in Marks
      /\ inCycle'.wrong = inCycle.wrong
      /\ inCycle'.moved = inCycle.moved \cup ({k} \cap Unprobed)
      /\ inCycle'.reset = inCycle.reset
  BY <1>2 DEF Moves, TypeOK, Marks, Metrics
<1>7. pc # "probe" => inCycle' = inCycle
  <2>. SUFFICES ASSUME pc # "probe" PROVE inCycle' = inCycle
    OBVIOUS
  <2>1. Unprobed = {}
    BY DEF Unprobed
  <2>. QED  BY <1>2, <2>1 DEF Moves, TypeOK, Marks
<1>8. \A m \in Mapped : /\ m # k => db'[m] = db[m]
                        /\ m \in Counters => db[m] <= db'[m]
                        /\ db[m] \in Nat /\ db'[m] \in Nat
  BY <1>1, <1>4, BoundsAssumption DEF TypeOK, IsMap, Metrics
<1>9. FileTrue'
  <2>. SUFFICES ASSUME NEW m \in Mapped \cap DOMAIN file
                PROVE  Holds(m, file[m], db'[m], inFile')
    BY <1>2 DEF FileTrue
  <2>1. Holds(m, file[m], db[m], inFile) /\ file[m] \in Int
    BY BoundsAssumption DEF FileTrue, TypeOK, IsMap, Value
  <2>. QED  BY <1>5, <1>8, <2>1 DEF Holds
<1>10. EmittedTrue'
  <2>. SUFFICES ASSUME NEW m \in Unprobed
                PROVE  Holds(m, emitted[m], db'[m], inCycle')
    BY <1>2, <1>3 DEF EmittedTrue, cycleVars
  <2>1. m \in Mapped /\ m \in DOMAIN emitted
    BY DEF Unprobed
  <2>2. Holds(m, emitted[m], db[m], inCycle) /\ emitted[m] \in Int
    BY <2>1, BoundsAssumption DEF EmittedTrue, TypeOK, IsMap, Value
  <2>. QED  BY <1>6, <1>8, <2>1, <2>2 DEF Holds
<1>11. inFile'.wrong \subseteq DOMAIN file'
  BY <1>2, <1>5 DEF WrongKnown
<1>. QED  BY <1>2, <1>4, <1>5, <1>6, <1>7, <1>9, <1>10, <1>11, EnvironmentKeeps
          DEF TypeOK

LEMMA RestartStep ==
  ASSUME IInv, RestartDB
  PROVE  IInv'
<1>. USE DEF IInv
<1>2. /\ UNCHANGED <<exists, file, pc, cycleVars, fail, code>>
      /\ db' = [m \in Metrics |-> IF m \in Counters THEN 0 ELSE db[m]]
      /\ restarts' \in 0..MaxRestarts
  BY BoundsAssumption DEF RestartDB, TypeOK
<1>3. Unprobed' = Unprobed /\ Unprobed \subseteq Mapped \cap DOMAIN emitted
  BY <1>2 DEF Unprobed, cycleVars
<1>4. IsMap(db', Metrics, 0..MaxVal) /\ DOMAIN db' = Metrics
  BY <1>2, BoundsAssumption DEF TypeOK, IsMap
<1>5. /\ inFile' \in Marks
      /\ inFile'.wrong = inFile.wrong
      /\ inFile'.moved = inFile.moved \cup Counters
      /\ inFile'.reset = inFile.reset \cup Counters
  BY DEF RestartDB, TypeOK, Marks, Metrics, Mapped
<1>6. /\ inCycle' \in Marks
      /\ inCycle'.wrong = inCycle.wrong
      /\ inCycle'.moved = inCycle.moved \cup (Counters \cap Unprobed)
      /\ inCycle'.reset = inCycle.reset \cup (Counters \cap Unprobed)
  BY DEF RestartDB, TypeOK, Marks, Metrics, Mapped
<1>7. pc # "probe" => inCycle' = inCycle
  <2>. SUFFICES ASSUME pc # "probe" PROVE inCycle' = inCycle
    OBVIOUS
  <2>1. Unprobed = {}
    BY DEF Unprobed
  <2>. QED  BY <2>1 DEF RestartDB, TypeOK, Marks
<1>8. \A m \in Mapped : m \notin Counters => db'[m] = db[m]
  BY <1>2 DEF Metrics
<1>9. FileTrue'
  BY <1>2, <1>5, <1>8 DEF FileTrue, Holds
<1>10. EmittedTrue'
  BY <1>2, <1>3, <1>6, <1>8 DEF EmittedTrue, Holds, cycleVars
<1>11. inFile'.wrong \subseteq DOMAIN file'
  BY <1>2, <1>5 DEF WrongKnown
<1>. QED  BY <1>2, <1>4, <1>5, <1>6, <1>7, <1>9, <1>10, <1>11, EnvironmentKeeps
          DEF TypeOK

LEMMA ScrapeStep ==
  ASSUME IInv, NEW k \in Metrics, NEW wrong \in BOOLEAN, Scrape(k, wrong)
  PROVE  IInv'
<1>. USE DEF IInv
<1>. DEFINE v == IF wrong THEN db[k] + Skew ELSE db[k]
<1>1. /\ UNCHANGED <<db, restarts, exists, pc, cycleVars, fail, code, inCycle>>
      /\ file' = Put(file, k, v)
  BY DEF Scrape
<1>2. db[k] \in 0..MaxVal /\ v \in Value
  BY BoundsAssumption DEF TypeOK, IsMap, Value
<1>3. /\ IsMap(file', Metrics, Value)
      /\ DOMAIN file' = DOMAIN file \cup {k}
      /\ file'[k] = v
      /\ \A x \in DOMAIN file \ {k} : file'[x] = file[x]
  <2>. HIDE DEF v
  <2>1. IsMap(file, Metrics, Value)
    BY DEF TypeOK
  <2>2. v \in Value
    BY <1>2
  <2>3. /\ IsMap(Put(file, k, v), Metrics, Value)
        /\ DOMAIN Put(file, k, v) = DOMAIN file \cup {k}
        /\ Put(file, k, v)[k] = v
        /\ \A x \in DOMAIN file \ {k} : Put(file, k, v)[x] = file[x]
    BY ONLY <2>1, <2>2, k \in Metrics DEF IsMap, Put
  <2>4. file' = Put(file, k, v)
    BY <1>1
  <2>. QED  BY ONLY <2>3, <2>4
<1>4. /\ inFile' \in Marks
      /\ inFile'.wrong = (inFile.wrong \ {k}) \cup (IF wrong THEN {k} ELSE {})
      /\ inFile'.moved = inFile.moved \ {k}
      /\ inFile'.reset = inFile.reset \ {k}
  BY DEF Scrape, TypeOK, Marks
<1>5. FileTrue'
  <2>. SUFFICES ASSUME NEW m \in Mapped \cap DOMAIN file'
                PROVE  Holds(m, file'[m], db[m], inFile')
    BY <1>1 DEF FileTrue
  <2>1. CASE m = k
    BY <2>1, <1>2, <1>3, <1>4 DEF Holds
  <2>2. CASE m # k
    BY <2>2, <1>3, <1>4 DEF FileTrue, Holds
  <2>. QED  BY <2>1, <2>2
<1>6. EmittedTrue'
  BY <1>1 DEF EmittedTrue, Unprobed, cycleVars
<1>7. inFile'.wrong \subseteq DOMAIN file'
  BY <1>3, <1>4 DEF WrongKnown
<1>. QED  BY <1>1, <1>3, <1>4, <1>5, <1>6, <1>7, EnvironmentKeeps DEF TypeOK

LEMMA FileStep ==
  ASSUME IInv, CreateFile \/ RotateFile
  PROVE  IInv'
<1>. USE DEF IInv
<1>1. UNCHANGED <<db, restarts, pc, cycleVars, fail, code, inCycle>>
  BY DEF CreateFile, RotateFile, history
<1>2. EmittedTrue'
  BY <1>1 DEF EmittedTrue, Unprobed, cycleVars
<1>3. CASE CreateFile
  <2>1. UNCHANGED <<file, inFile>> /\ exists' \in BOOLEAN
    BY <1>3 DEF CreateFile, history
  <2>2. FileTrue' /\ inFile'.wrong \subseteq DOMAIN file'
    BY <1>1, <2>1 DEF FileTrue, WrongKnown
  <2>. QED  BY <1>1, <1>2, <2>1, <2>2, EnvironmentKeeps DEF TypeOK
<1>4. CASE RotateFile
  <2>1. file' = Empty /\ inFile' = Clean /\ exists' \in BOOLEAN
    BY <1>4 DEF RotateFile
  <2>2. IsMap(file', Metrics, Value) /\ inFile' \in Marks
    BY <2>1, EmptyMap DEF IsMap, Clean, Marks
  <2>3. FileTrue' /\ inFile'.wrong \subseteq DOMAIN file'
    BY <2>1, EmptyMap DEF FileTrue, Clean
  <2>. QED  BY <1>1, <1>2, <2>1, <2>2, <2>3, EnvironmentKeeps DEF TypeOK
<1>. QED  BY <1>3, <1>4

-----------------------------------------------------------------------------
(* The cycle. *)

\* What a step that leaves the emitted and the expected values alone keeps.
LEMMA ValuesKept ==
  ASSUME IInv,
         UNCHANGED <<envVars, inFile, inCycle, emitted, expected>>,
         pc' = "probe" => pc = "probe" /\ next' \in Nat /\ next <= next'
  PROVE  FileTrue' /\ EmittedTrue' /\ ProbedTrue' /\ WrongKnown'
<1>. USE DEF IInv, envVars
<1>1. FileTrue' /\ WrongKnown'
  BY DEF FileTrue, WrongKnown
<1>2. ProbedTrue'
  BY DEF ProbedTrue
<1>3. Unprobed' \subseteq Unprobed
  <2>1. CASE pc' # "probe"
    BY <2>1 DEF Unprobed
  <2>2. CASE pc' = "probe"
    <3>1. next \in Nat /\ Len(Queries) \in Nat
      BY QueriesAssumption DEF TypeOK
    <3>2. next'..Len(Queries) \subseteq next..Len(Queries)
      BY <2>2, <3>1
    <3>. QED  BY <2>2, <3>2 DEF Unprobed
  <2>. QED  BY <2>1, <2>2
<1>4. EmittedTrue'
  BY <1>3 DEF EmittedTrue
<1>. QED  BY <1>1, <1>2, <1>4

LEMMA SetupStep ==
  ASSUME IInv, SetupFails \/ SetupSucceeds
  PROVE  IInv'
<1>. USE DEF IInv
<1>1. /\ pc = "setup" /\ pc' \in {"exit", "read"}
      /\ UNCHANGED <<envVars, cycleVars, fail, history>>
      /\ IF pc' = "exit" THEN code' = 2 ELSE code' = code
  BY DEF SetupFails, SetupSucceeds
<1>2. TypeOK'
  BY <1>1 DEF TypeOK, envVars, cycleVars, history
<1>3. FileTrue' /\ EmittedTrue' /\ ProbedTrue' /\ WrongKnown'
  BY <1>1, ValuesKept DEF cycleVars, history
<1>4. Fresh' /\ Judged' /\ IngestFiltered'
  BY <1>1 DEF Fresh, Judged, IngestFiltered, cycleVars, history
<1>5. ExitCodeIsTrue'
  BY <1>1 DEF ExitCodeIsTrue, TypeOK
<1>. QED  BY <1>2, <1>3, <1>4, <1>5

LEMMA ReadEmittedStep ==
  ASSUME IInv, ReadEmitted
  PROVE  IInv'
<1>. USE DEF IInv
<1>1. /\ pc = "read" /\ pc' = "probe"
      /\ emitted' = file /\ inCycle' = inFile
      /\ UNCHANGED <<envVars, expected, next, results, pending, ic, err, fail,
                     code, inFile>>
  BY DEF ReadEmitted
<1>2. TypeOK'
  BY <1>1 DEF TypeOK, envVars
<1>3. FileTrue' /\ WrongKnown'
  BY <1>1 DEF FileTrue, WrongKnown, envVars
<1>4. EmittedTrue'
  <2>1. Unprobed' \subseteq Mapped \cap DOMAIN file
    BY <1>1 DEF Unprobed
  <2>. QED  BY <1>1, <2>1 DEF FileTrue, EmittedTrue, envVars
<1>5. ProbedTrue'
  BY <1>1, EmptyMap DEF ProbedTrue, Fresh
<1>6. Fresh' /\ Judged' /\ IngestFiltered'
  BY <1>1 DEF Fresh, Judged, IngestFiltered
<1>7. ExitCodeIsTrue'
  BY <1>1 DEF ExitCodeIsTrue, TypeOK
<1>. QED  BY <1>2, <1>3, <1>4, <1>5, <1>6, <1>7

\* A cycle that ends with an error before anything is compared.
LEMMA ErrorStep ==
  ASSUME IInv, ReadFails \/ OpenFails \/ RereadFails
  PROVE  IInv'
<1>. USE DEF IInv
<1>1. /\ pc \in {"read", "probe", "reread"} /\ pc' = "report" /\ err'
      /\ pc = "probe" => next = 1
      /\ UNCHANGED <<envVars, emitted, expected, next, results, pending, ic, fail,
                     code, history>>
  BY DEF ReadFails, OpenFails, RereadFails
<1>2. TypeOK'
  <2>1. err' = TRUE
    BY DEF ReadFails, OpenFails, RereadFails
  <2>. QED  BY <1>1, <2>1 DEF TypeOK, envVars, history
<1>3. FileTrue' /\ EmittedTrue' /\ ProbedTrue' /\ WrongKnown'
  BY <1>1, ValuesKept DEF history
<1>4. Fresh' /\ IngestFiltered'
  BY <1>1 DEF Fresh, IngestFiltered
<1>5. Judged'
  BY <1>1 DEF Judged, Verdicts, Fresh
<1>6. ExitCodeIsTrue'
  BY <1>1 DEF ExitCodeIsTrue, TypeOK
<1>. QED  BY <1>2, <1>3, <1>4, <1>5, <1>6

LEMMA QuerySucceedsStep ==
  ASSUME IInv, QuerySucceeds
  PROVE  IInv'
<1>. USE DEF IInv
<1>. DEFINE E == Extracted(Queries[next])
<1>1. /\ pc = "probe" /\ next <= Len(Queries) /\ next' = next + 1
      /\ expected' = [m \in DOMAIN expected \cup E |->
                        IF m \in E THEN db[m] ELSE expected[m]]
      /\ UNCHANGED <<envVars, pc, emitted, results, pending, ic, err, fail, code,
                     history>>
  BY DEF QuerySucceeds
<1>2. next \in 1..Len(Queries) /\ Len(Queries) \in Nat
  BY <1>1, QueriesAssumption DEF TypeOK
<1>3. E \subseteq Mapped
  BY DEF Extracted
<1>4. IsMap(expected', Mapped, 0..MaxVal)
  <2>. HIDE DEF E
  <2>1. \A m \in Mapped : db[m] \in 0..MaxVal
    BY DEF TypeOK, IsMap, Metrics
  <2>2. IsMap(expected, Mapped, 0..MaxVal)
    BY DEF TypeOK
  <2>. QED  BY <1>1, <1>3, <2>1, <2>2 DEF IsMap
<1>5. TypeOK'
  BY <1>1, <1>2, <1>4 DEF TypeOK, envVars, history
<1>6. FileTrue' /\ WrongKnown'
  BY <1>1 DEF FileTrue, WrongKnown, envVars, history
<1>7. EmittedTrue'
  <2>1. next'..Len(Queries) \subseteq next..Len(Queries)
    BY <1>1, <1>2
  <2>2. Unprobed' \subseteq Unprobed
    BY <1>1, <2>1 DEF Unprobed
  <2>. QED  BY <1>1, <2>2 DEF EmittedTrue, envVars, history
<1>8. ProbedTrue'
  <2>. SUFFICES ASSUME NEW m \in DOMAIN expected' \cap DOMAIN emitted
                PROVE  Holds(m, emitted[m], expected'[m], inCycle)
    BY <1>1 DEF ProbedTrue, history
  <2>1. CASE m \in E
    <3>1. QueryOf[m] = Queries[next] /\ m \in Mapped
      BY <2>1 DEF Extracted
    <3>2. m \in Unprobed
      BY <1>1, <1>2, <3>1 DEF Unprobed
    <3>3. expected'[m] = db[m]
      BY <1>1, <2>1
    <3>. QED  BY <3>2, <3>3 DEF EmittedTrue
  <2>2. CASE m \notin E
    <3>1. m \in DOMAIN expected /\ expected'[m] = expected[m]
      BY <1>1, <2>2
    <3>. QED  BY <3>1 DEF ProbedTrue
  <2>. QED  BY <2>1, <2>2
<1>9. Fresh' /\ Judged' /\ IngestFiltered'
  BY <1>1, <1>2 DEF Fresh, Judged, IngestFiltered
<1>10. ExitCodeIsTrue'
  BY <1>1 DEF ExitCodeIsTrue, TypeOK
<1>. QED  BY <1>5, <1>6, <1>7, <1>8, <1>9, <1>10

LEMMA QueryFailsStep ==
  ASSUME IInv, QueryFails
  PROVE  IInv'
<1>. USE DEF IInv
<1>1. /\ pc = "probe" /\ next <= Len(Queries) /\ next' = next + 1
      /\ UNCHANGED <<envVars, pc, emitted, expected, results, pending, ic, err,
                     fail, code, history>>
  BY DEF QueryFails
<1>2. next \in 1..Len(Queries) /\ Len(Queries) \in Nat
  BY <1>1, QueriesAssumption DEF TypeOK
<1>3. TypeOK'
  BY <1>1, <1>2 DEF TypeOK, envVars, history
<1>4. FileTrue' /\ EmittedTrue' /\ ProbedTrue' /\ WrongKnown'
  BY <1>1, <1>2, ValuesKept DEF history
<1>5. Fresh' /\ Judged' /\ IngestFiltered'
  BY <1>1, <1>2 DEF Fresh, Judged, IngestFiltered
<1>6. ExitCodeIsTrue'
  BY <1>1 DEF ExitCodeIsTrue, TypeOK
<1>. QED  BY <1>3, <1>4, <1>5, <1>6

LEMMA CompareRowsStep ==
  ASSUME IInv, CompareRows
  PROVE  IInv'
<1>. USE DEF IInv
<1>1. /\ pc = "probe" /\ pc' \in {"reread", "report"}
      /\ results' = Verdicts
      /\ UNCHANGED <<envVars, emitted, expected, next, pending, ic, err, fail,
                     code, history>>
  BY DEF CompareRows, Verdicts
<1>2. IsMap(results', Metrics, {"OK", "MISMATCH", "MISSING_IN_INGEST",
                                "MISSING_IN_DB"})
  BY <1>1, VerdictRows DEF TypeOK, IsMap, Metrics
<1>3. TypeOK'
  BY <1>1, <1>2 DEF TypeOK, envVars, history
<1>4. FileTrue' /\ EmittedTrue' /\ ProbedTrue' /\ WrongKnown'
  BY <1>1, ValuesKept DEF history
<1>5. Fresh' /\ IngestFiltered'
  BY <1>1, EmptyMap DEF Fresh, IngestFiltered
<1>6. Judged'
  <2>1. Verdicts' = Verdicts
    BY <1>1 DEF Verdicts
  <2>. QED  BY <1>1, <2>1 DEF Judged
<1>7. ExitCodeIsTrue'
  BY <1>1 DEF ExitCodeIsTrue, TypeOK
<1>. QED  BY <1>3, <1>4, <1>5, <1>6, <1>7

LEMMA IngestStep ==
  ASSUME IInv, Reread \/ (\E m \in Metrics : CheckSeries(m)) \/ IngestDone
  PROVE  IInv'
<1>. USE DEF IInv
<1>. DEFINE Statuses == {"INGEST_OK", "INGEST_MISMATCH", "INGEST_NO_DATA",
                         "INGEST_ERROR", "INGEST_SKIPPED"}
<1>1. /\ pc \in {"reread", "ingest"}
      /\ pc' \in {"ingest", "report"}
      /\ UNCHANGED <<envVars, emitted, expected, next, results, err, fail, code,
                     history>>
  BY DEF Reread, CheckSeries, IngestDone
<1>2. IsMap(ic', Metrics, Statuses) /\ pending' \subseteq Metrics
  <2>1. IsMap(ic, Metrics, Statuses) /\ pending \subseteq Metrics
    BY DEF TypeOK
  <2>. HIDE DEF Statuses
  <2>2. CASE Reread
    BY <2>1, <2>2 DEF Reread, TypeOK, IsMap
  <2>3. ASSUME NEW m \in Metrics, CheckSeries(m)
        PROVE  IsMap(ic', Metrics, Statuses) /\ pending' \subseteq Metrics
    <3>1. PICK s \in IngestStatuses(m) : ic' = Put(ic, m, s)
      BY <2>3 DEF CheckSeries
    <3>2. s \in Statuses
      BY DEF IngestStatuses, Statuses
    <3>3. IsMap(ic', Metrics, Statuses)
      BY <2>1, <3>1, <3>2, PutMap
    <3>. QED  BY <2>1, <2>3, <3>3 DEF CheckSeries
  <2>4. CASE IngestDone
    BY <2>1, <2>4, FilterMap DEF IngestDone
  <2>. QED  BY <2>2, <2>3, <2>4
<1>3. TypeOK'
  BY <1>1, <1>2 DEF TypeOK, envVars, history
<1>4. FileTrue' /\ EmittedTrue' /\ ProbedTrue' /\ WrongKnown'
  BY <1>1, ValuesKept DEF history
<1>5. Fresh'
  BY <1>1 DEF Fresh
<1>6. Judged'
  BY <1>1 DEF Judged, Verdicts
<1>7. IngestFiltered'
  <2>. SUFFICES ASSUME pc' = "report" PROVE DOMAIN ic' \subseteq Matching
    BY DEF IngestFiltered
  <2>1. ic' = Filter(ic, Matching)
    BY <1>1 DEF Reread, CheckSeries, IngestDone
  <2>. QED  BY <2>1 DEF Filter
<1>8. ExitCodeIsTrue'
  BY <1>1 DEF ExitCodeIsTrue, TypeOK
<1>. QED  BY <1>3, <1>4, <1>5, <1>6, <1>7, <1>8

LEMMA ReportOnceStep ==
  ASSUME IInv, ReportOnce
  PROVE  IInv'
<1>. USE DEF IInv
<1>1. /\ pc = "report" /\ pc' = "exit"
      /\ code' = IF err THEN 2 ELSE IF failed THEN 1 ELSE 0
      /\ UNCHANGED <<envVars, cycleVars, fail, history>>
  BY DEF ReportOnce
<1>2. TypeOK'
  BY <1>1 DEF TypeOK, envVars, cycleVars, history
<1>3. FileTrue' /\ EmittedTrue' /\ ProbedTrue' /\ WrongKnown'
  BY <1>1, ValuesKept DEF cycleVars, history
<1>4. Fresh' /\ IngestFiltered'
  BY <1>1 DEF Fresh, IngestFiltered, cycleVars
<1>5. Judged'
  BY <1>1 DEF Judged, Verdicts, cycleVars
<1>6. ExitCodeIsTrue'
  <2>. SUFFICES ASSUME code' \in {0, 1}
                PROVE  code' = 1 <=>
                         \/ \E m \in DOMAIN expected \cap DOMAIN emitted \cap Matching :
                              ~WithinTolerance(expected[m], emitted[m], TypeOf[m])
                         \/ \E m \in DOMAIN ic \cap Matching : ic[m] = "INGEST_MISMATCH"
    BY <1>1 DEF ExitCodeIsTrue, cycleVars
  <2>1. ~err /\ (code' = 1 <=> failed)
    BY <1>1
  <2>2. DOMAIN ic \subseteq Matching
    BY <1>1, <2>1 DEF IngestFiltered
  <2>3. HasFailures(results) <=>
          \E m \in DOMAIN expected \cap DOMAIN emitted \cap Matching :
            ~WithinTolerance(expected[m], emitted[m], TypeOf[m])
    <3>1. CASE results = Verdicts
      BY <3>1, VerdictRows DEF HasFailures
    <3>2. CASE results = Empty /\ expected = Empty
      BY <3>2, EmptyMap DEF HasFailures
    <3>. QED  BY <1>1, <3>1, <3>2 DEF Judged
  <2>. QED  BY <2>1, <2>2, <2>3 DEF failed
<1>. QED  BY <1>2, <1>3, <1>4, <1>5, <1>6

LEMMA WatchStep ==
  ASSUME IInv, ReportWatch \/ Wake
  PROVE  IInv'
<1>. USE DEF IInv
<1>1. CASE ReportWatch
  <2>1. /\ pc = "report" /\ pc' = "sleep"
        /\ UNCHANGED <<envVars, cycleVars, code, history>>
        /\ fail' \in BOOLEAN
    BY <1>1 DEF ReportWatch, failed, HasFailures, TypeOK
  <2>2. TypeOK'
    BY <2>1 DEF TypeOK, envVars, cycleVars, history
  <2>3. FileTrue' /\ EmittedTrue' /\ ProbedTrue' /\ WrongKnown'
    BY <2>1, ValuesKept DEF cycleVars, history
  <2>4. Fresh' /\ IngestFiltered' /\ ExitCodeIsTrue'
    BY <2>1 DEF Fresh, IngestFiltered, ExitCodeIsTrue, TypeOK
  <2>5. Judged'
    BY <2>1 DEF Judged, Verdicts, cycleVars
  <2>. QED  BY <2>2, <2>3, <2>4, <2>5
<1>2. CASE Wake
  <2>1. /\ pc = "sleep" /\ pc' = "read"
        /\ emitted' = Empty /\ expected' = Empty /\ next' = 1
        /\ results' = Empty /\ pending' = {} /\ ic' = Empty /\ err' = FALSE
        /\ inCycle' = Clean
        /\ UNCHANGED <<envVars, fail, code, inFile>>
    BY <1>2 DEF Wake
  <2>2. TypeOK'
    <3>1. \A D, S : IsMap(Empty, D, S)
      BY EmptyMap DEF IsMap
    <3>2. /\ IsMap(emitted', Metrics, Value)
          /\ IsMap(expected', Mapped, 0..MaxVal)
          /\ IsMap(results', Metrics, {"OK", "MISMATCH", "MISSING_IN_INGEST",
                                       "MISSING_IN_DB"})
          /\ IsMap(ic', Metrics, {"INGEST_OK", "INGEST_MISMATCH", "INGEST_NO_DATA",
                                  "INGEST_ERROR", "INGEST_SKIPPED"})
      BY <2>1, <3>1, Zenon
    <3>3. next' \in 1..Len(Queries) + 1
      <4>1. Len(Queries) \in Nat
        BY QueriesAssumption
      <4>. QED  BY <2>1, <4>1
    <3>4. inCycle' \in Marks
      BY <2>1 DEF Clean, Marks
    <3>. QED  BY <2>1, <3>2, <3>3, <3>4 DEF TypeOK, envVars
  <2>3. FileTrue' /\ WrongKnown'
    BY <2>1 DEF FileTrue, WrongKnown, Clean, envVars
  <2>4. EmittedTrue' /\ ProbedTrue'
    BY <2>1, EmptyMap DEF EmittedTrue, Unprobed, ProbedTrue
  <2>5. Fresh' /\ Judged' /\ IngestFiltered'
    BY <2>1 DEF Fresh, Judged, IngestFiltered
  <2>6. ExitCodeIsTrue'
    BY <2>1 DEF ExitCodeIsTrue, TypeOK
  <2>. QED  BY <2>2, <2>3, <2>4, <2>5, <2>6
<1>. QED  BY <1>1, <1>2

LEMMA StutterStep == IInv /\ UNCHANGED vars => IInv'
<1>. SUFFICES ASSUME IInv, UNCHANGED vars PROVE IInv'
  OBVIOUS
<1>. USE DEF IInv, vars, envVars, cycleVars, history
<1>1. TypeOK'
  BY DEF TypeOK
<1>2. FileTrue' /\ EmittedTrue' /\ ProbedTrue' /\ WrongKnown'
  BY DEF FileTrue, EmittedTrue, ProbedTrue, WrongKnown, Unprobed
<1>3. Fresh' /\ IngestFiltered' /\ ExitCodeIsTrue'
  BY DEF Fresh, IngestFiltered, ExitCodeIsTrue
<1>4. Judged'
  BY DEF Judged, Verdicts
<1>. QED  BY <1>1, <1>2, <1>3, <1>4

LEMMA NextIInv == IInv /\ [Next]_vars => IInv'
<1>. SUFFICES ASSUME IInv, [Next]_vars PROVE IInv'
  OBVIOUS
<1>1. CASE Environment
  <2>1. \A m \in Mapped : Work(m) => IInv'
    BY WorkStep
  <2>2. \A m \in Metrics, wrong \in BOOLEAN : Scrape(m, wrong) => IInv'
    BY ScrapeStep
  <2>. QED  BY <1>1, <2>1, <2>2, RestartStep, FileStep
            DEF Environment, Metrics
<1>2. CASE DatabaseAnswers
  BY <1>2, ErrorStep, QuerySucceedsStep, QueryFailsStep DEF DatabaseAnswers
<1>3. CASE OwnSteps
  BY <1>3, SetupStep, ReadEmittedStep, ErrorStep, CompareRowsStep, IngestStep,
     ReportOnceStep, WatchStep DEF OwnSteps
<1>4. CASE UNCHANGED vars
  BY <1>4, StutterStep
<1>. QED  BY <1>1, <1>2, <1>3, <1>4 DEF Next

LEMMA Invariance == Spec => []IInv
<1>1. Init => IInv
  BY InitIInv
<1>2. IInv /\ [Next]_vars => IInv'
  BY NextIInv
<1>. QED  BY <1>1, <1>2, PTL DEF Spec

-----------------------------------------------------------------------------
(* Theorems. *)

\* Every variable of the validator, the database and the collector has its type,
\* and the exit code is set exactly when the program has ended.
THEOREM TypeCorrect == Spec => []TypeOK
<1>1. IInv => TypeOK
  BY DEF IInv
<1>. QED  BY <1>1, Invariance, PTL

\* The DB check accuses no receiver of a value that was right when it was
\* scraped and that the database still held when it was probed (main.go:120-151
\* with dbprobe.go:37-72), whatever failed or restarted in between.
THEOREM NoFalseAlarmAlways == Spec => []NoFalseAlarm
<1>1. IInv => NoFalseAlarm
  <2>. SUFFICES ASSUME IInv, NEW m \in DOMAIN results, results[m] = "MISMATCH",
                       m \notin inCycle.wrong \cup inCycle.moved
                PROVE  FALSE
    BY DEF NoFalseAlarm
  <2>1. results = Verdicts
    BY EmptyMap DEF IInv, Fresh, Judged
  <2>2. /\ m \in DOMAIN expected \cap DOMAIN emitted
        /\ ~WithinTolerance(expected[m], emitted[m], TypeOf[m])
    BY <2>1, VerdictRows
  <2>3. emitted[m] = expected[m]
    BY <2>2 DEF IInv, ProbedTrue, Holds
  <2>4. expected[m] \in Nat
    BY <2>2, BoundsAssumption DEF IInv, TypeOK, IsMap
  <2>. QED  BY <2>2, <2>3, <2>4, EqualAgrees
<1>. QED  BY <1>1, Invariance, PTL

\* Reading the file before probing (main.go:121-125) gives drift one sign: a
\* counter's emitted value is never ahead of the database's without a restart.
THEOREM CounterNeverAheadAlways == Spec => []CounterNeverAhead
<1>1. IInv => CounterNeverAhead
  BY DEF IInv, ProbedTrue, Holds, CounterNeverAhead
<1>. QED  BY <1>1, Invariance, PTL

\* A wrong value that is not within the tolerance (compare.go:37-48) of the right
\* one, of a metric whose query answered while the database did not move, is
\* a MISMATCH row of the DB check, unless --metric hides it.
THEOREM WrongValueIsFoundAlways == Spec => []WrongValueIsFound
<1>1. IInv => WrongValueIsFound
  <2>. SUFFICES ASSUME IInv, pc \in {"reread", "ingest", "report", "exit"},
                       NEW m \in (Mapped \cap inCycle.wrong) \ inCycle.moved,
                       m \in DOMAIN expected \cap Matching,
                       Noticeable(m)
                PROVE  m \in DOMAIN results /\ results[m] = "MISMATCH"
    BY DEF WrongValueIsFound
  <2>1. results = Verdicts
    BY EmptyMap DEF IInv, Judged
  <2>2. m \in DOMAIN emitted
    BY DEF IInv, WrongKnown
  <2>3. emitted[m] = expected[m] + Skew
    BY <2>2 DEF IInv, ProbedTrue, Holds
  <2>4. expected[m] \in Nat
    BY BoundsAssumption DEF IInv, TypeOK, IsMap
  <2>5. TypeOf[m] = "sum" <=> m \in Counters
    BY DEF TypeOf
  <2>6. ~WithinTolerance(expected[m], emitted[m], TypeOf[m])
    BY <2>3, <2>4, <2>5, SkewDisagrees DEF Noticeable
  <2>. QED  BY <2>1, <2>2, <2>6, VerdictRows
<1>. QED  BY <1>1, Invariance, PTL

\* Exit codes 0 and 1 tell the truth about the rows of both checks
\* (main.go:70-85, :249-251), after any number of failing steps.
THEOREM ExitCodeIsTrueAlways == Spec => []ExitCodeIsTrue
<1>1. IInv => ExitCodeIsTrue
  BY DEF IInv
<1>. QED  BY <1>1, Invariance, PTL

=============================================================================
