-------------------------- MODULE OtlpReaderProofs --------------------------
(***************************************************************************)
(* What is proved of OtlpReader, for any lines, any windows, files of any  *)
(* length and any number of rotations.                                     *)
(*                                                                         *)
(* The inductive invariant says of a read under way that its map fits the  *)
(* points scanned so far (LatestFits, SeriesFits) and of a reader at rest  *)
(* that it holds nothing.  A scan step keeps the fit by the lemmas of      *)
(* OtlpPointsProofs; a step of the collector keeps it because files only   *)
(* grow at the end, so that what was scanned stays what it was.            *)
(***************************************************************************)
EXTENDS OtlpReader, OtlpPointsProofs

Fits ==
  phase \in {"scan", "done"} =>
    IF mode = "latest" THEN LatestFits(latest, Scanned)
                       ELSE SeriesFits(series, Scanned, since)

AtRest == phase = "idle" => fd = 0 /\ pos = 0 /\ latest = Empty /\ series = Empty

IInv == TypeOK /\ AtRest /\ Fits

-----------------------------------------------------------------------------
(* Lemmas about sequences of raw points. *)

\* A raw point is a point of OtlpPointsProofs.
LEMMA RawPointIsPoint ==
  ASSUME NEW p \in RawPoint
  PROVE  IsPoint(p)
BY DEF RawPoint, IsPoint

\* A prefix does not change when something is put behind the sequence.
LEMMA PrefixKept ==
  ASSUME NEW S, NEW s \in Seq(S), NEW t \in Seq(S), NEW n \in Nat, n <= Len(s)
  PROVE  /\ s \o t \in Seq(S)
         /\ Len(s \o t) = Len(s) + Len(t)
         /\ \A i \in 1..Len(s) : (s \o t)[i] = s[i]
         /\ SubSeq(s \o t, 1, n) = SubSeq(s, 1, n)
<1>1. s \o t \in Seq(S) /\ Len(s \o t) = Len(s) + Len(t)
  OBVIOUS
<1>2. \A i \in 1..Len(s) : (s \o t)[i] = s[i]
  OBVIOUS
<1>3. SubSeq(s, 1, n) = [i \in 1..n |-> s[i]]
  OBVIOUS
<1>4. SubSeq(s \o t, 1, n) = [i \in 1..n |-> (s \o t)[i]]
  OBVIOUS
<1>. QED  BY <1>1, <1>2, <1>3, <1>4

\* The prefix that is one longer.
LEMMA PrefixGrown ==
  ASSUME NEW S, NEW s \in Seq(S), NEW n \in Nat, n < Len(s)
  PROVE  /\ SubSeq(s, 1, n) \in Seq(S)
         /\ s[n + 1] \in S
         /\ SubSeq(s, 1, n + 1) = Grown(SubSeq(s, 1, n), s[n + 1])
<1>1. SubSeq(s, 1, n) = [i \in 1..n |-> s[i]] /\ SubSeq(s, 1, n) \in Seq(S)
  OBVIOUS
<1>2. SubSeq(s, 1, n + 1) = [i \in 1..n + 1 |-> s[i]]
  OBVIOUS
<1>3. Len(SubSeq(s, 1, n)) = n
  BY <1>1
<1>4. s[n + 1] \in S
  OBVIOUS
<1>5. Grown(SubSeq(s, 1, n), s[n + 1]) =
        [i \in 1..n + 1 |-> IF i <= n THEN SubSeq(s, 1, n)[i] ELSE s[n + 1]]
  BY <1>3 DEF Grown
<1>6. \A i \in 1..n + 1 :
        (IF i <= n THEN SubSeq(s, 1, n)[i] ELSE s[n + 1]) = s[i]
  BY <1>1
<1>. QED  BY <1>1, <1>2, <1>4, <1>5, <1>6

\* A torn line is a sequence of raw points.
LEMMA TornType ==
  ASSUME NEW l \in Seq(RawPoint)
  PROVE  Torn(l) \in Seq(RawPoint)
<1>1. \A p \in RawPoint : [p EXCEPT !.shape = "torn"] \in RawPoint
  BY DEF RawPoint, Shapes
<1>2. DOMAIN l = 1..Len(l) /\ Len(l) \in Nat /\ \A i \in 1..Len(l) : l[i] \in RawPoint
  OBVIOUS
<1>3. Torn(l) \in [1..Len(l) -> RawPoint]
  BY <1>1, <1>2 DEF Torn
<1>4. \A n \in Nat : \A f \in [1..n -> RawPoint] : f \in Seq(RawPoint)
  OBVIOUS
<1>. QED  BY <1>2, <1>3, <1>4

\* The folds keep the type of their maps.
LEMMA StepTypes ==
  ASSUME NEW p \in RawPoint, NEW m, NEW s
  PROVE  /\ IsMap(m, EmittedPoint) => IsMap(NewestStep(m, p), EmittedPoint)
         /\ IsMap(m, SeriesRecord) => IsMap(SeriesStep(m, p, s), SeriesRecord)
<1>1. /\ Emitted(p) \in EmittedPoint
      /\ NewSeries(p) \in SeriesRecord
      /\ p.key \in Keys
      /\ TimeOf(p) \in Int
  BY DEF RawPoint, Emitted, EmittedPoint, NewSeries, SeriesRecord, TimeOf
<1>2. \A r \in SeriesRecord : ExtendSeries(r, p) \in SeriesRecord
  BY <1>1 DEF ExtendSeries, SeriesRecord, RawPoint
<1>3. IsMap(m, EmittedPoint) => IsMap(NewestStep(m, p), EmittedPoint)
  BY <1>1 DEF NewestStep, IsMap, Put
<1>4. IsMap(m, SeriesRecord) => IsMap(SeriesStep(m, p, s), SeriesRecord)
  <2>. SUFFICES ASSUME IsMap(m, SeriesRecord)
                PROVE  IsMap(SeriesStep(m, p, s), SeriesRecord)
    OBVIOUS
  <2>. DEFINE v == IF p.key \in DOMAIN m THEN ExtendSeries(m[p.key], p)
                                         ELSE NewSeries(p)
  <2>1. v \in SeriesRecord
    BY <1>1, <1>2 DEF IsMap
  <2>. HIDE DEF v
  <2>2. IsMap(Put(m, p.key, v), SeriesRecord)
    BY <2>1, <1>1 DEF IsMap, Put
  <2>. QED  BY <2>2 DEF SeriesStep, v
<1>. QED  BY <1>3, <1>4

-----------------------------------------------------------------------------
(* The inductive invariant. *)

LEMMA InitIInv == Init => IInv
<1>. SUFFICES ASSUME Init PROVE IInv
  OBVIOUS
<1>1. TypeOK
  <2>1. << >> \in Seq(Seq(RawPoint)) /\ << >> \in Seq(RawPoint) /\ Len(inodes) = 0
    BY DEF Init
  <2>2. IsMap(<< >>, EmittedPoint) /\ IsMap(<< >>, SeriesRecord)
    BY DEF IsMap
  <2>. QED  BY <2>1, <2>2 DEF Init, TypeOK, Empty
<1>. QED  BY <1>1 DEF Init, IInv, AtRest, Fits

\* The collector touches nothing of the reader, and leaves what it scanned.
LEMMA CollectorKeeps ==
  ASSUME IInv, Collector
  PROVE  /\ UNCHANGED readerVars
         /\ inodes' \in Seq(Seq(RawPoint))
         /\ cur' \in 0..Len(inodes')
         /\ tail' \in Seq(RawPoint)
         /\ tail' # << >> => cur' # 0
         /\ Len(inodes) <= Len(inodes')
         /\ \A n \in 1..Len(inodes) :
              /\ Len(inodes[n]) <= Len(inodes'[n])
              /\ \A i \in 1..Len(inodes[n]) : inodes'[n][i] = inodes[n][i]
              /\ \A i \in 0..Len(inodes[n]) :
                   SubSeq(inodes'[n], 1, i) = SubSeq(inodes[n], 1, i)
<1>. USE DEF IInv, TypeOK
<1>0. \A n \in 1..Len(inodes) : inodes[n] \in Seq(RawPoint) /\ Len(inodes[n]) \in Nat
  OBVIOUS
<1>1. CASE CreateFile
  <2>1. /\ inodes' \in Seq(Seq(RawPoint)) /\ Len(inodes') = Len(inodes) + 1
        /\ \A n \in 1..Len(inodes) : inodes'[n] = inodes[n]
    BY <1>1 DEF CreateFile
  <2>. QED  BY <2>1, <1>0, <1>1 DEF CreateFile
<1>2. CASE \E l \in Lines : StartLine(l)
  BY <1>0, <1>2, LinesAssumption DEF StartLine
<1>3. CASE FinishLine
  <2>1. cur \in 1..Len(inodes) /\ inodes[cur] \in Seq(RawPoint)
    BY <1>3 DEF FinishLine
  <2>2. inodes[cur] \o tail \in Seq(RawPoint)
    BY <2>1
  <2>3. /\ inodes' \in Seq(Seq(RawPoint)) /\ Len(inodes') = Len(inodes)
        /\ \A n \in 1..Len(inodes) :
             inodes'[n] = IF n = cur THEN inodes[n] \o tail ELSE inodes[n]
    BY <2>1, <2>2, <1>3 DEF FinishLine
  <2>4. \A n \in 1..Len(inodes) :
          /\ Len(inodes[n]) <= Len(inodes'[n])
          /\ \A i \in 1..Len(inodes[n]) : inodes'[n][i] = inodes[n][i]
          /\ \A i \in 0..Len(inodes[n]) :
               SubSeq(inodes'[n], 1, i) = SubSeq(inodes[n], 1, i)
    <3>. SUFFICES ASSUME NEW n \in 1..Len(inodes)
                  PROVE  /\ Len(inodes[n]) <= Len(inodes'[n])
                         /\ \A i \in 1..Len(inodes[n]) : inodes'[n][i] = inodes[n][i]
                         /\ \A i \in 0..Len(inodes[n]) :
                              SubSeq(inodes'[n], 1, i) = SubSeq(inodes[n], 1, i)
      OBVIOUS
    <3>1. CASE n # cur
      BY <3>1, <2>3, <1>0
    <3>2. CASE n = cur
      <4>. DEFINE s == inodes[n]
      <4>1. s \in Seq(RawPoint) /\ tail \in Seq(RawPoint) /\ Len(tail) \in Nat
            /\ Len(s) \in Nat
        BY <1>0
      <4>2. inodes'[n] = s \o tail
        BY <3>2, <2>3
      <4>. HIDE DEF s
      <4>3. /\ Len(s \o tail) = Len(s) + Len(tail)
            /\ \A i \in 1..Len(s) : (s \o tail)[i] = s[i]
        BY <4>1, PrefixKept
      <4>4. \A i \in 0..Len(s) : SubSeq(s \o tail, 1, i) = SubSeq(s, 1, i)
        BY <4>1, PrefixKept
      <4>. QED  BY <4>1, <4>2, <4>3, <4>4 DEF s
    <3>. QED  BY <3>1, <3>2
  <2>. QED  BY <2>1, <2>3, <2>4, <1>3 DEF FinishLine
<1>4. CASE \E l \in Lines : TearLine(l)
  <2>1. PICK l \in Lines : TearLine(l)
    BY <1>4
  <2>0. tail \o l \in Seq(RawPoint)
    <3>1. l \in Seq(RawPoint)
      BY LinesAssumption
    <3>. QED  BY <3>1
  <2>2. Torn(tail \o l) \in Seq(RawPoint)
    BY <2>0, TornType
  <2>. QED  BY <2>1, <2>2, <1>0 DEF TearLine
<1>5. CASE Rotate
  BY <1>0, <1>5 DEF Rotate
<1>. QED  BY <1>1, <1>2, <1>3, <1>4, <1>5 DEF Collector

LEMMA CollectorStep ==
  ASSUME IInv, Collector
  PROVE  IInv'
<1>1. TypeOK'
  <2>1. /\ inodes \in Seq(Seq(RawPoint))
        /\ inodes' \in Seq(Seq(RawPoint))
        /\ Len(inodes) <= Len(inodes')
    BY CollectorKeeps DEF IInv, TypeOK
  <2>2. Len(inodes) \in Nat /\ Len(inodes') \in Nat
    BY <2>1
  <2>3. \A n \in 1..Len(inodes) : inodes[n] \in Seq(RawPoint)
                                  /\ inodes'[n] \in Seq(RawPoint)
    BY <2>1, <2>2
  <2>4. \A n \in 1..Len(inodes) : Len(inodes[n]) \in Nat /\ Len(inodes'[n]) \in Nat
    BY <2>3
  <2>5. fd' \in 0..Len(inodes') /\ (fd' # 0 => pos' <= Len(inodes'[fd']))
    <3>1. /\ fd' = fd /\ pos' = pos
          /\ \A n \in 1..Len(inodes) : Len(inodes[n]) <= Len(inodes'[n])
      BY CollectorKeeps DEF readerVars
    <3>2. /\ fd \in 0..Len(inodes) /\ pos \in Nat
          /\ fd # 0 => pos <= Len(inodes[fd])
      BY DEF IInv, TypeOK
    <3>. QED  BY <3>1, <3>2, <2>1, <2>2, <2>4
  <2>6. /\ UNCHANGED readerVars /\ cur' \in 0..Len(inodes')
        /\ tail' \in Seq(RawPoint) /\ (tail' # << >> => cur' # 0)
    BY CollectorKeeps
  <2>. QED  BY <2>1, <2>2, <2>5, <2>6 DEF IInv, TypeOK, readerVars
<1>2. AtRest'
  BY CollectorKeeps DEF IInv, AtRest, readerVars
<1>3. Fits'
  <2>. SUFFICES ASSUME phase \in {"scan", "done"}
                PROVE  Fits'
    BY CollectorKeeps DEF Fits, readerVars
  <2>1. fd \in 1..Len(inodes) /\ pos \in 0..Len(inodes[fd])
    BY DEF IInv, TypeOK
  <2>2. Scanned' = Scanned
    BY <2>1, CollectorKeeps DEF Scanned, readerVars
  <2>. QED  BY <2>2, CollectorKeeps DEF IInv, Fits, readerVars
<1>. QED  BY <1>1, <1>2, <1>3 DEF IInv

\* The open file, and the point the reader is about to scan.
LEMMA OpenFile ==
  ASSUME IInv, phase \in {"scan", "done"}
  PROVE  /\ fd \in 1..Len(inodes)
         /\ inodes[fd] \in Seq(RawPoint)
         /\ pos \in 0..Len(inodes[fd]) /\ Len(inodes[fd]) \in Nat
         /\ Scanned \in Seq(RawPoint)
         /\ ArePoints(Scanned)
<1>1. /\ fd \in 1..Len(inodes) /\ inodes[fd] \in Seq(RawPoint)
      /\ pos \in 0..Len(inodes[fd]) /\ Len(inodes[fd]) \in Nat
  BY DEF IInv, TypeOK
<1>2. Scanned \in Seq(RawPoint)
  BY <1>1 DEF Scanned
<1>3. \A p \in RawPoint : IsPoint(p)
  BY RawPointIsPoint
<1>. QED  BY <1>1, <1>2, <1>3, SeqArePoints

LEMMA OpenStep ==
  ASSUME IInv, NEW m \in {"latest", "series"}, NEW s \in Windows \cup {0},
         Open(m, s)
  PROVE  IInv'
<1>1. TypeOK'
  BY WindowsAssumption DEF IInv, TypeOK, AtRest, Open, collectorVars
<1>2. AtRest'
  BY DEF Open, AtRest
<1>3. Fits'
  <2>1. fd' \in 1..Len(inodes') /\ inodes'[fd'] \in Seq(RawPoint) /\ pos' = 0
    BY DEF IInv, TypeOK, AtRest, Open, collectorVars
  <2>2. DOMAIN Scanned' = {}
    BY <2>1 DEF Scanned
  <2>3. latest' = << >> /\ series' = << >>
    BY DEF IInv, AtRest, Open, Empty
  <2>. QED  BY <2>2, <2>3, LatestFitsEmpty, SeriesFitsEmpty DEF Fits
<1>. QED  BY <1>1, <1>2, <1>3 DEF IInv

LEMMA OpenMissingStep ==
  ASSUME IInv, NEW m \in {"latest", "series"}, NEW s \in Windows \cup {0},
         OpenMissing(m, s)
  PROVE  IInv'
BY WindowsAssumption
   DEF IInv, TypeOK, AtRest, Fits, OpenMissing, collectorVars

\* The step that scans a point, and what it makes of the two maps.
LEMMA ScanPointStep ==
  ASSUME IInv, ScanPoint
  PROVE  IInv'
<1>. DEFINE p == inodes[fd][pos + 1]
<1>1. /\ fd \in 1..Len(inodes) /\ inodes[fd] \in Seq(RawPoint)
      /\ pos \in Nat /\ pos < Len(inodes[fd]) /\ Len(inodes[fd]) \in Nat
      /\ ArePoints(Scanned)
  BY OpenFile DEF ScanPoint
<1>2. p \in RawPoint /\ IsPoint(p)
  BY <1>1, RawPointIsPoint
<1>3. Scanned' = Grown(Scanned, p)
  <2>1. Scanned' = SubSeq(inodes[fd], 1, pos + 1)
    BY DEF ScanPoint, Scanned, collectorVars
  <2>. QED  BY <2>1, <1>1, PrefixGrown DEF Scanned
<1>4. CASE mode = "latest"
  <2>1. latest' = NewestStep(latest, p) /\ series' = series
    BY <1>4 DEF ScanPoint
  <2>2. IsMap(latest', EmittedPoint)
    BY <2>1, <1>2, StepTypes DEF IInv, TypeOK
  <2>3. TypeOK'
    BY <2>1, <2>2, <1>1 DEF IInv, TypeOK, ScanPoint, collectorVars
  <2>4. LatestFits(latest, Scanned)
    BY <1>4 DEF IInv, Fits, ScanPoint
  <2>5. LatestFits(latest', Scanned')
    BY <2>1, <2>4, <1>1, <1>2, <1>3, LatestFitsStep
  <2>. QED  BY <2>3, <2>5, <1>4 DEF IInv, Fits, AtRest, ScanPoint
<1>5. CASE mode = "series"
  <2>1. series' = SeriesStep(series, p, since) /\ latest' = latest
    BY <1>5 DEF ScanPoint
  <2>2. IsMap(series', SeriesRecord)
    BY <2>1, <1>2, StepTypes DEF IInv, TypeOK
  <2>3. TypeOK'
    BY <2>1, <2>2, <1>1 DEF IInv, TypeOK, ScanPoint, collectorVars
  <2>4. SeriesFits(series, Scanned, since)
    BY <1>5 DEF IInv, Fits, ScanPoint
  <2>5. SeriesFits(series', Scanned', since)
    BY <2>1, <2>4, <1>1, <1>2, <1>3, SeriesFitsStep
  <2>. QED  BY <2>3, <2>5, <1>5 DEF IInv, Fits, AtRest, ScanPoint
<1>. QED  BY <1>4, <1>5 DEF IInv, TypeOK

\* The three ways a read ends.
LEMMA EndOfReadStep ==
  ASSUME IInv, EndOfFile \/ ScanError \/ Return
  PROVE  IInv'
<1>1. CASE EndOfFile
  <2>1. Scanned' = Scanned
    BY <1>1 DEF EndOfFile, Scanned, collectorVars
  <2>2. TypeOK'
    BY <1>1, OpenFile DEF IInv, TypeOK, EndOfFile, collectorVars
  <2>. QED  BY <2>1, <2>2, <1>1 DEF IInv, AtRest, Fits, EndOfFile
<1>2. CASE ScanError
  BY <1>2 DEF IInv, TypeOK, AtRest, Fits, ScanError, collectorVars
<1>3. CASE Return
  <2>1. IsMap(Empty, EmittedPoint) /\ IsMap(Empty, SeriesRecord)
    BY DEF IsMap, Empty
  <2>2. prior'.fd \in 0..Len(inodes) /\ IsMap(prior'.latest, EmittedPoint)
    BY <1>3 DEF IInv, TypeOK, Return
  <2>. QED  BY <2>1, <2>2, <1>3
            DEF IInv, TypeOK, AtRest, Fits, Return, collectorVars
<1>. QED  BY <1>1, <1>2, <1>3

LEMMA StutterStep ==
  ASSUME IInv, UNCHANGED vars
  PROVE  IInv'
BY DEF IInv, TypeOK, AtRest, Fits, Scanned, vars, collectorVars, readerVars

LEMMA NextIInv == IInv /\ [Next]_vars => IInv'
<1>. SUFFICES ASSUME IInv, [Next]_vars PROVE IInv'
  OBVIOUS
<1>1. CASE Collector
  BY <1>1, CollectorStep
<1>2. CASE Reader
  <2>1. CASE \E m \in {"latest", "series"}, s \in Windows \cup {0} :
               Open(m, s) \/ OpenMissing(m, s)
    BY <2>1, OpenStep, OpenMissingStep
  <2>2. CASE ScanPoint
    BY <2>2, ScanPointStep
  <2>3. CASE EndOfFile \/ ScanError \/ Return
    BY <2>3, EndOfReadStep
  <2>. QED  BY <2>1, <2>2, <2>3, <1>2 DEF Reader
<1>3. CASE UNCHANGED vars
  BY <1>3, StutterStep
<1>. QED  BY <1>1, <1>2, <1>3 DEF Next

LEMMA Invariance == Spec => []IInv
<1>. QED  BY InitIInv, NextIInv, PTL DEF Spec

-----------------------------------------------------------------------------
(* The theorems. *)

\* Every variable of the reader keeps its type, and the file it has open is
\* one that was made and is at least as long as what was read of it.
THEOREM TypeCorrect == Spec => []TypeOK
<1>1. IInv => TypeOK
  BY DEF IInv
<1>. QED  BY <1>1, Invariance, PTL

\* ReadOTLPJSON: the map holds the newest point of every series of the part of
\* the file read so far, for files of any length and lines in any order.
THEOREM LatestWinsAlways == Spec => []LatestWins
<1>1. IInv => LatestWins
  BY OpenFile, LatestFitsIsNewestOf DEF IInv, Fits, LatestWins
<1>. QED  BY <1>1, Invariance, PTL

\* ReadOTLPSeries: the map holds the oldest and the newest point of every
\* series of the window, and their number.
THEOREM SeriesEndpointsAlways == Spec => []SeriesEndpoints
<1>1. IInv => SeriesEndpoints
  BY OpenFile, SeriesFitsIsSeriesOf DEF IInv, Fits, SeriesEndpoints
<1>. QED  BY <1>1, Invariance, PTL

-----------------------------------------------------------------------------
(* A read implements an atomic snapshot of one file. *)

Result == IF phase # "done" THEN Empty ELSE IF mode = "latest" THEN latest ELSE series

\* A step of the collector is a change of the files, or nothing.
LEMMA CollectorRefines ==
  ASSUME IInv, Collector
  PROVE  SnapshotOfOneFile!FilesChange \/ UNCHANGED SnapshotOfOneFile!vars
<1>. DEFINE Same == UNCHANGED <<phase, mode, since, fd, Result>>
<1>1. Same
  BY CollectorKeeps DEF readerVars, Result
<1>2. /\ inodes \in Seq(Seq(RawPoint)) /\ DOMAIN inodes = 1..Len(inodes)
      /\ Len(inodes) \in Nat /\ cur \in 0..Len(inodes)
      /\ \A n \in 1..Len(inodes) :
           /\ inodes[n] \in Seq(RawPoint) /\ Len(inodes[n]) \in Nat
           /\ DOMAIN inodes[n] = 1..Len(inodes[n])
  BY DEF IInv, TypeOK
<1>. HIDE DEF Same
<1>3. CASE CreateFile
  <2>1. /\ Len(inodes') = Len(inodes) + 1
        /\ \A n \in DOMAIN inodes : inodes'[n] = inodes[n]
        /\ inodes'[Len(inodes')] = << >>
        /\ cur = 0 /\ cur' = Len(inodes')
    BY <1>2, <1>3 DEF CreateFile
  <2>. QED  BY <2>1, <1>1 DEF SnapshotOfOneFile!FilesChange, Same, Result
<1>4. CASE \E l \in Lines : StartLine(l) \/ TearLine(l)
  <2>1. UNCHANGED <<inodes, cur>>
    BY <1>4 DEF StartLine, TearLine
  <2>. QED  BY <2>1, <1>1 DEF SnapshotOfOneFile!vars, Same, Result
<1>5. CASE FinishLine \/ Rotate
  <2>1. Len(inodes') = Len(inodes) /\ cur' \in {0, cur}
    BY <1>2, <1>5 DEF FinishLine, Rotate
  <2>2. \A n \in DOMAIN inodes : n # cur => inodes'[n] = inodes[n]
    BY <1>2, <1>5 DEF FinishLine, Rotate
  <2>3. \A n \in DOMAIN inodes : SnapshotOfOneFile!Grows(inodes[n], inodes'[n])
    BY <1>2, CollectorKeeps DEF SnapshotOfOneFile!Grows
  <2>4. \A n \in DOMAIN inodes :
          IF n = cur THEN SnapshotOfOneFile!Grows(inodes[n], inodes'[n])
                     ELSE inodes'[n] = inodes[n]
    BY <2>2, <2>3
  <2>. QED  BY <2>1, <2>4, <1>1 DEF SnapshotOfOneFile!FilesChange, Same, Result
<1>. QED  BY <1>3, <1>4, <1>5 DEF Collector

\* The end of the file is where the snapshot is taken.
LEMMA EndOfFileRefines ==
  ASSUME IInv, EndOfFile
  PROVE  SnapshotOfOneFile!Succeed
<1>1. phase = "scan" /\ phase' = "done"
      /\ UNCHANGED <<inodes, cur, mode, since, fd, latest, series>>
  BY DEF EndOfFile, collectorVars
<1>2. Scanned = inodes[fd]
  <2>1. inodes[fd] \in Seq(RawPoint) /\ pos = Len(inodes[fd])
    BY <1>1, OpenFile DEF EndOfFile
  <2>. QED  BY <2>1 DEF Scanned
<1>3. CASE mode = "latest"
  <2>1. latest = NewestOf(inodes[fd])
    BY <1>1, <1>2, <1>3, OpenFile, LatestFitsIsNewestOf DEF IInv, Fits
  <2>. QED  BY <2>1, <1>1, <1>3
            DEF SnapshotOfOneFile!Succeed, Wanted
<1>4. CASE mode # "latest"
  <2>1. series = SeriesOf(inodes[fd], since)
    BY <1>1, <1>2, <1>4, OpenFile, SeriesFitsIsSeriesOf DEF IInv, Fits
  <2>. QED  BY <2>1, <1>1, <1>4
            DEF SnapshotOfOneFile!Succeed, Wanted
<1>. QED  BY <1>3, <1>4

\* A step of the reader is a step of the snapshot, or nothing.
LEMMA ReaderRefines ==
  ASSUME IInv, Reader
  PROVE  [SnapshotOfOneFile!Next]_(SnapshotOfOneFile!vars)
<1>1. CASE \E m \in {"latest", "series"}, s \in Windows \cup {0} :
             Open(m, s) \/ OpenMissing(m, s)
  <2>1. SnapshotOfOneFile!Begin
    BY <1>1 DEF IInv, AtRest, Open, OpenMissing, collectorVars, Empty,
                SnapshotOfOneFile!Begin
  <2>. QED  BY <2>1 DEF SnapshotOfOneFile!Next
<1>2. CASE ScanPoint
  BY <1>2 DEF ScanPoint, collectorVars, SnapshotOfOneFile!vars
<1>3. CASE EndOfFile
  BY <1>3, EndOfFileRefines DEF SnapshotOfOneFile!Next
<1>4. CASE ScanError
  BY <1>4 DEF ScanError, collectorVars, SnapshotOfOneFile!Next,
              SnapshotOfOneFile!Fail
<1>5. CASE Return
  BY <1>5 DEF Return, collectorVars, Empty, SnapshotOfOneFile!Next,
              SnapshotOfOneFile!Return, SnapshotOfOneFile!Nothing
<1>. QED  BY <1>1, <1>2, <1>3, <1>4, <1>5 DEF Reader

\* Whatever the collector does while the file is being read, a read that
\* succeeds returns the meaning of one file's complete lines at one instant.
THEOREM ReadIsSnapshot == Spec => ReadsAreSnapshots
<1>1. Init => SnapshotOfOneFile!Init
  BY DEF Init, SnapshotOfOneFile!Init, SnapshotOfOneFile!Nothing, Empty
<1>2. IInv /\ [Next]_vars => [SnapshotOfOneFile!Next]_(SnapshotOfOneFile!vars)
  <2>. SUFFICES ASSUME IInv, [Next]_vars
                PROVE  [SnapshotOfOneFile!Next]_(SnapshotOfOneFile!vars)
    OBVIOUS
  <2>1. CASE Collector
    BY <2>1, CollectorRefines DEF SnapshotOfOneFile!Next
  <2>2. CASE Reader
    BY <2>2, ReaderRefines
  <2>3. CASE UNCHANGED vars
    BY <2>3 DEF vars, collectorVars, readerVars, SnapshotOfOneFile!vars
  <2>. QED  BY <2>1, <2>2, <2>3 DEF Next
<1>. QED  BY <1>1, <1>2, Invariance, PTL
          DEF Spec, ReadsAreSnapshots, SnapshotOfOneFile!Spec

-----------------------------------------------------------------------------
(* The second read of a cycle covers the first. *)

\* Point i of the file of the last ReadOTLPJSON is where its map has k from,
\* and a later read of that file that is done has passed it.
From(k, i) ==
  /\ prior.fd \in 1..Len(inodes)
  /\ i \in 1..Len(inodes[prior.fd])
  /\ inodes[prior.fd][i].key = k
  /\ Emits(inodes[prior.fd][i])
  /\ TimeOf(inodes[prior.fd][i]) = prior.latest[k].ts
  /\ phase = "done" /\ fd = prior.fd => i <= pos

PriorKnown == \A k \in DOMAIN prior.latest : \E i : From(k, i)

\* Point i of what was scanned is point i of the file.
LEMMA ScannedPoint ==
  ASSUME IInv, phase \in {"scan", "done"}
  PROVE  /\ DOMAIN Scanned = 1..pos
         /\ \A i \in 1..pos : Scanned[i] = inodes[fd][i] /\ i \in 1..Len(inodes[fd])
BY OpenFile DEF Scanned

LEMMA PriorKnownStep ==
  ASSUME IInv, PriorKnown, [Next]_vars
  PROVE  PriorKnown'
<1>0. \A n \in 1..Len(inodes) : Len(inodes[n]) \in Nat
  BY DEF IInv, TypeOK
<1>1. CASE Collector
  <2>1. \A k, i : From(k, i) => From(k, i)'
    <3>1. /\ UNCHANGED readerVars
          /\ Len(inodes) \in Nat /\ Len(inodes') \in Nat
          /\ inodes' \in Seq(Seq(RawPoint))
          /\ Len(inodes) <= Len(inodes')
      BY <1>1, CollectorKeeps DEF IInv, TypeOK
    <3>2. \A n \in 1..Len(inodes) : Len(inodes'[n]) \in Nat
      BY <3>1
    <3>3. \A n \in 1..Len(inodes) :
            /\ Len(inodes[n]) <= Len(inodes'[n])
            /\ \A i \in 1..Len(inodes[n]) : inodes'[n][i] = inodes[n][i]
      BY <1>1, CollectorKeeps
    <3>4. prior.fd \in 1..Len(inodes) => prior.fd \in 1..Len(inodes')
      BY <3>1
    <3>5. \A n \in 1..Len(inodes) : \A i \in 1..Len(inodes[n]) :
            i \in 1..Len(inodes'[n])
      BY <3>2, <3>3, <1>0
    <3>. QED  BY <3>1, <3>3, <3>4, <3>5 DEF From, readerVars
  <2>. QED  BY <2>1, <1>1, CollectorKeeps DEF PriorKnown, readerVars
<1>2. CASE \E m \in {"latest", "series"}, s \in Windows \cup {0} :
             Open(m, s) \/ OpenMissing(m, s)
  BY <1>2 DEF PriorKnown, From, Open, OpenMissing, collectorVars
<1>3. CASE ScanPoint \/ ScanError
  BY <1>3 DEF PriorKnown, From, ScanPoint, ScanError, collectorVars
<1>4. CASE EndOfFile
  BY <1>0, <1>4 DEF PriorKnown, From, EndOfFile, collectorVars
<1>5. CASE Return /\ ~(phase = "done" /\ mode = "latest")
  BY <1>5 DEF PriorKnown, From, Return, collectorVars
<1>6. CASE Return /\ phase = "done" /\ mode = "latest"
  <2>1. /\ prior' = [fd |-> fd, latest |-> latest]
        /\ phase' = "idle" /\ inodes' = inodes
    BY <1>6 DEF Return, collectorVars
  <2>2. LatestFits(latest, Scanned)
    BY <1>6 DEF IInv, Fits
  <2>3. fd \in 1..Len(inodes)
    BY <1>6, OpenFile
  <2>. SUFFICES ASSUME NEW k \in DOMAIN latest
                PROVE  \E i : From(k, i)'
    BY <2>1 DEF PriorKnown
  <2>4. k \in KeysOf(Scanned, 0)
    BY <2>2 DEF LatestFits
  <2>5. PICK i : /\ IsNewest(Scanned, Positions(Scanned, k, 0), i)
                 /\ latest[k] = Emitted(Scanned[i])
    BY <2>2, <2>4 DEF LatestFits
  <2>6. i \in DOMAIN Scanned /\ Scanned[i].key = k /\ Emits(Scanned[i])
    BY <2>5 DEF IsNewest, Positions, InWindow
  <2>7. i \in 1..Len(inodes[fd]) /\ inodes[fd][i] = Scanned[i]
    BY <2>6, <1>6, ScannedPoint
  <2>8. TimeOf(Scanned[i]) = latest[k].ts
    BY <2>5 DEF Emitted
  <2>. QED  BY <2>1, <2>3, <2>6, <2>7, <2>8 DEF From
<1>7. CASE UNCHANGED vars
  BY <1>7 DEF PriorKnown, From, vars, collectorVars, readerVars
<1>. QED  BY <1>1, <1>2, <1>3, <1>4, <1>5, <1>6, <1>7 DEF Next, Reader

\* If no rotation came between the two reads of a cycle, a whole-file ingest
\* check has every series that the DB check compared, with endpoints that
\* reach from no later to no earlier than the point compared.
THEOREM SecondReadCoversFirstAlways == Spec => []SecondReadCoversFirst
<1>1. Init => PriorKnown
  BY DEF Init, PriorKnown, Empty
<1>2. IInv /\ PriorKnown => SecondReadCoversFirst
  <2>. SUFFICES ASSUME IInv, PriorKnown,
                       phase = "done", mode = "series", since = 0, fd = prior.fd,
                       NEW k \in DOMAIN prior.latest
                PROVE  /\ k \in DOMAIN series
                       /\ series[k].lastTS >= prior.latest[k].ts
                       /\ series[k].firstTS <= prior.latest[k].ts
    BY DEF SecondReadCoversFirst
  <2>. DEFINE I == Positions(Scanned, k, 0)
  <2>1. PICK i : From(k, i)
    BY DEF PriorKnown
  <2>2. i \in 1..pos /\ Scanned[i] = inodes[fd][i]
    BY <2>1, OpenFile, ScannedPoint DEF From
  <2>3. i \in I
    BY <2>1, <2>2, ScannedPoint DEF From, Positions, InWindow
  <2>4. SeriesFits(series, Scanned, 0)
    BY DEF IInv, Fits
  <2>5. k \in KeysOf(Scanned, 0)
    BY <2>3, KeysArePositions
  <2>6. PICK o, n, f : Ends(Scanned, I, series[k], o, n, f)
    BY <2>4, <2>5 DEF SeriesFits
  <2>7. \A j \in I : TimeOf(Scanned[j]) \in Int
    BY OpenFile, TimeOfInt DEF Positions, ArePoints
  <2>8. /\ o \in I /\ n \in I
        /\ TimeOf(Scanned[i]) <= TimeOf(Scanned[n])
        /\ TimeOf(Scanned[i]) >= TimeOf(Scanned[o])
    BY <2>3, <2>6, <2>7 DEF Ends, IsOldest, IsNewest
  <2>9. series[k].lastTS = TimeOf(Scanned[n]) /\ series[k].firstTS = TimeOf(Scanned[o])
    BY <2>6 DEF Ends
  <2>10. TimeOf(Scanned[i]) = prior.latest[k].ts
    BY <2>1, <2>2 DEF From
  <2>11. k \in DOMAIN series
    BY <2>4, <2>5 DEF SeriesFits
  <2>. QED  BY <2>3, <2>7, <2>8, <2>9, <2>10, <2>11
<1>3. IInv /\ PriorKnown /\ [Next]_vars => PriorKnown'
  BY PriorKnownStep
<1>. QED  BY <1>1, <1>2, <1>3, Invariance, PTL DEF Spec
=============================================================================
