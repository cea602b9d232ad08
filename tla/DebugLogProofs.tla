--------------------------- MODULE DebugLogProofs ---------------------------
(***************************************************************************)
(* What is proved of DebugLog, for any metrics, attributes, values and     *)
(* numbers: the parser and the exporter stay in step (Aligned), and what   *)
(* the parser holds of a disturbed metric was still printed of it (Held).  *)
(***************************************************************************)
EXTENDS DebugLog, TLAPS

\* Of point's attributes the parser has those that are printed already.
Collected == [k \in AttrKeys |-> IF k \in todo THEN Empty ELSE point.attrs[k]]

\* The parser's variables are those of the exporter's block, unless it was
\* disturbed, and then at least its metric is.
Aligned ==
  /\ phase # "torn" /\ block # NoMetric => curMetric = block
  /\ phase = "between" /\ block \notin odd /\ block # NoMetric => curAttrs = NoAttrs
  /\ phase = "point" /\ block \notin odd =>
       curAttrs = Collected /\ (todo # {} => inAttrs)

\* Every attribute of a is of the point q, as far as the parser can read it.
PartOf(a, q) == \A k \in AttrKeys : a[k] \in {Empty, Cut[q.attrs[k]]}

Printed(m, a) == \E q \in points : q.metric = m /\ PartOf(a, q)

ThisPoint == [metric |-> block, attrs |-> point.attrs, val |-> point.val]

\* The attributes the parser holds are of one point of its metric.
Held ==
  /\ phase = "point" => ThisPoint \in points
  /\ phase = "point" /\ todo # {} => PartOf(curAttrs, point)
  /\ curMetric # NoMetric => curAttrs = NoAttrs \/ Printed(curMetric, curAttrs)

IInv == TypeOK /\ Aligned /\ ParsedIsPrinted /\ Held /\ NothingInvented /\ MetricIsSeen

-----------------------------------------------------------------------------
(* Lemmas about one step of the parser. *)

LEMMA NoAttrsType == NoAttrs \in Attrs
BY DebugLogAssumption DEF NoAttrs, Attrs

LEMMA NoneIsNoNumber == None \notin Numbers
BY DebugLogAssumption

LEMMA KeyType == \A m \in Metrics, a \in Attrs : Key(m, a) \in Series /\ Key(m, a)[1] = m
BY DEF Key, Series

\* What flush does to the map of a well typed parser.
LEMMA FlushStep ==
  ASSUME TypeOK, NEW v \in Numbers, ReadNumber(v)
  PROVE  /\ latest' \in [Series -> Numbers \cup {None}]
         /\ curAttrs' = NoAttrs /\ inAttrs' = FALSE /\ curMetric' = curMetric
         /\ curMetric \in Metrics =>
              /\ latest'[Key(curMetric, curAttrs)] = v
              /\ \A s \in Series \ {Key(curMetric, curAttrs)} : latest'[s] = latest[s]
         /\ \A s \in Series : latest[s] # None => latest'[s] # None
<1>1. CASE curMetric = NoMetric
  BY <1>1, DebugLogAssumption DEF ReadNumber, TypeOK
<1>2. CASE curMetric \in Metrics
  <2>1. latest' = [latest EXCEPT ![Key(curMetric, curAttrs)] = v]
    BY <1>2, DebugLogAssumption DEF ReadNumber
  <2>2. Key(curMetric, curAttrs) \in Series
    BY <1>2, KeyType DEF TypeOK
  <2> QED
    BY <2>1, <2>2, NoneIsNoNumber DEF ReadNumber, TypeOK
<1> QED
  BY <1>1, <1>2 DEF TypeOK

-----------------------------------------------------------------------------
(* Type correctness. *)

LEMMA InitType == Init => TypeOK
<1> SUFFICES ASSUME Init PROVE TypeOK
  OBVIOUS
<1>1. point \in [attrs : Attrs, val : Numbers \cup {"inf", "nan"}]
  BY NoAttrsType DEF Init
<1>2. 0 \in 0..MaxPoints
  BY DebugLogAssumption
<1> QED
  BY <1>1, <1>2, NoAttrsType DEF Init, TypeOK

LEMMA StepType == TypeOK /\ [Next]_vars => TypeOK'
<1> SUFFICES ASSUME TypeOK, [Next]_vars PROVE TypeOK'
  OBVIOUS
<1> USE NoAttrsType, DebugLogAssumption
<1>1. ASSUME NEW m \in Metrics, PrintName(m) PROVE TypeOK'
  BY <1>1 DEF PrintName, ReadName, TypeOK
<1>2. ASSUME NEW a \in Attrs, NEW keys \in SUBSET AttrKeys,
             NEW v \in Numbers \cup {"inf", "nan"}, BeginPoint(a, keys, v)
      PROVE TypeOK'
  <2>1. block \in Metrics
    BY <1>2 DEF BeginPoint, TypeOK
  <2>2. count' \in 0..MaxPoints
    BY <1>2 DEF BeginPoint, TypeOK
  <2>3. /\ point' \in [attrs : Attrs, val : Numbers \cup {"inf", "nan"}]
        /\ [metric |-> block, attrs |-> a, val |-> v] \in
             [metric : Metrics, attrs : Attrs, val : Numbers \cup {"inf", "nan"}]
    BY <1>2, <2>1 DEF BeginPoint
  <2> QED
    BY <1>2, <2>1, <2>2, <2>3 DEF BeginPoint, ReadHeader, parser, TypeOK
<1>3. ASSUME NEW k \in AttrKeys, PrintAttr(k) PROVE TypeOK'
  <2>1. block \in Metrics /\ point.attrs[k] \in AttrValues
    BY <1>3 DEF PrintAttr, TypeOK, Attrs
  <2>2. curAttrs' \in Attrs /\ inAttrs' \in BOOLEAN
    BY <1>3, <2>1 DEF PrintAttr, ReadOther, ReadAttr, TypeOK, Attrs
  <2> QED
    BY <1>3, <2>1, <2>2 DEF PrintAttr, ReadOther, ReadAttr, TypeOK
<1>4. ASSUME PrintOther PROVE TypeOK'
  BY <1>4 DEF PrintOther, ReadOther, TypeOK
<1>5. ASSUME PrintNumber PROVE TypeOK'
  <2>1. point.val \in Numbers /\ ReadNumber(point.val)
    BY <1>5 DEF PrintNumber
  <2>2. latest' \in [Series -> Numbers \cup {None}]
    BY <2>1, FlushStep
  <2> QED
    BY <1>5, <2>1, <2>2 DEF PrintNumber, EndPoint, ReadNumber, TypeOK
<1>6. ASSUME PrintInf PROVE TypeOK'
  BY <1>6 DEF PrintInf, EndPoint, ReadUnparsable, TypeOK
<1>7. ASSUME PrintNaN PROVE TypeOK'
  BY <1>7 DEF PrintNaN, EndPoint, ReadOther, TypeOK
<1>8. ASSUME NEW v \in Numbers, PrintExemplar(v) PROVE TypeOK'
  <2>1. block \in Metrics /\ count' \in 0..MaxPoints
    BY <1>8 DEF PrintExemplar, TypeOK
  <2>2. latest' \in [Series -> Numbers \cup {None}]
    BY <1>8, FlushStep DEF PrintExemplar
  <2>3. [metric |-> block, attrs |-> NoAttrs, val |-> v] \in
          [metric : Metrics, attrs : Attrs, val : Numbers \cup {"inf", "nan"}]
    BY <2>1
  <2> QED
    BY <1>8, <2>1, <2>2, <2>3 DEF PrintExemplar, ReadNumber, TypeOK
<1>9. ASSUME NEW v \in Numbers, TearNumber(v) PROVE TypeOK'
  <2>1. latest' \in [Series -> Numbers \cup {None}]
    BY <1>9, FlushStep DEF TearNumber
  <2> QED
    BY <1>9, <2>1 DEF TearNumber, ReadNumber, TypeOK
<1>10. ASSUME Restart PROVE TypeOK'
  BY <1>10 DEF Restart, parser, TypeOK
<1>11. ASSUME UNCHANGED vars PROVE TypeOK'
  BY <1>11 DEF vars, parser, exporter, TypeOK
<1> QED
  BY <1>1, <1>2, <1>3, <1>4, <1>5, <1>6, <1>7, <1>8, <1>9, <1>10, <1>11 DEF Next

-----------------------------------------------------------------------------
(* Steps that put no number into the result. *)

Quiet == /\ latest' = latest /\ newest' = newest
         /\ points \subseteq points' /\ odd \subseteq odd'
         /\ phase' # "torn" => phase # "torn"

LEMMA QuietSteps ==
  /\ \A m \in Metrics : PrintName(m) => Quiet
  /\ \A a \in Attrs, keys \in SUBSET AttrKeys, v \in Numbers \cup {"inf", "nan"} :
       BeginPoint(a, keys, v) => Quiet
  /\ \A k \in AttrKeys : PrintAttr(k) => Quiet
  /\ PrintOther \/ PrintInf \/ PrintNaN \/ Restart \/ UNCHANGED vars => Quiet
<1>1. ASSUME NEW m \in Metrics, PrintName(m) PROVE Quiet
  BY <1>1 DEF PrintName, ReadName, Quiet
<1>2. ASSUME NEW a \in Attrs, NEW keys \in SUBSET AttrKeys,
             NEW v \in Numbers \cup {"inf", "nan"}, BeginPoint(a, keys, v)
      PROVE Quiet
  BY <1>2 DEF BeginPoint, ReadHeader, parser, Quiet
<1>3. ASSUME NEW k \in AttrKeys, PrintAttr(k) PROVE Quiet
  BY <1>3 DEF PrintAttr, ReadOther, ReadAttr, Quiet
<1>4. PrintOther => Quiet
  BY DEF PrintOther, ReadOther, Quiet
<1>5. PrintInf => Quiet
  BY DEF PrintInf, EndPoint, ReadUnparsable, Quiet
<1>6. PrintNaN => Quiet
  BY DEF PrintNaN, EndPoint, ReadOther, Quiet
<1>7. Restart => Quiet
  BY DEF Restart, parser, Quiet
<1>8. UNCHANGED vars => Quiet
  BY DEF vars, parser, exporter, Quiet
<1> QED
  BY <1>1, <1>2, <1>3, <1>4, <1>5, <1>6, <1>7, <1>8

\* A step is quiet or prints a number.
LEMMA StepKinds ==
  ASSUME [Next]_vars
  PROVE  Quiet \/ PrintNumber \/ \E v \in Numbers : PrintExemplar(v) \/ TearNumber(v)
BY QuietSteps DEF Next

LEMMA QuietKeeps ==
  ASSUME IInv, Quiet
  PROVE  ParsedIsPrinted' /\ NothingInvented' /\ MetricIsSeen'
<1>1. ParsedIsPrinted'
  BY DEF IInv, Quiet, ParsedIsPrinted
<1>2. NothingInvented'
  BY DEF IInv, Quiet, NothingInvented
<1>3. MetricIsSeen'
  BY DEF IInv, Quiet, MetricIsSeen
<1> QED
  BY <1>1, <1>2, <1>3

-----------------------------------------------------------------------------
(* The parser stays in step with the exporter. *)

LEMMA StepAligned == IInv /\ [Next]_vars => Aligned'
<1> SUFFICES ASSUME IInv, [Next]_vars PROVE Aligned'
  OBVIOUS
<1>0. TypeOK /\ Aligned
  BY DEF IInv
<1>1. ASSUME NEW m \in Metrics, PrintName(m) PROVE Aligned'
  BY <1>0, <1>1 DEF PrintName, ReadName, Aligned
<1>2. ASSUME NEW a \in Attrs, NEW keys \in SUBSET AttrKeys,
             NEW v \in Numbers \cup {"inf", "nan"}, BeginPoint(a, keys, v)
      PROVE Aligned'
  <2>1. \A k \in AttrKeys \ keys : a[k] = Empty
    BY <1>2 DEF BeginPoint
  <2>2. Collected' = NoAttrs
    BY <1>2, <2>1 DEF BeginPoint, Collected, NoAttrs
  <2>3. CASE keys = {}
    BY <1>0, <1>2, <2>2, <2>3 DEF BeginPoint, parser, Aligned, TypeOK
  <2>4. CASE keys # {}
    BY <1>0, <1>2, <2>2, <2>4 DEF BeginPoint, ReadHeader, Aligned, TypeOK
  <2> QED
    BY <2>3, <2>4
<1>3. ASSUME NEW k \in AttrKeys, PrintAttr(k) PROVE Aligned'
  <2>1. /\ curMetric' = curMetric /\ block' = block /\ phase' = phase
        /\ phase = "point"
    BY <1>3 DEF PrintAttr, ReadOther, ReadAttr
  <2>2. ASSUME block' \notin odd'
        PROVE  curAttrs' = Collected' /\ (todo' # {} => inAttrs')
    <3>1. /\ block \notin odd /\ k \notin OddKeys
          /\ Cut[point.attrs[k]] = point.attrs[k]
      BY <1>3, <2>1, <2>2 DEF PrintAttr
    <3>2. curAttrs = Collected /\ inAttrs
      BY <1>0, <1>3, <3>1 DEF PrintAttr, Aligned
    <3>3. /\ curAttrs' = [curAttrs EXCEPT ![k] = point.attrs[k]]
          /\ inAttrs' = inAttrs
          /\ todo' = todo \ {k} /\ point' = point
      BY <1>3, <3>1, <3>2 DEF PrintAttr, ReadAttr
    <3>4. [curAttrs EXCEPT ![k] = point.attrs[k]] = Collected'
      BY <3>2, <3>3 DEF Collected
    <3> QED
      BY <3>2, <3>3, <3>4
  <2> QED
    BY <1>0, <2>1, <2>2 DEF Aligned, TypeOK
<1>4. ASSUME PrintOther PROVE Aligned'
  <2>1. /\ block' = block /\ phase' = phase /\ curMetric' = curMetric
        /\ curAttrs' = curAttrs /\ todo' = todo /\ point' = point
        /\ odd \subseteq odd'
    BY <1>4 DEF PrintOther, ReadOther
  <2>2. Collected' = Collected
    BY <2>1 DEF Collected
  <2>3. phase = "point" /\ block' \notin odd' => todo' = {}
    BY <1>4 DEF PrintOther
  <2> QED
    BY <1>0, <2>1, <2>2, <2>3 DEF Aligned
<1>5. ASSUME PrintNumber PROVE Aligned'
  BY <1>0, <1>5 DEF PrintNumber, EndPoint, ReadNumber, Aligned
<1>6. ASSUME PrintInf PROVE Aligned'
  BY <1>0, <1>6 DEF PrintInf, EndPoint, ReadUnparsable, Aligned
<1>7. ASSUME PrintNaN PROVE Aligned'
  <2>1. /\ phase = "point" /\ todo = {} /\ phase' = "between"
        /\ block' = block /\ curMetric' = curMetric /\ curAttrs' = curAttrs
    BY <1>7 DEF PrintNaN, EndPoint, ReadOther
  <2>2. ASSUME block \notin odd' PROVE curAttrs = NoAttrs
    <3>1. point.attrs = NoAttrs /\ block \notin odd
      BY <1>7, <2>2 DEF PrintNaN
    <3>2. curAttrs = Collected
      BY <1>0, <2>1, <3>1 DEF Aligned
    <3>3. Collected = NoAttrs
      BY <2>1, <3>1 DEF Collected, NoAttrs
    <3> QED
      BY <3>2, <3>3
  <2> QED
    BY <1>0, <2>1, <2>2 DEF Aligned
<1>8. ASSUME NEW v \in Numbers, PrintExemplar(v) PROVE Aligned'
  BY <1>0, <1>8 DEF PrintExemplar, ReadNumber, Aligned
<1>9. ASSUME NEW v \in Numbers, TearNumber(v) PROVE Aligned'
  BY <1>9 DEF TearNumber, Aligned
<1>10. ASSUME Restart PROVE Aligned'
  BY <1>10 DEF Restart, Aligned
<1>11. ASSUME UNCHANGED vars PROVE Aligned'
  <2>1. Collected' = Collected
    BY <1>11 DEF vars, exporter, Collected
  <2> QED
    BY <1>0, <1>11, <2>1 DEF vars, parser, exporter, Aligned
<1> QED
  BY <1>1, <1>2, <1>3, <1>4, <1>5, <1>6, <1>7, <1>8, <1>9, <1>10, <1>11 DEF Next


-----------------------------------------------------------------------------
(* What the parser holds was printed. *)

LEMMA NothingIsPart == \A q : PartOf(NoAttrs, q)
BY DEF PartOf, NoAttrs

LEMMA StepHeld == IInv /\ [Next]_vars => Held'
<1> SUFFICES ASSUME IInv, [Next]_vars PROVE Held'
  OBVIOUS
<1>0. TypeOK /\ Aligned /\ Held
  BY DEF IInv
<1>a. ASSUME curMetric' = curMetric, curAttrs' = curAttrs, points \subseteq points'
      PROVE  curMetric' # NoMetric => curAttrs' = NoAttrs \/ Printed(curMetric, curAttrs)'
  BY <1>0, <1>a DEF Held, Printed, PartOf
<1>1. ASSUME NEW m \in Metrics, PrintName(m) PROVE Held'
  BY <1>1 DEF PrintName, ReadName, Held
<1>2. ASSUME NEW a \in Attrs, NEW keys \in SUBSET AttrKeys,
             NEW v \in Numbers \cup {"inf", "nan"}, BeginPoint(a, keys, v)
      PROVE Held'
  <2>1. ThisPoint' \in points' /\ points \subseteq points' /\ todo' = keys
    BY <1>2 DEF BeginPoint, ThisPoint
  <2>2. CASE keys = {}
    BY <1>2, <1>a, <2>1, <2>2 DEF BeginPoint, parser, Held
  <2>3. CASE keys # {}
    <3>1. curAttrs' = NoAttrs
      BY <1>2, <2>3 DEF BeginPoint, ReadHeader
    <3>2. PartOf(curAttrs, point)'
      BY <3>1 DEF PartOf, NoAttrs
    <3> QED
      BY <2>1, <3>1, <3>2 DEF Held
  <2> QED
    BY <2>2, <2>3
<1>3. ASSUME NEW k \in AttrKeys, PrintAttr(k) PROVE Held'
  <2>1. /\ phase = "point" /\ todo # {}
        /\ block' = block /\ point' = point /\ points' = points
        /\ curMetric' = curMetric
    BY <1>3 DEF PrintAttr, ReadOther, ReadAttr
  <2>2. ThisPoint \in points /\ ThisPoint' = ThisPoint
    BY <1>0, <2>1 DEF Held, ThisPoint
  <2>3. PartOf(curAttrs, point)
    BY <1>0, <2>1 DEF Held
  <2>4. curAttrs' \in {curAttrs, [curAttrs EXCEPT ![k] = Cut[point.attrs[k]]]}
    BY <1>3 DEF PrintAttr, ReadOther, ReadAttr
  <2>5. PartOf(curAttrs', point)
    <3>1. curAttrs \in [AttrKeys -> AttrValues]
      BY <1>0 DEF TypeOK, Attrs
    <3>2. \A l \in AttrKeys : curAttrs'[l] \in {curAttrs[l], Cut[point.attrs[l]]}
      BY <2>4, <3>1
    <3> QED
      BY <2>3, <3>2 DEF PartOf
  <2>6. curMetric' = ThisPoint.metric /\ point.attrs = ThisPoint.attrs
    BY <1>0, <2>1 DEF Aligned, TypeOK, ThisPoint
  <2>7. Printed(curMetric, curAttrs)'
    BY <2>1, <2>2, <2>5, <2>6 DEF Printed, PartOf
  <2>8. PartOf(curAttrs, point)'
    BY <2>1, <2>5 DEF PartOf
  <2> QED
    BY <2>1, <2>2, <2>7, <2>8 DEF Held
<1>4. ASSUME PrintOther PROVE Held'
  <2>1. /\ phase' = phase /\ todo' = todo /\ point' = point /\ points' = points
        /\ block' = block /\ curAttrs' = curAttrs /\ curMetric' = curMetric
    BY <1>4 DEF PrintOther, ReadOther
  <2>2. ThisPoint' = ThisPoint /\ (PartOf(curAttrs, point)' <=> PartOf(curAttrs, point))
    BY <2>1 DEF ThisPoint, PartOf
  <2> QED
    BY <1>0, <1>a, <2>1, <2>2 DEF Held
<1>5. ASSUME PrintNumber PROVE Held'
  BY <1>5 DEF PrintNumber, EndPoint, ReadNumber, Held
<1>6. ASSUME PrintInf PROVE Held'
  BY <1>6 DEF PrintInf, EndPoint, ReadUnparsable, Held
<1>7. ASSUME PrintNaN PROVE Held'
  BY <1>7, <1>a DEF PrintNaN, EndPoint, ReadOther, Held
<1>8. ASSUME NEW v \in Numbers, PrintExemplar(v) PROVE Held'
  BY <1>8 DEF PrintExemplar, ReadNumber, Held
<1>9. ASSUME NEW v \in Numbers, TearNumber(v) PROVE Held'
  BY <1>9 DEF TearNumber, ReadNumber, Held
<1>10. ASSUME Restart PROVE Held'
  BY <1>10, <1>a DEF Restart, parser, Held
<1>11. ASSUME UNCHANGED vars PROVE Held'
  <2>1. /\ phase' = phase /\ todo' = todo /\ point' = point /\ points' = points
        /\ block' = block /\ curAttrs' = curAttrs /\ curMetric' = curMetric
    BY <1>11 DEF vars, parser, exporter
  <2>2. ThisPoint' = ThisPoint /\ (PartOf(curAttrs, point)' <=> PartOf(curAttrs, point))
    BY <2>1 DEF ThisPoint, PartOf
  <2> QED
    BY <1>0, <1>a, <2>1, <2>2 DEF Held
<1> QED
  BY <1>1, <1>2, <1>3, <1>4, <1>5, <1>6, <1>7, <1>8, <1>9, <1>10, <1>11 DEF Next

-----------------------------------------------------------------------------
(* The steps that put a number into the result. *)

LEMMA NumberKeeps ==
  ASSUME IInv, PrintNumber
  PROVE  ParsedIsPrinted' /\ NothingInvented' /\ MetricIsSeen'
<1>0. TypeOK /\ Aligned /\ Held /\ ParsedIsPrinted /\ NothingInvented /\ MetricIsSeen
  BY DEF IInv
<1> DEFINE old == Key(block, point.attrs)
           new == Key(block, curAttrs)
<1>1. /\ phase = "point" /\ todo = {} /\ point.val \in Numbers
      /\ ReadNumber(point.val) /\ points' = points /\ odd' = odd
      /\ newest' = [newest EXCEPT ![old] = point.val]
  BY DEF PrintNumber, EndPoint
<1>2. block \in Metrics /\ curMetric = block /\ curAttrs \in Attrs /\ point.attrs \in Attrs
  BY <1>0, <1>1 DEF Aligned, TypeOK
<1>3. /\ old \in Series /\ old[1] = block /\ old[2] = point.attrs
      /\ new \in Series /\ new[1] = block /\ new[2] = curAttrs
  BY <1>2 DEF Key, Series
<1>4. /\ latest'[new] = point.val
      /\ \A s \in Series \ {new} : latest'[s] = latest[s]
      /\ \A s \in Series : latest[s] # None => latest'[s] # None
  BY <1>0, <1>1, <1>2, FlushStep
<1>5. /\ newest'[old] = point.val
      /\ \A s \in Series \ {old} : newest'[s] = newest[s]
  BY <1>0, <1>1, <1>3 DEF TypeOK
<1>6. ParsedIsPrinted'
  <2>1. CASE block \in odd
    BY <1>0, <1>1, <1>3, <1>4, <1>5, <2>1 DEF ParsedIsPrinted
  <2>2. CASE block \notin odd
    <3>1. curAttrs = Collected
      BY <1>0, <1>1, <2>2 DEF Aligned
    <3>2. Collected = point.attrs
      BY <1>1, <1>2 DEF Collected, Attrs
    <3> QED
      BY <1>0, <1>1, <1>4, <1>5, <3>1, <3>2 DEF ParsedIsPrinted
  <2> QED
    BY <2>1, <2>2
<1>7. NothingInvented'
  <2>1. /\ ThisPoint \in points
        /\ ThisPoint.metric = block /\ ThisPoint.val = point.val
    BY <1>0, <1>1 DEF Held, ThisPoint
  <2>2. \E q \in points : q.metric = block /\ PartOf(curAttrs, q)
    <3>1. CASE curAttrs = NoAttrs
      BY <2>1, <3>1, NothingIsPart
    <3>2. CASE curAttrs # NoAttrs
      BY <1>0, <1>2, <3>2, DebugLogAssumption DEF Held, Printed
    <3> QED
      BY <3>1, <3>2
  <2>3. ASSUME NEW s \in Series, latest'[s] # None
        PROVE  \E p, q \in points :
                 /\ p.metric = s[1] /\ p.val = latest'[s]
                 /\ q.metric = s[1] /\ PartOf(s[2], q)
    <3>1. CASE s = new
      BY <1>3, <1>4, <2>1, <2>2, <3>1
    <3>2. CASE s # new
      BY <1>0, <1>1, <1>4, <2>3, <3>2 DEF NothingInvented, PartOf
    <3> QED
      BY <3>1, <3>2
  <2> QED
    BY <1>1, <2>3 DEF NothingInvented, PartOf
<1>8. MetricIsSeen'
  <2>1. ASSUME NEW s \in Series, newest'[s] # None
        PROVE  \E t \in Series : t[1] = s[1] /\ latest'[t] # None
    <3>1. CASE s = old
      BY <1>1, <1>3, <1>4, <3>1, NoneIsNoNumber
    <3>2. CASE s # old
      BY <1>0, <1>4, <1>5, <2>1, <3>2 DEF MetricIsSeen
    <3> QED
      BY <3>1, <3>2
  <2> QED
    BY <2>1 DEF MetricIsSeen
<1> QED
  BY <1>6, <1>7, <1>8

LEMMA ExemplarKeeps ==
  ASSUME IInv, NEW v \in Numbers, PrintExemplar(v)
  PROVE  ParsedIsPrinted' /\ NothingInvented' /\ MetricIsSeen'
<1>0. TypeOK /\ Aligned /\ Held /\ ParsedIsPrinted /\ NothingInvented /\ MetricIsSeen
  BY DEF IInv
<1> DEFINE new == Key(block, curAttrs)
           it  == [metric |-> block, attrs |-> NoAttrs, val |-> v]
<1>1. /\ phase = "between" /\ block # NoMetric /\ ReadNumber(v)
      /\ points' = points \cup {it} /\ odd' = odd \cup {block} /\ newest' = newest
  BY DEF PrintExemplar
<1>2. block \in Metrics /\ curMetric = block /\ curAttrs \in Attrs
  BY <1>0, <1>1 DEF Aligned, TypeOK
<1>3. new \in Series /\ new[1] = block /\ new[2] = curAttrs
  BY <1>2 DEF Key, Series
<1>4. /\ latest'[new] = v
      /\ \A s \in Series \ {new} : latest'[s] = latest[s]
      /\ \A s \in Series : latest[s] # None => latest'[s] # None
  BY <1>0, <1>1, <1>2, FlushStep
<1>5. ParsedIsPrinted'
  BY <1>0, <1>1, <1>3, <1>4 DEF ParsedIsPrinted
<1>6. NothingInvented'
  <2>1. it \in points' /\ it.metric = block /\ it.val = v
    BY <1>1
  <2>2. \E q \in points' : q.metric = block /\ PartOf(curAttrs, q)
    <3>1. CASE curAttrs = NoAttrs
      BY <2>1, <3>1, NothingIsPart
    <3>2. CASE curAttrs # NoAttrs
      BY <1>0, <1>1, <1>2, <3>2 DEF Held, Printed
    <3> QED
      BY <3>1, <3>2
  <2>3. ASSUME NEW s \in Series, latest'[s] # None
        PROVE  \E p, q \in points' :
                 /\ p.metric = s[1] /\ p.val = latest'[s]
                 /\ q.metric = s[1] /\ PartOf(s[2], q)
    <3>1. CASE s = new
      BY <1>3, <1>4, <2>1, <2>2, <3>1
    <3>2. CASE s # new
      BY <1>0, <1>1, <1>4, <2>3, <3>2 DEF NothingInvented, PartOf
    <3> QED
      BY <3>1, <3>2
  <2> QED
    BY <2>3 DEF NothingInvented, PartOf
<1>7. MetricIsSeen'
  BY <1>0, <1>1, <1>4 DEF MetricIsSeen
<1> QED
  BY <1>5, <1>6, <1>7

LEMMA TearKeeps ==
  ASSUME IInv, NEW v \in Numbers, TearNumber(v)
  PROVE  ParsedIsPrinted' /\ NothingInvented' /\ MetricIsSeen'
<1>0. TypeOK /\ Aligned /\ ParsedIsPrinted /\ MetricIsSeen
  BY DEF IInv
<1>1. /\ phase = "point" /\ phase' = "torn" /\ ReadNumber(v)
      /\ odd' = odd \cup {block} /\ newest' = newest
  BY DEF TearNumber
<1>2. block \in Metrics /\ curMetric = block
  BY <1>0, <1>1 DEF Aligned, TypeOK
<1>3. Key(block, curAttrs)[1] = block
  BY DEF Key
<1>4. /\ \A s \in Series \ {Key(block, curAttrs)} : latest'[s] = latest[s]
      /\ \A s \in Series : latest[s] # None => latest'[s] # None
  BY <1>0, <1>1, <1>2, FlushStep
<1>5. ParsedIsPrinted'
  BY <1>0, <1>1, <1>3, <1>4 DEF ParsedIsPrinted
<1>6. NothingInvented'
  BY <1>1 DEF NothingInvented
<1>7. MetricIsSeen'
  BY <1>0, <1>1, <1>4 DEF MetricIsSeen
<1> QED
  BY <1>5, <1>6, <1>7

-----------------------------------------------------------------------------
(* The inductive invariant and what follows from it. *)

LEMMA InitIInv == Init => IInv
<1> SUFFICES ASSUME Init PROVE IInv
  OBVIOUS
<1>1. TypeOK
  BY InitType
<1>2. Aligned /\ Held
  BY DEF Init, Aligned, Held
<1>3. ParsedIsPrinted
  BY DEF Init, ParsedIsPrinted
<1>4. NothingInvented /\ MetricIsSeen
  BY DEF Init, NothingInvented, MetricIsSeen
<1> QED
  BY <1>1, <1>2, <1>3, <1>4 DEF IInv

LEMMA StepIInv == IInv /\ [Next]_vars => IInv'
<1> SUFFICES ASSUME IInv, [Next]_vars PROVE IInv'
  OBVIOUS
<1>1. TypeOK'
  BY StepType DEF IInv
<1>2. Aligned' /\ Held'
  BY StepAligned, StepHeld
<1>3. ParsedIsPrinted' /\ NothingInvented' /\ MetricIsSeen'
  BY StepKinds, QuietKeeps, NumberKeeps, ExemplarKeeps, TearKeeps
<1> QED
  BY <1>1, <1>2, <1>3 DEF IInv

LEMMA Inductive == Spec => []IInv
<1>1. Init => IInv
  BY InitIInv
<1>2. IInv /\ [Next]_vars => IInv'
  BY StepIInv
<1> QED
  BY <1>1, <1>2, PTL DEF Spec

\* In every reachable state the machine of ReadDebugLog and the exporter have
\* the values their variables are for, and a point is of a named metric.
THEOREM TypeCorrect == Spec => []TypeOK
<1>1. IInv => TypeOK
  BY DEF IInv
<1> QED
  BY <1>1, Inductive, PTL

\* However many points, attributes and metrics the log has, ReadDebugLog's
\* result has the last number printed for every series of a metric that was
\* never disturbed.
THEOREM ParsedIsPrintedAlways == Spec => []ParsedIsPrinted
<1>1. IInv => ParsedIsPrinted
  BY DEF IInv
<1> QED
  BY <1>1, Inductive, PTL

\* Whatever disturbs the log, an entry of ReadDebugLog's result is made of a
\* number and of attributes that were printed under its metric's name.
THEOREM NothingInventedAlways == Spec => []NothingInvented
<1>1. IInv => NothingInvented
  BY DEF IInv
<1> QED
  BY <1>1, Inductive, PTL

\* A metric of which a number was ever printed stays in ReadDebugLog's result.
THEOREM MetricIsSeenAlways == Spec => []MetricIsSeen
<1>1. IInv => MetricIsSeen
  BY DEF IInv
<1> QED
  BY <1>1, Inductive, PTL

=============================================================================
