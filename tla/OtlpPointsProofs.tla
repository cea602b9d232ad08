-------------------------- MODULE OtlpPointsProofs --------------------------
(***************************************************************************)
(* Lemmas about the two folds of OtlpPoints: one step of the fold keeps    *)
(* its result equal to what is wanted of the points folded so far.         *)
(*                                                                         *)
(* NewestOf and SeriesOf choose the newest and the oldest position of a    *)
(* series.  That there is one is a fact about finite sets, which the       *)
(* relations LatestFits and SeriesFits carry along instead: they name the  *)
(* positions that the fold's values were taken from.                       *)
(***************************************************************************)
EXTENDS OtlpPoints, FiniteSetTheorems, TLAPS

\* What the lemmas need of a raw point.
IsPoint(p) ==
  /\ p = [key |-> p.key, res |-> p.res, ts |-> p.ts, val |-> p.val,
          shape |-> p.shape]
  /\ p.ts \in Int

ArePoints(ps) ==
  /\ ps = [i \in 1..Len(ps) |-> ps[i]] /\ Len(ps) \in Nat
  /\ \A i \in 1..Len(ps) : IsPoint(ps[i])

LatestFits(latest, ps) ==
  /\ latest = [k \in KeysOf(ps, 0) |-> latest[k]]
  /\ \A k \in KeysOf(ps, 0) :
       \E i : /\ IsNewest(ps, Positions(ps, k, 0), i)
              /\ latest[k] = Emitted(ps[i])

\* The record s of the series with positions I is taken from o, n and f.
Ends(ps, I, s, o, n, f) ==
  /\ IsOldest(ps, I, o)
  /\ IsNewest(ps, I, n)
  /\ IsFirstRead(I, f)
  /\ s = [res |-> ps[f].res, firstVal |-> ps[o].val, firstTS |-> TimeOf(ps[o]),
          lastVal |-> ps[n].val, lastTS |-> TimeOf(ps[n]),
          nPoints |-> Cardinality(I)]

SeriesFits(series, ps, since) ==
  /\ series = [k \in KeysOf(ps, since) |-> series[k]]
  /\ \A k \in KeysOf(ps, since) :
       \E o, n, f : Ends(ps, Positions(ps, k, since), series[k], o, n, f)

\* The positions of a sequence with one more point.
Grown(ps, p) == [i \in 1..Len(ps) + 1 |-> IF i <= Len(ps) THEN ps[i] ELSE p]

-----------------------------------------------------------------------------
\* A sequence of points read as ArePoints reads it.
LEMMA SeqArePoints ==
  ASSUME NEW S, \A p \in S : IsPoint(p), NEW ps \in Seq(S)
  PROVE  ArePoints(ps) /\ \A i \in DOMAIN ps : ps[i] \in S
<1>1. Len(ps) \in Nat /\ DOMAIN ps = 1..Len(ps)
  OBVIOUS
<1>2. ps = [i \in 1..Len(ps) |-> ps[i]] /\ \A i \in 1..Len(ps) : ps[i] \in S
  OBVIOUS
<1>. QED  BY <1>1, <1>2 DEF ArePoints

\* Appending a point is Grown.
LEMMA AppendIsGrown ==
  ASSUME NEW S, NEW ps \in Seq(S), NEW p \in S
  PROVE  Append(ps, p) = Grown(ps, p)
<1>. DEFINE a == Append(ps, p)
<1>1. a \in Seq(S) /\ Len(a) = Len(ps) + 1 /\ Len(ps) \in Nat
  OBVIOUS
<1>2. \A i \in 1..Len(ps) + 1 : a[i] = IF i <= Len(ps) THEN ps[i] ELSE p
  OBVIOUS
<1>. HIDE DEF a
<1>3. a = [i \in 1..Len(a) |-> a[i]]
  BY <1>1
<1>4. a = Grown(ps, p)
  BY <1>1, <1>2, <1>3 DEF Grown
<1>. QED  BY <1>4 DEF a

\* Timestamps as they are read are integers.
LEMMA TimeOfInt ==
  ASSUME NEW p, IsPoint(p)
  PROVE  TimeOf(p) \in Int
BY DEF TimeOf, IsPoint

\* The point that is appended adds its own position to its series and
\* changes no other.
LEMMA PositionsGrown ==
  ASSUME NEW ps, ArePoints(ps), NEW p, IsPoint(p), NEW k, NEW since
  PROVE  /\ DOMAIN Grown(ps, p) = 1..Len(ps) + 1
         /\ DOMAIN ps = 1..Len(ps)
         /\ \A i \in 1..Len(ps) : Grown(ps, p)[i] = ps[i]
         /\ Grown(ps, p)[Len(ps) + 1] = p
         /\ Positions(ps, k, since) \subseteq 1..Len(ps)
         /\ Positions(Grown(ps, p), k, since) =
              Positions(ps, k, since) \cup
              (IF p.key = k /\ InWindow(p, since) THEN {Len(ps) + 1} ELSE {})
<1>1. /\ Len(ps) \in Nat
      /\ DOMAIN ps = 1..Len(ps)
  BY DEF ArePoints
<1>2. /\ DOMAIN Grown(ps, p) = 1..Len(ps) + 1
      /\ \A i \in 1..Len(ps) : Grown(ps, p)[i] = ps[i]
      /\ Grown(ps, p)[Len(ps) + 1] = p
  BY <1>1 DEF Grown
<1>3. 1..Len(ps) + 1 = 1..Len(ps) \cup {Len(ps) + 1}
  BY <1>1
<1>4. Len(ps) + 1 \notin 1..Len(ps)
  BY <1>1
<1>. QED  BY <1>1, <1>2, <1>3, <1>4 DEF Positions

\* The keys of a sequence are those whose series has a position.
LEMMA KeysArePositions ==
  ASSUME NEW ps, NEW k, NEW since
  PROVE  k \in KeysOf(ps, since) <=> Positions(ps, k, since) # {}
BY DEF KeysOf, Positions

\* The keys of the sequence with one more point.
LEMMA KeysGrown ==
  ASSUME NEW ps, ArePoints(ps), NEW p, IsPoint(p), NEW since
  PROVE  KeysOf(Grown(ps, p), since) =
           KeysOf(ps, since) \cup (IF InWindow(p, since) THEN {p.key} ELSE {})
<1>1. \A k : k \in KeysOf(Grown(ps, p), since) <=>
             Positions(Grown(ps, p), k, since) # {}
  BY KeysArePositions
<1>2. \A k : k \in KeysOf(ps, since) <=> Positions(ps, k, since) # {}
  BY KeysArePositions
<1>3. \A k : Positions(Grown(ps, p), k, since) =
               Positions(ps, k, since) \cup
               (IF p.key = k /\ InWindow(p, since) THEN {Len(ps) + 1} ELSE {})
  BY PositionsGrown
<1>. QED  BY <1>1, <1>2, <1>3

\* The newest and the oldest position do not change when a point is appended
\* that is not of their series.
LEMMA ExtremesKept ==
  ASSUME NEW ps, ArePoints(ps), NEW p, IsPoint(p), NEW I,
         I \subseteq 1..Len(ps), NEW i
  PROVE  /\ IsNewest(ps, I, i) <=> IsNewest(Grown(ps, p), I, i)
         /\ IsOldest(ps, I, i) <=> IsOldest(Grown(ps, p), I, i)
<1>1. \A j \in I : Grown(ps, p)[j] = ps[j]
  BY PositionsGrown
<1>. QED  BY <1>1 DEF IsNewest, IsOldest

\* The appended point of a series is the newest unless an older one beats it.
LEMMA NewestGrown ==
  ASSUME NEW ps, ArePoints(ps), NEW p, IsPoint(p), NEW I,
         I \subseteq 1..Len(ps), NEW i, IsNewest(ps, I, i)
  PROVE  IsNewest(Grown(ps, p), I \cup {Len(ps) + 1},
                  IF TimeOf(p) >= TimeOf(ps[i]) THEN Len(ps) + 1 ELSE i)
<1>. DEFINE n == Len(ps) + 1
            q == Grown(ps, p)
<1>1. /\ Len(ps) \in Nat
      /\ \A j \in I : q[j] = ps[j] /\ j \in 1..Len(ps)
      /\ q[n] = p
  BY PositionsGrown DEF ArePoints
<1>2. \A j \in I : TimeOf(ps[j]) \in Int
  BY <1>1, TimeOfInt DEF ArePoints
<1>3. i \in I /\ \A j \in I : \/ TimeOf(ps[j]) < TimeOf(ps[i])
                              \/ TimeOf(ps[j]) = TimeOf(ps[i]) /\ j <= i
  BY DEF IsNewest
<1>4. TimeOf(p) \in Int
  BY TimeOfInt
<1>. HIDE DEF q
<1>5. CASE TimeOf(p) >= TimeOf(ps[i])
  <2>1. \A j \in I : TimeOf(q[j]) <= TimeOf(q[n]) /\ j <= n
    BY <1>1, <1>2, <1>3, <1>4, <1>5
  <2>2. \A j \in I \cup {n} :
           \/ TimeOf(q[j]) < TimeOf(q[n])
           \/ TimeOf(q[j]) = TimeOf(q[n]) /\ j <= n
    BY <2>1, <1>1, <1>2, <1>4
  <2>. QED  BY <2>2, <1>5 DEF IsNewest, q
<1>6. CASE ~(TimeOf(p) >= TimeOf(ps[i]))
  <2>1. \A j \in I \cup {n} :
           \/ TimeOf(q[j]) < TimeOf(q[i])
           \/ TimeOf(q[j]) = TimeOf(q[i]) /\ j <= i
    BY <1>1, <1>2, <1>3, <1>4, <1>6
  <2>. QED  BY <2>1, <1>3, <1>6 DEF IsNewest, q
<1>. QED  BY <1>5, <1>6

\* The appended point of a series is the oldest unless a younger one beats it.
LEMMA OldestGrown ==
  ASSUME NEW ps, ArePoints(ps), NEW p, IsPoint(p), NEW I,
         I \subseteq 1..Len(ps), NEW i, IsOldest(ps, I, i)
  PROVE  IsOldest(Grown(ps, p), I \cup {Len(ps) + 1},
                  IF TimeOf(p) <= TimeOf(ps[i]) THEN Len(ps) + 1 ELSE i)
<1>. DEFINE n == Len(ps) + 1
            q == Grown(ps, p)
<1>1. /\ Len(ps) \in Nat
      /\ \A j \in I : q[j] = ps[j] /\ j \in 1..Len(ps)
      /\ q[n] = p
  BY PositionsGrown DEF ArePoints
<1>2. \A j \in I : TimeOf(ps[j]) \in Int
  BY <1>1, TimeOfInt DEF ArePoints
<1>3. i \in I /\ \A j \in I : \/ TimeOf(ps[j]) > TimeOf(ps[i])
                              \/ TimeOf(ps[j]) = TimeOf(ps[i]) /\ j <= i
  BY DEF IsOldest
<1>4. TimeOf(p) \in Int
  BY TimeOfInt
<1>. HIDE DEF q
<1>5. CASE TimeOf(p) <= TimeOf(ps[i])
  <2>1. \A j \in I : TimeOf(q[j]) >= TimeOf(q[n]) /\ j <= n
    BY <1>1, <1>2, <1>3, <1>4, <1>5
  <2>2. \A j \in I \cup {n} :
           \/ TimeOf(q[j]) > TimeOf(q[n])
           \/ TimeOf(q[j]) = TimeOf(q[n]) /\ j <= n
    BY <2>1, <1>1, <1>2, <1>4
  <2>. QED  BY <2>2, <1>5 DEF IsOldest, q
<1>6. CASE ~(TimeOf(p) <= TimeOf(ps[i]))
  <2>1. \A j \in I \cup {n} :
           \/ TimeOf(q[j]) > TimeOf(q[i])
           \/ TimeOf(q[j]) = TimeOf(q[i]) /\ j <= i
    BY <1>1, <1>2, <1>3, <1>4, <1>6
  <2>. QED  BY <2>1, <1>3, <1>6 DEF IsOldest, q
<1>. QED  BY <1>5, <1>6

-----------------------------------------------------------------------------
\* Folding nothing gives the empty map.
LEMMA LatestFitsEmpty ==
  ASSUME NEW ps, DOMAIN ps = {}
  PROVE  LatestFits(<< >>, ps)
<1>1. KeysOf(ps, 0) = {}
  BY DEF KeysOf
<1>2. << >> = [k \in {} |-> << >>[k]]
  OBVIOUS
<1>. QED  BY <1>1, <1>2 DEF LatestFits

\* The same for the map of endpoints.
LEMMA SeriesFitsEmpty ==
  ASSUME NEW ps, DOMAIN ps = {}, NEW since
  PROVE  SeriesFits(<< >>, ps, since)
<1>1. KeysOf(ps, since) = {}
  BY DEF KeysOf
<1>2. << >> = [k \in {} |-> << >>[k]]
  OBVIOUS
<1>. QED  BY <1>1, <1>2 DEF SeriesFits

\* One more point, as ReadOTLPJSON's callback treats it, keeps the map right.
LEMMA LatestFitsStep ==
  ASSUME NEW ps, ArePoints(ps), NEW p, IsPoint(p), NEW latest,
         LatestFits(latest, ps)
  PROVE  LatestFits(NewestStep(latest, p), Grown(ps, p))
<1>. DEFINE q == Grown(ps, p)
            n == Len(ps) + 1
            new == NewestStep(latest, p)
            P(k) == Positions(ps, k, 0)
            Q(k) == Positions(q, k, 0)
<1>1. /\ DOMAIN latest = KeysOf(ps, 0)
      /\ latest = [k \in DOMAIN latest |-> latest[k]]
      /\ \A k \in KeysOf(ps, 0) :
           \E i : IsNewest(ps, P(k), i) /\ latest[k] = Emitted(ps[i])
  BY DEF LatestFits
<1>2. InWindow(p, 0) <=> Emits(p)
  BY DEF InWindow
<1>3. \A k : /\ P(k) \subseteq 1..Len(ps)
             /\ Q(k) = P(k) \cup (IF p.key = k /\ Emits(p) THEN {n} ELSE {})
  BY PositionsGrown, <1>2
<1>4. KeysOf(q, 0) = KeysOf(ps, 0) \cup (IF Emits(p) THEN {p.key} ELSE {})
  BY KeysGrown, <1>2
<1>5. q[n] = p /\ \A i \in 1..Len(ps) : q[i] = ps[i]
  BY PositionsGrown
<1>6. \A k \in KeysOf(ps, 0) : (~Emits(p) \/ p.key # k) =>
        \E i : IsNewest(q, Q(k), i) /\ latest[k] = Emitted(q[i])
  <2>. SUFFICES ASSUME NEW k \in KeysOf(ps, 0), ~Emits(p) \/ p.key # k
                PROVE  \E i : IsNewest(q, Q(k), i) /\ latest[k] = Emitted(q[i])
    OBVIOUS
  <2>1. PICK i : IsNewest(ps, P(k), i) /\ latest[k] = Emitted(ps[i])
    BY <1>1
  <2>2. Q(k) = P(k) /\ i \in 1..Len(ps)
    BY <1>3, <2>1 DEF IsNewest
  <2>3. IsNewest(q, P(k), i)
    BY <2>1, <1>3, ExtremesKept
  <2>. QED  BY <2>1, <2>2, <2>3, <1>5
<1>7. CASE ~Emits(p)
  <2>1. new = latest
    BY <1>7 DEF NewestStep
  <2>. QED  BY <2>1, <1>1, <1>4, <1>6, <1>7 DEF LatestFits
<1>8. CASE Emits(p) /\ p.key \notin KeysOf(ps, 0)
  <2>1. new = Put(latest, p.key, Emitted(p))
    BY <1>8, <1>1 DEF NewestStep
  <2>2. /\ DOMAIN new = KeysOf(q, 0)
        /\ new = [k \in KeysOf(q, 0) |-> new[k]]
        /\ \A k \in KeysOf(ps, 0) : new[k] = latest[k]
        /\ new[p.key] = Emitted(p)
    BY <2>1, <1>1, <1>4, <1>8 DEF Put
  <2>3. P(p.key) = {}
    BY <1>8, KeysArePositions
  <2>4. Q(p.key) = {n}
    BY <2>3, <1>3, <1>8
  <2>5. IsNewest(q, Q(p.key), n) /\ new[p.key] = Emitted(q[n])
    <3>1. n <= n
      BY DEF ArePoints
    <3>. QED  BY <3>1, <2>4, <2>2, <1>5 DEF IsNewest
  <2>. QED  BY <2>2, <2>5, <1>4, <1>6, <1>8 DEF LatestFits
<1>9. CASE Emits(p) /\ p.key \in KeysOf(ps, 0)
  <2>1. PICK i : IsNewest(ps, P(p.key), i) /\ latest[p.key] = Emitted(ps[i])
    BY <1>1, <1>9
  <2>2. i \in 1..Len(ps) /\ Q(p.key) = P(p.key) \cup {n}
    BY <2>1, <1>3, <1>9 DEF IsNewest
  <2>3. latest[p.key].ts = TimeOf(ps[i])
    BY <2>1 DEF Emitted
  <2>4. IsNewest(q, Q(p.key), IF TimeOf(p) >= TimeOf(ps[i]) THEN n ELSE i)
    BY <2>1, <2>2, <1>3, NewestGrown
  <2>5. new = IF TimeOf(p) >= TimeOf(ps[i])
              THEN Put(latest, p.key, Emitted(p)) ELSE latest
    BY <2>3, <1>1, <1>9 DEF NewestStep
  <2>6. KeysOf(q, 0) = KeysOf(ps, 0)
    BY <1>4, <1>9
  <2>7. /\ new = [k \in KeysOf(q, 0) |-> new[k]]
        /\ \A k \in KeysOf(q, 0) : k # p.key => new[k] = latest[k]
        /\ new[p.key] = IF TimeOf(p) >= TimeOf(ps[i])
                        THEN Emitted(p) ELSE latest[p.key]
    BY <2>5, <2>6, <1>1, <1>9 DEF Put
  <2>8. \E j : IsNewest(q, Q(p.key), j) /\ new[p.key] = Emitted(q[j])
    <3>1. CASE TimeOf(p) >= TimeOf(ps[i])
      BY <3>1, <2>4, <2>7, <1>5
    <3>2. CASE ~(TimeOf(p) >= TimeOf(ps[i]))
      BY <3>2, <2>4, <2>7, <2>1, <2>2, <1>5
    <3>. QED  BY <3>1, <3>2
  <2>. QED  BY <2>6, <2>7, <2>8, <1>6 DEF LatestFits
<1>. QED  BY <1>7, <1>8, <1>9

\* One more point of a series counts once more.
LEMMA CountGrown ==
  ASSUME NEW n \in Nat, NEW I, I \subseteq 1..n
  PROVE  /\ IsFiniteSet(I) /\ Cardinality(I) \in Nat
         /\ Cardinality(I \cup {n + 1}) = Cardinality(I) + 1
<1>1. IsFiniteSet(1..n)
  BY FS_Interval
<1>2. IsFiniteSet(I)
  BY <1>1, FS_Subset
<1>3. n + 1 \notin I
  OBVIOUS
<1>. QED  BY <1>2, <1>3, FS_AddElement, FS_CardinalityType

\* One more point, as ReadOTLPSeries' callback treats it, keeps the map right.
LEMMA SeriesFitsStep ==
  ASSUME NEW ps, ArePoints(ps), NEW p, IsPoint(p), NEW series, NEW since,
         SeriesFits(series, ps, since)
  PROVE  SeriesFits(SeriesStep(series, p, since), Grown(ps, p), since)
<1>. DEFINE q == Grown(ps, p)
            m == Len(ps) + 1
            new == SeriesStep(series, p, since)
            P(k) == Positions(ps, k, since)
            Q(k) == Positions(q, k, since)
<1>1. /\ DOMAIN series = KeysOf(ps, since)
      /\ series = [k \in DOMAIN series |-> series[k]]
      /\ \A k \in KeysOf(ps, since) : \E o, n, f : Ends(ps, P(k), series[k], o, n, f)
  BY DEF SeriesFits
<1>2. Len(ps) \in Nat
  BY DEF ArePoints
<1>3. \A k : /\ P(k) \subseteq 1..Len(ps)
             /\ Q(k) = P(k) \cup
                       (IF p.key = k /\ InWindow(p, since) THEN {m} ELSE {})
  BY PositionsGrown
<1>4. KeysOf(q, since) =
        KeysOf(ps, since) \cup (IF InWindow(p, since) THEN {p.key} ELSE {})
  BY KeysGrown
<1>5. q[m] = p /\ \A i \in 1..Len(ps) : q[i] = ps[i]
  BY PositionsGrown
<1>6. \A k \in KeysOf(ps, since) : (~InWindow(p, since) \/ p.key # k) =>
        \E o, n, f : Ends(q, Q(k), series[k], o, n, f)
  <2>. SUFFICES ASSUME NEW k \in KeysOf(ps, since),
                       ~InWindow(p, since) \/ p.key # k
                PROVE  \E o, n, f : Ends(q, Q(k), series[k], o, n, f)
    OBVIOUS
  <2>1. PICK o, n, f : Ends(ps, P(k), series[k], o, n, f)
    BY <1>1
  <2>2. /\ Q(k) = P(k) /\ P(k) \subseteq 1..Len(ps)
        /\ o \in P(k) /\ n \in P(k) /\ f \in P(k)
    <3>1. o \in P(k) /\ n \in P(k) /\ f \in P(k)
      BY <2>1 DEF Ends, IsOldest, IsNewest, IsFirstRead
    <3>. QED  BY <3>1, <1>3
  <2>3. IsOldest(q, P(k), o) /\ IsNewest(q, P(k), n)
    BY <2>1, <2>2, ExtremesKept DEF Ends
  <2>4. q[o] = ps[o] /\ q[n] = ps[n] /\ q[f] = ps[f]
    BY <2>2, <1>5
  <2>5. Ends(q, Q(k), series[k], o, n, f)
    BY <2>1, <2>2, <2>3, <2>4 DEF Ends
  <2>. QED  BY <2>5
<1>7. CASE ~InWindow(p, since)
  <2>1. new = series
    BY <1>7 DEF SeriesStep
  <2>. QED  BY <2>1, <1>1, <1>4, <1>6, <1>7 DEF SeriesFits
<1>8. CASE InWindow(p, since) /\ p.key \notin KeysOf(ps, since)
  <2>1. new = Put(series, p.key, NewSeries(p))
    BY <1>8, <1>1 DEF SeriesStep
  <2>2. /\ new = [k \in KeysOf(q, since) |-> new[k]]
        /\ \A k \in KeysOf(ps, since) : new[k] = series[k]
        /\ new[p.key] = NewSeries(p)
    BY <2>1, <1>1, <1>4, <1>8 DEF Put
  <2>3. P(p.key) = {}
    BY <1>8, KeysArePositions
  <2>4. Q(p.key) = {m}
    BY <2>3, <1>3, <1>8
  <2>5. Cardinality({m}) = 1 /\ m <= m
    <3>1. Cardinality({m}) = 1
      BY FS_Singleton
    <3>. QED  BY <3>1, <1>2
  <2>6. IsOldest(q, {m}, m) /\ IsNewest(q, {m}, m) /\ IsFirstRead({m}, m)
    BY <2>5 DEF IsOldest, IsNewest, IsFirstRead
  <2>7. Ends(q, Q(p.key), new[p.key], m, m, m)
    BY <2>2, <2>4, <2>5, <2>6, <1>5 DEF NewSeries, Ends
  <2>8. \A k \in KeysOf(q, since) : \E o, n, f : Ends(q, Q(k), new[k], o, n, f)
    BY <2>2, <2>7, <1>4, <1>6, <1>8
  <2>. QED  BY <2>2, <2>8 DEF SeriesFits
<1>9. CASE InWindow(p, since) /\ p.key \in KeysOf(ps, since)
  <2>. DEFINE s == series[p.key]
              I == P(p.key)
  <2>1. PICK o, n, f : Ends(ps, I, s, o, n, f)
    BY <1>1, <1>9
  <2>2. /\ o \in I /\ n \in I /\ f \in I /\ I \subseteq 1..Len(ps)
        /\ Q(p.key) = I \cup {m}
    BY <2>1, <1>3, <1>9 DEF Ends, IsOldest, IsNewest, IsFirstRead
  <2>3. /\ s.res = ps[f].res
        /\ s.firstVal = ps[o].val /\ s.firstTS = TimeOf(ps[o])
        /\ s.lastVal = ps[n].val /\ s.lastTS = TimeOf(ps[n])
        /\ s.nPoints = Cardinality(I)
    BY <2>1 DEF Ends
  <2>. DEFINE o2 == IF TimeOf(p) <= TimeOf(ps[o]) THEN m ELSE o
              n2 == IF TimeOf(p) >= TimeOf(ps[n]) THEN m ELSE n
  <2>4. IsOldest(q, I \cup {m}, o2) /\ IsNewest(q, I \cup {m}, n2)
    BY <2>1, <2>2, OldestGrown, NewestGrown DEF Ends
  <2>5. IsFirstRead(I \cup {m}, f)
    <3>1. \A j \in I : f <= j
      BY <2>1 DEF Ends, IsFirstRead
    <3>2. f <= m
      BY <2>2, <1>2
    <3>. QED  BY <3>1, <3>2, <2>2 DEF IsFirstRead
  <2>6. Cardinality(I \cup {m}) = Cardinality(I) + 1
    BY <2>2, <1>2, CountGrown
  <2>7. new = Put(series, p.key, ExtendSeries(s, p))
    BY <1>9, <1>1 DEF SeriesStep
  <2>8. KeysOf(q, since) = KeysOf(ps, since)
    BY <1>4, <1>9
  <2>9. /\ new = [k \in KeysOf(q, since) |-> new[k]]
        /\ \A k \in KeysOf(q, since) : k # p.key => new[k] = series[k]
        /\ new[p.key] = ExtendSeries(s, p)
    BY <2>7, <2>8, <1>1, <1>9 DEF Put
  <2>10. ExtendSeries(s, p) =
           [res |-> q[f].res, firstVal |-> q[o2].val, firstTS |-> TimeOf(q[o2]),
            lastVal |-> q[n2].val, lastTS |-> TimeOf(q[n2]),
            nPoints |-> Cardinality(I \cup {m})]
    <3>1. q[f] = ps[f] /\ q[o] = ps[o] /\ q[n] = ps[n]
      BY <2>2, <1>5
    <3>2. q[o2] = (IF TimeOf(p) <= TimeOf(ps[o]) THEN p ELSE ps[o])
      BY <3>1, <1>5
    <3>3. q[n2] = (IF TimeOf(p) >= TimeOf(ps[n]) THEN p ELSE ps[n])
      BY <3>1, <1>5
    <3>. HIDE DEF o2, n2, q, s, I
    <3>4. /\ (IF TimeOf(p) <= s.firstTS THEN p.val ELSE s.firstVal) = q[o2].val
          /\ (IF TimeOf(p) <= s.firstTS THEN TimeOf(p) ELSE s.firstTS) = TimeOf(q[o2])
          /\ (IF TimeOf(p) >= s.lastTS THEN p.val ELSE s.lastVal) = q[n2].val
          /\ (IF TimeOf(p) >= s.lastTS THEN TimeOf(p) ELSE s.lastTS) = TimeOf(q[n2])
      BY <3>2, <3>3, <2>3
    <3>. QED  BY <3>1, <3>4, <2>3, <2>6 DEF ExtendSeries
  <2>11. Ends(q, Q(p.key), new[p.key], o2, n2, f)
    BY <2>2, <2>4, <2>5, <2>9, <2>10 DEF Ends
  <2>12. \A k \in KeysOf(q, since) : \E a, b, c : Ends(q, Q(k), new[k], a, b, c)
    BY <2>8, <2>9, <2>11, <1>6
  <2>. QED  BY <2>9, <2>12 DEF SeriesFits
<1>. QED  BY <1>7, <1>8, <1>9

-----------------------------------------------------------------------------
\* A series has one newest, one oldest and one first-read position.
LEMMA ExtremesUnique ==
  ASSUME NEW ps, ArePoints(ps), NEW I, I \subseteq 1..Len(ps)
  PROVE  /\ \A i, j : IsNewest(ps, I, i) /\ IsNewest(ps, I, j) => i = j
         /\ \A i, j : IsOldest(ps, I, i) /\ IsOldest(ps, I, j) => i = j
         /\ \A i, j : IsFirstRead(I, i) /\ IsFirstRead(I, j) => i = j
<1>1. \A j \in I : j \in Int /\ TimeOf(ps[j]) \in Int
  BY TimeOfInt DEF ArePoints
<1>2. \A i, j : IsNewest(ps, I, i) /\ IsNewest(ps, I, j) => i = j
  BY <1>1 DEF IsNewest
<1>3. \A i, j : IsOldest(ps, I, i) /\ IsOldest(ps, I, j) => i = j
  BY <1>1 DEF IsOldest
<1>4. \A i, j : IsFirstRead(I, i) /\ IsFirstRead(I, j) => i = j
  BY <1>1 DEF IsFirstRead
<1>. QED  BY <1>2, <1>3, <1>4

\* The map that fits is the one ReadOTLPJSON is meant to return.
LEMMA LatestFitsIsNewestOf ==
  ASSUME NEW ps, ArePoints(ps), NEW latest, LatestFits(latest, ps)
  PROVE  latest = NewestOf(ps)
<1>. DEFINE P(k) == Positions(ps, k, 0)
            c(k) == CHOOSE i \in P(k) : IsNewest(ps, P(k), i)
<1>1. \A k \in KeysOf(ps, 0) : latest[k] = Emitted(ps[c(k)])
  <2>. SUFFICES ASSUME NEW k \in KeysOf(ps, 0)
                PROVE  latest[k] = Emitted(ps[c(k)])
    OBVIOUS
  <2>1. P(k) \subseteq 1..Len(ps)
    BY DEF Positions, ArePoints
  <2>2. PICK i : IsNewest(ps, P(k), i) /\ latest[k] = Emitted(ps[i])
    BY DEF LatestFits
  <2>3. i \in P(k)
    BY <2>2 DEF IsNewest
  <2>4. IsNewest(ps, P(k), c(k))
    BY <2>2, <2>3
  <2>5. c(k) = i
    BY <2>1, <2>2, <2>4, ExtremesUnique
  <2>. QED  BY <2>2, <2>5
<1>2. latest = [k \in KeysOf(ps, 0) |-> latest[k]]
  BY DEF LatestFits
<1>3. latest = [k \in KeysOf(ps, 0) |-> Emitted(ps[c(k)])]
  BY <1>1, <1>2
<1>. QED  BY <1>3 DEF NewestOf

\* The map that fits is the one ReadOTLPSeries is meant to return.
LEMMA SeriesFitsIsSeriesOf ==
  ASSUME NEW ps, ArePoints(ps), NEW since, NEW series,
         SeriesFits(series, ps, since)
  PROVE  series = SeriesOf(ps, since)
<1>. DEFINE P(k) == Positions(ps, k, since)
            oldest(k) == CHOOSE i \in P(k) : IsOldest(ps, P(k), i)
            newest(k) == CHOOSE i \in P(k) : IsNewest(ps, P(k), i)
            first(k)  == CHOOSE i \in P(k) : IsFirstRead(P(k), i)
            rec(k) == [res |-> ps[first(k)].res, firstVal |-> ps[oldest(k)].val,
                       firstTS |-> TimeOf(ps[oldest(k)]),
                       lastVal |-> ps[newest(k)].val,
                       lastTS |-> TimeOf(ps[newest(k)]),
                       nPoints |-> Cardinality(P(k))]
<1>1. \A k \in KeysOf(ps, since) : series[k] = rec(k)
  <2>. SUFFICES ASSUME NEW k \in KeysOf(ps, since)
                PROVE  series[k] = rec(k)
    OBVIOUS
  <2>1. P(k) \subseteq 1..Len(ps)
    BY DEF Positions, ArePoints
  <2>2. PICK o, n, f : Ends(ps, P(k), series[k], o, n, f)
    BY DEF SeriesFits
  <2>3. o \in P(k) /\ n \in P(k) /\ f \in P(k)
    BY <2>2 DEF Ends, IsOldest, IsNewest, IsFirstRead
  <2>4. IsOldest(ps, P(k), oldest(k)) /\ IsNewest(ps, P(k), newest(k))
        /\ IsFirstRead(P(k), first(k))
    BY <2>2, <2>3 DEF Ends
  <2>5. oldest(k) = o /\ newest(k) = n /\ first(k) = f
    BY <2>1, <2>2, <2>4, ExtremesUnique DEF Ends
  <2>. QED  BY <2>2, <2>5 DEF Ends
<1>2. series = [k \in KeysOf(ps, since) |-> series[k]]
  BY DEF SeriesFits
<1>. HIDE DEF rec
<1>3. series = [k \in KeysOf(ps, since) |-> rec(k)]
  BY <1>1, <1>2
<1>. QED  BY <1>3 DEF SeriesOf, rec
=============================================================================
