---------------------------- MODULE ProbeProofs -----------------------------
(***************************************************************************)
(* Theorems about Probe, for any databases, failures and modes: it is a    *)
(* refinement of QueryByQuery, and its map is what the rows say.           *)
(*                                                                         *)
(* The inductive invariant has two parts.  Control says where the loop is  *)
(* and what it has in hand: the rows read are the first rows of the        *)
(* statement, the rows of the first pass are those of its statement or     *)
(* none, and a failure is of a statement behind the loop.  With it every   *)
(* step is a step of QueryByQuery or a stutter; that the fold of PutPoint  *)
(* and QueryByQuery's last point of a key give one map is an induction     *)
(* over the points (PutAllIsUpdated).  Data says what the map holds: its   *)
(* entries are points of the queries answered, all their keys are there,   *)
(* and of two points with one key the later one stays.                     *)
(*                                                                         *)
(* What the extractors make of a row is taken apart once, in Marks: every  *)
(* point is of a metric of its query, of the type ValueTypeOf gives it,    *)
(* and metric and attributes tell the names of the row (KeyTellsNames).    *)
(* The databases are as DatabasesAssumption says: one number or none in a  *)
(* cell, rows with the same names alike in their texts.                    *)
(***************************************************************************)
EXTENDS Probe, FiniteSetTheorems, WellFoundedInduction, TLAPS

-----------------------------------------------------------------------------
(* Least elements, induction, and sets of one made a sequence. *)

\* A nonempty set of naturals has a least element.
LEMMA NatMin ==
  ASSUME NEW T, T \subseteq Nat, T # {}
  PROVE  \E m \in T : \A n \in T : m <= n
<1>1. IsWellFoundedOn(OpToRel(<, Nat), Nat)
  BY NatLessThanWellFounded, Zenon
<1>2. PICK m \in T : \A n \in T : <<n, m>> \notin OpToRel(<, Nat)
  BY <1>1, WFMin
<1>3. \A n \in T : ~(n < m)
  BY <1>2 DEF OpToRel
<1>. QED  BY <1>3

\* Induction over the naturals, in terms of sets.
LEMMA NatInductive ==
  ASSUME NEW T, 0 \in T, \A n \in Nat : n \in T => n + 1 \in T
  PROVE  Nat \subseteq T
<1>. SUFFICES ASSUME Nat \ T # {} PROVE FALSE
  OBVIOUS
<1>1. PICK m \in Nat \ T : \A n \in Nat \ T : m <= n
  BY NatMin
<1>. QED  BY <1>1

\* A nonempty set of positions has a last one, and Max names it.
LEMMA MaxIsLast ==
  ASSUME NEW n \in Nat, NEW I, I \subseteq 1..n, I # {}
  PROVE  Max(I) \in I /\ \A i \in I : i <= Max(I)
<1>. DEFINE T == {m \in Nat : \A i \in I : i <= m}
<1>1. n \in T /\ T \subseteq Nat
  OBVIOUS
<1>2. PICK m \in T : \A k \in T : m <= k
  BY <1>1, NatMin
<1>3. m \in I
  <2>. SUFFICES ASSUME m \notin I PROVE FALSE
    OBVIOUS
  <2>1. m \in Nat /\ \A i \in I : i \in 1..n /\ i <= m /\ i # m
    BY <1>2
  <2>2. m # 0
    <3>1. PICK i \in I : TRUE
      OBVIOUS
    <3>. QED  BY <2>1, <3>1
  <2>3. m - 1 \in Nat /\ \A i \in I : i <= m - 1
    BY <2>1, <2>2
  <2>. QED  BY <1>2, <2>3
<1>4. \E x \in I : \A y \in I : x >= y
  BY <1>2, <1>3
<1>. QED  BY <1>4 DEF Max

\* A set of one makes a sequence of one, the empty set the empty sequence.
LEMMA ShortSets ==
  /\ SetToSeq({}) = <<>>
  /\ \A x : SetToSeq({x}) = <<x>>
<1>1. SetToSeq({}) = <<>>
  <2>1. Cardinality({}) = 0
    BY FS_EmptySet
  <2>2. \A f \in [1..0 -> {}] : f = <<>>
    OBVIOUS
  <2>3. \E f \in [1..0 -> {}] : IsInjective(f)
    <3>1. <<>> \in [1..0 -> {}]
      OBVIOUS
    <3>2. IsInjective(<<>>)
      BY DEF IsInjective
    <3>. QED  BY <3>1, <3>2
  <2>. QED  BY <2>1, <2>2, <2>3 DEF SetToSeq
<1>2. ASSUME NEW x PROVE SetToSeq({x}) = <<x>>
  <2>1. Cardinality({x}) = 1
    BY FS_Singleton
  <2>2. \A f \in [1..1 -> {x}] : f = <<x>>
    OBVIOUS
  <2>3. \E f \in [1..1 -> {x}] : IsInjective(f)
    <3>1. <<x>> \in [1..1 -> {x}]
      OBVIOUS
    <3>2. IsInjective(<<x>>)
      BY DEF IsInjective
    <3>. QED  BY <3>1, <3>2
  <2>. QED  BY <2>1, <2>2, <2>3 DEF SetToSeq
<1>. QED  BY <1>1, <1>2


-----------------------------------------------------------------------------
(* The sequences that FlattenSeq joins. *)

\* Element m of sequence i is at position p of out, and behind p are only
\* elements that come later in the first n sequences.
Place(seqs, n, out, p, i, m) ==
  /\ out[p] = seqs[i][m]
  /\ \A q \in 1..Len(out) : q > p =>
       \E j \in 1..n : \E l \in DOMAIN seqs[j] :
          out[q] = seqs[j][l] /\ (j > i \/ (j = i /\ l > m))

\* out is the first n of the sequences seqs, one after the other.
Flat(seqs, n, out) ==
  /\ \A p \in 1..Len(out) : \E i \in 1..n : \E m \in DOMAIN seqs[i] :
       Place(seqs, n, out, p, i, m)
  /\ \A i \in 1..n : \A m \in DOMAIN seqs[i] : \E p \in 1..Len(out) :
       Place(seqs, n, out, p, i, m)

\* One more sequence behind the first n.
LEMMA FlatGrows ==
  ASSUME NEW S, NEW seqs \in Seq(Seq(S)), NEW n \in Nat, n + 1 \in DOMAIN seqs,
         NEW out \in Seq(S), Flat(seqs, n, out)
  PROVE  Flat(seqs, n + 1, out \o seqs[n + 1]) /\ out \o seqs[n + 1] \in Seq(S)
<1>. DEFINE s == seqs[n + 1]
            new == out \o s
<1>1. s \in Seq(S) /\ DOMAIN s = 1..Len(s) /\ Len(s) \in Nat
  OBVIOUS
<1>2. /\ new \in Seq(S) /\ Len(new) = Len(out) + Len(s)
      /\ \A p \in 1..Len(out) : p \in 1..Len(new) /\ new[p] = out[p]
      /\ \A l \in 1..Len(s) : Len(out) + l \in 1..Len(new) /\ new[Len(out) + l] = s[l]
      /\ \A p \in 1..Len(new) : p \in 1..Len(out) \/ p - Len(out) \in 1..Len(s)
  BY <1>1
<1>. HIDE DEF new, s
<1>3. ASSUME NEW p \in 1..Len(out), NEW i \in 1..n, NEW m \in DOMAIN seqs[i],
             Place(seqs, n, out, p, i, m)
      PROVE  /\ p \in 1..Len(new) /\ i \in 1..n + 1
             /\ Place(seqs, n + 1, new, p, i, m)
  <2>1. p \in 1..Len(new) /\ i \in 1..n + 1 /\ new[p] = seqs[i][m]
    BY <1>2, <1>3 DEF Place
  <2>2. ASSUME NEW q \in 1..Len(new), q > p
        PROVE  \E j \in 1..n + 1 : \E l \in DOMAIN seqs[j] :
                  new[q] = seqs[j][l] /\ (j > i \/ (j = i /\ l > m))
    <3>1. CASE q \in 1..Len(out)
      <4>1. PICK j \in 1..n : \E l \in DOMAIN seqs[j] :
                       out[q] = seqs[j][l] /\ (j > i \/ (j = i /\ l > m))
        BY <1>3, <2>2, <3>1 DEF Place
      <4>2. new[q] = out[q] /\ j \in 1..n + 1
        BY <1>2, <3>1
      <4>. QED  BY <4>1, <4>2
    <3>2. CASE q - Len(out) \in 1..Len(s)
      <4>1. Len(out) + (q - Len(out)) = q
        OBVIOUS
      <4>2. new[q] = s[q - Len(out)] /\ q - Len(out) \in DOMAIN s
        BY <1>1, <1>2, <3>2, <4>1
      <4>3. n + 1 > i /\ n + 1 \in 1..n + 1
        OBVIOUS
      <4>. QED  BY <4>2, <4>3 DEF s
    <3>. QED  BY <1>2, <3>1, <3>2
  <2>. QED  BY <2>1, <2>2 DEF Place
<1>4. ASSUME NEW m \in DOMAIN s
      PROVE  /\ Len(out) + m \in 1..Len(new)
             /\ Place(seqs, n + 1, new, Len(out) + m, n + 1, m)
  <2>1. Len(out) + m \in 1..Len(new) /\ new[Len(out) + m] = s[m]
    BY <1>1, <1>2
  <2>2. ASSUME NEW q \in 1..Len(new), q > Len(out) + m
        PROVE  \E j \in 1..n + 1 : \E l \in DOMAIN seqs[j] :
                  new[q] = seqs[j][l] /\ (j > n + 1 \/ (j = n + 1 /\ l > m))
    <3>1. q - Len(out) \in 1..Len(s) /\ q - Len(out) > m
      BY <1>1, <1>2, <2>2
    <3>2. Len(out) + (q - Len(out)) = q /\ n + 1 \in 1..n + 1
      OBVIOUS
    <3>3. new[q] = s[q - Len(out)] /\ q - Len(out) \in DOMAIN s
      BY <1>1, <1>2, <3>1, <3>2
    <3>. QED  BY <3>1, <3>2, <3>3 DEF s
  <2>. QED  BY <2>1, <2>2 DEF Place, s
<1>5. ASSUME NEW p \in 1..Len(new)
      PROVE  \E i \in 1..n + 1 : \E m \in DOMAIN seqs[i] :
               Place(seqs, n + 1, new, p, i, m)
  <2>1. CASE p \in 1..Len(out)
    <3>1. PICK i \in 1..n : \E m \in DOMAIN seqs[i] : Place(seqs, n, out, p, i, m)
      BY <2>1 DEF Flat
    <3>. QED  BY <1>3, <2>1, <3>1
  <2>2. CASE p - Len(out) \in 1..Len(s)
    <3>1. Len(out) + (p - Len(out)) = p /\ n + 1 \in 1..n + 1
      OBVIOUS
    <3>2. p - Len(out) \in DOMAIN s
      BY <1>1, <2>2
    <3>3. Place(seqs, n + 1, new, p, n + 1, p - Len(out))
      BY <1>4, <3>1, <3>2
    <3>. QED  BY <3>1, <3>2, <3>3 DEF s
  <2>. QED  BY <1>2, <2>1, <2>2
<1>6. ASSUME NEW i \in 1..n + 1, NEW m \in DOMAIN seqs[i]
      PROVE  \E p \in 1..Len(new) : Place(seqs, n + 1, new, p, i, m)
  <2>1. CASE i = n + 1
    BY <1>4, <2>1 DEF s
  <2>2. CASE i \in 1..n
    <3>1. PICK p \in 1..Len(out) : Place(seqs, n, out, p, i, m)
      BY <2>2 DEF Flat
    <3>. QED  BY <1>3, <2>2, <3>1
  <2>3. i = n + 1 \/ i \in 1..n
    OBVIOUS
  <2>. QED  BY <2>1, <2>2, <2>3
<1>. QED  BY <1>2, <1>5, <1>6 DEF Flat, new, s

\* f is the iteration by which FlattenSeq is defined.
IsFlatten(f, seqs, n) ==
  f = [i \in 1..n |-> IF i = 1 THEN seqs[i] ELSE f[i - 1] \o seqs[i]]

\* What FlattenSeq makes of a sequence of sequences.
LEMMA FlattenIsFlat ==
  ASSUME NEW S, NEW seqs \in Seq(Seq(S))
  PROVE  FlattenSeq(seqs) \in Seq(S) /\ Flat(seqs, Len(seqs), FlattenSeq(seqs))
<1>. DEFINE N == Len(seqs)
<1>1. CASE N = 0
  <2>1. FlattenSeq(seqs) = <<>> /\ seqs = <<>>
    BY <1>1 DEF FlattenSeq
  <2>. QED  BY <1>1, <2>1 DEF Flat
<1>2. CASE N # 0
  <2>1. \A n \in Nat : \E f : IsFlatten(f, seqs, n)
    <3>. DEFINE T == {n \in Nat : \E f : IsFlatten(f, seqs, n)}
    <3>1. 0 \in T
      <4>1. IsFlatten([i \in 1..0 |-> seqs], seqs, 0)
        BY DEF IsFlatten
      <4>. QED  BY <4>1
    <3>2. ASSUME NEW n \in Nat, n \in T
          PROVE  n + 1 \in T
      <4>1. PICK f : IsFlatten(f, seqs, n)
        BY <3>2
      <4>. DEFINE g == [i \in 1..n + 1 |->
                          IF i <= n THEN f[i]
                          ELSE IF i = 1 THEN seqs[i] ELSE f[i - 1] \o seqs[i]]
      <4>2. IsFlatten(g, seqs, n + 1)
        <5>1. ASSUME NEW i \in 1..n + 1
              PROVE  g[i] = IF i = 1 THEN seqs[i] ELSE g[i - 1] \o seqs[i]
          <6>1. /\ f = [k \in 1..n |-> IF k = 1 THEN seqs[k] ELSE f[k - 1] \o seqs[k]]
                /\ n \in Nat
            BY <4>1 DEF IsFlatten
          <6>2. CASE i <= n
            <7>1. f[i] = IF i = 1 THEN seqs[i] ELSE f[i - 1] \o seqs[i]
              <8>1. i \in 1..n
                BY <6>1, <6>2
              <8>. QED  BY <6>1, <8>1
            <7>2. g[i] = f[i] /\ (i # 1 => g[i - 1] = f[i - 1])
              BY <6>2
            <7>. QED  BY <7>1, <7>2
          <6>3. CASE i = n + 1
            BY <6>3
          <6>. QED  BY <6>2, <6>3
        <5>. QED  BY <5>1 DEF IsFlatten
      <4>. QED  BY <4>2
    <3>. QED  BY <3>1, <3>2, NatInductive
  <2>. DEFINE flatten == CHOOSE f : IsFlatten(f, seqs, N)
  <2>2. IsFlatten(flatten, seqs, N)
    BY <2>1
  <2>3. FlattenSeq(seqs) = flatten[N]
    BY <1>2 DEF FlattenSeq, IsFlatten
  <2>. HIDE DEF flatten
  <2>4. \A n \in Nat : n \in 1..N => flatten[n] \in Seq(S) /\ Flat(seqs, n, flatten[n])
    <3>. DEFINE T == {n \in Nat : n \in 1..N =>
                        flatten[n] \in Seq(S) /\ Flat(seqs, n, flatten[n])}
    <3>1. 0 \in T
      OBVIOUS
    <3>2. ASSUME NEW n \in Nat, n \in T
          PROVE  n + 1 \in T
      <4>. SUFFICES ASSUME n + 1 \in 1..N
                    PROVE  /\ flatten[n + 1] \in Seq(S)
                           /\ Flat(seqs, n + 1, flatten[n + 1])
        OBVIOUS
      <4>1. CASE n = 0
        <5>1. flatten[1] = seqs[1] /\ seqs[1] \in Seq(S)
          BY <2>2, <4>1 DEF IsFlatten
        <5>2. Flat(seqs, 0, <<>>)
          BY DEF Flat
        <5>3. <<>> \o seqs[1] = seqs[1]
          BY <5>1
        <5>4. <<>> \in Seq(S) /\ 0 + 1 \in DOMAIN seqs /\ 0 \in Nat /\ 0 + 1 = 1
          BY <4>1
        <5>5. Flat(seqs, 0 + 1, <<>> \o seqs[0 + 1])
          BY <5>2, <5>4, FlatGrows
        <5>. QED  BY <4>1, <5>1, <5>3, <5>4, <5>5
      <4>2. CASE n # 0
        <5>1. flatten[n + 1] = flatten[n] \o seqs[n + 1]
          <6>1. n + 1 \in 1..N /\ n + 1 # 1 /\ (n + 1) - 1 = n
            BY <4>2
          <6>2. flatten[n + 1] = flatten[(n + 1) - 1] \o seqs[n + 1]
            BY <2>2, <6>1 DEF IsFlatten
          <6>. QED  BY <6>1, <6>2
        <5>. QED  BY <3>2, <4>2, <5>1, FlatGrows
      <4>. QED  BY <4>1, <4>2
    <3>. QED  BY <3>1, <3>2, NatInductive
  <2>. QED  BY <1>2, <2>3, <2>4
<1>. QED  BY <1>1, <1>2

-----------------------------------------------------------------------------
(* The map after a sequence of points: by the fold, and as the abstract one says. *)

\* r is the map m after the first n of the points ps.
IsUpdate(m, ps, n, r) ==
  /\ r = [k \in DOMAIN m \cup {Key(ps[i]) : i \in 1..n} |-> r[k]]
  /\ \A k \in DOMAIN r :
       \/ \E i \in 1..n : /\ Key(ps[i]) = k /\ r[k] = ps[i]
                          /\ \A j \in 1..n : Key(ps[j]) = k => j <= i
       \/ /\ \A j \in 1..n : Key(ps[j]) # k
          /\ r[k] = m[k]

\* f is the iteration of PutPoint over ps.
IsIter(f, m, ps, n) ==
  f = [s \in SUBSET (1..n) |->
         IF s = {} THEN m ELSE PutPoint(f[s \ {Max(s)}], ps[Max(s)])]

\* One point more.
LEMMA UpdateGrows ==
  ASSUME NEW m, NEW S, NEW ps \in Seq(S), NEW n \in Nat, NEW r, IsUpdate(m, ps, n, r)
  PROVE  IsUpdate(m, ps, n + 1, PutPoint(r, ps[n + 1]))
<1>. DEFINE p == ps[n + 1]
            u == PutPoint(r, p)
<1>1. DOMAIN r = DOMAIN m \cup {Key(ps[i]) : i \in 1..n}
  BY DEF IsUpdate
<1>2. 1..n + 1 = 1..n \cup {n + 1} /\ n + 1 \notin 1..n
  OBVIOUS
<1>3. u = [k \in DOMAIN r \cup {Key(p)} |-> IF k = Key(p) THEN p ELSE r[k]]
  BY DEF PutPoint
<1>. HIDE DEF u
<1>4. DOMAIN u = DOMAIN m \cup {Key(ps[i]) : i \in 1..n + 1}
  <2>1. DOMAIN u = DOMAIN r \cup {Key(p)}
    BY <1>3
  <2>2. {Key(ps[i]) : i \in 1..n + 1} = {Key(ps[i]) : i \in 1..n} \cup {Key(p)}
    BY <1>2
  <2>. QED  BY <1>1, <2>1, <2>2
<1>5. u = [k \in DOMAIN u |-> u[k]]
  BY <1>3
<1>6. ASSUME NEW k \in DOMAIN u
      PROVE  \/ \E i \in 1..n + 1 : /\ Key(ps[i]) = k /\ u[k] = ps[i]
                                    /\ \A j \in 1..n + 1 : Key(ps[j]) = k => j <= i
             \/ /\ \A j \in 1..n + 1 : Key(ps[j]) # k
                /\ u[k] = m[k]
  <2>1. CASE k = Key(p)
    <3>1. u[k] = ps[n + 1] /\ n + 1 \in 1..n + 1 /\ \A j \in 1..n + 1 : j <= n + 1
      BY <1>3, <2>1
    <3>. QED  BY <2>1, <3>1
  <2>2. CASE k # Key(p)
    <3>1. k \in DOMAIN r /\ u[k] = r[k]
      BY <1>3, <2>2
    <3>2. CASE \E i \in 1..n : /\ Key(ps[i]) = k /\ r[k] = ps[i]
                               /\ \A j \in 1..n : Key(ps[j]) = k => j <= i
      BY <1>2, <2>2, <3>1, <3>2
    <3>3. CASE (\A j \in 1..n : Key(ps[j]) # k) /\ r[k] = m[k]
      BY <1>2, <2>2, <3>1, <3>3
    <3>. QED  BY <3>1, <3>2, <3>3 DEF IsUpdate
  <2>. QED  BY <2>1, <2>2
<1>. QED  BY <1>4, <1>5, <1>6 DEF IsUpdate, u

\* Two maps that are an update by the same points are the same.
LEMMA UpdateIsUnique ==
  ASSUME NEW m, NEW ps, NEW n \in Nat, NEW r, NEW s,
         IsUpdate(m, ps, n, r), IsUpdate(m, ps, n, s)
  PROVE  r = s
<1>1. /\ DOMAIN r = DOMAIN s
      /\ r = [k \in DOMAIN r |-> r[k]] /\ s = [k \in DOMAIN s |-> s[k]]
  BY DEF IsUpdate
<1>2. ASSUME NEW k \in DOMAIN r PROVE r[k] = s[k]
  <2>1. CASE \E i \in 1..n : Key(ps[i]) = k
    <3>1. PICK i \in 1..n : /\ Key(ps[i]) = k /\ r[k] = ps[i]
                            /\ \A j \in 1..n : Key(ps[j]) = k => j <= i
      BY <2>1 DEF IsUpdate
    <3>2. PICK j \in 1..n : /\ Key(ps[j]) = k /\ s[k] = ps[j]
                            /\ \A l \in 1..n : Key(ps[l]) = k => l <= j
      BY <1>1, <2>1 DEF IsUpdate
    <3>3. i <= j /\ j <= i
      BY <3>1, <3>2
    <3>4. i = j
      BY <3>3
    <3>. QED  BY <3>1, <3>2, <3>4
  <2>2. CASE ~\E i \in 1..n : Key(ps[i]) = k
    BY <1>1, <2>2 DEF IsUpdate
  <2>. QED  BY <2>1, <2>2
<1>. QED  BY <1>1, <1>2

\* The fold of PutPoint over points is such an update.
LEMMA FoldIsUpdate ==
  ASSUME NEW m, m = [k \in DOMAIN m |-> m[k]], NEW S, NEW ps \in Seq(S)
  PROVE  IsUpdate(m, ps, Len(ps), FoldLeft(PutPoint, m, ps))
<1>. DEFINE N == Len(ps)
<1>1. N \in Nat /\ DOMAIN ps = 1..N
  OBVIOUS
<1>2. \A n \in Nat : \E f : IsIter(f, m, ps, n)
  <2>. DEFINE T == {n \in Nat : \E f : IsIter(f, m, ps, n)}
  <2>1. 0 \in T
    <3>1. IsIter([s \in SUBSET (1..0) |-> m], m, ps, 0)
      BY DEF IsIter
    <3>. QED  BY <3>1
  <2>2. ASSUME NEW n \in Nat, n \in T
        PROVE  n + 1 \in T
    <3>1. PICK f : IsIter(f, m, ps, n)
      BY <2>2
    <3>. DEFINE g == [s \in SUBSET (1..n + 1) |->
                        IF n + 1 \in s THEN PutPoint(f[s \ {n + 1}], ps[n + 1])
                        ELSE f[s]]
    <3>2. ASSUME NEW s \in SUBSET (1..n + 1)
          PROVE  g[s] = IF s = {} THEN m ELSE PutPoint(g[s \ {Max(s)}], ps[Max(s)])
      <4>1. CASE n + 1 \in s
        <5>1. Max(s) \in s /\ \A i \in s : i <= Max(s)
          BY <4>1, MaxIsLast
        <5>2. Max(s) = n + 1
          BY <4>1, <5>1
        <5>3. s \ {n + 1} \in SUBSET (1..n + 1) /\ n + 1 \notin s \ {n + 1}
          OBVIOUS
        <5>4. g[s \ {n + 1}] = f[s \ {n + 1}]
          BY <5>3
        <5>5. g[s] = PutPoint(f[s \ {n + 1}], ps[n + 1]) /\ s # {}
          BY <4>1
        <5>. QED  BY <5>2, <5>4, <5>5
      <4>2. CASE n + 1 \notin s
        <5>1. s \in SUBSET (1..n) /\ g[s] = f[s]
          BY <4>2
        <5>2. f[s] = IF s = {} THEN m ELSE PutPoint(f[s \ {Max(s)}], ps[Max(s)])
          BY <3>1, <5>1 DEF IsIter
        <5>3. s \ {Max(s)} \in SUBSET (1..n + 1) /\ n + 1 \notin s \ {Max(s)}
          BY <4>2
        <5>4. g[s \ {Max(s)}] = f[s \ {Max(s)}]
          BY <5>3
        <5>. QED  BY <5>1, <5>2, <5>4
      <4>. QED  BY <4>1, <4>2
    <3>3. IsIter(g, m, ps, n + 1)
      BY <3>2 DEF IsIter
    <3>. QED  BY <3>3
  <2>. QED  BY <2>1, <2>2, NatInductive
<1>. DEFINE iter == CHOOSE f : IsIter(f, m, ps, N)
<1>3. IsIter(iter, m, ps, N)
  BY <1>1, <1>2
<1>4. FoldLeft(PutPoint, m, ps) = iter[1..N]
  BY <1>1 DEF FoldLeft, MapThenFoldSet, IsIter
<1>. HIDE DEF iter
<1>5. \A n \in Nat : n <= N => IsUpdate(m, ps, n, iter[1..n])
  <2>. DEFINE T == {n \in Nat : n <= N => IsUpdate(m, ps, n, iter[1..n])}
  <2>1. 0 \in T
    <3>1. 1..0 = {} /\ {} \in SUBSET (1..N)
      OBVIOUS
    <3>2. iter[1..0] = m
      BY <1>3, <3>1 DEF IsIter
    <3>3. IsUpdate(m, ps, 0, m)
      BY <3>1 DEF IsUpdate
    <3>. QED  BY <3>2, <3>3
  <2>2. ASSUME NEW n \in Nat, n \in T
        PROVE  n + 1 \in T
    <3>. SUFFICES ASSUME n + 1 <= N
                  PROVE  IsUpdate(m, ps, n + 1, iter[1..n + 1])
      OBVIOUS
    <3>. DEFINE s == 1..n + 1
    <3>1. n + 1 \in s /\ s \in SUBSET (1..N) /\ s # {} /\ n <= N
      BY <1>1
    <3>2. Max(s) \in s /\ \A i \in s : i <= Max(s)
      <4>1. n + 1 \in Nat /\ s \subseteq 1..n + 1 /\ s # {}
        BY <3>1
      <4>. HIDE DEF s
      <4>. QED  BY <4>1, MaxIsLast
    <3>3. Max(s) = n + 1
      BY <3>1, <3>2
    <3>4. s \ {n + 1} = 1..n
      OBVIOUS
    <3>5. iter[s] = PutPoint(iter[s \ {Max(s)}], ps[Max(s)])
      BY <1>3, <3>1 DEF IsIter
    <3>6. iter[s] = PutPoint(iter[1..n], ps[n + 1])
      BY <3>3, <3>4, <3>5
    <3>. QED  BY <2>2, <3>1, <3>6, UpdateGrows
  <2>. QED  BY <2>1, <2>2, NatInductive
<1>. QED  BY <1>1, <1>4, <1>5

\* So is what QueryByQuery says of the map, and the two are the same.
LEMMA PutAllIsUpdated ==
  ASSUME NEW m, m = [k \in DOMAIN m |-> m[k]], NEW S, NEW ps \in Seq(S)
  PROVE  /\ FoldLeft(PutPoint, m, ps) = Asked!Updated(m, ps)
         /\ IsUpdate(m, ps, Len(ps), Asked!Updated(m, ps))
<1>. DEFINE N == Len(ps)
            new == {Key(ps[i]) : i \in DOMAIN ps}
            At(k) == {i \in 1..N : Key(ps[i]) = k}
            r == Asked!Updated(m, ps)
<1>1. N \in Nat /\ DOMAIN ps = 1..N
  OBVIOUS
<1>2. r = [k \in DOMAIN m \cup new |->
             IF k \in new THEN ps[IF At(k) # {} THEN Max(At(k)) ELSE 0] ELSE m[k]]
  BY DEF Asked!Updated, Asked!SelectLastInSeq, Asked!Key, Key, Asked!Max, Max
<1>3. IsUpdate(m, ps, N, r)
  <2>1. r = [k \in DOMAIN m \cup {Key(ps[i]) : i \in 1..N} |-> r[k]]
    BY <1>1, <1>2
  <2>2. ASSUME NEW k \in DOMAIN r
        PROVE  \/ \E i \in 1..N : /\ Key(ps[i]) = k /\ r[k] = ps[i]
                                  /\ \A j \in 1..N : Key(ps[j]) = k => j <= i
               \/ /\ \A j \in 1..N : Key(ps[j]) # k
                  /\ r[k] = m[k]
    <3>1. CASE At(k) # {}
      <4>1. Max(At(k)) \in At(k) /\ \A i \in At(k) : i <= Max(At(k))
        BY <1>1, <3>1, MaxIsLast
      <4>2. k \in new
        BY <1>1, <3>1
      <4>3. r[k] = ps[Max(At(k))]
        BY <1>2, <2>2, <3>1, <4>2
      <4>. QED  BY <4>1, <4>3
    <3>2. CASE At(k) = {}
      <4>1. k \notin new /\ \A j \in 1..N : Key(ps[j]) # k
        BY <1>1, <3>2
      <4>. QED  BY <1>2, <2>2, <4>1
    <3>. QED  BY <3>1, <3>2
  <2>. QED  BY <2>1, <2>2 DEF IsUpdate
<1>4. IsUpdate(m, ps, N, FoldLeft(PutPoint, m, ps))
  BY FoldIsUpdate
<1>. QED  BY <1>1, <1>3, <1>4, UpdateIsUnique

-----------------------------------------------------------------------------
(* The definitions of QueryByQuery. *)

\* The definitions of QueryByQuery are those of Probe: of the points of a cell,
LEMMA SamePoints ==
  ASSUME NEW m, NEW a, NEW n, NEW t
  PROVE  Asked!Points(m, a, n, t) = Points(m, a, n, t)
BY DEF Asked!Points, Points, Asked!SetToSeq, SetToSeq, Asked!IsInjective, IsInjective,
       Asked!Cardinality, Cardinality

\* of sequences joined,
LEMMA SameFlattenSeq == \A s : Asked!FlattenSeq(s) = FlattenSeq(s)
BY DEF Asked!FlattenSeq, FlattenSeq

\* of the row that a scan gives,
LEMMA SameRowMap == \A cells : Asked!RowMap(cells) = RowMap(cells)
BY DEF Asked!RowMap, RowMap, Asked!SelectLastInSeq, SelectLastInSeq, Asked!Max, Max

\* of the cells of a row,
LEMMA SameColumns ==
  ASSUME NEW row, NEW c
  PROVE  /\ Asked!asString(row, c) = asString(row, c)
         /\ Asked!toFloat(row, c) = toFloat(row, c)
         /\ Asked!pdbAttr(row) = pdbAttr(row)
BY DEF Asked!asString, asString, Asked!toFloat, toFloat, Asked!pdbAttr, pdbAttr,
       Asked!Attr, Attr, Asked!Cell, Cell, Asked!Null, Null

\* of the tables of the metric map,
LEMMA SameTables ==
  /\ Asked!sysstatCounters = sysstatCounters /\ Asked!sysstatGauges = sysstatGauges
  /\ Asked!resourceLimitMap = resourceLimitMap /\ Asked!sysmetricMap = sysmetricMap
  /\ Asked!osStatMap = osStatMap
  /\ Asked!cpuTimeStat = cpuTimeStat /\ Asked!sysstatIO = sysstatIO
  /\ Asked!SUM = SUM /\ Asked!GAUGE = GAUGE
<1>1. Asked!sysstatCounters = sysstatCounters /\ Asked!sysstatGauges = sysstatGauges
  BY DEF Asked!sysstatCounters, sysstatCounters, Asked!MapOf, MapOf,
         Asked!sysstatGauges, sysstatGauges
<1>2. Asked!resourceLimitMap = resourceLimitMap
  BY DEF Asked!resourceLimitMap, resourceLimitMap, Asked!MapOf, MapOf, Asked!Col, Col,
         Asked!UsageAndLimit, UsageAndLimit
<1>3. Asked!sysmetricMap = sysmetricMap /\ Asked!osStatMap = osStatMap
  BY DEF Asked!sysmetricMap, sysmetricMap, Asked!MapOf, MapOf, Asked!As, As,
         Asked!With, With, Asked!osStatMap, osStatMap
<1>4. Asked!sysstatIO = sysstatIO
  BY DEF Asked!sysstatIO, sysstatIO, Asked!MapOf, MapOf, Asked!IO, IO,
         Asked!Transferred, Transferred, Asked!Requests, Requests, Asked!SqlNet, SqlNet,
         Asked!Disk, Disk, Asked!Net, Net
<1>. QED  BY <1>1, <1>2, <1>3, <1>4 DEF Asked!cpuTimeStat, cpuTimeStat,
       Asked!SUM, SUM, Asked!GAUGE, GAUGE

\* The extractors, on a row.
LEMMA SamePointsOf ==
  ASSUME NEW q, NEW row
  PROVE  /\ Asked!PointsOf(q, row) = PointsOf(q, row)
         /\ Asked!extractSysmetric(row) = extractSysmetric(row)
<1>. USE SamePoints, SameColumns, SameTables
<1>1. Asked!extractSysmetric(row) = extractSysmetric(row)
  BY DEF Asked!extractSysmetric, extractSysmetric, Asked!Per, Per
<1>2. Asked!extractSysstat(row) = extractSysstat(row)
  BY DEF Asked!extractSysstat, extractSysstat, Asked!Per, Per
<1>3. Asked!extractSessionCount(row) = extractSessionCount(row)
  BY DEF Asked!extractSessionCount, extractSessionCount, Asked!Attr, Attr
<1>4. Asked!extractResourceLimits(row) = extractResourceLimits(row)
  BY SameFlattenSeq DEF Asked!extractResourceLimits, extractResourceLimits
<1>5. Asked!extractTablespace(row) = extractTablespace(row)
  BY DEF Asked!extractTablespace, extractTablespace, Asked!Attr, Attr,
     Asked!Product, Product, Asked!toFloat, toFloat, Asked!asString, asString,
     Asked!Cell, Cell, Asked!Null, Null, Asked!pdbAttr, pdbAttr,
     Asked!Points, Points, Asked!SetToSeq, SetToSeq, Asked!IsInjective,
     IsInjective, Asked!Cardinality, Cardinality, Asked!GAUGE, GAUGE
<1>6. Asked!extractSGA(row) = extractSGA(row)
  BY DEF Asked!extractSGA, extractSGA
<1>7. /\ Asked!extractDataDict(row) = extractDataDict(row)
      /\ Asked!extractStorage(row) = extractStorage(row)
      /\ Asked!extractOSStat(row) = extractOSStat(row)
      /\ Asked!extractRecycleBin(row) = extractRecycleBin(row)
  BY DEF Asked!extractDataDict, extractDataDict, Asked!extractStorage, extractStorage,
     Asked!toFloat, toFloat, Asked!asString, asString, Asked!Cell, Cell, Asked!Null, Null,
     Asked!extractOSStat, extractOSStat, Asked!extractRecycleBin, extractRecycleBin,
     Asked!Points, Points, Asked!SetToSeq, SetToSeq, Asked!IsInjective,
     IsInjective, Asked!Cardinality, Cardinality, Asked!GAUGE, GAUGE
<1>. QED  BY <1>1, <1>2, <1>3, <1>4, <1>5, <1>6, <1>7 DEF Asked!PointsOf, PointsOf

\* and of what a query makes of its rows.
LEMMA SameExpectedFor ==
  ASSUME NEW q, NEW rs, NEW ts
  PROVE  /\ Asked!ExpectedFor(q, rs) = ExpectedFor(q, rs)
         /\ Asked!ExpectedForSysmetricCDB(rs, ts) = ExpectedForSysmetricCDB(rs, ts)
<1>1. \A x : Asked!ExpectedFor(x, rs) = ExpectedFor(x, rs)
  BY SamePointsOf, SameFlattenSeq DEF Asked!ExpectedFor, ExpectedFor
<1>. QED  BY <1>1, SameColumns, SamePointsOf, SameFlattenSeq
          DEF Asked!ExpectedForSysmetricCDB, ExpectedForSysmetricCDB

-----------------------------------------------------------------------------
(* The tables of the metric map. *)

\* The metrics of the counters of v$sysstat,
CounterMetrics == {
  "oracledb.executions", "oracledb.parse_calls", "oracledb.hard_parses",
  "oracledb.enqueue_deadlocks", "oracledb.exchange_deadlocks", "oracledb.logons",
  "oracledb.user_commits", "oracledb.user_rollbacks", "oracledb.physical_reads",
  "oracledb.physical_reads_direct", "oracledb.physical_read_io_requests",
  "oracledb.physical_writes", "oracledb.physical_writes_direct",
  "oracledb.physical_write_io_requests", "oracledb.queries_parallelized",
  "oracledb.ddl_statements_parallelized", "oracledb.dml_statements_parallelized",
  "oracledb.parallel_operations_not_downgraded",
  "oracledb.parallel_operations_downgraded_to_serial",
  "oracledb.parallel_operations_downgraded_1_to_25_pct",
  "oracledb.parallel_operations_downgraded_25_to_50_pct",
  "oracledb.parallel_operations_downgraded_50_to_75_pct",
  "oracledb.parallel_operations_downgraded_75_to_99_pct",
  "oracledb.logical_reads", "oracledb.db_block_gets", "oracledb.consistent_gets" }

\* of its input and output,
IOMetrics == {
  "oracledb.physical_io.transferred", "oracledb.physical_io.requests",
  "oracledb.physical_io.cache_writes", "oracledb.sqlnet.io.transferred" }

\* of v$resource_limit,
LimitMetrics == {
  "oracledb.processes.usage", "oracledb.processes.limit", "oracledb.sessions.limit",
  "oracledb.enqueue_locks.usage", "oracledb.enqueue_locks.limit",
  "oracledb.dml_locks.usage", "oracledb.dml_locks.limit",
  "oracledb.enqueue_resources.usage", "oracledb.enqueue_resources.limit",
  "oracledb.transactions.usage", "oracledb.transactions.limit" }

\* and of v$sysmetric.
RatioMetrics == {
  "oracledb.buffer_cache.utilization", "oracledb.host.cpu.utilization",
  "oracledb.database.cpu.utilization", "oracledb.library_cache.utilization",
  "oracledb.shared_pool.utilization", "oracledb.database.wait.utilization",
  "oracledb.parse.utilization", "oracledb.redo_allocation.utilization",
  "oracledb.sql_service.response.duration", "oracledb.sort.ratio",
  "oracledb.parse.rate", "oracledb.execution.utilization" }

\* The metrics a query has points of.
MetricsOf(q) ==
  CASE q = "sysstat" ->
         CounterMetrics \cup IOMetrics \cup {"oracledb.cpu_time", "oracledb.pga_memory"}
    [] q = "session_count" -> {"oracledb.sessions.usage"}
    [] q = "resource_limits" -> LimitMetrics
    [] q = "tablespace" ->
         {"oracledb.tablespace_size.usage", "oracledb.tablespace_size.limit"}
    [] q = "sga" -> {"oracledb.sga.usage", "oracledb.sga.limit"}
    [] q = "data_dict" -> {"oracledb.data_dictionary.hit_ratio"}
    [] q = "storage" -> {"oracledb.storage.usage", "oracledb.storage.utilization"}
    [] q = "sysmetric" -> RatioMetrics
    [] q = "osstat" ->
         {"system.cpu.physical.count", "oracledb.system.cpu.load", "system.memory.limit"}
    [] q = "recycle_bin" -> {"oracledb.recycle_bin.limit"}

\* All queries.
QueryKeys == {AllQueryKeys[i] : i \in DOMAIN AllQueryKeys}

\* The ten queries, in their order.
LEMMA KeysAre ==
  /\ QueryKeys = {"sysstat", "session_count", "resource_limits", "tablespace", "sga",
                  "data_dict", "storage", "sysmetric", "osstat", "recycle_bin"}
  /\ DOMAIN AllQueryKeys = 1..10 /\ Len(AllQueryKeys) = 10
  /\ AllQueryKeys[8] = "sysmetric"
  /\ \A i, j \in 1..10 : AllQueryKeys[i] = AllQueryKeys[j] => i = j
BY DEF QueryKeys, AllQueryKeys

\* The entry of a table for a name is one of its pairs.
LEMMA MapIs ==
  ASSUME NEW pairs, NEW n \in DOMAIN MapOf(pairs)
  PROVE  \E p \in pairs : p[1] = n /\ p[2] = MapOf(pairs)[n]
BY DEF MapOf

\* Every statistic of sysstatCounters has a metric of its own.
LEMMA CountersAre ==
  /\ \A n \in DOMAIN sysstatCounters :
       sysstatCounters[n] \in CounterMetrics /\ n # cpuTimeStat
  /\ \A n, m \in DOMAIN sysstatCounters : sysstatCounters[n] = sysstatCounters[m] => n = m
<1>1. \A n \in DOMAIN sysstatCounters : sysstatCounters[n] \in CounterMetrics
  BY MapIs DEF sysstatCounters, CounterMetrics
<1>3. \A n \in DOMAIN sysstatCounters : n # cpuTimeStat
  BY MapIs DEF sysstatCounters, cpuTimeStat
<1>2. \A n, m \in DOMAIN sysstatCounters :
        sysstatCounters[n] = sysstatCounters[m] => n = m
  BY MapIs DEF sysstatCounters
<1>. QED  BY <1>1, <1>2, <1>3

\* The one gauge of v$sysstat.
LEMMA GaugesAre ==
  /\ DOMAIN sysstatGauges = {"session_pga_memory"}
  /\ sysstatGauges["session_pga_memory"] = "oracledb.pga_memory"
BY DEF sysstatGauges, MapOf

\* The columns a name of resourceLimitMap stands for: one, or a usage and a limit.
IsLimits(n, cols) ==
  \/ n = "sessions" /\ cols = << Col("oracledb.sessions.limit", "LIMIT_VALUE") >>
  \/ /\ n = "processes"
     /\ cols = UsageAndLimit("oracledb.processes.usage", "oracledb.processes.limit")
  \/ /\ n = "enqueue_locks"
     /\ cols = UsageAndLimit("oracledb.enqueue_locks.usage",
                             "oracledb.enqueue_locks.limit")
  \/ /\ n = "dml_locks"
     /\ cols = UsageAndLimit("oracledb.dml_locks.usage", "oracledb.dml_locks.limit")
  \/ /\ n = "enqueue_resources"
     /\ cols = UsageAndLimit("oracledb.enqueue_resources.usage",
                             "oracledb.enqueue_resources.limit")
  \/ /\ n = "transactions"
     /\ cols = UsageAndLimit("oracledb.transactions.usage", "oracledb.transactions.limit")

\* No two entries of resourceLimitMap share a metric.
LEMMA LimitsAre ==
  /\ \A n \in DOMAIN resourceLimitMap :
       LET cols == resourceLimitMap[n]
       IN  /\ cols \in Seq({cols[i] : i \in DOMAIN cols})
           /\ \A i \in DOMAIN cols : cols[i].metric \in LimitMetrics
           /\ \A i, j \in DOMAIN cols : cols[i].metric = cols[j].metric => i = j
  /\ \A n, o \in DOMAIN resourceLimitMap :
       \A i \in DOMAIN resourceLimitMap[n] : \A j \in DOMAIN resourceLimitMap[o] :
         resourceLimitMap[n][i].metric = resourceLimitMap[o][j].metric => n = o
<1>1. ASSUME NEW n \in DOMAIN resourceLimitMap
      PROVE  IsLimits(n, resourceLimitMap[n])
  <2>1. PICK pairs : /\ resourceLimitMap = MapOf(pairs)
                     /\ \A p \in pairs : IsLimits(p[1], p[2])
    BY DEF resourceLimitMap, IsLimits
  <2>. QED  BY <2>1, MapIs
<1>2. ASSUME NEW n, NEW cols, IsLimits(n, cols)
      PROVE  /\ cols \in Seq({cols[i] : i \in DOMAIN cols})
             /\ \A i \in DOMAIN cols : cols[i].metric \in LimitMetrics
             /\ \A i, j \in DOMAIN cols : cols[i].metric = cols[j].metric => i = j
  BY <1>2 DEF IsLimits, UsageAndLimit, Col, LimitMetrics
<1>3. ASSUME NEW n, NEW cols, IsLimits(n, cols), NEW o, NEW dols, IsLimits(o, dols),
             NEW i \in DOMAIN cols, NEW j \in DOMAIN dols,
             cols[i].metric = dols[j].metric
      PROVE  n = o
  BY <1>3 DEF IsLimits, UsageAndLimit, Col
<1>4. ASSUME NEW n \in DOMAIN resourceLimitMap, NEW o \in DOMAIN resourceLimitMap,
             NEW i \in DOMAIN resourceLimitMap[n], NEW j \in DOMAIN resourceLimitMap[o],
             resourceLimitMap[n][i].metric = resourceLimitMap[o][j].metric
      PROVE  n = o
  BY <1>1, <1>3, <1>4
<1>. QED  BY <1>1, <1>2, <1>4

\* No two entries of sysmetricMap share a metric, and none has the empty name.
LEMMA RatiosAre ==
  /\ \A n \in DOMAIN sysmetricMap :
       sysmetricMap[n].metric \in RatioMetrics /\ sysmetricMap[n].per \in {1, 100} /\ n # ""
  /\ \A n, m \in DOMAIN sysmetricMap :
       sysmetricMap[n].metric = sysmetricMap[m].metric => n = m
<1>1. \A n \in DOMAIN sysmetricMap : sysmetricMap[n].metric \in RatioMetrics
  BY MapIs DEF sysmetricMap, As, With, RatioMetrics
<1>3. \A n \in DOMAIN sysmetricMap : sysmetricMap[n].per \in {1, 100}
  BY MapIs DEF sysmetricMap, As, With
<1>4. "" \notin DOMAIN sysmetricMap
  <2>. DEFINE N == {"Buffer_Cache_Hit_Ratio", "Host_CPU_Utilization_(%)",
         "Database_CPU_Time_Ratio", "Library_Cache_Hit_Ratio", "Shared_Pool_Free_%",
         "Database_Wait_Time_Ratio", "Soft_Parse_Ratio", "Redo_Allocation_Hit_Ratio",
         "SQL_Service_Response_Time", "Memory_Sorts_Ratio",
         "Parse_Failure_Count_Per_Sec", "Execute_Without_Parse_Ratio"}
  <2>1. DOMAIN sysmetricMap \subseteq N
    BY MapIs DEF sysmetricMap
  <2>2. "" \notin N
    BY Zenon
  <2>. QED  BY <2>1, <2>2, Zenon
<1>2. \A n, m \in DOMAIN sysmetricMap :
        sysmetricMap[n].metric = sysmetricMap[m].metric => n = m
  BY MapIs DEF sysmetricMap, As, With
<1>5. \A n \in DOMAIN sysmetricMap : n # ""
  BY <1>4, Zenon
<1>. QED  BY <1>1, <1>2, <1>3, <1>5, Zenon

\* No two entries of osStatMap share a metric.
LEMMA OsAre ==
  /\ \A n \in DOMAIN osStatMap : osStatMap[n] \in MetricsOf("osstat")
  /\ \A n, m \in DOMAIN osStatMap : osStatMap[n] = osStatMap[m] => n = m
<1>1. \A n \in DOMAIN osStatMap : osStatMap[n] \in MetricsOf("osstat")
  BY MapIs DEF osStatMap, MetricsOf
<1>3. \A n, m \in DOMAIN osStatMap : osStatMap[n] = osStatMap[m] => n = m
  BY MapIs DEF osStatMap
<1>. QED  BY <1>1, <1>3

\* No metric is of two queries.
LEMMA OneHome ==
  ASSUME NEW q \in QueryKeys, NEW r \in QueryKeys, NEW x \in MetricsOf(q), x \in MetricsOf(r)
  PROVE  q = r
BY KeysAre DEF MetricsOf, CounterMetrics, IOMetrics, LimitMetrics, RatioMetrics

\* All gauges, by name.
LEMMA GaugesNamed ==
  gaugeMetrics \subseteq
    {"oracledb.pga_memory"} \cup LimitMetrics \cup RatioMetrics
      \cup {"oracledb.sessions.usage", "oracledb.tablespace_size.usage",
          "oracledb.tablespace_size.limit", "oracledb.sga.usage",
          "oracledb.sga.limit", "oracledb.data_dictionary.hit_ratio",
          "oracledb.storage.usage", "oracledb.storage.utilization",
          "oracledb.system.cpu.load", "system.cpu.physical.count",
          "system.memory.limit", "oracledb.recycle_bin.limit"}
<1>1. Range(sysstatGauges) \subseteq {"oracledb.pga_memory"}
  BY GaugesAre DEF Range
<1>2. UNION {{cols[i].metric : i \in DOMAIN cols} : cols \in Range(resourceLimitMap)}
        \subseteq LimitMetrics
  <2>1. ASSUME NEW cols \in Range(resourceLimitMap), NEW i \in DOMAIN cols
        PROVE  cols[i].metric \in LimitMetrics
    <3>1. PICK n \in DOMAIN resourceLimitMap : cols = resourceLimitMap[n]
      BY DEF Range
    <3>. QED  BY <3>1, LimitsAre
  <2>. QED  BY <2>1
<1>3. {e.metric : e \in Range(sysmetricMap)} \subseteq RatioMetrics
  <2>1. ASSUME NEW e \in Range(sysmetricMap) PROVE e.metric \in RatioMetrics
    <3>1. PICK n \in DOMAIN sysmetricMap : e = sysmetricMap[n]
      BY DEF Range
    <3>. QED  BY <3>1, RatiosAre
  <2>. QED  BY <2>1
<1>. QED  BY <1>1, <1>2, <1>3, Zenon DEF gaugeMetrics

\* The metrics of sysstatIO.
LEMMA IOAre ==
  \A n \in DOMAIN sysstatIO : sysstatIO[n].metric \in IOMetrics
BY MapIs DEF sysstatIO, IO, Transferred, Requests, SqlNet, IOMetrics

\* The ingest check takes every metric of a counter for a counter,
LEMMA SumTypes ==
  /\ \A n \in DOMAIN sysstatCounters : ValueTypeOf(sysstatCounters[n]) = SUM
  /\ \A n \in DOMAIN sysstatIO : ValueTypeOf(sysstatIO[n].metric) = SUM
  /\ ValueTypeOf("oracledb.cpu_time") = SUM
<1>1. ASSUME NEW x \in CounterMetrics \cup IOMetrics \cup {"oracledb.cpu_time"}
      PROVE  x \notin gaugeMetrics
  BY GaugesNamed DEF CounterMetrics, IOMetrics, LimitMetrics, RatioMetrics
<1>2. ASSUME NEW x \in CounterMetrics \cup IOMetrics \cup {"oracledb.cpu_time"},
             x \in sumMetrics
      PROVE  ValueTypeOf(x) = SUM
  BY <1>1, <1>2 DEF ValueTypeOf
<1>3. \A n \in DOMAIN sysstatCounters : sysstatCounters[n] \in sumMetrics
  BY DEF sumMetrics, Range
<1>4. \A n \in DOMAIN sysstatIO : sysstatIO[n].metric \in sumMetrics
  BY DEF sumMetrics, Range
<1>5. "oracledb.cpu_time" \in sumMetrics
  BY DEF sumMetrics
<1>. QED  BY <1>2, <1>3, <1>4, <1>5, CountersAre, IOAre

\* and every metric of a gauge for a gauge.
LEMMA GaugeTypes ==
  /\ \A n \in DOMAIN sysstatGauges : ValueTypeOf(sysstatGauges[n]) = GAUGE
  /\ \A n \in DOMAIN resourceLimitMap : \A i \in DOMAIN resourceLimitMap[n] :
       ValueTypeOf(resourceLimitMap[n][i].metric) = GAUGE
  /\ \A n \in DOMAIN sysmetricMap : ValueTypeOf(sysmetricMap[n].metric) = GAUGE
  /\ \A n \in DOMAIN osStatMap : ValueTypeOf(osStatMap[n]) = GAUGE
  /\ \A q \in {"session_count", "tablespace", "sga", "data_dict", "storage",
               "recycle_bin"} :
       \A x \in MetricsOf(q) : ValueTypeOf(x) = GAUGE
<1>1. \A x \in gaugeMetrics : ValueTypeOf(x) = GAUGE
  BY DEF ValueTypeOf
<1>. DEFINE limits == UNION {{cols[i].metric : i \in DOMAIN cols} :
                              cols \in Range(resourceLimitMap)}
            ratios == {e.metric : e \in Range(sysmetricMap)}
            others == {"oracledb.sessions.usage", "oracledb.tablespace_size.usage",
                       "oracledb.tablespace_size.limit", "oracledb.sga.usage",
                       "oracledb.sga.limit", "oracledb.data_dictionary.hit_ratio",
                       "oracledb.storage.usage", "oracledb.storage.utilization",
                       "oracledb.system.cpu.load", "system.cpu.physical.count",
                       "system.memory.limit", "oracledb.recycle_bin.limit"}
<1>7. gaugeMetrics = Range(sysstatGauges) \cup limits \cup ratios \cup others
  BY Zenon DEF gaugeMetrics
<1>2. \A n \in DOMAIN sysstatGauges : sysstatGauges[n] \in gaugeMetrics
  BY <1>7 DEF Range
<1>3. \A n \in DOMAIN resourceLimitMap : \A i \in DOMAIN resourceLimitMap[n] :
        resourceLimitMap[n][i].metric \in gaugeMetrics
  <2>1. ASSUME NEW n \in DOMAIN resourceLimitMap, NEW i \in DOMAIN resourceLimitMap[n]
        PROVE  resourceLimitMap[n][i].metric \in limits
    <3>. DEFINE cols == resourceLimitMap[n]
    <3>1. cols \in Range(resourceLimitMap)
      BY DEF Range
    <3>2. cols[i].metric \in {cols[j].metric : j \in DOMAIN cols}
      OBVIOUS
    <3>. QED  BY <3>1, <3>2
  <2>. HIDE DEF limits, ratios, others
  <2>. QED  BY <1>7, <2>1
<1>4. \A n \in DOMAIN sysmetricMap : sysmetricMap[n].metric \in gaugeMetrics
  <2>1. ASSUME NEW n \in DOMAIN sysmetricMap PROVE sysmetricMap[n].metric \in ratios
    <3>1. sysmetricMap[n] \in Range(sysmetricMap)
      BY DEF Range
    <3>. QED  BY <3>1
  <2>. HIDE DEF limits, ratios, others
  <2>. QED  BY <1>7, <2>1
<1>5. \A n \in DOMAIN osStatMap : osStatMap[n] \in gaugeMetrics
  <2>1. MetricsOf("osstat") \subseteq others
    BY DEF MetricsOf
  <2>. HIDE DEF limits, ratios, others
  <2>. QED  BY <1>7, <2>1, OsAre
<1>6. ASSUME NEW q \in {"session_count", "tablespace", "sga", "data_dict", "storage",
                        "recycle_bin"},
             NEW x \in MetricsOf(q)
      PROVE  x \in gaugeMetrics
  <2>1. x \in others
    BY DEF MetricsOf
  <2>. HIDE DEF limits, ratios, others
  <2>. QED  BY <1>7, <2>1
<1>. QED  BY <1>1, <1>2, <1>3, <1>4, <1>5, <1>6


-----------------------------------------------------------------------------
(* Rows with one number or none in a cell, and the points made of them. *)

\* One number or none.
IsNum(ns) == ns = {} \/ \E n \in Int : ns = {n}
\* A row with one number or none in each column.
GoodRow(row) == \A c : IsNum(toFloat(row, c))
\* A sequence, of whatever.
IsSeq(s) == \E S : s \in Seq(S)

\* A point of a metric of q, of the type the ingest check gives the metric.
Fits(q, p) ==
  /\ p = [metric |-> p.metric, attrs |-> p.attrs, value |-> p.value, type |-> p.type]
  /\ p.metric \in MetricsOf(q) /\ p.value \in Int
  /\ p.type = ValueTypeOf(p.metric)

\* A sequence of such points.
FitSeq(q, ps) == IsSeq(ps) /\ \A i \in DOMAIN ps : Fits(q, ps[i])

\* At most one point of a metric.
LEMMA PointsAre ==
  ASSUME NEW metric, NEW attrs, NEW nums, NEW type, IsNum(nums)
  PROVE  LET ps == Points(metric, attrs, nums, type)
         IN  /\ IsSeq(ps) /\ DOMAIN ps = IF nums = {} THEN {} ELSE {1}
             /\ nums = {} => ps = <<>>
             /\ \A i \in DOMAIN ps : \E n \in nums :
                  /\ n \in Int
                  /\ ps[i] = [metric |-> metric, attrs |-> attrs, value |-> n, type |-> type]
<1>. DEFINE ps == Points(metric, attrs, nums, type)
            P(n) == [metric |-> metric, attrs |-> attrs, value |-> n, type |-> type]
<1>1. CASE nums = {}
  <2>1. ps = SetToSeq({})
    BY <1>1 DEF Points
  <2>2. ps = <<>>
    BY <2>1, ShortSets
  <2>3. <<>> \in Seq({})
    OBVIOUS
  <2>. HIDE DEF ps
  <2>4. IsSeq(ps)
    BY <2>2, <2>3 DEF IsSeq
  <2>5. DOMAIN ps = {}
    BY <2>2
  <2>. QED  BY <1>1, <2>2, <2>4, <2>5 DEF ps
<1>2. CASE nums # {}
  <2>1. PICK n \in Int : nums = {n}
    BY <1>2 DEF IsNum
  <2>2. {P(m) : m \in nums} = {P(n)}
    BY <2>1
  <2>3. ps = <<P(n)>>
    BY <2>2, ShortSets DEF Points
  <2>4. <<P(n)>> \in Seq({P(n)})
    OBVIOUS
  <2>. HIDE DEF ps
  <2>5. IsSeq(ps)
    BY <2>3, <2>4 DEF IsSeq
  <2>6. DOMAIN ps = {1} /\ ps[1] = P(n)
    BY <2>3
  <2>. QED  BY <1>2, <2>1, <2>5, <2>6 DEF ps
<1>. QED  BY <1>1, <1>2

\* The points of a cell fit, if they have the type of their metric;
LEMMA FitPoints ==
  ASSUME NEW q, NEW metric \in MetricsOf(q), NEW attrs, NEW nums, IsNum(nums)
  PROVE  /\ ValueTypeOf(metric) = SUM => FitSeq(q, Points(metric, attrs, nums, SUM))
         /\ ValueTypeOf(metric) = GAUGE => FitSeq(q, Points(metric, attrs, nums, GAUGE))
<1>1. ASSUME NEW type, ValueTypeOf(metric) = type
      PROVE  FitSeq(q, Points(metric, attrs, nums, type))
  <2>. DEFINE ps == Points(metric, attrs, nums, type)
  <2>1. IsSeq(ps)
    BY PointsAre
  <2>2. ASSUME NEW i \in DOMAIN ps PROVE Fits(q, ps[i])
    <3>1. PICK n \in Int :
            ps[i] = [metric |-> metric, attrs |-> attrs, value |-> n, type |-> type]
      BY PointsAre
    <3>. QED  BY <1>1, <3>1 DEF Fits
  <2>. QED  BY <2>1, <2>2 DEF FitSeq
<1>. QED  BY <1>1

\* sequences that fit, fit one after the other,
LEMMA FitConcat ==
  ASSUME NEW q, NEW ps, FitSeq(q, ps), NEW qs, FitSeq(q, qs)
  PROVE  FitSeq(q, ps \o qs)
<1>1. PICK S : ps \in Seq(S)
  BY DEF FitSeq, IsSeq
<1>2. PICK T : qs \in Seq(T)
  BY DEF FitSeq, IsSeq
<1>. DEFINE U == S \cup T
<1>3. ps \in Seq(U) /\ qs \in Seq(U)
  BY <1>1, <1>2
<1>. HIDE DEF U
<1>4. ps \o qs \in Seq(U)
  BY <1>3
<1>5. ASSUME NEW i \in DOMAIN (ps \o qs)
      PROVE  \/ i \in DOMAIN ps /\ (ps \o qs)[i] = ps[i]
             \/ i - Len(ps) \in DOMAIN qs /\ (ps \o qs)[i] = qs[i - Len(ps)]
  BY <1>3
<1>. QED  BY <1>4, <1>5 DEF FitSeq, IsSeq

\* A sequence of sequences, all of which have elements of one set.
LEMMA SeqOfSeqs ==
  ASSUME NEW seqs, IsSeq(seqs), \A i \in DOMAIN seqs : IsSeq(seqs[i])
  PROVE  \E S : seqs \in Seq(Seq(S))
<1>. DEFINE S == UNION {{seqs[i][m] : m \in DOMAIN seqs[i]} : i \in DOMAIN seqs}
<1>1. \A i \in DOMAIN seqs : seqs[i] \in Seq(S)
  <2>1. ASSUME NEW i \in DOMAIN seqs PROVE seqs[i] \in Seq(S)
    <3>1. PICK T : seqs[i] \in Seq(T)
      BY DEF IsSeq
    <3>2. \A m \in DOMAIN seqs[i] : seqs[i][m] \in S
      OBVIOUS
    <3>. HIDE DEF S
    <3>. QED  BY <3>1, <3>2
  <2>. QED  BY <2>1
<1>2. PICK T : seqs \in Seq(T)
  BY DEF IsSeq
<1>. HIDE DEF S
<1>3. seqs \in Seq(Seq(S))
  BY <1>1, <1>2
<1>. QED  BY <1>3

\* any number of them.
LEMMA FitFlatten ==
  ASSUME NEW q, NEW seqs, IsSeq(seqs), \A i \in DOMAIN seqs : FitSeq(q, seqs[i])
  PROVE  FitSeq(q, FlattenSeq(seqs))
<1>1. PICK S : seqs \in Seq(Seq(S))
  BY SeqOfSeqs DEF FitSeq
<1>. DEFINE f == FlattenSeq(seqs)
<1>2. f \in Seq(S) /\ Flat(seqs, Len(seqs), f)
  BY <1>1, FlattenIsFlat
<1>. HIDE DEF f
<1>3. DOMAIN f = 1..Len(f) /\ DOMAIN seqs = 1..Len(seqs)
  BY <1>1, <1>2
<1>4. ASSUME NEW p \in DOMAIN f PROVE Fits(q, f[p])
  <2>1. PICK i \in DOMAIN seqs : \E m \in DOMAIN seqs[i] : f[p] = seqs[i][m]
    <3>1. p \in 1..Len(f)
      BY <1>3
    <3>2. PICK i \in 1..Len(seqs) : \E m \in DOMAIN seqs[i] : f[p] = seqs[i][m]
      BY <1>2, <3>1 DEF Flat, Place
    <3>. QED  BY <1>3, <3>2
  <2>. QED  BY <2>1 DEF FitSeq
<1>. QED  BY <1>2, <1>4 DEF FitSeq, IsSeq, f

\* A set of integers that are all the same.
LEMMA OneNumber ==
  ASSUME NEW ns, \A m, n \in ns : m \in Int /\ m = n
  PROVE  IsNum(ns)
<1>1. CASE ns = {}
  BY <1>1 DEF IsNum
<1>2. CASE ns # {}
  <2>1. PICK n \in ns : TRUE
    BY <1>2
  <2>2. ns = {n} /\ n \in Int
    BY <2>1
  <2>. QED  BY <2>2 DEF IsNum
<1>. QED  BY <1>1, <1>2

\* The cell of a column is the last scanned under its name.
LEMMA RowMapIs ==
  ASSUME NEW S, NEW cells \in Seq(S), NEW c \in DOMAIN RowMap(cells)
  PROVE  \E i \in DOMAIN cells : cells[i][1] = c /\ RowMap(cells)[c] = cells[i][2]
<1>. DEFINE n == Len(cells)
            I == {i \in 1..n : cells[i][1] = c}
<1>1. n \in Nat /\ DOMAIN cells = 1..n
  OBVIOUS
<1>2. c \in {cells[i][1] : i \in DOMAIN cells}
  BY DEF RowMap
<1>3. RowMap(cells)[c] = cells[IF I # {} THEN Max(I) ELSE 0][2]
  BY <1>2 DEF RowMap, SelectLastInSeq
<1>4. I # {} /\ I \subseteq 1..n
  BY <1>1, <1>2
<1>. HIDE DEF n
<1>5. Max(I) \in I
  BY <1>1, <1>4, MaxIsLast
<1>. QED  BY <1>1, <1>3, <1>4, <1>5

\* A row scanned has one number or none in each of its columns.
LEMMA RowsAreGood ==
  ASSUME NEW d \in Databases, NEW st \in AllStatements, NEW i \in DOMAIN d[st]
  PROVE  GoodRow(RowMap(d[st][i]))
<1>. DEFINE cells == d[st][i]
            Cells == STRING \X [text : STRING, num : SUBSET Int]
<1>1. /\ d[st] \in Seq(Seq(Cells))
      /\ \A c \in DOMAIN cells : IsCell(cells[c][2])
  BY DatabasesAssumption
<1>. HIDE DEF Cells
<1>2. cells \in Seq(Cells)
  BY <1>1
<1>. HIDE DEF cells
<1>3. ASSUME NEW c PROVE IsNum(toFloat(RowMap(cells), c))
  <2>1. CASE c \in DOMAIN RowMap(cells)
    <3>1. PICK j \in DOMAIN cells : RowMap(cells)[c] = cells[j][2]
      BY <1>2, <2>1, RowMapIs
    <3>2. toFloat(RowMap(cells), c) = cells[j][2].num
      BY <2>1, <3>1 DEF toFloat, Cell
    <3>3. \A m, n \in cells[j][2].num : m \in Int /\ m = n
      BY <1>1 DEF IsCell, cells
    <3>. QED  BY <3>2, <3>3, OneNumber
  <2>2. CASE c \notin DOMAIN RowMap(cells)
    <3>1. toFloat(RowMap(cells), c) = {}
      BY <2>2 DEF toFloat, Cell, Null
    <3>. QED  BY <3>1 DEF IsNum
  <2>. QED  BY <2>1, <2>2
<1>. QED  BY <1>3 DEF GoodRow, cells

\* The arithmetic of the extractors keeps one number one number.
LEMMA PerIsNum ==
  ASSUME NEW ms, IsNum(ms), NEW d \in {1, 100}
  PROVE  IsNum(Per(ms, d))
<1>1. \A m \in Int : m \div d \in Int
  OBVIOUS
<1>2. \A m, n \in Per(ms, d) : m \in Int /\ m = n
  BY <1>1 DEF IsNum, Per
<1>. QED  BY <1>2, OneNumber

\* A product of two numbers (tablespace blocks and their size),
LEMMA ProductIsNum ==
  ASSUME NEW ms, NEW ns, IsNum(ms), IsNum(ns)
  PROVE  IsNum(Product(ms, ns))
<1>1. \A m, n \in Int : m * n \in Int
  OBVIOUS
<1>2. \A m, n \in Product(ms, ns) : m \in Int /\ m = n
  BY <1>1 DEF IsNum, Product
<1>. QED  BY <1>2, OneNumber

\* and a quotient (the storage in use).
LEMMA RatioIsNum ==
  ASSUME NEW ms, NEW ns, IsNum(ms), IsNum(ns)
  PROVE  IsNum({u \div a : u \in ms, a \in {n \in ns : n > 0}})
<1>. DEFINE qs == {u \div a : u \in ms, a \in {n \in ns : n > 0}}
<1>1. \A m, n \in Int : n > 0 => m \div n \in Int
  OBVIOUS
<1>2. \A m, n \in qs : m \in Int /\ m = n
  BY <1>1 DEF IsNum
<1>. HIDE DEF qs
<1>3. IsNum(qs)
  BY <1>2, OneNumber
<1>. QED  BY <1>3 DEF qs

\* No points fit.
LEMMA EmptyFits == ASSUME NEW q PROVE FitSeq(q, <<>>)
<1>1. <<>> \in Seq({}) /\ DOMAIN <<>> = {}
  OBVIOUS
<1>. QED  BY <1>1 DEF FitSeq, IsSeq

\* No two points of ps are of one metric.
Distinct(ps) == \A i, j \in DOMAIN ps : ps[i].metric = ps[j].metric => i = j

\* No two of no points are of one metric.
LEMMA EmptyIsDistinct == Distinct(<<>>)
BY DEF Distinct

\* The points of one metric.
LEMMA OneKind ==
  ASSUME NEW q, NEW metric \in MetricsOf(q), NEW attrs, NEW nums, IsNum(nums),
         NEW type \in {SUM, GAUGE}, ValueTypeOf(metric) = type
  PROVE  LET ps == Points(metric, attrs, nums, type)
         IN  /\ FitSeq(q, ps) /\ Distinct(ps)
             /\ \A i \in DOMAIN ps : ps[i].metric = metric /\ ps[i].attrs = attrs
<1>. DEFINE ps == Points(metric, attrs, nums, type)
<1>1. FitSeq(q, ps)
  BY FitPoints
<1>2. DOMAIN ps \subseteq {1}
  BY PointsAre
<1>3. ASSUME NEW i \in DOMAIN ps
      PROVE  ps[i].metric = metric /\ ps[i].attrs = attrs
  <2>1. PICK n : ps[i] = [metric |-> metric, attrs |-> attrs, value |-> n, type |-> type]
    BY PointsAre
  <2>. QED  BY <2>1
<1>. HIDE DEF ps
<1>4. Distinct(ps)
  BY <1>2 DEF Distinct
<1>. QED  BY <1>1, <1>3, <1>4 DEF ps

\* Points of one metric before points of another.
LEMMA TwoKinds ==
  ASSUME NEW q, NEW ps, FitSeq(q, ps), Distinct(ps), NEW qs, FitSeq(q, qs), Distinct(qs),
         \A i \in DOMAIN ps : \A j \in DOMAIN qs : ps[i].metric # qs[j].metric
  PROVE  /\ FitSeq(q, ps \o qs) /\ Distinct(ps \o qs)
         /\ \A i \in DOMAIN (ps \o qs) :
              \/ \E j \in DOMAIN ps : (ps \o qs)[i] = ps[j]
              \/ \E j \in DOMAIN qs : (ps \o qs)[i] = qs[j]
<1>. DEFINE r == ps \o qs
<1>1. FitSeq(q, r)
  BY FitConcat
<1>2. PICK S, T : ps \in Seq(S) /\ qs \in Seq(T)
  BY DEF FitSeq, IsSeq
<1>. DEFINE U == S \cup T
<1>3. ps \in Seq(U) /\ qs \in Seq(U)
  BY <1>2
<1>. HIDE DEF U
<1>4. ASSUME NEW i \in DOMAIN r
      PROVE  \/ i \in DOMAIN ps /\ r[i] = ps[i]
             \/ i - Len(ps) \in DOMAIN qs /\ r[i] = qs[i - Len(ps)]
  BY <1>3
<1>5. Len(ps) \in Nat /\ DOMAIN r \subseteq Int
  BY <1>3
<1>. HIDE DEF r
<1>6. ASSUME NEW i \in DOMAIN r, NEW j \in DOMAIN r, r[i].metric = r[j].metric
      PROVE  i = j
  <2>1. CASE i \in DOMAIN ps /\ r[i] = ps[i]
    <3>1. j \in DOMAIN ps /\ r[j] = ps[j]
      BY <1>4, <1>6, <2>1
    <3>. QED  BY <1>6, <2>1, <3>1 DEF Distinct
  <2>2. CASE i - Len(ps) \in DOMAIN qs /\ r[i] = qs[i - Len(ps)]
    <3>1. j - Len(ps) \in DOMAIN qs /\ r[j] = qs[j - Len(ps)]
      BY <1>4, <1>6, <2>2
    <3>2. i - Len(ps) = j - Len(ps)
      BY <1>6, <2>2, <3>1 DEF Distinct
    <3>. QED  BY <1>5, <3>2
  <2>. QED  BY <1>4, <2>1, <2>2
<1>. QED  BY <1>1, <1>4, <1>6 DEF Distinct, r

\* What a point of a row has of the row's names.
Marks(q, row, p) ==
  LET name(c) == asString(row, c)
      pdb == pdbAttr(row)
  IN CASE q = "sysstat" ->
            \/ /\ name("NAME") \in DOMAIN sysstatCounters
               /\ p.metric = sysstatCounters[name("NAME")] /\ p.attrs = pdb
            \/ /\ name("NAME") = cpuTimeStat
               /\ p.metric = "oracledb.cpu_time" /\ p.attrs = pdb
            \/ /\ name("NAME") \in DOMAIN sysstatGauges
               /\ p.metric = sysstatGauges[name("NAME")] /\ p.attrs = pdb
            \/ /\ name("NAME") \in DOMAIN sysstatIO
               /\ p.metric = sysstatIO[name("NAME")].metric
               /\ p.attrs = sysstatIO[name("NAME")].attrs \cup pdb
       [] q = "session_count" ->
            p.attrs = Attr("session_type", name("TYPE"))
                        \cup Attr("session_status", name("STATUS")) \cup pdb
       [] q = "resource_limits" ->
            /\ name("RESOURCE_NAME") \in DOMAIN resourceLimitMap
            /\ \E i \in DOMAIN resourceLimitMap[name("RESOURCE_NAME")] :
                 p.metric = resourceLimitMap[name("RESOURCE_NAME")][i].metric
       [] q = "tablespace" ->
            p.attrs = Attr("tablespace_name", name("TABLESPACE_NAME")) \cup pdb
       [] q = "sga" ->
            \/ name("NAME") = "Maximum_SGA_Size" /\ p.metric = "oracledb.sga.limit"
            \/ /\ name("NAME") # "Maximum_SGA_Size" /\ p.metric = "oracledb.sga.usage"
               /\ p.attrs = {<<"oracledb.sga.component.name", name("NAME")>>}
       [] q = "sysmetric" ->
            /\ name("METRIC_NAME") \in DOMAIN sysmetricMap
            /\ p.metric = sysmetricMap[name("METRIC_NAME")].metric
            /\ p.attrs = sysmetricMap[name("METRIC_NAME")].attrs \cup pdb
       [] q = "osstat" ->
            /\ name("STAT_NAME") \in DOMAIN osStatMap
            /\ p.metric = osStatMap[name("STAT_NAME")]
       [] OTHER -> TRUE

-----------------------------------------------------------------------------
(* The extractors. *)

\* Whatever a row holds, what a query makes of it are points of its metrics,
\* at most one of each, each of the type the ingest check gives the metric.
GoodPoints(q, row, ps) ==
  /\ FitSeq(q, ps) /\ Distinct(ps)
  /\ \A i \in DOMAIN ps : Marks(q, row, ps[i])

\* A row may give nothing.
LEMMA NoneIsGood == ASSUME NEW q, NEW row PROVE GoodPoints(q, row, <<>>)
BY EmptyFits, EmptyIsDistinct DEF GoodPoints

\* A statistic is in one table only.
LEMMA OneTable ==
  /\ \A n \in DOMAIN sysstatCounters :
       n # cpuTimeStat /\ n \notin DOMAIN sysstatGauges /\ n \notin DOMAIN sysstatIO
  /\ \A n \in DOMAIN sysstatGauges : n # cpuTimeStat /\ n \notin DOMAIN sysstatIO
  /\ \A n \in DOMAIN sysstatIO : n # cpuTimeStat
<1>1. \A n \in DOMAIN sysstatCounters :
        n # cpuTimeStat /\ n \notin DOMAIN sysstatGauges /\ n \notin DOMAIN sysstatIO
  BY DEF sysstatCounters, MapOf, cpuTimeStat, sysstatGauges, sysstatIO
<1>2. \A n \in DOMAIN sysstatGauges : n # cpuTimeStat /\ n \notin DOMAIN sysstatIO
  BY DEF MapOf, cpuTimeStat, sysstatGauges, sysstatIO
<1>3. \A n \in DOMAIN sysstatIO : n # cpuTimeStat
  BY DEF MapOf, cpuTimeStat, sysstatIO
<1>. QED  BY <1>1, <1>2, <1>3

\* Each extractor makes good points: extractSysstat,
LEMMA SysstatIsGood ==
  ASSUME NEW row, GoodRow(row)
  PROVE  GoodPoints("sysstat", row, extractSysstat(row))
<1>. DEFINE name == asString(row, "NAME")
            value == toFloat(row, "VALUE")
            pdb == pdbAttr(row)
<1>1. IsNum(value)
  BY DEF GoodRow
<1>2. IsNum(Per(value, 100))
  BY <1>1, PerIsNum
<1>3. CASE name \in DOMAIN sysstatCounters
  <2>1. extractSysstat(row) = Points(sysstatCounters[name], pdb, value, SUM)
    BY <1>3, OneTable DEF extractSysstat
  <2>2. sysstatCounters[name] \in MetricsOf("sysstat")
    BY <1>3, CountersAre DEF MetricsOf
  <2>. QED  BY <1>1, <1>3, <2>1, <2>2, OneKind, SumTypes DEF GoodPoints, Marks
<1>4. CASE name = cpuTimeStat
  <2>1. extractSysstat(row) = Points("oracledb.cpu_time", pdb, Per(value, 100), SUM)
    BY <1>4, OneTable DEF extractSysstat
  <2>2. "oracledb.cpu_time" \in MetricsOf("sysstat")
    BY DEF MetricsOf
  <2>. QED  BY <1>2, <1>4, <2>1, <2>2, OneKind, SumTypes DEF GoodPoints, Marks
<1>5. CASE name \in DOMAIN sysstatGauges
  <2>1. extractSysstat(row) = Points(sysstatGauges[name], pdb, value, GAUGE)
    BY <1>5, OneTable DEF extractSysstat
  <2>2. sysstatGauges[name] \in MetricsOf("sysstat")
    BY <1>5, GaugesAre DEF MetricsOf
  <2>. QED  BY <1>1, <1>5, <2>1, <2>2, OneKind, GaugeTypes DEF GoodPoints, Marks
<1>6. CASE name \in DOMAIN sysstatIO
  <2>1. extractSysstat(row)
          = Points(sysstatIO[name].metric, sysstatIO[name].attrs \cup pdb, value, SUM)
    BY <1>6, OneTable DEF extractSysstat
  <2>2. sysstatIO[name].metric \in MetricsOf("sysstat")
    BY <1>6, IOAre DEF MetricsOf
  <2>3. ValueTypeOf(sysstatIO[name].metric) = SUM
    BY <1>6, SumTypes
  <2>. DEFINE metric == sysstatIO[name].metric
              attrs == sysstatIO[name].attrs \cup pdb
              ps == Points(metric, attrs, value, SUM)
  <2>. HIDE DEF metric, attrs, value
  <2>4. /\ FitSeq("sysstat", ps) /\ Distinct(ps)
        /\ \A i \in DOMAIN ps : ps[i].metric = metric /\ ps[i].attrs = attrs
    BY <1>1, <2>2, <2>3, OneKind DEF metric
  <2>. HIDE DEF ps
  <2>5. \A i \in DOMAIN ps : Marks("sysstat", row, ps[i])
    BY <1>6, <2>4 DEF Marks, metric, attrs
  <2>. QED  BY <2>1, <2>4, <2>5 DEF GoodPoints, ps, metric, attrs, value
<1>7. CASE /\ name \notin DOMAIN sysstatCounters /\ name # cpuTimeStat
           /\ name \notin DOMAIN sysstatGauges /\ name \notin DOMAIN sysstatIO
  <2>1. extractSysstat(row) = <<>>
    BY <1>7 DEF extractSysstat
  <2>. QED  BY <2>1, NoneIsGood
<1>. QED  BY <1>3, <1>4, <1>5, <1>6, <1>7

\* extractResourceLimits, with one point for every column of the entry,
LEMMA LimitsAreGood ==
  ASSUME NEW row, GoodRow(row)
  PROVE  GoodPoints("resource_limits", row, extractResourceLimits(row))
<1>. DEFINE name == asString(row, "RESOURCE_NAME")
            cols == IF name \in DOMAIN resourceLimitMap THEN resourceLimitMap[name]
                                                        ELSE <<>>
            P(i) == Points(cols[i].metric, {}, toFloat(row, cols[i].col), GAUGE)
            seqs == [i \in DOMAIN cols |-> P(i)]
            ps == FlattenSeq(seqs)
<1>1. extractResourceLimits(row) = ps
  BY DEF extractResourceLimits
<1>2. CASE name \notin DOMAIN resourceLimitMap
  <2>1. seqs = <<>>
    BY <1>2
  <2>2. ps = <<>>
    BY <2>1 DEF FlattenSeq
  <2>. QED  BY <1>1, <2>2, NoneIsGood
<1>3. CASE name \in DOMAIN resourceLimitMap
  <2>0. cols = resourceLimitMap[name] /\ \E S : cols \in Seq(S)
    BY <1>3, LimitsAre
  <2>1. ASSUME NEW i \in DOMAIN cols
        PROVE  /\ FitSeq("resource_limits", P(i)) /\ DOMAIN P(i) \subseteq {1}
               /\ \A m \in DOMAIN P(i) : P(i)[m].metric = cols[i].metric
    <3>1. cols[i].metric \in MetricsOf("resource_limits")
      BY <2>0, <1>3, LimitsAre DEF MetricsOf
    <3>2. ValueTypeOf(cols[i].metric) = GAUGE
      BY <2>0, <1>3, GaugeTypes
    <3>3. IsNum(toFloat(row, cols[i].col))
      BY DEF GoodRow
    <3>. QED  BY <3>1, <3>2, <3>3, OneKind, PointsAre
  <2>. HIDE DEF P, cols
  <2>2. IsSeq(seqs) /\ DOMAIN seqs = DOMAIN cols /\ \A i \in DOMAIN seqs : seqs[i] = P(i)
    <3>1. PICK S : cols \in Seq(S)
      BY <2>0
    <3>2. seqs \in Seq({P(i) : i \in DOMAIN cols})
      BY <3>1
    <3>. QED  BY <3>2 DEF IsSeq
  <2>. HIDE DEF seqs
  <2>3. FitSeq("resource_limits", ps)
    BY <2>1, <2>2, FitFlatten
  <2>4. PICK S : seqs \in Seq(Seq(S))
    BY <2>1, <2>2, SeqOfSeqs DEF FitSeq
  <2>5. ps \in Seq(S) /\ Flat(seqs, Len(seqs), ps)
    BY <2>4, FlattenIsFlat
  <2>. HIDE DEF ps
  <2>6. DOMAIN ps = 1..Len(ps) /\ DOMAIN seqs = 1..Len(seqs) /\ Len(ps) \in Nat
    BY <2>4, <2>5
  <2>7. ASSUME NEW p \in DOMAIN ps
        PROVE  \E i \in DOMAIN cols :
                 /\ ps[p].metric = cols[i].metric
                 /\ \A q \in DOMAIN ps : q > p =>
                      \E j \in DOMAIN cols : j > i /\ ps[q].metric = cols[j].metric
    <3>1. PICK i \in 1..Len(seqs) : \E m \in DOMAIN seqs[i] :
            Place(seqs, Len(seqs), ps, p, i, m)
      BY <2>5, <2>6 DEF Flat
    <3>2. PICK m \in DOMAIN seqs[i] : Place(seqs, Len(seqs), ps, p, i, m)
      BY <3>1
    <3>3. i \in DOMAIN cols /\ m = 1 /\ ps[p].metric = cols[i].metric
      BY <2>1, <2>2, <2>6, <3>2 DEF Place
    <3>4. ASSUME NEW q \in DOMAIN ps, q > p
          PROVE  \E j \in DOMAIN cols : j > i /\ ps[q].metric = cols[j].metric
      <4>1. PICK j \in 1..Len(seqs) : \E l \in DOMAIN seqs[j] :
              ps[q] = seqs[j][l] /\ (j > i \/ (j = i /\ l > m))
        BY <2>6, <3>2, <3>4 DEF Place
      <4>2. PICK l \in DOMAIN seqs[j] : ps[q] = seqs[j][l] /\ (j > i \/ (j = i /\ l > m))
        BY <4>1
      <4>3. j \in DOMAIN cols /\ l = 1 /\ ps[q].metric = cols[j].metric
        BY <2>1, <2>2, <2>6, <4>2
      <4>. QED  BY <3>3, <4>2, <4>3
    <3>. QED  BY <3>3, <3>4
  <2>8. DOMAIN cols \subseteq Nat /\ DOMAIN ps \subseteq Nat
        /\ \A i, j \in DOMAIN cols : cols[i].metric = cols[j].metric => i = j
    <3>1. DOMAIN cols \subseteq Nat
      BY <2>0
    <3>2. \A i, j \in DOMAIN cols : cols[i].metric = cols[j].metric => i = j
      BY <1>3, <2>0, LimitsAre
    <3>. QED  BY <2>6, <3>1, <3>2
  <2>9. ASSUME NEW p \in DOMAIN ps, NEW q \in DOMAIN ps, p < q
        PROVE  ps[p].metric # ps[q].metric
    <3>1. PICK i \in DOMAIN cols :
                 /\ ps[p].metric = cols[i].metric
                 /\ \E j \in DOMAIN cols : j > i /\ ps[q].metric = cols[j].metric
      BY <2>7, <2>8, <2>9
    <3>. QED  BY <2>8, <3>1
  <2>10. Distinct(ps)
    BY <2>8, <2>9 DEF Distinct
  <2>11. \A p \in DOMAIN ps : Marks("resource_limits", row, ps[p])
    BY <1>3, <2>0, <2>7 DEF Marks
  <2>. QED  BY <1>1, <2>3, <2>10, <2>11 DEF GoodPoints, ps
<1>. QED  BY <1>2, <1>3

\* extractSessionCount,
LEMMA SessionsAreGood ==
  ASSUME NEW row, GoodRow(row)
  PROVE  GoodPoints("session_count", row, extractSessionCount(row))
<1>1. "oracledb.sessions.usage" \in MetricsOf("session_count")
  BY DEF MetricsOf
<1>2. ValueTypeOf("oracledb.sessions.usage") = GAUGE
  BY <1>1, GaugeTypes
<1>3. IsNum(toFloat(row, "VALUE"))
  BY DEF GoodRow
<1>. DEFINE attrs == Attr("session_type", asString(row, "TYPE"))
                       \cup Attr("session_status", asString(row, "STATUS")) \cup pdbAttr(row)
            nums == toFloat(row, "VALUE")
            ps == Points("oracledb.sessions.usage", attrs, nums, GAUGE)
<1>. HIDE DEF attrs, nums
<1>4. /\ FitSeq("session_count", ps) /\ Distinct(ps)
      /\ \A i \in DOMAIN ps : ps[i].attrs = attrs
  BY <1>1, <1>2, <1>3, OneKind DEF nums
<1>. HIDE DEF ps
<1>5. \A i \in DOMAIN ps : Marks("session_count", row, ps[i])
  BY <1>4 DEF Marks, attrs
<1>6. extractSessionCount(row) = ps
  BY DEF extractSessionCount, ps, attrs, nums
<1>. QED  BY <1>4, <1>5, <1>6 DEF GoodPoints

\* extractTablespace,
LEMMA TablespacesAreGood ==
  ASSUME NEW row, GoodRow(row)
  PROVE  GoodPoints("tablespace", row, extractTablespace(row))
<1>. DEFINE used  == toFloat(row, "USED_SPACE")
            block == toFloat(row, "BLOCK_SIZE")
            size  == toFloat(row, "TABLESPACE_SIZE")
            name  == asString(row, "TABLESPACE_NAME")
            attrs == Attr("tablespace_name", name) \cup pdbAttr(row)
            usage == Product(used, block)
            limit == IF size = {} THEN {-1} ELSE Product(size, block)
            ps == Points("oracledb.tablespace_size.usage", attrs, usage, GAUGE)
            qs == Points("oracledb.tablespace_size.limit", attrs, limit, GAUGE)
<1>1. CASE used = {} \/ block = {} \/ name = ""
  BY <1>1, NoneIsGood DEF extractTablespace
<1>2. CASE ~(used = {} \/ block = {} \/ name = "")
  <2>1. extractTablespace(row) = ps \o qs
    BY <1>2 DEF extractTablespace
  <2>2. IsNum(used) /\ IsNum(block) /\ IsNum(size)
    BY DEF GoodRow
  <2>3. IsNum(usage) /\ IsNum(limit)
    <3>1. IsNum(usage) /\ IsNum(Product(size, block))
      BY <2>2, ProductIsNum
    <3>2. IsNum({-1})
      BY DEF IsNum
    <3>. QED  BY <3>1, <3>2
  <2>. HIDE DEF usage, limit, attrs
  <2>4. /\ "oracledb.tablespace_size.usage" \in MetricsOf("tablespace")
        /\ "oracledb.tablespace_size.limit" \in MetricsOf("tablespace")
        /\ "oracledb.tablespace_size.usage" # "oracledb.tablespace_size.limit"
    BY DEF MetricsOf
  <2>5. /\ ValueTypeOf("oracledb.tablespace_size.usage") = GAUGE
        /\ ValueTypeOf("oracledb.tablespace_size.limit") = GAUGE
    BY <2>4, GaugeTypes
  <2>6. /\ FitSeq("tablespace", ps) /\ Distinct(ps)
        /\ \A i \in DOMAIN ps : ps[i].metric = "oracledb.tablespace_size.usage"
                              /\ ps[i].attrs = attrs
    BY <2>3, <2>4, <2>5, OneKind
  <2>7. /\ FitSeq("tablespace", qs) /\ Distinct(qs)
        /\ \A i \in DOMAIN qs : qs[i].metric = "oracledb.tablespace_size.limit"
                              /\ qs[i].attrs = attrs
    BY <2>3, <2>4, <2>5, OneKind
  <2>. HIDE DEF ps, qs
  <2>8. /\ FitSeq("tablespace", ps \o qs) /\ Distinct(ps \o qs)
        /\ \A i \in DOMAIN (ps \o qs) :
             \/ \E j \in DOMAIN ps : (ps \o qs)[i] = ps[j]
             \/ \E j \in DOMAIN qs : (ps \o qs)[i] = qs[j]
    <3>1. \A i \in DOMAIN ps : \A j \in DOMAIN qs : ps[i].metric # qs[j].metric
      BY <2>4, <2>6, <2>7
    <3>. QED  BY <2>6, <2>7, <3>1, TwoKinds
  <2>. DEFINE r == ps \o qs
  <2>9. \A i \in DOMAIN r : r[i].attrs = attrs
    BY <2>6, <2>7, <2>8
  <2>. HIDE DEF r
  <2>10. \A i \in DOMAIN r : Marks("tablespace", row, r[i])
    BY <2>9 DEF Marks, attrs
  <2>. QED  BY <2>1, <2>8, <2>10 DEF GoodPoints, r, ps, qs, usage, limit, attrs
<1>. QED  BY <1>1, <1>2

\* extractStorage,
LEMMA StorageIsGood ==
  ASSUME NEW row, GoodRow(row)
  PROVE  GoodPoints("storage", row, extractStorage(row))
<1>. DEFINE used  == toFloat(row, "USED_DB_SIZE")
            raw   == toFloat(row, "ALLOCATED_DB_SIZE")
            ratio == {u \div a : u \in used, a \in {n \in raw : n > 0}}
            ps == Points("oracledb.storage.usage", {}, used, GAUGE)
            qs == Points("oracledb.storage.utilization", {}, ratio, GAUGE)
<1>1. extractStorage(row) = ps \o qs
  BY DEF extractStorage
<1>2. IsNum(used) /\ IsNum(raw)
  BY DEF GoodRow
<1>3. IsNum(ratio)
  BY <1>2, RatioIsNum
<1>4. /\ "oracledb.storage.usage" \in MetricsOf("storage")
      /\ "oracledb.storage.utilization" \in MetricsOf("storage")
      /\ "oracledb.storage.usage" # "oracledb.storage.utilization"
  BY DEF MetricsOf
<1>5. /\ ValueTypeOf("oracledb.storage.usage") = GAUGE
      /\ ValueTypeOf("oracledb.storage.utilization") = GAUGE
  BY <1>4, GaugeTypes
<1>. HIDE DEF used, ratio
<1>6. /\ FitSeq("storage", ps) /\ Distinct(ps)
      /\ \A i \in DOMAIN ps : ps[i].metric = "oracledb.storage.usage"
  BY <1>2, <1>4, <1>5, OneKind
<1>7. /\ FitSeq("storage", qs) /\ Distinct(qs)
      /\ \A i \in DOMAIN qs : qs[i].metric = "oracledb.storage.utilization"
  BY <1>3, <1>4, <1>5, OneKind
<1>. HIDE DEF ps, qs
<1>8. FitSeq("storage", ps \o qs) /\ Distinct(ps \o qs)
  <2>1. \A i \in DOMAIN ps : \A j \in DOMAIN qs : ps[i].metric # qs[j].metric
    BY <1>4, <1>6, <1>7
  <2>. QED  BY <1>6, <1>7, <2>1, TwoKinds
<1>. QED  BY <1>1, <1>8 DEF GoodPoints, Marks, ps, qs, used, ratio

\* extractSGA,
LEMMA SGAIsGood ==
  ASSUME NEW row, GoodRow(row)
  PROVE  GoodPoints("sga", row, extractSGA(row))
<1>. DEFINE name == asString(row, "NAME")
            value == toFloat(row, "BYTES")
<1>1. IsNum(value)
  BY DEF GoodRow
<1>2. \A x \in {"oracledb.sga.usage", "oracledb.sga.limit"} :
        x \in MetricsOf("sga") /\ ValueTypeOf(x) = GAUGE
  BY GaugeTypes DEF MetricsOf
<1>3. CASE name = ""
  <2>1. name # "Maximum_SGA_Size"
    BY <1>3, Zenon
  <2>2. extractSGA(row) = <<>>
    BY <1>3, <2>1 DEF extractSGA
  <2>. QED  BY <2>2, NoneIsGood
<1>4. CASE name = "Maximum_SGA_Size"
  <2>1. name # ""
    BY <1>4, Zenon
  <2>2. extractSGA(row) = Points("oracledb.sga.limit", {}, value, GAUGE)
    BY <1>4, <2>1 DEF extractSGA
  <2>. QED  BY <1>1, <1>2, <1>4, <2>2, OneKind DEF GoodPoints, Marks
<1>5. CASE name # "" /\ name # "Maximum_SGA_Size"
  <2>1. extractSGA(row) = Points("oracledb.sga.usage",
                                 {<<"oracledb.sga.component.name", name>>}, value, GAUGE)
    BY <1>5 DEF extractSGA
  <2>. DEFINE attrs == {<<"oracledb.sga.component.name", name>>}
              ps == Points("oracledb.sga.usage", attrs, value, GAUGE)
  <2>. HIDE DEF attrs, value
  <2>2. /\ FitSeq("sga", ps) /\ Distinct(ps)
        /\ \A i \in DOMAIN ps : ps[i].metric = "oracledb.sga.usage" /\ ps[i].attrs = attrs
    BY <1>1, <1>2, OneKind
  <2>. HIDE DEF ps
  <2>3. \A i \in DOMAIN ps : Marks("sga", row, ps[i])
    BY <1>5, <2>2 DEF Marks, attrs
  <2>. QED  BY <2>1, <2>2, <2>3 DEF GoodPoints, ps, attrs, value
<1>. QED  BY <1>3, <1>4, <1>5

\* extractSysmetric,
LEMMA SysmetricIsGood ==
  ASSUME NEW row, GoodRow(row)
  PROVE  GoodPoints("sysmetric", row, extractSysmetric(row))
<1>. DEFINE name == asString(row, "METRIC_NAME")
            e == sysmetricMap[name]
            value == toFloat(row, "VALUE")
            metric == e.metric
            attrs == e.attrs \cup pdbAttr(row)
            nums == Per(value, e.per)
            ps == Points(metric, attrs, nums, GAUGE)
<1>1. CASE name \notin DOMAIN sysmetricMap
  <2>1. extractSysmetric(row) = <<>>
    BY <1>1 DEF extractSysmetric
  <2>. QED  BY <2>1, NoneIsGood
<1>2. CASE name \in DOMAIN sysmetricMap
  <2>1. extractSysmetric(row) = ps
    BY <1>2 DEF extractSysmetric
  <2>2. e.metric \in MetricsOf("sysmetric") /\ e.per \in {1, 100}
    BY <1>2, RatiosAre DEF MetricsOf
  <2>3. ValueTypeOf(e.metric) = GAUGE
    BY <1>2, GaugeTypes
  <2>4. IsNum(value)
    BY DEF GoodRow
  <2>5. IsNum(Per(value, e.per))
    BY <2>2, <2>4, PerIsNum
  <2>. HIDE DEF metric, attrs, nums
  <2>6. /\ FitSeq("sysmetric", ps) /\ Distinct(ps)
        /\ \A i \in DOMAIN ps : ps[i].metric = metric /\ ps[i].attrs = attrs
    BY <2>2, <2>3, <2>5, OneKind DEF metric, nums
  <2>. HIDE DEF ps
  <2>7. \A i \in DOMAIN ps : Marks("sysmetric", row, ps[i])
    BY <1>2, <2>6 DEF Marks, metric, attrs
  <2>. QED  BY <2>1, <2>6, <2>7 DEF GoodPoints, ps, metric, attrs, nums
<1>. QED  BY <1>1, <1>2

\* extractOSStat,
LEMMA OSStatIsGood ==
  ASSUME NEW row, GoodRow(row)
  PROVE  GoodPoints("osstat", row, extractOSStat(row))
<1>. DEFINE name == asString(row, "STAT_NAME")
<1>1. CASE name \notin DOMAIN osStatMap
  BY <1>1, NoneIsGood DEF extractOSStat
<1>2. CASE name \in DOMAIN osStatMap
  <2>1. extractOSStat(row) = Points(osStatMap[name], {}, toFloat(row, "VALUE"), GAUGE)
    BY <1>2 DEF extractOSStat
  <2>2. osStatMap[name] \in MetricsOf("osstat") /\ ValueTypeOf(osStatMap[name]) = GAUGE
    BY <1>2, OsAre, GaugeTypes
  <2>3. IsNum(toFloat(row, "VALUE"))
    BY DEF GoodRow
  <2>. QED  BY <1>2, <2>1, <2>2, <2>3, OneKind DEF GoodPoints, Marks
<1>. QED  BY <1>1, <1>2

\* and the two that read one cell.
LEMMA SinglesAreGood ==
  ASSUME NEW row, GoodRow(row)
  PROVE  /\ GoodPoints("data_dict", row, extractDataDict(row))
         /\ GoodPoints("recycle_bin", row, extractRecycleBin(row))
<1>1. /\ "oracledb.data_dictionary.hit_ratio" \in MetricsOf("data_dict")
      /\ "oracledb.recycle_bin.limit" \in MetricsOf("recycle_bin")
  BY DEF MetricsOf
<1>2. /\ ValueTypeOf("oracledb.data_dictionary.hit_ratio") = GAUGE
      /\ ValueTypeOf("oracledb.recycle_bin.limit") = GAUGE
  BY <1>1, GaugeTypes
<1>3. \A c : IsNum(toFloat(row, c))
  BY DEF GoodRow
<1>4. GoodPoints("data_dict", row, extractDataDict(row))
  BY <1>1, <1>2, <1>3, OneKind DEF GoodPoints, Marks, extractDataDict
<1>5. GoodPoints("recycle_bin", row, extractRecycleBin(row))
  BY <1>1, <1>2, <1>3, OneKind DEF GoodPoints, Marks, extractRecycleBin
<1>. QED  BY <1>4, <1>5

\* So does PointsOf, for every query.
LEMMA RowIsGood ==
  ASSUME NEW q \in QueryKeys, NEW row, GoodRow(row)
  PROVE  GoodPoints(q, row, PointsOf(q, row))
BY KeysAre, SysstatIsGood, SessionsAreGood, LimitsAreGood, TablespacesAreGood, SGAIsGood,
   StorageIsGood, SysmetricIsGood, OSStatIsGood, SinglesAreGood DEF PointsOf

-----------------------------------------------------------------------------
(* What the key of a point tells of its row. *)

\* None of the attributes X has the key k.
Without(k, X) == \A x \in X : x[1] # k

\* An attribute among others can be read off the set.
LEMMA AttrTells ==
  ASSUME NEW k, NEW v, NEW w, NEW X, NEW Y, Without(k, X), Without(k, Y),
         X \cup Attr(k, v) = Y \cup Attr(k, w)
  PROVE  v = w /\ X = Y
<1>1. \A x : x \in Attr(k, v) <=> x = <<k, v>> /\ v # ""
  BY Zenon DEF Attr
<1>2. \A x : x \in Attr(k, w) <=> x = <<k, w>> /\ w # ""
  BY Zenon DEF Attr
<1>3. <<k, v>>[1] = k /\ <<k, w>>[1] = k
  OBVIOUS
<1>4. X = Y
  BY <1>1, <1>2, <1>3 DEF Without
<1>5. v # "" => v = w
  <2>. SUFFICES ASSUME v # "" PROVE v = w
    OBVIOUS
  <2>1. <<k, v>> \in Y \cup Attr(k, w)
    BY <1>1, Zenon
  <2>2. <<k, v>> \notin Y
    BY <1>3 DEF Without
  <2>3. <<k, v>> = <<k, w>>
    BY <1>2, <2>1, <2>2
  <2>. QED  BY <2>3
<1>6. w # "" => v = w
  <2>. SUFFICES ASSUME w # "" PROVE v = w
    OBVIOUS
  <2>1. <<k, w>> \in X \cup Attr(k, v)
    BY <1>2, Zenon
  <2>2. <<k, w>> \notin X
    BY <1>3 DEF Without
  <2>3. <<k, v>> = <<k, w>>
    BY <1>1, <2>1, <2>2
  <2>. QED  BY <2>3
<1>. QED  BY <1>4, <1>5, <1>6, Zenon

\* An optional attribute tells its value, the empty one too,
LEMMA AttrIs == ASSUME NEW k, NEW v, NEW w, Attr(k, v) = Attr(k, w) PROVE v = w
<1>. DEFINE X == {}
<1>1. X \cup Attr(k, v) = X \cup Attr(k, w) /\ Without(k, X)
  BY DEF Without
<1>. HIDE DEF X
<1>. QED  BY <1>1, AttrTells

\* and has its key.
LEMMA AttrsKey == ASSUME NEW k, NEW v PROVE \A x \in Attr(k, v) : x[1] = k
<1>1. \A x : x \in Attr(k, v) => x = <<k, v>>
  BY Zenon DEF Attr
<1>. QED  BY <1>1

\* A name of sysstatIO and its entry.
IsIO(n, e) ==
  \/ \E d, t : /\ e = Transferred(d, t)
               /\ <<n, d, t>> \in {<<"physical_read_bytes", "read", "buffered">>,
                                   <<"physical_write_bytes", "write", "buffered">>,
                                   <<"physical_read_total_bytes", "read", "total">>,
                                   <<"physical_write_total_bytes", "write", "total">>}
  \/ \E d, t : /\ e = Requests(d, t)
               /\ <<n, d, t>> \in
                    {<<"physical_read_total_IO_requests", "read", "all">>,
                     <<"physical_write_total_IO_requests", "write", "all">>,
                     <<"physical_read_total_multi_block_requests", "read", "multi">>,
                     <<"physical_write_total_multi_block_requests", "write", "multi">>}
  \/ n = "physical_writes_from_cache" /\ e = IO("oracledb.physical_io.cache_writes", {})
  \/ \E d, t : /\ e = SqlNet(d, t)
               /\ <<n, d, t>> \in
                    {<<"bytes_received_via_SQL*Net_from_client", "receive", "client">>,
                     <<"bytes_sent_via_SQL*Net_to_client", "transmit", "client">>,
                     <<"bytes_received_via_SQL*Net_from_dblink", "receive", "dblink">>,
                     <<"bytes_sent_via_SQL*Net_to_dblink", "transmit", "dblink">>}

\* Both halves of such a set of two attributes can be read off it.
LEMMA PairsTell ==
  /\ \A k, v, w, x, y :
       k # "disk.io.direction" /\ Disk(v, k, w) = Disk(x, k, y) => v = x /\ w = y
  /\ \A v, w, x, y : Net(v, w) = Net(x, y) => v = x /\ w = y
<1>1. ASSUME NEW k, NEW v, NEW w, NEW x, NEW y, k # "disk.io.direction",
             Disk(v, k, w) = Disk(x, k, y)
      PROVE  v = x /\ w = y
  <2>1. <<"disk.io.direction", v>> \in Disk(x, k, y) /\ <<k, w>> \in Disk(x, k, y)
    BY <1>1 DEF Disk
  <2>2. /\ \/ <<"disk.io.direction", v>> = <<"disk.io.direction", x>>
           \/ <<"disk.io.direction", v>> = <<k, y>>
        /\ <<k, w>> = <<"disk.io.direction", x>> \/ <<k, w>> = <<k, y>>
    BY <2>1 DEF Disk
  <2>. QED  BY <1>1, <2>2
<1>2. ASSUME NEW v, NEW w, NEW x, NEW y, Net(v, w) = Net(x, y)
      PROVE  v = x /\ w = y
  <2>1. /\ <<"network.io.direction", v>> \in Net(x, y)
        /\ <<"destination.type", w>> \in Net(x, y)
    BY <1>2 DEF Net
  <2>2. /\ \/ <<"network.io.direction", v>> = <<"network.io.direction", x>>
           \/ <<"network.io.direction", v>> = <<"destination.type", y>>
        /\ \/ <<"destination.type", w>> = <<"network.io.direction", x>>
           \/ <<"destination.type", w>> = <<"destination.type", y>>
    BY <2>1 DEF Net
  <2>3. "network.io.direction" # "destination.type"
    OBVIOUS
  <2>. QED  BY <2>2, <2>3
<1>. QED  BY <1>1, <1>2

\* The metric and the attributes of an entry of sysstatIO tell its name.
LEMMA IOTells ==
  /\ \A n \in DOMAIN sysstatIO : \A x \in sysstatIO[n].attrs : x[1] # "oracle.db.pdb"
  /\ \A n, m \in DOMAIN sysstatIO :
       sysstatIO[n].metric = sysstatIO[m].metric /\ sysstatIO[n].attrs = sysstatIO[m].attrs
         => n = m
<1>1. ASSUME NEW n \in DOMAIN sysstatIO PROVE IsIO(n, sysstatIO[n])
  <2>1. PICK pairs : sysstatIO = MapOf(pairs) /\ \A p \in pairs : IsIO(p[1], p[2])
    BY DEF sysstatIO, IsIO
  <2>. QED  BY <2>1, MapIs
<1>2. ASSUME NEW n, NEW e, IsIO(n, e)
      PROVE  \A x \in e.attrs : x[1] # "oracle.db.pdb"
  BY <1>2 DEF IsIO, Transferred, Requests, SqlNet, IO, Disk, Net
<1>3. ASSUME NEW n, NEW m, NEW e, IsIO(n, e), IsIO(m, e) PROVE n = m
  <2>1. \A d, t, f, u : Transferred(d, t) = Transferred(f, u) => d = f /\ t = u
    <3>. SUFFICES ASSUME NEW d, NEW t, NEW f, NEW u, Transferred(d, t) = Transferred(f, u)
                  PROVE  d = f /\ t = u
      OBVIOUS
    <3>1. Disk(d, "disk.io.type", t) = Disk(f, "disk.io.type", u)
      BY DEF Transferred, IO
    <3>2. "disk.io.direction" # "disk.io.type"
      OBVIOUS
    <3>. QED  BY <3>1, <3>2, PairsTell
  <2>2. \A d, t, f, u : Requests(d, t) = Requests(f, u) => d = f /\ t = u
    <3>. SUFFICES ASSUME NEW d, NEW t, NEW f, NEW u, Requests(d, t) = Requests(f, u)
                  PROVE  d = f /\ t = u
      OBVIOUS
    <3>1. Disk(d, "disk.io.block_size", t) = Disk(f, "disk.io.block_size", u)
      BY DEF Requests, IO
    <3>2. "disk.io.direction" # "disk.io.block_size"
      OBVIOUS
    <3>. QED  BY <3>1, <3>2, PairsTell
  <2>3. \A d, t, f, u : SqlNet(d, t) = SqlNet(f, u) => d = f /\ t = u
    <3>. SUFFICES ASSUME NEW d, NEW t, NEW f, NEW u, SqlNet(d, t) = SqlNet(f, u)
                  PROVE  d = f /\ t = u
      OBVIOUS
    <3>1. Net(d, t) = Net(f, u)
      BY DEF SqlNet, IO
    <3>2. "network.io.direction" # "destination.type"
      OBVIOUS
    <3>. QED  BY <3>1, <3>2, PairsTell
  <2>4. \A d, t : /\ Transferred(d, t).metric = "oracledb.physical_io.transferred"
                  /\ Requests(d, t).metric = "oracledb.physical_io.requests"
                  /\ SqlNet(d, t).metric = "oracledb.sqlnet.io.transferred"
    BY DEF Transferred, Requests, SqlNet, IO
  <2>5. IO("oracledb.physical_io.cache_writes", {}).metric
          = "oracledb.physical_io.cache_writes"
    BY DEF IO
  <2>6. CASE e.metric = "oracledb.physical_io.transferred"
    BY <1>3, <2>1, <2>4, <2>5, <2>6 DEF IsIO
  <2>7. CASE e.metric = "oracledb.physical_io.requests"
    BY <1>3, <2>2, <2>4, <2>5, <2>7 DEF IsIO
  <2>8. CASE e.metric = "oracledb.sqlnet.io.transferred"
    BY <1>3, <2>3, <2>4, <2>5, <2>8 DEF IsIO
  <2>9. CASE e.metric = "oracledb.physical_io.cache_writes"
    BY <1>3, <2>4, <2>5, <2>9 DEF IsIO
  <2>. QED  BY <1>3, <2>4, <2>5, <2>6, <2>7, <2>8, <2>9 DEF IsIO
<1>4. ASSUME NEW n, NEW e, IsIO(n, e)
      PROVE  e = [metric |-> e.metric, attrs |-> e.attrs]
  BY <1>4 DEF IsIO, Transferred, Requests, SqlNet, IO
<1>5. ASSUME NEW n \in DOMAIN sysstatIO, NEW m \in DOMAIN sysstatIO,
             sysstatIO[n].metric = sysstatIO[m].metric,
             sysstatIO[n].attrs = sysstatIO[m].attrs
      PROVE  n = m
  <2>1. sysstatIO[n] = sysstatIO[m]
    BY <1>1, <1>4, <1>5
  <2>2. IsIO(n, sysstatIO[n]) /\ IsIO(m, sysstatIO[n])
    BY <1>1, <2>1
  <2>. QED  BY <1>3, <2>2
<1>6. \A n \in DOMAIN sysstatIO : \A x \in sysstatIO[n].attrs : x[1] # "oracle.db.pdb"
  <2>1. ASSUME NEW n \in DOMAIN sysstatIO
        PROVE  \A x \in sysstatIO[n].attrs : x[1] # "oracle.db.pdb"
    <3>. DEFINE e == sysstatIO[n]
    <3>1. IsIO(n, e)
      BY <1>1
    <3>. HIDE DEF e
    <3>2. \A x \in e.attrs : x[1] # "oracle.db.pdb"
      BY <1>2, <3>1
    <3>. QED  BY <3>2 DEF e
  <2>. QED  BY <2>1
<1>. QED  BY <1>5, <1>6

\* Two rows that say the same in the columns that name a series.
SameNames(q, r, s) == \A c \in NameColumns(q) : asString(r, c) = asString(s, c)

\* Two points of one query with one key come from rows of the same names.
LEMMA SysstatTells ==
  ASSUME NEW r, NEW s, NEW p, NEW o, Marks("sysstat", r, p), Marks("sysstat", s, o),
         p.metric = o.metric, p.attrs = o.attrs
  PROVE  SameNames("sysstat", r, s)
<1>. DEFINE n == asString(r, "NAME")
            m == asString(s, "NAME")
            v == asString(r, "PDB_NAME")
            w == asString(s, "PDB_NAME")
            k == "oracle.db.pdb"
<1>1. /\ \/ n \in DOMAIN sysstatCounters /\ p.metric = sysstatCounters[n]
         \/ n = cpuTimeStat /\ p.metric = "oracledb.cpu_time"
         \/ n = "session_pga_memory" /\ p.metric = "oracledb.pga_memory"
         \/ n \in DOMAIN sysstatIO /\ p.metric = sysstatIO[n].metric
      /\ \/ m \in DOMAIN sysstatCounters /\ p.metric = sysstatCounters[m]
         \/ m = cpuTimeStat /\ p.metric = "oracledb.cpu_time"
         \/ m = "session_pga_memory" /\ p.metric = "oracledb.pga_memory"
         \/ m \in DOMAIN sysstatIO /\ p.metric = sysstatIO[m].metric
  BY GaugesAre DEF Marks
<1>2. /\ \A c \in DOMAIN sysstatCounters :
           /\ sysstatCounters[c] \notin IOMetrics
           /\ sysstatCounters[c] \notin {"oracledb.cpu_time", "oracledb.pga_memory"}
      /\ \A c \in DOMAIN sysstatIO :
           sysstatIO[c].metric \notin {"oracledb.cpu_time", "oracledb.pga_memory"}
  BY CountersAre, IOAre DEF CounterMetrics, IOMetrics
<1>3. CASE n \in DOMAIN sysstatIO
  <2>1. m \in DOMAIN sysstatIO /\ sysstatIO[n].metric = sysstatIO[m].metric
    BY <1>1, <1>2, <1>3, IOAre, OneTable
  <2>2. p.attrs = sysstatIO[n].attrs \cup pdbAttr(r)
    BY <1>3, OneTable DEF Marks
  <2>3. o.attrs = sysstatIO[m].attrs \cup pdbAttr(s)
    BY <2>1, OneTable DEF Marks
  <2>. DEFINE X == sysstatIO[n].attrs
              Y == sysstatIO[m].attrs
  <2>4. X \cup Attr(k, v) = Y \cup Attr(k, w)
    BY <2>2, <2>3 DEF pdbAttr
  <2>5. Without(k, X) /\ Without(k, Y)
    BY <1>3, <2>1, IOTells DEF Without
  <2>. HIDE DEF X, Y, v, w, k
  <2>6. v = w /\ X = Y
    BY <2>4, <2>5, AttrTells
  <2>7. n = m
    BY <1>3, <2>1, <2>6, IOTells DEF X, Y
  <2>. QED  BY <2>6, <2>7 DEF SameNames, NameColumns, v, w
<1>4. CASE n \notin DOMAIN sysstatIO
  <2>1. n = m
    BY <1>1, <1>2, <1>4, CountersAre, IOAre
  <2>2. p.attrs = pdbAttr(r) /\ o.attrs = pdbAttr(s)
    BY <1>4, <2>1 DEF Marks
  <2>3. Attr(k, v) = Attr(k, w)
    BY <2>2 DEF pdbAttr
  <2>4. v = w
    BY <2>3, AttrIs
  <2>. QED  BY <2>1, <2>4 DEF SameNames, NameColumns, v, w
<1>. QED  BY <1>3, <1>4

\* The type, the status and the PDB of a session count,
LEMMA SessionsTell ==
  ASSUME NEW r, NEW s, NEW p, NEW o,
         Marks("session_count", r, p), Marks("session_count", s, o), p.attrs = o.attrs
  PROVE  SameNames("session_count", r, s)
<1>. DEFINE kt == "session_type"
            ks == "session_status"
            k  == "oracle.db.pdb"
            T(x) == Attr(kt, asString(x, "TYPE"))
            S(x) == Attr(ks, asString(x, "STATUS"))
            P(x) == Attr(k, asString(x, "PDB_NAME"))
<1>1. /\ T(r) \cup S(r) \cup P(r) = T(s) \cup S(s) \cup P(s)
      /\ kt # ks /\ kt # k /\ ks # k
  BY DEF Marks, pdbAttr
<1>2. \A x : (\A y \in T(x) : y[1] = kt) /\ (\A y \in S(x) : y[1] = ks)
  BY AttrsKey
<1>. HIDE DEF kt, ks, k
<1>3. /\ \A x \in T(r) \cup S(r) : x[1] # k
      /\ \A x \in T(s) \cup S(s) : x[1] # k
  <2>. HIDE DEF T, S
  <2>. QED  BY <1>1, <1>2
<1>. DEFINE X == T(r) \cup S(r)
            Y == T(s) \cup S(s)
<1>4. X \cup P(r) = Y \cup P(s) /\ Without(k, X) /\ Without(k, Y)
  BY <1>1, <1>3 DEF Without
<1>. HIDE DEF X, Y
<1>. DEFINE v == asString(r, "PDB_NAME")
            w == asString(s, "PDB_NAME")
<1>5. X \cup Attr(k, v) = Y \cup Attr(k, w)
  BY <1>4
<1>. HIDE DEF v, w
<1>6. v = w /\ X = Y
  BY <1>4, <1>5, AttrTells
<1>7. T(r) \cup S(r) = T(s) \cup S(s)
  BY <1>6 DEF X, Y
<1>8. Without(ks, T(r)) /\ Without(ks, T(s))
  <2>. HIDE DEF T
  <2>. QED  BY <1>1, <1>2 DEF Without
<1>. HIDE DEF T
<1>9. asString(r, "STATUS") = asString(s, "STATUS") /\ T(r) = T(s)
  BY <1>7, <1>8, AttrTells
<1>10. asString(r, "TYPE") = asString(s, "TYPE")
  BY <1>9, AttrIs DEF T
<1>. QED  BY <1>6, <1>9, <1>10 DEF SameNames, NameColumns, v, w

\* the name and the PDB of a tablespace,
LEMMA TablespacesTell ==
  ASSUME NEW r, NEW s, NEW p, NEW o,
         Marks("tablespace", r, p), Marks("tablespace", s, o), p.attrs = o.attrs
  PROVE  SameNames("tablespace", r, s)
<1>. DEFINE kt == "tablespace_name"
            k  == "oracle.db.pdb"
            T(x) == Attr(kt, asString(x, "TABLESPACE_NAME"))
            P(x) == Attr(k, asString(x, "PDB_NAME"))
<1>1. T(r) \cup P(r) = T(s) \cup P(s) /\ kt # k
  BY DEF Marks, pdbAttr
<1>2. \A x : \A y \in T(x) : y[1] = kt
  BY AttrsKey
<1>. HIDE DEF kt, k
<1>3. Without(k, T(r)) /\ Without(k, T(s))
  <2>. HIDE DEF T
  <2>. QED  BY <1>1, <1>2 DEF Without
<1>. HIDE DEF T
<1>4. asString(r, "PDB_NAME") = asString(s, "PDB_NAME") /\ T(r) = T(s)
  BY <1>1, <1>3, AttrTells
<1>5. asString(r, "TABLESPACE_NAME") = asString(s, "TABLESPACE_NAME")
  BY <1>4, AttrIs DEF T
<1>. QED  BY <1>4, <1>5 DEF SameNames, NameColumns

\* the metric and the PDB of a ratio,
LEMMA SysmetricTells ==
  ASSUME NEW r, NEW s, NEW p, NEW o,
         Marks("sysmetric", r, p), Marks("sysmetric", s, o),
         p.metric = o.metric, p.attrs = o.attrs
  PROVE  SameNames("sysmetric", r, s)
<1>. DEFINE n == asString(r, "METRIC_NAME")
            m == asString(s, "METRIC_NAME")
            v == asString(r, "PDB_NAME")
            w == asString(s, "PDB_NAME")
            k == "oracle.db.pdb"
            X == sysmetricMap[n].attrs
            Y == sysmetricMap[m].attrs
<1>1. n \in DOMAIN sysmetricMap /\ m \in DOMAIN sysmetricMap
  BY DEF Marks
<1>2. n = m
  BY <1>1, RatiosAre DEF Marks
<1>3. X \cup Attr(k, v) = Y \cup Attr(k, w)
  BY DEF Marks, pdbAttr
<1>4. \A x \in X : x[1] # k
  <2>1. PICK pairs : /\ sysmetricMap = MapOf(pairs)
                     /\ \A e \in pairs : \A x \in e[2].attrs : x[1] # k
    BY DEF sysmetricMap, As, With
  <2>. QED  BY <1>1, <2>1, MapIs
<1>5. Without(k, X) /\ Without(k, Y)
  BY <1>2, <1>4 DEF Without
<1>. HIDE DEF X, Y, v, w, k
<1>6. v = w
  BY <1>3, <1>5, AttrTells
<1>. QED  BY <1>2, <1>6 DEF SameNames, NameColumns, v, w

\* and what the queries without a PDB name their rows by.
LEMMA OthersTell ==
  ASSUME NEW q \in {"resource_limits", "sga", "osstat", "data_dict", "storage",
                    "recycle_bin"},
         NEW r, NEW s, NEW p, NEW o, Marks(q, r, p), Marks(q, s, o),
         p.metric = o.metric, p.attrs = o.attrs
  PROVE  SameNames(q, r, s)
<1>1. CASE q = "resource_limits"
  <2>1. asString(r, "RESOURCE_NAME") = asString(s, "RESOURCE_NAME")
    BY <1>1, LimitsAre DEF Marks
  <2>. QED  BY <1>1, <2>1 DEF SameNames, NameColumns
<1>2. CASE q = "sga"
  <2>. DEFINE n == asString(r, "NAME")
              m == asString(s, "NAME")
  <2>0. "oracledb.sga.limit" # "oracledb.sga.usage"
    OBVIOUS
  <2>1. CASE n = "Maximum_SGA_Size"
    BY <1>2, <2>0, <2>1 DEF Marks, SameNames, NameColumns
  <2>2. CASE n # "Maximum_SGA_Size"
    <3>1. p.attrs = {<<"oracledb.sga.component.name", n>>}
          /\ p.metric = "oracledb.sga.usage"
      BY <1>2, <2>2 DEF Marks
    <3>2. o.attrs = {<<"oracledb.sga.component.name", m>>}
      BY <1>2, <2>0, <3>1 DEF Marks
    <3>3. <<"oracledb.sga.component.name", n>> \in {<<"oracledb.sga.component.name", m>>}
      BY <3>1, <3>2
    <3>4. n = m
      BY <3>3
    <3>. QED  BY <1>2, <3>4 DEF SameNames, NameColumns
  <2>. QED  BY <2>1, <2>2
<1>3. CASE q = "osstat"
  <2>1. asString(r, "STAT_NAME") = asString(s, "STAT_NAME")
    BY <1>3, OsAre DEF Marks
  <2>. QED  BY <1>3, <2>1 DEF SameNames, NameColumns
<1>4. CASE q \in {"data_dict", "storage", "recycle_bin"}
  BY <1>4 DEF SameNames, NameColumns
<1>. QED  BY <1>1, <1>2, <1>3, <1>4

\* So two points of one query share a series only if their rows share the names.
LEMMA KeyTellsNames ==
  ASSUME NEW q \in QueryKeys, NEW r, NEW s, NEW p, NEW o, Marks(q, r, p), Marks(q, s, o),
         Key(p) = Key(o)
  PROVE  SameNames(q, r, s)
<1>1. p.metric = o.metric /\ p.attrs = o.attrs
  BY DEF Key
<1>. QED  BY <1>1, KeysAre, SysstatTells, SessionsTell, TablespacesTell, SysmetricTells,
             OthersTell

-----------------------------------------------------------------------------
(* The points of a table. *)

\* A table of good rows.
GoodRows(rs) == IsSeq(rs) /\ \A i \in DOMAIN rs : GoodRow(rs[i])

\* out is what the sequences seqs hold, in their order.
Holds(seqs, out) ==
  /\ \A p \in DOMAIN out : \E i \in DOMAIN seqs : \E m \in DOMAIN seqs[i] :
       out[p] = seqs[i][m]
  /\ \A i \in DOMAIN seqs : \A m \in DOMAIN seqs[i] : \E p \in DOMAIN out :
       /\ out[p] = seqs[i][m]
       /\ \A o \in DOMAIN out : o > p =>
            \E j \in DOMAIN seqs : \E l \in DOMAIN seqs[j] :
              out[o] = seqs[j][l] /\ (j > i \/ (j = i /\ l > m))

\* FlattenSeq loses nothing and adds nothing.
LEMMA FlattenHolds ==
  ASSUME NEW q, NEW seqs, IsSeq(seqs), \A i \in DOMAIN seqs : FitSeq(q, seqs[i])
  PROVE  FitSeq(q, FlattenSeq(seqs)) /\ Holds(seqs, FlattenSeq(seqs))
<1>1. PICK S : seqs \in Seq(Seq(S))
  BY SeqOfSeqs DEF FitSeq
<1>. DEFINE f == FlattenSeq(seqs)
<1>2. f \in Seq(S) /\ Flat(seqs, Len(seqs), f)
  BY <1>1, FlattenIsFlat
<1>3. FitSeq(q, f)
  BY FitFlatten
<1>. HIDE DEF f
<1>4. DOMAIN f = 1..Len(f) /\ DOMAIN seqs = 1..Len(seqs)
  BY <1>1, <1>2
<1>5. \A p \in DOMAIN f : \E i \in DOMAIN seqs : \E m \in DOMAIN seqs[i] :
        f[p] = seqs[i][m]
  BY <1>2, <1>4 DEF Flat, Place
<1>6. ASSUME NEW i \in DOMAIN seqs, NEW m \in DOMAIN seqs[i]
      PROVE  \E p \in DOMAIN f :
               /\ f[p] = seqs[i][m]
               /\ \A o \in DOMAIN f : o > p =>
                    \E j \in DOMAIN seqs : \E l \in DOMAIN seqs[j] :
                      f[o] = seqs[j][l] /\ (j > i \/ (j = i /\ l > m))
  <2>1. PICK p \in 1..Len(f) : Place(seqs, Len(seqs), f, p, i, m)
    BY <1>2, <1>4 DEF Flat
  <2>. QED  BY <1>4, <2>1 DEF Place
<1>. QED  BY <1>3, <1>5, <1>6 DEF Holds, f

\* The points of each row.
PointsOfRows(q, rs) == [i \in DOMAIN rs |-> PointsOf(q, rs[i])]

\* ExpectedFor is the points of its rows, in the order of the rows.
LEMMA ExpectedForHolds ==
  ASSUME NEW q \in QueryKeys, NEW rs, GoodRows(rs)
  PROVE  /\ FitSeq(q, ExpectedFor(q, rs))
         /\ Holds(PointsOfRows(q, rs), ExpectedFor(q, rs))
<1>. DEFINE seqs == PointsOfRows(q, rs)
<1>1. PICK S : rs \in Seq(S)
  BY DEF GoodRows, IsSeq
<1>2. seqs \in Seq({PointsOf(q, rs[i]) : i \in DOMAIN rs})
  BY <1>1 DEF PointsOfRows
<1>3. DOMAIN seqs = DOMAIN rs /\ \A i \in DOMAIN rs : seqs[i] = PointsOf(q, rs[i])
  BY DEF PointsOfRows
<1>4. ExpectedFor(q, rs) = FlattenSeq(seqs)
  BY DEF ExpectedFor, PointsOfRows
<1>. HIDE DEF seqs
<1>5. IsSeq(seqs)
  BY <1>2 DEF IsSeq
<1>6. \A i \in DOMAIN seqs : FitSeq(q, seqs[i])
  BY <1>3, RowIsGood DEF GoodRows, GoodPoints
<1>. QED  BY <1>4, <1>5, <1>6, FlattenHolds DEF seqs

\* The names that the first pass has rows of,
NamesSeen(rs) == {asString(rs[i], "METRIC_NAME") : i \in DOMAIN rs} \ {""}

\* and the points of the rows with others.
UnseenPoints(seen, rs) ==
  [i \in DOMAIN rs |-> IF asString(rs[i], "METRIC_NAME") \in seen THEN <<>>
                       ELSE extractSysmetric(rs[i])]

\* So is the second part of ExpectedForSysmetricCDB,
LEMMA UnseenHold ==
  ASSUME NEW seen, NEW rs, GoodRows(rs)
  PROVE  /\ FitSeq("sysmetric", FlattenSeq(UnseenPoints(seen, rs)))
         /\ Holds(UnseenPoints(seen, rs), FlattenSeq(UnseenPoints(seen, rs)))
<1>. DEFINE seqs == UnseenPoints(seen, rs)
<1>1. PICK S : rs \in Seq(S)
  BY DEF GoodRows, IsSeq
<1>2. DOMAIN seqs = 1..Len(rs) /\ Len(rs) \in Nat
  BY <1>1 DEF UnseenPoints
<1>3. ASSUME NEW i \in DOMAIN seqs PROVE FitSeq("sysmetric", seqs[i])
  <2>1. i \in DOMAIN rs
    BY DEF UnseenPoints
  <2>2. GoodRow(rs[i])
    BY <2>1 DEF GoodRows
  <2>3. FitSeq("sysmetric", extractSysmetric(rs[i]))
    BY <2>2, SysmetricIsGood DEF GoodPoints
  <2>4. seqs[i] = <<>> \/ seqs[i] = extractSysmetric(rs[i])
    BY <2>1 DEF UnseenPoints
  <2>. QED  BY <2>3, <2>4, EmptyFits
<1>4. seqs = [i \in DOMAIN seqs |-> seqs[i]]
  BY DEF UnseenPoints
<1>. HIDE DEF seqs
<1>5. seqs \in Seq({seqs[i] : i \in DOMAIN seqs})
  BY <1>2, <1>4
<1>6. IsSeq(seqs)
  BY <1>5 DEF IsSeq
<1>. QED  BY <1>3, <1>6, FlattenHolds DEF seqs

\* which stands behind the first.
LEMMA SysmetricCDBIs ==
  ASSUME NEW con, NEW sys, GoodRows(con), GoodRows(sys)
  PROVE  LET first == ExpectedFor("sysmetric", con)
             second == FlattenSeq(UnseenPoints(NamesSeen(con), sys))
             all == ExpectedForSysmetricCDB(con, sys)
         IN  /\ all = first \o second /\ FitSeq("sysmetric", all)
             /\ Len(first) \in Nat
             /\ \A p \in DOMAIN first : p \in DOMAIN all /\ all[p] = first[p]
             /\ \A p \in DOMAIN second :
                  /\ Len(first) + p \in DOMAIN all /\ all[Len(first) + p] = second[p]
             /\ \A p \in DOMAIN all :
                  \/ p \in DOMAIN first /\ all[p] = first[p]
                  \/ p - Len(first) \in DOMAIN second
                     /\ all[p] = second[p - Len(first)]
<1>. DEFINE first == ExpectedFor("sysmetric", con)
            second == FlattenSeq(UnseenPoints(NamesSeen(con), sys))
            all == ExpectedForSysmetricCDB(con, sys)
<1>1. all = first \o second
  BY DEF ExpectedForSysmetricCDB, UnseenPoints, NamesSeen
<1>2. "sysmetric" \in QueryKeys
  BY KeysAre
<1>3. FitSeq("sysmetric", first) /\ FitSeq("sysmetric", second)
  BY <1>2, ExpectedForHolds, UnseenHold
<1>. HIDE DEF first, second, all
<1>4. FitSeq("sysmetric", all)
  BY <1>1, <1>3, FitConcat
<1>5. PICK S : first \in Seq(S)
  BY <1>3 DEF FitSeq, IsSeq
<1>6. PICK T : second \in Seq(T)
  BY <1>3 DEF FitSeq, IsSeq
<1>. DEFINE U == S \cup T
<1>7. first \in Seq(U) /\ second \in Seq(U)
  BY <1>5, <1>6
<1>. HIDE DEF U
<1>8. Len(first) \in Nat
  BY <1>7
<1>9. \A p \in DOMAIN first : p \in DOMAIN all /\ all[p] = first[p]
  BY <1>1, <1>7
<1>10. ASSUME NEW p \in DOMAIN second
       PROVE  Len(first) + p \in DOMAIN all /\ all[Len(first) + p] = second[p]
  BY <1>1, <1>7
<1>11. ASSUME NEW p \in DOMAIN all
       PROVE  \/ p \in DOMAIN first /\ all[p] = first[p]
              \/ p - Len(first) \in DOMAIN second /\ all[p] = second[p - Len(first)]
  BY <1>1, <1>7
<1>. QED  BY <1>1, <1>4, <1>8, <1>9, <1>10, <1>11 DEF first, second, all


-----------------------------------------------------------------------------
(* The control of the loop, and its refinement of QueryByQuery. *)

\* The two statements of sysmetric in CDB mode.
PerPdb == <<"sysmetric", "cdb">>
Instance == <<"sysmetric", "pdb">>

\* Where the probe is, and what it has read and seen fail up to there.
Control ==
  /\ db \in Databases /\ cdb \in BOOLEAN
  /\ next \in 1..11 /\ pass \in {1, 2} /\ reading \in BOOLEAN
  /\ errors \subseteq MayFail(db)
  /\ expected = [k \in DOMAIN expected |-> expected[k]]
  /\ reading => /\ next \in 1..10
                /\ \E n \in 0..Len(db[QuerySQL]) :
                     rows = [i \in 1..n |-> RowMap(db[QuerySQL][i])]
  /\ pass = 2 => /\ next = 8 /\ cdb
                 /\ conRows = IF PerPdb \in errors THEN <<>> ELSE Table(PerPdb)
  /\ \A e \in errors : \/ \E m \in 1..next - 1 : e[1] = AllQueryKeys[m]
                       \/ pass = 2 /\ e = PerPdb

\* The errors that the abstract probe has seen.
errorsSeen == IF pass = 2 THEN errors \ {PerPdb} ELSE errors

\* The query that is asked, of which no statement has been seen to fail.
LEMMA KeyIs ==
  ASSUME Control, next \in 1..10
  PROVE  /\ key \in QueryKeys /\ key = AllQueryKeys[next] /\ (key = "sysmetric" <=> next = 8)
         /\ \A e \in errorsSeen : e[1] # key
         /\ QuerySQL \in AllStatements /\ QuerySQL[1] = key
         /\ Asked!Statements(key) \subseteq AllStatements
         /\ \A st \in Asked!Statements(key) : st[1] = key
<1>1. key \in QueryKeys /\ key = AllQueryKeys[next] /\ (key = "sysmetric" <=> next = 8)
  BY KeysAre DEF key, QueryKeys
<1>2. \A e \in errorsSeen : e[1] # key
  <2>1. ASSUME NEW e \in errorsSeen PROVE \E m \in 1..next - 1 : e[1] = AllQueryKeys[m]
    BY DEF errorsSeen, Control
  <2>2. \A m \in 1..next - 1 : m \in 1..10 /\ AllQueryKeys[m] # AllQueryKeys[next]
    BY KeysAre
  <2>. QED  BY <1>1, <2>1, <2>2
<1>3. QuerySQL \in AllStatements /\ QuerySQL[1] = key
  <2>1. key \in {AllQueryKeys[i] : i \in DOMAIN AllQueryKeys}
    BY <1>1 DEF QueryKeys
  <2>. HIDE DEF key
  <2>. QED  BY <2>1 DEF QuerySQL, AllStatements
<1>4. /\ Asked!Statements(key) \subseteq AllStatements
      /\ \A st \in Asked!Statements(key) : st[1] = key
  <2>1. key \in {AllQueryKeys[i] : i \in DOMAIN AllQueryKeys}
    BY <1>1 DEF QueryKeys
  <2>. QED  BY <2>1 DEF Asked!Statements, Asked!Statement, AllStatements
<1>. QED  BY <1>1, <1>2, <1>3, <1>4

\* The rows of a statement are good,
LEMMA TableIsGood ==
  ASSUME db \in Databases, NEW st \in AllStatements
  PROVE  /\ GoodRows(Table(st)) /\ DOMAIN Table(st) = DOMAIN db[st]
         /\ DOMAIN db[st] = 1..Len(db[st]) /\ Len(db[st]) \in Nat
<1>1. PICK S : db[st] \in Seq(S)
  BY DatabasesAssumption
<1>2. Table(st) \in Seq({RowMap(db[st][i]) : i \in DOMAIN db[st]})
  BY <1>1 DEF Table
<1>3. DOMAIN Table(st) = DOMAIN db[st] /\ DOMAIN db[st] = 1..Len(db[st])
      /\ Len(db[st]) \in Nat
  BY <1>1 DEF Table
<1>4. \A i \in DOMAIN Table(st) : GoodRow(Table(st)[i])
  BY RowsAreGood DEF Table
<1>. QED  BY <1>2, <1>3, <1>4 DEF GoodRows, IsSeq

\* those of one that failed,
LEMMA NoRowsAreGood == GoodRows(<<>>)
<1>1. <<>> \in Seq({}) /\ DOMAIN <<>> = {}
  OBVIOUS
<1>. QED  BY <1>1 DEF GoodRows, IsSeq

\* The rows of a statement that failed or was answered.
Answer(st, good) == IF st \in good THEN Table(st) ELSE <<>>

\* and what the abstract probe takes for its rows.
LEMMA AnswerIsGood ==
  ASSUME db \in Databases, NEW st \in AllStatements, NEW good
  PROVE  GoodRows(Answer(st, good)) /\ Asked!RowsOf(st, good) = Answer(st, good)
<1>1. Asked!RowsOf(st, good) = Answer(st, good)
  BY SameRowMap DEF Asked!RowsOf, Answer, Table
<1>2. GoodRows(Answer(st, good))
  BY TableIsGood, NoRowsAreGood DEF Answer
<1>. QED  BY <1>1, <1>2

\* What PointsFrom is, in the terms of Probe.
LEMMA PointsFromIs ==
  ASSUME db \in Databases, cdb \in BOOLEAN, NEW q \in QueryKeys, NEW good
  PROVE  /\ q = "sysmetric" /\ cdb => Asked!PointsFrom(q, good)
              = ExpectedForSysmetricCDB(Answer(PerPdb, good), Answer(Instance, good))
         /\ ~(q = "sysmetric" /\ cdb) => Asked!PointsFrom(q, good)
              = ExpectedFor(q, Answer(<<q, IF cdb THEN "cdb" ELSE "pdb">>, good))
         /\ FitSeq(q, Asked!PointsFrom(q, good))
<1>1. /\ <<q, IF cdb THEN "cdb" ELSE "pdb">> \in AllStatements
      /\ PerPdb \in AllStatements /\ Instance \in AllStatements
  BY KeysAre DEF AllStatements, QueryKeys, PerPdb, Instance
<1>2. CASE q = "sysmetric" /\ cdb
  <2>1. Asked!PointsFrom(q, good)
          = ExpectedForSysmetricCDB(Answer(PerPdb, good), Answer(Instance, good))
    BY <1>1, <1>2, AnswerIsGood, SameExpectedFor
       DEF Asked!PointsFrom, Asked!Statement, PerPdb, Instance
  <2>2. FitSeq(q, Asked!PointsFrom(q, good))
    BY <1>1, <1>2, <2>1, AnswerIsGood, SysmetricCDBIs
  <2>. QED  BY <1>2, <2>1, <2>2
<1>3. CASE ~(q = "sysmetric" /\ cdb)
  <2>. DEFINE st == <<q, IF cdb THEN "cdb" ELSE "pdb">>
  <2>1. Asked!PointsFrom(q, good) = ExpectedFor(q, Answer(st, good))
    BY <1>1, <1>3, AnswerIsGood, SameExpectedFor DEF Asked!PointsFrom, Asked!Statement
  <2>2. FitSeq(q, Asked!PointsFrom(q, good))
    BY <1>1, <2>1, AnswerIsGood, ExpectedForHolds
  <2>. QED  BY <1>3, <2>1, <2>2
<1>. QED  BY <1>2, <1>3

\* A step that uses the answers to the next query is a step of QueryByQuery.
LEMMA OneQueryAnswered ==
  ASSUME Control, next \in 1..10, next' = next + 1, db' = db, cdb' = cdb,
         NEW bad \in SUBSET Asked!Statements(key),
         PutAll(Asked!PointsFrom(key, Asked!Statements(key) \ bad)),
         errorsSeen' = errorsSeen \cup bad
  PROVE  Asked!AskQuery /\ expected' = [k \in DOMAIN expected' |-> expected'[k]]
<1>. DEFINE ps == Asked!PointsFrom(key, Asked!Statements(key) \ bad)
<1>1. key \in QueryKeys /\ key = AllQueryKeys[next] /\ next \in DOMAIN AllQueryKeys
  BY KeyIs, KeysAre
<1>2. FitSeq(key, ps)
  BY <1>1, PointsFromIs DEF Control
<1>3. PICK S : ps \in Seq(S)
  BY <1>2 DEF FitSeq, IsSeq
<1>4. expected' = FoldLeft(PutPoint, expected, ps)
  BY DEF PutAll
<1>. HIDE DEF ps
<1>5. expected = [k \in DOMAIN expected |-> expected[k]]
  BY DEF Control
<1>6. expected' = Asked!Updated(expected, ps) /\ IsUpdate(expected, ps, Len(ps), expected')
  BY <1>3, <1>4, <1>5, PutAllIsUpdated
<1>7. Asked!AllQueryKeys = AllQueryKeys
  BY DEF Asked!AllQueryKeys, AllQueryKeys
<1>8. expected' = Asked!Updated(expected, Asked!PointsFrom(key, Asked!Statements(key) \ bad))
  BY <1>6 DEF ps
<1>9. Asked!AskQuery
  BY <1>1, <1>7, <1>8 DEF Asked!AskQuery, errorsSeen, PerPdb
<1>10. expected' = [k \in DOMAIN expected' |-> expected'[k]]
  BY <1>6 DEF IsUpdate
<1>. QED  BY <1>9, <1>10

\* The end of a statement, which failed or was read to its end.
LEMMA EndOfStatement ==
  ASSUME Control, reading, NEW failed \in BOOLEAN,
         UseRows(IF failed THEN <<>> ELSE Table(QuerySQL)),
         failed => QuerySQL \in MayFail(db),
         errors' = IF failed THEN errors \cup {QuerySQL} ELSE errors
  PROVE  (Asked!AskQuery \/ UNCHANGED Asked!vars) /\ Control'
<1>. DEFINE rs == IF failed THEN <<>> ELSE Table(QuerySQL)
            bad == IF failed THEN {QuerySQL} ELSE {}
<1>1. /\ next \in 1..10 /\ db' = db /\ cdb' = cdb /\ reading' = FALSE
      /\ errors' = errors \cup bad /\ errors' \subseteq MayFail(db)
  BY DEF Control, UseRows
<1>2. /\ key \in QueryKeys /\ key = AllQueryKeys[next] /\ (key = "sysmetric" <=> next = 8)
      /\ \A e \in errorsSeen : e[1] # key
      /\ QuerySQL \in AllStatements /\ QuerySQL[1] = key
  BY <1>1, KeyIs
<1>3. \A e \in errors' :
        \/ \E m \in 1..next - 1 : e[1] = AllQueryKeys[m]
        \/ pass = 2 /\ e = PerPdb
        \/ e = QuerySQL /\ QuerySQL[1] = AllQueryKeys[next]
  BY <1>1, <1>2 DEF Control
<1>4. CASE TwoPasses /\ pass = 1
  <2>1. pass' = 2 /\ conRows' = rs /\ next' = next /\ expected' = expected
    BY <1>4 DEF UseRows
  <2>2. next = 8 /\ cdb /\ QuerySQL = PerPdb
    BY <1>2, <1>4 DEF TwoPasses, QuerySQL, PerPdb
  <2>3. PerPdb \notin errors
    <3>1. errorsSeen = errors
      BY <1>4 DEF errorsSeen
    <3>. QED  BY <1>2, <2>2, <3>1
  <2>4. errorsSeen' = errorsSeen
    BY <1>1, <1>4, <2>1, <2>2, <2>3 DEF errorsSeen
  <2>5. UNCHANGED Asked!vars
    BY <1>1, <2>1, <2>4 DEF Asked!vars, errorsSeen, PerPdb
  <2>6. conRows' = IF PerPdb \in errors' THEN <<>> ELSE Table(PerPdb)'
    BY <1>1, <2>1, <2>2, <2>3 DEF Table
  <2>7. \A e \in errors' : \/ \E m \in 1..next' - 1 : e[1] = AllQueryKeys[m]
                           \/ pass' = 2 /\ e = PerPdb
    BY <1>3, <2>1, <2>2, <1>4
  <2>. QED  BY <1>1, <2>1, <2>2, <2>5, <2>6, <2>7 DEF Control
<1>5. ASSUME next' = next + 1, pass' = 1,
             QuerySQL[1] = AllQueryKeys[next], PerPdb[1] = AllQueryKeys[next] \/ pass = 1,
             expected' = [k \in DOMAIN expected' |-> expected'[k]]
      PROVE  Control'
  <2>1. \A e \in errors' : \E m \in 1..next' - 1 : e[1] = AllQueryKeys[m]
    <3>1. 1..next - 1 \subseteq 1..next' - 1 /\ next \in 1..next' - 1
      BY <1>1, <1>5
    <3>. QED  BY <1>3, <1>5, <3>1
  <2>2. next' \in 1..11 /\ pass' # 2 /\ pass' \in {1, 2}
    BY <1>1, <1>5
  <2>3. db' \in Databases /\ cdb' \in BOOLEAN /\ errors' \subseteq MayFail(db')
    BY <1>1 DEF Control
  <2>. QED  BY <1>1, <1>5, <2>1, <2>2, <2>3 DEF Control
<1>6. CASE TwoPasses /\ pass = 2
  <2>1. /\ pass' = 1 /\ next' = next + 1
        /\ PutAll(ExpectedForSysmetricCDB(conRows, rs))
    BY <1>6 DEF UseRows
  <2>2. key = "sysmetric" /\ cdb /\ QuerySQL = Instance
    BY <1>6 DEF TwoPasses, QuerySQL, Instance
  <2>. DEFINE both == (errors \cap {PerPdb}) \cup bad
              good == Asked!Statements(key) \ both
  <2>3. Asked!Statements(key) = {PerPdb, Instance} /\ PerPdb # Instance
    BY <2>2 DEF Asked!Statements, Asked!Statement, PerPdb, Instance
  <2>4. both \in SUBSET Asked!Statements(key)
    BY <2>2, <2>3
  <2>5. conRows = Answer(PerPdb, good)
    BY <1>6, <2>2, <2>3 DEF Control, Answer
  <2>6. Instance \notin errors
    <3>1. Instance[1] = "sysmetric"
      BY DEF Instance
    <3>. QED  BY <1>2, <2>2, <2>3, <3>1 DEF errorsSeen
  <2>7. rs = Answer(Instance, good)
    BY <2>2, <2>3, <2>6 DEF Answer
  <2>8. Asked!PointsFrom(key, good) = ExpectedForSysmetricCDB(conRows, rs)
    <3>1. db \in Databases /\ cdb \in BOOLEAN
      BY DEF Control
    <3>. HIDE DEF good, rs
    <3>2. Asked!PointsFrom(key, good)
            = ExpectedForSysmetricCDB(Answer(PerPdb, good), Answer(Instance, good))
      BY <1>2, <2>2, <3>1, PointsFromIs
    <3>. QED  BY <2>5, <2>7, <3>2
  <2>9. errorsSeen' = errorsSeen \cup both
    <3>1. errorsSeen' = errors \cup bad
      BY <1>1, <2>1 DEF errorsSeen
    <3>2. errorsSeen = errors \ {PerPdb}
      BY <1>6 DEF errorsSeen
    <3>. QED  BY <3>1, <3>2
  <2>10. PutAll(Asked!PointsFrom(key, good))
    BY <2>1, <2>8
  <2>. HIDE DEF both, rs
  <2>11. Asked!AskQuery /\ expected' = [k \in DOMAIN expected' |-> expected'[k]]
    BY <1>1, <2>1, <2>4, <2>9, <2>10, OneQueryAnswered
  <2>12. PerPdb[1] = AllQueryKeys[next]
    BY <1>2, <2>2 DEF PerPdb
  <2>. QED  BY <1>2, <1>5, <2>1, <2>11, <2>12
<1>7. CASE ~TwoPasses
  <2>1. next' = next + 1 /\ PutAll(ExpectedFor(key, rs)) /\ pass' = pass
    BY <1>7 DEF UseRows
  <2>2. pass = 1
    BY <1>2, <1>7 DEF Control, TwoPasses
  <2>3. QuerySQL = <<key, IF cdb THEN "cdb" ELSE "pdb">>
    BY <2>2 DEF QuerySQL
  <2>4. Asked!Statements(key) = {QuerySQL}
    BY <1>7, <2>3 DEF Asked!Statements, Asked!Statement, TwoPasses
  <2>. DEFINE good == Asked!Statements(key) \ bad
  <2>5. Asked!PointsFrom(key, good) = ExpectedFor(key, Answer(QuerySQL, good))
    BY <1>2, <1>7, <2>3, PointsFromIs DEF Control, TwoPasses
  <2>6. rs = Answer(QuerySQL, good)
    BY <2>4 DEF Answer
  <2>7. bad \in SUBSET Asked!Statements(key)
    BY <2>4
  <2>8. errorsSeen' = errorsSeen \cup bad
    BY <1>1, <2>1, <2>2 DEF errorsSeen
  <2>9. PutAll(Asked!PointsFrom(key, good))
    BY <2>1, <2>5, <2>6
  <2>. HIDE DEF bad, rs
  <2>10. Asked!AskQuery /\ expected' = [k \in DOMAIN expected' |-> expected'[k]]
    BY <1>1, <2>1, <2>7, <2>8, <2>9, OneQueryAnswered
  <2>. QED  BY <1>2, <1>5, <2>1, <2>2, <2>10
<1>8. (TwoPasses /\ pass = 1) \/ (TwoPasses /\ pass = 2) \/ ~TwoPasses
  BY DEF Control
<1>. QED  BY <1>4, <1>6, <1>7, <1>8

\* Every step is a step of QueryByQuery or one it does not see.
LEMMA StepIsAsked ==
  ASSUME Control, [Next]_vars
  PROVE  (Asked!AskQuery \/ UNCHANGED Asked!vars) /\ Control'
<1>1. ASSUME UNCHANGED <<db, cdb, next, pass, conRows, expected, errors>>,
             reading' \in BOOLEAN,
             reading' => /\ next \in 1..10
                         /\ \E n \in 0..Len(db[QuerySQL]) :
                              rows' = [i \in 1..n |-> RowMap(db[QuerySQL][i])]
      PROVE  (Asked!AskQuery \/ UNCHANGED Asked!vars) /\ Control'
  <2>1. UNCHANGED Asked!vars
    BY <1>1 DEF Asked!vars
  <2>2. QuerySQL' = QuerySQL /\ Table(PerPdb)' = Table(PerPdb)
    BY <1>1 DEF QuerySQL, key, Table
  <2>3. Control'
    BY <1>1, <2>2 DEF Control
  <2>. QED  BY <2>1, <2>3
<1>2. CASE SendQuery
  <2>1. next \in 1..10 /\ rows' = [i \in 1..0 |-> RowMap(db[QuerySQL][i])]
    BY <1>2, KeysAre DEF SendQuery
  <2>2. 0 \in 0..Len(db[QuerySQL])
    <3>1. QuerySQL \in AllStatements
      BY <2>1, KeyIs
    <3>. QED  BY <3>1, TableIsGood DEF Control
  <2>. QED  BY <1>1, <1>2, <2>1, <2>2 DEF SendQuery
<1>3. CASE ScanRow
  <2>1. /\ reading /\ reading' = reading /\ next \in 1..10
        /\ rows' = Append(rows, RowMap(db[QuerySQL][Len(rows) + 1]))
        /\ Len(rows) < Len(db[QuerySQL])
    BY <1>3 DEF ScanRow, Control
  <2>2. PICK n \in 0..Len(db[QuerySQL]) : rows = [i \in 1..n |-> RowMap(db[QuerySQL][i])]
    BY <2>1 DEF Control
  <2>3. Len(db[QuerySQL]) \in Nat
    <3>1. QuerySQL \in AllStatements
      BY <2>1, KeyIs
    <3>. QED  BY <3>1, TableIsGood DEF Control
  <2>4. Len(rows) = n /\ n + 1 \in 0..Len(db[QuerySQL])
    BY <2>1, <2>2, <2>3
  <2>5. rows' = [i \in 1..n + 1 |-> RowMap(db[QuerySQL][i])]
    BY <2>1, <2>2, <2>3, <2>4
  <2>. QED  BY <1>1, <1>3, <2>1, <2>4, <2>5 DEF ScanRow
<1>4. CASE EndRows
  <2>1. reading /\ UseRows(rows) /\ errors' = errors /\ Len(rows) = Len(db[QuerySQL])
    BY <1>4 DEF EndRows
  <2>2. PICK n \in 0..Len(db[QuerySQL]) : rows = [i \in 1..n |-> RowMap(db[QuerySQL][i])]
    BY <2>1 DEF Control
  <2>3. rows = Table(QuerySQL)
    <3>1. QuerySQL \in AllStatements
      BY <2>1, KeyIs DEF Control
    <3>2. DOMAIN db[QuerySQL] = 1..Len(db[QuerySQL]) /\ Len(db[QuerySQL]) \in Nat
      BY <3>1, TableIsGood DEF Control
    <3>3. n = Len(db[QuerySQL])
      BY <2>1, <2>2, <3>2
    <3>. QED  BY <2>2, <3>2, <3>3 DEF Table
  <2>. DEFINE failed == FALSE
  <2>4. /\ failed \in BOOLEAN /\ UseRows(IF failed THEN <<>> ELSE Table(QuerySQL))
        /\ failed => QuerySQL \in MayFail(db)
        /\ errors' = IF failed THEN errors \cup {QuerySQL} ELSE errors
    BY <2>1, <2>3
  <2>. HIDE DEF failed
  <2>. QED  BY <2>1, <2>4, EndOfStatement
<1>5. CASE QueryFails
  <2>. DEFINE failed == TRUE
  <2>1. /\ failed \in BOOLEAN /\ UseRows(IF failed THEN <<>> ELSE Table(QuerySQL))
        /\ (failed => QuerySQL \in MayFail(db)) /\ reading
        /\ errors' = IF failed THEN errors \cup {QuerySQL} ELSE errors
    BY <1>5 DEF QueryFails
  <2>. HIDE DEF failed
  <2>. QED  BY <2>1, EndOfStatement
<1>6. CASE UNCHANGED vars
  <2>1. UNCHANGED <<db, cdb, next, pass, conRows, expected, errors, reading, rows>>
    BY <1>6 DEF vars
  <2>. QED  BY <1>1, <2>1 DEF Control
<1>. QED  BY <1>2, <1>3, <1>4, <1>5, <1>6 DEF Next

\* The probe starts as the abstract one does.
LEMMA InitIsControl == Init => Control /\ Asked!Init
<1>. SUFFICES ASSUME Init PROVE Control /\ Asked!Init
  OBVIOUS
<1>1. Control
  <2>1. <<>> = [k \in DOMAIN <<>> |-> <<>>[k]]
    OBVIOUS
  <2>2. expected = [k \in DOMAIN expected |-> expected[k]]
    BY <2>1, Zenon DEF Init
  <2>3. reading = FALSE /\ pass = 1 /\ errors = {} /\ next = 1 /\ db \in Databases
        /\ cdb \in BOOLEAN
    BY DEF Init
  <2>4. errors \subseteq MayFail(db)
    BY <2>3
  <2>5. \A e \in errors : FALSE
    BY <2>3
  <2>6. next \in 1..11 /\ pass \in {1, 2} /\ pass # 2
    BY <2>3
  <2>7. reading \in BOOLEAN /\ ~reading
    BY <2>3, Zenon
  <2>. QED  BY <2>2, <2>3, <2>4, <2>5, <2>6, <2>7, Zenon DEF Control
<1>2. Asked!Init
  BY DEF Init, Asked!Init
<1>. QED  BY <1>1, <1>2

\* The loop of Probe over queries, passes and rows, with a failure anywhere in
\* a statement, is the abstract probe: what runQuery and runOrLog hand on is a
\* whole answer or nothing, and every failure is named.
THEOREM ProbeAsksQueryByQuery == Spec => ImplementsQueryByQuery
<1>1. Init => Control /\ Asked!Init
  BY InitIsControl
<1>2. Control /\ [Next]_vars => [Asked!AskQuery]_(Asked!vars) /\ Control'
  BY StepIsAsked
<1>. QED  BY <1>1, <1>2, PTL DEF Spec, ImplementsQueryByQuery, Asked!Spec

-----------------------------------------------------------------------------
(* The data: what the map holds. *)

\* The point at i is the last of ps with its key.
IsLastOf(ps, i) == \A o \in DOMAIN ps : Key(ps[o]) = Key(ps[i]) => o <= i

\* The map m is what the sequences of points A leave in it, A[j] those of the
\* query j: all its entries are of A, A's keys are all there, and of two
\* points with one key the later one stays.
IsLeftBy(m, A) ==
  /\ \A k \in DOMAIN m : \E j \in DOMAIN A : \E i \in DOMAIN A[j] :
       m[k] = A[j][i] /\ Key(A[j][i]) = k
  /\ \A j \in DOMAIN A : \A i \in DOMAIN A[j] :
       /\ Key(A[j][i]) \in DOMAIN m
       /\ IsLastOf(A[j], i) => m[Key(A[j][i])] = A[j][i]
  /\ \A j \in DOMAIN A : FitSeq(AllQueryKeys[j], A[j])

\* One more query adds its points to what the map holds.
LEMMA OneMoreQuery ==
  ASSUME NEW n \in 1..10, NEW A, DOMAIN A = 1..n - 1, NEW m, IsLeftBy(m, A),
         NEW ps, FitSeq(AllQueryKeys[n], ps), NEW r, IsUpdate(m, ps, Len(ps), r),
         NEW B, B = [j \in 1..n |-> IF j = n THEN ps ELSE A[j]]
  PROVE  IsLeftBy(r, B)
<1>1. PICK S : ps \in Seq(S)
  BY DEF FitSeq, IsSeq
<1>2. DOMAIN ps = 1..Len(ps) /\ Len(ps) \in Nat
  BY <1>1
<1>3. DOMAIN B = 1..n /\ B[n] = ps /\ \A j \in 1..n - 1 : j \in 1..n /\ B[j] = A[j]
  OBVIOUS
<1>4. DOMAIN r = DOMAIN m \cup {Key(ps[i]) : i \in DOMAIN ps}
  BY <1>2 DEF IsUpdate
<1>5. ASSUME NEW j \in 1..n - 1, NEW i \in DOMAIN A[j], NEW o \in DOMAIN ps
      PROVE  Key(A[j][i]) # Key(ps[o])
  <2>1. AllQueryKeys[j] \in QueryKeys /\ AllQueryKeys[n] \in QueryKeys
        /\ AllQueryKeys[j] # AllQueryKeys[n]
    <3>1. j \in 1..10 /\ j # n
      OBVIOUS
    <3>. QED  BY <3>1, KeysAre DEF QueryKeys
  <2>2. /\ A[j][i].metric \in MetricsOf(AllQueryKeys[j])
        /\ ps[o].metric \in MetricsOf(AllQueryKeys[n])
    BY DEF IsLeftBy, FitSeq, Fits
  <2>3. A[j][i].metric # ps[o].metric
    BY <2>1, <2>2, OneHome
  <2>. QED  BY <2>3 DEF Key
<1>6. ASSUME NEW k \in DOMAIN r
      PROVE  \E j \in DOMAIN B : \E i \in DOMAIN B[j] : r[k] = B[j][i] /\ Key(B[j][i]) = k
  <2>1. CASE \E i \in DOMAIN ps : Key(ps[i]) = k
    <3>1. PICK i \in DOMAIN ps : Key(ps[i]) = k /\ r[k] = ps[i]
      BY <1>2, <2>1 DEF IsUpdate
    <3>. QED  BY <1>3, <3>1
  <2>2. CASE ~\E i \in DOMAIN ps : Key(ps[i]) = k
    <3>1. k \in DOMAIN m /\ r[k] = m[k]
      BY <1>2, <1>4, <2>2 DEF IsUpdate
    <3>2. PICK j \in 1..n - 1 : \E i \in DOMAIN A[j] : m[k] = A[j][i] /\ Key(A[j][i]) = k
      BY <3>1 DEF IsLeftBy
    <3>. QED  BY <1>3, <3>1, <3>2
  <2>. QED  BY <2>1, <2>2
<1>7. ASSUME NEW j \in DOMAIN B, NEW i \in DOMAIN B[j]
      PROVE  /\ Key(B[j][i]) \in DOMAIN r
             /\ IsLastOf(B[j], i) => r[Key(B[j][i])] = B[j][i]
  <2>1. CASE j = n
    <3>1. B[j] = ps /\ i \in DOMAIN ps
      BY <1>3, <2>1
    <3>2. Key(ps[i]) \in DOMAIN r
      BY <1>4, <3>1
    <3>3. ASSUME IsLastOf(ps, i) PROVE r[Key(ps[i])] = ps[i]
      <4>1. PICK o \in DOMAIN ps : /\ Key(ps[o]) = Key(ps[i]) /\ r[Key(ps[i])] = ps[o]
                                   /\ \A l \in DOMAIN ps : Key(ps[l]) = Key(ps[i]) => l <= o
        BY <1>2, <3>1, <3>2 DEF IsUpdate
      <4>2. o <= i /\ i <= o
        BY <3>1, <3>3, <4>1 DEF IsLastOf
      <4>3. o = i
        BY <1>2, <3>1, <4>2
      <4>. QED  BY <4>1, <4>3
    <3>. QED  BY <3>1, <3>2, <3>3
  <2>2. CASE j \in 1..n - 1
    <3>1. B[j] = A[j] /\ i \in DOMAIN A[j]
      BY <1>3, <2>2
    <3>2. /\ Key(A[j][i]) \in DOMAIN m
          /\ IsLastOf(A[j], i) => m[Key(A[j][i])] = A[j][i]
      BY <2>2, <3>1 DEF IsLeftBy
    <3>3. Key(A[j][i]) \in DOMAIN r
      BY <1>4, <3>2
    <3>4. r[Key(A[j][i])] = m[Key(A[j][i])]
      <4>. DEFINE k == Key(A[j][i])
      <4>1. \A o \in 1..Len(ps) : Key(ps[o]) # k
        BY <1>2, <1>5, <2>2, <3>1
      <4>2. k \in DOMAIN r
        BY <3>3
      <4>. HIDE DEF k
      <4>3. r[k] = m[k]
        BY <4>1, <4>2 DEF IsUpdate
      <4>. QED  BY <4>3 DEF k
    <3>. QED  BY <3>1, <3>2, <3>3, <3>4
  <2>3. j = n \/ j \in 1..n - 1
    BY <1>3
  <2>. QED  BY <2>1, <2>2, <2>3
<1>8. \A j \in DOMAIN B : FitSeq(AllQueryKeys[j], B[j])
  <2>1. ASSUME NEW j \in DOMAIN B PROVE FitSeq(AllQueryKeys[j], B[j])
    <3>1. j = n \/ j \in 1..n - 1
      BY <1>3
    <3>. QED  BY <1>3, <3>1 DEF IsLeftBy
  <2>. QED  BY <2>1
<1>. QED  BY <1>6, <1>7, <1>8 DEF IsLeftBy

\* The points that a query has given, as far as the errors seen let it.
AnswerTo(q) == Asked!PointsFrom(q, Asked!Statements(q) \ errorsSeen)

\* The points that the queries behind the probe have given.
Answers == [j \in 1..next - 1 |-> AnswerTo(AllQueryKeys[j])]

\* The map is what they leave in it.
Data == IsLeftBy(expected, Answers)

\* A step of the abstract probe keeps Data,
LEMMA DataGrows ==
  ASSUME Control, Data, Asked!AskQuery
  PROVE  Data'
<1>1. Asked!AllQueryKeys = AllQueryKeys
  BY DEF Asked!AllQueryKeys, AllQueryKeys
<1>2. next \in 1..10 /\ next' = next + 1 /\ db' = db /\ cdb' = cdb
  BY <1>1, KeysAre DEF Asked!AskQuery
<1>3. PICK bad \in SUBSET Asked!Statements(key) :
        /\ expected' = Asked!Updated(expected,
                         Asked!PointsFrom(key, Asked!Statements(key) \ bad))
        /\ errorsSeen' = errorsSeen \cup bad
  BY <1>1 DEF Asked!AskQuery, key, errorsSeen, PerPdb
<1>4. /\ key \in QueryKeys /\ key = AllQueryKeys[next]
      /\ \A e \in errorsSeen : e[1] # key
      /\ \A st \in Asked!Statements(key) : st[1] = key
  BY <1>2, KeyIs
<1>. DEFINE ps == Asked!PointsFrom(key, Asked!Statements(key) \ bad)
<1>5. FitSeq(AllQueryKeys[next], ps)
  BY <1>4, PointsFromIs DEF Control
<1>6. ASSUME NEW q, NEW good
      PROVE  /\ Asked!PointsFrom(q, good)' = Asked!PointsFrom(q, good)
             /\ Asked!Statements(q)' = Asked!Statements(q)
  BY <1>2 DEF Asked!PointsFrom, Asked!RowsOf, Asked!Statements
<1>7. ASSUME NEW q, q = key
      PROVE  AnswerTo(q)' = ps
  <2>1. Asked!Statements(q) \ errorsSeen' = Asked!Statements(q) \ bad
    BY <1>3, <1>4, <1>7
  <2>2. AnswerTo(q)' = Asked!PointsFrom(q, Asked!Statements(q) \ errorsSeen')
    BY <1>2 DEF AnswerTo, Asked!PointsFrom, Asked!RowsOf, Asked!Statements
  <2>. QED  BY <1>7, <2>1, <2>2
<1>8. ASSUME NEW j \in 1..next - 1
      PROVE  AnswerTo(AllQueryKeys[j])' = AnswerTo(AllQueryKeys[j])
  <2>. DEFINE q == AllQueryKeys[j]
  <2>1. j \in 1..10 /\ j # next
    BY <1>2
  <2>2. q \in QueryKeys /\ q # key
    BY <1>2, <1>4, <2>1, KeysAre DEF QueryKeys
  <2>. HIDE DEF q
  <2>3. \A st \in Asked!Statements(q) : st[1] = q
    BY DEF Asked!Statements, Asked!Statement
  <2>4. Asked!Statements(q) \ errorsSeen' = Asked!Statements(q) \ errorsSeen
    BY <1>3, <1>4, <2>2, <2>3
  <2>5. AnswerTo(q)' = Asked!PointsFrom(q, Asked!Statements(q) \ errorsSeen')
    BY <1>2 DEF AnswerTo, Asked!PointsFrom, Asked!RowsOf, Asked!Statements
  <2>. QED  BY <2>4, <2>5 DEF AnswerTo, q
<1>. DEFINE A == Answers
            B == [j \in 1..next |-> IF j = next THEN ps ELSE A[j]]
<1>9. DOMAIN A = 1..next - 1 /\ IsLeftBy(expected, A)
  BY DEF Answers, Data
<1>10. Answers' = B
  <2>1. Answers' = [j \in 1..next' - 1 |-> AnswerTo(AllQueryKeys[j])']
    BY DEF Answers
  <2>2. 1..next' - 1 = 1..next
    BY <1>2
  <2>3. ASSUME NEW j \in 1..next PROVE AnswerTo(AllQueryKeys[j])' = B[j]
    <3>1. CASE j = next
      BY <1>4, <1>7, <3>1
    <3>2. CASE j \in 1..next - 1
      <4>1. B[j] = AnswerTo(AllQueryKeys[j])
        BY <1>2, <3>2 DEF Answers
      <4>. QED  BY <1>8, <3>2, <4>1
    <3>. QED  BY <1>2, <3>1, <3>2
  <2>. HIDE DEF B
  <2>4. B = [j \in 1..next |-> B[j]]
    BY DEF B
  <2>. QED  BY <2>1, <2>2, <2>3, <2>4
<1>11. PICK S : ps \in Seq(S)
  BY <1>5 DEF FitSeq, IsSeq
<1>12. expected = [k \in DOMAIN expected |-> expected[k]]
  BY DEF Control
<1>. HIDE DEF ps, A
<1>13. IsUpdate(expected, ps, Len(ps), expected')
  <2>1. expected' = Asked!Updated(expected, ps)
    BY <1>3 DEF ps
  <2>. QED  BY <1>11, <1>12, <2>1, PutAllIsUpdated
<1>14. IsLeftBy(expected', B)
  BY <1>2, <1>5, <1>9, <1>13, OneMoreQuery
<1>. QED  BY <1>10, <1>14 DEF Data

\* and so does a step it does not see;
LEMMA DataStutters ==
  ASSUME Data, UNCHANGED Asked!vars
  PROVE  Data'
<1>1. /\ db' = db /\ cdb' = cdb /\ next' = next /\ expected' = expected
      /\ errorsSeen' = errorsSeen
  BY DEF Asked!vars, errorsSeen, PerPdb
<1>2. ASSUME NEW q PROVE AnswerTo(q)' = AnswerTo(q)
  BY <1>1 DEF AnswerTo, Asked!PointsFrom, Asked!RowsOf, Asked!Statements
<1>3. Answers' = Answers
  BY <1>1, <1>2 DEF Answers
<1>. QED  BY <1>1, <1>3 DEF Data

\* at the start no query has answered.
LEMMA InitIsData == Init => Data
<1>. SUFFICES ASSUME Init PROVE Data
  OBVIOUS
<1>1. expected = <<>> /\ next = 1
  BY DEF Init
<1>2. DOMAIN Answers = {} /\ DOMAIN expected = {}
  BY <1>1 DEF Answers
<1>. QED  BY <1>2 DEF Data, IsLeftBy

\* The inductive invariant.
IInv == Control /\ Data

\* The invariant holds in every reachable state.
LEMMA SpecKeepsIInv == Spec => []IInv
<1>1. Init => IInv
  BY InitIsControl, InitIsData DEF IInv
<1>2. IInv /\ [Next]_vars => IInv'
  BY StepIsAsked, DataGrows, DataStutters DEF IInv
<1>. QED  BY <1>1, <1>2, PTL DEF Spec

\* Every variable of Probe has its type, the map is filed under the join keys of
\* its points, and only statements that may fail are reported as failed.
THEOREM ProbeTypeOK == Spec => []TypeOK
<1>1. IInv => TypeOK
  <2>. SUFFICES ASSUME IInv PROVE TypeOK
    OBVIOUS
  <2>1. Len(AllQueryKeys) + 1 = 11
    BY KeysAre
  <2>2. ASSUME NEW k \in DOMAIN expected
        PROVE  Key(expected[k]) = k /\ expected[k].value \in Int
    <3>1. PICK j \in DOMAIN Answers : \E i \in DOMAIN Answers[j] :
            expected[k] = Answers[j][i] /\ Key(Answers[j][i]) = k
      BY DEF IInv, Data, IsLeftBy
    <3>2. PICK i \in DOMAIN Answers[j] :
            expected[k] = Answers[j][i] /\ Key(Answers[j][i]) = k
      BY <3>1
    <3>3. Fits(AllQueryKeys[j], Answers[j][i])
      BY DEF IInv, Data, IsLeftBy, FitSeq
    <3>. QED  BY <3>2, <3>3 DEF Fits
  <2>. QED  BY <2>1, <2>2 DEF IInv, Control, TypeOK
<1>. QED  BY <1>1, SpecKeepsIInv, PTL

\* The extractors and the ingest check agree, for every database, on which
\* metrics are counters.
THEOREM ProbeTypesAgree == Spec => []TypesAgree
<1>1. IInv => TypesAgree
  <2>. SUFFICES ASSUME IInv, NEW k \in DOMAIN expected
                PROVE  expected[k].type = ValueTypeOf(expected[k].metric)
    BY DEF TypesAgree
  <2>1. PICK j \in DOMAIN Answers : \E i \in DOMAIN Answers[j] :
          expected[k] = Answers[j][i]
    BY DEF IInv, Data, IsLeftBy
  <2>2. PICK i \in DOMAIN Answers[j] : expected[k] = Answers[j][i]
    BY <2>1
  <2>3. Fits(AllQueryKeys[j], Answers[j][i])
    BY DEF IInv, Data, IsLeftBy, FitSeq
  <2>. QED  BY <2>2, <2>3 DEF Fits
<1>. QED  BY <1>1, SpecKeepsIInv, PTL


-----------------------------------------------------------------------------
(* The two passes of sysmetric. *)

\* The map at the end, query by query.
LEMMA AtTheEnd ==
  ASSUME IInv, done
  PROVE  /\ errorsSeen = errors
         /\ \A k \in DOMAIN expected :
              /\ Key(expected[k]) = k
              /\ \E q \in QueryKeys : \E i \in DOMAIN AnswerTo(q) :
                   expected[k] = AnswerTo(q)[i]
         /\ \A q \in QueryKeys :
              /\ FitSeq(q, AnswerTo(q))
              /\ \A i \in DOMAIN AnswerTo(q) :
                   /\ Key(AnswerTo(q)[i]) \in DOMAIN expected
                   /\ IsLastOf(AnswerTo(q), i) =>
                        expected[Key(AnswerTo(q)[i])] = AnswerTo(q)[i]
<1>1. next = 11 /\ next - 1 = 10
  BY KeysAre DEF done
<1>2. errorsSeen = errors
  BY <1>1 DEF IInv, Control, errorsSeen
<1>3. DOMAIN Answers = 1..10
      /\ \A j \in 1..10 : Answers[j] = AnswerTo(AllQueryKeys[j])
  BY <1>1 DEF Answers
<1>4. \A j \in 1..10 : AllQueryKeys[j] \in QueryKeys
  BY KeysAre DEF QueryKeys
<1>5. ASSUME NEW k \in DOMAIN expected
      PROVE  /\ Key(expected[k]) = k
             /\ \E q \in QueryKeys : \E i \in DOMAIN AnswerTo(q) :
                  expected[k] = AnswerTo(q)[i]
  <2>1. PICK j \in 1..10 : \E i \in DOMAIN Answers[j] :
          expected[k] = Answers[j][i] /\ Key(Answers[j][i]) = k
    BY <1>3 DEF IInv, Data, IsLeftBy
  <2>. QED  BY <1>3, <1>4, <2>1
<1>6. ASSUME NEW q \in QueryKeys
      PROVE  /\ FitSeq(q, AnswerTo(q))
             /\ \A i \in DOMAIN AnswerTo(q) :
                  /\ Key(AnswerTo(q)[i]) \in DOMAIN expected
                  /\ IsLastOf(AnswerTo(q), i) =>
                       expected[Key(AnswerTo(q)[i])] = AnswerTo(q)[i]
  <2>1. PICK j \in 1..10 : q = AllQueryKeys[j]
    BY KeysAre DEF QueryKeys
  <2>2. Answers[j] = AnswerTo(q) /\ j \in DOMAIN Answers
    BY <1>3, <2>1
  <2>. QED  BY <2>1, <2>2 DEF IInv, Data, IsLeftBy
<1>. QED  BY <1>2, <1>5, <1>6

\* What the two passes of sysmetric gave.
LEMMA TwoPassesGave ==
  ASSUME IInv, done, cdb
  PROVE  LET con == IF PerPdb \in errors THEN <<>> ELSE ConRows
             sys == IF Instance \in errors THEN <<>> ELSE SysRows
         IN  /\ AnswerTo("sysmetric") = ExpectedForSysmetricCDB(con, sys)
             /\ GoodRows(con) /\ GoodRows(sys)
<1>1. errorsSeen = errors
  BY AtTheEnd
<1>2. "sysmetric" \in QueryKeys /\ db \in Databases /\ cdb \in BOOLEAN
  BY KeysAre DEF IInv, Control
<1>. DEFINE good == Asked!Statements("sysmetric") \ errors
<1>3. good = {PerPdb, Instance} \ errors
  BY DEF Asked!Statements, Asked!Statement, PerPdb, Instance
<1>4. AnswerTo("sysmetric")
        = ExpectedForSysmetricCDB(Answer(PerPdb, good), Answer(Instance, good))
  BY <1>1, <1>2, PointsFromIs DEF AnswerTo
<1>5. PerPdb \in AllStatements /\ Instance \in AllStatements
  BY KeysAre DEF AllStatements, QueryKeys, PerPdb, Instance
<1>6. GoodRows(Answer(PerPdb, good)) /\ GoodRows(Answer(Instance, good))
  BY <1>2, <1>5, AnswerIsGood
<1>7. /\ Answer(PerPdb, good) = IF PerPdb \in errors THEN <<>> ELSE ConRows
      /\ Answer(Instance, good) = IF Instance \in errors THEN <<>> ELSE SysRows
  BY <1>3 DEF Answer, ConRows, SysRows, PerPdb, Instance
<1>. QED  BY <1>4, <1>6, <1>7

\* The name of a row of sysmetric.
LEMMA NamesAre ==
  ASSUME db \in Databases, NEW st \in {PerPdb, Instance}, NEW i \in DOMAIN Table(st)
  PROVE  /\ asString(Table(st)[i], "METRIC_NAME") = Table(st)[i]["METRIC_NAME"].text
         /\ toFloat(Table(st)[i], "VALUE") = Table(st)[i]["VALUE"].num
<1>1. st \in AllStatements /\ st[1] = "sysmetric"
  BY KeysAre DEF AllStatements, QueryKeys, PerPdb, Instance
<1>2. i \in DOMAIN db[st] /\ Table(st)[i] = RowMap(db[st][i])
  BY DEF Table
<1>3. {"METRIC_NAME", "VALUE"} \subseteq DOMAIN RowMap(db[st][i])
  BY <1>1, <1>2, DatabasesAssumption
<1>. QED  BY <1>2, <1>3 DEF asString, toFloat, Cell

\* The metric of a ratio tells its name.
LEMMA RatioNames ==
  \A n, m \in DOMAIN sysmetricMap : sysmetricMap[n].metric = sysmetricMap[m].metric => n = m
BY RatiosAre, Zenon

\* What the point of a row of sysmetric tells.
LEMMA RatioTells ==
  ASSUME NEW row, GoodRow(row), NEW n \in DOMAIN extractSysmetric(row)
  PROVE  LET name == asString(row, "METRIC_NAME")
         IN  /\ name \in DOMAIN sysmetricMap /\ name # ""
             /\ extractSysmetric(row)[n].metric = sysmetricMap[name].metric
<1>1. Marks("sysmetric", row, extractSysmetric(row)[n])
  BY SysmetricIsGood DEF GoodPoints
<1>. QED  BY <1>1, RatiosAre DEF Marks

\* ExpectedForSysmetricCDB: a metric that the per-PDB view names is expected
\* from its rows only, whatever the instance-wide view holds.
THEOREM ProbePerPdbWins == Spec => []PerPdbWins
<1>1. IInv => PerPdbWins
  <2>. SUFFICES ASSUME IInv, done, cdb, <<"sysmetric", "cdb">> \notin errors,
                       NEW k \in DOMAIN expected,
                       NEW name \in NamesOf(ConRows) \cap DOMAIN sysmetricMap,
                       expected[k].metric = sysmetricMap[name].metric
                PROVE  \E i \in DOMAIN ConRows : \E n \in DOMAIN extractSysmetric(ConRows[i]) :
                         Key(extractSysmetric(ConRows[i])[n]) = k
    BY DEF PerPdbWins
  <2>. DEFINE sys == IF Instance \in errors THEN <<>> ELSE SysRows
              first == ExpectedFor("sysmetric", ConRows)
              second == FlattenSeq(UnseenPoints(NamesSeen(ConRows), sys))
              all == AnswerTo("sysmetric")
  <2>0. db \in Databases /\ "sysmetric" \in QueryKeys
    BY KeysAre DEF IInv, Control
  <2>1. /\ all = ExpectedForSysmetricCDB(ConRows, sys)
        /\ GoodRows(ConRows) /\ GoodRows(sys)
    BY TwoPassesGave DEF PerPdb
  <2>2. PICK q \in QueryKeys : \E i \in DOMAIN AnswerTo(q) : expected[k] = AnswerTo(q)[i]
    BY AtTheEnd
  <2>3. PICK i \in DOMAIN AnswerTo(q) : expected[k] = AnswerTo(q)[i]
    BY <2>2
  <2>4. q = "sysmetric"
    <3>1. expected[k].metric \in MetricsOf(q)
      BY <2>3, AtTheEnd DEF FitSeq, Fits
    <3>2. expected[k].metric \in MetricsOf("sysmetric")
      BY RatiosAre DEF MetricsOf
    <3>. QED  BY <2>0, <3>1, <3>2, OneHome
  <2>. HIDE DEF sys
  <2>5. \/ i \in DOMAIN first /\ all[i] = first[i]
        \/ i - Len(first) \in DOMAIN second /\ all[i] = second[i - Len(first)]
    BY <2>1, <2>3, <2>4, SysmetricCDBIs
  <2>. HIDE DEF all
  <2>6. CASE i \in DOMAIN first /\ all[i] = first[i]
    <3>1. Holds(PointsOfRows("sysmetric", ConRows), first)
      BY <2>0, <2>1, ExpectedForHolds
    <3>2. \A j \in DOMAIN ConRows :
            PointsOfRows("sysmetric", ConRows)[j] = extractSysmetric(ConRows[j])
      BY DEF PointsOfRows, PointsOf
    <3>3. DOMAIN PointsOfRows("sysmetric", ConRows) = DOMAIN ConRows
      BY DEF PointsOfRows
    <3>. HIDE DEF first
    <3>4. PICK j \in DOMAIN ConRows : \E n \in DOMAIN extractSysmetric(ConRows[j]) :
            first[i] = extractSysmetric(ConRows[j])[n]
      BY <2>6, <3>1, <3>2, <3>3 DEF Holds
    <3>5. Key(first[i]) = k
      BY <2>3, <2>4, <2>6, AtTheEnd DEF all
    <3>. QED  BY <3>4, <3>5
  <2>7. CASE i - Len(first) \in DOMAIN second /\ all[i] = second[i - Len(first)]
    <3>. DEFINE seqs == UnseenPoints(NamesSeen(ConRows), sys)
    <3>1. Holds(seqs, second)
      BY <2>1, UnseenHold
    <3>. HIDE DEF second, first
    <3>2. PICK j \in DOMAIN seqs : \E n \in DOMAIN seqs[j] : all[i] = seqs[j][n]
      BY <2>7, <3>1 DEF Holds
    <3>3. PICK n \in DOMAIN seqs[j] : all[i] = seqs[j][n]
      BY <3>2
    <3>4. j \in DOMAIN sys
          /\ seqs[j] = IF asString(sys[j], "METRIC_NAME") \in NamesSeen(ConRows) THEN <<>>
                       ELSE extractSysmetric(sys[j])
      BY DEF UnseenPoints
    <3>. DEFINE other == asString(sys[j], "METRIC_NAME")
    <3>5. other \notin NamesSeen(ConRows) /\ seqs[j] = extractSysmetric(sys[j])
      BY <3>3, <3>4
    <3>6. GoodRow(sys[j])
      BY <2>1, <3>4 DEF GoodRows
    <3>7. n \in DOMAIN extractSysmetric(sys[j])
           /\ all[i] = extractSysmetric(sys[j])[n]
      BY <3>3, <3>5
    <3>. HIDE DEF seqs
    <3>8. /\ other \in DOMAIN sysmetricMap /\ other # ""
          /\ all[i].metric = sysmetricMap[other].metric
      BY <3>7, <3>6, RatioTells, Zenon
    <3>. HIDE DEF other
    <3>9. expected[k] = all[i]
      BY <2>3, <2>4 DEF all
    <3>10. other = name
      BY <3>8, <3>9, RatioNames, Zenon
    <3>11. PICK c \in DOMAIN ConRows : name = ConRows[c]["METRIC_NAME"].text
      BY DEF NamesOf
    <3>12. asString(ConRows[c], "METRIC_NAME") = name
      BY <2>0, <3>11, NamesAre DEF ConRows, PerPdb
    <3>13. other \in NamesSeen(ConRows)
      BY <3>8, <3>10, <3>12, Zenon DEF NamesSeen
    <3>. QED  BY <3>5, <3>13 DEF other
  <2>. QED  BY <2>5, <2>6, <2>7
<1>. QED  BY <1>1, SpecKeepsIInv, PTL

\* A row of sysmetric with a name of the map and a number has a point.
LEMMA RatioHasPoint ==
  ASSUME NEW row, GoodRow(row), asString(row, "METRIC_NAME") \in DOMAIN sysmetricMap,
         toFloat(row, "VALUE") # {}
  PROVE  1 \in DOMAIN extractSysmetric(row)
<1>. DEFINE e == sysmetricMap[asString(row, "METRIC_NAME")]
            nums == Per(toFloat(row, "VALUE"), e.per)
            attrs == e.attrs \cup pdbAttr(row)
<1>1. extractSysmetric(row) = Points(e.metric, attrs, nums, GAUGE)
  BY DEF extractSysmetric
<1>2. IsNum(toFloat(row, "VALUE")) /\ e.per \in {1, 100}
  BY RatiosAre, Zenon DEF GoodRow
<1>3. IsNum(nums)
  BY <1>2, PerIsNum
<1>4. nums # {}
  BY DEF Per
<1>. HIDE DEF nums, attrs, e
<1>. QED  BY <1>1, <1>3, <1>4, PointsAre

\* A point of the last query's passes is the point of an entry of its metric.
LEMMA RatioIsExpected ==
  ASSUME IInv, done, NEW x \in DOMAIN AnswerTo("sysmetric")
  PROVE  \E k \in DOMAIN expected : expected[k].metric = AnswerTo("sysmetric")[x].metric
<1>. DEFINE p == AnswerTo("sysmetric")[x]
<1>1. "sysmetric" \in QueryKeys
  BY KeysAre
<1>2. Key(p) \in DOMAIN expected
  BY <1>1, AtTheEnd
<1>3. Key(expected[Key(p)]) = Key(p)
  BY <1>2, AtTheEnd
<1>. HIDE DEF p
<1>4. expected[Key(p)].metric = p.metric
  BY <1>3 DEF Key
<1>. QED  BY <1>2, <1>4 DEF p

\* ExpectedForSysmetricCDB: what the instance-wide view has a number for is
\* expected, unless the per-PDB view names it and never has a number.
THEOREM ProbeInstanceFillsGaps == Spec => []InstanceFillsGaps
<1>1. IInv => InstanceFillsGaps
  <2>. SUFFICES ASSUME IInv, done, cdb, <<"sysmetric", "pdb">> \notin errors,
                       NEW i \in DOMAIN SysRows,
                       NEW n \in DOMAIN extractSysmetric(SysRows[i])
                PROVE  LET name == SysRows[i]["METRIC_NAME"].text
                           metric == sysmetricMap[name].metric
                       IN \/ \E k \in DOMAIN expected : expected[k].metric = metric
                          \/ /\ <<"sysmetric", "cdb">> \notin errors
                             /\ name \in NamesOf(ConRows)
                             /\ \A j \in DOMAIN ConRows :
                                  ConRows[j]["METRIC_NAME"].text = name =>
                                    ConRows[j]["VALUE"].num = {}
    BY DEF InstanceFillsGaps
  <2>. DEFINE con == IF PerPdb \in errors THEN <<>> ELSE ConRows
              first == ExpectedFor("sysmetric", con)
              second == FlattenSeq(UnseenPoints(NamesSeen(con), SysRows))
              all == AnswerTo("sysmetric")
              name == SysRows[i]["METRIC_NAME"].text
              metric == sysmetricMap[name].metric
  <2>0. db \in Databases /\ "sysmetric" \in QueryKeys
    BY KeysAre DEF IInv, Control
  <2>1. /\ all = ExpectedForSysmetricCDB(con, SysRows)
        /\ GoodRows(con) /\ GoodRows(SysRows)
    BY TwoPassesGave DEF Instance
  <2>2. name = asString(SysRows[i], "METRIC_NAME")
    BY <2>0, NamesAre DEF SysRows, Instance
  <2>3. GoodRow(SysRows[i])
    BY <2>1 DEF GoodRows
  <2>. HIDE DEF name
  <2>4. /\ name \in DOMAIN sysmetricMap /\ name # ""
        /\ extractSysmetric(SysRows[i])[n].metric = metric
    BY <2>2, <2>3, RatioTells, Zenon
  <2>5. ASSUME NEW x \in DOMAIN all, all[x].metric = metric
        PROVE  \E k \in DOMAIN expected : expected[k].metric = metric
    BY <2>5, RatioIsExpected
  <2>6. CASE name \notin NamesSeen(con)
    <3>. DEFINE seqs == UnseenPoints(NamesSeen(con), SysRows)
    <3>1. i \in DOMAIN seqs /\ seqs[i] = extractSysmetric(SysRows[i])
      BY <2>2, <2>6 DEF UnseenPoints
    <3>2. Holds(seqs, second)
      BY <2>1, UnseenHold
    <3>. HIDE DEF seqs, second, first, con, all
    <3>3. PICK p \in DOMAIN second : second[p] = extractSysmetric(SysRows[i])[n]
      BY <3>1, <3>2 DEF Holds
    <3>4. Len(first) + p \in DOMAIN all /\ all[Len(first) + p] = second[p]
      BY <2>1, SysmetricCDBIs DEF first, second
    <3>5. all[Len(first) + p].metric = metric
      BY <2>4, <3>3, <3>4
    <3>. QED  BY <2>5, <3>4, <3>5 DEF name
  <2>7. CASE name \in NamesSeen(con)
    <3>1. PerPdb \notin errors /\ con = ConRows
      <4>1. PICK c \in DOMAIN con : TRUE
        BY <2>7, Zenon DEF NamesSeen
      <4>. QED  BY <4>1
    <3>2. PICK c \in DOMAIN ConRows : asString(ConRows[c], "METRIC_NAME") = name
      BY <2>7, <3>1 DEF NamesSeen
    <3>3. name \in NamesOf(ConRows)
      BY <2>0, <3>2, NamesAre DEF NamesOf, ConRows, PerPdb
    <3>4. CASE \A j \in DOMAIN ConRows :
                 ConRows[j]["METRIC_NAME"].text = name => ConRows[j]["VALUE"].num = {}
      BY <3>1, <3>3, <3>4 DEF name, PerPdb
    <3>5. CASE ~\A j \in DOMAIN ConRows :
                 ConRows[j]["METRIC_NAME"].text = name => ConRows[j]["VALUE"].num = {}
      <4>1. PICK j \in DOMAIN ConRows : /\ ConRows[j]["METRIC_NAME"].text = name
                                        /\ ConRows[j]["VALUE"].num # {}
        BY <3>5
      <4>2. /\ asString(ConRows[j], "METRIC_NAME") = name
            /\ toFloat(ConRows[j], "VALUE") # {}
        BY <2>0, <4>1, NamesAre DEF ConRows, PerPdb
      <4>3. GoodRow(ConRows[j])
        BY <2>1, <3>1 DEF GoodRows
      <4>4. 1 \in DOMAIN extractSysmetric(ConRows[j])
        BY <2>4, <4>2, <4>3, RatioHasPoint
      <4>5. extractSysmetric(ConRows[j])[1].metric = metric
        BY <4>2, <4>3, <4>4, RatioTells, Zenon
      <4>6. Holds(PointsOfRows("sysmetric", ConRows), first)
        BY <2>0, <2>1, <3>1, ExpectedForHolds
      <4>7. /\ j \in DOMAIN PointsOfRows("sysmetric", ConRows)
            /\ PointsOfRows("sysmetric", ConRows)[j] = extractSysmetric(ConRows[j])
        BY DEF PointsOfRows, PointsOf
      <4>. HIDE DEF first, con, all, second
      <4>8. PICK p \in DOMAIN first : first[p] = extractSysmetric(ConRows[j])[1]
        BY <4>4, <4>6, <4>7 DEF Holds
      <4>9. p \in DOMAIN all /\ all[p] = first[p]
        BY <2>1, SysmetricCDBIs DEF first
      <4>10. all[p].metric = metric
        BY <4>5, <4>8, <4>9
      <4>. QED  BY <2>5, <4>9, <4>10 DEF name
    <3>. QED  BY <3>4, <3>5
  <2>. QED  BY <2>6, <2>7
<1>. QED  BY <1>1, SpecKeepsIInv, PTL


-----------------------------------------------------------------------------
(* No point is lost. *)

\* A point of a row is the last of its key in the points of its table, unless a
\* later row has the same names.
LEMMA LastOfItsTable ==
  ASSUME db \in Databases, NEW st \in AllStatements, st[1] \in QueryKeys,
         NEW i \in DOMAIN Table(st),
         \A j \in i + 1..Len(Table(st)) : Identity(Table(st)[j]) # Identity(Table(st)[i]),
         NEW n \in DOMAIN PointsOf(st[1], Table(st)[i])
  PROVE  LET p == PointsOf(st[1], Table(st)[i])[n]
             out == ExpectedFor(st[1], Table(st))
         IN  \E x \in DOMAIN out :
               /\ out[x] = p
               /\ \A o \in DOMAIN out : o > x => Key(out[o]) # Key(p)
<1>. DEFINE q == st[1]
            t == Table(st)
            p == PointsOf(q, t[i])[n]
            out == ExpectedFor(q, t)
            seqs == PointsOfRows(q, t)
<1>1. /\ GoodRows(t) /\ DOMAIN t = DOMAIN db[st]
      /\ DOMAIN db[st] = 1..Len(db[st]) /\ Len(db[st]) \in Nat
  BY TableIsGood
<1>2. DOMAIN t = 1..Len(t) /\ Len(t) \in Nat
  BY <1>1 DEF GoodRows, IsSeq
<1>3. Holds(seqs, out)
  BY <1>1, ExpectedForHolds
<1>4. DOMAIN seqs = DOMAIN t /\ \A j \in DOMAIN t : seqs[j] = PointsOf(q, t[j])
  BY DEF PointsOfRows
<1>5. ASSUME NEW j \in DOMAIN t
      PROVE  GoodPoints(q, t[j], PointsOf(q, t[j]))
  BY <1>1, RowIsGood DEF GoodRows
<1>6. ASSUME NEW j \in DOMAIN t, SameNames(q, t[j], t[i])
      PROVE  Identity(t[j]) = Identity(t[i])
  <2>1. i \in DOMAIN db[st] /\ j \in DOMAIN db[st]
    BY <1>1
  <2>2. t[i] = RowMap(db[st][i]) /\ t[j] = RowMap(db[st][j])
    BY <2>1 DEF Table
  <2>. QED  BY <1>6, <2>1, <2>2, DatabasesAssumption DEF SameNames
<1>. HIDE DEF out, seqs
<1>7. PICK x \in DOMAIN out :
        /\ out[x] = p
        /\ \A o \in DOMAIN out : o > x =>
             \E j \in DOMAIN t : \E l \in DOMAIN PointsOf(q, t[j]) :
               out[o] = PointsOf(q, t[j])[l] /\ (j > i \/ (j = i /\ l > n))
  BY <1>3, <1>4 DEF Holds
<1>8. ASSUME NEW o \in DOMAIN out, o > x, Key(out[o]) = Key(p)
      PROVE  FALSE
  <2>1. PICK j \in DOMAIN t : \E l \in DOMAIN PointsOf(q, t[j]) :
               out[o] = PointsOf(q, t[j])[l] /\ (j > i \/ (j = i /\ l > n))
    BY <1>7, <1>8
  <2>2. PICK l \in DOMAIN PointsOf(q, t[j]) :
               out[o] = PointsOf(q, t[j])[l] /\ (j > i \/ (j = i /\ l > n))
    BY <2>1
  <2>3. CASE j > i
    <3>1. Marks(q, t[j], out[o]) /\ Marks(q, t[i], p)
      BY <1>5, <2>2 DEF GoodPoints
    <3>. HIDE DEF t, q, p
    <3>2. SameNames(q, t[j], t[i])
      BY <1>8, <3>1, KeyTellsNames DEF q
    <3>3. Identity(t[j]) = Identity(t[i])
      BY <1>6, <3>2
    <3>4. j \in i + 1..Len(t)
      BY <1>2, <2>3 DEF t
    <3>. QED  BY <3>3, <3>4 DEF t
  <2>4. CASE j = i /\ l > n
    <3>1. Distinct(PointsOf(q, t[i])) /\ FitSeq(q, PointsOf(q, t[i]))
      BY <1>5 DEF GoodPoints
    <3>2. out[o].metric = p.metric
      BY <1>8 DEF Key
    <3>3. l \in DOMAIN PointsOf(q, t[i]) /\ out[o] = PointsOf(q, t[i])[l]
      BY <2>2, <2>4
    <3>. HIDE DEF t, q
    <3>4. l = n
      BY <3>1, <3>2, <3>3 DEF Distinct, t, q
    <3>5. n \in Int
      BY <3>1 DEF FitSeq, IsSeq, t, q
    <3>. QED  BY <2>4, <3>4, <3>5
  <2>. QED  BY <2>2, <2>3, <2>4
<1>9. \A o \in DOMAIN out : o > x => Key(out[o]) # Key(p)
  BY <1>8
<1>. QED  BY <1>7, <1>9 DEF out

\* The map of Probe loses nothing: for every database, every failure and both
\* modes, a point of an answered statement is at its key at the end, unless a
\* later row of the table has the same names.
THEOREM ProbeEveryRowIsExpected == Spec => []EveryRowIsExpected
<1>1. IInv => EveryRowIsExpected
  <2>1. SUFFICES ASSUME IInv, done, NEW st \in Answered, NEW i \in DOMAIN db[st],
                        NEW t, t = Table(st), NEW ps, ps = PointsOf(st[1], t[i]),
                        \A j \in i + 1..Len(t) : Identity(t[j]) # Identity(t[i]),
                        NEW n \in DOMAIN ps
                 PROVE  Key(ps[n]) \in DOMAIN expected /\ expected[Key(ps[n])] = ps[n]
    BY DEF EveryRowIsExpected
  <2>. DEFINE q == st[1]
              p == ps[n]
              all == AnswerTo(q)
              good == Asked!Statements(q) \ errors
              plain == ExpectedFor(q, t)
  <2>2. /\ db \in Databases /\ cdb \in BOOLEAN /\ errorsSeen = errors
    BY <2>1, AtTheEnd DEF IInv, Control
  <2>3. /\ st = <<q, IF cdb THEN "cdb" ELSE "pdb">> /\ st \notin errors
        /\ q \in QueryKeys /\ st \in AllStatements
    BY DEF Answered, QueryKeys, AllStatements
  <2>4. st \in good /\ (q = "sysmetric" /\ cdb => st = PerPdb)
    BY <2>3 DEF Asked!Statements, Asked!Statement, PerPdb
  <2>5. t = Answer(st, good) /\ GoodRows(t) /\ DOMAIN t = DOMAIN db[st]
    BY <2>1, <2>2, <2>3, <2>4, TableIsGood DEF Answer
  <2>. HIDE DEF good
  <2>6. PICK x \in DOMAIN plain : /\ plain[x] = p
                                  /\ \A o \in DOMAIN plain : o > x => Key(plain[o]) # Key(p)
    <3>1. /\ i \in DOMAIN Table(st) /\ n \in DOMAIN PointsOf(st[1], Table(st)[i])
          /\ \A j \in i + 1..Len(Table(st)) :
               Identity(Table(st)[j]) # Identity(Table(st)[i])
      BY <2>1, <2>5
    <3>2. PICK x \in DOMAIN ExpectedFor(st[1], Table(st)) :
            /\ ExpectedFor(st[1], Table(st))[x] = PointsOf(st[1], Table(st)[i])[n]
            /\ \A o \in DOMAIN ExpectedFor(st[1], Table(st)) : o > x =>
                 Key(ExpectedFor(st[1], Table(st))[o])
                   # Key(PointsOf(st[1], Table(st)[i])[n])
      BY <2>2, <2>3, <3>1, LastOfItsTable
    <3>. QED  BY <2>1, <3>2
  <2>7. FitSeq(q, plain)
    BY <2>3, <2>5, ExpectedForHolds
  <2>. HIDE DEF plain
  <2>8. DOMAIN plain \subseteq Int
    BY <2>7 DEF FitSeq, IsSeq
  <2>9. ASSUME NEW y \in DOMAIN all, all[y] = p,
               \A o \in DOMAIN all : o > y => Key(all[o]) # Key(p)
        PROVE  Key(p) \in DOMAIN expected /\ expected[Key(p)] = p
    <3>1. DOMAIN all \subseteq Int
      BY <2>1, <2>3, AtTheEnd DEF FitSeq, IsSeq
    <3>2. IsLastOf(all, y)
      BY <2>9, <3>1 DEF IsLastOf
    <3>. QED  BY <2>1, <2>3, <2>9, <3>2, AtTheEnd
  <2>10. CASE ~(q = "sysmetric" /\ cdb)
    <3>1. all = plain
      BY <2>2, <2>3, <2>5, <2>10, PointsFromIs DEF AnswerTo, good, plain
    <3>. QED  BY <2>6, <2>9, <3>1
  <2>11. CASE q = "sysmetric" /\ cdb
    <3>. DEFINE sys == IF Instance \in errors THEN <<>> ELSE SysRows
                second == FlattenSeq(UnseenPoints(NamesSeen(t), sys))
                seqs == UnseenPoints(NamesSeen(t), sys)
    <3>1. t = ConRows /\ PerPdb \notin errors
      BY <2>1, <2>3, <2>4, <2>11 DEF ConRows, PerPdb
    <3>2. /\ all = ExpectedForSysmetricCDB(t, sys) /\ GoodRows(sys)
      BY <2>1, <2>11, <3>1, TwoPassesGave
    <3>. HIDE DEF sys
    <3>3. /\ Len(plain) \in Nat
          /\ \A y \in DOMAIN plain : y \in DOMAIN all /\ all[y] = plain[y]
          /\ \A y \in DOMAIN all :
                \/ y \in DOMAIN plain /\ all[y] = plain[y]
                \/ y - Len(plain) \in DOMAIN second /\ all[y] = second[y - Len(plain)]
      BY <2>5, <2>11, <3>2, SysmetricCDBIs DEF plain
    <3>4. Holds(seqs, second)
      BY <3>2, UnseenHold
    <3>. HIDE DEF second, all
    <3>5. GoodRow(t[i]) /\ p \in {extractSysmetric(t[i])[m] : m \in DOMAIN extractSysmetric(t[i])}
      BY <2>1, <2>5, <2>11 DEF GoodRows, PointsOf
    <3>6. ASSUME NEW y \in DOMAIN second PROVE Key(second[y]) # Key(p)
      <4>1. PICK j \in DOMAIN seqs : \E m \in DOMAIN seqs[j] : second[y] = seqs[j][m]
        BY <3>4 DEF Holds
      <4>2. PICK m \in DOMAIN seqs[j] : second[y] = seqs[j][m]
        BY <4>1
      <4>3. j \in DOMAIN sys
            /\ seqs[j] = IF asString(sys[j], "METRIC_NAME") \in NamesSeen(t) THEN <<>>
                         ELSE extractSysmetric(sys[j])
        BY DEF UnseenPoints
      <4>. DEFINE other == asString(sys[j], "METRIC_NAME")
                  name == asString(t[i], "METRIC_NAME")
      <4>4. other \notin NamesSeen(t) /\ seqs[j] = extractSysmetric(sys[j])
        BY <4>2, <4>3
      <4>5. GoodRow(sys[j])
        BY <3>2, <4>3 DEF GoodRows
      <4>6. m \in DOMAIN extractSysmetric(sys[j]) /\ second[y] = extractSysmetric(sys[j])[m]
        BY <4>2, <4>4
      <4>. HIDE DEF seqs
      <4>7. other \in DOMAIN sysmetricMap /\ second[y].metric = sysmetricMap[other].metric
        BY <4>5, <4>6, RatioTells, Zenon
      <4>8. PICK l \in DOMAIN extractSysmetric(t[i]) : p = extractSysmetric(t[i])[l]
        BY <3>5
      <4>9. /\ name \in DOMAIN sysmetricMap /\ name # ""
            /\ p.metric = sysmetricMap[name].metric
        BY <3>5, <4>8, RatioTells, Zenon
      <4>10. name \in NamesSeen(t)
        BY <2>5, <4>9, Zenon DEF NamesSeen
      <4>. HIDE DEF other, name, p
      <4>11. other # name
        BY <4>4, <4>10 DEF other
      <4>12. second[y].metric # p.metric
        BY <4>7, <4>9, <4>11, RatioNames, Zenon
      <4>. QED  BY <4>12 DEF Key
    <3>7. x \in DOMAIN all /\ all[x] = p
      BY <2>6, <3>3
    <3>8. \A o \in DOMAIN all : o > x => Key(all[o]) # Key(p)
      BY <2>6, <3>3, <3>6
    <3>. QED  BY <2>9, <3>7, <3>8 DEF all
  <2>. QED  BY <2>10, <2>11
<1>. QED  BY <1>1, SpecKeepsIInv, PTL
=============================================================================
