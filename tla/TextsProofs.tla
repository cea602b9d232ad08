---------------------------- MODULE TextsProofs -----------------------------
(***************************************************************************)
(* What is proved of the two components that take texts apart and put them *)
(* together, Settings and JoinKeys. They share the lemmas about Texts;     *)
(* each has its own specification, and a theorem is about one of them.     *)
(*                                                                         *)
(* Settings, for every environment and every .env file: the types, that    *)
(* every setting is what the documented grammar of the file and the        *)
(* process environment make it, and what a run that starts can rely on.    *)
(* Two readings of a line have to meet: the code's, which trims the line   *)
(* before it cuts it and the value before it looks for quotes and          *)
(* comments, and the grammar's, which speaks of positions in the line as   *)
(* it stands (DefinedIsAssigned, ValueIsDocumented). The loop over the     *)
(* lines keeps FileLoaded: what is set is what the lines read so far give. *)
(*                                                                         *)
(* JoinKeys, for all finite sets of attribute keys, all values and all     *)
(* hosts: a join key names the attributes it was made of, and the WHERE    *)
(* clause selects the points of the series. The key is a join of sorted    *)
(* parts, the row a split of the key. Sorted puts every part at its rank,  *)
(* and the ranks are a bijection because Less is a total order             *)
(* (LessIsOrder, RankGrows, SortedHasAll). Splitting at the commas undoes  *)
(* the join, by induction over the parts (JoinedIsSplit), and cutting at   *)
(* the first '=' undoes each part (PairIsCut). What is left for the steps  *)
(* is that every point is filed under its own key (Keyed).                 *)
(***************************************************************************)
EXTENDS Settings, JoinKeys, SequenceTheorems, FiniteSetTheorems, WellFoundedInduction,
        TLAPS

-----------------------------------------------------------------------------
(* Induction. *)

\* A set of numbers has a least one.
LEMMA NatMin ==
  ASSUME NEW T, T \subseteq Nat, T # {}
  PROVE  \E m \in T : \A n \in T : m <= n
<1>1. IsWellFoundedOn(OpToRel(<, Nat), Nat)
  BY NatLessThanWellFounded, Zenon
<1>2. PICK m \in T : \A n \in T : <<n, m>> \notin OpToRel(<, Nat)
  BY <1>1, WFMin
<1>3. \A n \in T : ~(n < m)
  BY <1>2 DEF OpToRel
<1>. QED  BY <1>3

\* A set with 0, and with the next of each number it has, has all.
LEMMA NatInductive ==
  ASSUME NEW T, 0 \in T, \A n \in Nat : n \in T => n + 1 \in T
  PROVE  Nat \subseteq T
<1>. SUFFICES ASSUME Nat \ T # {} PROVE FALSE
  OBVIOUS
<1>1. PICK m \in Nat \ T : \A n \in Nat \ T : m <= n
  BY NatMin
<1>. QED  BY <1>1

-----------------------------------------------------------------------------
(* Positions in texts, and trimming. *)

\* A nonempty set of positions has a first one, and Min names it,
LEMMA MinIsFirst ==
  ASSUME NEW n \in Nat, NEW I, I \subseteq 1..n, I # {}
  PROVE  Min(I) \in I /\ \A i \in I : Min(I) <= i
<1>1. IsWellFoundedOn(OpToRel(<, Nat), Nat)
  BY NatLessThanWellFounded, Zenon
<1>. I \subseteq Nat /\ \A i \in I : i \in Nat
  OBVIOUS
<1>2. PICK m \in I : \A i \in I : <<i, m>> \notin OpToRel(<, Nat)
  BY <1>1, WFMin
<1>3. \A i \in I : ~(i < m)
  BY <1>2 DEF OpToRel
<1>. m \in Nat /\ \A i \in I : i \in Nat
  OBVIOUS
<1>4. \A i \in I : m <= i
  <2>. TAKE i \in I
  <2>1. i \in Nat /\ ~(i < m)
    BY <1>3
  <2>. QED  BY <2>1
<1>5. \E x \in I : \A y \in I : x <= y
  BY <1>4
<1>. QED  BY <1>5 DEF Min

\* and a last one, which Max names.
LEMMA MaxIsLast ==
  ASSUME NEW n \in Nat, NEW I, I \subseteq 1..n, I # {}
  PROVE  Max(I) \in I /\ \A i \in I : i <= Max(I)
<1>. DEFINE T == {m \in 1..n : \A i \in I : i <= m}
<1>1. n \in T /\ T \subseteq 1..n
  <2>1. PICK i \in I : TRUE
    OBVIOUS
  <2>2. i \in 1..n
    OBVIOUS
  <2>3. n \in 1..n
    BY <2>2
  <2>. QED  BY <2>3
<1>2. PICK m \in T : \A k \in T : m <= k
  BY <1>1, MinIsFirst
<1>3. m \in I
  <2>. SUFFICES ASSUME m \notin I PROVE FALSE
    OBVIOUS
  <2>1. m \in Nat /\ \A i \in I : i \in 1..n /\ i <= m /\ i # m
    BY <1>2
  <2>2. PICK i \in I : TRUE
    OBVIOUS
  <2>3. m - 1 \in T
    BY <2>1, <2>2
  <2>. QED  BY <1>2, <2>3
<1>4. \E x \in I : \A y \in I : x >= y
  BY <1>2, <1>3
<1>. QED  BY <1>4 DEF Max

\* A stretch of a text.
LEMMA PartIs ==
  ASSUME NEW s \in Seq(Codes), NEW a \in 1..Len(s) + 1, NEW b \in a - 1..Len(s)
  PROVE  /\ SubSeq(s, a, b) \in Seq(Codes) /\ Len(SubSeq(s, a, b)) = b - a + 1
         /\ \A i \in 1..b - a + 1 : SubSeq(s, a, b)[i] = s[a + i - 1]
<1>1. \A i \in a..b : s[i] \in Codes
  OBVIOUS
<1>. QED  BY <1>1, SubSeqProperties

\* A stretch of a stretch is one of the text.
LEMMA PartOfPart ==
  ASSUME NEW s \in Seq(Codes), NEW a \in 1..Len(s) + 1, NEW b \in a - 1..Len(s),
         NEW c \in 1..b - a + 2, NEW d \in c - 1..b - a + 1
  PROVE  SubSeq(SubSeq(s, a, b), c, d) = SubSeq(s, a + c - 1, a + d - 1)
<1>. DEFINE t == SubSeq(s, a, b)
            u == SubSeq(t, c, d)
            v == SubSeq(s, a + c - 1, a + d - 1)
<1>1. /\ t \in Seq(Codes) /\ Len(t) = b - a + 1
      /\ \A i \in 1..b - a + 1 : t[i] = s[a + i - 1]
  BY PartIs
<1>2. /\ v \in Seq(Codes) /\ Len(v) = d - c + 1
      /\ \A i \in 1..d - c + 1 : v[i] = s[a + c - 1 + i - 1]
  <2>1. a + c - 1 \in 1..Len(s) + 1 /\ a + d - 1 \in (a + c - 1) - 1..Len(s)
    OBVIOUS
  <2>2. a + d - 1 - (a + c - 1) + 1 = d - c + 1
    OBVIOUS
  <2>. HIDE DEF v
  <2>3. /\ v \in Seq(Codes) /\ Len(v) = a + d - 1 - (a + c - 1) + 1
        /\ \A i \in 1..a + d - 1 - (a + c - 1) + 1 : v[i] = s[a + c - 1 + i - 1]
    BY <2>1, PartIs DEF v
  <2>. QED  BY <2>2, <2>3
<1>. HIDE DEF t, v
<1>3. /\ u \in Seq(Codes) /\ Len(u) = d - c + 1
      /\ \A i \in 1..d - c + 1 : u[i] = t[c + i - 1]
  BY <1>1, PartIs
<1>. HIDE DEF u
<1>4. \A i \in 1..d - c + 1 : u[i] = v[i]
  <2>. SUFFICES ASSUME NEW i \in 1..d - c + 1 PROVE u[i] = v[i]
    OBVIOUS
  <2>1. u[i] = t[c + i - 1] /\ v[i] = s[a + c - 1 + i - 1]
    BY <1>2, <1>3
  <2>2. t[c + i - 1] = s[a + (c + i - 1) - 1]
    BY <1>1
  <2>3. a + (c + i - 1) - 1 = a + c - 1 + i - 1
    OBVIOUS
  <2>. QED  BY <2>1, <2>2, <2>3
<1>5. u = v
  BY <1>2, <1>3, <1>4, SeqEqual
<1>. QED  BY <1>5 DEF u, v, t

\* The first position of a character, or none.
LEMMA FindIs ==
  ASSUME NEW S, NEW s \in Seq(S), NEW c
  PROVE  \/ Find(c, s) = 0 /\ \A i \in 1..Len(s) : s[i] # c
         \/ /\ Find(c, s) \in 1..Len(s) /\ s[Find(c, s)] = c
            /\ \A i \in 1..Find(c, s) - 1 : s[i] # c
<1>. DEFINE I == {i \in 1..Len(s) : s[i] = c}
<1>1. Find(c, s) = IF I # {} THEN Min(I) ELSE 0
  BY DEF Find, SelectInSeq
<1>2. CASE I = {}
  BY <1>1, <1>2
<1>3. CASE I # {}
  <2>1. I \subseteq 1..Len(s) /\ Len(s) \in Nat
    OBVIOUS
  <2>. HIDE DEF I
  <2>2. Min(I) \in I /\ \A i \in I : Min(I) <= i
    BY <1>3, <2>1, MinIsFirst
  <2>3. \A i \in 1..Min(I) - 1 : i \notin I /\ i \in 1..Len(s)
    <3>1. Min(I) \in 1..Len(s)
      BY <2>1, <2>2
    <3>. QED  BY <2>1, <2>2, <3>1
  <2>. QED  BY <1>1, <1>3, <2>2, <2>3 DEF I
<1>. QED  BY <1>2, <1>3

\* What TrimSpace leaves of the stretch from a to b is from f to l.
Trims(s, a, b, f, l) ==
  /\ f \in a..b /\ l \in f..b
  /\ s[f] # SPACE /\ s[l] # SPACE
  /\ \A i \in a..b : i < f \/ i > l => s[i] = SPACE

\* TrimSpace cuts at the first and the last character that is no space.
LEMMA TrimIs ==
  ASSUME NEW s \in Seq(Codes), NEW f, NEW l, Trims(s, 1, Len(s), f, l)
  PROVE  TrimSpace(s) = SubSeq(s, f, l)
<1>. DEFINE I == {i \in 1..Len(s) : s[i] # SPACE}
<1>1. /\ f \in I /\ l \in I /\ I \subseteq 1..Len(s)
      /\ \A i \in I : f <= i /\ i <= l
  BY DEF Trims
<1>. I # {} /\ Len(s) \in Nat
  BY <1>1
<1>2. Min(I) = f
  <2>. HIDE DEF I
  <2>1. Min(I) \in I /\ \A i \in I : Min(I) <= i
    BY <1>1, MinIsFirst
  <2>2. f <= Min(I) /\ Min(I) <= f /\ f \in 1..Len(s) /\ Min(I) \in 1..Len(s)
    BY <1>1, <2>1
  <2>. QED  BY <2>2
<1>3. Max(I) = l
  <2>. HIDE DEF I
  <2>1. Max(I) \in I /\ \A i \in I : i <= Max(I)
    BY <1>1, MaxIsLast
  <2>2. l <= Max(I) /\ Max(I) <= l /\ l \in 1..Len(s) /\ Max(I) \in 1..Len(s)
    BY <1>1, <2>1
  <2>. QED  BY <2>2
<1>4. SelectInSeq(s, LAMBDA d : d # SPACE) = f
  BY <1>1, <1>2 DEF SelectInSeq
<1>5. SelectLastInSeq(s, LAMBDA d : d # SPACE) = l
  BY <1>1, <1>3 DEF SelectLastInSeq
<1>6. f # 0
  BY <1>1
<1>. QED  BY <1>4, <1>5, <1>6 DEF TrimSpace

\* Nothing is left of spaces.
LEMMA TrimNone ==
  ASSUME NEW s \in Seq(Codes), \A i \in 1..Len(s) : s[i] = SPACE
  PROVE  TrimSpace(s) = <<>>
<1>1. SelectInSeq(s, LAMBDA d : d # SPACE) = 0
  BY DEF SelectInSeq
<1>. QED  BY <1>1 DEF TrimSpace

\* Of a stretch with another character something is left,
LEMMA HasTrim ==
  ASSUME NEW s \in Seq(Codes), NEW a \in 1..Len(s) + 1, NEW b \in a - 1..Len(s),
         \E i \in a..b : s[i] # SPACE
  PROVE  \E f, l \in a..b : Trims(s, a, b, f, l)
<1>. DEFINE I == {i \in a..b : s[i] # SPACE}
<1>1. I \subseteq 1..Len(s) /\ I # {} /\ Len(s) \in Nat
  OBVIOUS
<1>2. Min(I) \in I /\ \A i \in I : Min(I) <= i
  BY <1>1, MinIsFirst
<1>3. Max(I) \in I /\ \A i \in I : i <= Max(I)
  BY <1>1, MaxIsLast
<1>. DEFINE f == Min(I)
            l == Max(I)
<1>. HIDE DEF f, l
<1>4. f \in I /\ l \in I /\ \A i \in I : f <= i /\ i <= l
  BY <1>2, <1>3 DEF f, l
<1>5. Trims(s, a, b, f, l)
  BY <1>4 DEF Trims
<1>. QED  BY <1>4, <1>5

\* and TrimSpace leaves just that.
LEMMA TrimPart ==
  ASSUME NEW s \in Seq(Codes), NEW a \in 1..Len(s) + 1, NEW b \in a - 1..Len(s),
         NEW f, NEW l, Trims(s, a, b, f, l)
  PROVE  TrimSpace(SubSeq(s, a, b)) = SubSeq(s, f, l)
<1>. DEFINE t == SubSeq(s, a, b)
            g == f - a + 1
            m == l - a + 1
<1>1. /\ t \in Seq(Codes) /\ Len(t) = b - a + 1
      /\ \A i \in 1..b - a + 1 : t[i] = s[a + i - 1]
  BY PartIs
<1>. HIDE DEF t
<1>2. f \in a..b /\ l \in f..b
  BY DEF Trims
<1>3. g \in 1..Len(t) /\ m \in g..Len(t)
  BY <1>1, <1>2
<1>4. t[g] = s[f] /\ t[m] = s[l]
  <2>1. a + g - 1 = f /\ a + m - 1 = l
    BY <1>2
  <2>2. g \in 1..b - a + 1 /\ m \in 1..b - a + 1
    BY <1>1, <1>3
  <2>. HIDE DEF g, m
  <2>. QED  BY <1>1, <2>1, <2>2
<1>5. \A i \in 1..Len(t) : i < g \/ i > m => t[i] = SPACE
  <2>. SUFFICES ASSUME NEW i \in 1..Len(t), i < g \/ i > m PROVE t[i] = SPACE
    OBVIOUS
  <2>1. a + i - 1 \in a..b /\ (a + i - 1 < f \/ a + i - 1 > l)
    BY <1>1, <1>2
  <2>2. s[a + i - 1] = SPACE
    BY <2>1 DEF Trims
  <2>. QED  BY <1>1, <2>2
<1>6. Trims(t, 1, Len(t), g, m)
  BY <1>3, <1>4, <1>5 DEF Trims
<1>7. TrimSpace(t) = SubSeq(t, g, m)
  BY <1>1, <1>6, TrimIs
<1>8. SubSeq(t, g, m) = SubSeq(s, a + g - 1, a + m - 1)
  <2>1. g \in 1..b - a + 2 /\ m \in g - 1..b - a + 1
    BY <1>2
  <2>. HIDE DEF g, m
  <2>. QED  BY <2>1, PartOfPart DEF t
<1>9. a + g - 1 = f /\ a + m - 1 = l
  BY <1>2
<1>. QED  BY <1>7, <1>8, <1>9 DEF t

\* A stretch of a text, which may be empty.
IsPart(s, a, b) ==
  s \in Seq(Codes) /\ a \in 1..Len(s) + 1 /\ b \in a - 1..Len(s)

\* Trimming the stretch from a to b leaves that from f to l.
Leaves(s, a, b, f, l) == TrimSpace(SubSeq(s, a, b)) = SubSeq(s, f, l)

\* TrimPart in these words.
LEMMA TrimsPart ==
  ASSUME NEW s, NEW a, NEW b, NEW f, NEW l, IsPart(s, a, b), Trims(s, a, b, f, l)
  PROVE  Leaves(s, a, b, f, l)
<1>1. s \in Seq(Codes) /\ a \in 1..Len(s) + 1 /\ b \in a - 1..Len(s)
  BY DEF IsPart
<1>2. TrimSpace(SubSeq(s, a, b)) = SubSeq(s, f, l)
  BY <1>1, TrimPart
<1>. QED  BY <1>2 DEF Leaves

\* Of a stretch of spaces nothing is left.
LEMMA TrimPartNone ==
  ASSUME NEW s \in Seq(Codes), NEW a \in 1..Len(s) + 1, NEW b \in a - 1..Len(s),
         \A i \in a..b : s[i] = SPACE
  PROVE  TrimSpace(SubSeq(s, a, b)) = <<>>
<1>. DEFINE t == SubSeq(s, a, b)
<1>1. /\ t \in Seq(Codes) /\ Len(t) = b - a + 1
      /\ \A i \in 1..b - a + 1 : t[i] = s[a + i - 1]
  BY PartIs
<1>. HIDE DEF t
<1>2. \A i \in 1..Len(t) : t[i] = SPACE
  BY <1>1
<1>3. TrimSpace(t) = <<>>
  BY <1>1, <1>2, TrimNone
<1>. QED  BY <1>3 DEF t

-----------------------------------------------------------------------------
(* What a line sets, and what it defines. *)

\* TrimSpace gives a text, and leaves none of it if there is nothing but spaces.
LEMMA TrimType ==
  ASSUME NEW s \in Seq(Codes)
  PROVE  /\ TrimSpace(s) \in Seq(Codes)
         /\ TrimSpace(s) # <<>> =>
              \E f, l \in 1..Len(s) :
                Trims(s, 1, Len(s), f, l) /\ TrimSpace(s) = SubSeq(s, f, l)
<1>. Len(s) \in Nat
  OBVIOUS
<1>1. CASE \A i \in 1..Len(s) : s[i] = SPACE
  <2>1. TrimSpace(s) = <<>>
    BY <1>1, TrimNone
  <2>2. <<>> \in Seq(Codes)
    OBVIOUS
  <2>. QED  BY <2>1, <2>2
<1>2. CASE \E i \in 1..Len(s) : s[i] # SPACE
  <2>0. 1 \in 1..Len(s) + 1 /\ Len(s) \in 1 - 1..Len(s)
    OBVIOUS
  <2>1. PICK f, l \in 1..Len(s) : Trims(s, 1, Len(s), f, l)
    BY <1>2, <2>0, HasTrim
  <2>2. TrimSpace(s) = SubSeq(s, f, l)
    BY <2>1, TrimIs
  <2>3. f \in 1..Len(s) + 1 /\ l \in f - 1..Len(s)
    BY <2>1 DEF Trims
  <2>4. SubSeq(s, f, l) \in Seq(Codes)
    BY <2>3, PartIs
  <2>. QED  BY <2>1, <2>2, <2>4
<1>. QED  BY <1>1, <1>2

\* The value of a text is a text.
LEMMA ValueType ==
  ASSUME NEW v \in Seq(Codes)
  PROVE  ValueOf(v) \in Seq(Codes)
<1>1. CASE v = <<>>
  BY <1>1 DEF ValueOf
<1>2. CASE v # <<>> /\ Head(v) \in {DQUOTE, SQUOTE}
  <2>. DEFINE c == Head(v)
              t == Tail(v)
              p == Find(c, t)
  <2>1. t \in Seq(Codes) /\ Len(t) \in Nat
    BY <1>2, HeadTailProperties
  <2>2. ValueOf(v) = IF p = 0 THEN t ELSE SubSeq(t, 1, p - 1)
    BY <1>2 DEF ValueOf, Before
  <2>. HIDE DEF t, c
  <2>3. p = 0 \/ p \in 1..Len(t)
    BY <2>1, FindIs
  <2>. HIDE DEF p
  <2>4. p # 0 => SubSeq(t, 1, p - 1) \in Seq(Codes)
    <3>. SUFFICES ASSUME p \in 1..Len(t) PROVE SubSeq(t, 1, p - 1) \in Seq(Codes)
      BY <2>3
    <3>1. 1 \in 1..Len(t) + 1 /\ p - 1 \in 1 - 1..Len(t)
      BY <2>1
    <3>. QED  BY <2>1, <3>1, PartIs
  <2>. QED  BY <2>1, <2>2, <2>4
<1>3. CASE v # <<>> /\ Head(v) \notin {DQUOTE, SQUOTE}
  <2>. DEFINE comments == {i \in 1..Len(v) - 1 : v[i] = SPACE /\ v[i + 1] = HASH}
              comment == CHOOSE i \in comments : \A j \in comments : i <= j
  <2>1. ValueOf(v) = IF comments = {} THEN v ELSE TrimSpace(SubSeq(v, 1, comment - 1))
    BY <1>3 DEF ValueOf
  <2>2. comments # {} => comment \in 1..Len(v)
    <3>. SUFFICES ASSUME comments # {} PROVE comment \in 1..Len(v)
      OBVIOUS
    <3>1. comments \subseteq 1..Len(v) /\ Len(v) \in Nat
      OBVIOUS
    <3>. HIDE DEF comments
    <3>2. Min(comments) \in comments /\ \A i \in comments : Min(comments) <= i
      BY <3>1, MinIsFirst
    <3>3. \E i \in comments : \A j \in comments : i <= j
      BY <3>2
    <3>4. comment \in comments
      BY <3>3
    <3>. QED  BY <3>1, <3>4
  <2>. HIDE DEF comments, comment
  <2>3. comments # {} => TrimSpace(SubSeq(v, 1, comment - 1)) \in Seq(Codes)
    <3>. SUFFICES ASSUME comment \in 1..Len(v)
                  PROVE  TrimSpace(SubSeq(v, 1, comment - 1)) \in Seq(Codes)
      BY <2>2
    <3>1. 1 \in 1..Len(v) + 1 /\ comment - 1 \in 1 - 1..Len(v)
      OBVIOUS
    <3>. DEFINE u == SubSeq(v, 1, comment - 1)
    <3>2. u \in Seq(Codes)
      BY <3>1, PartIs
    <3>. HIDE DEF u
    <3>3. TrimSpace(u) \in Seq(Codes)
      BY <3>2, TrimType
    <3>. QED  BY <3>3 DEF u
  <2>. QED  BY <2>1, <2>3
<1>. QED  BY <1>1, <1>2, <1>3

\* The first '=' of a line.
FirstEquals(raw, e) ==
  /\ e \in 1..Len(raw) /\ raw[e] = EQUALS
  /\ \A i \in 1..e - 1 : raw[i] # EQUALS

\* The two sides of it.
LeftOf(raw, e) == TrimSpace(SubSeq(raw, 1, e - 1))
RightOf(raw, e) == SubSeq(raw, e + 1, Len(raw))

\* A line defines what stands in front of its first '='.
LEMMA DefinesIs ==
  ASSUME NEW raw \in Seq(Codes), NEW n, NEW r
  PROVE  Defines(raw, n, r) <=>
           \E e : FirstEquals(raw, e) /\ LeftOf(raw, e) = n /\ r = RightOf(raw, e)
<1>1. ASSUME NEW e \in 1..Len(raw)
      PROVE  EQUALS \notin ToSet(SubSeq(raw, 1, e - 1))
               <=> \A i \in 1..e - 1 : raw[i] # EQUALS
  <2>. DEFINE u == SubSeq(raw, 1, e - 1)
  <2>1. 1 \in 1..Len(raw) + 1 /\ e - 1 \in 1 - 1..Len(raw) /\ e - 1 - 1 + 1 = e - 1
    OBVIOUS
  <2>2. /\ u \in Seq(Codes) /\ Len(u) = e - 1 - 1 + 1
        /\ \A i \in 1..e - 1 - 1 + 1 : u[i] = raw[1 + i - 1]
    BY <2>1, PartIs
  <2>. HIDE DEF u
  <2>3. DOMAIN u = 1..e - 1 /\ \A i \in 1..e - 1 : u[i] = raw[i]
    BY <2>1, <2>2
  <2>4. EQUALS \notin ToSet(u) <=> \A i \in 1..e - 1 : u[i] # EQUALS
    BY <2>3 DEF ToSet
  <2>. QED  BY <2>3, <2>4 DEF u
<1>2. DOMAIN raw = 1..Len(raw)
  OBVIOUS
<1>. QED  BY <1>1, <1>2, Zenon DEF Defines, FirstEquals, LeftOf, RightOf

\* A line without '=' sets nothing,
LEMMA NoEqualsNothing ==
  ASSUME NEW raw \in Seq(Codes), \A i \in 1..Len(raw) : raw[i] # EQUALS
  PROVE  Assigns(raw) = {}
<1>. DEFINE line == TrimSpace(raw)
<1>1. line \in Seq(Codes)
  BY TrimType
<1>2. line # <<>> => \A i \in 1..Len(line) : line[i] # EQUALS
  <2>. SUFFICES ASSUME line # <<>>, NEW i \in 1..Len(line) PROVE line[i] # EQUALS
    OBVIOUS
  <2>1. PICK f, l \in 1..Len(raw) : Trims(raw, 1, Len(raw), f, l) /\ line = SubSeq(raw, f, l)
    BY TrimType
  <2>. HIDE DEF line
  <2>2. f \in 1..Len(raw) + 1 /\ l \in f - 1..Len(raw) /\ l >= f
    BY <2>1 DEF Trims
  <2>3. Len(line) = l - f + 1 /\ \A j \in 1..l - f + 1 : line[j] = raw[f + j - 1]
    BY <2>1, <2>2, PartIs
  <2>4. f + i - 1 \in 1..Len(raw)
    BY <2>2, <2>3
  <2>. QED  BY <2>3, <2>4
<1>. HIDE DEF line
<1>3. line = <<>> \/ Find(EQUALS, line) = 0
  <2>1. CASE line = <<>>
    BY <2>1
  <2>2. CASE line # <<>>
    BY <1>1, <1>2, <2>2, FindIs
  <2>. QED  BY <2>1, <2>2
<1>. QED  BY <1>3 DEF Assigns, line

\* and one with '=' the name in front of it to the value behind it, unless it is
\* a comment.
LEMMA AssignsIs ==
  ASSUME NEW raw \in Seq(Codes), NEW e, FirstEquals(raw, e)
  PROVE  \E f, l \in 1..Len(raw) :
           /\ Trims(raw, 1, Len(raw), f, l) /\ f <= e /\ e <= l
           /\ Assigns(raw) =
                IF raw[f] = HASH THEN {}
                ELSE {<<LeftOf(raw, e), ValueOf(TrimSpace(RightOf(raw, e)))>>}
<1>. DEFINE line == TrimSpace(raw)
<1>0. e \in 1..Len(raw) /\ raw[e] # SPACE /\ Len(raw) \in Nat
  BY DEF FirstEquals, EQUALS, SPACE
<1>1. 1 \in 1..Len(raw) + 1 /\ Len(raw) \in 1 - 1..Len(raw)
  BY <1>0
<1>2. PICK f, l \in 1..Len(raw) : Trims(raw, 1, Len(raw), f, l)
  BY <1>0, <1>1, HasTrim
<1>3. f <= e /\ e <= l /\ f <= l
  BY <1>0, <1>2 DEF Trims
<1>4. line = SubSeq(raw, f, l)
  BY <1>2, TrimIs
<1>. HIDE DEF line
<1>5. f \in 1..Len(raw) + 1 /\ l \in f - 1..Len(raw)
  BY <1>2, <1>3
<1>6. /\ line \in Seq(Codes) /\ Len(line) = l - f + 1
      /\ \A j \in 1..l - f + 1 : line[j] = raw[f + j - 1]
  BY <1>4, <1>5, PartIs
<1>. DEFINE p == Find(EQUALS, line)
            q == e - f + 1
<1>7. p = q
  <2>1. q \in 1..Len(line) /\ line[q] = EQUALS
    <3>1. q \in 1..l - f + 1 /\ f + q - 1 = e
      BY <1>0, <1>3
    <3>. HIDE DEF q
    <3>. QED  BY <1>6, <3>1 DEF FirstEquals
  <2>2. \A j \in 1..q - 1 : line[j] # EQUALS
    <3>. SUFFICES ASSUME NEW j \in 1..q - 1 PROVE line[j] # EQUALS
      OBVIOUS
    <3>1. j \in 1..l - f + 1 /\ f + j - 1 \in 1..e - 1
      BY <1>0, <1>3
    <3>. HIDE DEF q
    <3>. QED  BY <1>6, <3>1 DEF FirstEquals
  <2>3. p \in 1..Len(line) /\ line[p] = EQUALS /\ \A j \in 1..p - 1 : line[j] # EQUALS
    BY <1>6, <2>1, FindIs
  <2>. HIDE DEF p, q
  <2>4. ~(p < q) /\ ~(q < p)
    BY <2>1, <2>2, <2>3
  <2>. QED  BY <2>1, <2>3, <2>4
<1>8. line # <<>> /\ line[1] = raw[f] /\ p # 0
  <2>1. 1 \in 1..l - f + 1 /\ f + 1 - 1 = f /\ q # 0 /\ Len(line) # 0
    BY <1>3, <1>6, <1>0
  <2>2. line # <<>>
    BY <2>1
  <2>. QED  BY <1>6, <1>7, <2>1, <2>2
<1>9. TrimSpace(Before(EQUALS, line)) = LeftOf(raw, e)
  <2>1. Before(EQUALS, line) = SubSeq(line, 1, q - 1)
    BY <1>7 DEF Before
  <2>2. 1 \in 1..l - f + 2 /\ q - 1 \in 1 - 1..l - f + 1
    BY <1>0, <1>3
  <2>3. SubSeq(line, 1, q - 1) = SubSeq(raw, f + 1 - 1, f + (q - 1) - 1)
    <3>. HIDE DEF q
    <3>. QED  BY <1>4, <1>5, <2>2, PartOfPart
  <2>4. f + 1 - 1 = f /\ f + (q - 1) - 1 = e - 1
    BY <1>0
  <2>5. Before(EQUALS, line) = SubSeq(raw, f, e - 1)
    BY <2>1, <2>3, <2>4
  <2>6. f \in 1..Len(raw) + 1 /\ e - 1 \in f - 1..Len(raw)
    BY <1>0, <1>3
  <2>7. 1 \in 1..Len(raw) + 1 /\ e - 1 \in 1 - 1..Len(raw)
    BY <1>0
  <2>8. CASE \A i \in f..e - 1 : raw[i] = SPACE
    <3>1. \A i \in 1..e - 1 : raw[i] = SPACE
      <4>. SUFFICES ASSUME NEW i \in 1..e - 1 PROVE raw[i] = SPACE
        OBVIOUS
      <4>1. i < f \/ i \in f..e - 1
        BY <1>0
      <4>2. i \in 1..Len(raw)
        BY <1>0
      <4>. QED  BY <1>2, <2>8, <4>1, <4>2 DEF Trims
    <3>2. TrimSpace(SubSeq(raw, f, e - 1)) = <<>>
      BY <2>6, <2>8, TrimPartNone
    <3>3. TrimSpace(SubSeq(raw, 1, e - 1)) = <<>>
      BY <2>7, <3>1, TrimPartNone
    <3>. QED  BY <2>5, <3>2, <3>3 DEF LeftOf
  <2>9. CASE \E i \in f..e - 1 : raw[i] # SPACE
    <3>1. PICK g, m \in f..e - 1 : Trims(raw, f, e - 1, g, m)
      BY <2>6, <2>9, HasTrim
    <3>2. Trims(raw, 1, e - 1, g, m)
      <4>1. g \in 1..e - 1 /\ m \in g..e - 1 /\ raw[g] # SPACE /\ raw[m] # SPACE
        BY <1>0, <1>3, <3>1 DEF Trims
      <4>2. ASSUME NEW i \in 1..e - 1, i < g \/ i > m PROVE raw[i] = SPACE
        <5>1. i < f \/ i \in f..e - 1
          BY <1>0
        <5>2. i \in 1..Len(raw)
          BY <1>0
        <5>. QED  BY <1>2, <3>1, <4>2, <5>1, <5>2 DEF Trims
      <4>. QED  BY <4>1, <4>2 DEF Trims
    <3>3. TrimSpace(SubSeq(raw, f, e - 1)) = SubSeq(raw, g, m)
      <4>1. IsPart(raw, f, e - 1)
        BY <2>6 DEF IsPart
      <4>2. Leaves(raw, f, e - 1, g, m)
        BY <3>1, <4>1, TrimsPart
      <4>. QED  BY <4>2 DEF Leaves
    <3>4. TrimSpace(SubSeq(raw, 1, e - 1)) = SubSeq(raw, g, m)
      <4>1. IsPart(raw, 1, e - 1)
        BY <2>7 DEF IsPart
      <4>2. Leaves(raw, 1, e - 1, g, m)
        BY <3>2, <4>1, TrimsPart
      <4>. QED  BY <4>2 DEF Leaves
    <3>. QED  BY <2>5, <3>3, <3>4 DEF LeftOf
  <2>. QED  BY <2>8, <2>9
<1>10. TrimSpace(After(EQUALS, line)) = TrimSpace(RightOf(raw, e))
  <2>1. After(EQUALS, line) = SubSeq(line, q + 1, l - f + 1)
    BY <1>6, <1>7 DEF After
  <2>2. q + 1 \in 1..l - f + 2 /\ l - f + 1 \in (q + 1) - 1..l - f + 1
    BY <1>0, <1>3
  <2>3. SubSeq(line, q + 1, l - f + 1) = SubSeq(raw, f + (q + 1) - 1, f + (l - f + 1) - 1)
    <3>. HIDE DEF q
    <3>. QED  BY <1>4, <1>5, <2>2, PartOfPart
  <2>4. f + (q + 1) - 1 = e + 1 /\ f + (l - f + 1) - 1 = l
    BY <1>0
  <2>5. After(EQUALS, line) = SubSeq(raw, e + 1, l)
    BY <2>1, <2>3, <2>4
  <2>6. e + 1 \in 1..Len(raw) + 1 /\ l \in (e + 1) - 1..Len(raw)
    BY <1>0, <1>3
  <2>7. e + 1 \in 1..Len(raw) + 1 /\ Len(raw) \in (e + 1) - 1..Len(raw)
    BY <1>0
  <2>8. CASE \A i \in e + 1..l : raw[i] = SPACE
    <3>1. \A i \in e + 1..Len(raw) : raw[i] = SPACE
      <4>. SUFFICES ASSUME NEW i \in e + 1..Len(raw) PROVE raw[i] = SPACE
        OBVIOUS
      <4>1. i > l \/ i \in e + 1..l
        BY <1>0
      <4>2. i \in 1..Len(raw)
        BY <1>0
      <4>. QED  BY <1>2, <2>8, <4>1, <4>2 DEF Trims
    <3>2. TrimSpace(SubSeq(raw, e + 1, l)) = <<>>
      BY <2>6, <2>8, TrimPartNone
    <3>3. TrimSpace(SubSeq(raw, e + 1, Len(raw))) = <<>>
      BY <2>7, <3>1, TrimPartNone
    <3>. QED  BY <2>5, <3>2, <3>3 DEF RightOf
  <2>9. CASE \E i \in e + 1..l : raw[i] # SPACE
    <3>1. PICK g, m \in e + 1..l : Trims(raw, e + 1, l, g, m)
      BY <2>6, <2>9, HasTrim
    <3>2. Trims(raw, e + 1, Len(raw), g, m)
      <4>1. /\ g \in e + 1..Len(raw) /\ m \in g..Len(raw)
            /\ raw[g] # SPACE /\ raw[m] # SPACE
        BY <1>0, <1>3, <3>1 DEF Trims
      <4>2. ASSUME NEW i \in e + 1..Len(raw), i < g \/ i > m PROVE raw[i] = SPACE
        <5>1. i > l \/ i \in e + 1..l
          BY <1>0
        <5>2. i \in 1..Len(raw)
          BY <1>0
        <5>. QED  BY <1>2, <3>1, <4>2, <5>1, <5>2 DEF Trims
      <4>. QED  BY <4>1, <4>2 DEF Trims
    <3>3. TrimSpace(SubSeq(raw, e + 1, l)) = SubSeq(raw, g, m)
      <4>1. IsPart(raw, e + 1, l)
        BY <2>6 DEF IsPart
      <4>2. Leaves(raw, e + 1, l, g, m)
        BY <3>1, <4>1, TrimsPart
      <4>. QED  BY <4>2 DEF Leaves
    <3>4. TrimSpace(SubSeq(raw, e + 1, Len(raw))) = SubSeq(raw, g, m)
      <4>1. IsPart(raw, e + 1, Len(raw))
        BY <2>7 DEF IsPart
      <4>2. Leaves(raw, e + 1, Len(raw), g, m)
        BY <3>2, <4>1, TrimsPart
      <4>. QED  BY <4>2 DEF Leaves
    <3>. QED  BY <2>5, <3>3, <3>4 DEF RightOf
  <2>. QED  BY <2>8, <2>9
<1>11. Assigns(raw) = IF raw[f] = HASH THEN {}
                      ELSE {<<LeftOf(raw, e), ValueOf(TrimSpace(RightOf(raw, e)))>>}
  <2>1. Assigns(raw) =
          IF line = <<>> \/ line[1] = HASH \/ p = 0 THEN {}
          ELSE {<<TrimSpace(Before(EQUALS, line)),
                  ValueOf(TrimSpace(After(EQUALS, line)))>>}
    BY DEF Assigns, line
  <2>. HIDE DEF p
  <2>. QED  BY <1>8, <1>9, <1>10, <2>1
<1>. QED  BY <1>2, <1>3, <1>11

\* Names are not empty and no comments.
LEMMA NamesAreNames == \A n \in Names : n # <<>> /\ n[1] # HASH
BY DEF Names, Required, Numbers, HOST, SERVICE, USER, PASSWORD, PATH, FORMAT, MODE,
   PORT, TOLGAUGE, TOLCOUNTER, EPSILON, INTERVAL, WINDOW, APIKEY, ACCOUNT, URL, SCOPE,
   HASH

\* The text behind the first '='.
LEMMA RightIs ==
  ASSUME NEW raw \in Seq(Codes), NEW e, FirstEquals(raw, e)
  PROVE  RightOf(raw, e) \in Seq(Codes) /\ \A n : RightOf(raw, e) \in Rests(raw, n)
<1>1. e + 1 \in 1..Len(raw) + 1 /\ Len(raw) \in (e + 1) - 1..Len(raw)
      /\ e + 1 \in 2..Len(raw) + 1
  BY DEF FirstEquals
<1>2. RightOf(raw, e) \in Seq(Codes)
  <2>. DEFINE a == e + 1
              b == Len(raw)
  <2>1. a \in 1..Len(raw) + 1 /\ b \in a - 1..Len(raw)
    BY <1>1
  <2>. HIDE DEF a, b
  <2>2. SubSeq(raw, a, b) \in Seq(Codes)
    BY <2>1, PartIs
  <2>. QED  BY <2>2 DEF RightOf, a, b
<1>3. \A n : RightOf(raw, e) \in Rests(raw, n)
  BY <1>1, Zenon DEF RightOf, Rests
<1>. QED  BY <1>2, <1>3

\* A line sets nothing, or one name to a text; it defines the name it sets.
LEMMA AssignsType ==
  ASSUME NEW raw \in Seq(Codes)
  PROVE  /\ \/ Assigns(raw) = {}
            \/ \E n, v : v \in Seq(Codes) /\ Assigns(raw) = {<<n, v>>}
         /\ \A a \in Assigns(raw) : \E r \in Rests(raw, a[1]) : Defines(raw, a[1], r)
<1>1. CASE \A i \in 1..Len(raw) : raw[i] # EQUALS
  BY <1>1, NoEqualsNothing
<1>2. CASE \E i \in 1..Len(raw) : raw[i] = EQUALS
  <2>. DEFINE I == {i \in 1..Len(raw) : raw[i] = EQUALS}
  <2>1. I # {} /\ I \subseteq 1..Len(raw) /\ Len(raw) \in Nat
    BY <1>2
  <2>2. Min(I) \in I /\ \A i \in I : Min(I) <= i
    <3>. HIDE DEF I
    <3>. QED  BY <2>1, MinIsFirst
  <2>. DEFINE e == Min(I)
  <2>3. FirstEquals(raw, e)
    <3>. HIDE DEF e
    <3>1. e \in 1..Len(raw) /\ raw[e] = EQUALS
      BY <2>2 DEF e
    <3>2. ASSUME NEW i \in 1..e - 1 PROVE raw[i] # EQUALS
      <4>1. i \in 1..Len(raw) /\ ~(e <= i)
        BY <3>1
      <4>. QED  BY <2>2, <4>1 DEF e
    <3>. QED  BY <3>1, <3>2 DEF FirstEquals
  <2>. HIDE DEF e
  <2>. DEFINE v == ValueOf(TrimSpace(RightOf(raw, e)))
              n == LeftOf(raw, e)
  <2>4. v \in Seq(Codes)
    <3>1. RightOf(raw, e) \in Seq(Codes)
      BY <2>3, RightIs
    <3>2. TrimSpace(RightOf(raw, e)) \in Seq(Codes)
      BY <3>1, TrimType
    <3>. QED  BY <3>2, ValueType
  <2>5. Assigns(raw) = {} \/ Assigns(raw) = {<<n, v>>}
    BY <2>3, AssignsIs
  <2>6. Defines(raw, n, RightOf(raw, e)) /\ RightOf(raw, e) \in Rests(raw, n)
    BY <2>3, DefinesIs, RightIs
  <2>7. ASSUME NEW a \in Assigns(raw)
        PROVE  \E r \in Rests(raw, a[1]) : Defines(raw, a[1], r)
    <3>1. a[1] = n
      <4>. HIDE DEF n, v
      <4>. QED  BY <2>5
    <3>. DEFINE rest == RightOf(raw, e)
    <3>2. Defines(raw, a[1], rest) /\ rest \in Rests(raw, a[1])
      BY <2>6, <3>1, Zenon
    <3>. HIDE DEF rest, n, v
    <3>. QED  BY <3>2
  <2>. HIDE DEF n, v
  <2>. QED  BY <2>4, <2>5, <2>7
<1>. QED  BY <1>1, <1>2

\* A line that defines the name of a setting sets it.
LEMMA DefinedIsAssigned ==
  ASSUME NEW raw \in Seq(Codes), NEW n \in Names, NEW r, Defines(raw, n, r)
  PROVE  /\ Assigns(raw) = {<<n, ValueOf(TrimSpace(r))>>}
         /\ r \in Seq(Codes) /\ r \in Rests(raw, n)
<1>1. PICK e : FirstEquals(raw, e) /\ LeftOf(raw, e) = n /\ r = RightOf(raw, e)
  BY DefinesIs
<1>2. PICK f, l \in 1..Len(raw) :
        /\ Trims(raw, 1, Len(raw), f, l) /\ f <= e /\ e <= l
        /\ Assigns(raw) = IF raw[f] = HASH THEN {}
                          ELSE {<<LeftOf(raw, e), ValueOf(TrimSpace(RightOf(raw, e)))>>}
  BY <1>1, AssignsIs
<1>3. n # <<>> /\ n[1] # HASH
  BY NamesAreNames
<1>4. 1 \in 1..Len(raw) + 1 /\ e - 1 \in 1 - 1..Len(raw) /\ e \in 1..Len(raw)
  BY <1>1 DEF FirstEquals
<1>5. \E i \in 1..e - 1 : raw[i] # SPACE
  <2>. SUFFICES ASSUME \A i \in 1..e - 1 : raw[i] = SPACE PROVE FALSE
    OBVIOUS
  <2>1. TrimSpace(SubSeq(raw, 1, e - 1)) = <<>>
    BY <1>4, TrimPartNone
  <2>. QED  BY <1>1, <1>3, <2>1 DEF LeftOf
<1>6. PICK g, m \in 1..e - 1 : Trims(raw, 1, e - 1, g, m)
  BY <1>4, <1>5, HasTrim
<1>7. n = SubSeq(raw, g, m)
  <2>1. IsPart(raw, 1, e - 1)
    BY <1>4 DEF IsPart
  <2>3. Leaves(raw, 1, e - 1, g, m)
    BY <1>6, <2>1, TrimsPart
  <2>2. TrimSpace(SubSeq(raw, 1, e - 1)) = SubSeq(raw, g, m)
    BY <2>3 DEF Leaves
  <2>. QED  BY <1>1, <2>2 DEF LeftOf
<1>8. n[1] = raw[g]
  <2>1. g \in 1..Len(raw) + 1 /\ m \in g - 1..Len(raw) /\ 1 \in 1..m - g + 1 /\ g + 1 - 1 = g
    BY <1>4, <1>6 DEF Trims
  <2>2. \A i \in 1..m - g + 1 : SubSeq(raw, g, m)[i] = raw[g + i - 1]
    BY <2>1, PartIs
  <2>. QED  BY <1>7, <2>1, <2>2
<1>9. f = g
  <2>1. raw[f] # SPACE /\ raw[g] # SPACE
    BY <1>2, <1>6 DEF Trims
  <2>2. ~(g < f)
    <3>1. g \in 1..Len(raw)
      BY <1>4
    <3>. QED  BY <1>2, <2>1, <3>1 DEF Trims
  <2>3. ~(f < g)
    <3>1. f < g => f \in 1..e - 1
      BY <1>4
    <3>. QED  BY <1>6, <2>1, <3>1 DEF Trims
  <2>. QED  BY <2>2, <2>3
<1>10. Assigns(raw) = {<<n, ValueOf(TrimSpace(r))>>}
  BY <1>1, <1>2, <1>3, <1>8, <1>9
<1>. QED  BY <1>1, <1>10, RightIs

-----------------------------------------------------------------------------
(* What a value is, and what it is documented to be. *)

\* The least position of a set of positions.
LeastOf(S) == CHOOSE i \in S : \A j \in S : i <= j

\* There is one if there is a position at all.
LEMMA LeastIs ==
  ASSUME NEW n \in Nat, NEW S, S \subseteq 1..n, S # {}
  PROVE  LeastOf(S) \in S /\ \A j \in S : LeastOf(S) <= j
<1>1. Min(S) \in S /\ \A i \in S : Min(S) <= i
  BY MinIsFirst
<1>2. \E i \in S : \A j \in S : i <= j
  BY <1>1
<1>. QED  BY <1>2 DEF LeastOf

\* The two readings of a value, with names for their parts.
Comments(v) == {i \in 1..Len(v) - 1 : v[i] = SPACE /\ v[i + 1] = HASH}
Closing(t) == {i \in 2..Len(t) : t[i] = t[1]}
Hashes(rest) == {i \in 2..Len(rest) : rest[i] = HASH /\ rest[i - 1] = SPACE}
LeastOr(S, else) == IF S = {} THEN else ELSE LeastOf(S)

\* ValueOf and DocumentedValue in these names.
LEMMA ReadingsAre ==
  /\ \A v : ValueOf(v) =
       CASE v = <<>> -> v
         [] v # <<>> /\ Head(v) \in {DQUOTE, SQUOTE} ->
              IF Find(Head(v), Tail(v)) = 0 THEN Tail(v) ELSE Before(Head(v), Tail(v))
         [] OTHER -> IF Comments(v) = {} THEN v
                     ELSE TrimSpace(SubSeq(v, 1, LeastOf(Comments(v)) - 1))
  /\ \A rest : DocumentedValue(rest) =
       LET t == TrimSpace(rest)
       IN IF Quoted(rest) THEN SubSeq(t, 2, LeastOr(Closing(t), Len(t) + 1) - 1)
          ELSE TrimSpace(SubSeq(rest, 1, LeastOr(Hashes(rest), Len(rest) + 1) - 1))
<1>1. ASSUME NEW v
      PROVE  ValueOf(v) =
       CASE v = <<>> -> v
         [] v # <<>> /\ Head(v) \in {DQUOTE, SQUOTE} ->
              IF Find(Head(v), Tail(v)) = 0 THEN Tail(v) ELSE Before(Head(v), Tail(v))
         [] OTHER -> IF Comments(v) = {} THEN v
                     ELSE TrimSpace(SubSeq(v, 1, LeastOf(Comments(v)) - 1))
  BY Zenon DEF ValueOf, Comments, LeastOf
<1>2. ASSUME NEW rest
      PROVE  DocumentedValue(rest) =
       LET t == TrimSpace(rest)
       IN IF Quoted(rest) THEN SubSeq(t, 2, LeastOr(Closing(t), Len(t) + 1) - 1)
          ELSE TrimSpace(SubSeq(rest, 1, LeastOr(Hashes(rest), Len(rest) + 1) - 1))
  BY Zenon DEF DocumentedValue, Closing, Hashes, LeastOr, LeastOf
<1>. QED  BY <1>1, <1>2, Zenon

\* An opening quote.
LEMMA QuotedValue ==
  ASSUME NEW t \in Seq(Codes), t # <<>>, t[1] \in {DQUOTE, SQUOTE}
  PROVE  ValueOf(t) = SubSeq(t, 2, LeastOr(Closing(t), Len(t) + 1) - 1)
<1>. DEFINE c == t[1]
            u == Tail(t)
            p == Find(c, u)
<1>1. Head(t) = c /\ Len(t) \in Nat /\ Len(t) >= 1
  OBVIOUS
<1>2. ValueOf(t) = IF p = 0 THEN u ELSE SubSeq(u, 1, p - 1)
  <2>1. ValueOf(t) = IF Find(Head(t), Tail(t)) = 0 THEN Tail(t) ELSE Before(Head(t), Tail(t))
    BY <1>1, ReadingsAre, Zenon
  <2>. QED  BY <1>1, <2>1 DEF Before
<1>3. /\ u = SubSeq(t, 2, Len(t))
      /\ u \in Seq(Codes) /\ Len(u) = Len(t) - 1
      /\ \A i \in 1..Len(t) - 1 : u[i] = t[i + 1]
  BY TailIsSubSeq, HeadTailProperties
<1>. HIDE DEF u, c
<1>4. \/ p = 0 /\ \A i \in 1..Len(u) : u[i] # c
      \/ p \in 1..Len(u) /\ u[p] = c /\ \A i \in 1..p - 1 : u[i] # c
  <2>1. u \in Seq(Codes)
    BY <1>3
  <2>. QED  BY <2>1, FindIs
<1>. HIDE DEF p
<1>5. Closing(t) \subseteq 1..Len(t)
  BY <1>1 DEF Closing
<1>6. CASE p = 0
  <2>1. Closing(t) = {}
    <3>. SUFFICES ASSUME NEW i \in Closing(t) PROVE FALSE
      OBVIOUS
    <3>1. i \in 2..Len(t) /\ t[i] = c
      BY DEF Closing, c
    <3>2. i - 1 \in 1..Len(u) /\ (i - 1) + 1 = i
      BY <1>1, <1>3, <3>1
    <3>3. u[i - 1] = t[(i - 1) + 1]
      BY <1>3, <3>2
    <3>. QED  BY <1>4, <1>6, <3>1, <3>2, <3>3
  <2>2. LeastOr(Closing(t), Len(t) + 1) - 1 = Len(t)
    BY <1>1, <2>1 DEF LeastOr
  <2>. QED  BY <1>2, <1>3, <1>6, <2>2
<1>7. CASE p \in 1..Len(u) /\ u[p] = c /\ \A i \in 1..p - 1 : u[i] # c
  <2>1. p + 1 \in Closing(t)
    <3>1. p + 1 \in 2..Len(t) /\ p \in 1..Len(t) - 1
      BY <1>1, <1>3, <1>7
    <3>2. t[p + 1] = c
      BY <1>3, <1>7, <3>1
    <3>. QED  BY <3>1, <3>2 DEF Closing, c
  <2>2. LeastOf(Closing(t)) \in Closing(t) /\ \A j \in Closing(t) : LeastOf(Closing(t)) <= j
    BY <1>1, <1>5, <2>1, LeastIs
  <2>. DEFINE m == LeastOf(Closing(t))
  <2>3. m \in 2..Len(t) /\ t[m] = c /\ m <= p + 1
    BY <2>1, <2>2 DEF Closing, c
  <2>. HIDE DEF m
  <2>4. m - 1 \in 1..Len(t) - 1 /\ (m - 1) + 1 = m
    BY <1>1, <2>3
  <2>5. u[m - 1] = c
    BY <1>3, <2>3, <2>4
  <2>6. m = p + 1
    <3>1. ~(m - 1 < p)
      BY <1>7, <2>4, <2>5
    <3>. QED  BY <1>1, <1>3, <1>7, <2>3, <3>1
  <2>7. LeastOr(Closing(t), Len(t) + 1) - 1 = p
    BY <1>1, <1>7, <2>1, <2>6 DEF LeastOr, m
  <2>8. SubSeq(u, 1, p - 1) = SubSeq(t, 2, p)
    <3>1. /\ 2 \in 1..Len(t) + 1 /\ Len(t) \in 2 - 1..Len(t)
          /\ 1 \in 1..Len(t) - 2 + 2 /\ p - 1 \in 1 - 1..Len(t) - 2 + 1
      BY <1>1, <1>3, <1>7
    <3>2. SubSeq(SubSeq(t, 2, Len(t)), 1, p - 1) = SubSeq(t, 2 + 1 - 1, 2 + (p - 1) - 1)
      BY <3>1, PartOfPart
    <3>3. 2 + 1 - 1 = 2 /\ 2 + (p - 1) - 1 = p
      BY <1>7
    <3>. QED  BY <1>3, <3>2, <3>3
  <2>9. p # 0
    BY <1>7
  <2>. QED  BY <1>2, <2>7, <2>8, <2>9
<1>. QED  BY <1>4, <1>6, <1>7

\* No quote: the comments of the trimmed value are those of the whole.
LEMMA PlainValue ==
  ASSUME NEW rest \in Seq(Codes), NEW f, NEW l, Trims(rest, 1, Len(rest), f, l),
         f = 1 \/ rest[f] # HASH
  PROVE  LET t == TrimSpace(rest)
         IN (IF Comments(t) = {} THEN t
             ELSE TrimSpace(SubSeq(t, 1, LeastOf(Comments(t)) - 1)))
            = TrimSpace(SubSeq(rest, 1, LeastOr(Hashes(rest), Len(rest) + 1) - 1))
<1>. DEFINE t == TrimSpace(rest)
<1>1. Len(rest) \in Nat /\ f \in 1..Len(rest) /\ l \in f..Len(rest)
  BY DEF Trims
<1>2. t = SubSeq(rest, f, l)
  BY TrimIs
<1>3. f \in 1..Len(rest) + 1 /\ l \in f - 1..Len(rest)
  BY <1>1
<1>. HIDE DEF t
<1>4. /\ t \in Seq(Codes) /\ Len(t) = l - f + 1
      /\ \A j \in 1..l - f + 1 : t[j] = rest[f + j - 1]
  BY <1>2, <1>3, PartIs
<1>5. ASSUME NEW i \in Hashes(rest) PROVE i - f \in Comments(t) /\ i >= f + 2
  <2>1. i \in 2..Len(rest) /\ rest[i] = HASH /\ rest[i - 1] = SPACE
    BY DEF Hashes
  <2>2. rest[i] # SPACE
    BY <2>1 DEF HASH, SPACE
  <2>3. f <= i /\ i <= l
    BY <1>1, <2>1, <2>2 DEF Trims
  <2>4. i # f
    BY <1>1, <2>1
  <2>5. i - 1 # f
    BY <2>1 DEF Trims
  <2>6. i - f \in 1..Len(t) - 1 /\ i - f \in 1..l - f + 1 /\ i - f + 1 \in 1..l - f + 1
    BY <1>1, <1>4, <2>1, <2>3, <2>4
  <2>7. f + (i - f) - 1 = i - 1 /\ f + (i - f + 1) - 1 = i
    BY <1>1, <2>1
  <2>8. t[i - f] = rest[i - 1] /\ t[i - f + 1] = rest[i]
    BY <1>4, <2>6, <2>7
  <2>. QED  BY <1>1, <2>1, <2>3, <2>4, <2>5, <2>6, <2>8 DEF Comments
<1>6. ASSUME NEW i \in Comments(t) PROVE i + f \in Hashes(rest)
  <2>1. i \in 1..Len(t) - 1 /\ t[i] = SPACE /\ t[i + 1] = HASH
    BY DEF Comments
  <2>2. i \in 1..l - f + 1 /\ i + 1 \in 1..l - f + 1
    BY <1>1, <1>4, <2>1
  <2>3. f + i - 1 = (i + f) - 1 /\ f + (i + 1) - 1 = i + f
    BY <1>1, <2>1
  <2>4. rest[(i + f) - 1] = SPACE /\ rest[i + f] = HASH
    BY <1>4, <2>1, <2>2, <2>3
  <2>5. i + f \in 2..Len(rest)
    BY <1>1, <1>4, <2>1
  <2>. QED  BY <2>4, <2>5 DEF Hashes
<1>7. Comments(t) \subseteq 1..Len(t) /\ Hashes(rest) \subseteq 1..Len(rest) /\ Len(t) \in Nat
  BY <1>1, <1>4 DEF Comments, Hashes
<1>8. CASE Comments(t) = {}
  <2>1. Hashes(rest) = {}
    BY <1>5, <1>8
  <2>2. LeastOr(Hashes(rest), Len(rest) + 1) - 1 = Len(rest)
    BY <1>1, <2>1 DEF LeastOr
  <2>3. SubSeq(rest, 1, Len(rest)) = rest
    BY SubSeqFull
  <2>. QED  BY <1>8, <2>2, <2>3 DEF t
<1>9. CASE Comments(t) # {}
  <2>. DEFINE c == LeastOf(Comments(t))
              h == LeastOf(Hashes(rest))
  <2>1. c \in Comments(t) /\ \A j \in Comments(t) : c <= j
    BY <1>7, <1>9, LeastIs
  <2>2. c + f \in Hashes(rest)
    BY <1>6, <2>1
  <2>3. h \in Hashes(rest) /\ \A j \in Hashes(rest) : h <= j
    BY <1>1, <1>7, <2>2, LeastIs
  <2>. HIDE DEF c, h
  <2>4. h - f \in Comments(t) /\ h >= f + 2
    BY <1>5, <2>3
  <2>5. h = c + f
    <3>1. h <= c + f /\ c <= h - f
      BY <2>1, <2>2, <2>3, <2>4
    <3>2. h \in Nat /\ c \in Nat /\ f \in Nat
      BY <1>1, <1>7, <2>1, <2>3
    <3>. QED  BY <3>1, <3>2
  <2>6. h \in 2..Len(rest) /\ rest[h - 1] = SPACE
    BY <2>3 DEF Hashes
  <2>7. SubSeq(t, 1, c - 1) = SubSeq(rest, f, h - 2)
    <3>1. 1 \in 1..l - f + 2 /\ c - 1 \in 1 - 1..l - f + 1
      BY <1>1, <1>4, <2>1 DEF Comments
    <3>2. SubSeq(SubSeq(rest, f, l), 1, c - 1) = SubSeq(rest, f + 1 - 1, f + (c - 1) - 1)
      BY <1>3, <3>1, PartOfPart
    <3>3. f + 1 - 1 = f /\ f + (c - 1) - 1 = h - 2
      BY <1>1, <1>7, <2>1, <2>5
    <3>. QED  BY <1>2, <3>2, <3>3
  <2>8. f \in 1..Len(rest) + 1 /\ h - 2 \in f - 1..Len(rest) /\ f \in f..h - 2
    BY <1>1, <2>4, <2>6
  <2>9. PICK g, m \in f..h - 2 : Trims(rest, f, h - 2, g, m)
    <3>1. rest[f] # SPACE
      BY DEF Trims
    <3>. QED  BY <2>8, <3>1, HasTrim
  <2>10. 1 \in 1..Len(rest) + 1 /\ h - 1 \in 1 - 1..Len(rest)
    BY <1>1, <2>6
  <2>11. Trims(rest, 1, h - 1, g, m)
    <3>1. g \in 1..h - 1 /\ m \in g..h - 1 /\ rest[g] # SPACE /\ rest[m] # SPACE
      BY <1>1, <2>6, <2>9 DEF Trims
    <3>2. ASSUME NEW i \in 1..h - 1, i < g \/ i > m PROVE rest[i] = SPACE
      <4>1. i < f \/ i \in f..h - 2 \/ i = h - 1
        BY <1>1, <2>6
      <4>2. i \in 1..Len(rest)
        BY <1>1, <2>6
      <4>3. CASE i < f
        BY <4>2, <4>3 DEF Trims
      <4>4. CASE i \in f..h - 2
        BY <2>9, <3>2, <4>4 DEF Trims
      <4>5. CASE i = h - 1
        BY <2>6, <4>5
      <4>. QED  BY <4>1, <4>3, <4>4, <4>5
    <3>. QED  BY <3>1, <3>2 DEF Trims
  <2>12. TrimSpace(SubSeq(rest, f, h - 2)) = SubSeq(rest, g, m)
    <3>1. IsPart(rest, f, h - 2)
      BY <2>8, <2>9 DEF IsPart
    <3>2. Leaves(rest, f, h - 2, g, m)
      BY <2>8, <2>9, <3>1, TrimsPart
    <3>. QED  BY <3>2 DEF Leaves
  <2>13. TrimSpace(SubSeq(rest, 1, h - 1)) = SubSeq(rest, g, m)
    <3>1. IsPart(rest, 1, h - 1)
      BY <2>10, <2>11 DEF IsPart
    <3>2. Leaves(rest, 1, h - 1, g, m)
      BY <2>10, <2>11, <3>1, TrimsPart
    <3>. QED  BY <3>2 DEF Leaves
  <2>14. LeastOr(Hashes(rest), Len(rest) + 1) - 1 = h - 1
    BY <2>3 DEF LeastOr, h
  <2>. QED  BY <1>9, <2>7, <2>12, <2>13, <2>14 DEF c, t
<1>. QED  BY <1>8, <1>9 DEF t

\* What LoadDotenv makes of a value is what its grammar says.
LEMMA ValueIsDocumented ==
  ASSUME NEW rest \in Seq(Codes), ~OnlyComment(rest)
  PROVE  ValueOf(TrimSpace(rest)) = DocumentedValue(rest)
<1>. DEFINE t == TrimSpace(rest)
<1>0. t \in Seq(Codes) /\ Len(rest) \in Nat
  BY TrimType
<1>1. CASE t = <<>>
  <2>1. ValueOf(t) = <<>>
    BY <1>1, ReadingsAre, Zenon
  <2>2. ~Quoted(rest)
    BY <1>1 DEF Quoted
  <2>3. \A i \in 1..Len(rest) : rest[i] = SPACE
    <3>. SUFFICES ASSUME \E i \in 1..Len(rest) : rest[i] # SPACE PROVE FALSE
      OBVIOUS
    <3>1. 1 \in 1..Len(rest) + 1 /\ Len(rest) \in 1 - 1..Len(rest)
      BY <1>0
    <3>2. PICK f, l \in 1..Len(rest) : Trims(rest, 1, Len(rest), f, l)
      BY <3>1, HasTrim
    <3>3. f \in 1..Len(rest) + 1 /\ l \in f - 1..Len(rest) /\ l >= f
      BY <3>2 DEF Trims
    <3>4. Len(SubSeq(rest, f, l)) = l - f + 1
      BY <3>3, PartIs
    <3>5. t = SubSeq(rest, f, l)
      BY <3>2, TrimIs
    <3>6. Len(SubSeq(rest, f, l)) # 0
      BY <3>3, <3>4
    <3>. QED  BY <1>1, <3>5, <3>6
  <2>4. Hashes(rest) = {}
    <3>. SUFFICES ASSUME NEW i \in Hashes(rest) PROVE FALSE
      OBVIOUS
    <3>1. i \in 1..Len(rest) /\ rest[i] = HASH
      BY DEF Hashes
    <3>. QED  BY <2>3, <3>1 DEF HASH, SPACE
  <2>5. DocumentedValue(rest) =
          TrimSpace(SubSeq(rest, 1, LeastOr(Hashes(rest), Len(rest) + 1) - 1))
    BY <2>2, ReadingsAre, Zenon
  <2>6. LeastOr(Hashes(rest), Len(rest) + 1) - 1 = Len(rest)
    BY <1>0, <2>4 DEF LeastOr
  <2>7. SubSeq(rest, 1, Len(rest)) = rest
    BY SubSeqFull
  <2>. QED  BY <1>1, <2>1, <2>5, <2>6, <2>7
<1>2. CASE t # <<>> /\ Quoted(rest)
  <2>1. t[1] \in {DQUOTE, SQUOTE}
    BY <1>2 DEF Quoted
  <2>2. DocumentedValue(rest) = SubSeq(t, 2, LeastOr(Closing(t), Len(t) + 1) - 1)
    BY <1>2, ReadingsAre, Zenon
  <2>. HIDE DEF t
  <2>3. ValueOf(t) = SubSeq(t, 2, LeastOr(Closing(t), Len(t) + 1) - 1)
    BY <1>0, <1>2, <2>1, QuotedValue
  <2>. QED  BY <2>2, <2>3 DEF t
<1>3. CASE t # <<>> /\ ~Quoted(rest)
  <2>1. t[1] \notin {DQUOTE, SQUOTE} /\ Head(t) = t[1]
    BY <1>0, <1>3 DEF Quoted
  <2>2. PICK f, l \in 1..Len(rest) : Trims(rest, 1, Len(rest), f, l) /\ t = SubSeq(rest, f, l)
    BY <1>3, TrimType
  <2>3. f \in 1..Len(rest) + 1 /\ l \in f - 1..Len(rest) /\ l >= f
    BY <2>2 DEF Trims
  <2>4. t[1] = rest[f]
    <3>. HIDE DEF t
    <3>1. 1 \in 1..l - f + 1 /\ f + 1 - 1 = f
      BY <2>3
    <3>2. \A i \in 1..l - f + 1 : t[i] = rest[f + i - 1]
      BY <2>2, <2>3, PartIs
    <3>. QED  BY <3>1, <3>2
  <2>5. f = 1 \/ rest[f] # HASH
    <3>. SUFFICES ASSUME f # 1, rest[f] = HASH PROVE FALSE
      OBVIOUS
    <3>1. rest[1] = SPACE /\ rest # <<>>
      <4>1. 1 \in 1..Len(rest) /\ 1 < f
        BY <2>2
      <4>2. rest # <<>>
        BY <4>1
      <4>. QED  BY <2>2, <4>1, <4>2 DEF Trims
    <3>. QED  BY <1>3, <2>4, <3>1 DEF OnlyComment
  <2>6. (IF Comments(t) = {} THEN t
         ELSE TrimSpace(SubSeq(t, 1, LeastOf(Comments(t)) - 1)))
        = TrimSpace(SubSeq(rest, 1, LeastOr(Hashes(rest), Len(rest) + 1) - 1))
    BY <2>2, <2>5, PlainValue
  <2>7. DocumentedValue(rest) =
          TrimSpace(SubSeq(rest, 1, LeastOr(Hashes(rest), Len(rest) + 1) - 1))
    BY <1>3, ReadingsAre, Zenon
  <2>8. ValueOf(t) = IF Comments(t) = {} THEN t
                     ELSE TrimSpace(SubSeq(t, 1, LeastOf(Comments(t)) - 1))
    <3>1. ~(t = <<>>) /\ ~(t # <<>> /\ Head(t) \in {DQUOTE, SQUOTE})
      BY <1>3, <2>1
    <3>. HIDE DEF t
    <3>. QED  BY <3>1, ReadingsAre, Zenon
  <2>. QED  BY <2>6, <2>7, <2>8
<1>. QED  BY <1>1, <1>2, <1>3

-----------------------------------------------------------------------------
(* The scope, split at its commas. *)

\* What Split makes of one character more.
SplitStep(c, acc, d) ==
  IF d = c THEN Append(acc, <<>>) ELSE [acc EXCEPT ![Len(acc)] = Append(@, d)]

\* f is the iteration of it by which Split is defined.
IsSplitting(f, c, s, n) ==
  f = [I \in SUBSET (1..n) |->
         IF I = {} THEN << <<>> >> ELSE SplitStep(c, f[I \ {Max(I)}], s[Max(I)])]

\* f holds what Split makes of the first characters.
Splits(f, c, s) ==
  /\ f[0] = << <<>> >> /\ Split(c, s) = f[Len(s)]
  /\ \A n \in 1..Len(s) : f[n] = SplitStep(c, f[n - 1], s[n])

\* The definition of Split is such an iteration.
LEMMA SplitRuns ==
  ASSUME NEW c, NEW S, NEW s \in Seq(S)
  PROVE  \E f : Splits(f, c, s)
<1>. DEFINE N == Len(s)
<1>1. N \in Nat /\ DOMAIN s = 1..N
  OBVIOUS
<1>2. \A n \in Nat : \E f : IsSplitting(f, c, s, n)
  <2>. DEFINE T == {n \in Nat : \E f : IsSplitting(f, c, s, n)}
  <2>1. 0 \in T
    <3>1. IsSplitting([I \in SUBSET (1..0) |-> << <<>> >>], c, s, 0)
      BY DEF IsSplitting
    <3>. QED  BY <3>1
  <2>2. ASSUME NEW n \in Nat, n \in T
        PROVE  n + 1 \in T
    <3>1. PICK f : IsSplitting(f, c, s, n)
      BY <2>2
    <3>. DEFINE g == [I \in SUBSET (1..n + 1) |->
                        IF n + 1 \in I THEN SplitStep(c, f[I \ {n + 1}], s[n + 1])
                        ELSE f[I]]
    <3>2. ASSUME NEW I \in SUBSET (1..n + 1)
          PROVE  g[I] = IF I = {} THEN << <<>> >>
                        ELSE SplitStep(c, g[I \ {Max(I)}], s[Max(I)])
      <4>1. CASE n + 1 \in I
        <5>0. n + 1 \in Nat /\ I \subseteq 1..n + 1 /\ I # {}
          BY <4>1
        <5>1. Max(I) \in I /\ \A i \in I : i <= Max(I)
          <6>. DEFINE m == n + 1
          <6>1. m \in Nat /\ I \subseteq 1..m /\ I # {}
            BY <5>0
          <6>. HIDE DEF m
          <6>. QED  BY <6>1, MaxIsLast
        <5>2. Max(I) = n + 1
          <6>. DEFINE last == Max(I)
          <6>1. last \in 1..n + 1 /\ n + 1 <= last
            BY <4>1, <5>1
          <6>. HIDE DEF last
          <6>2. last = n + 1
            BY <6>1
          <6>. QED  BY <6>2 DEF last
        <5>3. I \ {n + 1} \in SUBSET (1..n + 1) /\ n + 1 \notin I \ {n + 1}
          OBVIOUS
        <5>4. g[I \ {n + 1}] = f[I \ {n + 1}]
          BY <5>3
        <5>5. g[I] = SplitStep(c, f[I \ {n + 1}], s[n + 1]) /\ I # {}
          BY <4>1
        <5>. QED  BY <5>2, <5>4, <5>5
      <4>2. CASE n + 1 \notin I
        <5>1. I \in SUBSET (1..n) /\ g[I] = f[I]
          BY <4>2
        <5>2. f[I] = IF I = {} THEN << <<>> >> ELSE SplitStep(c, f[I \ {Max(I)}], s[Max(I)])
          BY <3>1, <5>1 DEF IsSplitting
        <5>3. I \ {Max(I)} \in SUBSET (1..n + 1) /\ n + 1 \notin I \ {Max(I)}
          BY <4>2
        <5>4. g[I \ {Max(I)}] = f[I \ {Max(I)}]
          BY <5>3
        <5>. QED  BY <5>1, <5>2, <5>4
      <4>. QED  BY <4>1, <4>2
    <3>3. IsSplitting(g, c, s, n + 1)
      BY <3>2 DEF IsSplitting
    <3>. QED  BY <3>3
  <2>. QED  BY <2>1, <2>2, NatInductive
<1>. DEFINE iter == CHOOSE f : IsSplitting(f, c, s, N)
            run == [n \in 0..N |-> iter[1..n]]
<1>3. IsSplitting(iter, c, s, N)
  BY <1>1, <1>2
<1>4. Split(c, s) = iter[1..N]
  BY <1>1 DEF Split, FoldLeft, MapThenFoldSet, IsSplitting, SplitStep
<1>. HIDE DEF iter
<1>5. run[0] = << <<>> >>
  <2>1. 1..0 = {} /\ {} \in SUBSET (1..N) /\ 0 \in 0..N
    BY <1>1
  <2>. QED  BY <1>3, <2>1 DEF IsSplitting
<1>6. ASSUME NEW n \in 1..N PROVE run[n] = SplitStep(c, run[n - 1], s[n])
  <2>. DEFINE I == 1..n
  <2>1. n \in I /\ I \in SUBSET (1..N) /\ I # {} /\ n \in Nat
    <3>1. n \in 1..N /\ N \in Nat
      BY <1>1
    <3>2. n \in I /\ \A i \in I : i \in 1..N
      <4>. HIDE DEF N
      <4>. QED  BY <3>1
    <3>. HIDE DEF N, I
    <3>. QED  BY <3>1, <3>2
  <2>0. n \in 0..N /\ n - 1 \in 0..N
    <3>1. n \in 1..N /\ N \in Nat
      BY <1>1
    <3>. HIDE DEF N
    <3>. QED  BY <3>1
  <2>2. Max(I) \in I /\ \A i \in I : i <= Max(I)
    <3>1. n \in Nat /\ I \subseteq 1..n /\ I # {}
      BY <2>1
    <3>. HIDE DEF I
    <3>. QED  BY <3>1, MaxIsLast
  <2>3. Max(I) = n
    BY <2>1, <2>2
  <2>4. I \ {n} = 1..n - 1
    BY <2>1
  <2>5. iter[I] = SplitStep(c, iter[I \ {Max(I)}], s[Max(I)])
    BY <1>3, <2>1 DEF IsSplitting
  <2>6. iter[I] = SplitStep(c, iter[1..n - 1], s[n])
    BY <2>3, <2>4, <2>5
  <2>. QED  BY <2>0, <2>6
<1>7. Split(c, s) = run[N]
  BY <1>1, <1>4
<1>. HIDE DEF run
<1>8. Splits(run, c, s)
  BY <1>5, <1>6, <1>7 DEF Splits
<1>. QED  BY <1>8

\* Split gives a sequence of texts.
LEMMA SplitType ==
  ASSUME NEW c, NEW s \in Seq(Codes)
  PROVE  Split(c, s) \in Seq(Seq(Codes))
<1>. DEFINE Q == {a \in Seq(Seq(Codes)) : Len(a) # 0}
<1>0. PICK f : Splits(f, c, s)
  BY SplitRuns
<1>1. /\ f[0] = << <<>> >> /\ Split(c, s) = f[Len(s)]
      /\ \A n \in 1..Len(s) : f[n] = SplitStep(c, f[n - 1], s[n])
  BY <1>0 DEF Splits
<1>2. \A n \in Nat : n <= Len(s) => f[n] \in Q
  <2>. DEFINE T == {n \in Nat : n <= Len(s) => f[n] \in Q}
  <2>1. 0 \in T
    <3>1. << <<>> >> \in Seq(Seq(Codes)) /\ Len(<< <<>> >>) = 1
      OBVIOUS
    <3>2. f[0] \in Q
      BY <1>1, <3>1
    <3>. QED  BY <3>2
  <2>2. ASSUME NEW n \in Nat, n \in T PROVE n + 1 \in T
    <3>. SUFFICES ASSUME n + 1 <= Len(s) PROVE f[n + 1] \in Q
      OBVIOUS
    <3>1. n + 1 \in 1..Len(s) /\ (n + 1) - 1 = n /\ n <= Len(s)
      OBVIOUS
    <3>. DEFINE a == f[n]
                d == s[n + 1]
    <3>2. f[n + 1] = SplitStep(c, a, d)
      BY <1>1, <3>1
    <3>3. a \in Seq(Seq(Codes)) /\ Len(a) # 0 /\ d \in Codes
      BY <2>2, <3>1
    <3>. HIDE DEF a, d
    <3>4. CASE d = c
      <4>1. SplitStep(c, a, d) = Append(a, <<>>)
        BY <3>4 DEF SplitStep
      <4>2. Append(a, <<>>) \in Seq(Seq(Codes)) /\ Len(Append(a, <<>>)) = Len(a) + 1
        <5>1. <<>> \in Seq(Codes)
          OBVIOUS
        <5>. QED  BY <3>3, <5>1
      <4>3. Len(a) \in Nat
        BY <3>3
      <4>. QED  BY <3>2, <4>1, <4>2, <4>3
    <3>5. CASE d # c
      <4>1. SplitStep(c, a, d) = [a EXCEPT ![Len(a)] = Append(a[Len(a)], d)]
        BY <3>5 DEF SplitStep
      <4>2. Len(a) \in 1..Len(a)
        BY <3>3
      <4>3. Append(a[Len(a)], d) \in Seq(Codes)
        <5>1. a[Len(a)] \in Seq(Codes)
          BY <3>3, <4>2
        <5>. QED  BY <3>3, <5>1
      <4>4. /\ [a EXCEPT ![Len(a)] = Append(a[Len(a)], d)] \in Seq(Seq(Codes))
            /\ Len([a EXCEPT ![Len(a)] = Append(a[Len(a)], d)]) = Len(a)
        <5>. DEFINE t == Append(a[Len(a)], d)
        <5>1. t \in Seq(Codes)
          BY <4>3
        <5>. HIDE DEF t
        <5>2. /\ [a EXCEPT ![Len(a)] = t] \in Seq(Seq(Codes))
              /\ Len([a EXCEPT ![Len(a)] = t]) = Len(a)
          BY <3>3, <4>2, <5>1, ExceptSeq
        <5>. QED  BY <5>2 DEF t
      <4>. QED  BY <3>2, <3>3, <4>1, <4>4
    <3>. QED  BY <3>4, <3>5
  <2>. QED  BY <2>1, <2>2, NatInductive
<1>3. Len(s) \in Nat
  OBVIOUS
<1>. QED  BY <1>1, <1>2, <1>3

\* f is the iteration by which FlattenSeq is defined.
IsFlatten(f, seqs, n) ==
  f = [i \in 1..n |-> IF i = 1 THEN seqs[i] ELSE f[i - 1] \o seqs[i]]

\* What FlattenSeq joins stays in the set.
LEMMA FlattenType ==
  ASSUME NEW S, NEW seqs \in Seq(Seq(S))
  PROVE  FlattenSeq(seqs) \in Seq(S)
<1>. DEFINE N == Len(seqs)
<1>1. CASE N = 0
  <2>1. FlattenSeq(seqs) = <<>> /\ seqs = <<>>
    BY <1>1 DEF FlattenSeq
  <2>. QED  BY <1>1, <2>1
<1>2. CASE N # 0
  <2>1. \A n \in Nat : \E f : IsFlatten(f, seqs, n)
    <3>. DEFINE T == {n \in Nat : \E f : IsFlatten(f, seqs, n)}
    <3>1. 0 \in T
      <4>1. IsFlatten([i \in 1..0 |-> seqs], seqs, 0)
        BY DEF IsFlatten
      <4>. QED  BY <4>1
    <3>2. ASSUME NEW n \in Nat, n \in T
          PROVE  n + 1 \in T
      <4>1. PICK f : IsFlatten(f, seqs, n)
        BY <3>2
      <4>. DEFINE g == [i \in 1..n + 1 |->
                          IF i <= n THEN f[i]
                          ELSE IF i = 1 THEN seqs[i] ELSE f[i - 1] \o seqs[i]]
      <4>2. ASSUME NEW i \in 1..n + 1
            PROVE  g[i] = IF i = 1 THEN seqs[i] ELSE g[i - 1] \o seqs[i]
        <5>1. CASE i <= n
          <6>1. f[i] = IF i = 1 THEN seqs[i] ELSE f[i - 1] \o seqs[i]
            <7>1. i \in 1..n
              BY <5>1
            <7>. QED  BY <4>1, <7>1 DEF IsFlatten
          <6>2. g[i] = f[i] /\ (i # 1 => g[i - 1] = f[i - 1])
            BY <5>1
          <6>. QED  BY <6>1, <6>2
        <5>2. CASE i = n + 1
          BY <5>2
        <5>. QED  BY <5>1, <5>2
      <4>3. IsFlatten(g, seqs, n + 1)
        BY <4>2 DEF IsFlatten
      <4>. QED  BY <4>3
    <3>. QED  BY <3>1, <3>2, NatInductive
  <2>. DEFINE flatten == CHOOSE f : IsFlatten(f, seqs, N)
  <2>2. IsFlatten(flatten, seqs, N)
    BY <2>1
  <2>3. FlattenSeq(seqs) = flatten[N]
    BY <1>2 DEF FlattenSeq, IsFlatten
  <2>. HIDE DEF flatten
  <2>4. \A n \in Nat : n \in 1..N => flatten[n] \in Seq(S)
    <3>. DEFINE T == {n \in Nat : n \in 1..N => flatten[n] \in Seq(S)}
    <3>1. 0 \in T
      OBVIOUS
    <3>2. ASSUME NEW n \in Nat, n \in T
          PROVE  n + 1 \in T
      <4>. SUFFICES ASSUME n + 1 \in 1..N PROVE flatten[n + 1] \in Seq(S)
        OBVIOUS
      <4>1. seqs[n + 1] \in Seq(S)
        OBVIOUS
      <4>2. CASE n = 0
        BY <2>2, <4>1, <4>2 DEF IsFlatten
      <4>3. CASE n # 0
        <5>1. n + 1 # 1 /\ (n + 1) - 1 = n /\ n \in 1..N
          BY <4>3
        <5>2. flatten[n + 1] = flatten[(n + 1) - 1] \o seqs[n + 1]
          BY <2>2, <5>1 DEF IsFlatten
        <5>. QED  BY <3>2, <4>1, <5>1, <5>2
      <4>. QED  BY <4>2, <4>3
    <3>. QED  BY <3>1, <3>2, NatInductive
  <2>. QED  BY <1>2, <2>3, <2>4
<1>. QED  BY <1>1, <1>2

\* No name of the scope is empty.
LEMMA ScopeNames ==
  ASSUME env \in [Names -> Seq(Codes) \cup {Unset}]
  PROVE  <<>> \notin ToSet(scopeAttrs)
<1>1. CASE env[SCOPE] = Unset
  BY <1>1 DEF scopeAttrs, ToSet, HostName
<1>2. CASE env[SCOPE] # Unset
  <2>. DEFINE parts == Split(COMMA, env[SCOPE])
              S == Seq(Codes) \ {<<>>}
              kept == [i \in DOMAIN parts |-> Kept(TrimSpace(parts[i]))]
  <2>1. env[SCOPE] \in Seq(Codes)
    BY <1>2 DEF Names
  <2>2. parts \in Seq(Seq(Codes))
    BY <2>1, SplitType
  <2>3. kept \in Seq(Seq(S))
    <3>. HIDE DEF parts
    <3>1. ASSUME NEW i \in DOMAIN parts PROVE Kept(TrimSpace(parts[i])) \in Seq(S)
      <4>1. parts[i] \in Seq(Codes)
        BY <2>2
      <4>2. TrimSpace(parts[i]) \in Seq(Codes)
        BY <4>1, TrimType
      <4>. DEFINE name == TrimSpace(parts[i])
      <4>. HIDE DEF name
      <4>3. name \in Seq(Codes)
        BY <4>2 DEF name
      <4>4. Kept(name) \in Seq(S)
        <5>1. CASE name = <<>>
          BY <5>1 DEF Kept
        <5>2. CASE name # <<>>
          <6>1. name \in S
            BY <4>3, <5>2
          <6>. HIDE DEF S
          <6>. QED  BY <5>2, <6>1 DEF Kept
        <5>. QED  BY <5>1, <5>2
      <4>. QED  BY <4>4 DEF name
    <3>2. DOMAIN parts = 1..Len(parts) /\ Len(parts) \in Nat
      BY <2>2
    <3>. HIDE DEF S
    <3>. QED  BY <3>1, <3>2, IsASeq
  <2>4. FlattenSeq(kept) \in Seq(S)
    BY <2>3, FlattenType
  <2>5. scopeAttrs = FlattenSeq(kept)
    BY <1>2 DEF scopeAttrs
  <2>. HIDE DEF kept
  <2>. QED  BY <2>4, <2>5 DEF ToSet
<1>. QED  BY <1>1, <1>2

-----------------------------------------------------------------------------
(* The names of settings are different. *)

\* One character each, and all others.
LEMMA NamesDiffer ==
  /\ PATH \in Names /\ PASSWORD \in Required /\ PASSWORD \in Names
  /\ FORMAT \in Names /\ MODE \in Names
  /\ Numbers \subseteq Names /\ Required \subseteq Names
  /\ FORMAT # MODE /\ PATH # PASSWORD
  /\ {FORMAT, MODE, URL, SCOPE, PASSWORD, PATH} \cap Numbers = {}
  /\ {FORMAT, MODE} \cap {URL, SCOPE, PASSWORD, PATH} = {}
  /\ {PATH, PASSWORD} \cap {URL, SCOPE} = {}
<1>1. \A a, b : <<a>> = <<b>> => a = b
  OBVIOUS
<1> QED
  BY <1>1 DEF Names, Required, Numbers, HOST, SERVICE, USER, PASSWORD, PATH,
     FORMAT, MODE, PORT, TOLGAUGE, TOLCOUNTER, EPSILON, INTERVAL, WINDOW,
     APIKEY, ACCOUNT, URL, SCOPE

\* The fields that the property speaks of.
LEMMA Fields ==
  /\ Field(PATH) = TrimSpace(Getenv(PATH))
  /\ Field(PASSWORD) = Getenv(PASSWORD)
  /\ Field(FORMAT) = Format
  /\ Field(MODE) = Mode
  /\ \A n \in Numbers : Field(n) = NumberOr(n)
<1>1. Field(FORMAT) = Format
  BY NamesDiffer DEF Field
<1>2. Field(MODE) = Mode
  BY NamesDiffer DEF Field
<1>3. \A n \in Numbers : Field(n) = NumberOr(n)
  BY NamesDiffer DEF Field
<1>4. Field(PASSWORD) = Getenv(PASSWORD)
  BY NamesDiffer DEF Field
<1>5. Field(PATH) = TrimSpace(Getenv(PATH))
  BY NamesDiffer DEF Field
<1> QED
  BY <1>1, <1>2, <1>3, <1>4, <1>5

-----------------------------------------------------------------------------
(* The file is loaded line by line: FileLoaded is inductive. *)

\* v is what the process environment and the first m lines give n.
HasValue(n, m, v) ==
  IF env0[n] # Unset THEN v = env0[n]
  ELSE \/ v = Unset /\ \A i \in 1..m : \A a \in Assigns(file[i]) : a[1] # n
       \/ \E i \in 1..m : /\ <<n, v>> \in Assigns(file[i])
                          /\ \A j \in 1..i - 1 : \A a \in Assigns(file[j]) : a[1] # n

\* A text, or none.
EnvValues == Seq(Codes) \cup {Unset}

\* The lines in front of those that are left are in the environment, the first
\* line of a name before the later ones.
FileLoaded ==
  /\ env \in [Names -> EnvValues] /\ env0 \in [Names -> EnvValues]
  /\ file \in Seq(Seq(Codes))
  /\ \E k \in 1..Len(file) + 1 :
       /\ lines = SubSeq(file, k, Len(file))
       /\ \A n \in Names : HasValue(n, k - 1, env[n])
  /\ phase \in {"dotenv", "load", "require", "ready", "refused"}
  /\ phase \in {"load", "require", "ready"} => lines = <<>>

\* FileLoaded holds at the start, before the first line,
LEMMA FileLoadedInit == Init => FileLoaded
<1>. SUFFICES ASSUME Init PROVE FileLoaded
  OBVIOUS
<1>1. PICK start \in Starts : env0 = start[1] /\ file = start[2]
  BY DEF Init
<1>2. start \in [Names -> EnvValues] \X Seq(Seq(Codes))
  BY <1>1, StartsAssumption DEF EnvValues
<1>3. env0 \in [Names -> EnvValues] /\ file \in Seq(Seq(Codes))
  BY <1>1, <1>2
<1>4. env = env0 /\ lines = file /\ phase = "dotenv"
  BY DEF Init
<1>5. 1 \in 1..Len(file) + 1 /\ lines = SubSeq(file, 1, Len(file))
  <2>1. Len(file) \in Nat
    BY <1>3
  <2>2. SubSeq(file, 1, Len(file)) = file
    BY <1>3, SubSeqFull
  <2>. QED  BY <1>4, <2>1, <2>2
<1>6. \A n \in Names : HasValue(n, 1 - 1, env[n])
  BY <1>4 DEF HasValue
<1>. QED  BY <1>3, <1>4, <1>5, <1>6 DEF FileLoaded

\* What is left of the file, line by line.
LEMMA RestOfFile ==
  ASSUME NEW k \in 1..Len(file) + 1, file \in Seq(Seq(Codes)),
         lines = SubSeq(file, k, Len(file))
  PROVE  /\ lines = <<>> <=> k = Len(file) + 1
         /\ lines # <<>> => /\ k \in 1..Len(file) /\ Head(lines) = file[k]
                            /\ Tail(lines) = SubSeq(file, k + 1, Len(file))
<1>1. Len(file) \in Nat
  OBVIOUS
<1>2. CASE k = Len(file) + 1
  <2>1. lines = <<>>
    BY <1>1, <1>2, SubSeqEmpty
  <2>. QED  BY <1>2, <2>1
<1>3. CASE k # Len(file) + 1
  <2>1. k \in 1..Len(file) /\ Len(file) \in k..Len(file)
    BY <1>1, <1>3
  <2>2. Head(lines) = file[k] /\ Tail(lines) = SubSeq(file, k + 1, Len(file))
    BY <2>1, HeadTailOfSubSeq
  <2>3. Len(SubSeq(file, k, Len(file))) # 0
    <3>1. \A i \in k..Len(file) : file[i] \in Seq(Codes)
      BY <1>1
    <3>2. k \in Int /\ Len(file) \in Int
      BY <1>1
    <3>3. Len(SubSeq(file, k, Len(file))) =
            IF k <= Len(file) THEN Len(file) - k + 1 ELSE 0
      BY <3>1, <3>2, SubSeqProperties
    <3>. QED  BY <2>1, <3>3
  <2>4. lines # <<>>
    <3>1. Len(<<>>) = 0
      OBVIOUS
    <3>. QED  BY <2>3, <3>1
  <2>. QED  BY <1>3, <2>1, <2>2, <2>4
<1>. QED  BY <1>2, <1>3

\* after the next line,
LEMMA LineLoaded ==
  ASSUME FileLoaded, LoadLine
  PROVE  FileLoaded'
<1>1. PICK k \in 1..Len(file) + 1 :
        /\ lines = SubSeq(file, k, Len(file))
        /\ \A n \in Names : HasValue(n, k - 1, env[n])
  BY DEF FileLoaded
<1>2. /\ phase = "dotenv" /\ lines # <<>> /\ lines' = Tail(lines)
      /\ UNCHANGED <<phase, env0, file>>
  BY DEF LoadLine
<1>3. file \in Seq(Seq(Codes)) /\ Len(file) \in Nat
  BY DEF FileLoaded
<1>4. /\ k \in 1..Len(file) /\ Head(lines) = file[k]
      /\ lines' = SubSeq(file, k + 1, Len(file))
  BY <1>1, <1>2, <1>3, RestOfFile
<1>. DEFINE A == Assigns(file[k])
<1>5. file[k] \in Seq(Codes)
  BY <1>3, <1>4
<1>6. A = {} \/ \E x, v : v \in Seq(Codes) /\ A = {<<x, v>>}
  BY <1>5, AssignsType
<1>7. \A n \in Names : env'[n] =
        IF env[n] = Unset /\ \E a \in A : a[1] = n THEN (CHOOSE a \in A : TRUE)[2] ELSE env[n]
  BY <1>4 DEF LoadLine
<1>8. DOMAIN env' = Names
  BY DEF LoadLine
<1>9. ASSUME NEW n \in Names
      PROVE  env'[n] \in EnvValues /\ HasValue(n, k, env'[n])
  <2>1. env[n] \in EnvValues /\ HasValue(n, k - 1, env[n])
    BY <1>1 DEF FileLoaded
  <2>2. (1..k - 1) \cup {k} = 1..k
    BY <1>4
  <2>3. CASE env[n] # Unset
    <3>1. env'[n] = env[n]
      BY <1>7, <2>3
    <3>2. \A i \in 1..k - 1 : i \in 1..k
      BY <1>4
    <3>3. HasValue(n, k, env[n])
      BY <2>1, <2>3, <3>2, Zenon DEF HasValue
    <3>. QED  BY <2>1, <3>1, <3>3
  <2>4. CASE env[n] = Unset /\ \E a \in A : a[1] = n
    <3>1. PICK x, v : v \in Seq(Codes) /\ A = {<<x, v>>}
      BY <1>6, <2>4
    <3>2. x = n /\ (CHOOSE a \in A : TRUE) = <<x, v>>
      BY <2>4, <3>1
    <3>3. env'[n] = v
      BY <1>7, <2>4, <3>2
    <3>4. <<n, v>> \in Assigns(file[k])
      BY <3>1, <3>2
    <3>5. env0[n] = Unset
      BY <2>1, <2>4 DEF HasValue
    <3>6. \A j \in 1..k - 1 : \A a \in Assigns(file[j]) : a[1] # n
      <4>1. ASSUME NEW i \in 1..k - 1, <<n, Unset>> \in Assigns(file[i])
            PROVE FALSE
        <5>1. file[i] \in Seq(Codes)
          BY <1>3, <1>4
        <5>2. PICK y, w : w \in Seq(Codes) /\ Assigns(file[i]) = {<<y, w>>}
          BY <4>1, <5>1, AssignsType
        <5>3. w = Unset
          BY <4>1, <5>2
        <5>. QED  BY <5>2, <5>3, StartsAssumption
      <4>. QED  BY <2>1, <2>4, <3>5, <4>1 DEF HasValue
    <3>7. k \in 1..k
      BY <1>4
    <3>8. HasValue(n, k, v)
      BY <3>4, <3>5, <3>6, <3>7, Zenon DEF HasValue
    <3>. QED  BY <3>1, <3>3, <3>8 DEF EnvValues
  <2>5. CASE env[n] = Unset /\ ~\E a \in A : a[1] = n
    <3>1. env'[n] = env[n]
      BY <1>7, <2>5
    <3>2. \A i \in 1..k - 1 : i \in 1..k
      BY <1>4
    <3>3. HasValue(n, k, env[n])
      <4>1. CASE env0[n] # Unset
        BY <2>1, <4>1 DEF HasValue
      <4>2. CASE env0[n] = Unset /\ \A i \in 1..k - 1 : \A a \in Assigns(file[i]) : a[1] # n
        <5>1. \A i \in 1..k : \A a \in Assigns(file[i]) : a[1] # n
          BY <2>2, <2>5, <4>2
        <5>. QED  BY <2>5, <4>2, <5>1 DEF HasValue
      <4>3. CASE env0[n] = Unset
              /\ \E i \in 1..k - 1 :
                   /\ <<n, env[n]>> \in Assigns(file[i])
                   /\ \A j \in 1..i - 1 : \A a \in Assigns(file[j]) : a[1] # n
        BY <3>2, <4>3, Zenon DEF HasValue
      <4>. QED  BY <2>1, <4>1, <4>2, <4>3 DEF HasValue
    <3>. QED  BY <2>1, <3>1, <3>3
  <2>. QED  BY <2>3, <2>4, <2>5
<1>10. env' \in [Names -> EnvValues]
  <2>1. env' = [n \in Names |-> env'[n]]
    BY DEF LoadLine
  <2>. QED  BY <1>9, <2>1
<1>11. \A n \in Names : HasValue(n, k + 1 - 1, env[n])'
  <2>1. \A n, v : HasValue(n, k, v)' <=> HasValue(n, k, v')
    BY <1>2 DEF HasValue
  <2>2. k + 1 - 1 = k
    BY <1>4
  <2>3. \A n \in Names : HasValue(n, k, env'[n])
    BY <1>9
  <2>. QED  BY <1>2, <2>2, <2>3 DEF HasValue
<1>12. k + 1 \in 1..Len(file') + 1 /\ lines' = SubSeq(file', k + 1, Len(file'))
  <2>1. file' = file
    BY <1>2
  <2>2. k + 1 \in 1..Len(file) + 1
    BY <1>3, <1>4
  <2>. QED  BY <1>4, <2>1, <2>2
<1>13. \E j \in 1..Len(file') + 1 :
         /\ lines' = SubSeq(file', j, Len(file'))
         /\ \A n \in Names : HasValue(n, j - 1, env[n])'
  <2>. DEFINE j == k + 1
  <2>1. /\ j \in 1..Len(file') + 1 /\ lines' = SubSeq(file', j, Len(file'))
        /\ \A n \in Names : HasValue(n, j - 1, env[n])'
    BY <1>11, <1>12
  <2>. HIDE DEF j
  <2>. QED  BY <2>1
<1>14. env0' \in [Names -> EnvValues] /\ file' \in Seq(Seq(Codes)) /\ phase' = "dotenv"
  BY <1>2, <1>3 DEF FileLoaded
<1>. QED  BY <1>10, <1>13, <1>14 DEF FileLoaded

\* and after every step.
LEMMA FileLoadedStep == FileLoaded /\ [Next]_vars => FileLoaded'
<1>. SUFFICES ASSUME FileLoaded, [Next]_vars PROVE FileLoaded'
  OBVIOUS
<1>1. CASE LoadLine
  BY <1>1, LineLoaded
<1>2. ASSUME UNCHANGED <<env, lines, env0, file>>,
             phase' \in {"dotenv", "load", "require", "ready", "refused"},
             phase' \in {"load", "require", "ready"} => lines = <<>>
      PROVE  FileLoaded'
  <2>1. \A n, m, v : HasValue(n, m, v) => (env0' = env0 /\ file' = file)
    BY <1>2
  <2>2. PICK k \in 1..Len(file) + 1 :
        /\ lines = SubSeq(file, k, Len(file))
        /\ \A n \in Names : HasValue(n, k - 1, env[n])
    BY DEF FileLoaded
  <2>3. \A n \in Names : HasValue(n, k - 1, env[n])'
    BY <1>2, <2>2 DEF HasValue
  <2>. QED  BY <1>2, <2>2, <2>3 DEF FileLoaded
<1>3. CASE LoadedAll
  BY <1>2, <1>3 DEF LoadedAll, FileLoaded
<1>4. CASE UnreadableFile
  BY <1>2, <1>4 DEF UnreadableFile, FileLoaded
<1>5. CASE Load
  <2>1. /\ UNCHANGED <<env, lines, env0, file>> /\ phase = "load"
        /\ phase' \in {"require", "refused"}
    BY <1>5 DEF Load
  <2>. QED  BY <1>2, <2>1 DEF FileLoaded
<1>6. CASE RequireNR
  <2>1. /\ UNCHANGED <<env, lines, env0, file>> /\ phase = "require"
        /\ phase' \in {"ready", "refused"}
    BY <1>6 DEF RequireNR
  <2>. QED  BY <1>2, <2>1 DEF FileLoaded
<1>7. CASE UNCHANGED vars
  BY <1>2, <1>7 DEF vars, FileLoaded
<1>. QED  BY <1>1, <1>3, <1>4, <1>5, <1>6, <1>7 DEF Next

\* With no line left every setting is what it is declared to be.
LEMMA LoadedIsDeclared == FileLoaded => SettingIsDeclared
<1>. SUFFICES ASSUME FileLoaded, phase \in {"load", "require", "ready"}, NEW n \in Names,
                     ~\E i \in DOMAIN file : \E r \in Rests(file[i], n) :
                        Defines(file[i], n, r) /\ OnlyComment(r)
              PROVE  IsDeclared(n, env[n])
  BY DEF SettingIsDeclared
<1>1. file \in Seq(Seq(Codes)) /\ Len(file) \in Nat /\ DOMAIN file = 1..Len(file)
  BY DEF FileLoaded
<1>2. HasValue(n, Len(file), env[n])
  <2>1. PICK k \in 1..Len(file) + 1 :
          lines = SubSeq(file, k, Len(file)) /\ HasValue(n, k - 1, env[n])
    BY DEF FileLoaded
  <2>2. lines = <<>>
    BY DEF FileLoaded
  <2>3. k = Len(file) + 1
    BY <1>1, <2>1, <2>2, RestOfFile
  <2>4. k - 1 = Len(file)
    BY <1>1, <2>3
  <2>. QED  BY <2>1, <2>4
<1>. DEFINE Set(i) == \E a \in Assigns(file[i]) : a[1] = n
            defining == {i \in DOMAIN file : \E r \in Rests(file[i], n) : Defines(file[i], n, r)}
<1>3. defining = {i \in 1..Len(file) : Set(i)}
  <2>1. ASSUME NEW i \in 1..Len(file)
        PROVE  Set(i) <=> \E r \in Rests(file[i], n) : Defines(file[i], n, r)
    <3>1. file[i] \in Seq(Codes)
      BY <1>1
    <3>2. ASSUME NEW a \in Assigns(file[i]), a[1] = n
          PROVE  \E r \in Rests(file[i], n) : Defines(file[i], n, r)
      BY <3>1, <3>2, AssignsType
    <3>3. ASSUME NEW r \in Rests(file[i], n), Defines(file[i], n, r)
          PROVE  Set(i)
      <4>1. Assigns(file[i]) = {<<n, ValueOf(TrimSpace(r))>>}
        BY <3>1, <3>3, DefinedIsAssigned
      <4>. QED  BY <4>1
    <3>. QED  BY <3>2, <3>3
  <2>. QED  BY <1>1, <2>1
<1>4. IsDeclared(n, env[n]) <=>
        IF env0[n] # Unset THEN env[n] = env0[n]
        ELSE IF defining = {} THEN env[n] = Unset
        ELSE \A r \in Rests(file[LeastOf(defining)], n) :
               Defines(file[LeastOf(defining)], n, r) => env[n] = DocumentedValue(r)
  BY Zenon DEF IsDeclared, LeastOf
<1>5. CASE env0[n] # Unset
  BY <1>2, <1>4, <1>5 DEF HasValue
<1>6. CASE env0[n] = Unset /\ env[n] = Unset
           /\ \A i \in 1..Len(file) : \A a \in Assigns(file[i]) : a[1] # n
  <2>1. defining = {}
    <3>. HIDE DEF defining
    <3>. QED  BY <1>3, <1>6
  <2>. HIDE DEF defining
  <2>. QED  BY <1>4, <1>6, <2>1
<1>7. CASE env0[n] = Unset
           /\ \E i \in 1..Len(file) :
                /\ <<n, env[n]>> \in Assigns(file[i])
                /\ \A j \in 1..i - 1 : \A a \in Assigns(file[j]) : a[1] # n
  <2>1. PICK i \in 1..Len(file) :
          /\ <<n, env[n]>> \in Assigns(file[i])
          /\ \A j \in 1..i - 1 : \A a \in Assigns(file[j]) : a[1] # n
    BY <1>7
  <2>2. i \in defining /\ \A j \in 1..i - 1 : j \notin defining
    <3>. HIDE DEF defining
    <3>1. Set(i)
      BY <2>1
    <3>. QED  BY <1>3, <2>1, <3>1
  <2>3. LeastOf(defining) = i
    <3>. HIDE DEF defining
    <3>1. defining \subseteq 1..Len(file)
      BY <1>3
    <3>2. LeastOf(defining) \in defining /\ \A j \in defining : LeastOf(defining) <= j
      BY <1>1, <2>2, <3>1, LeastIs
    <3>3. LeastOf(defining) \in 1..Len(file) /\ LeastOf(defining) <= i
      BY <2>2, <3>1, <3>2
    <3>4. ~(LeastOf(defining) < i)
      BY <2>2, <3>2, <3>3
    <3>. QED  BY <3>3, <3>4
  <2>4. ASSUME NEW r \in Rests(file[i], n), Defines(file[i], n, r)
        PROVE  env[n] = DocumentedValue(r)
    <3>1. file[i] \in Seq(Codes)
      BY <1>1
    <3>2. Assigns(file[i]) = {<<n, ValueOf(TrimSpace(r))>>} /\ r \in Seq(Codes)
      BY <2>4, <3>1, DefinedIsAssigned
    <3>3. env[n] = ValueOf(TrimSpace(r))
      BY <2>1, <3>2
    <3>4. ~OnlyComment(r)
      BY <1>1, <2>4
    <3>. QED  BY <3>2, <3>3, <3>4, ValueIsDocumented
  <2>. HIDE DEF defining
  <2>. QED  BY <1>4, <1>7, <2>2, <2>3, <2>4
<1>. QED  BY <1>2, <1>5, <1>6, <1>7 DEF HasValue

-----------------------------------------------------------------------------
(* The settings are taken and checked: Loaded and ScopeNamed are inductive. *)

\* What Load accepted is what the configuration holds: the environment it was
\* taken from has not moved, and RequireNR has looked at the credentials.
Loaded ==
  /\ phase \in {"require", "ready"} =>
       /\ Acceptable
       /\ config.value = [n \in Names |-> Field(n)]
  /\ phase = "ready" /\ checkIngest =>
       \A n \in {APIKEY, ACCOUNT} : config.value[n] # <<>>

\* Loaded holds at the start,
LEMMA LoadedInit == Init => Loaded
BY DEF Init, Loaded

\* What depends on the environment only.
LEMMA SameEnvironment ==
  ASSUME env' = env
  PROVE  /\ Acceptable' = Acceptable
         /\ \A n : Field(n)' = Field(n)
BY DEF Acceptable, Field, Format, Mode, NumberOr, envOr, Getenv

\* and after every step.
LEMMA LoadedStep == Loaded /\ [Next]_vars => Loaded'
<1> SUFFICES ASSUME Loaded, [Next]_vars PROVE Loaded'
  OBVIOUS
<1>1. CASE LoadLine
  BY <1>1 DEF LoadLine, Loaded
<1>2. CASE LoadedAll
  BY <1>2 DEF LoadedAll, Loaded
<1>3. CASE UnreadableFile
  BY <1>3 DEF UnreadableFile, Loaded
<1>4. CASE Load
  <2>1. CASE phase' = "refused"
    BY <2>1 DEF Loaded
  <2>2. CASE Acceptable /\ phase' = "require"
    <3>1. /\ env' = env
          /\ config'.value = [n \in Names |-> Field(n)]
      BY <1>4, <2>2 DEF Load
    <3>2. Acceptable' /\ \A n : Field(n)' = Field(n)
      BY <2>2, <3>1, SameEnvironment
    <3>3. config'.value = [n \in Names |-> Field(n)']
      BY <3>1, <3>2
    <3> QED
      BY <2>2, <3>2, <3>3 DEF Loaded
  <2> QED
    BY <1>4, <2>1, <2>2 DEF Load
<1>5. CASE RequireNR
  <2>1. phase = "require" /\ UNCHANGED <<env, config, checkIngest>>
    BY <1>5 DEF RequireNR
  <2>2. Acceptable' /\ \A n : Field(n)' = Field(n)
    BY <2>1, SameEnvironment DEF Loaded
  <2>3. config'.value = [n \in Names |-> Field(n)']
    BY <2>1, <2>2 DEF Loaded
  <2>4. phase' = "ready" /\ checkIngest' =>
          \A n \in {APIKEY, ACCOUNT} : config'.value[n] # <<>>
    BY <1>5, <2>1 DEF RequireNR
  <2> QED
    BY <2>2, <2>3, <2>4 DEF Loaded
<1>6. CASE UNCHANGED vars
  <2>1. UNCHANGED <<env, config, phase, checkIngest>>
    BY <1>6 DEF vars
  <2>2. (Acceptable' <=> Acceptable) /\ \A n : Field(n)' = Field(n)
    BY <2>1, SameEnvironment
  <2> QED
    BY <2>1, <2>2 DEF Loaded
<1> QED
  BY <1>1, <1>2, <1>3, <1>4, <1>5, <1>6 DEF Next

\* What is loaded is usable.
LEMMA LoadedUsable == Loaded => ReadyIsUsable
<1> SUFFICES ASSUME Loaded, phase = "ready" PROVE ReadyIsUsable
  BY DEF ReadyIsUsable
<1>1. Acceptable /\ \A n \in Names : config.value[n] = Field(n)
  BY DEF Loaded
<1>2. /\ config.value[PATH] # <<>> /\ config.value[PASSWORD] # <<>>
      /\ config.value[FORMAT] \in {OTLP, DEBUGLOG}
      /\ config.value[MODE] \in {PDB, CDB}
  BY <1>1, Fields, NamesDiffer DEF Acceptable
<1>3. \A n \in Numbers : IsNumber(config.value[n])
  BY <1>1, Fields, NamesDiffer DEF Acceptable
<1> QED
  BY <1>2, <1>3 DEF Loaded, ReadyIsUsable

\* The scope that Load took holds no empty name.
ScopeNamed == phase \in {"require", "ready"} => <<>> \notin ToSet(config.scope)

\* The empty parts of VALIDATOR_NR_SCOPE_ATTRS are dropped when it is read.
LEMMA ScopeNamedStep == FileLoaded /\ ScopeNamed /\ [Next]_vars => ScopeNamed'
<1>. SUFFICES ASSUME FileLoaded, ScopeNamed, [Next]_vars PROVE ScopeNamed'
  OBVIOUS
<1>1. CASE LoadLine \/ LoadedAll \/ UnreadableFile
  BY <1>1 DEF LoadLine, LoadedAll, UnreadableFile, ScopeNamed
<1>2. CASE Load
  <2>1. CASE phase' = "refused"
    BY <2>1 DEF ScopeNamed
  <2>2. CASE Acceptable /\ phase' = "require"
    <3>1. config'.scope = scopeAttrs
      BY <1>2, <2>2 DEF Load
    <3>2. <<>> \notin ToSet(scopeAttrs)
      BY ScopeNames DEF FileLoaded, EnvValues
    <3>. QED  BY <3>1, <3>2 DEF ScopeNamed, ToSet
  <2>. QED  BY <1>2, <2>1, <2>2 DEF Load
<1>3. CASE RequireNR
  BY <1>3 DEF RequireNR, ScopeNamed
<1>4. CASE UNCHANGED vars
  BY <1>4 DEF vars, ScopeNamed
<1>. QED  BY <1>1, <1>2, <1>3, <1>4 DEF Next

-----------------------------------------------------------------------------
(* The theorems about Settings. *)

\* Whatever the environment and the file say: LoadDotenv gets through the lines
\* one by one and sets nothing but texts to names, and what Load returns has a
\* value for every setting and no empty name in its scope.
THEOREM SettingsTypeOK == Spec => []TypeOK
<1>1. Init => ScopeNamed
  BY DEF Init, ScopeNamed
<1>2. FileLoaded /\ Loaded /\ ScopeNamed => TypeOK
  <2>. SUFFICES ASSUME FileLoaded, Loaded, ScopeNamed PROVE TypeOK
    OBVIOUS
  <2>1. \E k \in 1..Len(file) + 1 : lines = SubSeq(file, k, Len(file))
    BY DEF FileLoaded
  <2>2. phase \in {"require", "ready"} => DOMAIN config.value = Names
    BY DEF Loaded
  <2>. QED  BY <2>1, <2>2 DEF TypeOK, FileLoaded, ScopeNamed
<1>. QED  BY <1>1, <1>2, FileLoadedInit, FileLoadedStep, LoadedInit, LoadedStep,
             ScopeNamedStep, PTL DEF Spec

\* Whatever the environment and the file say: once LoadDotenv is through with the
\* file, a setting is what the process environment had or else what the first
\* line with its name says under the documented grammar, unless the value is
\* nothing but a comment.
THEOREM SettingIsDeclaredAlways == Spec => []SettingIsDeclared
<1>1. Spec => []FileLoaded
  BY FileLoadedInit, FileLoadedStep, PTL DEF Spec
<1>. QED  BY <1>1, LoadedIsDeclared, PTL

\* Whatever the environment and the file say: a run that starts has a path, a
\* format and a mode, numbers, a password and, if it needs them, credentials.
THEOREM ReadyIsUsableAlways == Spec => []ReadyIsUsable
<1>1. Spec => []Loaded
  BY LoadedInit, LoadedStep, PTL DEF Spec
<1> QED
  BY <1>1, LoadedUsable, PTL

-----------------------------------------------------------------------------
(* The order of texts. *)

\* Characters have an order.
LEMMA CharactersAreNumbers == Characters \subseteq Int
BY DEF Characters

\* i is the first place where s and t differ, s being the smaller or at its end.
Ahead(s, t, i) ==
  /\ i \in 1..Len(s) + 1 /\ i \in 1..Len(t)
  /\ \A j \in 1..i - 1 : s[j] = t[j]
  /\ i = Len(s) + 1 \/ s[i] < t[i]

\* strings.Compare in these words,
LEMMA LessIsAhead ==
  ASSUME NEW s \in Seq(Characters), NEW t \in Seq(Characters)
  PROVE  Less(s, t) <=> \E i : Ahead(s, t, i)
<1>0. /\ Len(s) \in Nat /\ Len(t) \in Nat /\ DOMAIN s = 1..Len(s) /\ DOMAIN t = 1..Len(t)
  OBVIOUS
<1>1. ASSUME s # t, IsPrefix(s, t) PROVE Ahead(s, t, Len(s) + 1)
  <2>1. Len(s) <= Len(t) /\ SubSeq(s, 1, Len(s)) = SubSeq(t, 1, Len(s))
    BY <1>1 DEF IsPrefix
  <2>2. \A j \in 1..Len(s) : s[j] = t[j]
    <3>1. \A j \in 1..Len(s) : SubSeq(s, 1, Len(s))[j] = s[j] /\ SubSeq(t, 1, Len(s))[j] = t[j]
      BY <1>0, <2>1
    <3>. QED  BY <2>1, <3>1
  <2>3. Len(s) # Len(t)
    BY <1>1, <2>2, SeqEqual
  <2>4. (Len(s) + 1) - 1 = Len(s) /\ Len(s) + 1 \in 1..Len(t)
    <3>. DEFINE m == Len(s)
                n == Len(t)
    <3>1. m \in Nat /\ n \in Nat /\ m <= n /\ m # n
      BY <1>0, <2>1, <2>3
    <3>. HIDE DEF m, n
    <3>2. (m + 1) - 1 = m /\ m + 1 \in 1..n
      BY <3>1
    <3>. QED  BY <3>2 DEF m, n
  <2>. QED  BY <1>0, <2>2, <2>4 DEF Ahead
<1>2. ASSUME NEW i \in DOMAIN s \cap DOMAIN t,
             s[i] < t[i] /\ \A j \in 1..i - 1 : s[j] = t[j]
      PROVE  Ahead(s, t, i)
  BY <1>0, <1>2 DEF Ahead
<1>3. ASSUME NEW i, Ahead(s, t, i) PROVE Less(s, t)
  <2>1. CASE i = Len(s) + 1
    <3>1. Len(s) < Len(t) /\ \A j \in 1..Len(s) : s[j] = t[j]
      BY <1>0, <1>3, <2>1 DEF Ahead
    <3>2. SubSeq(s, 1, Len(s)) = SubSeq(t, 1, Len(s))
      BY <1>0, <3>1
    <3>. QED  BY <1>0, <3>1, <3>2 DEF Less, IsPrefix
  <2>2. CASE i # Len(s) + 1
    <3>1. i \in DOMAIN s \cap DOMAIN t /\ s[i] < t[i] /\ \A j \in 1..i - 1 : s[j] = t[j]
      BY <1>0, <1>3, <2>2 DEF Ahead
    <3>. QED  BY <3>1 DEF Less
  <2>. QED  BY <2>1, <2>2
<1>. QED  BY <1>1, <1>2, <1>3 DEF Less

\* is an order of all texts
LEMMA LessIsOrder ==
  ASSUME NEW s \in Seq(Characters), NEW t \in Seq(Characters)
  PROVE  /\ ~Less(s, s)
         /\ s # t => Less(s, t) \/ Less(t, s)
<1>0. /\ Len(s) \in Nat /\ Len(t) \in Nat
  OBVIOUS
<1>1. ~Less(s, s)
  <2>1. ASSUME NEW i, Ahead(s, s, i) PROVE FALSE
    <3>1. i \in 1..Len(s) /\ s[i] < s[i]
      BY <1>0, <2>1 DEF Ahead
    <3>2. s[i] \in Int
      <4>1. s[i] \in Characters
        BY <3>1
      <4>. QED  BY <4>1, CharactersAreNumbers
    <3>. QED  BY <3>1, <3>2
  <2>. QED  BY <2>1, LessIsAhead
<1>2. ASSUME s # t PROVE Less(s, t) \/ Less(t, s)
  <2>. DEFINE D == {j \in Nat : j \in 1..Len(s) /\ j \in 1..Len(t) /\ s[j] # t[j]}
  <2>1. CASE D = {}
    <3>1. Len(s) # Len(t)
      BY <1>0, <1>2, <2>1, SeqEqual
    <3>2. CASE Len(s) < Len(t)
      <4>1. Len(s) + 1 \in 1..Len(t) /\ \A j \in 1..(Len(s) + 1) - 1 : s[j] = t[j]
        BY <1>0, <2>1, <3>2
      <4>2. Ahead(s, t, Len(s) + 1)
        BY <1>0, <4>1 DEF Ahead
      <4>. QED  BY <4>2, LessIsAhead
    <3>3. CASE Len(t) < Len(s)
      <4>1. Len(t) + 1 \in 1..Len(s) /\ \A j \in 1..(Len(t) + 1) - 1 : t[j] = s[j]
        BY <1>0, <2>1, <3>3
      <4>2. Ahead(t, s, Len(t) + 1)
        BY <1>0, <4>1 DEF Ahead
      <4>. QED  BY <4>2, LessIsAhead
    <3>. QED  BY <1>0, <3>1, <3>2, <3>3
  <2>2. CASE D # {}
    <3>1. PICK i \in D : \A j \in D : i <= j
      <4>. HIDE DEF D
      <4>1. D \subseteq Nat
        BY DEF D
      <4>. QED  BY <2>2, <4>1, NatMin
    <3>2. i \in 1..Len(s) /\ i \in 1..Len(t) /\ s[i] # t[i]
      OBVIOUS
    <3>3. \A j \in 1..i - 1 : s[j] = t[j]
      <4>. SUFFICES ASSUME NEW j \in 1..i - 1, s[j] # t[j] PROVE FALSE
        OBVIOUS
      <4>1. j \in 1..Len(s) /\ j \in 1..Len(t) /\ ~(i <= j) /\ j \in Nat
        BY <1>0, <3>2
      <4>2. j \in D
        BY <4>1
      <4>. QED  BY <3>1, <4>1, <4>2
    <3>4. s[i] < t[i] \/ t[i] < s[i]
      <4>1. s[i] \in Characters /\ t[i] \in Characters
        BY <3>2
      <4>2. s[i] \in Int /\ t[i] \in Int
        BY <4>1, CharactersAreNumbers
      <4>. QED  BY <3>2, <4>2
    <3>5. Ahead(s, t, i) \/ Ahead(t, s, i)
      BY <1>0, <3>2, <3>3, <3>4 DEF Ahead
    <3>. QED  BY <3>5, LessIsAhead
  <2>. QED  BY <2>1, <2>2
<1>. QED  BY <1>1, <1>2

\* that is transitive.
LEMMA LessIsTransitive ==
  ASSUME NEW s \in Seq(Characters), NEW t \in Seq(Characters), NEW u \in Seq(Characters),
         Less(s, t), Less(t, u)
  PROVE  Less(s, u)
<1>0. Len(s) \in Nat /\ Len(t) \in Nat /\ Len(u) \in Nat
  OBVIOUS
<1>1. PICK i : Ahead(s, t, i)
  BY LessIsAhead
<1>2. PICK k : Ahead(t, u, k)
  BY LessIsAhead
<1>3. i \in 1..Len(s) + 1 /\ i \in 1..Len(t) /\ k \in 1..Len(t) + 1 /\ k \in 1..Len(u)
  BY <1>1, <1>2 DEF Ahead
<1>4. CASE i < k
  <2>1. \A j \in 1..i - 1 : s[j] = u[j]
    <3>. SUFFICES ASSUME NEW j \in 1..i - 1 PROVE s[j] = u[j]
      OBVIOUS
    <3>1. j \in 1..k - 1
      BY <1>3, <1>4
    <3>. QED  BY <1>1, <1>2, <3>1 DEF Ahead
  <2>2. t[i] = u[i] /\ i \in 1..Len(u)
    <3>1. i \in 1..k - 1
      BY <1>3, <1>4
    <3>. QED  BY <1>2, <1>3, <3>1 DEF Ahead
  <2>3. i = Len(s) + 1 \/ s[i] < u[i]
    BY <1>1, <2>2 DEF Ahead
  <2>4. Ahead(s, u, i)
    BY <1>3, <2>1, <2>2, <2>3 DEF Ahead
  <2>. QED  BY <2>4, LessIsAhead
<1>5. CASE k <= i
  <2>1. \A j \in 1..k - 1 : s[j] = u[j]
    <3>. SUFFICES ASSUME NEW j \in 1..k - 1 PROVE s[j] = u[j]
      OBVIOUS
    <3>1. j \in 1..i - 1
      BY <1>3, <1>5
    <3>. QED  BY <1>1, <1>2, <3>1 DEF Ahead
  <2>2. k \in 1..Len(s) + 1 /\ k \in 1..Len(t)
    BY <1>0, <1>3, <1>5
  <2>3. t[k] < u[k]
    BY <1>0, <1>2, <2>2 DEF Ahead
  <2>4. k = Len(s) + 1 \/ s[k] < u[k]
    <3>1. CASE k = i /\ k # Len(s) + 1
      <4>1. s[k] < t[k] /\ k \in 1..Len(s)
        BY <1>0, <1>1, <2>2, <3>1 DEF Ahead
      <4>2. s[k] \in Int /\ t[k] \in Int /\ u[k] \in Int
        <5>1. s[k] \in Characters /\ t[k] \in Characters /\ u[k] \in Characters
          BY <1>3, <2>2, <4>1
        <5>. QED  BY <5>1, CharactersAreNumbers
      <4>. QED  BY <2>3, <4>1, <4>2
    <3>2. CASE k < i
      <4>1. k \in 1..i - 1
        BY <1>3, <3>2
      <4>. QED  BY <1>1, <2>3, <4>1 DEF Ahead
    <3>. QED  BY <1>3, <1>5, <3>1, <3>2
  <2>5. Ahead(s, u, k)
    BY <1>3, <2>1, <2>2, <2>4 DEF Ahead
  <2>. QED  BY <2>5, LessIsAhead
<1>. QED  BY <1>3, <1>4, <1>5

-----------------------------------------------------------------------------
(* Sorting by rank. *)

\* How many of the texts P are smaller than p.
Rank(P, p) == Cardinality({q \in P : Less(q, p)})

\* Different texts have different ranks, from 0 on.
LEMMA RankGrows ==
  ASSUME NEW P, P \subseteq Seq(Characters), IsFiniteSet(P)
  PROVE  /\ \A p \in P : Rank(P, p) \in 0..Cardinality(P) - 1
         /\ \A p, q \in P : p # q => Rank(P, p) # Rank(P, q)
<1>. DEFINE Below(p) == {q \in P : Less(q, p)}
<1>1. Cardinality(P) \in Nat
  BY FS_CardinalityType
<1>2. ASSUME NEW p \in P
      PROVE  /\ IsFiniteSet(Below(p)) /\ Cardinality(Below(p)) \in Nat
             /\ Cardinality(Below(p)) < Cardinality(P)
  <2>1. Below(p) \in SUBSET P /\ p \notin Below(p)
    BY LessIsOrder
  <2>. DEFINE B == Below(p)
  <2>2. B \in SUBSET P /\ B # P
    BY <2>1
  <2>. HIDE DEF B
  <2>3. /\ IsFiniteSet(B) /\ Cardinality(B) <= Cardinality(P)
        /\ Cardinality(P) = Cardinality(B) => P = B
    BY <2>2, FS_Subset
  <2>4. Cardinality(B) \in Nat
    BY <2>3, FS_CardinalityType
  <2>5. Cardinality(B) < Cardinality(P)
    BY <1>1, <2>2, <2>3, <2>4
  <2>. QED  BY <2>3, <2>4, <2>5 DEF B
<1>3. ASSUME NEW p \in P, NEW q \in P, Less(p, q)
      PROVE  Cardinality(Below(p)) < Cardinality(Below(q))
  <2>1. Below(p) \in SUBSET Below(q)
    BY <1>3, LessIsTransitive
  <2>2. p \in Below(q) /\ p \notin Below(p)
    BY <1>3, LessIsOrder
  <2>. DEFINE B == Below(p)
              C == Below(q)
  <2>3. B \in SUBSET C /\ B # C
    BY <2>1, <2>2
  <2>4. IsFiniteSet(C) /\ Cardinality(C) \in Nat /\ Cardinality(B) \in Nat
    BY <1>2
  <2>. HIDE DEF B, C
  <2>5. Cardinality(B) <= Cardinality(C) /\ (Cardinality(C) = Cardinality(B) => C = B)
    BY <2>3, <2>4, FS_Subset
  <2>6. Cardinality(B) < Cardinality(C)
    BY <2>3, <2>4, <2>5
  <2>. QED  BY <2>6 DEF B, C
<1>4. ASSUME NEW p \in P, NEW q \in P, p # q PROVE Rank(P, p) # Rank(P, q)
  <2>1. p \in Seq(Characters) /\ q \in Seq(Characters)
    OBVIOUS
  <2>2. Less(p, q) \/ Less(q, p)
    BY <1>4, <2>1, LessIsOrder
  <2>3. Rank(P, p) = Cardinality(Below(p)) /\ Rank(P, q) = Cardinality(Below(q))
    BY DEF Rank
  <2>4. Cardinality(Below(p)) \in Nat /\ Cardinality(Below(q)) \in Nat
    BY <1>2
  <2>5. Cardinality(Below(p)) # Cardinality(Below(q))
    <3>1. \/ Cardinality(Below(p)) < Cardinality(Below(q))
          \/ Cardinality(Below(q)) < Cardinality(Below(p))
      BY <1>3, <2>2
    <3>. DEFINE m == Cardinality(Below(p))
                n == Cardinality(Below(q))
    <3>. HIDE DEF m, n
    <3>2. m \in Nat /\ n \in Nat /\ (m < n \/ n < m)
      BY <2>4, <3>1 DEF m, n
    <3>3. m # n
      BY <3>2
    <3>. QED  BY <3>3 DEF m, n
  <2>. QED  BY <2>3, <2>5
<1>5. ASSUME NEW p \in P PROVE Rank(P, p) \in 0..Cardinality(P) - 1
  <2>. DEFINE m == Cardinality(Below(p))
              n == Cardinality(P)
  <2>1. m \in Nat /\ n \in Nat /\ m < n
    BY <1>1, <1>2
  <2>2. Rank(P, p) = m
    BY DEF Rank
  <2>. HIDE DEF m, n
  <2>3. m \in 0..n - 1
    BY <2>1
  <2>. QED  BY <2>2, <2>3 DEF n
<1>. QED  BY <1>4, <1>5

\* Sorted is a sequence of all the texts and no others.
LEMMA SortedHasAll ==
  ASSUME NEW P, P \subseteq Seq(Characters), IsFiniteSet(P)
  PROVE  /\ Sorted(P) \in Seq(P) /\ Len(Sorted(P)) = Cardinality(P)
         /\ \A p \in P : \E i \in 1..Cardinality(P) : Sorted(P)[i] = p
<1>. DEFINE n == Cardinality(P)
            f == [p \in P |-> Rank(P, p)]
            At(i) == CHOOSE p \in P : Rank(P, p) = i - 1
<1>1. n \in Nat
  BY FS_CardinalityType
<1>2. f \in Injection(P, 0..n - 1)
  BY RankGrows DEF Injection, IsInjective
<1>3. f \in Surjection(P, 0..n - 1)
  <2>1. IsFiniteSet(0..n - 1) /\ Cardinality(0..n - 1) = n
    <3>1. 0 \in Int /\ n - 1 \in Int
      BY <1>1
    <3>2. /\ IsFiniteSet(0..n - 1)
          /\ Cardinality(0..n - 1) = IF 0 > n - 1 THEN 0 ELSE (n - 1) - 0 + 1
      <4>. DEFINE m == n - 1
      <4>. HIDE DEF m
      <4>1. /\ IsFiniteSet(0..m)
            /\ Cardinality(0..m) = IF 0 > m THEN 0 ELSE m - 0 + 1
        BY <3>1, FS_Interval DEF m
      <4>. QED  BY <4>1 DEF m
    <3>. HIDE DEF n
    <3>. QED  BY <1>1, <3>2
  <2>. DEFINE T == 0..n - 1
  <2>2. IsFiniteSet(T) /\ Cardinality(P) = Cardinality(T) /\ f \in Injection(P, T)
    BY <1>2, <2>1
  <2>. HIDE DEF T, f, n
  <2>3. f \in Surjection(P, T)
    BY <2>2, FS_Injection
  <2>. QED  BY <2>3 DEF T
<1>4. ASSUME NEW i \in 1..n PROVE \E p \in P : Rank(P, p) = i - 1
  <2>1. i - 1 \in 0..n - 1
    BY <1>1
  <2>2. \E p \in P : f[p] = i - 1
    <3>. HIDE DEF f, n
    <3>. QED  BY <1>3, <2>1 DEF Surjection
  <2>. QED  BY <2>2
<1>5. \A i \in 1..n : At(i) \in P /\ Rank(P, At(i)) = i - 1
  BY <1>4
<1>6. Sorted(P) = [i \in 1..n |-> At(i)]
  BY DEF Sorted, Rank
<1>7. Sorted(P) \in Seq(P) /\ Len(Sorted(P)) = n
  <2>. HIDE DEF At, n
  <2>1. \A i \in 1..n : At(i) \in P
    BY <1>5
  <2>. QED  BY <1>1, <1>6, <2>1, IsASeq
<1>8. ASSUME NEW p \in P PROVE \E i \in 1..n : Sorted(P)[i] = p
  <2>. DEFINE i == Rank(P, p) + 1
  <2>1. i \in 1..n /\ i - 1 = Rank(P, p)
    <3>. DEFINE r == Rank(P, p)
    <3>1. r \in 0..n - 1
      BY RankGrows
    <3>. HIDE DEF r, n
    <3>2. r + 1 \in 1..n /\ (r + 1) - 1 = r
      BY <1>1, <3>1
    <3>. QED  BY <3>2 DEF r
  <2>. HIDE DEF i, n
  <2>2. At(i) \in P /\ Rank(P, At(i)) = Rank(P, p)
    BY <1>5, <2>1
  <2>. HIDE DEF At
  <2>3. At(i) = p
    BY <2>2, RankGrows
  <2>4. Sorted(P)[i] = At(i)
    BY <1>6, <2>1
  <2>. QED  BY <2>1, <2>3, <2>4
<1>. QED  BY <1>7, <1>8

-----------------------------------------------------------------------------
(* Joined, element by element. *)

\* What strings.Join makes of one part more.
JoinStep(acc, p) == IF acc = <<>> THEN p ELSE acc \o <<COMMA>> \o p

\* f is the iteration of it by which Joined is defined.
IsJoining(f, s, n) ==
  f = [I \in SUBSET (1..n) |->
         IF I = {} THEN <<>> ELSE JoinStep(f[I \ {Max(I)}], s[Max(I)])]

\* f holds what Joined makes of the first parts.
Joins(f, s) ==
  /\ f[0] = <<>> /\ Joined(s) = f[Len(s)]
  /\ \A n \in 1..Len(s) : f[n] = JoinStep(f[n - 1], s[n])

\* The definition of Joined is such an iteration.
LEMMA JoinRuns ==
  ASSUME NEW S, NEW s \in Seq(S)
  PROVE  \E f : Joins(f, s)
<1>. DEFINE N == Len(s)
<1>1. N \in Nat /\ DOMAIN s = 1..N
  OBVIOUS
<1>2. \A n \in Nat : \E f : IsJoining(f, s, n)
  <2>. DEFINE T == {n \in Nat : \E f : IsJoining(f, s, n)}
  <2>1. 0 \in T
    <3>1. IsJoining([I \in SUBSET (1..0) |-> <<>>], s, 0)
      BY DEF IsJoining
    <3>. QED  BY <3>1
  <2>2. ASSUME NEW n \in Nat, n \in T
        PROVE  n + 1 \in T
    <3>1. PICK f : IsJoining(f, s, n)
      BY <2>2
    <3>. DEFINE g == [I \in SUBSET (1..n + 1) |->
                        IF n + 1 \in I THEN JoinStep(f[I \ {n + 1}], s[n + 1])
                        ELSE f[I]]
    <3>2. ASSUME NEW I \in SUBSET (1..n + 1)
          PROVE  g[I] = IF I = {} THEN <<>>
                        ELSE JoinStep(g[I \ {Max(I)}], s[Max(I)])
      <4>1. CASE n + 1 \in I
        <5>0. n + 1 \in Nat /\ I \subseteq 1..n + 1 /\ I # {}
          BY <4>1
        <5>1. Max(I) \in I /\ \A i \in I : i <= Max(I)
          <6>. DEFINE m == n + 1
          <6>1. m \in Nat /\ I \subseteq 1..m /\ I # {}
            BY <5>0
          <6>. HIDE DEF m
          <6>. QED  BY <6>1, MaxIsLast
        <5>2. Max(I) = n + 1
          <6>. DEFINE last == Max(I)
          <6>1. last \in 1..n + 1 /\ n + 1 <= last
            BY <4>1, <5>1
          <6>. HIDE DEF last
          <6>2. last = n + 1
            BY <6>1
          <6>. QED  BY <6>2 DEF last
        <5>3. I \ {n + 1} \in SUBSET (1..n + 1) /\ n + 1 \notin I \ {n + 1}
          OBVIOUS
        <5>4. g[I \ {n + 1}] = f[I \ {n + 1}]
          BY <5>3
        <5>5. g[I] = JoinStep(f[I \ {n + 1}], s[n + 1]) /\ I # {}
          BY <4>1
        <5>. QED  BY <5>2, <5>4, <5>5
      <4>2. CASE n + 1 \notin I
        <5>1. I \in SUBSET (1..n) /\ g[I] = f[I]
          BY <4>2
        <5>2. f[I] = IF I = {} THEN <<>> ELSE JoinStep(f[I \ {Max(I)}], s[Max(I)])
          BY <3>1, <5>1 DEF IsJoining
        <5>3. I \ {Max(I)} \in SUBSET (1..n + 1) /\ n + 1 \notin I \ {Max(I)}
          BY <4>2
        <5>4. g[I \ {Max(I)}] = f[I \ {Max(I)}]
          BY <5>3
        <5>. QED  BY <5>1, <5>2, <5>4
      <4>. QED  BY <4>1, <4>2
    <3>3. IsJoining(g, s, n + 1)
      BY <3>2 DEF IsJoining
    <3>. QED  BY <3>3
  <2>. QED  BY <2>1, <2>2, NatInductive
<1>. DEFINE iter == CHOOSE f : IsJoining(f, s, N)
            run == [n \in 0..N |-> iter[1..n]]
<1>3. IsJoining(iter, s, N)
  BY <1>1, <1>2
<1>4. Joined(s) = iter[1..N]
  BY <1>1 DEF Joined, FoldLeft, MapThenFoldSet, IsJoining, JoinStep
<1>. HIDE DEF iter
<1>5. run[0] = <<>>
  <2>1. 1..0 = {} /\ {} \in SUBSET (1..N) /\ 0 \in 0..N
    BY <1>1
  <2>. QED  BY <1>3, <2>1 DEF IsJoining
<1>6. ASSUME NEW n \in 1..N PROVE run[n] = JoinStep(run[n - 1], s[n])
  <2>. DEFINE I == 1..n
  <2>1. n \in I /\ I \in SUBSET (1..N) /\ I # {} /\ n \in Nat
    <3>1. n \in 1..N /\ N \in Nat
      BY <1>1
    <3>2. n \in I /\ \A i \in I : i \in 1..N
      <4>. HIDE DEF N
      <4>. QED  BY <3>1
    <3>. HIDE DEF N, I
    <3>. QED  BY <3>1, <3>2
  <2>0. n \in 0..N /\ n - 1 \in 0..N
    <3>1. n \in 1..N /\ N \in Nat
      BY <1>1
    <3>. HIDE DEF N
    <3>. QED  BY <3>1
  <2>2. Max(I) \in I /\ \A i \in I : i <= Max(I)
    <3>1. n \in Nat /\ I \subseteq 1..n /\ I # {}
      BY <2>1
    <3>. HIDE DEF I
    <3>. QED  BY <3>1, MaxIsLast
  <2>3. Max(I) = n
    BY <2>1, <2>2
  <2>4. I \ {n} = 1..n - 1
    BY <2>1
  <2>5. iter[I] = JoinStep(iter[I \ {Max(I)}], s[Max(I)])
    BY <1>3, <2>1 DEF IsJoining
  <2>6. iter[I] = JoinStep(iter[1..n - 1], s[n])
    BY <2>3, <2>4, <2>5
  <2>. QED  BY <2>0, <2>6
<1>7. Joined(s) = run[N]
  BY <1>1, <1>4
<1>. HIDE DEF run
<1>8. Joins(run, s)
  BY <1>5, <1>6, <1>7 DEF Joins
<1>. QED  BY <1>8

-----------------------------------------------------------------------------
(* A part more. *)

\* The front of a sequence grows by an element.
LEMMA FrontGrows ==
  ASSUME NEW S, NEW p \in Seq(S), NEW m \in Nat, m < Len(p)
  PROVE  /\ SubSeq(p, 1, m) \in Seq(S) /\ p[m + 1] \in S
         /\ SubSeq(p, 1, m + 1) = Append(SubSeq(p, 1, m), p[m + 1])
<1>0. Len(p) \in Nat
  OBVIOUS
<1>. DEFINE n == m + 1
<1>1. 1 \in 1..Len(p) /\ n \in 1..Len(p) /\ n - 1 = m
  BY <1>0
<1>2. SubSeq(p, 1, m) \in Seq(S)
  <2>1. \A i \in 1..m : p[i] \in S
    BY <1>0
  <2>. QED  BY <2>1, SubSeqProperties
<1>. HIDE DEF n
<1>3. p[n] \in S
  BY <1>1
<1>4. SubSeq(p, 1, n) = SubSeq(p, 1, n - 1) \o <<p[n]>>
  BY <1>1, SubSeqRecursiveSecond
<1>5. Append(SubSeq(p, 1, m), p[n]) = SubSeq(p, 1, m) \o <<p[n]>>
  BY <1>2, <1>3, AppendIsConcat
<1>6. SubSeq(p, 1, n) = Append(SubSeq(p, 1, m), p[n])
  BY <1>1, <1>4, <1>5
<1>. QED  BY <1>2, <1>3, <1>6 DEF n

\* A character more in the last part.
LEMMA LastPartGrows ==
  ASSUME NEW c, NEW a \in Seq(Seq(Characters)), NEW q \in Seq(Characters), NEW d \in Characters, d # c
  PROVE  SplitStep(c, Append(a, q), d) = Append(a, Append(q, d))
<1>. DEFINE b == Append(a, q)
            r == Append(q, d)
            l == Len(b)
            x == [b EXCEPT ![l] = r]
            y == Append(a, r)
<1>1. r \in Seq(Characters)
  BY AppendProperties
<1>2. /\ b \in Seq(Seq(Characters)) /\ l = Len(a) + 1 /\ b[Len(a) + 1] = q
      /\ \A i \in 1..Len(a) : b[i] = a[i]
  BY AppendProperties
<1>3. Len(a) \in Nat
  OBVIOUS
<1>4. SplitStep(c, b, d) = x
  <2>1. SplitStep(c, b, d) = [b EXCEPT ![l] = Append(b[l], d)]
    <3>. HIDE DEF b, r
    <3>. QED  BY DEF SplitStep
  <2>2. b[l] = q
    BY <1>2
  <2>. QED  BY <2>1, <2>2
<1>5. /\ y \in Seq(Seq(Characters)) /\ Len(y) = Len(a) + 1 /\ y[Len(a) + 1] = r
      /\ \A i \in 1..Len(a) : y[i] = a[i]
  <2>. HIDE DEF r
  <2>. QED  BY <1>1, AppendProperties
<1>6. /\ x \in Seq(Seq(Characters)) /\ Len(x) = l
      /\ \A i \in 1..l : x[i] = IF i = l THEN r ELSE b[i]
  <2>. HIDE DEF b, r, l
  <2>1. b \in Seq(Seq(Characters)) /\ l = Len(b) /\ r \in Seq(Characters) /\ l \in 1..Len(b)
    <3>1. l = Len(a) + 1 /\ l = Len(b) /\ Len(a) \in Nat
      BY <1>2, <1>3 DEF l
    <3>. QED  BY <1>1, <1>2, <3>1
  <2>. QED  BY <2>1, ExceptSeq
<1>7. x = y
  <2>1. Len(x) = Len(y)
    BY <1>2, <1>5, <1>6
  <2>2. \A i \in 1..Len(x) : x[i] = y[i]
    <3>. HIDE DEF x, y, b, r
    <3>. SUFFICES ASSUME NEW i \in 1..Len(x) PROVE x[i] = y[i]
      OBVIOUS
    <3>1. i = Len(a) + 1 \/ i \in 1..Len(a)
      BY <1>2, <1>3, <1>6
    <3>2. i \in 1..l /\ l = Len(a) + 1
      BY <1>2, <1>6
    <3>. HIDE DEF l
    <3>3. CASE i = Len(a) + 1
      BY <1>5, <1>6, <3>2, <3>3
    <3>4. CASE i \in 1..Len(a)
      <4>1. i # l
        BY <1>3, <3>2, <3>4
      <4>. QED  BY <1>2, <1>5, <1>6, <3>2, <3>4, <4>1
    <3>. QED  BY <3>1, <3>3, <3>4
  <2>. HIDE DEF x, y
  <2>. QED  BY <1>5, <1>6, <2>1, <2>2, SeqEqual
<1>. QED  BY <1>4, <1>7

\* The text w ends after k characters with p, which has no separator in it, and
\* the first k have given the parts a and an empty one.
IsTail(c, f, w, k, a, p) ==
  /\ w \in Seq(Characters) /\ Splits(f, c, w) /\ k \in Nat
  /\ p \in Seq(Characters) /\ Len(w) = k + Len(p)
  /\ \A m \in 1..Len(p) : w[k + m] = p[m] /\ p[m] # c
  /\ a \in Seq(Seq(Characters)) /\ f[k] = Append(a, <<>>)

\* w is split into a and p.
EndsWith(c, w, a, p) == Split(c, w) = Append(a, p)

\* Such an end is a part.
LEMMA SplitTail ==
  ASSUME NEW c, NEW f, NEW w, NEW k, NEW a, NEW p, IsTail(c, f, w, k, a, p)
  PROVE  EndsWith(c, w, a, p)
<1>. /\ w \in Seq(Characters) /\ Splits(f, c, w) /\ k \in Nat
     /\ p \in Seq(Characters) /\ Len(w) = k + Len(p)
     /\ \A m \in 1..Len(p) : w[k + m] = p[m] /\ p[m] # c
     /\ a \in Seq(Seq(Characters)) /\ f[k] = Append(a, <<>>)
  BY DEF IsTail
<1>. DEFINE part(m) == Append(a, SubSeq(p, 1, m))
            T == {m \in Nat : m <= Len(p) => f[k + m] = part(m)}
<1>0. Len(p) \in Nat
  OBVIOUS
<1>1. 0 \in T
  <2>1. SubSeq(p, 1, 0) = <<>> /\ k + 0 = k
    OBVIOUS
  <2>. QED  BY <2>1
<1>2. ASSUME NEW m \in Nat, m \in T PROVE m + 1 \in T
  <2>. SUFFICES ASSUME m + 1 <= Len(p) PROVE f[k + (m + 1)] = part(m + 1)
    OBVIOUS
  <2>1. /\ m < Len(p) /\ m <= Len(p) /\ m + 1 \in 1..Len(p)
        /\ k + (m + 1) \in 1..Len(w) /\ (k + (m + 1)) - 1 = k + m
    BY <1>0
  <2>. DEFINE q == SubSeq(p, 1, m)
              d == p[m + 1]
  <2>2. q \in Seq(Characters) /\ d \in Characters /\ SubSeq(p, 1, m + 1) = Append(q, d)
    BY <2>1, FrontGrows
  <2>3. d # c /\ w[k + (m + 1)] = d
    BY <2>1
  <2>4. f[k + m] = Append(a, q)
    BY <1>2, <2>1
  <2>5. f[k + (m + 1)] = SplitStep(c, f[(k + (m + 1)) - 1], w[k + (m + 1)])
    <3>. DEFINE n == k + (m + 1)
    <3>. HIDE DEF n
    <3>1. n \in 1..Len(w)
      BY <2>1 DEF n
    <3>2. f[n] = SplitStep(c, f[n - 1], w[n])
      BY <3>1 DEF Splits
    <3>. QED  BY <3>2 DEF n
  <2>6. f[k + (m + 1)] = SplitStep(c, Append(a, q), d)
    BY <2>1, <2>3, <2>4, <2>5
  <2>7. SplitStep(c, Append(a, q), d) = Append(a, Append(q, d))
    <3>. HIDE DEF q, d
    <3>. QED  BY <2>2, <2>3, LastPartGrows
  <2>. QED  BY <2>2, <2>6, <2>7
<1>3. Len(p) \in T
  <2>. HIDE DEF T
  <2>1. \A m \in Nat : m \in T => m + 1 \in T
    BY <1>2
  <2>. QED  BY <1>0, <1>1, <2>1, NatInductive
<1>4. f[Len(w)] = Append(a, SubSeq(p, 1, Len(p)))
  BY <1>0, <1>3
<1>5. SubSeq(p, 1, Len(p)) = p
  BY SubSeqFull
<1>. QED  BY <1>4, <1>5 DEF Splits, EndsWith

\* A text without the separator is one part.
LEMMA SplitOne ==
  ASSUME NEW c, NEW p \in Seq(Characters), \A m \in 1..Len(p) : p[m] # c
  PROVE  Split(c, p) = <<p>>
<1>1. PICK f : Splits(f, c, p)
  BY SplitRuns
<1>2. f[0] = Append(<<>>, <<>>)
  BY <1>1 DEF Splits
<1>3. /\ <<>> \in Seq(Seq(Characters)) /\ 0 \in Nat
      /\ Len(p) = 0 + Len(p) /\ \A m \in 1..Len(p) : p[0 + m] = p[m] /\ p[m] # c
  OBVIOUS
<1>4. Append(<<>>, p) = <<p>>
  OBVIOUS
<1>5. IsTail(c, f, p, 0, <<>>, p)
  BY <1>1, <1>2, <1>3 DEF IsTail
<1>6. EndsWith(c, p, <<>>, p)
  BY <1>5, SplitTail
<1>. QED  BY <1>4, <1>6 DEF EndsWith

\* A part more at the end of a text.
LEMMA SplitMore ==
  ASSUME NEW c \in Characters, NEW s \in Seq(Characters), NEW p \in Seq(Characters),
         Split(c, s) \in Seq(Seq(Characters)), \A m \in 1..Len(p) : p[m] # c
  PROVE  Split(c, s \o <<c>> \o p) = Append(Split(c, s), p)
<1>. DEFINE w == s \o <<c>> \o p
            k == Len(s) + 1
            a == Split(c, s)
<1>0. Len(s) \in Nat /\ Len(p) \in Nat /\ k \in Nat
  OBVIOUS
<1>1. /\ s \o <<c>> \in Seq(Characters) /\ Len(s \o <<c>>) = k
      /\ (s \o <<c>>)[k] = c /\ \A i \in 1..Len(s) : (s \o <<c>>)[i] = s[i]
  <2>1. <<c>> \in Seq(Characters) /\ Len(<<c>>) = 1 /\ <<c>>[1] = c
    OBVIOUS
  <2>. QED  BY <1>0, <2>1, ConcatProperties
<1>. DEFINE h == s \o <<c>>
<1>. HIDE DEF k
<1>2. /\ w \in Seq(Characters) /\ Len(w) = k + Len(p)
      /\ \A i \in 1..k + Len(p) : w[i] = IF i <= k THEN h[i] ELSE p[i - k]
  <2>1. w = h \o p
    OBVIOUS
  <2>2. h \in Seq(Characters) /\ Len(h) = k
    BY <1>1
  <2>. HIDE DEF h, w
  <2>. QED  BY <2>1, <2>2, ConcatProperties
<1>3. \A m \in 1..Len(p) : w[k + m] = p[m]
  <2>. SUFFICES ASSUME NEW m \in 1..Len(p) PROVE w[k + m] = p[m]
    OBVIOUS
  <2>1. k + m \in 1..k + Len(p) /\ ~(k + m <= k) /\ (k + m) - k = m
    BY <1>0
  <2>. HIDE DEF w, h
  <2>. QED  BY <1>2, <2>1
<1>4. w[k] = c /\ \A i \in 1..Len(s) : w[i] = s[i]
  <2>1. k \in 1..k + Len(p) /\ k = Len(s) + 1
    BY <1>0 DEF k
  <2>2. w[k] = c
    <3>1. w[k] = h[k]
      <4>. HIDE DEF w, h
      <4>. QED  BY <1>0, <1>2, <2>1
    <3>. QED  BY <1>1, <3>1
  <2>3. ASSUME NEW i \in 1..Len(s) PROVE w[i] = s[i]
    <3>1. i \in 1..k + Len(p) /\ i <= k
      BY <1>0, <2>1
    <3>2. w[i] = h[i]
      <4>. HIDE DEF w, h
      <4>. QED  BY <1>2, <3>1
    <3>. QED  BY <1>1, <3>2
  <2>. QED  BY <2>2, <2>3
<1>. HIDE DEF w, h
<1>5. PICK f : Splits(f, c, w)
  BY <1>2, SplitRuns
<1>6. PICK g : Splits(g, c, s)
  BY SplitRuns
<1>7. f[Len(s)] = g[Len(s)]
  <2>. DEFINE T == {n \in Nat : n <= Len(s) => f[n] = g[n]}
  <2>1. 0 \in T
    BY <1>5, <1>6 DEF Splits
  <2>2. ASSUME NEW n \in Nat, n \in T PROVE n + 1 \in T
    <3>. SUFFICES ASSUME n + 1 <= Len(s) PROVE f[n + 1] = g[n + 1]
      OBVIOUS
    <3>. DEFINE l == n + 1
    <3>1. l \in 1..Len(s) /\ l \in 1..Len(w) /\ l - 1 = n /\ n <= Len(s)
      <4>1. Len(w) = Len(s) + 1 + Len(p) /\ Len(s) \in Nat /\ Len(p) \in Nat
        BY <1>0, <1>2 DEF k
      <4>. DEFINE ls == Len(s)
                  lp == Len(p)
      <4>. HIDE DEF ls, lp
      <4>2. Len(w) = ls + 1 + lp /\ ls \in Nat /\ lp \in Nat /\ n + 1 <= ls
        BY <4>1 DEF ls, lp
      <4>3. l \in 1..ls /\ l \in 1..Len(w) /\ l - 1 = n /\ n <= ls
        BY <4>2
      <4>. QED  BY <4>3 DEF ls
    <3>. HIDE DEF l
    <3>2. f[l] = SplitStep(c, f[l - 1], w[l])
      BY <1>5, <3>1 DEF Splits
    <3>3. g[l] = SplitStep(c, g[l - 1], s[l])
      BY <1>6, <3>1 DEF Splits
    <3>4. f[n] = g[n] /\ w[l] = s[l]
      BY <1>4, <2>2, <3>1
    <3>. QED  BY <3>1, <3>2, <3>3, <3>4 DEF l
  <2>. HIDE DEF T
  <2>3. Len(s) \in T
    BY <1>0, <2>1, <2>2, NatInductive
  <2>. QED  BY <1>0, <2>3 DEF T
<1>8. f[k] = Append(a, <<>>)
  <2>1. k \in 1..Len(w) /\ k - 1 = Len(s)
    BY <1>0, <1>2 DEF k
  <2>2. f[k] = SplitStep(c, f[k - 1], w[k])
    BY <1>5, <2>1 DEF Splits
  <2>3. f[k - 1] = a
    BY <1>6, <1>7, <2>1 DEF Splits
  <2>4. f[k] = SplitStep(c, a, c)
    BY <1>4, <2>2, <2>3
  <2>. HIDE DEF a
  <2>. QED  BY <2>4 DEF SplitStep
<1>9. Split(c, w) = Append(a, p)
  <2>1. /\ k \in Nat /\ a \in Seq(Seq(Characters))
        /\ \A m \in 1..Len(p) : w[k + m] = p[m] /\ p[m] # c
    BY <1>0, <1>3
  <2>. HIDE DEF a
  <2>2. IsTail(c, f, w, k, a, p)
    BY <1>2, <1>5, <1>8, <2>1 DEF IsTail
  <2>3. EndsWith(c, w, a, p)
    BY <2>2, SplitTail
  <2>. QED  BY <2>3 DEF EndsWith
<1>. QED  BY <1>9 DEF w

-----------------------------------------------------------------------------
(* What was joined is split, and what was paired is cut. *)

\* A text that is a part of a key, and can be cut out again.
IsPartText(p) ==
  p \in Seq(Characters) /\ p # <<>> /\ \A m \in 1..Len(p) : p[m] # COMMA

\* Joined parts come apart again.
LEMMA JoinedIsSplit ==
  ASSUME NEW ps \in Seq(Seq(Characters)), ps # <<>>, \A i \in 1..Len(ps) : IsPartText(ps[i])
  PROVE  Split(COMMA, Joined(ps)) = ps
<1>. DEFINE N == Len(ps)
<1>0. N \in Nat /\ N # 0
  BY EmptySeq
<1>1. PICK f : Joins(f, ps)
  BY JoinRuns
<1>. DEFINE Good(n) == /\ f[n] \in Seq(Characters) /\ f[n] # <<>>
                       /\ Split(COMMA, f[n]) = SubSeq(ps, 1, n)
            T == {n \in Nat : n \in 1..N => Good(n)}
<1>2. \A n \in 1..N : f[n] = JoinStep(f[n - 1], ps[n])
  BY <1>1 DEF Joins
<1>3. 0 \in T
  OBVIOUS
<1>4. ASSUME NEW n \in Nat, n \in T PROVE n + 1 \in T
  <2>. SUFFICES ASSUME n + 1 \in 1..N PROVE Good(n + 1)
    OBVIOUS
  <2>. DEFINE p == ps[n + 1]
  <2>1. p \in Seq(Characters) /\ p # <<>> /\ \A m \in 1..Len(p) : p[m] # COMMA
    BY DEF IsPartText
  <2>2. f[n + 1] = JoinStep(f[n], p)
    <3>. DEFINE l == n + 1
    <3>1. l \in 1..N /\ l - 1 = n
      OBVIOUS
    <3>. HIDE DEF l, N
    <3>2. f[l] = JoinStep(f[l - 1], ps[l])
      BY <1>2, <3>1
    <3>. QED  BY <3>1, <3>2 DEF l
  <2>3. n < Len(ps)
    BY <1>0
  <2>4. SubSeq(ps, 1, n + 1) = Append(SubSeq(ps, 1, n), p)
    BY <2>3, FrontGrows
  <2>. HIDE DEF p
  <2>5. CASE n = 0
    <3>1. f[0] = <<>>
      BY <1>1 DEF Joins
    <3>2. f[n + 1] = p
      BY <2>2, <2>5, <3>1 DEF JoinStep
    <3>3. Split(COMMA, p) = <<p>>
      BY <2>1, SplitOne
    <3>4. SubSeq(ps, 1, n) = <<>> /\ Append(<<>>, p) = <<p>>
      BY <2>5
    <3>5. SubSeq(ps, 1, n + 1) = <<p>>
      BY <2>4, <3>4
    <3>. QED  BY <2>1, <3>2, <3>3, <3>5
  <2>6. CASE n # 0
    <3>1. f[n] \in Seq(Characters) /\ f[n] # <<>> /\ Split(COMMA, f[n]) = SubSeq(ps, 1, n)
      BY <1>0, <1>4, <2>3, <2>6
    <3>. DEFINE s == f[n]
    <3>. HIDE DEF s
    <3>2. s \in Seq(Characters) /\ s # <<>> /\ Split(COMMA, s) = SubSeq(ps, 1, n)
      BY <3>1 DEF s
    <3>3. f[n + 1] = s \o <<COMMA>> \o p
      BY <2>2, <3>2 DEF JoinStep, s
    <3>4. COMMA \in Characters
      BY DEF COMMA, Characters
    <3>5. SubSeq(ps, 1, n) \in Seq(Seq(Characters))
      BY <2>3, FrontGrows
    <3>6. Split(COMMA, s) \in Seq(Seq(Characters))
      BY <3>2, <3>5
    <3>7. Split(COMMA, s \o <<COMMA>> \o p) = Append(Split(COMMA, s), p)
      BY <2>1, <3>2, <3>4, <3>6, SplitMore
    <3>8. s \o <<COMMA>> \o p \in Seq(Characters) /\ s \o <<COMMA>> \o p # <<>>
      <4>1. <<COMMA>> \in Seq(Characters) /\ <<COMMA>> # <<>>
        BY <3>4
      <4>. DEFINE c == <<COMMA>>
      <4>. HIDE DEF c
      <4>2. c \in Seq(Characters)
        BY <4>1 DEF c
      <4>3. s \o c \in Seq(Characters) /\ s \o c # <<>>
        BY <3>2, <4>2, ConcatProperties, ConcatEqualIffEmpty
      <4>. DEFINE d == s \o c
      <4>. HIDE DEF d
      <4>4. d \in Seq(Characters) /\ d # <<>>
        BY <4>3 DEF d
      <4>5. d \o p \in Seq(Characters) /\ d \o p # <<>>
        BY <2>1, <4>4, ConcatProperties, ConcatEqualIffEmpty
      <4>. QED  BY <4>5 DEF c, d
    <3>9. Split(COMMA, f[n + 1]) = SubSeq(ps, 1, n + 1)
      BY <2>4, <3>2, <3>3, <3>7
    <3>. QED  BY <3>3, <3>8, <3>9
  <2>. QED  BY <2>5, <2>6
<1>5. N \in T
  <2>. HIDE DEF T
  <2>. QED  BY <1>0, <1>3, <1>4, NatInductive
<1>6. Split(COMMA, f[N]) = SubSeq(ps, 1, N)
  BY <1>0, <1>5
<1>7. SubSeq(ps, 1, N) = ps
  BY SubSeqFull
<1>8. Joined(ps) = f[N]
  BY <1>1 DEF Joins
<1>. QED  BY <1>6, <1>7, <1>8

\* The part of an attribute.
Pair(k, v) == k \o <<EQUALS>> \o v

\* It is cut at the '=' behind the key.
LEMMA PairIsCut ==
  ASSUME NEW k \in AttrKeys, NEW v \in Seq(Characters), COMMA \notin ToSet(v)
  PROVE  /\ IsPartText(Pair(k, v)) /\ Find(EQUALS, Pair(k, v)) # 0
         /\ Before(EQUALS, Pair(k, v)) = k /\ After(EQUALS, Pair(k, v)) = v
<1>. DEFINE p == Pair(k, v)
            h == k \o <<EQUALS>>
            n == Len(k)
            l == Len(v)
<1>1. /\ k \in Seq(Characters) /\ k # <<>> /\ n \in Nat /\ l \in Nat
      /\ \A i \in 1..n : k[i] # COMMA /\ k[i] # EQUALS
  <2>1. k \in Seq(Characters) /\ k # <<>> /\ {COMMA, EQUALS} \cap ToSet(k) = {}
    BY JoinKeysAssumption
  <2>2. \A i \in 1..n : k[i] \in ToSet(k)
    BY <2>1 DEF ToSet
  <2>. QED  BY <2>1, <2>2
<1>2. \A i \in 1..l : v[i] # COMMA
  BY DEF ToSet
<1>3. EQUALS \in Characters /\ EQUALS # COMMA
  BY DEF EQUALS, Characters, COMMA
<1>4. /\ h \in Seq(Characters) /\ Len(h) = n + 1 /\ h[n + 1] = EQUALS
      /\ \A i \in 1..n : h[i] = k[i]
  <2>1. <<EQUALS>> \in Seq(Characters) /\ Len(<<EQUALS>>) = 1 /\ <<EQUALS>>[1] = EQUALS
    BY <1>3
  <2>. QED  BY <1>1, <2>1, ConcatProperties
<1>5. /\ p \in Seq(Characters) /\ Len(p) = n + 1 + l
      /\ \A i \in 1..n + 1 + l : p[i] = IF i <= n + 1 THEN h[i] ELSE v[i - (n + 1)]
  <2>1. p = h \o v
    BY DEF Pair
  <2>2. h \in Seq(Characters) /\ v \in Seq(Characters)
    BY <1>4
  <2>3. Len(h) = n + 1 /\ Len(v) = l
    BY <1>4
  <2>. HIDE DEF h, p, n, l
  <2>4. /\ h \o v \in Seq(Characters) /\ Len(h \o v) = Len(h) + Len(v)
        /\ \A i \in 1..Len(h) + Len(v) :
             (h \o v)[i] = IF i <= Len(h) THEN h[i] ELSE v[i - Len(h)]
    BY <2>2, ConcatProperties
  <2>. QED  BY <2>1, <2>3, <2>4
<1>6. /\ p[n + 1] = EQUALS /\ \A i \in 1..n : p[i] = k[i]
      /\ \A i \in 1..l : p[n + 1 + i] = v[i]
  <2>1. n + 1 \in 1..n + 1 + l /\ n + 1 <= n + 1
    BY <1>1
  <2>2. p[n + 1] = h[n + 1]
    <3>. HIDE DEF p, h
    <3>. QED  BY <1>5, <2>1
  <2>3. ASSUME NEW i \in 1..n PROVE p[i] = k[i]
    <3>1. i \in 1..n + 1 + l /\ i <= n + 1
      BY <1>1
    <3>2. p[i] = h[i]
      <4>. HIDE DEF p, h
      <4>. QED  BY <1>5, <3>1
    <3>. QED  BY <1>4, <3>2
  <2>4. ASSUME NEW i \in 1..l PROVE p[n + 1 + i] = v[i]
    <3>1. n + 1 + i \in 1..n + 1 + l /\ ~(n + 1 + i <= n + 1) /\ (n + 1 + i) - (n + 1) = i
      BY <1>1
    <3>. HIDE DEF p, h
    <3>. QED  BY <1>5, <3>1
  <2>. QED  BY <1>4, <2>2, <2>3, <2>4
<1>. HIDE DEF p, h
<1>7. Find(EQUALS, p) = n + 1
  <2>. DEFINE e == Find(EQUALS, p)
  <2>1. n + 1 \in 1..Len(p) /\ p[n + 1] = EQUALS
    BY <1>1, <1>5, <1>6
  <2>2. e \in 1..Len(p) /\ p[e] = EQUALS /\ \A i \in 1..e - 1 : p[i] # EQUALS
    BY <1>5, <2>1, FindIs
  <2>. HIDE DEF e
  <2>3. ~(e < n + 1)
    <3>1. e < n + 1 => e \in 1..n
      BY <1>1, <2>2
    <3>. QED  BY <1>1, <1>6, <2>2, <3>1
  <2>4. ~(n + 1 < e)
    <3>1. n + 1 < e => n + 1 \in 1..e - 1
      BY <1>1, <2>2
    <3>. QED  BY <1>6, <2>2, <3>1
  <2>5. e = n + 1
    BY <1>1, <1>5, <2>2, <2>3, <2>4
  <2>. QED  BY <2>5 DEF e
<1>8. Before(EQUALS, p) = k
  <2>1. Before(EQUALS, p) = SubSeq(p, 1, n)
    <3>1. (n + 1) - 1 = n
      BY <1>1
    <3>. QED  BY <1>7, <3>1 DEF Before
  <2>2. /\ SubSeq(p, 1, n) \in Seq(Characters) /\ Len(SubSeq(p, 1, n)) = n
        /\ \A i \in 1..n : SubSeq(p, 1, n)[i] = p[i]
    <3>1. \A i \in 1..n : p[i] \in Characters
      BY <1>1, <1>6
    <3>. QED  BY <1>1, <3>1, SubSeqProperties
  <2>. DEFINE b == SubSeq(p, 1, n)
  <2>3. b \in Seq(Characters) /\ Len(b) = Len(k) /\ \A i \in 1..Len(b) : b[i] = k[i]
    BY <1>6, <2>2
  <2>. HIDE DEF b
  <2>4. b = k
    BY <1>1, <2>3, SeqEqual
  <2>. QED  BY <2>1, <2>4 DEF b
<1>9. After(EQUALS, p) = v
  <2>. DEFINE a == n + 2
              m == n + 1 + l
              b == SubSeq(p, a, m)
  <2>1. After(EQUALS, p) = b
    <3>1. (n + 1) + 1 = a
      BY <1>1
    <3>. QED  BY <1>5, <1>7, <3>1 DEF After
  <2>2. a \in Int /\ m \in Int /\ m - a + 1 = l /\ (IF a <= m THEN m - a + 1 ELSE 0) = l
    BY <1>1
  <2>3. \A i \in a..m : p[i] \in Characters
    <3>. SUFFICES ASSUME NEW i \in a..m PROVE p[i] \in Characters
      OBVIOUS
    <3>1. i \in 1..Len(p)
      BY <1>1, <1>5
    <3>. QED  BY <1>5, <3>1
  <2>. HIDE DEF a, m
  <2>4. /\ b \in Seq(Characters) /\ Len(b) = IF a <= m THEN m - a + 1 ELSE 0
        /\ \A i \in 1..m - a + 1 : b[i] = p[a + i - 1]
    BY <2>2, <2>3, SubSeqProperties
  <2>. HIDE DEF b
  <2>5. Len(b) = l /\ \A i \in 1..l : b[i] = p[a + i - 1]
    BY <2>2, <2>4
  <2>6. ASSUME NEW i \in 1..l PROVE b[i] = v[i]
    <3>1. a + i - 1 = n + 1 + i
      BY <1>1 DEF a
    <3>. QED  BY <1>6, <2>5, <3>1
  <2>7. b = v
    BY <2>4, <2>5, <2>6, SeqEqual
  <2>. QED  BY <2>1, <2>7
<1>10. IsPartText(p)
  <2>1. p # <<>>
    <3>1. Len(p) # 0
      BY <1>1, <1>5
    <3>. QED  BY <1>5, <3>1
  <2>2. ASSUME NEW i \in 1..Len(p) PROVE p[i] # COMMA
    <3>1. i \in 1..n \/ i = n + 1 \/ i - (n + 1) \in 1..l
      BY <1>1, <1>5
    <3>2. CASE i \in 1..n
      BY <1>1, <1>6, <3>2
    <3>3. CASE i = n + 1
      BY <1>3, <1>6, <3>3
    <3>4. CASE i - (n + 1) \in 1..l
      <4>1. n + 1 + (i - (n + 1)) = i
        BY <1>1
      <4>2. p[i] = v[i - (n + 1)]
        BY <1>6, <3>4, <4>1
      <4>. QED  BY <1>2, <3>4, <4>2
    <3>. QED  BY <3>1, <3>2, <3>3, <3>4
  <2>. QED  BY <1>5, <2>1, <2>2 DEF IsPartText
<1>11. Find(EQUALS, p) # 0
  BY <1>1, <1>7
<1>. QED  BY <1>8, <1>9, <1>10, <1>11 DEF p

-----------------------------------------------------------------------------
(* From the key back to the attributes. *)

\* The parts of the key of an attribute set.
PairsOf(a) == {Pair(k, a[k]) : k \in NonEmpty(a)}

\* NormAttrs sorts a finite set of texts.
LEMMA PairsAreFinite ==
  ASSUME NEW a \in Attrs
  PROVE  PairsOf(a) \subseteq Seq(Characters) /\ IsFiniteSet(PairsOf(a))
<1>1. IsFiniteSet(NonEmpty(a))
  <2>1. NonEmpty(a) \in SUBSET AttrKeys
    BY DEF NonEmpty
  <2>. QED  BY <2>1, JoinKeysAssumption, FS_Subset
<1>. DEFINE K == NonEmpty(a)
            P == PairsOf(a)
            f == [k \in K |-> Pair(k, a[k])]
<1>2. f \in Surjection(K, P)
  BY DEF Surjection, PairsOf
<1>3. IsFiniteSet(P)
  <2>. HIDE DEF f, K, P
  <2>. QED  BY <1>1, <1>2, FS_Surjection DEF K
<1>4. ASSUME NEW k \in NonEmpty(a) PROVE Pair(k, a[k]) \in Seq(Characters)
  <2>1. k \in AttrKeys /\ a[k] \in AttrValues
    BY DEF NonEmpty, Attrs
  <2>2. k \in Seq(Characters) /\ a[k] \in Seq(Characters)
    BY <2>1, JoinKeysAssumption
  <2>3. EQUALS \in Characters
    BY DEF EQUALS, Characters
  <2>. DEFINE c == <<EQUALS>>
              v == a[k]
  <2>4. c \in Seq(Characters) /\ v \in Seq(Characters)
    BY <2>2, <2>3
  <2>. HIDE DEF c, v
  <2>5. k \o c \in Seq(Characters)
    BY <2>2, <2>4, ConcatProperties
  <2>. DEFINE d == k \o c
  <2>6. d \in Seq(Characters)
    BY <2>5
  <2>. HIDE DEF d
  <2>7. d \o v \in Seq(Characters)
    BY <2>4, <2>6, ConcatProperties
  <2>. QED  BY <2>7 DEF Pair, c, d, v
<1>. QED  BY <1>3, <1>4 DEF PairsOf

\* AttrsFromKey gives the attributes from which NormAttrs made the key, but for
\* the empty ones, if no value holds a comma.
LEMMA KeyNamesAttrs ==
  ASSUME NEW a \in Attrs, Plain(a)
  PROVE  AttrsFromKey(NormAttrs(a)) = [k \in NonEmpty(a) |-> a[k]]
<1>. DEFINE P == PairsOf(a)
            ps == Sorted(P)
            N == Cardinality(P)
            key == NormAttrs(a)
            parts == Split(COMMA, key)
            pairs == {i \in DOMAIN parts : Find(EQUALS, parts[i]) # 0}
            name(i) == Before(EQUALS, parts[i])
            named(k) == {i \in pairs : name(i) = k}
            D == {name(i) : i \in pairs}
            G(k) == After(EQUALS, parts[Max(named(k))])
<1>1. P \subseteq Seq(Characters) /\ IsFiniteSet(P)
  BY PairsAreFinite
<1>2. /\ ps \in Seq(P) /\ Len(ps) = N /\ N \in Nat
      /\ \A p \in P : \E i \in 1..N : ps[i] = p
  BY <1>1, SortedHasAll, FS_CardinalityType
<1>3. key = Joined(ps)
  BY DEF NormAttrs, PairsOf, Pair
<1>4. ASSUME NEW k \in NonEmpty(a)
      PROVE  /\ IsPartText(Pair(k, a[k])) /\ Find(EQUALS, Pair(k, a[k])) # 0
             /\ Before(EQUALS, Pair(k, a[k])) = k /\ After(EQUALS, Pair(k, a[k])) = a[k]
  <2>1. k \in AttrKeys /\ a[k] \in AttrValues /\ COMMA \notin ToSet(a[k])
    BY DEF NonEmpty, Attrs, Plain
  <2>2. a[k] \in Seq(Characters)
    BY <2>1, JoinKeysAssumption
  <2>. QED  BY <2>1, <2>2, PairIsCut
<1>5. AttrsFromKey(NormAttrs(a)) = [k \in D |-> G(k)]
  BY Zenon DEF AttrsFromKey
<1>8. (D = NonEmpty(a) /\ \A k \in NonEmpty(a) : G(k) = a[k])
        => AttrsFromKey(NormAttrs(a)) = [k \in NonEmpty(a) |-> a[k]]
  <2>. HIDE DEF D, G
  <2>. QED  BY <1>5, Zenon
<1>6. CASE NonEmpty(a) = {}
  <2>1. P = {}
    BY <1>6 DEF PairsOf
  <2>2. N = 0
    BY <2>1, FS_EmptySet
  <2>3. ps = <<>>
    BY <1>2, <2>2, EmptySeq
  <2>4. key = <<>>
    <3>1. PICK f : Joins(f, ps)
      BY <1>2, JoinRuns
    <3>2. Len(ps) = 0
      BY <1>2, <2>2
    <3>. QED  BY <1>3, <3>1, <3>2 DEF Joins
  <2>5. parts = << <<>> >>
    <3>1. <<>> \in Seq(Characters) /\ \A m \in 1..Len(<<>>) : <<>>[m] # COMMA
      OBVIOUS
    <3>2. Split(COMMA, <<>>) = << <<>> >>
      BY <3>1, SplitOne
    <3>. QED  BY <2>4, <3>2
  <2>6. pairs = {}
    <3>1. Find(EQUALS, <<>>) = 0
      <4>1. <<>> \in Seq(Characters) /\ Len(<<>>) = 0
        OBVIOUS
      <4>. DEFINE e == <<>>
      <4>2. e \in Seq(Characters) /\ Len(e) = 0
        BY <4>1
      <4>. HIDE DEF e
      <4>3. Find(EQUALS, e) = 0 \/ Find(EQUALS, e) \in 1..Len(e)
        BY <4>2, FindIs
      <4>4. Find(EQUALS, e) = 0
        BY <4>2, <4>3
      <4>. QED  BY <4>4 DEF e
    <3>2. \A i \in DOMAIN << <<>> >> : << <<>> >>[i] = <<>>
      OBVIOUS
    <3>. QED  BY <2>5, <3>1, <3>2
  <2>7. D = {}
    <3>. HIDE DEF pairs, name
    <3>. QED  BY <2>6
  <2>. HIDE DEF D, G
  <2>. QED  BY <1>6, <1>8, <2>7
<1>7. CASE NonEmpty(a) # {}
  <2>. HIDE DEF ps, N
  <2>1. ps # <<>>
    <3>1. PICK k : k \in NonEmpty(a)
      BY <1>7
    <3>2. Pair(k, a[k]) \in P
      BY <3>1 DEF PairsOf
    <3>3. PICK i \in 1..N : ps[i] = Pair(k, a[k])
      BY <1>2, <3>2
    <3>4. N # 0
      BY <3>3
    <3>5. Len(<<>>) = 0
      OBVIOUS
    <3>. QED  BY <1>2, <3>4, <3>5
  <2>2. ASSUME NEW i \in 1..N PROVE \E k \in NonEmpty(a) : ps[i] = Pair(k, a[k])
    <3>1. ps[i] \in P
      <4>. HIDE DEF P
      <4>. QED  BY <1>2
    <3>. QED  BY <3>1 DEF PairsOf
  <2>3. \A i \in 1..Len(ps) : IsPartText(ps[i])
    <3>. SUFFICES ASSUME NEW i \in 1..Len(ps) PROVE IsPartText(ps[i])
      OBVIOUS
    <3>1. PICK k \in NonEmpty(a) : ps[i] = Pair(k, a[k])
      BY <1>2, <2>2
    <3>. QED  BY <1>4, <3>1
  <2>4. ps \in Seq(Seq(Characters))
    <3>. HIDE DEF P
    <3>. QED  BY <1>1, <1>2, SeqMonotonic
  <2>5. parts = ps
    <3>1. Split(COMMA, Joined(ps)) = ps
      BY <2>1, <2>3, <2>4, JoinedIsSplit
    <3>. HIDE DEF key
    <3>. QED  BY <1>3, <3>1
  <2>6. DOMAIN parts = 1..N
    <3>. HIDE DEF P, parts
    <3>. QED  BY <1>2, <2>5
  <2>. HIDE DEF parts
  <2>7. ASSUME NEW i \in 1..N, NEW k \in NonEmpty(a), ps[i] = Pair(k, a[k])
        PROVE  i \in pairs /\ name(i) = k /\ After(EQUALS, parts[i]) = a[k]
    BY <1>4, <2>5, <2>6, <2>7
  <2>8. pairs = 1..N
    <3>1. \A i \in 1..N : i \in pairs
      BY <2>2, <2>7
    <3>2. pairs \subseteq 1..N
      BY <2>6
    <3>. HIDE DEF pairs
    <3>. QED  BY <3>1, <3>2
  <2>9. {name(i) : i \in pairs} = NonEmpty(a)
    <3>1. ASSUME NEW i \in pairs PROVE name(i) \in NonEmpty(a)
      <4>1. PICK k \in NonEmpty(a) : ps[i] = Pair(k, a[k])
        BY <2>2, <2>8
      <4>2. i \in 1..N
        BY <2>8
      <4>3. name(i) = k
        BY <2>7, <4>1, <4>2
      <4>. QED  BY <4>3
    <3>2. ASSUME NEW k \in NonEmpty(a) PROVE \E i \in pairs : name(i) = k
      <4>1. Pair(k, a[k]) \in P
        BY DEF PairsOf
      <4>2. PICK i \in 1..N : ps[i] = Pair(k, a[k])
        BY <1>2, <4>1
      <4>. QED  BY <2>7, <4>2
    <3>. HIDE DEF pairs, name
    <3>. QED  BY <3>1, <3>2
  <2>10. ASSUME NEW k \in NonEmpty(a)
         PROVE  After(EQUALS, parts[Max(named(k))]) = a[k]
    <3>1. named(k) \subseteq 1..N
      BY <2>8
    <3>2. named(k) # {}
      <4>1. PICK i \in pairs : name(i) = k
        BY <2>9
      <4>. QED  BY <4>1
    <3>. DEFINE I == named(k)
                m == Max(I)
    <3>3. I \subseteq 1..N /\ I # {} /\ N \in Nat
      BY <1>2, <3>1, <3>2
    <3>4. m \in I
      <4>. HIDE DEF I
      <4>. QED  BY <3>3, MaxIsLast
    <3>5. m \in 1..N /\ name(m) = k
      <4>. HIDE DEF m
      <4>. QED  BY <3>1, <3>4
    <3>. HIDE DEF m
    <3>6. PICK j \in NonEmpty(a) : ps[m] = Pair(j, a[j])
      BY <2>2, <3>5
    <3>7. name(m) = j /\ After(EQUALS, parts[m]) = a[j]
      BY <2>7, <3>5, <3>6
    <3>8. After(EQUALS, parts[m]) = a[k]
      BY <3>5, <3>7
    <3>. QED  BY <3>8 DEF m
  <2>11. \A k \in NonEmpty(a) : G(k) = a[k]
    BY <2>10
  <2>12. D = NonEmpty(a)
    BY <2>9
  <2>. HIDE DEF D, G
  <2>. QED  BY <1>8, <2>11, <2>12
<1>. QED  BY <1>6, <1>7

-----------------------------------------------------------------------------
(* Every point is under its own key: KeysInv is inductive. *)

\* Every point is filed under its own key.
Keyed == \A key \in DOMAIN folded : \A p \in folded[key] : NormAttrs(p.attrs) = key

\* The inductive invariant.
KeysInv == KeysTypeOK /\ Keyed

\* It holds of no points at all,
LEMMA KeysInvInit == KeysInit => KeysInv
<1>. SUFFICES ASSUME KeysInit PROVE KeysInv
  OBVIOUS
<1>1. DOMAIN series = {} /\ DOMAIN folded = {} /\ account = {}
  BY DEF KeysInit
<1>. QED  BY <1>1 DEF KeysInv, KeysTypeOK, Keyed

\* after a point of the file, which joins the series of its key or founds it,
LEMMA EmitKeepsKeysInv ==
  ASSUME KeysInv, NEW p \in PointSet, Emit(p)
  PROVE  KeysInv'
<1>. DEFINE k == NormAttrs(p.attrs)
            ps == IF k \in DOMAIN folded THEN folded[k] \cup {p} ELSE {p}
<1>1. /\ account' = account \cup {p}
      /\ series' = IF k \in DOMAIN series THEN series ELSE Put(series, k, p)
      /\ folded' = Put(folded, k, ps)
  BY Zenon DEF Emit
<1>2. k = NormAttrs(p.attrs)
  OBVIOUS
<1>. HIDE DEF k
<1>3. DOMAIN folded = DOMAIN series /\ account \subseteq PointSet
  BY DEF KeysInv, KeysTypeOK
<1>4. DOMAIN folded' = DOMAIN folded \cup {k} /\ folded'[k] = ps
  BY <1>1 DEF Put
<1>5. ASSUME NEW x \in DOMAIN folded, x # k PROVE folded'[x] = folded[x]
  BY <1>1, <1>5 DEF Put
<1>6. DOMAIN series' = DOMAIN folded'
  <2>1. CASE k \in DOMAIN series
    BY <1>1, <1>3, <1>4, <2>1
  <2>2. CASE k \notin DOMAIN series
    BY <1>1, <1>3, <1>4, <2>2 DEF Put
  <2>. QED  BY <2>1, <2>2
<1>7. ASSUME NEW x \in DOMAIN series PROVE series'[x] = series[x]
  <2>1. CASE k \in DOMAIN series
    BY <1>1, <2>1
  <2>2. CASE k \notin DOMAIN series
    BY <1>1, <2>2 DEF Put
  <2>. QED  BY <2>1, <2>2
<1>8. k \notin DOMAIN series => series'[k] = p
  BY <1>1 DEF Put
<1>9. ASSUME NEW x \in DOMAIN folded
      PROVE  /\ folded[x] \subseteq account /\ series[x] \in folded[x]
             /\ \A q \in folded[x] : NormAttrs(q.attrs) = x
  BY DEF KeysInv, KeysTypeOK, Keyed
<1>10. KeysTypeOK'
  <2>1. account' \subseteq PointSet
    BY <1>1, <1>3
  <2>2. ASSUME NEW x \in DOMAIN folded'
        PROVE  folded'[x] \subseteq account' /\ series'[x] \in folded'[x]
    <3>1. CASE x = k
      <4>1. CASE k \in DOMAIN folded
        BY <1>1, <1>3, <1>4, <1>7, <1>9, <3>1, <4>1
      <4>2. CASE k \notin DOMAIN folded
        BY <1>1, <1>3, <1>4, <1>8, <3>1, <4>2
      <4>. QED  BY <4>1, <4>2
    <3>2. CASE x # k
      <4>1. x \in DOMAIN folded
        BY <1>4, <3>2
      <4>. QED  BY <1>1, <1>3, <1>5, <1>7, <1>9, <3>2, <4>1
    <3>. QED  BY <3>1, <3>2
  <2>3. \A x \in DOMAIN series' : series'[x] \in PointSet
    BY <1>6, <2>1, <2>2
  <2>. QED  BY <1>6, <2>1, <2>2, <2>3 DEF KeysTypeOK
<1>11. Keyed'
  <2>. SUFFICES ASSUME NEW x \in DOMAIN folded', NEW q \in folded'[x]
                PROVE  NormAttrs(q.attrs) = x
    BY DEF Keyed
  <2>1. CASE x = k
    BY <1>2, <1>4, <1>9, <2>1
  <2>2. CASE x # k
    BY <1>4, <1>5, <1>9, <2>2
  <2>. QED  BY <2>1, <2>2
<1>. QED  BY <1>10, <1>11 DEF KeysInv

\* after a point that is in the account only,
LEMMA EmitElsewhereKeepsKeysInv ==
  ASSUME KeysInv, NEW p \in PointSet, EmitElsewhere(p)
  PROVE  KeysInv'
<1>1. account' = account \cup {p} /\ series' = series /\ folded' = folded
  BY DEF EmitElsewhere
<1>2. KeysTypeOK'
  BY <1>1 DEF KeysInv, KeysTypeOK
<1>3. Keyed'
  BY <1>1 DEF KeysInv, Keyed
<1>. QED  BY <1>2, <1>3 DEF KeysInv

\* and so always.
LEMMA KeysInvAlways == KeysSpec => []KeysInv
<1>1. KeysInv /\ [KeysNext]_keysVars => KeysInv'
  <2>. SUFFICES ASSUME KeysInv, [KeysNext]_keysVars PROVE KeysInv'
    OBVIOUS
  <2>1. ASSUME NEW p \in PointSet, Emit(p) PROVE KeysInv'
    BY <2>1, EmitKeepsKeysInv
  <2>2. ASSUME NEW p \in PointSet, EmitElsewhere(p) PROVE KeysInv'
    BY <2>2, EmitElsewhereKeepsKeysInv
  <2>3. CASE UNCHANGED keysVars
    BY <2>3 DEF KeysInv, KeysTypeOK, Keyed, keysVars
  <2>. QED  BY <2>1, <2>2, <2>3 DEF KeysNext
<1>. QED  BY KeysInvInit, <1>1, PTL DEF KeysSpec

-----------------------------------------------------------------------------
(* The theorems about JoinKeys. *)

\* Whatever points are written: the account holds points of the metric, and
\* ReadOTLPSeries has for every join key one of the points it stands for.
THEOREM JoinKeysTypeOK == KeysSpec => []KeysTypeOK
<1>1. KeysInv => KeysTypeOK
  BY DEF KeysInv
<1>. QED  BY KeysInvAlways, <1>1, PTL

\* What a row shows is what a plain point has.
LEMMA PointIsShown ==
  ASSUME KeysInv, NEW key \in DOMAIN folded, NEW p \in folded[key], Plain(p.attrs)
  PROVE  AttrsFromKey(key) = [k \in NonEmpty(p.attrs) |-> p.attrs[k]]
<1>1. p.attrs \in Attrs
  BY DEF KeysInv, KeysTypeOK, PointSet
<1>2. NormAttrs(p.attrs) = key
  BY DEF KeysInv, Keyed
<1>. QED  BY <1>1, <1>2, KeyNamesAttrs

\* Whatever the keys and values, '=' and what looks like another attribute
\* included: AttrsFromKey shows of a series the attributes of every point that
\* NormAttrs put into it and that has no comma in a value.
THEOREM RowsNameTheirSeriesAlways == KeysSpec => []RowsNameTheirSeries
<1>1. KeysInv => RowsNameTheirSeries
  <2>. SUFFICES ASSUME KeysInv, NEW key \in DOMAIN series, NEW p \in folded[key],
                       Plain(p.attrs)
                PROVE  AttrsFromKey(key) = [k \in NonEmpty(p.attrs) |-> p.attrs[k]]
    BY DEF RowsNameTheirSeries
  <2>1. key \in DOMAIN folded
    BY DEF KeysInv, KeysTypeOK
  <2>. QED  BY <2>1, PointIsShown
<1>. QED  BY KeysInvAlways, <1>1, PTL

\* Whatever the keys and values: scopedAttrs and where select in New Relic the
\* points of the series and no others, if commas, richer points, a second host
\* in the series and an unscoped account are kept away.
THEOREM WhereIsTheSeriesAlways == KeysSpec => []WhereIsTheSeries
<1>1. KeysInv => WhereIsTheSeries
  <2>. SUFFICES ASSUME KeysInv, NEW key \in DOMAIN series,
                       \A p \in folded[key] : Plain(p.attrs),
                       NoRicherPoint(series[key]), OneHost(key), Apart(series[key])
                PROVE  Selected(key) = folded[key]
    BY DEF WhereIsTheSeries
  <2>. DEFINE s == series[key]
  <2>1. /\ key \in DOMAIN folded /\ s \in folded[key] /\ s \in PointSet
        /\ folded[key] \subseteq account /\ account \subseteq PointSet
    BY DEF KeysInv, KeysTypeOK
  <2>2. ASSUME NEW row \in PointSet
        PROVE  Where(s, row) <=>
                 /\ \A k \in NonEmpty(s.attrs) : row.attrs[k] = s.attrs[k]
                 /\ Scoped /\ s.host # <<>> => row.host = s.host
    BY JoinKeysAssumption DEF Where, scopedAttrs
  <2>3. ASSUME NEW row \in account, Where(s, row) PROVE row \in folded[key]
    <3>1. row \in PointSet
      BY <2>1
    <3>2. row.attrs = s.attrs
      BY <2>2, <2>3, <3>1 DEF NoRicherPoint
    <3>3. row.host = s.host
      BY <2>2, <2>3, <3>1, <3>2 DEF Apart
    <3>4. row = s
      BY <2>1, <3>1, <3>2, <3>3 DEF PointSet
    <3>. QED  BY <2>1, <3>4
  <2>4. ASSUME NEW p \in folded[key] PROVE p \in account /\ Where(s, p)
    <3>1. p \in account /\ p \in PointSet
      BY <2>1
    <3>2. p.host = s.host
      BY <2>1 DEF OneHost
    <3>3. [k \in NonEmpty(p.attrs) |-> p.attrs[k]] = [k \in NonEmpty(s.attrs) |-> s.attrs[k]]
      <4>1. AttrsFromKey(key) = [k \in NonEmpty(p.attrs) |-> p.attrs[k]]
        BY <2>1, PointIsShown
      <4>2. AttrsFromKey(key) = [k \in NonEmpty(s.attrs) |-> s.attrs[k]]
        BY <2>1, PointIsShown
      <4>. QED  BY <4>1, <4>2
    <3>4. ASSUME NEW k \in NonEmpty(s.attrs) PROVE p.attrs[k] = s.attrs[k]
      <4>. DEFINE f == [x \in NonEmpty(p.attrs) |-> p.attrs[x]]
                  g == [x \in NonEmpty(s.attrs) |-> s.attrs[x]]
      <4>1. f = g /\ k \in DOMAIN g
        BY <3>3
      <4>2. k \in DOMAIN f
        <5>. HIDE DEF f, g
        <5>. QED  BY <4>1
      <4>3. f[k] = p.attrs[k]
        BY <4>2
      <4>4. g[k] = s.attrs[k]
        OBVIOUS
      <4>. HIDE DEF f, g
      <4>. QED  BY <4>1, <4>3, <4>4
    <3>. QED  BY <2>2, <3>1, <3>2, <3>4
  <2>. QED  BY <2>3, <2>4 DEF Selected
<1>. QED  BY KeysInvAlways, <1>1, PTL
=============================================================================
