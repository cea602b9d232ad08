---------------------------- MODULE ReportProofs ----------------------------
(***************************************************************************)
(* What is proved of Report, for every finite set of series, all values,   *)
(* statuses and options: the types, that a failure comes with its          *)
(* evidence, and that tables and summaries fit.                            *)
(*                                                                         *)
(* A sorted table is defined by the rank of each row, the number of rows   *)
(* that precede it. Counting the predecessors in a strict order of a       *)
(* finite set gives every rank once (RankBijection), so that a table has   *)
(* every row that is kept, once (RankedIs, TableIs). From this follow the  *)
(* two properties of tables: a row that is not a mismatch is behind all    *)
(* that are, whose number is then smaller than its place (TableOnTop), and *)
(* places and rows of a status are in bijection (TableCounts). The steps   *)
(* only have to keep that rows have the statuses their table can sort      *)
(* (RowsTrue).                                                             *)
(***************************************************************************)
EXTENDS Report, SequenceTheorems, FiniteSetTheorems, WellFoundedInduction, TLAPS

-----------------------------------------------------------------------------
(* Counting what is smaller. *)

\* A set of numbers has a least one.
LEMMA NatMin ==
  ASSUME NEW T, T \subseteq Nat, T # {}
  PROVE  \E m \in T : \A n \in T : m <= n
<1>1. IsWellFoundedOn(OpToRel(<, Nat), Nat)
  BY NatLessThanWellFounded, Zenon
<1>2. PICK m \in T : \A n \in T : <<n, m>> \notin OpToRel(<, Nat)
  BY <1>1, WFMin
<1>3. \A n \in T : ~(n < m)
  BY <1>2 DEF OpToRel
<1>. QED  BY <1>3

\* Below says of every element of D which are smaller, in a strict order of all.
Orders(Below, D) ==
  /\ Below \in [D -> SUBSET D]
  /\ \A i \in D : i \notin Below[i]
  /\ \A i, j \in D : i # j => i \in Below[j] \/ j \in Below[i]
  /\ \A i, j, k \in D : i \in Below[j] /\ j \in Below[k] => i \in Below[k]

\* Counting the smaller ones gives every number below the size of D once.
LEMMA RankBijection ==
  ASSUME NEW D, IsFiniteSet(D), NEW Below, Orders(Below, D)
  PROVE  /\ \A i \in D : Cardinality(Below[i]) \in 0..Cardinality(D) - 1
         /\ \A i, j \in D : i # j => Cardinality(Below[i]) # Cardinality(Below[j])
         /\ \A n \in 1..Cardinality(D) : \E i \in D : Cardinality(Below[i]) = n - 1
<1>. DEFINE N == Cardinality(D)
            f == [i \in D |-> Cardinality(Below[i])]
            T == 0..N - 1
<1>1. N \in Nat
  BY FS_CardinalityType
<1>2. ASSUME NEW i \in D
      PROVE  /\ IsFiniteSet(Below[i]) /\ Cardinality(Below[i]) \in Nat
             /\ Cardinality(Below[i]) < N
  <2>. DEFINE B == Below[i]
  <2>1. B \in SUBSET D /\ B # D
    BY DEF Orders
  <2>. HIDE DEF B
  <2>2. IsFiniteSet(B) /\ Cardinality(B) <= N /\ (N = Cardinality(B) => D = B)
    BY <2>1, FS_Subset
  <2>3. Cardinality(B) \in Nat
    BY <2>2, FS_CardinalityType
  <2>4. Cardinality(B) < N
    BY <1>1, <2>1, <2>2, <2>3
  <2>. QED  BY <2>2, <2>3, <2>4 DEF B
<1>3. ASSUME NEW i \in D, NEW j \in D, i \in Below[j]
      PROVE  Cardinality(Below[i]) # Cardinality(Below[j])
  <2>. DEFINE B == Below[i]
              C == Below[j]
  <2>1. B \in SUBSET C /\ B # C
    BY <1>3 DEF Orders
  <2>2. IsFiniteSet(C)
    BY <1>2
  <2>. HIDE DEF B, C
  <2>3. Cardinality(C) = Cardinality(B) => C = B
    BY <2>1, <2>2, FS_Subset
  <2>4. Cardinality(B) # Cardinality(C)
    BY <2>1, <2>3
  <2>. QED  BY <2>4 DEF B, C
<1>4. ASSUME NEW i \in D, NEW j \in D, i # j
      PROVE  Cardinality(Below[i]) # Cardinality(Below[j])
  <2>1. i \in Below[j] \/ j \in Below[i]
    BY <1>4 DEF Orders
  <2>. QED  BY <1>3, <2>1
<1>5. ASSUME NEW i \in D PROVE Cardinality(Below[i]) \in T
  <2>. DEFINE m == Cardinality(Below[i])
  <2>1. m \in Nat /\ m < N
    BY <1>2
  <2>. HIDE DEF m, N
  <2>2. m \in 0..N - 1
    BY <1>1, <2>1
  <2>. QED  BY <2>2 DEF m
<1>6. f \in Injection(D, T)
  <2>. HIDE DEF T
  <2>. QED  BY <1>4, <1>5 DEF Injection, IsInjective
<1>7. IsFiniteSet(T) /\ Cardinality(T) = N
  <2>. DEFINE m == N - 1
  <2>1. 0 \in Int /\ m \in Int
    BY <1>1
  <2>. HIDE DEF m
  <2>2. IsFiniteSet(0..m) /\ Cardinality(0..m) = IF 0 > m THEN 0 ELSE m - 0 + 1
    BY <2>1, FS_Interval
  <2>3. T = 0..m
    BY DEF m
  <2>4. (IF 0 > m THEN 0 ELSE m - 0 + 1) = N
    <3>. HIDE DEF N
    <3>. QED  BY <1>1 DEF m
  <2>. HIDE DEF T, N
  <2>. QED  BY <2>2, <2>3, <2>4
<1>8. f \in Surjection(D, T)
  <2>1. IsFiniteSet(T) /\ Cardinality(D) = Cardinality(T) /\ f \in Injection(D, T)
    BY <1>6, <1>7
  <2>. HIDE DEF T, f
  <2>. QED  BY <2>1, FS_Injection
<1>9. ASSUME NEW n \in 1..N PROVE \E i \in D : Cardinality(Below[i]) = n - 1
  <2>1. n - 1 \in T
    <3>. HIDE DEF N
    <3>. QED  BY <1>1
  <2>2. \E i \in D : f[i] = n - 1
    <3>. HIDE DEF f, T
    <3>. QED  BY <1>8, <2>1 DEF Surjection
  <2>. QED  BY <2>2
<1>. QED  BY <1>4, <1>5, <1>9

-----------------------------------------------------------------------------
(* Tuples of numbers, and sorting by them. *)

\* A tuple of l numbers.
IsTuple(s, l) == DOMAIN s = 1..l /\ \A n \in 1..l : s[n] \in Int

\* Precedes is an order of all tuples of a length
LEMMA PrecedesIsOrder ==
  ASSUME NEW l \in Nat, NEW s, NEW t, IsTuple(s, l), IsTuple(t, l)
  PROVE  /\ ~Precedes(s, s)
         /\ (\E n \in 1..l : s[n] # t[n]) => Precedes(s, t) \/ Precedes(t, s)
<1>1. ~Precedes(s, s)
  BY DEF Precedes, IsTuple
<1>2. ASSUME \E n \in 1..l : s[n] # t[n] PROVE Precedes(s, t) \/ Precedes(t, s)
  <2>. DEFINE D == {n \in 1..l : s[n] # t[n]}
  <2>1. PICK i \in D : \A n \in D : i <= n
    <3>1. D \subseteq Nat /\ D # {}
      BY <1>2
    <3>. HIDE DEF D
    <3>. QED  BY <3>1, NatMin
  <2>2. \A m \in 1..i - 1 : s[m] = t[m]
    <3>. SUFFICES ASSUME NEW m \in 1..i - 1, s[m] # t[m] PROVE FALSE
      OBVIOUS
    <3>1. m \in D /\ ~(i <= m)
      OBVIOUS
    <3>. QED  BY <2>1, <3>1
  <2>3. s[i] \in Int /\ t[i] \in Int /\ s[i] # t[i]
    BY DEF IsTuple
  <2>4. s[i] < t[i] \/ t[i] < s[i]
    BY <2>3
  <2>. QED  BY <2>2, <2>4 DEF Precedes, IsTuple
<1>. QED  BY <1>1, <1>2

\* that is transitive.
LEMMA PrecedesIsTransitive ==
  ASSUME NEW l \in Nat, NEW s, NEW t, NEW u, IsTuple(s, l), IsTuple(t, l), IsTuple(u, l),
         Precedes(s, t), Precedes(t, u)
  PROVE  Precedes(s, u)
<1>1. PICK i \in 1..l : s[i] < t[i] /\ \A m \in 1..i - 1 : s[m] = t[m]
  BY DEF Precedes, IsTuple
<1>2. PICK k \in 1..l : t[k] < u[k] /\ \A m \in 1..k - 1 : t[m] = u[m]
  BY DEF Precedes, IsTuple
<1>3. \A n \in 1..l : s[n] \in Int /\ t[n] \in Int /\ u[n] \in Int
  BY DEF IsTuple
<1>4. CASE i <= k
  <2>1. s[i] < u[i]
    BY <1>1, <1>2, <1>3, <1>4
  <2>2. \A m \in 1..i - 1 : s[m] = u[m]
    BY <1>1, <1>2, <1>4
  <2>. QED  BY <2>1, <2>2 DEF Precedes, IsTuple
<1>5. CASE k < i
  <2>1. s[k] < u[k]
    BY <1>1, <1>2, <1>3, <1>5
  <2>2. \A m \in 1..k - 1 : s[m] = u[m]
    BY <1>1, <1>2, <1>5
  <2>. QED  BY <2>1, <2>2 DEF Precedes, IsTuple
<1>. QED  BY <1>4, <1>5

\* rank gives the elements of the finite set D different tuples of l numbers.
Ranks(rank, D, l) ==
  /\ IsFiniteSet(D) /\ DOMAIN rank = D /\ l \in Nat
  /\ \A i \in D : IsTuple(rank[i], l)
  /\ \A i, j \in D : i # j => \E n \in 1..l : rank[i][n] # rank[j][n]

\* The elements of smaller rank.
Ahead(rank, D, i) == {j \in D : Precedes(rank[j], rank[i])}

\* Ranked has every element of D once, behind all those of smaller rank.
LEMMA RankedIs ==
  ASSUME NEW rank, NEW D, NEW l, Ranks(rank, D, l)
  PROVE  /\ Cardinality(D) \in Nat /\ DOMAIN Ranked(rank) = 1..Cardinality(D)
         /\ \A n \in 1..Cardinality(D) :
              /\ Ranked(rank)[n] \in D
              /\ Cardinality(Ahead(rank, D, Ranked(rank)[n])) = n - 1
         /\ \A i \in D : \E n \in 1..Cardinality(D) : Ranked(rank)[n] = i
         /\ \A m, n \in 1..Cardinality(D) : Ranked(rank)[m] = Ranked(rank)[n] => m = n
<1>. DEFINE N == Cardinality(D)
            Below == [i \in D |-> Ahead(rank, D, i)]
            At(n) == CHOOSE i \in D : Cardinality(Ahead(rank, D, i)) = n - 1
<1>0. IsFiniteSet(D) /\ N \in Nat
  BY FS_CardinalityType DEF Ranks
<1>1. Orders(Below, D)
  <2>1. ASSUME NEW i \in D PROVE ~Precedes(rank[i], rank[i])
    BY PrecedesIsOrder DEF Ranks
  <2>2. ASSUME NEW i \in D, NEW j \in D, i # j
        PROVE  Precedes(rank[i], rank[j]) \/ Precedes(rank[j], rank[i])
    <3>. DEFINE s == rank[i]
                t == rank[j]
    <3>1. l \in Nat /\ IsTuple(s, l) /\ IsTuple(t, l) /\ \E n \in 1..l : s[n] # t[n]
      BY <2>2 DEF Ranks
    <3>. HIDE DEF s, t
    <3>2. Precedes(s, t) \/ Precedes(t, s)
      BY <3>1, PrecedesIsOrder
    <3>. QED  BY <3>2 DEF s, t
  <2>3. ASSUME NEW i \in D, NEW j \in D, NEW k \in D,
               Precedes(rank[i], rank[j]), Precedes(rank[j], rank[k])
        PROVE  Precedes(rank[i], rank[k])
    <3>1. l \in Nat /\ IsTuple(rank[i], l) /\ IsTuple(rank[j], l) /\ IsTuple(rank[k], l)
      BY DEF Ranks
    <3>. QED  BY <2>3, <3>1, PrecedesIsTransitive
  <2>. QED  BY <2>1, <2>2, <2>3 DEF Orders, Ahead
<1>2. /\ \A i \in D : Cardinality(Ahead(rank, D, i)) \in 0..N - 1
      /\ \A i, j \in D :
           i # j => Cardinality(Ahead(rank, D, i)) # Cardinality(Ahead(rank, D, j))
      /\ \A n \in 1..N : \E i \in D : Cardinality(Ahead(rank, D, i)) = n - 1
  <2>1. \A i \in D : Below[i] = Ahead(rank, D, i)
    OBVIOUS
  <2>. HIDE DEF Below
  <2>2. /\ \A i \in D : Cardinality(Below[i]) \in 0..N - 1
        /\ \A i, j \in D : i # j => Cardinality(Below[i]) # Cardinality(Below[j])
        /\ \A n \in 1..N : \E i \in D : Cardinality(Below[i]) = n - 1
    BY <1>0, <1>1, RankBijection
  <2>. HIDE DEF N
  <2>. QED  BY <2>1, <2>2
<1>3. Ranked(rank) = [n \in 1..N |-> At(n)]
  <2>1. DOMAIN rank = D
    BY DEF Ranks
  <2>. QED  BY <2>1 DEF Ranked, Ahead
<1>4. ASSUME NEW n \in 1..N
      PROVE  Ranked(rank)[n] \in D /\ Cardinality(Ahead(rank, D, Ranked(rank)[n])) = n - 1
  <2>1. At(n) \in D /\ Cardinality(Ahead(rank, D, At(n))) = n - 1
    BY <1>2
  <2>2. Ranked(rank)[n] = At(n)
    BY <1>3
  <2>. HIDE DEF At
  <2>. QED  BY <2>1, <2>2
<1>5. ASSUME NEW i \in D PROVE \E n \in 1..N : Ranked(rank)[n] = i
  <2>. DEFINE c == Cardinality(Ahead(rank, D, i))
              n == c + 1
  <2>1. c \in 0..N - 1
    BY <1>2
  <2>2. n \in 1..N /\ n - 1 = c
    <3>. HIDE DEF c, N
    <3>. QED  BY <1>0, <2>1
  <2>. HIDE DEF n
  <2>3. Ranked(rank)[n] \in D /\ Cardinality(Ahead(rank, D, Ranked(rank)[n])) = c
    BY <1>4, <2>2
  <2>4. Ranked(rank)[n] = i
    BY <1>2, <2>3
  <2>. QED  BY <2>2, <2>4
<1>6. ASSUME NEW m \in 1..N, NEW n \in 1..N, Ranked(rank)[m] = Ranked(rank)[n] PROVE m = n
  <2>1. m - 1 = n - 1
    BY <1>4, <1>6
  <2>. HIDE DEF N
  <2>. QED  BY <1>0, <2>1
<1>7. DOMAIN Ranked(rank) = 1..N
  BY <1>3
<1>. QED  BY <1>0, <1>4, <1>5, <1>6, <1>7
-----------------------------------------------------------------------------
(* Rows and their statuses. *)

\* Rows, or no slice at all, whose statuses are those of an order.
IsRows(rs, order) ==
  /\ rs \in Seq(Row) \cup {nil}
  /\ \A i \in DOMAIN Rows(rs) : rs[i].status \in DOMAIN order

\* A slice that is none has no rows.
LEMMA RowsAre ==
  ASSUME NEW rs \in Seq(Row) \cup {nil}
  PROVE  /\ Rows(rs) \in Seq(Row)
         /\ \E l \in Nat : DOMAIN Rows(rs) = 1..l
         /\ IsFiniteSet(DOMAIN Rows(rs)) /\ DOMAIN Rows(rs) \subseteq Nat
         /\ \A i \in DOMAIN Rows(rs) : rs \in Seq(Row) /\ Rows(rs) = rs /\ rs[i] \in Row
         /\ rs # nil => Rows(rs) = rs
<1>1. Rows(rs) \in Seq(Row)
  BY DEF Rows
<1>2. PICK l \in Nat : DOMAIN Rows(rs) = 1..l
  BY <1>1
<1>3. IsFiniteSet(1..l)
  BY FS_Interval
<1>4. ASSUME NEW i \in DOMAIN Rows(rs) PROVE rs # nil
  BY DEF Rows
<1>5. rs # nil => Rows(rs) = rs /\ rs \in Seq(Row)
  BY DEF Rows
<1>. QED  BY <1>1, <1>2, <1>3, <1>4, <1>5

\* The numbers of the orders.
LEMMA OrdersAre ==
  /\ \A t \in DOMAIN dbOrder :
       dbOrder[t] \in Int /\ (t # "MISMATCH" => dbOrder["MISMATCH"] < dbOrder[t])
  /\ \A t \in DOMAIN ingestOrder :
       /\ ingestOrder[t] \in Int
       /\ t # "INGEST_MISMATCH" => ingestOrder["INGEST_MISMATCH"] < ingestOrder[t]
  /\ "MISMATCH" \in DOMAIN dbOrder /\ "INGEST_MISMATCH" \in DOMAIN ingestOrder
BY DEF dbOrder, ingestOrder

-----------------------------------------------------------------------------
(* What a table is: its rows, their order, their number. *)

\* What a table shows, and by what it is sorted.
Kept(rs, ok, showOK) == {i \in DOMAIN Rows(rs) : showOK \/ rs[i].status # ok}
TableRank(rs, order, K) == [i \in K |-> <<order[rs[i].status], rs[i].metric, i>>]

\* The rows of a table have different ranks,
LEMMA TableRanks ==
  ASSUME NEW order \in {dbOrder, ingestOrder}, NEW rs, IsRows(rs, order),
         NEW K, K \subseteq DOMAIN Rows(rs)
  PROVE  Ranks(TableRank(rs, order, K), K, 3)
<1>. DEFINE rank == TableRank(rs, order, K)
<1>1. IsFiniteSet(K)
  <2>1. IsFiniteSet(DOMAIN Rows(rs))
    BY RowsAre DEF IsRows
  <2>. QED  BY <2>1, FS_Subset
<1>2. ASSUME NEW i \in K
      PROVE  IsTuple(rank[i], 3) /\ rank[i][3] = i
  <2>1. /\ order[rs[i].status] \in Int
        /\ rs[i].metric \in Int /\ i \in Int
    <3>1. rs[i] \in Row /\ i \in Nat
      BY RowsAre DEF IsRows
    <3>2. rs[i].status \in DOMAIN order
      BY DEF IsRows
    <3>. QED  BY <3>1, <3>2, OrdersAre DEF Row
  <2>2. rank[i] = <<order[rs[i].status], rs[i].metric, i>>
    BY DEF TableRank
  <2>. DEFINE a == order[rs[i].status]
              b == rs[i].metric
  <2>. HIDE DEF a, b, rank
  <2>3. rank[i] = <<a, b, i>> /\ a \in Int /\ b \in Int /\ i \in Int
    BY <2>1, <2>2 DEF a, b
  <2>. QED  BY <2>3 DEF IsTuple
<1>3. DOMAIN rank = K
  BY DEF TableRank
<1>4. ASSUME NEW i \in K, NEW j \in K, i # j PROVE \E n \in 1..3 : rank[i][n] # rank[j][n]
  <2>. HIDE DEF rank
  <2>1. rank[i][3] # rank[j][3]
    BY <1>2, <1>4
  <2>. QED  BY <2>1
<1>. HIDE DEF rank
<1>5. Ranks(rank, K, 3)
  BY <1>1, <1>2, <1>3, <1>4 DEF Ranks
<1>. QED  BY <1>5 DEF rank

\* f is the order in which a table shows the rows K of rs.
Arranges(f, table, rs, order, K) ==
  /\ IsFiniteSet(K) /\ Cardinality(K) \in Nat
  /\ DOMAIN f = 1..Cardinality(K) /\ DOMAIN table = 1..Cardinality(K)
  /\ \A n \in 1..Cardinality(K) : f[n] \in K /\ table[n] = rs[f[n]]
  /\ \A i \in K : \E n \in 1..Cardinality(K) : f[n] = i
  /\ \A m, n \in 1..Cardinality(K) : f[m] = f[n] => m = n
  /\ \A n \in 1..Cardinality(K) : \A B \in SUBSET K :
       (\A i \in B : order[rs[i].status] < order[rs[f[n]].status])
         => Cardinality(B) \in Nat /\ Cardinality(B) < n

\* by which RenderTable and RenderIngestTable arrange them.
LEMMA TableIs ==
  ASSUME NEW order \in {dbOrder, ingestOrder}, NEW rs, IsRows(rs, order),
         NEW ok, NEW showOK
  PROVE  \E f : Arranges(f, RenderTable(rs, order, ok, showOK), rs, order,
                         Kept(rs, ok, showOK))
<1>. DEFINE K == Kept(rs, ok, showOK)
            rank == TableRank(rs, order, K)
            f == Ranked(rank)
            table == RenderTable(rs, order, ok, showOK)
            N == Cardinality(K)
<1>1. K \subseteq DOMAIN Rows(rs)
  BY DEF Kept
<1>2. Ranks(rank, K, 3)
  <2>. HIDE DEF K
  <2>. QED  BY <1>1, TableRanks
<1>3. /\ N \in Nat /\ DOMAIN f = 1..N
      /\ \A n \in 1..N : f[n] \in K /\ Cardinality(Ahead(rank, K, f[n])) = n - 1
      /\ \A i \in K : \E n \in 1..N : f[n] = i
      /\ \A m, n \in 1..N : f[m] = f[n] => m = n
  <2>. HIDE DEF rank, K
  <2>. QED  BY <1>2, RankedIs
<1>4. table = [n \in DOMAIN f |-> rs[f[n]]]
  BY DEF RenderTable, Kept, TableRank
<1>5. IsFiniteSet(K)
  BY <1>2 DEF Ranks
<1>6. ASSUME NEW n \in 1..N, NEW B \in SUBSET K,
             \A i \in B : order[rs[i].status] < order[rs[f[n]].status]
      PROVE  Cardinality(B) \in Nat /\ Cardinality(B) < n
  <2>. DEFINE C == Ahead(rank, K, f[n])
  <2>1. f[n] \in K
    BY <1>3
  <2>2. B \subseteq C
    <3>. SUFFICES ASSUME NEW i \in B PROVE i \in C
      OBVIOUS
    <3>. DEFINE j == f[n]
    <3>. HIDE DEF f, K, j
    <3>1. i \in K /\ j \in K /\ order[rs[i].status] < order[rs[j].status]
      BY <1>6, <2>1 DEF j
    <3>2. /\ rank[i] = <<order[rs[i].status], rs[i].metric, i>>
          /\ rank[j] = <<order[rs[j].status], rs[j].metric, j>>
      BY <3>1 DEF TableRank
    <3>. HIDE DEF rank
    <3>3. rank[i][1] < rank[j][1] /\ 1 \in DOMAIN rank[i] /\ 1..1 - 1 = {}
      BY <3>1, <3>2
    <3>4. Precedes(rank[i], rank[j])
      BY <3>3 DEF Precedes
    <3>. QED  BY <3>1, <3>4 DEF Ahead, j
  <2>3. IsFiniteSet(C)
    <3>1. C \subseteq K
      BY DEF Ahead
    <3>. HIDE DEF C
    <3>. QED  BY <1>5, <3>1, FS_Subset
  <2>4. Cardinality(C) = n - 1
    BY <1>3
  <2>. HIDE DEF C
  <2>5. IsFiniteSet(B) /\ Cardinality(B) <= Cardinality(C)
    BY <2>2, <2>3, FS_Subset
  <2>6. Cardinality(B) \in Nat
    BY <2>5, FS_CardinalityType
  <2>. QED  BY <1>3, <2>4, <2>5, <2>6
<1>. HIDE DEF K, rank, f, table, N
<1>7. DOMAIN table = 1..N /\ \A n \in 1..N : f[n] \in K /\ table[n] = rs[f[n]]
  BY <1>3, <1>4
<1>8. Arranges(f, table, rs, order, K)
  BY <1>3, <1>5, <1>6, <1>7 DEF Arranges, N
<1>. QED  BY <1>8 DEF K, table
\* The table shows all rows of the first status, once and above all others.
LEMMA TableOnTop ==
  ASSUME NEW order \in {dbOrder, ingestOrder}, NEW rs, IsRows(rs, order),
         NEW ok, NEW showOK, NEW mm, mm # ok,
         \A t \in DOMAIN order : t # mm => order[mm] < order[t]
  PROVE  OnTop(rs, RenderTable(rs, order, ok, showOK), mm)
<1>. DEFINE K == Kept(rs, ok, showOK)
            table == RenderTable(rs, order, ok, showOK)
            N == Cardinality(K)
            bad == {i \in DOMAIN Rows(rs) : rs[i].status = mm}
<1>1. PICK f : Arranges(f, table, rs, order, K)
  BY TableIs
<1>. HIDE DEF table
<1>2. /\ DOMAIN table = 1..N /\ N \in Nat
      /\ \A n \in 1..N : f[n] \in K /\ table[n] = rs[f[n]]
      /\ \A i \in K : \E n \in 1..N : f[n] = i
  BY <1>1 DEF Arranges
<1>3. bad \subseteq K /\ K \subseteq DOMAIN Rows(rs)
  BY DEF Kept
<1>. HIDE DEF K, N
<1>4. {<<table[n].metric, table[n].attrs>> : n \in {m \in DOMAIN table : table[m].status = mm}}
        = {<<rs[i].metric, rs[i].attrs>> : i \in bad}
  <2>1. ASSUME NEW n \in DOMAIN table, table[n].status = mm
        PROVE  \E i \in bad : table[n].metric = rs[i].metric /\ table[n].attrs = rs[i].attrs
    <3>1. f[n] \in K /\ table[n] = rs[f[n]]
      BY <1>2
    <3>2. f[n] \in bad
      BY <1>3, <2>1, <3>1
    <3>. QED  BY <3>1, <3>2
  <2>2. ASSUME NEW i \in bad
        PROVE  \E n \in DOMAIN table : /\ table[n].status = mm
                 /\ table[n].metric = rs[i].metric /\ table[n].attrs = rs[i].attrs
    <3>1. PICK n \in 1..N : f[n] = i
      BY <1>2, <1>3
    <3>2. table[n] = rs[i] /\ n \in DOMAIN table
      BY <1>2, <3>1
    <3>. QED  BY <3>2
  <2>. HIDE DEF bad
  <2>. QED  BY <2>1, <2>2
<1>5. ASSUME NEW n \in DOMAIN table, n <= Cardinality(bad) PROVE table[n].status = mm
  <2>1. f[n] \in K /\ table[n] = rs[f[n]] /\ n \in 1..N
    BY <1>2
  <2>2. rs[f[n]].status \in DOMAIN order
    BY <1>3, <2>1 DEF IsRows
  <2>. SUFFICES ASSUME rs[f[n]].status # mm PROVE FALSE
    BY <2>1
  <2>3. order[mm] < order[rs[f[n]].status]
    BY <2>2
  <2>4. \A i \in bad : order[rs[i].status] < order[rs[f[n]].status]
    BY <2>3
  <2>. HIDE DEF bad
  <2>5. Cardinality(bad) \in Nat /\ Cardinality(bad) < n
    <3>1. bad \in SUBSET K
      BY <1>3
    <3>2. \A m \in 1..Cardinality(K) : \A B \in SUBSET K :
            (\A i \in B : order[rs[i].status] < order[rs[f[m]].status])
              => Cardinality(B) \in Nat /\ Cardinality(B) < m
      BY <1>1 DEF Arranges
    <3>3. n \in 1..Cardinality(K)
      BY <2>1 DEF N
    <3>. QED  BY <2>4, <3>1, <3>2, <3>3
  <2>. QED  BY <1>2, <1>5, <2>1, <2>5
<1>. QED  BY <1>4, <1>5 DEF OnTop, table

\* How many of the rows at D have a status.
Count(rows, D, t) == Cardinality({i \in D : rows[i].status = t})

\* It has as many rows of a status as there are, unless it leaves them out.
LEMMA TableCounts ==
  ASSUME NEW order \in {dbOrder, ingestOrder}, NEW rs, IsRows(rs, order),
         NEW ok, NEW showOK, NEW t, t # ok \/ showOK
  PROVE  LET table == RenderTable(rs, order, ok, showOK)
         IN Count(rs, DOMAIN Rows(rs), t) = Count(table, DOMAIN table, t)
<1>. DEFINE K == Kept(rs, ok, showOK)
            table == RenderTable(rs, order, ok, showOK)
            N == Cardinality(K)
            S == {n \in DOMAIN table : table[n].status = t}
            T == {i \in DOMAIN Rows(rs) : rs[i].status = t}
<1>1. PICK f : Arranges(f, table, rs, order, K)
  BY TableIs
<1>. DEFINE g == [n \in S |-> f[n]]
<1>. HIDE DEF table
<1>2. /\ DOMAIN table = 1..N /\ N \in Nat
      /\ \A n \in 1..N : f[n] \in K /\ table[n] = rs[f[n]]
      /\ \A i \in K : \E n \in 1..N : f[n] = i
      /\ \A m, n \in 1..N : f[m] = f[n] => m = n
  BY <1>1 DEF Arranges
<1>3. T \subseteq K /\ K \subseteq DOMAIN Rows(rs)
  BY DEF Kept
<1>. HIDE DEF K, N
<1>4. \A n \in S : g[n] \in T
  BY <1>2, <1>3
<1>5. \A m, n \in S : g[m] = g[n] => m = n
  BY <1>2
<1>6. ASSUME NEW i \in T PROVE \E n \in S : g[n] = i
  <2>1. PICK n \in 1..N : f[n] = i
    BY <1>2, <1>3
  <2>2. n \in S
    BY <1>2, <2>1
  <2>. QED  BY <2>1, <2>2
<1>7. IsFiniteSet(S)
  <2>1. IsFiniteSet(1..N)
    BY <1>2, FS_Interval
  <2>2. S \subseteq 1..N
    BY <1>2
  <2>. HIDE DEF S
  <2>. QED  BY <2>1, <2>2, FS_Subset
<1>8. g \in Bijection(S, T)
  <2>1. g \in [S -> T]
    <3>. HIDE DEF S, T
    <3>. QED  BY <1>4
  <2>. HIDE DEF S, T, g
  <2>. QED  BY <1>5, <1>6, <2>1 DEF Bijection, Injection, Surjection, IsInjective
<1>9. Cardinality(S) = Cardinality(T)
  <2>. HIDE DEF S, T, g
  <2>. QED  BY <1>7, <1>8, FS_Bijection DEF ExistsBijection
<1>. QED  BY <1>9 DEF table, Count

\* All rows of a table are rows.
LEMMA TableHasRows ==
  ASSUME NEW order \in {dbOrder, ingestOrder}, NEW rs, IsRows(rs, order),
         NEW ok, NEW showOK
  PROVE  LET table == RenderTable(rs, order, ok, showOK)
         IN /\ table \in Seq(Row)
            /\ \A n \in DOMAIN table : \E i \in DOMAIN Rows(rs) : table[n] = rs[i]
<1>. DEFINE K == Kept(rs, ok, showOK)
            table == RenderTable(rs, order, ok, showOK)
            N == Cardinality(K)
            sorted == Ranked(TableRank(rs, order, K))
<1>1. PICK f : Arranges(f, table, rs, order, K)
  BY TableIs
<1>2. table = [n \in DOMAIN sorted |-> rs[sorted[n]]]
  BY DEF RenderTable, Kept, TableRank
<1>. HIDE DEF table, sorted
<1>3. /\ DOMAIN table = 1..N /\ N \in Nat
      /\ \A n \in 1..N : f[n] \in K /\ table[n] = rs[f[n]]
  BY <1>1 DEF Arranges
<1>4. K \subseteq DOMAIN Rows(rs)
  BY DEF Kept
<1>. HIDE DEF K, N
<1>5. \A n \in 1..N : table[n] \in Row
  BY <1>3, <1>4, RowsAre DEF IsRows
<1>6. table = [n \in 1..N |-> table[n]]
  BY <1>2, <1>3
<1>7. table \in Seq(Row)
  BY <1>3, <1>5, <1>6, IsASeq
<1>8. \A n \in DOMAIN table : \E i \in DOMAIN Rows(rs) : table[n] = rs[i]
  BY <1>3, <1>4
<1>. QED  BY <1>7, <1>8 DEF table
-----------------------------------------------------------------------------
(* The rows of a cycle. *)

\* Rows of series that --metric admits, with the statuses of an order.
RowsOf(rs, order) ==
  /\ IsRows(rs, order)
  /\ \A i \in DOMAIN Rows(rs) : /\ <<rs[i].metric, rs[i].attrs>> \in AllSeries
                                /\ opt.metric => rs[i].metric \in Matching

\* Every row of filtered ones is one of the given ones.
LEMMA FilteredIs ==
  ASSUME NEW rows \in Seq(Row), opt.metric \in BOOLEAN
  PROVE  /\ Filtered(rows) \in Seq(Row) \cup {nil}
         /\ \A n \in DOMAIN Rows(Filtered(rows)) :
              \E i \in DOMAIN rows : /\ Filtered(rows)[n] = rows[i]
                                     /\ opt.metric => rows[i].metric \in Matching
<1>. DEFINE K == {i \in DOMAIN rows : rows[i].metric \in Matching}
            rank == [i \in K |-> <<i>>]
            f == Ranked(rank)
            N == Cardinality(K)
            left == [n \in DOMAIN f |-> rows[f[n]]]
<1>1. Filtered(rows) = IF ~opt.metric THEN rows ELSE IF K = {} THEN nil ELSE left
  BY DEF Filtered
<1>2. Ranks(rank, K, 1)
  <2>1. IsFiniteSet(K)
    <3>1. IsFiniteSet(1..Len(rows)) /\ K \subseteq 1..Len(rows)
      BY FS_Interval
    <3>. HIDE DEF K
    <3>. QED  BY <3>1, FS_Subset
  <2>2. \A i \in K : IsTuple(rank[i], 1) /\ rank[i][1] = i
    BY DEF IsTuple
  <2>3. DOMAIN rank = K
    OBVIOUS
  <2>. HIDE DEF K, rank
  <2>. QED  BY <2>1, <2>2, <2>3 DEF Ranks
<1>3. N \in Nat /\ DOMAIN f = 1..N /\ \A n \in 1..N : f[n] \in K
  <2>. HIDE DEF K, rank
  <2>. QED  BY <1>2, RankedIs
<1>4. /\ left \in Seq(Row) /\ DOMAIN left = 1..N
      /\ \A n \in 1..N : f[n] \in DOMAIN rows /\ left[n] = rows[f[n]] /\ left[n].metric \in Matching
  <2>1. \A n \in 1..N : f[n] \in DOMAIN rows /\ rows[f[n]].metric \in Matching
    BY <1>3
  <2>2. left = [n \in 1..N |-> rows[f[n]]]
    BY <1>3
  <2>. HIDE DEF f, N, left
  <2>3. \A n \in 1..N : left[n] = rows[f[n]] /\ left[n] \in Row
    BY <2>1, <2>2
  <2>4. left = [n \in 1..N |-> left[n]]
    BY <2>2
  <2>5. left \in Seq(Row)
    BY <1>3, <2>3, <2>4, IsASeq
  <2>. QED  BY <2>1, <2>2, <2>3, <2>5
<1>. HIDE DEF K, left, f, N
<1>5. CASE ~opt.metric
  <2>1. Filtered(rows) = rows /\ rows # nil
    BY <1>1, <1>5, ReportAssumption
  <2>. QED  BY <1>5, <2>1 DEF Rows
<1>6. CASE opt.metric /\ K = {}
  <2>1. Filtered(rows) = nil
    BY <1>1, <1>6
  <2>. QED  BY <2>1 DEF Rows
<1>7. CASE opt.metric /\ K # {}
  <2>1. Filtered(rows) = left /\ left # nil
    BY <1>1, <1>4, <1>7, ReportAssumption
  <2>. QED  BY <1>4, <2>1 DEF Rows
<1>. QED  BY <1>5, <1>6, <1>7

\* The rows of the DB check.
LEMMA DBRowIs ==
  ASSUME NEW s \in AllSeries, NEW p
  PROVE  /\ DBRow(s, p) \in Row /\ DBRow(s, p).status \in DOMAIN dbOrder
         /\ <<DBRow(s, p).metric, DBRow(s, p).attrs>> = s
<1>1. s[1] \in Int /\ s[2] \in Int /\ s = <<s[1], s[2]>>
  BY ReportAssumption
<1>2. RelDiff(p[1], p[2]) \in {"finite", "nonfinite"}
  BY DEF RelDiff
<1>. QED  BY <1>1, <1>2 DEF DBRow, Row, dbOrder

\* The rows of the ingest check.
LEMMA IngestRowIs ==
  ASSUME NEW s \in AllSeries, NEW status \in IngestStatuses, NEW note \in Notes
  PROVE  LET row == IngestRow(s, status, note)
         IN /\ row \in Row /\ row.status \in DOMAIN ingestOrder /\ row.rel = "finite"
            /\ <<row.metric, row.attrs>> = s
<1>1. s[1] \in Int /\ s[2] \in Int /\ s = <<s[1], s[2]>>
  BY ReportAssumption
<1>2. status \in DOMAIN ingestOrder
  BY ReportAssumption
<1>. QED  BY <1>1, <1>2 DEF IngestRow, Row

\* The series of a cycle in the order of their texts.
LEMMA SeriesRanked ==
  ASSUME NEW S, S \subseteq AllSeries
  PROVE  LET ordered == Ranked([s \in S |-> s])
         IN \E N \in Nat : DOMAIN ordered = 1..N /\ \A n \in 1..N : ordered[n] \in S
<1>. DEFINE rank == [s \in S |-> s]
<1>1. IsFiniteSet(S)
  BY ReportAssumption, FS_Subset
<1>2. \A s \in S : IsTuple(rank[s], 2)
  BY ReportAssumption DEF IsTuple
<1>3. ASSUME NEW s \in S, NEW t \in S, s # t PROVE \E n \in 1..2 : rank[s][n] # rank[t][n]
  <2>1. s \in Int \X Int /\ t \in Int \X Int
    BY ReportAssumption
  <2>2. s[1] # t[1] \/ s[2] # t[2]
    BY <1>3, <2>1
  <2>. QED  BY <2>2
<1>4. DOMAIN rank = S
  OBVIOUS
<1>. HIDE DEF rank
<1>5. Ranks(rank, S, 2)
  BY <1>1, <1>2, <1>3, <1>4 DEF Ranks
<1>6. /\ Cardinality(S) \in Nat /\ DOMAIN Ranked(rank) = 1..Cardinality(S)
      /\ \A n \in 1..Cardinality(S) : Ranked(rank)[n] \in S
  BY <1>5, RankedIs
<1>. QED  BY <1>6 DEF rank

-----------------------------------------------------------------------------
(* IInv is inductive. *)

\* The rows are those of the two checks; NaN is not among the ingest check's,
RowsTrue ==
  /\ RowsOf(results, dbOrder) /\ RowsOf(ic, ingestOrder)
  /\ \A i \in DOMAIN Rows(ic) : ic[i].rel = "finite"

\* the rest of the state is what the types say,
OptTrue ==
  /\ opt \in Options /\ phase \in {"cycle", "report", "sleep", "0", "1"}
  /\ Reported => shown.form \in {"none", "table", "json"}

\* and what has been printed is evidence and adds up.
IInv == OptTrue /\ RowsTrue /\ FailureIsShown /\ SummaryAddsUp

\* The types follow from it.
LEMMA IInvIsTyped == IInv => TypeOK
BY DEF IInv, OptTrue, RowsTrue, RowsOf, IsRows, TypeOK

\* Options are given or not.
LEMMA OptIsBoolean == opt \in Options =>
  opt.watch \in BOOLEAN /\ opt.metric \in BOOLEAN /\ opt.jsonOut \in BOOLEAN /\ opt.failOnly \in BOOLEAN
BY ReportAssumption, Zenon DEF Options

\* No slice has no rows.
LEMMA NoRows == RowsOf(nil, dbOrder) /\ RowsOf(nil, ingestOrder) /\ DOMAIN Rows(nil) = {}
BY DEF RowsOf, IsRows, Rows

\* It holds at the start,
LEMMA InitIInv == Init => IInv
<1>. SUFFICES ASSUME Init PROVE IInv
  OBVIOUS
<1>1. opt \in Options /\ phase = "cycle" /\ results = nil /\ ic = nil
  BY DEF Init
<1>2. ~Reported
  BY <1>1 DEF Reported
<1>3. RowsTrue
  BY <1>1, NoRows DEF RowsTrue
<1>4. OptTrue
  BY <1>1, <1>2 DEF OptTrue
<1>. QED  BY <1>2, <1>3, <1>4 DEF IInv, FailureIsShown, SummaryAddsUp
\* A set of rows, each of a series of S, is ordered into a sequence of rows.
LEMMA OrderedIs ==
  ASSUME NEW rows, rows \subseteq Row, IsFiniteSet(rows), NEW o \in CheckWithOrders(rows)
  PROVE  o \in Seq(Row) /\ \A i \in DOMAIN o : o[i] \in rows
<1>1. o \in SetToSeqs(rows)
  BY Zenon DEF CheckWithOrders
<1>2. o \in [1..Cardinality(rows) -> rows] /\ Cardinality(rows) \in Nat
  BY <1>1, FS_CardinalityType DEF SetToSeqs
<1>. QED  BY <1>2

\* What both checks make of the pairs of the series S.
Judged(S, pair) ==
  LET emitted == {s \in S : pair[s][2] # None}
      ordered == Ranked([s \in S |-> s])
  IN /\ results' = Filtered([n \in DOMAIN ordered |-> DBRow(ordered[n], pair[ordered[n]])])
     /\ IF ~opt.checkIngest THEN ic' = nil
        ELSE \E status \in [emitted -> IngestStatuses], note \in [emitted -> Notes] :
               \E o \in CheckWithOrders({IngestRow(s, status[s], note[s]) : s \in emitted}) :
                 ic' = Filtered(o)

\* It is kept by the end of both checks, whose rows are filtered and sorted.
LEMMA JudgeKeepsIInv ==
  ASSUME IInv, Judge
  PROVE  IInv'
<1>1. opt' = opt /\ opt \in Options /\ opt.metric \in BOOLEAN /\ phase' = "report"
  BY OptIsBoolean DEF Judge, IInv, OptTrue
<1>2. ~Reported'
  BY <1>1 DEF Reported
<1>8. PICK S \in SUBSET AllSeries : \E pair \in [S -> Pairs] : Judged(S, pair)
  BY Zenon DEF Judge, Judged
<1>3. PICK pair \in [S -> Pairs] : Judged(S, pair)
  BY <1>8
<1>. DEFINE emitted == {s \in S : pair[s][2] # None}
            ordered == Ranked([s \in S |-> s])
            rows == [n \in DOMAIN ordered |-> DBRow(ordered[n], pair[ordered[n]])]
<1>4. RowsOf(results, dbOrder)'
  <2>1. PICK N \in Nat : DOMAIN ordered = 1..N /\ \A n \in 1..N : ordered[n] \in S
    BY SeriesRanked
  <2>. DEFINE At(n) == DBRow(ordered[n], pair[ordered[n]])
  <2>. HIDE DEF ordered
  <2>2. \A n \in 1..N : /\ At(n) \in Row /\ At(n).status \in DOMAIN dbOrder
                        /\ <<At(n).metric, At(n).attrs>> \in AllSeries
    <3>. SUFFICES ASSUME NEW n \in 1..N
                  PROVE  /\ At(n) \in Row /\ At(n).status \in DOMAIN dbOrder
                         /\ <<At(n).metric, At(n).attrs>> \in AllSeries
      OBVIOUS
    <3>1. ordered[n] \in AllSeries
      BY <2>1
    <3>. QED  BY <3>1, DBRowIs
  <2>3. rows = [n \in 1..N |-> At(n)]
    BY <2>1
  <2>. HIDE DEF At, rows
  <2>4. rows \in Seq(Row) /\ DOMAIN rows = 1..N
    <3>1. \A n \in 1..N : At(n) \in Row
      BY <2>2
    <3>2. rows \in Seq(Row)
      BY <2>3, <3>1, IsASeq
    <3>. QED  BY <2>3, <3>2
  <2>5. results' = Filtered(rows)
    BY <1>3 DEF Judged, rows, ordered
  <2>6. /\ results' \in Seq(Row) \cup {nil}
        /\ \A n \in DOMAIN Rows(results') :
             \E i \in 1..N : results'[n] = At(i) /\ (opt.metric => At(i).metric \in Matching)
    <3>1. /\ Filtered(rows) \in Seq(Row) \cup {nil}
          /\ \A n \in DOMAIN Rows(Filtered(rows)) :
               \E i \in DOMAIN rows : /\ Filtered(rows)[n] = rows[i]
                                      /\ opt.metric => rows[i].metric \in Matching
      BY <1>1, <2>4, FilteredIs
    <3>. QED  BY <2>3, <2>4, <2>5, <3>1
  <2>7. ASSUME NEW n \in DOMAIN Rows(results')
        PROVE  /\ results'[n].status \in DOMAIN dbOrder
               /\ <<results'[n].metric, results'[n].attrs>> \in AllSeries
               /\ opt.metric => results'[n].metric \in Matching
    <3>1. PICK i \in 1..N : results'[n] = At(i) /\ (opt.metric => At(i).metric \in Matching)
      BY <2>6
    <3>. QED  BY <2>2, <3>1
  <2>. QED  BY <1>1, <2>6, <2>7 DEF RowsOf, IsRows, Rows
<1>5. RowsOf(ic, ingestOrder)' /\ \A n \in DOMAIN Rows(ic') : ic'[n].rel = "finite"
  <2>1. CASE ~opt.checkIngest
    <3>1. ic' = nil
      BY <1>3, <2>1 DEF Judged
    <3>. QED  BY <3>1 DEF RowsOf, IsRows, Rows
  <2>2. CASE opt.checkIngest
    <3>1. PICK status \in [emitted -> IngestStatuses], note \in [emitted -> Notes] :
            \E o \in CheckWithOrders({IngestRow(s, status[s], note[s]) : s \in emitted}) :
              ic' = Filtered(o)
      BY <1>3, <2>2 DEF Judged
    <3>. DEFINE rs == {IngestRow(s, status[s], note[s]) : s \in emitted}
    <3>2. PICK o \in CheckWithOrders(rs) : ic' = Filtered(o)
      BY <3>1
    <3>3. ASSUME NEW row \in rs
          PROVE  /\ row \in Row /\ row.status \in DOMAIN ingestOrder /\ row.rel = "finite"
                 /\ <<row.metric, row.attrs>> \in AllSeries
      <4>1. PICK s \in emitted : row = IngestRow(s, status[s], note[s])
        OBVIOUS
      <4>2. s \in AllSeries /\ status[s] \in IngestStatuses /\ note[s] \in Notes
        OBVIOUS
      <4>. DEFINE st == status[s]
                  no == note[s]
      <4>. HIDE DEF st, no, emitted
      <4>3. s \in AllSeries /\ st \in IngestStatuses /\ no \in Notes /\ row = IngestRow(s, st, no)
        BY <4>1, <4>2 DEF st, no
      <4>. HIDE DEF rs
      <4>. QED  BY <4>3, IngestRowIs
    <3>4. IsFiniteSet(rs)
      <4>. DEFINE f == [s \in emitted |-> IngestRow(s, status[s], note[s])]
      <4>1. IsFiniteSet(emitted)
        <5>1. emitted \subseteq AllSeries
          OBVIOUS
        <5>. HIDE DEF emitted
        <5>. QED  BY <5>1, ReportAssumption, FS_Subset
      <4>2. f \in Surjection(emitted, rs)
        <5>. HIDE DEF emitted
        <5>. QED  BY DEF Surjection
      <4>. HIDE DEF f, emitted, rs
      <4>. QED  BY <4>1, <4>2, FS_Surjection
    <3>. HIDE DEF rs
    <3>5. o \in Seq(Row) /\ \A i \in DOMAIN o : o[i] \in rs
      BY <3>3, <3>4, OrderedIs
    <3>6. /\ ic' \in Seq(Row) \cup {nil}
          /\ \A n \in DOMAIN Rows(ic') :
               \E i \in DOMAIN o : ic'[n] = o[i] /\ (opt.metric => o[i].metric \in Matching)
      BY <1>1, <3>2, <3>5, FilteredIs
    <3>7. ASSUME NEW n \in DOMAIN Rows(ic')
          PROVE  /\ ic'[n].status \in DOMAIN ingestOrder /\ ic'[n].rel = "finite"
                 /\ <<ic'[n].metric, ic'[n].attrs>> \in AllSeries
                 /\ opt.metric => ic'[n].metric \in Matching
      <4>1. PICK i \in DOMAIN o : ic'[n] = o[i] /\ (opt.metric => o[i].metric \in Matching)
        BY <3>6
      <4>. QED  BY <3>3, <3>5, <4>1
    <3>. QED  BY <1>1, <3>6, <3>7 DEF RowsOf, IsRows, Rows
  <2>. QED  BY <2>1, <2>2
<1>6. RowsTrue'
  BY <1>4, <1>5 DEF RowsTrue, Rows
<1>7. OptTrue'
  BY <1>1, <1>2 DEF OptTrue
<1>. QED  BY <1>2, <1>6, <1>7 DEF IInv, FailureIsShown, SummaryAddsUp
-----------------------------------------------------------------------------
(* What emit prints, and what is printed of it. *)

\* What a printed cycle shows of the mismatches,
Evidence(what) ==
  /\ what.form \in {"table", "json"}
  /\ what.form = "table" =>
       /\ OnTop(results, what.db, "MISMATCH")
       /\ OnTop(ic, Rows(what.ingest), "INGEST_MISMATCH")
  /\ what.form = "json" =>
       /\ Writable(results) => what.db = results
       /\ what.ingest = ic

\* and how a table fits its summary.
Adds(table, sum, ok, failOnly, errors) ==
  \A t \in DOMAIN sum :
    /\ t # ok \/ ~failOnly =>
         sum[t] = Cardinality({i \in DOMAIN table : table[i].status = t})
    /\ t = "INGEST_ERROR" =>
         \A i \in DOMAIN table : table[i].status = t => table[i].note \in errors

\* SummaryAddsUp says that both tables fit their summaries,
LEMMA SummaryIs ==
  SummaryAddsUp <=>
    (Reported /\ shown.form = "table" =>
       /\ Adds(shown.db, shown.dbSum, "OK", opt.failOnly, shown.errors)
       /\ Adds(Rows(shown.ingest), shown.icSum, "INGEST_OK", opt.failOnly, shown.errors))
BY DEF SummaryAddsUp, Adds

\* in the next state as well.
LEMMA NextSummaryIs ==
  SummaryAddsUp' <=>
    (Reported' /\ shown'.form = "table" =>
       /\ Adds(shown'.db, shown'.dbSum, "OK", opt'.failOnly, shown'.errors)
       /\ Adds(Rows(shown'.ingest), shown'.icSum, "INGEST_OK", opt'.failOnly, shown'.errors))
BY DEF SummaryAddsUp, Adds

\* emit shows every mismatch.
LEMMA EmitIsEvidence ==
  ASSUME IInv
  PROVE  Evidence(emit)
<1>1. opt.jsonOut \in BOOLEAN /\ IsRows(results, dbOrder) /\ IsRows(ic, ingestOrder)
  BY OptIsBoolean DEF IInv, OptTrue, RowsTrue, RowsOf
<1>2. CASE opt.jsonOut
  <2>1. emit = [form |-> "json", db |-> RenderJSON(results), ingest |-> RenderJSON(ic)]
    BY <1>2, Zenon DEF emit
  <2>2. Writable(results) => RenderJSON(results) = results
    BY DEF Writable, RenderJSON
  <2>3. RenderJSON(ic) = ic
    BY DEF RenderJSON, IInv, RowsTrue
  <2>. QED  BY <2>1, <2>2, <2>3 DEF Evidence
<1>3. CASE ~opt.jsonOut
  <2>. DEFINE showOK == ~opt.failOnly
              db == RenderTable(results, dbOrder, "OK", showOK)
              ing == IF ic = nil THEN nil ELSE RenderTable(ic, ingestOrder, "INGEST_OK", showOK)
  <2>1. emit = [form |-> "table", db |-> db, ingest |-> ing]
    BY <1>3, Zenon DEF emit
  <2>. HIDE DEF showOK
  <2>2. OnTop(results, db, "MISMATCH")
    BY <1>1, OrdersAre, TableOnTop
  <2>3. OnTop(ic, Rows(ing), "INGEST_MISMATCH")
    <3>1. CASE ic = nil
      <4>1. ing = nil
        BY <3>1
      <4>. HIDE DEF ing
      <4>. QED  BY <3>1, <4>1 DEF OnTop, Rows
    <3>2. CASE ic # nil
      <4>. DEFINE table == RenderTable(ic, ingestOrder, "INGEST_OK", showOK)
      <4>1. table \in Seq(Row)
        BY <1>1, TableHasRows
      <4>2. OnTop(ic, table, "INGEST_MISMATCH")
        BY <1>1, OrdersAre, TableOnTop
      <4>. HIDE DEF table
      <4>3. Rows(table) = table
        BY <4>1, ReportAssumption DEF Rows
      <4>4. ing = table
        BY <3>2 DEF table
      <4>. QED  BY <4>2, <4>3, <4>4
    <3>. QED  BY <3>1, <3>2
  <2>. HIDE DEF db, ing
  <2>. QED  BY <2>1, <2>2, <2>3 DEF Evidence
<1>. QED  BY <1>1, <1>2, <1>3

\* Its tables fit the summaries.
LEMMA TableAdds ==
  ASSUME NEW order \in {dbOrder, ingestOrder}, NEW rs, IsRows(rs, order), NEW ok,
         opt.failOnly \in BOOLEAN, NEW errors,
         \A i \in DOMAIN Rows(rs) : rs[i].status = "INGEST_ERROR" => rs[i].note \in errors
  PROVE  Adds(RenderTable(rs, order, ok, ~opt.failOnly), Summarize(rs), ok, opt.failOnly, errors)
<1>. DEFINE showOK == ~opt.failOnly
            table == RenderTable(rs, order, ok, showOK)
            sum == Summarize(rs)
<1>1. ASSUME NEW t \in DOMAIN sum, t # ok \/ showOK
      PROVE  sum[t] = Cardinality({n \in DOMAIN table : table[n].status = t})
  <2>1. sum[t] = Cardinality({i \in DOMAIN Rows(rs) : rs[i].status = t})
    BY DEF Summarize
  <2>. HIDE DEF showOK, sum
  <2>2. Count(rs, DOMAIN Rows(rs), t) = Count(table, DOMAIN table, t)
    BY <1>1, TableCounts
  <2>. QED  BY <2>1, <2>2 DEF Count
<1>2. ASSUME NEW n \in DOMAIN table, table[n].status = "INGEST_ERROR"
      PROVE  table[n].note \in errors
  <2>. HIDE DEF showOK
  <2>1. PICK i \in DOMAIN Rows(rs) : table[n] = rs[i]
    BY TableHasRows
  <2>. HIDE DEF table
  <2>. QED  BY <1>2, <2>1
<1>. HIDE DEF table, sum
<1>3. Adds(table, sum, ok, opt.failOnly, errors)
  BY <1>1, <1>2 DEF Adds
<1>. QED  BY <1>3 DEF table, sum

\* Both tables of emit do.
LEMMA EmitAddsUp ==
  ASSUME IInv, ~opt.jsonOut
  PROVE  /\ Adds(emit.db, Summarize(results), "OK", opt.failOnly, ErrorNotes)
         /\ Adds(Rows(emit.ingest), Summarize(ic), "INGEST_OK", opt.failOnly, ErrorNotes)
<1>1. opt.failOnly \in BOOLEAN /\ IsRows(results, dbOrder) /\ IsRows(ic, ingestOrder)
  BY OptIsBoolean DEF IInv, OptTrue, RowsTrue, RowsOf
<1>. DEFINE db == RenderTable(results, dbOrder, "OK", ~opt.failOnly)
            table == RenderTable(ic, ingestOrder, "INGEST_OK", ~opt.failOnly)
            ing == IF ic = nil THEN nil ELSE table
<1>2. emit = [form |-> "table", db |-> db, ingest |-> ing]
  BY Zenon DEF emit
<1>3. \A i \in DOMAIN Rows(results) :
        results[i].status = "INGEST_ERROR" => results[i].note \in ErrorNotes
  BY <1>1 DEF IsRows, dbOrder
<1>4. \A i \in DOMAIN Rows(ic) : ic[i].status = "INGEST_ERROR" => ic[i].note \in ErrorNotes
  <2>1. \A i \in DOMAIN Rows(ic) : Rows(ic) = ic
    BY <1>1, RowsAre DEF IsRows
  <2>. QED  BY <2>1 DEF ErrorNotes
<1>5. Adds(db, Summarize(results), "OK", opt.failOnly, ErrorNotes)
  BY <1>1, <1>3, TableAdds
<1>6. Adds(Rows(ing), Summarize(ic), "INGEST_OK", opt.failOnly, ErrorNotes)
  <2>1. CASE ic = nil
    <3>1. DOMAIN Summarize(ic) = {}
      BY <2>1 DEF Summarize, Rows
    <3>. HIDE DEF ing
    <3>. QED  BY <3>1 DEF Adds
  <2>2. CASE ic # nil
    <3>1. Adds(table, Summarize(ic), "INGEST_OK", opt.failOnly, ErrorNotes)
      BY <1>1, <1>4, TableAdds
    <3>2. table \in Seq(Row)
      <4>. DEFINE showOK == ~opt.failOnly
      <4>. HIDE DEF showOK
      <4>1. RenderTable(ic, ingestOrder, "INGEST_OK", showOK) \in Seq(Row)
        BY <1>1, TableHasRows
      <4>. QED  BY <4>1 DEF showOK
    <3>3. ing = table
      BY <2>2
    <3>. HIDE DEF table, ing
    <3>4. Rows(table) = table
      BY <3>2, ReportAssumption DEF Rows
    <3>. QED  BY <3>1, <3>3, <3>4
  <2>. QED  BY <2>1, <2>2
<1>7. emit.db = db /\ emit.ingest = ing
  <2>. HIDE DEF db, ing
  <2>. QED  BY <1>2
<1>. QED  BY <1>5, <1>6, <1>7
-----------------------------------------------------------------------------
(* The steps that print. *)

\* ReportOnce and ReportWatch print the whole report when they have to.
LEMMA ReportKeepsIInv ==
  ASSUME IInv, NEW state, NEW what, NEW sums,
         UNCHANGED <<opt, results, ic>>, shown' = Shows(state, what, sums),
         phase' \in {"0", "1", "sleep"},
         what = emit \/ what = Nothing,
         phase' = "1" \/ state = "FAIL" => what = emit,
         sums \/ opt.jsonOut
  PROVE  IInv'
<1>1. opt' = opt /\ results' = results /\ ic' = ic
  OBVIOUS
<1>2. /\ shown'.form = what.form /\ shown'.db = what.db /\ shown'.ingest = what.ingest
      /\ shown'.state = state /\ shown'.errors = ErrorNotes
      /\ sums => shown'.dbSum = Summarize(results) /\ shown'.icSum = Summarize(ic)
  BY DEF Shows
<1>3. Evidence(emit)
  BY EmitIsEvidence
<1>4. RowsTrue'
  BY <1>1 DEF IInv, RowsTrue, RowsOf, IsRows
<1>5. OptTrue'
  <2>1. what.form \in {"none", "table", "json"}
    BY <1>3 DEF Evidence, Nothing
  <2>. QED  BY <1>1, <1>2, <2>1 DEF IInv, OptTrue
<1>6. FailureIsShown'
  <2>1. what = emit => Evidence(shown)'
    BY <1>1, <1>2, <1>3 DEF Evidence, Writable, OnTop, Rows
  <2>. QED  BY <1>2, <2>1 DEF FailureIsShown, Evidence
<1>7. SummaryAddsUp'
  <2>. SUFFICES ASSUME shown'.form = "table"
                PROVE  /\ Adds(shown'.db, shown'.dbSum, "OK", opt'.failOnly, shown'.errors)
                       /\ Adds(Rows(shown'.ingest), shown'.icSum, "INGEST_OK",
                               opt'.failOnly, shown'.errors)
    BY NextSummaryIs
  <2>1. what = emit /\ ~opt.jsonOut
    <3>1. opt.jsonOut => emit.form = "json"
      BY DEF emit
    <3>2. Nothing.form = "none"
      BY DEF Nothing
    <3>. QED  BY <1>2, <3>1, <3>2
  <2>2. /\ Adds(emit.db, Summarize(results), "OK", opt.failOnly, ErrorNotes)
        /\ Adds(Rows(emit.ingest), Summarize(ic), "INGEST_OK", opt.failOnly, ErrorNotes)
    BY <2>1, EmitAddsUp
  <2>. QED  BY <1>1, <1>2, <2>1, <2>2
<1>. QED  BY <1>4, <1>5, <1>6, <1>7 DEF IInv

\* IInv holds always.
LEMMA Invariance == Spec => []IInv
<1>1. IInv /\ [Next]_vars => IInv'
  <2>. SUFFICES ASSUME IInv, [Next]_vars PROVE IInv'
    OBVIOUS
  <2>1. CASE Judge
    BY <2>1, JudgeKeepsIInv
  <2>2. CASE ReportOnce
    <3>1. /\ UNCHANGED <<opt, results, ic>>
          /\ shown' = Shows("none", emit, ~opt.jsonOut) /\ phase' \in {"0", "1", "sleep"}
      BY <2>2 DEF ReportOnce
    <3>2. ~opt.jsonOut \/ opt.jsonOut
      OBVIOUS
    <3>. QED  BY <3>1, <3>2, ReportKeepsIInv
  <2>3. CASE ReportWatch
    <3>. DEFINE state == IF failed THEN "FAIL" ELSE "pass"
                what == IF failed \/ opt.jsonOut THEN emit ELSE Nothing
    <3>1. /\ UNCHANGED <<opt, results, ic>>
          /\ shown' = Shows(state, what, TRUE) /\ phase' = "sleep"
      BY <2>3 DEF ReportWatch
    <3>2. (what = emit \/ what = Nothing) /\ (state = "FAIL" => what = emit)
      BY Zenon
    <3>. HIDE DEF state, what
    <3>. QED  BY <3>1, <3>2, ReportKeepsIInv
  <2>4. CASE Wake
    <3>1. /\ opt' = opt /\ results' = nil /\ ic' = nil /\ phase' = "cycle"
      BY <2>4 DEF Wake
    <3>2. ~Reported'
      BY <3>1 DEF Reported
    <3>3. OptTrue'
      BY <3>1, <3>2 DEF OptTrue, IInv
    <3>4. RowsTrue'
      BY <3>1 DEF RowsTrue, RowsOf, IsRows, Rows
    <3>. QED  BY <3>2, <3>3, <3>4 DEF IInv, FailureIsShown, SummaryAddsUp
  <2>5. CASE UNCHANGED vars
    <3>1. opt' = opt /\ results' = results /\ ic' = ic /\ shown' = shown /\ phase' = phase
      BY <2>5 DEF vars
    <3>2. RowsTrue' /\ OptTrue'
      BY <3>1 DEF IInv, RowsTrue, RowsOf, IsRows, OptTrue, Reported
    <3>3. FailureIsShown'
      BY <3>1 DEF IInv, FailureIsShown, Reported, Writable, OnTop, Rows
    <3>4. SummaryAddsUp'
      <4>1. Reported' <=> Reported
        BY <3>1 DEF Reported
      <4>2. SummaryAddsUp
        BY DEF IInv
      <4>. QED  BY <3>1, <4>1, <4>2, SummaryIs, NextSummaryIs
    <3>. QED  BY <3>2, <3>3, <3>4 DEF IInv
  <2>. QED  BY <2>1, <2>2, <2>3, <2>4, <2>5 DEF Next
<1>. QED  BY InitIInv, <1>1, PTL DEF Spec

-----------------------------------------------------------------------------
(* The theorems. *)

\* Whatever the checks find and however often watch mode wakes: the rows of a
\* cycle are of its series and, filtered by --metric, of matching metrics only.
THEOREM ReportTypeOK == Spec => []TypeOK
BY Invariance, IInvIsTyped, PTL

\* Whatever the number of rows and the options: exit code 1 and FAIL come with
\* every mismatch on the screen, above the other rows (emit, RenderTable,
\* RenderIngestTable), or in the JSON document.
THEOREM FailureIsShownAlways == Spec => []FailureIsShown
<1>1. IInv => FailureIsShown
  BY DEF IInv
<1>. QED  BY Invariance, <1>1, PTL

\* Whatever the number of rows and the options: the tables have the rows that
\* Summarize counts, but for those that agree and are left out, and the errors
\* of New Relic have been printed (distinctIngestErrors).
THEOREM SummaryAddsUpAlways == Spec => []SummaryAddsUp
<1>1. IInv => SummaryAddsUp
  BY DEF IInv
<1>. QED  BY Invariance, <1>1, PTL
=============================================================================
