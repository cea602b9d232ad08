------------------------------ MODULE JoinKeys ------------------------------
(***************************************************************************)
(* The three names of a series of one metric, and whether they name the    *)
(* same points: the join key (NormAttrs), under which points of the file   *)
(* and of the database meet; the attributes rebuilt from it for a row of   *)
(* the report (AttrsFromKey); and the WHERE clause with which New Relic is *)
(* asked about it (scopedAttrs, where).                                    *)
(*                                                                         *)
(* Text is a sequence of character codes.  An attribute set is a function  *)
(* on all attribute keys; an absent attribute has the empty text.  Keys    *)
(* are the receiver's own and hold neither '=' nor ','; values are the     *)
(* database's and may hold either.                                         *)
(***************************************************************************)
EXTENDS Texts, FiniteSets

CONSTANTS
  AttrKeys,    \* texts
  AttrValues,  \* texts, with the empty one
  Hosts,       \* values of host.name; the empty text if there is none
  Scoped,      \* whether VALIDATOR_NR_SCOPE_ATTRS names host.name
  MaxRows      \* bound: points written

\* The characters of a text, by their codes.
Characters == Nat

ASSUME JoinKeysAssumption ==
  /\ <<>> \in AttrValues /\ Scoped \in BOOLEAN /\ MaxRows \in Nat
  /\ AttrKeys \subseteq Seq(Characters) /\ AttrValues \subseteq Seq(Characters)
  /\ IsFiniteSet(AttrKeys)
  /\ \A k \in AttrKeys : k # <<>> /\ {COMMA, EQUALS} \cap ToSet(k) = {}

VARIABLES
  series,   \* ReadOTLPSeries: join key -> [attrs, host] of the first point
  folded,   \* history: join key -> the points it stands for
  account   \* New Relic: points of the metric, of all hosts

keysVars == <<series, folded, account>>

Attrs == [AttrKeys -> AttrValues]
PointSet == [attrs : Attrs, host : Hosts]

NonEmpty(a) == {k \in AttrKeys : a[k] # <<>>}

\* strings.Compare: a prefix is smaller.
Less(s, t) ==
  \/ s # t /\ IsPrefix(s, t)
  \/ \E i \in DOMAIN s \cap DOMAIN t :
       s[i] < t[i] /\ \A j \in 1..i - 1 : s[j] = t[j]

\* sort.Strings and strings.Join.
Sorted(parts) ==
  [i \in 1..Cardinality(parts) |->
     CHOOSE p \in parts : Cardinality({q \in parts : Less(q, p)}) = i - 1]
Joined(parts) ==
  FoldLeft(LAMBDA acc, p : IF acc = <<>> THEN p ELSE acc \o <<COMMA>> \o p, <<>>, parts)

\* Mutant: the values only.
NormAttrs_Values(a) == Joined(Sorted({a[k] : k \in NonEmpty(a)}))

NormAttrs(a) == Joined(Sorted({k \o <<EQUALS>> \o a[k] : k \in NonEmpty(a)}))

\* Mutant: cut at the last '='.
AttrsFromKey_LastEquals(key) ==
  LET parts == Split(COMMA, key)
      cut(i) == SelectLastInSeq(parts[i], LAMBDA c : c = EQUALS)
      pairs == {i \in DOMAIN parts : cut(i) # 0}
      name(i) == SubSeq(parts[i], 1, cut(i) - 1)
  IN [k \in {name(i) : i \in pairs} |->
        LET i == Max({m \in pairs : name(m) = k})
        IN SubSeq(parts[i], cut(i) + 1, Len(parts[i]))]

\* Of two pairs with the same name the last one counts.
AttrsFromKey(key) ==
  LET parts == Split(COMMA, key)
      pairs == {i \in DOMAIN parts : Find(EQUALS, parts[i]) # 0}
      name(i) == Before(EQUALS, parts[i])
  IN [k \in {name(i) : i \in pairs} |->
        After(EQUALS, parts[Max({i \in pairs : name(i) = k})])]

-----------------------------------------------------------------------------
(* The WHERE clause of a series s, as the rows of New Relic it selects. *)

\* Mutant: the host is not taken over.
scopedAttrs_None(s) == [attrs |-> s.attrs, host |-> <<>>]

scopedAttrs(s) == [attrs |-> s.attrs, host |-> IF Scoped THEN s.host ELSE <<>>]

\* A clause for every attribute that is not empty, none for the others.
Where(s, row) ==
  LET asked == scopedAttrs(s)
  IN /\ \A k \in NonEmpty(asked.attrs) : row.attrs[k] = asked.attrs[k]
     /\ asked.host # <<>> => row.host = asked.host

\* The function m with k mapped to v.
Put(m, k, v) == [x \in DOMAIN m \cup {k} |-> IF x = k THEN v ELSE m[x]]

Selected(key) == {row \in account : Where(series[key], row)}

-----------------------------------------------------------------------------
(* Points reach the file and the account. *)

KeysTypeOK ==
  /\ account \in SUBSET PointSet
  /\ \A k \in DOMAIN series : series[k] \in PointSet
  /\ DOMAIN folded = DOMAIN series
  /\ \A k \in DOMAIN folded : folded[k] \subseteq account /\ series[k] \in folded[k]

KeysInit == series = <<>> /\ folded = <<>> /\ account = {}

\* Mutant: the point is in the file only.
Emit_FileOnly(p) ==
  /\ Cardinality(account) < MaxRows
  /\ series' = Put(series, NormAttrs(p.attrs), p)
  /\ folded' = Put(folded, NormAttrs(p.attrs), {p})
  /\ UNCHANGED account

\* The collector of this file writes a point and sends it on.
Emit(p) ==
  /\ Cardinality(account) < MaxRows
  /\ account' = account \cup {p}
  /\ LET k == NormAttrs(p.attrs)
     IN /\ series' = IF k \in DOMAIN series THEN series ELSE Put(series, k, p)
        /\ folded' = Put(folded, k, IF k \in DOMAIN folded THEN folded[k] \cup {p} ELSE {p})

\* A collector elsewhere sends a point of the same metric.
EmitElsewhere(p) ==
  /\ Cardinality(account) < MaxRows
  /\ account' = account \cup {p}
  /\ UNCHANGED <<series, folded>>

KeysNext == \E p \in PointSet : Emit(p) \/ EmitElsewhere(p)

KeysSpec == KeysInit /\ [][KeysNext]_keysVars

-----------------------------------------------------------------------------
(* Properties. *)

Plain(a) == \A k \in AttrKeys : COMMA \notin ToSet(a[k])

(***************************************************************************)
(* The row of a series shows the attributes of each of its points, an      *)
(* empty one being as good as none, so that points with other attributes   *)
(* are never of one series - as long as no value holds a comma; '=' in a   *)
(* value does no harm (Key, NormAttrs, AttrsFromKey).                      *)
(***************************************************************************)
RowsNameTheirSeries ==
  \A key \in DOMAIN series : \A p \in folded[key] : Plain(p.attrs) =>
    AttrsFromKey(key) = [k \in NonEmpty(p.attrs) |-> p.attrs[k]]

\* No other point has all of the series' attributes and more.
NoRicherPoint(s) ==
  \A row \in account :
    (\A k \in NonEmpty(s.attrs) : row.attrs[k] = s.attrs[k]) => row.attrs = s.attrs

OneHost(key) == \A p, q \in folded[key] : p.host = q.host

\* Points of other hosts are kept out, or there are none.
Apart(s) ==
  \/ Scoped /\ s.host # <<>>
  \/ \A row \in account : row.attrs = s.attrs => row.host = s.host

(***************************************************************************)
(* New Relic is asked about the points the file has of the series and no   *)
(* others: for a series of one host, told apart by the scope attribute or  *)
(* alone in its account, without a comma in its points' values, and such   *)
(* that no point of the account has more attributes (scopedAttrs, where,   *)
(* ReadOTLPSeries' first resource).                                        *)
(***************************************************************************)
WhereIsTheSeries ==
  \A key \in DOMAIN series :
    LET s == series[key]
    IN (\A p \in folded[key] : Plain(p.attrs)) /\ NoRicherPoint(s) /\ OneHost(key) /\ Apart(s) =>
         Selected(key) = folded[key]
=============================================================================
