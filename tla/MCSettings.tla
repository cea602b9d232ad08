----------------------------- MODULE MCSettings -----------------------------
(***************************************************************************)
(* Three families of starts.  Grammar: an empty environment and one line   *)
(* of at most four characters, of all, or a value of at most five behind   *)
(* "HOST=".  Who wins: files of up to two lines over environments in which *)
(* three settings are missing, empty or blank.  Loading: a good            *)
(* environment with any two settings replaced.                             *)
(***************************************************************************)
EXTENDS Settings, FiniteSetsExt

MCUnset == <<0>>

X == 120
TextsUpTo(S, n) == UNION {[1..m -> S] : m \in 0..n}

MCGrammar ==
  {<<t>> : t \in TextsUpTo({HOST[1], EQUALS, SPACE, HASH, DQUOTE, SQUOTE, X}, 4)}
    \cup {<<HOST \o <<EQUALS>> \o t>> :
            t \in TextsUpTo({SPACE, HASH, DQUOTE, SQUOTE, X}, 5)}

NothingSet == [n \in Names |-> MCUnset]
Grammar == {NothingSet} \X MCGrammar

Line(n, t) == n \o <<EQUALS>> \o t

SomeLines ==
  {Line(n, t) : n \in {HOST, PATH, APIKEY},
                t \in {<<>>, <<X>>, <<SPACE, HASH, X>>, <<X, SPACE, HASH>>}}
    \cup {<<HASH>> \o Line(HOST, <<X>>)}
MCFiles == {<<>>} \cup {<<l>> : l \in SomeLines} \cup {<<l, m>> : l, m \in SomeLines}

\* A setting that is good; set, empty, blank, good in capitals, or bad.
Good == [n \in Names |->
  CASE n = FORMAT -> DEBUGLOG [] n = MODE -> CDB
    [] n \in Numbers -> <<55>> [] OTHER -> <<X>>]
Variants(n) ==
  {MCUnset, <<>>, <<SPACE>>, <<SPACE>> \o Good[n], <<35, 67>>,
   IF n = MODE THEN <<67>> ELSE <<X, COMMA, SPACE, COMMA, X>>}

MCEnvironments ==
  UNION {{[Good EXCEPT ![n] = t, ![m] = u] : t \in Variants(n), u \in Variants(m)} :
         n, m \in Names}
MCFewFiles == {<<>>, <<Line(PATH, <<X>>), Line(APIKEY, <<SPACE, HASH, X>>)>>}

MCFileEnvironments ==
  {[Good EXCEPT ![HOST] = t, ![PATH] = u, ![APIKEY] = w] :
     t, u \in {MCUnset, <<>>, <<SPACE>>}, w \in {MCUnset, <<X>>}}
MCComments == MCFileEnvironments \X MCFiles
MCStarts == Grammar \cup MCComments \cup (MCEnvironments \X MCFewFiles)
=============================================================================
