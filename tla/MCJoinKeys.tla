----------------------------- MODULE MCJoinKeys -----------------------------
(***************************************************************************)
(* Two attribute keys, a and b, and values with '=' and ',', among them    *)
(* one that looks like a second attribute.                                 *)
(***************************************************************************)
EXTENDS JoinKeys

MCKeys == {<<97>>, <<98>>}
MCValues ==
  { <<>>, <<120>>, <<120, COMMA, 98, EQUALS, 120>>, <<98, EQUALS, 120>> }
MCHosts == {<<>>, <<104>>, <<105>>}
=============================================================================
