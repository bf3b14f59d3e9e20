--------------------------- MODULE MCSessionInput ---------------------------
(* Two sessions, so that broadcasting and a failure of one beside the      *)
(* other occur.                                                            *)
EXTENDS SessionInput

CONSTANTS s1, s2

TwoSessions == {s1, s2}
OneSession == {s1}
=============================================================================
