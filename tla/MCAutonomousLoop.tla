--------------------------- MODULE MCAutonomousLoop ---------------------------
(***************************************************************************)
(* AutonomousLoop with an artifact, a collision of a tool, two control     *)
(* atoms and two kinds of response.                                        *)
(***************************************************************************)
EXTENDS AutonomousLoop

CONSTANTS e1, c1, g1, g2, s1, s2

MCEvidence == {e1}
MCCollision == {c1}
MCControl == {g1, g2}
MCStep == {s1, s2}
=============================================================================
