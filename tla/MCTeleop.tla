------------------------------- MODULE MCTeleop -------------------------------
(* Instances of Teleop for TLC: the user types one topic or another.        *)
EXTENDS Teleop

CONSTANTS cmdVel, otherVel

TwoTopics == {cmdVel, otherVel}
=============================================================================
