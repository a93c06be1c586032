------------------------------ MODULE MCTopicStats ------------------------------
(* An instance of TopicStats for TLC: two writers, one with its clock ahead.  *)
EXTENDS TopicStats, TLC

CONSTANTS near, far

MCOffset == near :> 0 @@ far :> 2
=============================================================================
