---------------------------- MODULE MCWatchService ----------------------------
(* Instances of WatchService for TLC: a list of two topics.                 *)
EXTENDS WatchService

CONSTANTS cmd, scan

TwoTopics == <<cmd, scan>>
=============================================================================
