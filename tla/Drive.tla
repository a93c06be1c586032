--------------------------------- MODULE Drive ---------------------------------
(***************************************************************************)
(* What the teleop tab promises the robots: only the topic of the run gets *)
(* commands, and in one step with the end of a run every topic is told to  *)
(* stand still and the core is left without a writer.  Nothing comes after *)
(* that step but another run.  The step that hides the tab ends the run it *)
(* finds, and none begins once the screen is gone; that none begins behind *)
(* another tab is not promised.                                            *)
(***************************************************************************)
CONSTANTS Topic, NoTopic, Command, Zero

VARIABLES
  screen,   \* "shown", "hidden" behind another tab, or "gone"
  run,      \* the topic that is driven, or NoTopic
  wire,     \* the last command of each topic
  writers   \* the topics with a writer

vars == <<screen, run, wire, writers>>

Still == [t \in Topic |-> Zero]

Init ==
  /\ screen = "hidden"
  /\ run = NoTopic
  /\ wire = Still
  /\ writers = {}

Show ==
  /\ screen = "hidden"
  /\ screen' = "shown"
  /\ UNCHANGED <<run, wire, writers>>

Begin(t) ==
  /\ screen # "gone"
  /\ run = NoTopic
  /\ run' = t
  /\ UNCHANGED <<screen, wire, writers>>

Send(c) ==
  /\ run # NoTopic
  /\ wire' = [wire EXCEPT ![run] = c]
  /\ writers' = {run}
  /\ UNCHANGED <<screen, run>>

Ended ==
  /\ run' = NoTopic
  /\ wire' = Still
  /\ writers' = {}

End == Ended /\ UNCHANGED screen

\* Going away and the end of the run are one step.
Hide ==
  /\ screen = "shown"
  /\ screen' = "hidden"
  /\ Ended

Leave ==
  /\ screen # "gone"
  /\ screen' = "gone"
  /\ Ended

Next ==
  \/ Show
  \/ \E t \in Topic : Begin(t)
  \/ \E c \in Command : Send(c)
  \/ End
  \/ Hide
  \/ Leave

Spec == Init /\ [][Next]_vars
=============================================================================
