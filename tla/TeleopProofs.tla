----------------------------- MODULE TeleopProofs -----------------------------
(***************************************************************************)
(* Proofs about Teleop, for any topics, spring length and number of        *)
(* forgotten timers.                                                       *)
(***************************************************************************)
EXTENDS Teleop, TLAPS

\* A run has a timer the screen still knows, and it is alive: what a forgotten
\* timer may do is harmless because of the topic, not of the timer count.
RunHasTimer ==
  /\ publishing => hasTimer
  /\ hasTimer => timers > 0

\* No writer outlives the run it was made for, and no timer that was forgotten
\* makes it again.
WriterIsActive == writers \subseteq {activeTopic}

\* The inductive invariant.
TeleopInv ==
  /\ TypeOK
  /\ RunHasTimer
  /\ StoppedIsZero
  /\ WriterIsActive
  /\ YawIsHeld

-----------------------------------------------------------------------------
\* The joystick stays on its axis, and so does a spring around its centre.
LEMMA SpringOnAxis ==
  ASSUME TypeOK, NEW n \in 0..SpringFrames
  PROVE  SpringAt(n) \in Axis
<1>1. CASE n < SpringFrames - 1
  BY <1>1, TeleopAssumption DEF SpringAt, TypeOK, Axis
<1>2. CASE n = SpringFrames - 1
  BY <1>2, TeleopAssumption DEF SpringAt, TypeOK, Axis
<1>3. CASE n = SpringFrames
  BY <1>3, TeleopAssumption DEF SpringAt, TypeOK, Axis
<1>4. QED
  BY <1>1, <1>2, <1>3, TeleopAssumption

\* The values of a spring at rest and of no timer are in range.
LEMMA SpringAtRest == SpringFrames \in 0..SpringFrames /\ 0 \in 0..MaxTimers
  BY TeleopAssumption

\* The zero command is a command.
LEMMA ZeroIsCommand == 0 \in Axis /\ Zero \in Command /\ [t \in Topic |-> Zero] \in [Topic -> Command]
<1>1. 0 \in Axis
  BY DEF Axis
<1>2. Zero \in Command
  BY <1>1 DEF Zero, Command
<1>3. QED
  BY <1>1, <1>2

\* _stop ends a run whatever state it finds: no topic, no writer, no command
\* left, and a timer less if there was one to cancel.
LEMMA HaltStops ==
  ASSUME TeleopInv, Halt
  PROVE  /\ activeTopic' = NoTopic
         /\ hasTimer' = FALSE
         /\ timers' \in 0..MaxTimers
         /\ knob' = 0
         /\ yaw' = 0
         /\ writers' = {}
         /\ wire' = [t \in Topic |-> Zero]
<1>1. /\ activeTopic' = NoTopic
      /\ hasTimer' = FALSE
      /\ knob' = 0
      /\ yaw' = 0
  BY DEF Halt
<1>2. timers' \in 0..MaxTimers
  BY TeleopAssumption DEF Halt, TimersLeft, TeleopInv, TypeOK, RunHasTimer
<1>3. NoTopic \notin writers
  BY TeleopAssumption DEF TeleopInv, TypeOK
<1>4. writers' = {}
  BY <1>3 DEF Halt, WritersLeft, TeleopInv, WriterIsActive, publishing, coreVars
<1>5. wire' = [t \in Topic |-> Zero]
  <2>1. CASE publishing
    <3>1. wire' = [wire EXCEPT ![activeTopic] = Zero]
      BY <2>1 DEF Halt, FinalCommand
    <3>2. \A t \in Topic : t # activeTopic => wire[t] = Zero
      BY DEF TeleopInv, StoppedIsZero
    <3>3. wire = [t \in Topic |-> wire[t]]
      BY DEF TeleopInv, TypeOK
    <3>4. QED
      BY <3>1, <3>2, <3>3
  <2>2. CASE ~publishing
    <3>1. wire' = wire
      BY <2>2 DEF Halt, coreVars
    <3>2. \A t \in Topic : wire[t] = Zero
      BY <2>2, TeleopAssumption DEF TeleopInv, StoppedIsZero, publishing
    <3>3. wire = [t \in Topic |-> wire[t]]
      BY DEF TeleopInv, TypeOK
    <3>4. QED
      BY <3>1, <3>2, <3>3
  <2>3. QED
    BY <2>1, <2>2
<1>6. QED
  BY <1>1, <1>2, <1>4, <1>5

\* What HaltStops gives is enough for the parts of the invariant about the run.
LEMMA HaltKeepsInv ==
  ASSUME TeleopInv, Halt, TypeOK'
  PROVE  TeleopInv'
<1>1. RunHasTimer'
  BY HaltStops DEF RunHasTimer, publishing
<1>2. StoppedIsZero'
  BY HaltStops DEF StoppedIsZero
<1>3. WriterIsActive'
  BY HaltStops DEF WriterIsActive
<1>4. YawIsHeld'
  BY HaltStops DEF YawIsHeld
<1>5. QED
  BY <1>1, <1>2, <1>3, <1>4 DEF TeleopInv

LEMMA InitTeleopInv == Init => TeleopInv
<1> SUFFICES ASSUME Init
             PROVE  TeleopInv
  OBVIOUS
<1>1. TypeOK
  BY TeleopAssumption, ZeroIsCommand, SpringAtRest DEF Init, TypeOK
<1>2. RunHasTimer /\ WriterIsActive /\ YawIsHeld
  BY DEF Init, RunHasTimer, WriterIsActive, YawIsHeld, publishing
<1>3. StoppedIsZero
  BY DEF Init, StoppedIsZero
<1>4. QED
  BY <1>1, <1>2, <1>3 DEF TeleopInv

-----------------------------------------------------------------------------
LEMMA StepTeleopInv == TeleopInv /\ [Next]_vars => TeleopInv'
<1> SUFFICES ASSUME TeleopInv, [Next]_vars
             PROVE  TeleopInv'
  OBVIOUS
<1> USE TeleopAssumption
<1>0. CASE Press \/ CancelTap
  <2>1. /\ pressed' \in BOOLEAN
        /\ UNCHANGED <<touch, held, stickVars, runVars, knob, yaw, mounted, shellVars, coreVars>>
    BY <1>0 DEF Press, CancelTap
  <2>2. QED
    BY <2>1
    DEF TeleopInv, TypeOK, RunHasTimer, StoppedIsZero, WriterIsActive,
        YawIsHeld, publishing, stickVars, runVars, shellVars, coreVars
<1>1. ASSUME NEW t \in Topic, Start(t)
      PROVE  TeleopInv'
  <2>1. /\ pressed' = FALSE /\ activeTopic' = t /\ timers' = timers + 1 /\ hasTimer' = TRUE
        /\ timers < MaxTimers
        /\ publishing => t = activeTopic
        /\ UNCHANGED <<touch, held, stickVars, knob, yaw, mounted, shellVars, coreVars>>
    BY <1>1 DEF Start, Tap
  <2>2. TypeOK' /\ RunHasTimer' /\ YawIsHeld'
    <3>1. TypeOK'
      <4>1. timers' \in 0..MaxTimers
        BY <2>1 DEF TeleopInv, TypeOK
      <4>2. QED
        BY <2>1, <4>1 DEF TeleopInv, TypeOK, stickVars, shellVars, coreVars
    <3>2. RunHasTimer'
      BY <2>1 DEF TeleopInv, TypeOK, RunHasTimer
    <3>3. YawIsHeld'
      BY <2>1 DEF TeleopInv, YawIsHeld
    <3>4. QED
      BY <3>1, <3>2, <3>3
  <2>3. StoppedIsZero'
    BY <2>1 DEF TeleopInv, TypeOK, StoppedIsZero, publishing, coreVars
  <2>4. WriterIsActive'
    BY <2>1 DEF TeleopInv, TypeOK, WriterIsActive, publishing, coreVars
  <2>5. QED
    BY <2>2, <2>3, <2>4 DEF TeleopInv
<1>2. CASE Tick
  <2>1. activeTopic \in Topic
    BY <1>2 DEF Tick, TeleopInv, TypeOK, publishing
  <2>2. [linear |-> -knob, angular |-> yaw] \in Command
    BY DEF TeleopInv, TypeOK, Axis, Command
  <2>3. /\ wire' = [wire EXCEPT ![activeTopic] = [linear |-> -knob, angular |-> yaw]]
        /\ writers' = writers \cup {activeTopic}
        /\ UNCHANGED <<fingerVars, stickVars, runVars, knob, yaw, mounted, shellVars>>
    BY <1>2 DEF Tick, PublishTwist
  <2>4. TypeOK'
    BY <2>1, <2>2, <2>3
    DEF TeleopInv, TypeOK, fingerVars, stickVars, runVars, shellVars
  <2>5. RunHasTimer' /\ YawIsHeld'
    BY <2>3 DEF TeleopInv, RunHasTimer, YawIsHeld,
                publishing, fingerVars, runVars, shellVars
  <2>6. StoppedIsZero'
    <3>1. hasTimer /\ timers > 0
      BY <2>1 DEF TeleopInv, RunHasTimer, publishing
    <3>2. \A t \in Topic : t # activeTopic => wire'[t] = Zero
      BY <2>3 DEF TeleopInv, StoppedIsZero, TypeOK
    <3>3. QED
      BY <2>3, <3>1, <3>2 DEF StoppedIsZero, runVars
  <2>7. WriterIsActive'
    BY <2>3 DEF TeleopInv, WriterIsActive, runVars
  <2>8. QED
    BY <2>4, <2>5, <2>6, <2>7 DEF TeleopInv
<1>3. CASE Stop
  <2>1. Halt
    BY <1>3 DEF Stop
  <2>2. TypeOK'
    BY <1>3, <2>1, HaltStops, ZeroIsCommand
    DEF Stop, Tap, TeleopInv, TypeOK, stickVars, shellVars
  <2>3. QED
    BY <2>1, <2>2, HaltKeepsInv
<1>4. CASE Dispose
  <2>1. CASE publishing
    <3>1. Halt
      BY <1>4, <2>1 DEF Dispose
    <3>2. TypeOK'
      BY <1>4, <3>1, HaltStops, ZeroIsCommand, SpringAtRest
      DEF Dispose, TeleopInv, TypeOK, fingerVars, shellVars
    <3>3. QED
      BY <3>1, <3>2, HaltKeepsInv
  <2>2. CASE ~publishing
    <3>1. /\ progress' \in 0..SpringFrames
          /\ mounted' = FALSE
          /\ UNCHANGED <<fingerVars, stick, springFrom, runVars, knob, yaw,
                         shellVars, coreVars>>
      BY <1>4, <2>2 DEF Dispose
    <3>2. TypeOK'
      BY <3>1 DEF TeleopInv, TypeOK, fingerVars, runVars, shellVars, coreVars
    <3>3. QED
      BY <3>1, <3>2
      DEF TeleopInv, RunHasTimer, StoppedIsZero, WriterIsActive,
          YawIsHeld, publishing, fingerVars, runVars,
          shellVars, coreVars
  <2>3. QED
    BY <2>1, <2>2
<1>5. ASSUME NEW d \in {1, -1}, PressYaw(d) \/ ReleaseYaw(d)
      PROVE  TeleopInv'
  <2>1. /\ yaw' \in Axis
        /\ held' \in SUBSET {1, -1}
        /\ yaw' # 0 => yaw' \in held'
    <3>1. CASE PressYaw(d)
      BY <3>1 DEF PressYaw, TeleopInv, TypeOK, Axis
    <3>2. CASE ReleaseYaw(d)
      BY <3>2 DEF ReleaseYaw, YawAfter, TeleopInv, TypeOK, YawIsHeld, Axis
    <3>3. QED
      BY <1>5, <3>1, <3>2
  <2>2. UNCHANGED <<touch, pressed, stickVars, runVars, knob, mounted, shellVars, coreVars>>
    BY <1>5 DEF PressYaw, ReleaseYaw
  <2>3. QED
    BY <2>1, <2>2
    DEF TeleopInv, TypeOK, RunHasTimer, StoppedIsZero, WriterIsActive,
        YawIsHeld, publishing, stickVars, runVars,
        shellVars, coreVars
<1>6. ASSUME TouchDown \/ (\E d \in Axis : Drag(d)) \/ Release
      PROVE  TeleopInv'
  <2>1. /\ touch' \in {"none", "down", "pan"}
        /\ stick' \in Axis
        /\ springFrom' \in Axis
        /\ progress' \in 0..SpringFrames
        /\ knob' \in Axis
    BY <1>6 DEF TouchDown, Drag, Release, TeleopInv, TypeOK, stickVars
  <2>2. UNCHANGED <<held, pressed, runVars, yaw, mounted, shellVars, coreVars>>
    BY <1>6 DEF TouchDown, Drag, Release
  <2>3. QED
    BY <2>1, <2>2
    DEF TeleopInv, TypeOK, RunHasTimer, StoppedIsZero, WriterIsActive,
        YawIsHeld, publishing, runVars, shellVars, coreVars
<1>7. ASSUME NEW n \in 0..SpringFrames, Frame(n)
      PROVE  TeleopInv'
  <2>1. /\ stick' \in Axis
        /\ progress' \in 0..SpringFrames
        /\ active' \in BOOLEAN
        /\ active' = selected
        /\ tapStops' \in BOOLEAN
        /\ UNCHANGED <<fingerVars, springFrom, mounted, selected, foreground>>
    BY <1>7, SpringOnAxis DEF Frame, TeleopInv, TypeOK
  <2>2. CASE Leaving
    <3>1. Halt
      BY <1>7, <2>2 DEF Frame
    <3>2. TypeOK'
      BY <2>1, <3>1, HaltStops, ZeroIsCommand
      DEF TeleopInv, TypeOK, fingerVars
    <3>3. QED
      BY <3>1, <3>2, HaltKeepsInv
  <2>3. CASE ~Leaving
    <3>1. knob' \in Axis /\ UNCHANGED <<runVars, yaw, coreVars>>
      BY <1>7, <2>3, SpringOnAxis DEF Frame, TeleopInv, TypeOK
    <3>2. QED
      BY <2>1, <3>1
      DEF TeleopInv, TypeOK, RunHasTimer, StoppedIsZero, WriterIsActive,
          YawIsHeld, publishing, runVars, coreVars, fingerVars
  <2>4. QED
    BY <2>2, <2>3
<1>8. CASE SelectTab \/ ToggleForeground
  <2>1. /\ selected' \in BOOLEAN
        /\ foreground' \in BOOLEAN
        /\ UNCHANGED <<fingerVars, stickVars, runVars, knob, yaw, mounted, active,
                       tapStops, coreVars>>
    BY <1>8 DEF SelectTab, ToggleForeground, TeleopInv, TypeOK
  <2>2. QED
    BY <2>1
    DEF TeleopInv, TypeOK, RunHasTimer, StoppedIsZero, WriterIsActive,
        YawIsHeld, publishing, fingerVars, stickVars,
        runVars, coreVars
<1>9. CASE UNCHANGED vars
  BY <1>9
  DEF vars, TeleopInv, TypeOK, RunHasTimer, StoppedIsZero, WriterIsActive,
      YawIsHeld, publishing, fingerVars, stickVars, runVars,
      shellVars, coreVars
<1>10. QED
  BY <1>0, <1>1, <1>2, <1>3, <1>4, <1>5, <1>6, <1>7, <1>8, <1>9 DEF Next

-----------------------------------------------------------------------------
\* TypeOK, StoppedIsZero, WriterIsActive and YawIsHeld hold in every state of teleop: a robot has no command left but zero once a run
\* ends by a tap, a tab switch or disposal, with any number of forgotten timers.
THEOREM TeleopCorrect ==
  Spec => [](TypeOK /\ StoppedIsZero /\ WriterIsActive /\ YawIsHeld)
<1>1. TeleopInv => TypeOK /\ StoppedIsZero /\ WriterIsActive /\ YawIsHeld
  BY DEF TeleopInv
<1>2. QED
  BY <1>1, InitTeleopInv, StepTeleopInv, PTL DEF Spec

\* Every field of the screen, and every command in flight, has its type.
THEOREM TeleopTypes == Spec => []TypeOK
BY TeleopCorrect, PTL

\* The core has no writer but the one of the active topic.
THEOREM WriterIsActiveCorrect == Spec => []WriterIsActive
BY TeleopCorrect, PTL

\* The yaw rate the robot is sent is that of the button that is held.
THEOREM YawIsHeldCorrect == Spec => []YawIsHeld
BY TeleopCorrect, PTL

-----------------------------------------------------------------------------
(* What is left behind when a finger leaves.                                *)

\* A run belongs to a screen that exists, and a stick nobody touches is at its
\* centre once the spring is at rest.
RestInv ==
  /\ publishing => mounted
  /\ mounted /\ touch = "none" /\ ~Springing => knob = 0

LEMMA RestStep == TeleopInv /\ RestInv /\ [Next]_vars => RestInv'
<1> SUFFICES ASSUME TeleopInv, RestInv, [Next]_vars PROVE RestInv'
  OBVIOUS
<1> USE DEF RestInv, Springing, publishing
<1>0. CASE Press \/ CancelTap
  BY <1>0 DEF Press, CancelTap, stickVars, runVars
<1>1. ASSUME NEW t \in Topic, Start(t) PROVE RestInv'
  BY <1>1 DEF Start, Tap, stickVars
<1>2. CASE Tick
  BY <1>2 DEF Tick, fingerVars, stickVars, runVars
<1>3. CASE Stop
  BY <1>3, HaltStops DEF Stop
<1>4. CASE Dispose
  BY <1>4, HaltStops DEF Dispose, runVars
<1>5. ASSUME NEW d \in {1, -1}, PressYaw(d) \/ ReleaseYaw(d) PROVE RestInv'
  BY <1>5 DEF PressYaw, ReleaseYaw, stickVars, runVars
<1>6. CASE TouchDown
  BY <1>6 DEF TouchDown, runVars
<1>7. ASSUME NEW d \in Axis, Drag(d) PROVE RestInv'
  BY <1>7 DEF Drag, runVars
<1>8. CASE Release
  BY <1>8, TeleopAssumption DEF Release, runVars
<1>9. ASSUME NEW n \in 0..SpringFrames, Frame(n) PROVE RestInv'
  <2>1. n = progress' /\ UNCHANGED <<touch, held, mounted>>
    BY <1>9 DEF Frame, fingerVars
  <2>2. CASE Leaving
    <3>1. Halt
      BY <1>9, <2>2 DEF Frame
    <3> QED BY <3>1, HaltStops
  <2>3. CASE ~Leaving
    <3>1. knob' = (IF progress < SpringFrames THEN SpringAt(n) ELSE knob)
          /\ activeTopic' = activeTopic
      BY <1>9, <2>3 DEF Frame, runVars
    <3>2. ASSUME ~(n < SpringFrames) PROVE SpringAt(n) = 0
      <4>1. n = SpringFrames
        BY <3>2, TeleopAssumption
      <4> QED BY <4>1, TeleopAssumption DEF SpringAt
    <3>3. progress < SpringFrames \/ n = progress
      BY <1>9 DEF Frame
    <3> QED BY <2>1, <3>1, <3>2, <3>3
  <2> QED BY <2>2, <2>3
<1>10. CASE SelectTab \/ ToggleForeground
  BY <1>10 DEF SelectTab, ToggleForeground, fingerVars, stickVars, runVars
<1>11. CASE UNCHANGED vars
  BY <1>11 DEF vars, fingerVars, stickVars, runVars
<1> QED
  BY <1>0, <1>1, <1>2, <1>3, <1>4, <1>5, <1>6, <1>7, <1>8, <1>9, <1>10, <1>11 DEF Next

LEMMA InitRest == Init => RestInv
BY DEF Init, RestInv, publishing

\* The only steps that write a command.
LEMMA WireSteps ==
  ASSUME TeleopInv, [Next]_vars
  PROVE  \/ UNCHANGED <<writers, wire>>
         \/ Tick
         \/ writers' = {} /\ wire' = [t \in Topic |-> Zero]
<1> USE DEF coreVars
<1>1. ASSUME Halt PROVE writers' = {} /\ wire' = [t \in Topic |-> Zero]
  BY <1>1, HaltStops
<1>2. Stop => Halt
  BY DEF Stop
<1>3. Dispose => Halt \/ UNCHANGED coreVars
  BY DEF Dispose
<1>4. ASSUME NEW n \in 0..SpringFrames, Frame(n) PROVE Halt \/ UNCHANGED coreVars
  BY <1>4 DEF Frame
<1>5. ASSUME \/ Press
             \/ CancelTap
             \/ \E t \in Topic : Start(t)
             \/ \E d \in {1, -1} : PressYaw(d) \/ ReleaseYaw(d)
             \/ TouchDown
             \/ \E d \in Axis : Drag(d)
             \/ Release
             \/ SelectTab
             \/ ToggleForeground
             \/ UNCHANGED vars
      PROVE  UNCHANGED coreVars
  BY <1>5 DEF Press, CancelTap, Start, PressYaw, ReleaseYaw, TouchDown, Drag, Release, SelectTab,
              ToggleForeground, vars
<1> HIDE DEF coreVars
<1>6. UNCHANGED coreVars \/ Tick \/ Halt
  BY <1>2, <1>3, <1>4, <1>5 DEF Next
<1> QED BY <1>1, <1>6 DEF coreVars

\* With no finger on a control and the spring at rest the robot is told nothing
\* but to stand still, whatever was tapped, left or forgotten before.
THEOREM RestIsZeroCorrect == Spec => RestIsZero
<1> DEFINE Rest == touch = "none" /\ held = {} /\ ~Springing =>
                     \A t \in Topic : wire'[t] \in {wire[t], Zero}
<1>1. TeleopInv /\ RestInv /\ [Next]_vars => [Rest]_vars
  <2> SUFFICES ASSUME TeleopInv, RestInv, Next, touch = "none", held = {}, ~Springing,
                      NEW t \in Topic
               PROVE  wire'[t] \in {wire[t], Zero}
    OBVIOUS
  <2>1. CASE Tick
    <3>1. /\ wire' = [wire EXCEPT ![activeTopic] = [linear |-> -knob, angular |-> yaw]]
          /\ publishing
      BY <2>1 DEF Tick, PublishTwist
    <3>2. knob = 0 /\ yaw = 0
      BY <3>1 DEF RestInv, TeleopInv, YawIsHeld
    <3>3. wire \in [Topic -> Command]
      BY DEF TeleopInv, TypeOK
    <3> QED BY <3>1, <3>2, <3>3 DEF Zero
  <2>2. CASE UNCHANGED wire
    BY <2>2
  <2>3. CASE wire' = [u \in Topic |-> Zero]
    BY <2>3
  <2> QED BY <2>1, <2>2, <2>3, WireSteps
<1>2. Spec => [](TeleopInv /\ RestInv)
  BY InitTeleopInv, StepTeleopInv, InitRest, RestStep, PTL DEF Spec
<1> QED BY <1>1, <1>2, PTL DEF Spec, RestIsZero

-----------------------------------------------------------------------------
(* The refinement.                                                          *)

\* A tap begins a run or is a stutter, a tick is a command, and what halts ends
\* the run; the other steps may show, hide or end a screen with no run.
LEMMA PromiseStep ==
  ASSUME TeleopInv, RestInv, TeleopInv', RestInv', [Next]_vars
  PROVE  [Promise!Next]_(Promise!vars)
<1> USE DEF Screen
<1>0. /\ NoTopic \notin Topic
      /\ activeTopic \in Topic \cup {NoTopic}
      /\ active \in BOOLEAN /\ mounted \in BOOLEAN /\ selected \in BOOLEAN
  BY TeleopAssumption DEF TeleopInv, TypeOK
<1>1. ASSUME NEW t \in Topic, Start(t) PROVE [Promise!Next]_(Promise!vars)
  <2>1. /\ mounted /\ activeTopic' = t /\ UNCHANGED <<active, mounted, wire, writers>>
        /\ publishing => t = activeTopic
    BY <1>1 DEF Start, Tap, shellVars, coreVars
  <2>2. CASE publishing
    BY <2>1, <2>2 DEF Promise!vars
  <2>3. CASE ~publishing
    <3>1. Promise!Begin(t)
      BY <2>1, <2>3 DEF Promise!Begin, publishing
    <3> QED BY <3>1 DEF Promise!Next
  <2> QED BY <2>2, <2>3
<1>2. CASE Tick
  <2> DEFINE c == [linear |-> -knob, angular |-> yaw]
  <2>1. c \in Command
    BY DEF TeleopInv, TypeOK, Axis, Command
  <2>2. /\ publishing /\ wire' = [wire EXCEPT ![activeTopic] = c]
        /\ writers' = writers \cup {activeTopic}
        /\ UNCHANGED <<activeTopic, active, mounted>>
    BY <1>2 DEF Tick, PublishTwist, runVars, shellVars
  <2>3. writers' = {activeTopic}
    BY <2>2 DEF TeleopInv, WriterIsActive
  <2>4. Promise!Send(c)
    BY <2>2, <2>3 DEF Promise!Send, publishing
  <2> QED BY <2>1, <2>4 DEF Promise!Next
<1>3. Halt => Promise!Ended
  BY HaltStops DEF Promise!Ended, Promise!Still
<1>4. ASSUME ~publishing, UNCHANGED <<activeTopic, writers, wire>> PROVE Promise!Ended
  <2>1. activeTopic' = NoTopic
    BY <1>4 DEF publishing
  <2>2. \A t \in Topic : wire[t] = Zero
    BY <1>0, <1>4 DEF TeleopInv, StoppedIsZero, publishing
  <2>3. wire \in [Topic -> Command] /\ writers = {}
    BY <1>0, <1>4 DEF TeleopInv, TypeOK, WriterIsActive, publishing
  <2> QED BY <1>4, <2>1, <2>2, <2>3 DEF Promise!Ended, Promise!Still
<1>5. CASE Stop
  <2>1. Promise!Ended /\ UNCHANGED Screen
    BY <1>3, <1>5 DEF Stop, shellVars
  <2> QED BY <2>1 DEF Promise!End, Promise!Next
<1>6. CASE Dispose
  <2>1. Promise!Ended
    <3>1. CASE publishing
      BY <1>3, <1>6, <3>1 DEF Dispose
    <3>2. CASE ~publishing
      BY <1>4, <1>6, <3>2 DEF Dispose, runVars, coreVars
    <3> QED BY <3>1, <3>2
  <2>2. Screen # "gone" /\ Screen' = "gone"
    BY <1>6 DEF Dispose
  <2> QED BY <2>1, <2>2 DEF Promise!Leave, Promise!Next
<1>7. ASSUME NEW n \in 0..SpringFrames, Frame(n) PROVE [Promise!Next]_(Promise!vars)
  <2>1. active' = selected /\ mounted /\ mounted' = mounted
    BY <1>7 DEF Frame
  <2>2. CASE active /\ ~selected
    <3>1. Promise!Ended
      <4>1. CASE publishing
        BY <1>3, <1>7, <2>2, <4>1 DEF Frame, Leaving
      <4>2. CASE ~publishing
        BY <1>4, <1>7, <4>2 DEF Frame, Leaving, runVars, coreVars
      <4> QED BY <4>1, <4>2
    <3>2. Screen = "shown" /\ Screen' = "hidden"
      BY <2>1, <2>2
    <3> QED BY <3>1, <3>2 DEF Promise!Hide, Promise!Next
  <2>3. CASE ~(active /\ ~selected)
    <3>1. UNCHANGED <<activeTopic, writers, wire>>
      BY <1>7, <2>3 DEF Frame, Leaving, runVars, coreVars
    <3>2. CASE active = selected
      BY <2>1, <3>1, <3>2 DEF Promise!vars
    <3>3. CASE ~active /\ selected
      <4>1. Screen = "hidden" /\ Screen' = "shown"
        BY <2>1, <3>3
      <4> QED BY <3>1, <4>1 DEF Promise!Show, Promise!Next
    <3> QED BY <1>0, <2>3, <3>2, <3>3
  <2> QED BY <2>2, <2>3
<1>8. CASE \/ Press
           \/ CancelTap
           \/ \E d \in {1, -1} : PressYaw(d) \/ ReleaseYaw(d)
           \/ TouchDown
           \/ \E d \in Axis : Drag(d)
           \/ Release
           \/ SelectTab
           \/ ToggleForeground
           \/ UNCHANGED vars
  <2>1. UNCHANGED <<activeTopic, writers, wire, active, mounted>>
    BY <1>8 DEF Press, CancelTap, PressYaw, ReleaseYaw, TouchDown, Drag, Release, SelectTab,
                ToggleForeground, vars, runVars, shellVars, coreVars
  <2> QED BY <2>1 DEF Promise!vars
<1> QED BY <1>1, <1>2, <1>5, <1>6, <1>7, <1>8 DEF Next

\* Teleop implements Drive: every way a run ends, being left for another tab and
\* disposal included, is one step with the command to stand still, and only a run
\* sends commands.
THEOREM PromiseKept == Spec => ImplementsDrive
<1>1. Init => Promise!Init
  BY DEF Init, Screen, Promise!Init, Promise!Still
<1>2. Spec => [](TeleopInv /\ RestInv)
  BY InitTeleopInv, StepTeleopInv, InitRest, RestStep, PTL DEF Spec
<1>3. TeleopInv /\ RestInv /\ TeleopInv' /\ RestInv' /\ [Next]_vars
        => [Promise!Next]_(Promise!vars)
  BY PromiseStep
<1> QED BY <1>1, <1>2, <1>3, PTL DEF Spec, ImplementsDrive, Promise!Spec
=============================================================================
