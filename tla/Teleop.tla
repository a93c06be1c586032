-------------------------------- MODULE Teleop --------------------------------
(***************************************************************************)
(* Driving a robot from the teleop tab: TeleopScreen, the VirtualJoystick  *)
(* inside it, and the writer the core keeps for the target topic.          *)
(*                                                                         *)
(* Everything runs on the UI isolate: taps, the 50 ms publish timer and    *)
(* the frames of the display are separate events in any order.  What is    *)
(* on screen was built by the last frame: between two frames a tap still   *)
(* meets the old button, and the tab left is still the active one.  A      *)
(* finger goes down on what is shown and may be lifted when another tab    *)
(* is: every tab stays mounted, and a tap that began here ends here.       *)
(*                                                                         *)
(* The two axes of the stick are one axis, a position its sign.  The       *)
(* limits are positive, so a command is zero exactly when the stick is at  *)
(* its centre and no yaw is asked for.  There is a DDS service.            *)
(***************************************************************************)
EXTENDS Integers

CONSTANTS
  Topic,         \* valid topic names the user types
  NoTopic,       \* the null topic
  SpringFrames,  \* frames of the spring's return at most
  MaxTimers      \* bound on the periodic timers alive

ASSUME TeleopAssumption ==
  /\ NoTopic \notin Topic
  /\ SpringFrames \in Nat /\ SpringFrames > 1
  /\ MaxTimers \in Nat

VARIABLES
  (* the fingers *)
  touch,        \* the joystick's pointer: "none", "down", or "pan" once accepted
  held,         \* yaw arrows held: 1 turns left, -1 right
  pressed,      \* a finger is down on the Start/Stop button
  (* the joystick *)
  stick,        \* its _knob
  springFrom,   \* where the spring started
  progress,     \* frames of the spring so far; SpringFrames is at rest
  (* the screen *)
  activeTopic,  \* _activeTopic; _publishing is set and reset with it
  timers,       \* periodic timers alive
  hasTimer,     \* _tickTimer is not null
  knob,         \* its _knob
  yaw,          \* _yawInput
  mounted,
  (* the shell *)
  selected,     \* teleop is the selected tab
  active,       \* what the last frame passed as TeleopScreen.active
  tapStops,     \* what the last frame bound to the button: _stop, or _start
  foreground,
  (* the core *)
  writers,      \* topics with a writer
  wire          \* the last command written on each topic

fingerVars == <<touch, held, pressed>>
stickVars  == <<stick, springFrom, progress>>
runVars    == <<activeTopic, timers, hasTimer>>
shellVars  == <<selected, active, tapStops, foreground>>
coreVars   == <<writers, wire>>
vars == <<fingerVars, stickVars, runVars, knob, yaw, mounted, shellVars, coreVars>>

Axis    == -1..1
Command == [linear : Axis, angular : Axis]
Zero    == [linear |-> 0, angular |-> 0]

publishing == activeTopic # NoTopic

Init ==
  /\ touch = "none"
  /\ held = {}
  /\ pressed = FALSE
  /\ stick = 0
  /\ springFrom = 0
  /\ progress = SpringFrames
  /\ activeTopic = NoTopic
  /\ timers = 0
  /\ hasTimer = FALSE
  /\ knob = 0
  /\ yaw = 0
  /\ mounted = TRUE
  /\ selected = FALSE
  /\ active = FALSE
  /\ tapStops = FALSE
  /\ foreground = TRUE
  /\ writers = {}
  /\ wire = [t \in Topic |-> Zero]

\* A finger that goes down can reach the screen the last frame built.
Touchable == mounted /\ active /\ foreground

-----------------------------------------------------------------------------
(* Publishing.  An operator named Op_Suffix is a deliberately wrong variant *)
(* of Op.                                                                   *)

PublishTwist(t, c) ==
  /\ wire' = [wire EXCEPT ![t] = c]
  /\ writers' = writers \cup {t}

\* A finger goes down on the button, and is lifted somewhere else.
Press ==
  /\ Touchable
  /\ ~pressed
  /\ pressed' = TRUE
  /\ UNCHANGED <<touch, held, stickVars, runVars, knob, yaw, mounted, shellVars, coreVars>>

CancelTap ==
  /\ pressed
  /\ pressed' = FALSE
  /\ UNCHANGED <<touch, held, stickVars, runVars, knob, yaw, mounted, shellVars, coreVars>>

\* The end of a tap on the button, on whatever tab is shown by now.
Tap ==
  /\ mounted
  /\ foreground
  /\ pressed
  /\ pressed' = FALSE

\* A tap that ends on a button built as Start.  Nothing stops a second one
\* before the next frame: it makes a second timer and forgets the first.  The
\* text is not edited between two taps of one frame.
Start(t) ==
  /\ Tap
  /\ ~tapStops
  /\ publishing => t = activeTopic
  /\ timers < MaxTimers
  /\ activeTopic' = t
  /\ timers' = timers + 1
  /\ hasTimer' = TRUE
  /\ UNCHANGED <<touch, held, stickVars, knob, yaw, mounted, shellVars, coreVars>>

\* _tick of any timer alive, forgotten ones too.
Tick ==
  /\ timers > 0
  /\ publishing
  /\ PublishTwist(activeTopic, [linear |-> -knob, angular |-> yaw])
  /\ UNCHANGED <<fingerVars, stickVars, runVars, knob, yaw, mounted, shellVars>>

TimersLeft_Unchecked == timers - 1
TimersLeft == IF hasTimer THEN timers - 1 ELSE timers

FinalCommand_Kept(t) == wire[t]
FinalCommand(t) == Zero

WritersLeft_Kept == writers \cup {activeTopic}
WritersLeft == writers \ {activeTopic}

\* _stop, whoever calls it.
Halt ==
  /\ timers' = TimersLeft
  /\ hasTimer' = FALSE
  /\ IF publishing
     THEN /\ wire' = [wire EXCEPT ![activeTopic] = FinalCommand(activeTopic)]
          /\ writers' = WritersLeft
     ELSE UNCHANGED coreVars
  /\ knob' = 0
  /\ yaw' = 0
  /\ activeTopic' = NoTopic

\* A tap that ends on a button built as Stop.
Stop ==
  /\ Tap
  /\ tapStops
  /\ Halt
  /\ UNCHANGED <<touch, held, stickVars, mounted, shellVars>>

\* The whole shell goes: the joystick and its spring first, then the screen.
\* Fingers still down reach nothing any more.
Dispose ==
  /\ mounted
  /\ mounted' = FALSE
  /\ progress' = SpringFrames
  /\ IF publishing THEN Halt ELSE UNCHANGED <<runVars, knob, yaw, coreVars>>
  /\ UNCHANGED <<fingerVars, stick, springFrom, shellVars>>

-----------------------------------------------------------------------------
(* Yaw arrows.                                                              *)

PressYaw(d) ==
  /\ Touchable
  /\ d \notin held
  /\ held' = held \cup {d}
  /\ yaw' = d
  /\ UNCHANGED <<touch, pressed, stickVars, runVars, knob, mounted, shellVars, coreVars>>

YawAfter_OtherArrow(d) == IF yaw = -d THEN 0 ELSE yaw
YawAfter(d) == IF yaw = d THEN 0 ELSE yaw

\* A tap-up, or a cancel.
ReleaseYaw(d) ==
  /\ mounted
  /\ d \in held
  /\ held' = held \ {d}
  /\ yaw' = YawAfter(d)
  /\ UNCHANGED <<touch, pressed, stickVars, runVars, knob, mounted, shellVars, coreVars>>

-----------------------------------------------------------------------------
(* Joystick.                                                                *)

TouchDown ==
  /\ Touchable
  /\ touch = "none"
  /\ touch' = "down"
  /\ UNCHANGED <<held, pressed, stickVars, runVars, knob, yaw, mounted, shellVars,
                 coreVars>>

\* _updateFromLocal.  A spring that is still returning is not stopped.
Drag(d) ==
  /\ mounted
  /\ foreground
  /\ touch # "none"
  /\ touch' = "pan"
  /\ stick' = d
  /\ knob' = d
  /\ UNCHANGED <<held, pressed, springFrom, progress, runVars, yaw, mounted, shellVars,
                 coreVars>>

\* _release, from onPanEnd or from onPanCancel.  forward(from: 0) calls the
\* listener at once, which hands the stick's position to the screen.
Release ==
  /\ mounted
  /\ touch # "none"
  /\ touch' = "none"
  /\ springFrom' = stick
  /\ progress' = 0
  /\ knob' = stick
  /\ UNCHANGED <<held, pressed, stick, runVars, yaw, mounted, shellVars, coreVars>>

\* Curves.easeOutBack runs past the centre before it comes to rest there.
SpringAt_Rests(n) == IF n = 0 THEN springFrom ELSE -springFrom
SpringAt(n) ==
  CASE n < SpringFrames - 1 -> springFrom
    [] n = SpringFrames - 1 -> -springFrom
    [] n = SpringFrames     -> 0

-----------------------------------------------------------------------------
(* Frames, the shell and the system.                                        *)

Springing == progress < SpringFrames

Leaving == active /\ ~selected /\ publishing

\* The spring advances to n, then the shell is built: didUpdateWidget stops
\* publishing on a tab that was left.
Frame(n) ==
  /\ foreground
  /\ mounted
  /\ IF Springing THEN n \in progress + 1 .. SpringFrames ELSE n = progress
  /\ progress' = n
  /\ stick' = IF Springing THEN SpringAt(n) ELSE stick
  /\ active' = selected
  /\ tapStops' = (publishing /\ ~Leaving)
  /\ IF Leaving
     THEN Halt
     ELSE /\ knob' = IF Springing THEN SpringAt(n) ELSE knob
          /\ UNCHANGED <<runVars, yaw, coreVars>>
  /\ UNCHANGED <<fingerVars, springFrom, mounted, selected, foreground>>

SelectTab ==
  /\ foreground
  /\ mounted
  /\ selected' = ~selected
  /\ UNCHANGED <<fingerVars, stickVars, runVars, knob, yaw, mounted, active,
                 tapStops, foreground, coreVars>>

\* The app is hidden or shown again.  No handler runs; timers go on and frames
\* do not.
ToggleForeground ==
  /\ mounted
  /\ foreground' = ~foreground
  /\ UNCHANGED <<fingerVars, stickVars, runVars, knob, yaw, mounted, selected,
                 active, tapStops, coreVars>>

-----------------------------------------------------------------------------
Next ==
  \/ Press
  \/ CancelTap
  \/ \E t \in Topic : Start(t)
  \/ Tick
  \/ Stop
  \/ Dispose
  \/ \E d \in {1, -1} : PressYaw(d) \/ ReleaseYaw(d)
  \/ TouchDown
  \/ \E d \in Axis : Drag(d)
  \/ Release
  \/ \E n \in 0..SpringFrames : Frame(n)
  \/ SelectTab
  \/ ToggleForeground

Spec == Init /\ [][Next]_vars

\* Timers fire, and a visible app draws frames.
FairSpec ==
  /\ Spec
  /\ WF_vars(Tick)
  /\ WF_vars(\E n \in 0..SpringFrames : Frame(n))

-----------------------------------------------------------------------------
TypeOK ==
  /\ touch \in {"none", "down", "pan"}
  /\ held \in SUBSET {1, -1}
  /\ pressed \in BOOLEAN
  /\ stick \in Axis
  /\ springFrom \in Axis
  /\ progress \in 0..SpringFrames
  /\ activeTopic \in Topic \cup {NoTopic}
  /\ timers \in 0..MaxTimers
  /\ hasTimer \in BOOLEAN
  /\ knob \in Axis
  /\ yaw \in Axis
  /\ mounted \in BOOLEAN
  /\ selected \in BOOLEAN
  /\ active \in BOOLEAN
  /\ tapStops \in BOOLEAN
  /\ foreground \in BOOLEAN
  /\ writers \in SUBSET Topic
  /\ wire \in [Topic -> Command]

\* "a robot must never keep receiving a stale non-zero command": the last
\* command of a topic is zero unless this topic is being published, and then
\* there is a timer that can replace it.  Through double taps, forgotten
\* timers, tab switches and disposal.
StoppedIsZero ==
  \A t \in Topic : wire[t] # Zero => activeTopic = t /\ hasTimer /\ timers > 0

\* The robot turns only while the arrow of this direction is held, with both
\* arrows pressed and released in any order.
YawIsHeld == yaw # 0 => yaw \in held

\* Drive: a double tap changes nothing, every tick is a command of the run, and
\* a run ends in one step with the command to stand still and the deletion of
\* the writer, whichever handler ends it and whatever timer is forgotten; the
\* frame that shows another tab ends the run it finds.
Screen  == IF ~mounted THEN "gone" ELSE IF active THEN "shown" ELSE "hidden"
Promise == INSTANCE Drive WITH screen <- Screen, run <- activeTopic
ImplementsDrive == Promise!Spec

\* When the driver takes the hands off a visible app for good, the robot is
\* told to stand still, and nothing else from then on.
ReleasedStops ==
  <>[](touch = "none" /\ held = {} /\ foreground)
     => <>[](\A t \in Topic : wire[t] = Zero)

\* "a zero-Twist is sent the instant the stick is released": with no finger on
\* a control, no new command but zero is written.  (Fails: the spring's
\* positions are published, the ones beyond the centre too.)
ReleaseIsZero ==
  [][touch = "none" /\ held = {} =>
       \A t \in Topic : wire'[t] \in {wire[t], Zero}]_vars

\* With no finger on a control and the spring at rest, which is later than the
\* sentence above asks, every command is zero: neither a tap on Start nor a
\* forgotten timer finds a position that was left behind.
RestIsZero ==
  [][touch = "none" /\ held = {} /\ ~Springing =>
       \A t \in Topic : wire'[t] \in {wire[t], Zero}]_vars

\* "a robot must never keep receiving a stale non-zero command after the driver
\* switches away": while another tab is shown every robot stands still.  (Fails:
\* a tap on Start that ends after the switch begins a run no frame ends.)
LeftIsZero == ~active => \A t \in Topic : wire[t] = Zero
=============================================================================
