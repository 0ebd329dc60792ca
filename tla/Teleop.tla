------------------------------- MODULE Teleop -------------------------------
(***************************************************************************)
(* test/minipro/t_minipro.cpp with minipro.cpp, joystick.cpp and the loop  *)
(* rate: the program that drives the miniPRO by joystick, on an LEClient.  *)
(* Three threads: main, the input thread of LEClient, and the thread that  *)
(* reads the joystick.  The miniPRO and the person at the stick are the    *)
(* environment.                                                            *)
(***************************************************************************)
EXTENDS LEClient, MiniProPacket

CONSTANTS
  Positions,   (* of the stick, by axis                                    *)
  MaxEvents    (* bound: events that wait for the joystick thread          *)

Axes == {"y", "x"}   (* of the left and of the right thumbstick            *)

ASSUME TeleopConstantsOK ==
  /\ MaxEvents \in Nat \ {0}
  /\ \A a \in Axes :
       0 \in Positions[a] /\ \A p \in Positions[a] : p \in Int /\ Abs(p) <= 32767

VARIABLES
  main,        (* the statement of main                                    *)
  result,      (* "none", or "ok" (0) or "error" (an exception)            *)
  should_exit, (* the flag of the signal handler                           *)
  sample,      (* throttle and steering                                    *)
  js,          (* the joystick thread: "none", "running", "ending", "over" *)
  axis_map,
  stick,       (* where the stick is                                       *)
  js_events,   (* what the device has for read()                           *)
  plugged,
  robot

joystick == <<js, axis_map, js_events>>
person == <<stick, plugged>>
program == <<main, result, should_exit, sample>>
vars == <<world, client, program, joystick, person, robot>>

(* At the stick, world: "noJoystick": there is none, or it has too few     *)
(* axes; "unplug": it is pulled out; "held": it is off its centre when the *)
(* program starts; "steers": the right one is moved as well as the left.   *)

Loop == {"test", "throttle", "steering", "drive", "sleep"}
Statements ==
  {"construct", "enable", "enabling", "enter", "joystick", "stop", "exit",
   "disable", "disabling", "close", "destroy", "end"} \union Loop
Idle == [remote |-> FALSE, throttle |-> 0, steering |-> 0]

TypeOK ==
  /\ ClientTypeOK
  /\ main \in Statements
  /\ result \in {"none", "ok", "error"}
  /\ should_exit \in BOOLEAN
  /\ {sample.y, sample.x} \subseteq Int
  /\ js \in {"none", "running", "ending", "over"}
  /\ \A a \in Axes : {axis_map[a], stick[a]} \subseteq Positions[a]
  /\ Len(js_events) <= MaxEvents
  /\ robot.remote \in BOOLEAN /\ {robot.throttle, robot.steering} \subseteq Int

Init ==
  /\ ClientInit
  /\ main = "construct" /\ result = "none" /\ should_exit = FALSE
  /\ sample = [y |-> 0, x |-> 0]
  /\ js = "none" /\ axis_map = [a \in Axes |-> 0] /\ js_events = <<>>
  /\ stick \in [Axes -> UNION {Positions[a] : a \in Axes}]
  /\ \A a \in Axes : stick[a] \in Positions[a]
  /\ "held" \notin world => \A a \in Axes : stick[a] = 0
  /\ plugged = TRUE
  /\ robot = Idle

-----------------------------------------------------------------------------
(* main.                                                                   *)

At(here, next) == Runs /\ main = here /\ main' = next
Only == UNCHANGED <<result, should_exit, sample, joystick, person, robot>>

(* MiniPro minipro(...)                                                    *)
Constructs ==
  /\ main = "construct"
  /\ Construct
  /\ main' = CASE stage' \in {"built", "half"} -> "enable"
               [] stage' \in {"thrown", "terminated"} -> "end"
               [] OTHER -> main
  /\ result' = IF stage' = "thrown" THEN "error" ELSE result
  /\ UNCHANGED <<should_exit, sample, joystick, person, robot>>

Waits(here, next) ==
  /\ At(here, next)
  /\ Written
  /\ UNCHANGED <<result, should_exit, sample, joystick, person, robot>>

(* enable_notifications, disable_notifications                             *)
Enable == At("enable", "enabling") /\ WriteRequest(Config(1)) /\ Only
Disable == At("disable", "disabling") /\ WriteRequest(Config(0)) /\ Only

EnterRemote ==
  At("enter", "joystick") /\ WriteCommand(EnterRemoteControlMode) /\ Only

(* XBox360Controller joystick: the axes start at 0.                        *)
OpenJoystick ==
  /\ Runs /\ main = "joystick"
  /\ IF "noJoystick" \in world
     THEN main' = "destroy" /\ result' = "error" /\ UNCHANGED js
     ELSE main' = "test" /\ js' = "running" /\ UNCHANGED result
  /\ UNCHANGED <<world, client, should_exit, sample, axis_map, js_events, person,
                 robot>>

TestExit ==
  /\ At("test", IF should_exit THEN "stop" ELSE "throttle")
  /\ UNCHANGED <<world, client, result, should_exit, sample, joystick, person,
                 robot>>

(* get_axis_state, twice                                                   *)
Sample(here, next, a) ==
  /\ At(here, next)
  /\ sample' = [sample EXCEPT ![a] = FromAxis(axis_map[a])]
  /\ UNCHANGED <<world, client, result, should_exit, joystick, person, robot>>

SendDrive == At("drive", "sleep") /\ WriteCommand(Drive(sample.y, sample.x)) /\ Only

(* LoopRate::sleep *)
Sleep ==
  /\ At("sleep", "test")
  /\ UNCHANGED <<world, client, result, should_exit, sample, joystick, person,
                 robot>>

Stop == At("stop", "exit") /\ WriteCommand(Drive(0, 0)) /\ Only

ExitRemote ==
  At("exit", "disable") /\ WriteCommand(ExitRemoteControlMode) /\ Only

(* ~Joystick: tell the thread, join it, close the device.                  *)
CloseJoystick ==
  /\ Runs /\ main = "close"
  /\ \/ js = "running" /\ js' = "ending" /\ UNCHANGED main
     \/ js = "over" /\ main' = "destroy" /\ UNCHANGED js
  /\ UNCHANGED <<world, client, result, should_exit, sample, axis_map, js_events,
                 person, robot>>

(* ~LEClient, behind main or the exception                                 *)
Destroys ==
  /\ main = "destroy"
  /\ Destruct
  /\ IF stage' = "destroyed"
     THEN main' = "end" /\ result' = IF result = "none" THEN "ok" ELSE result
     ELSE UNCHANGED <<main, result>>
  /\ UNCHANGED <<should_exit, sample, joystick, person, robot>>

Main ==
  \/ Constructs
  \/ Enable \/ Waits("enabling", "enter") \/ EnterRemote \/ OpenJoystick
  \/ TestExit
  \/ Sample("throttle", "steering", "y") \/ Sample("steering", "drive", "x")
  \/ SendDrive \/ Sleep
  \/ Stop \/ ExitRemote \/ Disable \/ Waits("disabling", "close")
  \/ CloseJoystick \/ Destroys

(* signal_handler                                                          *)
Interrupt ==
  /\ Runs /\ ~ should_exit
  /\ should_exit' = TRUE
  /\ UNCHANGED <<world, client, main, result, sample, joystick, person, robot>>

-----------------------------------------------------------------------------
(* Joystick::input_thread_func: one event is read each round.              *)

ReadJoystick ==
  /\ Runs /\ js = "running" /\ plugged
  /\ js_events # <<>>
  /\ LET e == Head(js_events) IN axis_map' = [axis_map EXCEPT ![e.axis] = e.value]
  /\ js_events' = Tail(js_events)
  /\ UNCHANGED <<world, client, program, js, person, robot>>

EndJoystick ==
  /\ Runs /\ js = "ending"
  /\ js' = "over"
  /\ UNCHANGED <<world, client, program, axis_map, js_events, person, robot>>

(* The person.  The device is open from the construction of the joystick   *)
(* on; what it reports of the time before is marked as initial, and the    *)
(* thread takes no notice of that.                                         *)
Move(a, p) ==
  /\ Runs /\ stick[a] # p
  /\ a = "y" \/ "steers" \in world
  /\ stick' = [stick EXCEPT ![a] = p]
  /\ js = "running"
  /\ IF plugged
     THEN /\ Len(js_events) < MaxEvents
          /\ js_events' = Append(js_events, [axis |-> a, value |-> p])
     ELSE UNCHANGED js_events
  /\ UNCHANGED <<world, client, program, js, axis_map, plugged, robot>>

Unplug ==
  /\ Runs /\ plugged /\ "unplug" \in world
  /\ plugged' = FALSE
  /\ UNCHANGED <<world, client, program, joystick, stick, robot>>

-----------------------------------------------------------------------------
(* The input thread writes to the miniPRO.                                 *)

Pdus == ToSet(write_queue) \union IF request = None THEN {} ELSE {request.value}
Writes ==
  \E pdu \in Pdus :
    /\ DispatchWrite(pdu)
    /\ robot' = Obey(robot, pdu)
    /\ UNCHANGED <<program, joystick, person>>

Others == UNCHANGED <<program, joystick, person, robot>>

Next ==
  \/ Main \/ Interrupt
  \/ ReadJoystick \/ EndJoystick
  \/ \E a \in Axes : \E p \in Positions[a] : Move(a, p)
  \/ Unplug
  \/ Writes
  \/ (Input \/ Answer \/ Drop) /\ Others
  \/ \E e \in Events : Fetch(e) /\ Others

(* The threads run, and the peer answers.  epoll_wait reports in turn all  *)
(* that has happened.                                                      *)
Spec ==
  /\ Init /\ [][Next]_vars
  /\ WF_vars(Main)
  /\ WF_vars(ReadJoystick) /\ WF_vars(EndJoystick)
  /\ WF_vars(Writes) /\ WF_vars(Input /\ Others)
  /\ WF_vars(Answer /\ Others)
  /\ \A e \in Events : SF_vars(Fetch(e) /\ Others)

-----------------------------------------------------------------------------
(* Properties.                                                             *)

(* A request that the client has accepted gets its answer, and the user    *)
(* the value of the promise, unless the link is lost.                      *)
PromiseKept ==
  promise = "waiting" /\ request = None => gatt # "up" \/ link # "up"

(* A program that ends with 0 has stopped the miniPRO and brought it back  *)
(* to its normal mode, although the destructor of the bearer drops what is *)
(* not written.  That is so unless main has handed an operation over while *)
(* the input thread was in the write handler: then the last commands may   *)
(* be lost, although the request behind them is answered.                  *)
StoppedAtEnd == result = "ok" /\ ~ met => robot = Idle

(* The input thread does not use the client or the bearer after the        *)
(* destructor freed them, as long as the destructor does not overtake a    *)
(* callback: it frees before it joins.                                     *)
NoUseAfterFree == "preempts" \notin world => fault \notin {"gatt", "att"}

Inv == TypeOK /\ PromiseKept /\ NoUseAfterFree

(* After an interrupt the program ends, with the link up and a miniPRO     *)
(* that answers.  (It hangs otherwise: nobody keeps the promise.)  It may  *)
(* hang too once the two threads have met: the wake-up for the last        *)
(* request is lost, and nobody sends it.                                   *)
Ends ==
  world \intersect {"drops", "silent", "memory"} = {} =>
    (should_exit ~> main = "end" \/ fault # "none" \/ met)

(* While the stick stays in a place the miniPRO gets to go that way: full  *)
(* forward and right are positive, small deflections count as none.  Once  *)
(* the two threads have met the write handler may be gone for good.        *)
Going(a, p) ==
  LET way == IF p \in -3999 .. 3999 THEN 0 ELSE - p
  IN IF a = "y" THEN robot.throttle = way ELSE robot.steering = way
FollowsStick ==
  world \intersect {"drops", "unplug", "held"} = {} =>
    \A a \in Axes : \A p \in Positions[a] :
      <>[](stick[a] = p /\ main \in Loop /\ ~ met) => <>[]Going(a, p)

=============================================================================
