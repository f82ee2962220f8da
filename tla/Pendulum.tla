------------------------------ MODULE Pendulum ------------------------------
(***************************************************************************)
(* The pendulum demo: a motor node whose physics thread integrates the       *)
(* pendulum, a controller node that answers each sensor message with a       *)
(* command, a teleop node that sets the goal, and the RttExecutor that       *)
(* publishes its statistics.  The topics are best effort with a history of   *)
(* one: a message may be lost, and a new one replaces one not yet taken.     *)
(*                                                                          *)
(* Angles are integers, PI stands for M_PI, and NaN is a value outside of    *)
(* the order.  state_ is shared by the physics thread and the callbacks of   *)
(* the motor node without a lock: each assignment to it is a step.           *)
(***************************************************************************)
EXTENDS Integers, FiniteSets

CONSTANTS PI,       \* upper limit of the angle, lower limit 0
          Swing,    \* largest change of the angle in one physics step
          MaxTeleop \* setpoints the teleop node publishes

ASSUME PendulumAssumption == PI \in Nat \ {0} /\ Swing \in Nat /\ MaxTeleop \in Nat

VARIABLES position,       \* state_.position
          physics,        \* "step", "clamp", "publish" or "ended"
          sensor_message, motor_ready, done,
          motor_callback, \* the command on_command_message is about to limit
          command,        \* pid_.command, the goal
          command_message, controller_ready,
          controller,     \* "up" or "dead" after an exception
          sensor_topic, command_topic, setpoint_topic,
          statistics_topic, results_available, running,
          executor,       \* "spin" or "finished"
          teleops         \* setpoints published

pendulum_vars == <<position, physics, sensor_message, motor_ready, done, motor_callback,
                   command, command_message, controller_ready, controller, sensor_topic,
                   command_topic, setpoint_topic, statistics_topic, results_available,
                   running, executor, teleops>>

motor_vars == <<position, physics, sensor_message, motor_ready, done, motor_callback>>
controller_vars == <<command, command_message, controller_ready, controller>>
executor_vars == <<results_available, running, executor, statistics_topic>>

Raw == (0 - Swing)..(PI + Swing)
Angle == 0..PI
NaN == PI + Swing + 1
None == PI + Swing + 2

\* A result that is not a number fails both tests of the limits and is kept.
limit(x) == IF x = NaN THEN NaN ELSE IF x > PI THEN PI ELSE IF x < 0 THEN 0 ELSE x

PendulumInit ==
    /\ position = 0 /\ physics = "step" /\ sensor_message = 0
    /\ motor_ready = FALSE /\ done = FALSE /\ motor_callback = None
    /\ command = 1 /\ command_message = 1 /\ controller_ready = FALSE
    /\ controller = "up"
    /\ sensor_topic = None /\ command_topic = None /\ setpoint_topic = None
    /\ statistics_topic = << >> /\ results_available = FALSE /\ running = FALSE
    /\ executor = "spin" /\ teleops = 0

-----------------------------------------------------------------------------
(* The motor node *)

\* physics_update, every millisecond until done_: integrate, limit, and fill
\* in the sensor message.
physics_integrate ==
    /\ physics = "step"
    /\ IF done THEN physics' = "ended" /\ UNCHANGED position
       ELSE \E p \in Raw : /\ p - position \in (0 - Swing)..Swing
                           /\ position' = p /\ physics' = "clamp"
    /\ UNCHANGED <<sensor_message, motor_ready, done, motor_callback, controller_vars,
                   sensor_topic, command_topic, setpoint_topic, executor_vars, teleops>>

physics_limit ==
    /\ physics = "clamp"
    /\ position' = limit(position) /\ physics' = "publish"
    /\ UNCHANGED <<sensor_message, motor_ready, done, motor_callback, controller_vars,
                   sensor_topic, command_topic, setpoint_topic, executor_vars, teleops>>

physics_publish ==
    /\ physics = "publish"
    /\ sensor_message' = position /\ motor_ready' = TRUE /\ physics' = "step"
    /\ UNCHANGED <<position, done, motor_callback, controller_vars, sensor_topic,
                   command_topic, setpoint_topic, executor_vars, teleops>>

\* The timer of the motor node.
motor_publish_callback ==
    /\ executor = "spin" /\ motor_callback = None /\ motor_ready
    /\ sensor_topic' = sensor_message
    /\ UNCHANGED <<motor_vars, controller_vars, command_topic, setpoint_topic,
                   executor_vars, teleops>>

\* on_command_message: the position is set, then limited.
on_command_message ==
    /\ executor = "spin" /\ motor_callback = None /\ command_topic # None
    /\ position' = command_topic /\ motor_callback' = command_topic
    /\ command_topic' = None
    /\ UNCHANGED <<physics, sensor_message, motor_ready, done, controller_vars,
                   sensor_topic, setpoint_topic, executor_vars, teleops>>

command_limit ==
    /\ motor_callback # None
    /\ position' = limit(position) /\ motor_callback' = None
    /\ UNCHANGED <<physics, sensor_message, motor_ready, done, controller_vars,
                   sensor_topic, command_topic, setpoint_topic, executor_vars, teleops>>

-----------------------------------------------------------------------------
(* The controller node *)

\* The gains add up to any angle around the sensor's; with a goal that is not
\* a number the sum is not one either, and the callback throws.
Commands(sensor) == IF command = NaN THEN {NaN} ELSE Raw

\* Faulty variant: the command is not limited.
command_of_raw(x) == x
command_of(x) == limit(x)

on_sensor_message ==
    /\ controller = "up" /\ sensor_topic # None
    /\ sensor_topic' = None
    /\ \E x \in Commands(sensor_topic) :
         /\ command_message' = command_of(x)
         /\ IF command_message' = NaN
            THEN controller' = "dead" /\ UNCHANGED controller_ready
            ELSE controller_ready' = TRUE /\ UNCHANGED controller
    /\ UNCHANGED <<motor_vars, command, command_topic, setpoint_topic, executor_vars, teleops>>

on_pendulum_setpoint ==
    /\ controller = "up" /\ setpoint_topic # None
    /\ command' = setpoint_topic /\ setpoint_topic' = None
    /\ UNCHANGED <<motor_vars, command_message, controller_ready, controller, sensor_topic,
                   command_topic, executor_vars, teleops>>

controller_publish_callback ==
    /\ controller = "up" /\ controller_ready
    /\ command_topic' = command_message
    /\ UNCHANGED <<motor_vars, controller_vars, sensor_topic, setpoint_topic,
                   executor_vars, teleops>>

\* atof of the command line: NaN, or a number; one out of range stands for
\* all, as the commands that follow are arbitrary (see Commands).
teleop_publish ==
    /\ teleops < MaxTeleop /\ teleops' = teleops + 1
    /\ \E x \in {PI + Swing, NaN} : setpoint_topic' = x
    /\ UNCHANGED <<motor_vars, controller_vars, sensor_topic, command_topic, executor_vars>>

\* Best effort: a message is lost on its way.
message_lost ==
    /\ sensor_topic # None \/ command_topic # None
    /\ sensor_topic' = None /\ command_topic' = None
    /\ UNCHANGED <<motor_vars, controller_vars, setpoint_topic, executor_vars, teleops>>

-----------------------------------------------------------------------------
(* RttExecutor *)

\* loop_callback after spin_some: the statistics are available from now on.
loop_callback ==
    /\ executor = "spin"
    /\ results_available' = TRUE /\ running' = TRUE
    /\ UNCHANGED <<motor_vars, controller_vars, sensor_topic, command_topic,
                   setpoint_topic, statistics_topic, executor, teleops>>

\* Only with results: what the logger sees are the command and the state.
logger_publish_callback ==
    /\ executor = "spin" /\ results_available
    /\ statistics_topic' = <<command_message, sensor_message>>
    /\ UNCHANGED <<motor_vars, controller_vars, sensor_topic, command_topic,
                   setpoint_topic, results_available, running, executor, teleops>>

\* spin() returns (rttest has done its iterations, or rclcpp has stopped) and
\* main tells the physics thread to end.
spin_ends ==
    /\ executor = "spin" /\ motor_callback = None
    /\ executor' = "finished" /\ running' = FALSE /\ done' = TRUE
    /\ UNCHANGED <<position, physics, sensor_message, motor_ready, motor_callback,
                   controller_vars, sensor_topic, command_topic, setpoint_topic,
                   statistics_topic, results_available, teleops>>

PendulumNext ==
    \/ physics_integrate \/ physics_limit \/ physics_publish
    \/ motor_publish_callback \/ on_command_message \/ command_limit
    \/ on_sensor_message \/ on_pendulum_setpoint \/ controller_publish_callback
    \/ teleop_publish \/ message_lost
    \/ loop_callback \/ logger_publish_callback \/ spin_ends

-----------------------------------------------------------------------------
(* Properties *)

PendulumTypeOK ==
    /\ position \in Raw \cup {NaN} /\ command \in Raw \cup {NaN}
    /\ physics \in {"step", "clamp", "publish", "ended"}
    /\ {motor_ready, done, controller_ready, results_available, running} \subseteq BOOLEAN
    /\ controller \in {"up", "dead"} /\ executor \in {"spin", "finished"}
    /\ teleops \in 0..MaxTeleop

\* Whatever the goal, the messages on the sensor and command topics hold an
\* angle within the limits, and so do the published statistics while the
\* controller lives, though the physics thread and the callbacks of the motor
\* write the position at any time, each limiting it only afterwards.
PendulumSafe ==
    /\ sensor_topic \in Angle \cup {None}
    /\ command_topic \in Angle \cup {None}
    /\ (controller = "up" /\ statistics_topic # << >>) =>
         \A i \in {1, 2} : statistics_topic[i] \in Angle
=============================================================================
