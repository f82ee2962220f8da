----------------------------- MODULE Reception ------------------------------
(***************************************************************************)
(* Fast-DDS reception threads, one per channel, over UDP or shared memory:   *)
(* perform_listen_operation blocks in Receive and hands each message to the  *)
(* attached receiver until the channel is disabled; and the shared memory    *)
(* watchdog, a thread that runs its tasks once a second.                     *)
(*                                                                          *)
(* ChannelResource, the sockets and the shared memory listener are not in    *)
(* the repository: the transport closes a channel by disable, release, join  *)
(* and destruction, in this order; a receive on a released channel returns   *)
(* at once and without a message.                                            *)
(***************************************************************************)
EXTENDS Integers, FiniteSets

CONSTANTS Channel,    \* the channels
          Task,       \* the watchdog's tasks
          MaxMessages \* messages that arrive on a channel

VARIABLES alive, released, receiver, joined,
          listen,        \* where perform_listen_operation is, per channel
          arrived,       \* messages waiting in the channel
          messages,      \* messages that have arrived so far
          buffer,        \* shared memory: a popped buffer is not yet released
          tasks, wake_run, exit_thread,
          watchdog,      \* "top", "wait", "run" or "ended"
          to_run         \* tasks the current round still runs

reception_vars == <<alive, released, receiver, joined, listen, arrived, messages, buffer,
                    tasks, wake_run, exit_thread, watchdog, to_run>>
channel_vars == <<alive, released, receiver, joined, listen, arrived, messages, buffer>>
watchdog_vars == <<tasks, wake_run, exit_thread, watchdog, to_run>>

ReceptionInit ==
    /\ alive = [c \in Channel |-> TRUE] /\ released = [c \in Channel |-> FALSE]
    /\ receiver = [c \in Channel |-> TRUE] /\ joined = [c \in Channel |-> FALSE]
    /\ listen = [c \in Channel |-> "top"] /\ arrived = [c \in Channel |-> 0]
    /\ messages = [c \in Channel |-> 0] /\ buffer = [c \in Channel |-> FALSE]
    /\ tasks = {} /\ wake_run = FALSE /\ exit_thread = FALSE
    /\ watchdog = "top" /\ to_run = {}

-----------------------------------------------------------------------------
(* A channel *)

\* A message arrives (external); it ends a blocked receive.
message_arrives(c) ==
    /\ messages[c] < MaxMessages /\ ~released[c]
    /\ messages' = [messages EXCEPT ![c] = @ + 1]
    /\ arrived' = [arrived EXCEPT ![c] = @ + 1]
    /\ listen' = [listen EXCEPT ![c] = IF @ = "blocked" THEN "receive" ELSE @]
    /\ UNCHANGED <<alive, released, receiver, joined, buffer, watchdog_vars>>

\* while (alive()); at the end the receiver is detached.
listen_top(c) ==
    /\ listen[c] = "top"
    /\ listen' = [listen EXCEPT ![c] = IF alive[c] THEN "receive" ELSE "ended"]
    /\ receiver' = [receiver EXCEPT ![c] = @ /\ alive[c]]
    /\ UNCHANGED <<alive, released, joined, arrived, messages, buffer, watchdog_vars>>

\* Receive: a message, nothing (an error, an empty or a closing datagram, a
\* released channel), or wait for one.
receive(c) ==
    /\ listen[c] = "receive"
    /\ \/ /\ arrived[c] > 0
          /\ arrived' = [arrived EXCEPT ![c] = @ - 1]
          /\ \/ listen' = [listen EXCEPT ![c] = "check"] /\ buffer' = [buffer EXCEPT ![c] = TRUE]
             \/ listen' = [listen EXCEPT ![c] = "top"] /\ UNCHANGED buffer
       \/ /\ arrived[c] = 0
          /\ listen' = [listen EXCEPT ![c] = IF released[c] THEN "top" ELSE "blocked"]
          /\ UNCHANGED <<arrived, buffer>>
    /\ UNCHANGED <<alive, released, receiver, joined, messages, watchdog_vars>>

\* message_receiver() is read for the test and again for the call.
check_receiver(c) ==
    /\ listen[c] = "check"
    /\ listen' = [listen EXCEPT ![c] = IF receiver[c] THEN "deliver" ELSE "reset"]
    /\ UNCHANGED <<alive, released, receiver, joined, arrived, messages, buffer, watchdog_vars>>

OnDataReceived(c) ==
    /\ listen[c] = "deliver"
    /\ listen' = [listen EXCEPT ![c] = "reset"]
    /\ UNCHANGED <<alive, released, receiver, joined, arrived, messages, buffer, watchdog_vars>>

\* message.reset() and stop_processing_buffer() before the next receive.
stop_processing_buffer(c) ==
    /\ listen[c] = "reset"
    /\ buffer' = [buffer EXCEPT ![c] = FALSE]
    /\ listen' = [listen EXCEPT ![c] = "top"]
    /\ UNCHANGED <<alive, released, receiver, joined, arrived, messages, watchdog_vars>>

disable(c) ==
    /\ alive[c] /\ alive' = [alive EXCEPT ![c] = FALSE]
    /\ UNCHANGED <<released, receiver, joined, listen, arrived, messages, buffer, watchdog_vars>>

\* release(): shutdown of the socket, or close of the listener.
release(c) ==
    /\ ~alive[c] /\ ~released[c]
    /\ released' = [released EXCEPT ![c] = TRUE]
    /\ listen' = [listen EXCEPT ![c] = IF @ = "blocked" THEN "receive" ELSE @]
    /\ UNCHANGED <<alive, receiver, joined, arrived, messages, buffer, watchdog_vars>>

\* The transport joins the thread and destroys the channel (external), which
\* detaches the receiver.
destroy(c) ==
    /\ released[c] /\ listen[c] = "ended" /\ ~joined[c]
    /\ joined' = [joined EXCEPT ![c] = TRUE]
    /\ receiver' = [receiver EXCEPT ![c] = FALSE]
    /\ UNCHANGED <<alive, released, listen, arrived, messages, buffer, watchdog_vars>>

-----------------------------------------------------------------------------
(* The watchdog *)

\* running_tasks_mutex_ is held while a round runs.
tasks_free == watchdog # "run"

add_task(t) ==
    /\ tasks_free /\ tasks' = tasks \cup {t}
    /\ UNCHANGED <<channel_vars, wake_run, exit_thread, watchdog, to_run>>

\* Faulty variant: a task is taken out in the middle of a round.
remove_task_unlocked(t) ==
    /\ tasks' = tasks \ {t}
    /\ UNCHANGED <<channel_vars, wake_run, exit_thread, watchdog, to_run>>

remove_task(t) ==
    /\ tasks_free /\ tasks' = tasks \ {t}
    /\ UNCHANGED <<channel_vars, wake_run, exit_thread, watchdog, to_run>>

\* The destructor sets the flag, then wakes the thread up.
watchdog_exit ==
    /\ ~exit_thread /\ exit_thread' = TRUE
    /\ UNCHANGED <<channel_vars, tasks, wake_run, watchdog, to_run>>

wake_up ==
    /\ exit_thread /\ ~wake_run /\ watchdog # "ended"
    /\ wake_run' = TRUE
    /\ UNCHANGED <<channel_vars, tasks, exit_thread, watchdog, to_run>>

watchdog_top ==
    /\ watchdog = "top"
    /\ watchdog' = IF exit_thread THEN "ended" ELSE "wait"
    /\ UNCHANGED <<channel_vars, tasks, wake_run, exit_thread, to_run>>

\* wait_for ends with wake_run_ or with the period; then the round begins.
watchdog_round ==
    /\ watchdog = "wait"
    /\ wake_run' = FALSE /\ watchdog' = "run" /\ to_run' = tasks
    /\ UNCHANGED <<channel_vars, tasks, exit_thread>>

run_task ==
    /\ watchdog = "run"
    /\ IF to_run = {} THEN watchdog' = "top" /\ UNCHANGED to_run
       ELSE \E t \in to_run : to_run' = to_run \ {t} /\ UNCHANGED watchdog
    /\ UNCHANGED <<channel_vars, tasks, wake_run, exit_thread>>

ReceptionNext ==
    \/ \E c \in Channel :
         \/ message_arrives(c) \/ listen_top(c) \/ receive(c) \/ check_receiver(c)
         \/ OnDataReceived(c) \/ stop_processing_buffer(c)
         \/ disable(c) \/ release(c) \/ destroy(c)
    \/ \E t \in Task : add_task(t) \/ remove_task(t)
    \/ watchdog_exit \/ wake_up \/ watchdog_top \/ watchdog_round \/ run_task

-----------------------------------------------------------------------------
(* Properties *)

ReceptionTypeOK ==
    /\ \A f \in {alive, released, receiver, joined, buffer} : f \in [Channel -> BOOLEAN]
    /\ listen \in [Channel -> {"top", "receive", "blocked", "check", "deliver", "reset",
                               "ended"}]
    /\ arrived \in [Channel -> 0..MaxMessages] /\ messages \in [Channel -> 0..MaxMessages]
    /\ tasks \subseteq Task /\ to_run \subseteq Task /\ wake_run \in BOOLEAN
    /\ exit_thread \in BOOLEAN /\ watchdog \in {"top", "wait", "run", "ended"}

\* A message goes to a receiver that is still attached, although the pointer
\* is read twice; a thread does not stay in a receive of a released channel,
\* so that the join ends; no buffer is held in the next receive; and the
\* watchdog runs no task after remove_task has returned.
ReceptionSound ==
    /\ \A c \in Channel :
         /\ listen[c] = "deliver" => receiver[c]
         /\ released[c] => listen[c] # "blocked"
         /\ listen[c] \in {"receive", "blocked", "ended"} => ~buffer[c]
    /\ to_run \subseteq tasks
=============================================================================
