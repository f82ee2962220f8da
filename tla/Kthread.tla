------------------------------- MODULE Kthread -------------------------------
(***************************************************************************)
(* What the CROS-RT kernel threads (krtd, kmond, knonrtd) use of the Linux *)
(* scheduler: a task is a record, the calls are functions from the old     *)
(* task to the new one.                                                    *)
(*                                                                         *)
(*   state        task_struct::__state                                     *)
(*   on_rq        the task is on a run queue, so that it can execute       *)
(*   should_stop  the bit read by kthread_should_stop()                    *)
(*   rt_priority  task_struct::rt_priority, 0 for a SCHED_NORMAL task      *)
(***************************************************************************)
EXTENDS Naturals

TaskStates == {"TASK_RUNNING", "TASK_INTERRUPTIBLE", "TASK_UNINTERRUPTIBLE", "TASK_DEAD"}

(* The mask wake_up_process() hands to try_to_wake_up(). *)
TASK_NORMAL == {"TASK_INTERRUPTIBLE", "TASK_UNINTERRUPTIBLE"}

MAX_RT_PRIO == 100

Tasks == [state       : TaskStates,
          on_rq       : BOOLEAN,
          should_stop : BOOLEAN,
          rt_priority : 0 .. MAX_RT_PRIO - 1]

(* A thread executes its next instruction only while it is on a run queue. *)
Runnable(t) == t.on_rq

(* kthread_run(): a new SCHED_NORMAL thread, created and woken. *)
kthread_run == [state |-> "TASK_RUNNING", on_rq |-> TRUE,
                should_stop |-> FALSE, rt_priority |-> 0]

(* The slot of a thread that does not exist: never created, or exited. *)
NoTask == [state |-> "TASK_DEAD", on_rq |-> FALSE,
           should_stop |-> FALSE, rt_priority |-> 0]

set_current_state(t, s) == [t EXCEPT !.state = s]

(* Faulty: the state is written and the task is not put on a run queue. *)
wake_up_state_only(t) == [t EXCEPT !.state = "TASK_RUNNING"]

(* A task that is TASK_RUNNING stays as it is: waking it leaves no trace. *)
wake_up_process(t) ==
    IF t.state \in TASK_NORMAL
    THEN [t EXCEPT !.state = "TASK_RUNNING", !.on_rq = TRUE]
    ELSE t

(* A voluntary schedule(): the task leaves the run queue unless it is      *)
(* TASK_RUNNING.  A preempted task is not dequeued, whatever its state, so *)
(* preemption is just the interleaving of the other processes' steps.      *)
schedule(t) == [t EXCEPT !.on_rq = (t.state = "TASK_RUNNING")]

(* sched_setscheduler(t, SCHED_FIFO, prio): -EINVAL outside 1..99. *)
sched_setscheduler(t, prio) ==
    IF prio \in 1 .. MAX_RT_PRIO - 1 THEN [t EXCEPT !.rt_priority = prio] ELSE t

(* Faulty: the thread is woken and not told to stop. *)
kthread_wake_only(t) == wake_up_process(t)

(* The first half of kthread_stop(): raise the bit and wake the thread. *)
(* The caller then waits for the thread to exit.                        *)
kthread_stop(t) == wake_up_process([t EXCEPT !.should_stop = TRUE])

==============================================================================
