---------------------------- MODULE KthreadProofs ----------------------------
(***************************************************************************)
(* What the scheduler calls of Kthread return, field by field.  The proofs *)
(* about the threads cite these lemmas and leave the records folded.       *)
(***************************************************************************)
EXTENDS Kthread, TLAPS

(* A woken task is runnable if it slept and unchanged if it did not. *)
LEMMA WakeUp ==
    ASSUME NEW t \in Tasks
    PROVE  /\ wake_up_process(t) \in Tasks
           /\ wake_up_process(t).should_stop = t.should_stop
           /\ wake_up_process(t).rt_priority = t.rt_priority
           /\ t.state \in TASK_NORMAL =>
                wake_up_process(t).state = "TASK_RUNNING" /\ wake_up_process(t).on_rq = TRUE
           /\ t.state \notin TASK_NORMAL => wake_up_process(t) = t
<1>1. CASE t.state \in TASK_NORMAL
  <2> DEFINE u == [t EXCEPT !.state = "TASK_RUNNING", !.on_rq = TRUE]
  <2>1. wake_up_process(t) = u
    BY <1>1 DEF wake_up_process
  <2>2. u \in Tasks /\ u.should_stop = t.should_stop /\ u.rt_priority = t.rt_priority
        /\ u.state = "TASK_RUNNING" /\ u.on_rq = TRUE
    BY DEF Tasks, TaskStates
  <2> QED BY <1>1, <2>1, <2>2
<1>2. CASE t.state \notin TASK_NORMAL
  BY <1>2 DEF wake_up_process
<1> QED BY <1>1, <1>2

LEMMA SetState ==
    ASSUME NEW t \in Tasks, NEW s \in TaskStates
    PROVE  /\ set_current_state(t, s) \in Tasks
           /\ set_current_state(t, s).state = s
           /\ set_current_state(t, s).on_rq = t.on_rq
           /\ set_current_state(t, s).should_stop = t.should_stop
           /\ set_current_state(t, s).rt_priority = t.rt_priority
BY DEF set_current_state, Tasks, TaskStates

(* schedule() leaves a task on the run queue exactly when it is running. *)
LEMMA Schedule ==
    ASSUME NEW t \in Tasks
    PROVE  /\ schedule(t) \in Tasks
           /\ schedule(t).state = t.state
           /\ schedule(t).on_rq = (t.state = "TASK_RUNNING")
           /\ schedule(t).should_stop = t.should_stop
           /\ schedule(t).rt_priority = t.rt_priority
<1> DEFINE b == (t.state = "TASK_RUNNING")
<1>1. b \in BOOLEAN
  OBVIOUS
<1>2. schedule(t) = [t EXCEPT !.on_rq = b]
  BY DEF schedule
<1> HIDE DEF b
<1>3. /\ schedule(t) \in Tasks /\ schedule(t).state = t.state /\ schedule(t).on_rq = b
      /\ schedule(t).should_stop = t.should_stop /\ schedule(t).rt_priority = t.rt_priority
  BY <1>1, <1>2 DEF Tasks, TaskStates
<1> QED BY <1>3 DEF b

LEMMA SetScheduler ==
    ASSUME NEW t \in Tasks, NEW prio \in Nat
    PROVE  /\ sched_setscheduler(t, prio) \in Tasks
           /\ sched_setscheduler(t, prio).state = t.state
           /\ sched_setscheduler(t, prio).on_rq = t.on_rq
           /\ sched_setscheduler(t, prio).should_stop = t.should_stop
           /\ sched_setscheduler(t, prio).rt_priority =
                IF prio \in 1 .. 99 THEN prio ELSE t.rt_priority
<1>1. CASE prio \in 1 .. 99
  BY <1>1 DEF sched_setscheduler, Tasks, TaskStates, MAX_RT_PRIO
<1>2. CASE prio \notin 1 .. 99
  <2>1. sched_setscheduler(t, prio) = t
    BY <1>2 DEF sched_setscheduler, MAX_RT_PRIO
  <2> QED BY <1>2, <2>1
<1> QED BY <1>1, <1>2

(* A stopped thread has the bit and, if it slept, is runnable. *)
LEMMA KthreadStop ==
    ASSUME NEW t \in Tasks
    PROVE  /\ kthread_stop(t) \in Tasks
           /\ kthread_stop(t).should_stop = TRUE
           /\ kthread_stop(t).rt_priority = t.rt_priority
           /\ t.state \in TASK_NORMAL =>
                kthread_stop(t).state = "TASK_RUNNING" /\ kthread_stop(t).on_rq = TRUE
           /\ t.state \notin TASK_NORMAL =>
                kthread_stop(t).state = t.state /\ kthread_stop(t).on_rq = t.on_rq
<1> DEFINE u == [t EXCEPT !.should_stop = TRUE]
<1>1. /\ u \in Tasks /\ u.state = t.state /\ u.on_rq = t.on_rq
      /\ u.should_stop = TRUE /\ u.rt_priority = t.rt_priority
  BY DEF Tasks, TaskStates
<1>2. kthread_stop(t) = wake_up_process(u)
  BY DEF kthread_stop
<1> HIDE DEF u
<1> QED BY <1>1, <1>2, WakeUp

LEMMA NewTask ==
    /\ kthread_run \in Tasks /\ NoTask \in Tasks
    /\ kthread_run.state = "TASK_RUNNING" /\ kthread_run.on_rq = TRUE
    /\ kthread_run.should_stop = FALSE
BY DEF kthread_run, NoTask, Tasks, TaskStates, MAX_RT_PRIO

==============================================================================
