---------------------------- MODULE SchedPolicy ----------------------------
(***************************************************************************)
(* Priorities on one CPU (kernel/sched/core.c): sched_setscheduler, with   *)
(* which the CROS-RT handler threads are raised and lowered, setparam and  *)
(* nice, against priority inheritance, wakeups and schedule().             *)
(*                                                                         *)
(* SCHED_NORMAL and SCHED_FIFO are modelled.  The run queue has a list for *)
(* each real-time priority; order within the fair class is not modelled.   *)
(* The mutexes with their waiters (kernel/locking) and the class methods   *)
(* (rt.c, fair.c) are external.                                            *)
(***************************************************************************)
EXTENDS Integers, Sequences, SequencesExt

CONSTANTS SpTask,       \* the tasks
          SpRtPrio,     \* MAX_RT_PRIO - 1
          SpNice,       \* nice values, from 0
          MaxSpCalls    \* bound: calls that change a priority

ASSUME SchedPolicyAssumption ==
    /\ SpRtPrio \in Nat \ {0} /\ SpNice \subseteq Nat /\ 0 \in SpNice
    /\ MaxSpCalls \in Nat /\ "none" \notin SpTask

VARIABLES sp_task,     \* policy, nice, rt_priority, prio, and on_rq
          sp_queue,    \* the lists of the rt run queue, by prio
          sp_curr,     \* rq->curr
          sp_resched,  \* TIF_NEED_RESCHED
          sp_wait,     \* the owner of the mutex each task is blocked on
          sp_wprio,    \* the priority its waiter has in the owner's tree
          sp_top,      \* pi_top_task
          sp_adjust,   \* tasks for which a PI chain walk is under way
          sp_call,     \* a call between its checks and the run queue lock
          sp_left      \* calls the bound still allows
schedpolicy_vars == <<sp_task, sp_queue, sp_curr, sp_resched, sp_wait, sp_wprio, sp_top, sp_adjust,
                      sp_call, sp_left>>
pi_vars == <<sp_wait, sp_wprio, sp_top, sp_adjust>>

NoTask == "none"
NoSpCall == [t |-> NoTask, policy |-> "SCHED_NORMAL", prio |-> 0, nice |-> 0]
Policy == {"SCHED_NORMAL", "SCHED_FIFO"}
DEFAULT_PRIO == SpRtPrio + 1
rt_policy(policy) == policy = "SCHED_FIFO"
rt_prio(prio) == prio < SpRtPrio + 1
Less(a, b) == IF a < b THEN a ELSE b

normal_prio(policy, priority, nice) == IF rt_policy(policy) THEN SpRtPrio - priority ELSE DEFAULT_PRIO + nice
Normal(t) == normal_prio(sp_task[t].policy, sp_task[t].priority, sp_task[t].nice)

SchedPolicyInit ==
    /\ \E r \in [SpTask -> 0 .. SpRtPrio] :
          sp_task = [t \in SpTask |->
             LET policy == IF r[t] = 0 THEN "SCHED_NORMAL" ELSE "SCHED_FIFO" IN
             [policy |-> policy, priority |-> r[t], nice |-> 0, prio |-> normal_prio(policy, r[t], 0),
              on_rq |-> FALSE]]
    /\ sp_queue = [p \in 0 .. SpRtPrio |-> <<>>]
    /\ sp_curr = NoTask
    /\ sp_resched = FALSE
    /\ sp_wait = [t \in SpTask |-> NoTask]
    /\ sp_wprio = [t \in SpTask |-> 0]
    /\ sp_top = [t \in SpTask |-> NoTask]
    /\ sp_adjust = {}
    /\ sp_call = NoSpCall
    /\ sp_left = MaxSpCalls

(* One of the calls that the bound allows. *)
SpSpend == sp_left > 0 /\ sp_left' = sp_left - 1

-----------------------------------------------------------------------------
(* dequeue_task and enqueue_task of the rt class; a fair task is on no list.*)
Unlist(q, t, prio) ==
    IF rt_prio(prio) THEN [q EXCEPT ![prio] = RemoveFirst(@, t)] ELSE q
List(q, t, prio, head) ==
    IF rt_prio(prio) THEN [q EXCEPT ![prio] = IF head THEN <<t>> \o @ ELSE Append(@, t)] ELSE q

(* A change of prio: a queued task that gets a lower priority goes to the   *)
(* head of its new list, one that gets a higher one to the tail; one whose  *)
(* prio stays keeps its place.                                              *)
Requeue(q, t, old, new) ==
    IF ~sp_task[t].on_rq \/ old = new THEN q ELSE List(Unlist(q, t, old), t, new, old < new)

(* Whether a queued task has a higher real-time priority than prio. *)
HigherQueued(q, prio) == \E p \in 0 .. SpRtPrio : q[p] # <<>> /\ p < prio

(* check_class_changed, with switched_to and prio_changed of the classes:   *)
(* does the change of t from old to new cause a reschedule?                 *)
check_class_changed(q, t, old, new) ==
    /\ sp_task[t].on_rq /\ old # new
    /\ IF sp_curr = t THEN HigherQueued(q, new) \/ (rt_prio(old) /\ ~rt_prio(new))
       ELSE sp_curr = NoTask \/ new < sp_task[sp_curr].prio

(* Faulty: the donor is not asked. *)
rt_effective_prio_own(top, prio) == prio

rt_effective_prio(top, prio) == IF top = NoTask THEN prio ELSE Less(prio, sp_task[top].prio)

-----------------------------------------------------------------------------
__setscheduler_params(task, pol, prio, nice) ==
    [policy |-> pol, priority |-> prio, nice |-> IF rt_policy(pol) THEN task.nice ELSE nice,
     prio |-> task.prio, on_rq |-> task.on_rq]

(* __sched_setscheduler under the lock: the parameters are stored, the task *)
(* is queued anew if its effective priority changes, and the PI chain is    *)
(* walked afterwards.  pol is the policy the task gets.                     *)
__sched_setscheduler(t, pol, prio, nice) ==
    LET old == sp_task[t].prio
        new == rt_effective_prio(sp_top[t], normal_prio(pol, prio, nice))
        q == Requeue(sp_queue, t, old, new) IN
    /\ sp_task' = [sp_task EXCEPT ![t] = [__setscheduler_params(@, pol, prio, nice) EXCEPT !.prio = new]]
    /\ sp_queue' = q
    /\ sp_resched' = (sp_resched \/ check_class_changed(q, t, old, new))
    /\ sp_adjust' = IF sp_wait[t] # NoTask THEN sp_adjust \cup {t} ELSE sp_adjust
    /\ UNCHANGED <<sp_curr, sp_wait, sp_wprio, sp_top>>

(* sched_setscheduler, sched_setattr, sched_set_fifo and others: the checks *)
(* of a call that gives the policy need not look at the task.               *)
sched_setscheduler(t, policy, prio) ==
    /\ rt_policy(policy) = (prio # 0) /\ SpSpend
    /\ __sched_setscheduler(t, policy, prio, sp_task[t].nice)
    /\ UNCHANGED sp_call

(* sched_setparam keeps the policy: the priority is checked against the     *)
(* policy that the task has before the lock is taken ...                    *)
setparam_check(t, prio) ==
    /\ sp_call = NoSpCall /\ SpSpend
    /\ rt_policy(sp_task[t].policy) = (prio # 0)
    /\ sp_call' = [t |-> t, policy |-> sp_task[t].policy, prio |-> prio, nice |-> sp_task[t].nice]
    /\ UNCHANGED <<sp_task, sp_queue, sp_curr, sp_resched, pi_vars>>

(* Faulty: the policy is not looked at again under the lock. *)
policy_stale_never == FALSE

policy_stale == sp_call.policy # sp_task[sp_call.t].policy

(* ... and if the policy has changed by then, the checks are made again.    *)
setparam_recheck ==
    LET c == sp_call  pol == sp_task[c.t].policy IN
    /\ c # NoSpCall /\ policy_stale
    /\ sp_call' = IF rt_policy(pol) = (c.prio # 0) THEN [c EXCEPT !.policy = pol] ELSE NoSpCall
    /\ UNCHANGED <<sp_task, sp_queue, sp_curr, sp_resched, pi_vars, sp_left>>

sched_setparam ==
    /\ sp_call # NoSpCall /\ ~policy_stale
    /\ __sched_setscheduler(sp_call.t, sp_task[sp_call.t].policy, sp_call.prio, sp_call.nice)
    /\ sp_call' = NoSpCall
    /\ UNCHANGED sp_left

(* set_user_nice: a real-time policy only remembers the value, and a boost  *)
(* to real-time stays.                                                      *)
effective_prio(t, nice) ==
    IF rt_prio(sp_task[t].prio) THEN sp_task[t].prio ELSE normal_prio(sp_task[t].policy, 0, nice)

set_user_nice(t, nice) ==
    /\ nice # sp_task[t].nice /\ SpSpend
    /\ LET prio == IF rt_policy(sp_task[t].policy) THEN sp_task[t].prio ELSE effective_prio(t, nice) IN
       sp_task' = [sp_task EXCEPT ![t] = [@ EXCEPT !.nice = nice, !.prio = prio]]
    /\ UNCHANGED <<sp_queue, sp_curr, sp_resched, pi_vars, sp_call>>

-----------------------------------------------------------------------------
(* rt_mutex_setprio(t, top), in a state with waiters wait and wprio: the    *)
(* record of what changes.  top is the first waiter of the mutex t owns.    *)
Waiters(wait, t) == {w \in SpTask : wait[w] = t}
TopWaiter(wait, wprio, t) ==
    IF Waiters(wait, t) = {} THEN NoTask
    ELSE CHOOSE w \in Waiters(wait, t) : \A u \in Waiters(wait, t) : wprio[w] <= wprio[u]

rt_mutex_setprio(q, t, top) ==
    LET old == sp_task[t].prio  new == rt_effective_prio(top, Normal(t))
        r == Requeue(q, t, old, new) IN
    [prio |-> new, queue |-> r, resched |-> check_class_changed(r, t, old, new)]

waiter_prio(t) == IF rt_prio(sp_task[t].prio) THEN sp_task[t].prio ELSE DEFAULT_PRIO

(* The current task blocks on a mutex of o, and o is boosted; if o is       *)
(* blocked in turn the walk goes on.                                        *)
OwnersOf(t) == {t} \cup {sp_wait[t]} \cup
            {sp_wait[u] : u \in {v \in SpTask : v = sp_wait[t]}}
rt_mutex_lock(o) ==
    LET w == sp_curr
        wait == [sp_wait EXCEPT ![w] = o]
        wprio == [sp_wprio EXCEPT ![w] = waiter_prio(w)]
        top == TopWaiter(wait, wprio, o)
        s == rt_mutex_setprio(sp_queue, o, top) IN
    /\ w # NoTask /\ sp_wait[w] = NoTask /\ w \notin OwnersOf(o)
    /\ sp_wait' = wait /\ sp_wprio' = wprio
    /\ sp_top' = [sp_top EXCEPT ![o] = top]
    /\ sp_task' = [sp_task EXCEPT ![o].prio = s.prio]
    /\ sp_queue' = s.queue /\ sp_resched' = (sp_resched \/ s.resched)
    /\ sp_adjust' = IF s.prio # sp_task[o].prio /\ sp_wait[o] # NoTask THEN sp_adjust \cup {o} ELSE sp_adjust
    /\ UNCHANGED <<sp_curr, sp_call, sp_left>>

(* rt_mutex_adjust_pi and a step of the chain walk: the waiter of t gets    *)
(* the priority of t, and the owner that of its first waiter.               *)
rt_mutex_adjust_pi(t) ==
    LET o == sp_wait[t]
        wprio == [sp_wprio EXCEPT ![t] = waiter_prio(t)]
        top == TopWaiter(sp_wait, wprio, o)
        s == rt_mutex_setprio(sp_queue, o, top) IN
    /\ t \in sp_adjust
    /\ IF o = NoTask
       THEN sp_adjust' = sp_adjust \ {t} /\ UNCHANGED <<sp_task, sp_queue, sp_resched, sp_wprio, sp_top>>
       ELSE /\ sp_wprio' = wprio
            /\ sp_top' = [sp_top EXCEPT ![o] = top]
            /\ sp_task' = [sp_task EXCEPT ![o].prio = s.prio]
            /\ sp_queue' = s.queue /\ sp_resched' = (sp_resched \/ s.resched)
            /\ sp_adjust' = (sp_adjust \ {t})
                  \cup (IF s.prio # sp_task[o].prio /\ sp_wait[o] # NoTask THEN {o} ELSE {})
    /\ UNCHANGED <<sp_curr, sp_wait, sp_call, sp_left>>

(* The current task gives up its mutex: it loses its boost, and the first   *)
(* waiter, woken, gets the mutex with the waiters that remain.              *)
rt_mutex_unlock ==
    LET o == sp_curr  w == sp_top[o]
        wait == [u \in SpTask |-> IF u = w THEN NoTask ELSE IF sp_wait[u] = o THEN w ELSE sp_wait[u]]
        top == TopWaiter(wait, sp_wprio, w)
        s == rt_mutex_setprio(sp_queue, o, NoTask)
        new == rt_effective_prio(top, Normal(w)) IN
    /\ o # NoTask /\ sp_wait[o] = NoTask /\ sp_top[o] # NoTask /\ ~sp_task[w].on_rq
    /\ sp_wait' = wait /\ sp_wprio' = [sp_wprio EXCEPT ![w] = 0]
    /\ sp_top' = [sp_top EXCEPT ![o] = NoTask, ![w] = top]
    /\ sp_task' = [sp_task EXCEPT ![o].prio = s.prio, ![w].prio = new, ![w].on_rq = TRUE]
    /\ sp_queue' = List(s.queue, w, new, FALSE)
    /\ sp_resched' = (sp_resched \/ s.resched \/ new < s.prio)
    /\ UNCHANGED <<sp_curr, sp_adjust, sp_call, sp_left>>

-----------------------------------------------------------------------------
(* schedule(): a task that is blocked or goes to sleep leaves the queue;    *)
(* the first of the highest list runs, else a fair task, else idle.         *)
pick_highest(q, off) ==
    LET rt == {p \in 0 .. SpRtPrio : q[p] # <<>>}
        fair == {t \in SpTask \ off : sp_task[t].on_rq /\ ~rt_prio(sp_task[t].prio)} IN
    IF rt # {} THEN {Head(q[CHOOSE p \in rt : \A r \in rt : p <= r])}
    ELSE IF fair # {} THEN fair ELSE {NoTask}

schedule(sleeps) ==
    LET off == IF sp_curr # NoTask /\ (sleeps \/ sp_wait[sp_curr] # NoTask) THEN {sp_curr} ELSE {}
        q == IF off = {} THEN sp_queue ELSE Unlist(sp_queue, sp_curr, sp_task[sp_curr].prio) IN
    /\ sp_resched \/ off # {}
    /\ sp_task' = [t \in SpTask |-> IF t \in off THEN [sp_task[t] EXCEPT !.on_rq = FALSE] ELSE sp_task[t]]
    /\ sp_queue' = q
    /\ \E t \in pick_highest(q, off) : sp_curr' = t
    /\ sp_resched' = FALSE
    /\ UNCHANGED <<pi_vars, sp_call, sp_left>>

(* A task that sleeps for another reason than a mutex is woken. *)
ttwu_do_activate(t) ==
    /\ ~sp_task[t].on_rq /\ sp_wait[t] = NoTask
    /\ sp_task' = [sp_task EXCEPT ![t].on_rq = TRUE]
    /\ sp_queue' = List(sp_queue, t, sp_task[t].prio, FALSE)
    /\ sp_resched' = (sp_resched \/ sp_curr = NoTask \/ sp_task[t].prio < sp_task[sp_curr].prio)
    /\ UNCHANGED <<sp_curr, pi_vars, sp_call, sp_left>>

SchedPolicyNext ==
    \/ \E t \in SpTask, r \in 0 .. SpRtPrio : setparam_check(t, r) \/ \E p \in Policy : sched_setscheduler(t, p, r)
    \/ setparam_recheck \/ sched_setparam
    \/ \E t \in SpTask, n \in SpNice : set_user_nice(t, n)
    \/ \E o \in SpTask : rt_mutex_lock(o)
    \/ \E t \in SpTask : rt_mutex_adjust_pi(t) \/ ttwu_do_activate(t)
    \/ rt_mutex_unlock
    \/ \E sleeps \in BOOLEAN : schedule(sleeps)

-----------------------------------------------------------------------------

SchedPolicyTypeOK ==
    /\ sp_task \in [SpTask -> [policy : Policy, priority : 0 .. SpRtPrio, nice : SpNice,
                               prio : Nat, on_rq : BOOLEAN]]
    /\ sp_curr \in SpTask \cup {NoTask}
    /\ sp_wait \in [SpTask -> SpTask \cup {NoTask}]
    /\ sp_top \in [SpTask -> SpTask \cup {NoTask}]
    /\ sp_adjust \subseteq SpTask

(* A task has a real-time priority exactly under a real-time policy, even   *)
(* when its policy changes between the checks of a call and its effect;     *)
(* each runnable real-time task is on the list of its priority, once; the   *)
(* task that runs has the highest priority or is about to be preempted; and *)
(* when no chain walk is under way, a task runs at the higher of its own    *)
(* priority and that of the real-time tasks that wait for it, and loses the *)
(* boost with the last of them.                                             *)
SchedPolicySound ==
    /\ \A t \in SpTask : rt_policy(sp_task[t].policy) <=> sp_task[t].priority # 0
    /\ \A p \in 0 .. SpRtPrio :
          /\ \A i, j \in DOMAIN sp_queue[p] : i # j => sp_queue[p][i] # sp_queue[p][j]
          /\ ToSet(sp_queue[p]) = {t \in SpTask : sp_task[t].on_rq /\ sp_task[t].prio = p}
    /\ \A t \in SpTask :
          (sp_task[t].on_rq /\ rt_prio(sp_task[t].prio) /\ ~sp_resched)
             => sp_curr # NoTask /\ sp_task[sp_curr].prio <= sp_task[t].prio
    /\ sp_adjust = {} =>
          \A t \in SpTask :
             LET rt == {w \in Waiters(sp_wait, t) : rt_prio(sp_task[w].prio)} IN
             IF rt = {} THEN rt_prio(sp_task[t].prio) => sp_task[t].prio = Normal(t)
             ELSE /\ sp_task[t].prio <= Normal(t)
                  /\ \A w \in rt : sp_task[t].prio <= sp_task[w].prio
                  /\ sp_task[t].prio = Normal(t) \/ \E w \in rt : sp_task[t].prio = sp_task[w].prio
=============================================================================
