------------------------------ MODULE RtHandler ------------------------------
(***************************************************************************)
(* The RT path of CROS-RT: the message selector of rtl_rx() puts a frame   *)
(* on the queue of its port's priority, the monitor kmond raises krtd to   *)
(* the highest priority that is waiting and wakes it, and krtd passes up   *)
(* queue after queue in descending priority.  Both threads belong to       *)
(* rt_handler.ko.                                                          *)
(*                                                                         *)
(* The RT branch of the selector (r8169_main.c 4703-4719) is commented out *)
(* in this version of the driver, with the consumers rt_poll(), krtd and   *)
(* kmond left in place.  RtBranch = FALSE is the driver as compiled;       *)
(* RtBranch = TRUE has the branch put back as it is written there.         *)
(*                                                                         *)
(* A port is represented by its priority: table holds the priorities whose *)
(* port is in port_priority_table.  One CPU is online, so rtl_rx() and     *)
(* rt_poll(), which run_rt_handler calls with interrupts off, are one step *)
(* each.                                                                   *)
(***************************************************************************)
EXTENDS Kthread, Sequences, FiniteSets

CONSTANTS
    Prios,        \* the priorities that ports are registered with
    RtBranch,     \* the RT branch of the selector is compiled
    Preemptive,   \* a thread runs only when no thread of higher priority can
    Quiet,        \* no frame comes between hash_add and priority_in_use[..] = true
    Disciplined,  \* selector off before the module is removed, no failing init
    MaxFrames,    \* bound on the frames received
    MaxLoads      \* bound on the loads of the module

ASSUME PriosAssumption == Prios \subseteq 1 .. 99
ASSUME ModeAssumption ==
    /\ RtBranch \in BOOLEAN /\ Preemptive \in BOOLEAN
    /\ Quiet \in BOOLEAN /\ Disciplined \in BOOLEAN
ASSUME BoundAssumption == MaxFrames \in Nat /\ MaxLoads \in Nat

VARIABLES
    arrived,       \* number of frames received
    pq,            \* tp->pq: the queue of each priority
    served,        \* frames krtd passed up, by priority
    highest_pri,   \* the driver's highest_pri
    table,         \* priorities whose port is in port_priority_table
    in_use,        \* priorities with priority_in_use[p]
    krtd_on,       \* the switch of the selector
    krtd, kmond,   \* the two tasks
    kpc, mpc,      \* where they are in run_rt_handler and run_monitor
    cur_priority,  \* local variable of run_rt_handler
    msg_priority,  \* local variable of run_monitor
    rmod,          \* where rt_handler_init or rt_handler_exit is
    loads,         \* number of loads so far
    oops           \* the function that used a freed task, or "none"

frames   == <<arrived, pq, served>>
ports    == <<table, in_use>>
rthread  == <<krtd, kpc, cur_priority>>
monitor  == <<kmond, mpc, msg_priority>>
kmod     == <<rmod, loads>>
vars     == <<frames, highest_pri, ports, krtd_on, rthread, monitor, kmod, oops>>

(* The queues that rt_poll() can look at. *)
Levels == Prios \cup {1}

Exists(label) == label \notin {"none", "exited"}

Init ==
    /\ arrived = 0
    /\ pq = [p \in Levels |-> <<>>] /\ served = [p \in Levels |-> <<>>]
    /\ highest_pri = 1
    /\ table = {} /\ in_use = {}
    /\ krtd_on = FALSE
    /\ krtd = NoTask /\ kpc = "none" /\ cur_priority = 1
    /\ kmond = NoTask /\ mpc = "none" /\ msg_priority = 1
    /\ rmod = "out" /\ loads = 0
    /\ oops = "none"

------------------------------------------------------------------------------
(* The driver.                                                               *)

(* set_port_priority() puts the port in the table first ... *)
hash_add(p) ==
    /\ p \notin table
    /\ Quiet => table \subseteq in_use
    /\ table' = table \cup {p}
    /\ UNCHANGED <<frames, highest_pri, in_use, krtd_on, rthread, monitor, kmod, oops>>

(* ... and then marks the priority. *)
mark_in_use(p) ==
    /\ p \in table \ in_use
    /\ in_use' = in_use \cup {p}
    /\ UNCHANGED <<frames, highest_pri, table, krtd_on, rthread, monitor, kmod, oops>>

(* Definitions marked "Faulty" are wrong variants of the one that follows  *)
(* them; the properties are shown to fail on them.                         *)

(* Faulty: the frame goes to the wrong end. *)
priority_queue_push(queue, frame) == <<frame>> \o queue

priority_queue_insert(queue, frame) == Append(queue, frame)

(* Faulty: the comparison is left out. *)
highest_always(p) == p

(* if (highest_pri < tmp_pri) highest_pri = tmp_pri *)
highest_raised(p) == IF p > highest_pri THEN p ELSE highest_pri

(* The monitor is woken when the frame raises highest_pri, or equals it    *)
(* while both threads sleep; a lower frame waits for krtd to come down.    *)
WakesMonitor(p) ==
    /\ kmond.state # "TASK_RUNNING"
    /\ p > highest_pri \/ (p = highest_pri /\ krtd.state # "TASK_RUNNING")

(* The tests above read kmond->__state and, for an equal frame, krtd->__state. *)
ReadsFreedTask(p) ==
    \/ p >= highest_pri /\ ~Exists(mpc)
    \/ p = highest_pri /\ kmond.state # "TASK_RUNNING" /\ ~Exists(kpc)

(* A frame of a registered port, through the RT branch. *)
rtl_rx_rt(p) ==
    /\ RtBranch /\ krtd_on /\ p \in table
    /\ Quiet => table \subseteq in_use
    /\ arrived < MaxFrames
    /\ arrived' = arrived + 1
    /\ pq' = [pq EXCEPT ![p] = priority_queue_insert(@, arrived + 1)]
    /\ highest_pri' = highest_raised(p)
    /\ IF ReadsFreedTask(p)
       THEN oops' = "rtl_rx" /\ UNCHANGED kmond
       ELSE /\ kmond' = IF WakesMonitor(p) THEN wake_up_process(kmond) ELSE kmond
            /\ UNCHANGED oops
    /\ UNCHANGED <<served, ports, krtd_on, rthread, mpc, msg_priority, kmod>>

(* Every other frame goes straight to napi_gro_receive(). *)
rtl_rx_other ==
    /\ arrived < MaxFrames
    /\ arrived' = arrived + 1
    /\ UNCHANGED <<pq, served, highest_pri, ports, krtd_on, rthread, monitor, kmod, oops>>

(* A write to krtd_on, as in start.bash after the module is loaded. *)
krtd_on_set(val) ==
    /\ krtd_on # val
    /\ Disciplined /\ val => rmod = "live"
    /\ krtd_on' = val
    /\ UNCHANGED <<frames, highest_pri, ports, rthread, monitor, kmod, oops>>

(* Faulty: down by one whether in use or not; straight down to 1. *)
next_below(h) == h - 1
next_lowest(h) == 1

(* The next lower priority in use, or 1. *)
get_next_highest_priority(h) ==
    LET below == {i \in in_use : i < h}
    IN  IF below = {} THEN 1 ELSE CHOOSE i \in below : \A j \in below : j <= i

------------------------------------------------------------------------------
(* krtd: run_rt_handler().                                                   *)

(* With Preemptive, SCHED_FIFO keeps a thread off the CPU while the other   *)
(* one is runnable with a higher priority.                                  *)
Krtd(label) ==
    /\ kpc = label /\ Runnable(krtd)
    /\ Preemptive /\ Runnable(kmond) => kmond.rt_priority <= krtd.rt_priority

Kmond(label) ==
    /\ mpc = label /\ Runnable(kmond)
    /\ Preemptive /\ Runnable(krtd) => krtd.rt_priority <= kmond.rt_priority

krtd_begin ==
    /\ Krtd("start")
    /\ IF krtd.should_stop THEN kpc' = "exited" /\ krtd' = NoTask
                           ELSE kpc' = "poll" /\ UNCHANGED krtd
    /\ UNCHANGED <<frames, highest_pri, ports, krtd_on, cur_priority, monitor, kmod, oops>>

(* net_rt_handler_action() and rt_poll(): the whole queue of highest_pri is *)
(* passed up, and highest_pri comes down.                                   *)
rt_poll ==
    /\ Krtd("poll")
    /\ served' = [served EXCEPT ![highest_pri] = @ \o pq[highest_pri]]
    /\ pq' = [pq EXCEPT ![highest_pri] = <<>>]
    /\ highest_pri' = IF highest_pri < 2 THEN 1 ELSE get_next_highest_priority(highest_pri)
    /\ kpc' = "read"
    /\ UNCHANGED <<arrived, ports, krtd_on, krtd, cur_priority, monitor, kmod, oops>>

(* cur_priority = get_highest_prio() *)
krtd_get_highest_prio ==
    /\ Krtd("read")
    /\ cur_priority' = highest_pri
    /\ kpc' = "set"
    /\ UNCHANGED <<frames, highest_pri, ports, krtd_on, krtd, monitor, kmod, oops>>

(* sched_setscheduler(current, SCHED_FIFO, &param), with what was read then. *)
krtd_setscheduler ==
    /\ Krtd("set")
    /\ krtd' = sched_setscheduler(krtd, cur_priority)
    /\ kpc' = "test"
    /\ UNCHANGED <<frames, highest_pri, ports, krtd_on, cur_priority, monitor, kmod, oops>>

(* Faulty: krtd sleeps after every poll. *)
krtd_test_none ==
    /\ Krtd("test")
    /\ kpc' = "arm"
    /\ UNCHANGED <<frames, highest_pri, ports, krtd_on, krtd, cur_priority, monitor, kmod, oops>>

(* if (current->rt_priority < 2) *)
krtd_test ==
    /\ Krtd("test")
    /\ kpc' = IF krtd.rt_priority < 2 THEN "arm" ELSE "stop"
    /\ UNCHANGED <<frames, highest_pri, ports, krtd_on, krtd, cur_priority, monitor, kmod, oops>>

krtd_arm ==
    /\ Krtd("arm")
    /\ krtd' = set_current_state(krtd, "TASK_INTERRUPTIBLE")
    /\ kpc' = "sched"
    /\ UNCHANGED <<frames, highest_pri, ports, krtd_on, cur_priority, monitor, kmod, oops>>

krtd_schedule ==
    /\ Krtd("sched")
    /\ krtd' = schedule(krtd)
    /\ kpc' = "stop"
    /\ UNCHANGED <<frames, highest_pri, ports, krtd_on, cur_priority, monitor, kmod, oops>>

krtd_stop_test ==
    /\ Krtd("stop")
    /\ IF krtd.should_stop
       THEN kpc' = "exited" /\ krtd' = NoTask
       ELSE kpc' = "poll" /\ krtd' = set_current_state(krtd, "TASK_RUNNING")
    /\ UNCHANGED <<frames, highest_pri, ports, krtd_on, cur_priority, monitor, kmod, oops>>

------------------------------------------------------------------------------
(* kmond: run_monitor().                                                     *)

kmond_begin ==
    /\ Kmond("start")
    /\ IF kmond.should_stop THEN mpc' = "exited" /\ kmond' = NoTask
                            ELSE mpc' = "read" /\ UNCHANGED kmond
    /\ UNCHANGED <<frames, highest_pri, ports, krtd_on, rthread, msg_priority, kmod, oops>>

(* msg_priority = get_highest_prio() *)
kmond_get_highest_prio ==
    /\ Kmond("read")
    /\ msg_priority' = highest_pri
    /\ mpc' = "raise"
    /\ UNCHANGED <<frames, highest_pri, ports, krtd_on, rthread, kmond, kmod, oops>>

(* krtd is raised to msg_priority, never lowered; its task_struct is used *)
(* whether or not the thread still exists.                                *)
kmond_raise ==
    /\ Kmond("raise")
    /\ mpc' = "wake"
    /\ IF Exists(kpc)
       THEN krtd' = (IF msg_priority > krtd.rt_priority
                     THEN sched_setscheduler(krtd, msg_priority) ELSE krtd)
            /\ UNCHANGED oops
       ELSE oops' = "run_monitor" /\ UNCHANGED krtd
    /\ UNCHANGED <<frames, highest_pri, ports, krtd_on, kpc, cur_priority, kmond, msg_priority, kmod>>

(* if (krtd->__state != TASK_RUNNING) wake_up_process(krtd) *)
kmond_wake ==
    /\ Kmond("wake")
    /\ mpc' = "arm"
    /\ IF Exists(kpc)
       THEN krtd' = (IF krtd.state # "TASK_RUNNING" THEN wake_up_process(krtd) ELSE krtd)
            /\ UNCHANGED oops
       ELSE oops' = "run_monitor" /\ UNCHANGED krtd
    /\ UNCHANGED <<frames, highest_pri, ports, krtd_on, kpc, cur_priority, kmond, msg_priority, kmod>>

kmond_arm ==
    /\ Kmond("arm")
    /\ kmond' = set_current_state(kmond, "TASK_INTERRUPTIBLE")
    /\ mpc' = "sched"
    /\ UNCHANGED <<frames, highest_pri, ports, krtd_on, rthread, msg_priority, kmod, oops>>

kmond_schedule ==
    /\ Kmond("sched")
    /\ kmond' = schedule(kmond)
    /\ mpc' = "stop"
    /\ UNCHANGED <<frames, highest_pri, ports, krtd_on, rthread, msg_priority, kmod, oops>>

kmond_stop_test ==
    /\ Kmond("stop")
    /\ IF kmond.should_stop
       THEN mpc' = "exited" /\ kmond' = NoTask
       ELSE mpc' = "read" /\ kmond' = set_current_state(kmond, "TASK_RUNNING")
    /\ UNCHANGED <<frames, highest_pri, ports, krtd_on, rthread, msg_priority, kmod, oops>>

------------------------------------------------------------------------------
(* Loading and unloading rt_handler.ko, from a process of normal priority.   *)

AdminRuns ==
    Preemptive => /\ Runnable(krtd) => krtd.rt_priority = 0
                  /\ Runnable(kmond) => kmond.rt_priority = 0

(* The two kthread_run() of rt_handler_init(); an ERR_PTR passes for a thread. *)
create_krtd(created) ==
    /\ AdminRuns /\ rmod = "out" /\ loads < MaxLoads
    /\ Disciplined => created
    /\ loads' = loads + 1
    /\ rmod' = "krtd"
    /\ IF created THEN krtd' = kthread_run /\ kpc' = "start" /\ cur_priority' = 1 /\ UNCHANGED oops
                  ELSE oops' = "rt_handler_init" /\ UNCHANGED rthread
    /\ UNCHANGED <<frames, highest_pri, ports, krtd_on, monitor>>

create_kmond(created) ==
    /\ AdminRuns /\ rmod = "krtd"
    /\ Disciplined => created
    /\ rmod' = "kmond"
    /\ IF created THEN kmond' = kthread_run /\ mpc' = "start" /\ UNCHANGED <<msg_priority, oops>>
                  ELSE oops' = "rt_handler_init" /\ UNCHANGED monitor
    /\ UNCHANGED <<frames, highest_pri, ports, krtd_on, rthread, loads>>

(* Faulty: kmond keeps its normal priority. *)
prioritise_nothing(ok) ==
    /\ AdminRuns /\ rmod = "kmond"
    /\ rmod' = "live"
    /\ UNCHANGED <<frames, highest_pri, ports, krtd_on, rthread, monitor, loads, oops>>

(* kmond gets priority 99.  On failure both threads are stopped, kmond     *)
(* first, and the module stays loaded without them.                        *)
prioritise_kmond(ok) ==
    /\ AdminRuns /\ rmod = "kmond"
    /\ Disciplined => ok
    /\ rmod' = IF ok THEN "live" ELSE "err_kmond"
    /\ kmond' = IF ok THEN sched_setscheduler(kmond, 99) ELSE kthread_stop(kmond)
    /\ UNCHANGED <<frames, highest_pri, ports, krtd_on, rthread, mpc, msg_priority, loads, oops>>

init_err_krtd ==
    /\ AdminRuns /\ rmod = "err_kmond" /\ mpc = "exited"
    /\ rmod' = "err_krtd"
    /\ krtd' = kthread_stop(krtd)
    /\ UNCHANGED <<frames, highest_pri, ports, krtd_on, kpc, cur_priority, monitor, loads, oops>>

init_err_return ==
    /\ AdminRuns /\ rmod = "err_krtd" /\ kpc = "exited"
    /\ rmod' = "live"
    /\ UNCHANGED <<frames, highest_pri, ports, krtd_on, rthread, monitor, loads, oops>>

(* rt_handler_exit() stops krtd, which kmond refers to, before kmond. *)
exit_stop_krtd ==
    /\ AdminRuns /\ rmod = "live"
    /\ Disciplined => ~krtd_on
    /\ rmod' = "stop_krtd"
    /\ IF Exists(kpc) THEN krtd' = kthread_stop(krtd) /\ UNCHANGED oops
                      ELSE oops' = "rt_handler_exit" /\ UNCHANGED krtd
    /\ UNCHANGED <<frames, highest_pri, ports, krtd_on, kpc, cur_priority, monitor, loads>>

exit_stop_kmond ==
    /\ AdminRuns /\ rmod = "stop_krtd" /\ kpc = "exited"
    /\ rmod' = "stop_kmond"
    /\ kmond' = kthread_stop(kmond)
    /\ UNCHANGED <<frames, highest_pri, ports, krtd_on, rthread, mpc, msg_priority, loads, oops>>

exit_return ==
    /\ AdminRuns /\ rmod = "stop_kmond" /\ mpc = "exited"
    /\ rmod' = "out" /\ kpc' = "none" /\ mpc' = "none"
    /\ UNCHANGED <<frames, highest_pri, ports, krtd_on, krtd, cur_priority, kmond, msg_priority,
                   loads, oops>>

------------------------------------------------------------------------------

Driver ==
    \/ \E p \in Prios : hash_add(p) \/ mark_in_use(p) \/ rtl_rx_rt(p)
    \/ rtl_rx_other

Administrator ==
    \/ \E b \in BOOLEAN : krtd_on_set(b) \/ create_krtd(b) \/ create_kmond(b) \/ prioritise_kmond(b)
    \/ init_err_krtd \/ init_err_return
    \/ exit_stop_krtd \/ exit_stop_kmond \/ exit_return

RtThread ==
    \/ krtd_begin \/ rt_poll \/ krtd_get_highest_prio \/ krtd_setscheduler
    \/ krtd_test \/ krtd_arm \/ krtd_schedule \/ krtd_stop_test

Monitor ==
    \/ kmond_begin \/ kmond_get_highest_prio \/ kmond_raise \/ kmond_wake
    \/ kmond_arm \/ kmond_schedule \/ kmond_stop_test

(* Behaviour after the use of a freed task is not described. *)
Alive == oops = "none"

Next == Alive /\ (Driver \/ Administrator \/ RtThread \/ Monitor)

(* A runnable thread of the highest priority gets the processor. *)
Fairness == WF_vars(Alive /\ RtThread) /\ WF_vars(Alive /\ Monitor)

Spec == Init /\ [][Next]_vars
FairSpec == Spec /\ Fairness

------------------------------------------------------------------------------

KrtdLabels == {"none", "start", "poll", "read", "set", "test", "arm", "sched", "stop", "exited"}
KmondLabels == {"none", "start", "read", "raise", "wake", "arm", "sched", "stop", "exited"}

TypeOK ==
    /\ arrived \in Nat
    /\ pq \in [Levels -> Seq(1 .. arrived)] /\ served \in [Levels -> Seq(1 .. arrived)]
    /\ highest_pri \in Levels /\ cur_priority \in Levels /\ msg_priority \in Levels
    /\ table \in SUBSET Prios /\ in_use \in SUBSET table
    /\ krtd_on \in BOOLEAN
    /\ krtd \in Tasks /\ kpc \in KrtdLabels
    /\ kmond \in Tasks /\ mpc \in KmondLabels
    /\ rmod \in {"out", "krtd", "kmond", "live", "err_kmond", "err_krtd", "stop_krtd", "stop_kmond"}
    /\ loads \in Nat
    /\ oops \in {"none", "rtl_rx", "run_monitor", "rt_handler_init", "rt_handler_exit"}

(* The queue of each priority implements the in-order channel: a wakeup, a *)
(* change of highest_pri or an unloading neither loses, repeats nor        *)
(* reorders the frames of one priority.                                    *)
RtChannel(p) == INSTANCE FifoChannel WITH pending <- pq[p], out <- served[p]
RtFifo ==
    /\ \A p \in Levels : RtChannel(p)!Init
    /\ [][\A p \in Levels : [RtChannel(p)!Next]_(RtChannel(p)!chan)]_vars

(* No frame waits above highest_pri, so that the next poll does not pass   *)
(* it over, when no frame comes in the middle of a registration.           *)
NoneAbove == Quiet => \A p \in Levels : p > highest_pri => pq[p] = <<>>

(* krtd never passes up a frame while one of a higher priority waits. *)
NoInversion ==
    [][\A p, q \in Levels : Quiet /\ p < q /\ pq[q] # <<>> => served'[p] = served[p]]_vars

(* Once krtd is back from schedule(), it comes down through every marked   *)
(* priority from 2 on: what waits there is passed up before it sleeps      *)
(* again, whatever arrives and whatever kmond does meanwhile.              *)
DescentServes ==
    \A p \in Prios \ {1} :
        (Krtd("stop") /\ pq[p] # <<>> /\ p \in in_use /\ p <= highest_pri)
            ~> (pq[p] = <<>> \/ ~Exists(kpc) \/ ~Alive)

(* rt_handler_exit() and the error path of rt_handler_init() stop krtd     *)
(* while kmond may still run and refer to it.  With kmond at priority 99   *)
(* under SCHED_FIFO it never finds krtd gone, as long as no frame wakes it *)
(* in between: the RT branch is not compiled, or the selector is off.      *)
MonitorSafe == Preemptive /\ (~RtBranch \/ Disciplined) => oops # "run_monitor"

==============================================================================
