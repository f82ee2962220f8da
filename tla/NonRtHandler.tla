---------------------------- MODULE NonRtHandler ----------------------------
(***************************************************************************)
(* The non-RT path of CROS-RT: the message selector of rtl_rx() puts the   *)
(* frames of port 7778 on tp->non_rt, and the thread knonrtd, created by   *)
(* non_rt_bg.ko (background server) or non_rt_pl.ko (polling server),      *)
(* passes them up.  The administrator loads the module, writes the         *)
(* thread's pid to /sys/module/r8169/parameters/knonrtd_pid and switches   *)
(* the selector on with krtd_on; the interface may be closed and reopened. *)
(*                                                                         *)
(* One CPU is online (prio_ros2/start.bash, and the assumption stated in   *)
(* non_rt_poll).  A softirq runs to its end there and non_rt_poll runs     *)
(* with interrupts off, so each is one step; a softirq may run between any *)
(* two other steps.  A thread is identified by the number of the module    *)
(* load that created it, and this number is also its pid.                  *)
(***************************************************************************)
EXTENDS Kthread, Sequences, FiniteSets

CONSTANTS
    Server,       \* "bg" for non_rt_bg.ko, "pl" for non_rt_pl.ko
    Period,       \* module parameters of non_rt_pl.ko: milliseconds
    Util,         \*   and percent
    NapiFound,    \* napi_by_id(257) finds the NAPI context of the interface
    Disciplined,  \* the administrator keeps to the order of start.bash
    MaxFrames,    \* bound on the frames received
    MaxLoads,     \* bound on the loads of the module
    MaxOpens,     \* bound on the openings of the interface
    MaxSwitches   \* bound on the writes to krtd_on

ASSUME ServerAssumption == Server \in {"bg", "pl"}
ASSUME TimeAssumption == Period \in Nat /\ Util \in 0 .. 100
ASSUME ModeAssumption == NapiFound \in BOOLEAN /\ Disciplined \in BOOLEAN
ASSUME BoundAssumption ==
    MaxFrames \in Nat /\ MaxLoads \in Nat /\ MaxOpens \in Nat /\ MaxSwitches \in Nat

NULL == 0
NonRtPort == 7778
Ports == {NonRtPort, 7411}    \* 7411 stands for every other port
Frames == 1 .. MaxFrames

VARIABLES
    rx,           \* destination ports of the frames received, in order
    non_rt,       \* the queue tp->non_rt
    served,       \* frames knonrtd gave to napi_gro_receive, in order
    direct,       \* frames rtl_rx itself gave to napi_gro_receive
    leaked,       \* frames on a queue that rtl8169_init_ring replaced
    up,           \* the interface is up: NAPI polls it
    ring,         \* tp->non_rt: "none", "raw" (kmalloc'ed), "ready" (initialised)
    opens,        \* number of openings so far
    krtd_on,      \* the switch of the selector
    knonrtd,      \* r8169's pointer to the thread, NULL or a load number
    knonrtd_pid,  \* module parameter of r8169
    setter,       \* krtd_on_set is "idle" or has "stored" the new value
    switches,     \* number of writes to krtd_on so far
    mod,          \* the server module: "out", "live", "going"
    load,         \* number of loads so far
    task,         \* the thread of the last load
    pc,           \* where it is in run_non_rt_handler
    timer,        \* the timer of msleep: "off", "armed", "fired"
    oops          \* the function that dereferenced an invalid pointer or list, or "none"

queues  == <<rx, non_rt, served, direct, leaked>>
netdev  == <<up, ring, opens>>
control == <<krtd_on, knonrtd, knonrtd_pid, setter, switches>>
thread  == <<task, pc, timer>>
kmod    == <<mod, load>>
vars    == <<queues, netdev, control, thread, kmod, oops>>

(* Some thread created by the module has not exited. *)
ThreadExists == pc \notin {"none", "exited"}

(* The pointer refers to a task_struct that has not been freed. *)
Valid(p) == p # NULL /\ p = load /\ ThreadExists

(* pid_task(find_get_pid(pid), PIDTYPE_PID): no reference is taken on the task. *)
pid_task(pid) == IF Valid(pid) THEN pid ELSE NULL

Init ==
    /\ rx = <<>> /\ non_rt = <<>> /\ served = <<>> /\ direct = {} /\ leaked = {}
    /\ up = FALSE /\ ring = "none" /\ opens = 0
    /\ krtd_on = FALSE /\ knonrtd = NULL /\ knonrtd_pid = 0
    /\ setter = "idle" /\ switches = 0
    /\ mod = "out" /\ load = 0
    /\ task = NoTask /\ pc = "none" /\ timer = "off"
    /\ oops = "none"

------------------------------------------------------------------------------
(* The driver: selector, queue and switch.                                   *)

(* Definitions marked "Faulty" are wrong variants of the one that follows   *)
(* them; the properties are shown to fail on them.                          *)

(* Faulty: the port is not looked at. *)
SelectedAny(port) == krtd_on

(* if (krtd_on) ... if (port == 7778) *)
Selected(port) == krtd_on /\ port = NonRtPort

(* Faulty: the frame goes to the wrong end; the next descriptor is taken. *)
skb_queue_head(queue, frame) == <<frame>> \o queue
skb_queue_next(queue, frame) == Append(queue, frame + 1)

(* __skb_queue_tail(tp->non_rt, skb) *)
skb_queue_tail(queue, frame) == Append(queue, frame)

(* One frame of rtl_rx().  The frame is queued before knonrtd is looked at. *)
rtl_rx(port) ==
    LET frame == Len(rx) + 1 IN
    /\ up /\ Len(rx) < MaxFrames
    /\ rx' = Append(rx, port)
    /\ \/ /\ Selected(port)
          /\ non_rt' = skb_queue_tail(non_rt, frame)
          /\ IF Valid(knonrtd)
             THEN task' = (IF task.state # "TASK_RUNNING" THEN wake_up_process(task) ELSE task)
                  /\ UNCHANGED oops
             ELSE oops' = "rtl_rx" /\ UNCHANGED task
          /\ UNCHANGED direct
       \/ /\ ~Selected(port)
          /\ direct' = direct \cup {frame}
          /\ UNCHANGED <<non_rt, task, oops>>
    /\ UNCHANGED <<served, leaked, netdev, control, pc, timer, kmod>>

(* rtl8169_init_ring() up to the kmalloc of the new queue head.  The old *)
(* head, and the frames on it, are not freed.                            *)
rtl8169_init_ring ==
    /\ ~up /\ ring # "raw" /\ opens < MaxOpens
    /\ opens' = opens + 1
    /\ ring' = "raw"
    /\ leaked' = leaked \cup {non_rt[i] : i \in 1 .. Len(non_rt)}
    /\ non_rt' = <<>>
    /\ UNCHANGED <<rx, served, direct, up, control, thread, kmod, oops>>

(* skb_queue_head_init() and the rest of rtl_open(), which may fail: the *)
(* error paths leave tp->non_rt as it is.                                *)
rtl_open ==
    /\ ring = "raw"
    /\ ring' = "ready"
    /\ up' \in BOOLEAN
    /\ UNCHANGED <<queues, opens, control, thread, kmod, oops>>

(* napi_disable() in rtl8169_down() ends reception; tp->non_rt stays. *)
rtl8169_close ==
    /\ up
    /\ up' = FALSE
    /\ UNCHANGED <<queues, ring, opens, control, thread, kmod, oops>>

(* A write to knonrtd_pid of the pid that pgrep reports.  The parameter *)
(* lock of r8169 serialises it with krtd_on_set.                        *)
set_knonrtd_pid ==
    /\ setter = "idle" /\ ThreadExists
    /\ knonrtd_pid' = load
    /\ UNCHANGED <<queues, netdev, krtd_on, knonrtd, setter, switches, thread, kmod, oops>>

(* param_set_int() in krtd_on_set(): the value is visible to rtl_rx now. *)
krtd_on_store(val) ==
    /\ setter = "idle" /\ switches < MaxSwitches
    /\ Disciplined /\ val => mod = "live" /\ Valid(knonrtd_pid)
    /\ krtd_on' = val
    /\ setter' = IF val THEN "stored" ELSE "idle"
    /\ switches' = switches + 1
    /\ UNCHANGED <<queues, netdev, knonrtd, knonrtd_pid, thread, kmod, oops>>

(* Faulty: a pointer that was once found is kept. *)
krtd_on_lookup_once ==
    /\ setter = "stored"
    /\ knonrtd' = IF knonrtd = NULL THEN pid_task(knonrtd_pid) ELSE knonrtd
    /\ setter' = "idle"
    /\ UNCHANGED <<queues, netdev, krtd_on, knonrtd_pid, switches, thread, kmod, oops>>

(* The pid_task() lookups of krtd_on_set(). *)
krtd_on_lookup ==
    /\ setter = "stored"
    /\ knonrtd' = pid_task(knonrtd_pid)
    /\ setter' = "idle"
    /\ UNCHANGED <<queues, netdev, krtd_on, knonrtd_pid, switches, thread, kmod, oops>>

------------------------------------------------------------------------------
(* The thread: run_non_rt_handler() of the two modules.                      *)

(* Frames one call of non_rt_poll() takes from a queue of n. *)
non_rt_poll(n) == n

(* Frames one call of non_rt_pl_poll() takes: the time slice in ms, halved. *)
ProcessMs == (Util * Period) \div 100
ProcessBudgetShort == ProcessMs \div 4     \* Faulty: halved twice
ProcessBudget == ProcessMs \div 2
non_rt_pl_poll(n) == IF n <= ProcessBudget THEN n ELSE ProcessBudget

(* Faulty: the frame is looked at and not taken from the queue. *)
skb_peek(queue, k) == queue

(* What k calls of __skb_dequeue() leave. *)
skb_dequeue(queue, k) == SubSeq(queue, k + 1, Len(queue))

(* The poll looks at the queue head: the polling server does not with budget 0. *)
Dequeues == NapiFound /\ (Server = "pl" => ProcessBudget > 0)

(* net_non_rt_handler_action(), net_non_rt_pl_handler_action() *)
Taken ==
    IF ~NapiFound THEN 0
    ELSE IF Server = "bg" THEN non_rt_poll(Len(non_rt)) ELSE non_rt_pl_poll(Len(non_rt))

Running(label) == pc = label /\ Runnable(task)

(* kthread() calls run_non_rt_handler unless it was stopped before that. *)
kthread_begin ==
    /\ Running("start")
    /\ IF task.should_stop THEN pc' = "exited" /\ task' = NoTask
                           ELSE pc' = "poll" /\ UNCHANGED task
    /\ UNCHANGED <<queues, netdev, control, timer, kmod, oops>>

handler_action ==
    /\ Running("poll")
    /\ pc' = "arm"
    /\ \/ /\ Dequeues /\ ring # "ready"
          /\ oops' = "non_rt_poll"
          /\ UNCHANGED <<non_rt, served>>
       \/ /\ Dequeues => ring = "ready"
          /\ served' = served \o SubSeq(non_rt, 1, Taken)
          /\ non_rt' = skb_dequeue(non_rt, Taken)
          /\ UNCHANGED oops
    /\ UNCHANGED <<rx, direct, leaked, netdev, control, task, timer, kmod>>

(* set_current_state(TASK_INTERRUPTIBLE), or the entry of msleep(). *)
handler_arm ==
    /\ Running("arm")
    /\ pc' = "sched"
    /\ \/ /\ Server = "bg"
          /\ task' = set_current_state(task, "TASK_INTERRUPTIBLE")
          /\ UNCHANGED timer
       \/ /\ Server = "pl"
          /\ task' = set_current_state(task, "TASK_UNINTERRUPTIBLE")
          /\ timer' = "armed"
    /\ UNCHANGED <<queues, netdev, control, kmod, oops>>

handler_schedule ==
    /\ Running("sched")
    /\ task' = schedule(task)
    /\ pc' = "woken"
    /\ UNCHANGED <<queues, netdev, control, timer, kmod, oops>>

(* msleep() goes back to sleep when it was woken before its timeout. *)
msleep_again ==
    /\ Running("woken") /\ timer = "armed"
    /\ task' = set_current_state(task, "TASK_UNINTERRUPTIBLE")
    /\ pc' = "sched"
    /\ UNCHANGED <<queues, netdev, control, timer, kmod, oops>>

(* Faulty: the loop goes back to sleep without a poll. *)
handler_stop_test_only ==
    /\ Running("woken") /\ timer # "armed"
    /\ timer' = "off"
    /\ IF task.should_stop
       THEN pc' = "exited" /\ task' = NoTask
       ELSE pc' = "arm" /\ task' = set_current_state(task, "TASK_RUNNING")
    /\ UNCHANGED <<queues, netdev, control, kmod, oops>>

(* set_current_state(TASK_RUNNING) and the test of kthread_should_stop(). *)
handler_stop_test ==
    /\ Running("woken") /\ timer # "armed"
    /\ timer' = "off"
    /\ IF task.should_stop
       THEN pc' = "exited" /\ task' = NoTask
       ELSE pc' = "poll" /\ task' = set_current_state(task, "TASK_RUNNING")
    /\ UNCHANGED <<queues, netdev, control, kmod, oops>>

(* process_timeout() of msleep's timer. *)
msleep_timeout ==
    /\ timer = "armed"
    /\ timer' = "fired"
    /\ task' = wake_up_process(task)
    /\ UNCHANGED <<queues, netdev, control, pc, kmod, oops>>

------------------------------------------------------------------------------
(* Loading and unloading the module.                                         *)

(* non_rt_handler_init().  kthread_run() reports failure by an ERR_PTR,    *)
(* which the test for NULL lets through to sched_setscheduler() or         *)
(* set_cpus_allowed_ptr().  When the polling server cannot get its         *)
(* priority the thread is stopped and the module stays loaded.             *)
non_rt_handler_init(created, prioritised) ==
    /\ mod = "out" /\ load < MaxLoads
    /\ Disciplined => ring = "ready" /\ created /\ prioritised
    /\ mod' = "live"
    /\ load' = load + 1
    /\ timer' = "off"
    /\ \/ /\ ~created
          /\ oops' = "non_rt_handler_init"
          /\ UNCHANGED <<task, pc>>
       \/ /\ created /\ (Server = "pl" => prioritised)
          /\ pc' = "start"
          /\ task' = IF Server = "pl" THEN sched_setscheduler(kthread_run, 99) ELSE kthread_run
          /\ UNCHANGED oops
       \/ /\ created /\ Server = "pl" /\ ~prioritised
          /\ pc' = "exited" /\ task' = NoTask
          /\ UNCHANGED oops
    /\ UNCHANGED <<queues, netdev, control>>

(* non_rt_handler_exit(): kthread_stop(), on a thread that may be gone. *)
non_rt_handler_exit ==
    /\ mod = "live"
    /\ Disciplined => ~krtd_on
    /\ mod' = "going"
    /\ IF ThreadExists
       THEN task' = kthread_stop(task) /\ UNCHANGED oops
       ELSE oops' = "non_rt_handler_exit" /\ UNCHANGED task
    /\ UNCHANGED <<queues, netdev, control, pc, timer, load>>

(* kthread_stop() returns once the thread has exited. *)
kthread_stop_return ==
    /\ mod = "going" /\ pc = "exited"
    /\ mod' = "out" /\ pc' = "none"
    /\ UNCHANGED <<queues, netdev, control, task, timer, load, oops>>

------------------------------------------------------------------------------

Driver ==
    \/ \E port \in Ports : rtl_rx(port)
    \/ rtl8169_init_ring \/ rtl_open \/ rtl8169_close

Administrator ==
    \/ set_knonrtd_pid
    \/ \E val \in BOOLEAN : krtd_on_store(val)
    \/ krtd_on_lookup
    \/ \E created, prioritised \in BOOLEAN : non_rt_handler_init(created, prioritised)
    \/ non_rt_handler_exit
    \/ kthread_stop_return

Thread ==
    \/ kthread_begin \/ handler_action \/ handler_arm \/ handler_schedule
    \/ msleep_again \/ handler_stop_test

(* Behaviour after an invalid access is not described. *)
Alive == oops = "none"

Next == Alive /\ (Driver \/ Administrator \/ Thread \/ msleep_timeout)

(* A runnable thread gets the processor and a timer fires.  A call that has *)
(* been made goes on; frames and commands come or do not come.              *)
Fairness ==
    /\ WF_vars(Alive /\ Thread)
    /\ WF_vars(Alive /\ msleep_timeout)
    /\ WF_vars(Alive /\ rtl_open)
    /\ WF_vars(Alive /\ krtd_on_lookup)
    /\ WF_vars(Alive /\ kthread_stop_return)

Spec == Init /\ [][Next]_vars
FairSpec == Spec /\ Fairness

------------------------------------------------------------------------------

Labels == {"none", "start", "poll", "arm", "sched", "woken", "exited"}

(* Types, with the queue and the histories naming frames that have arrived. *)
TypeOK ==
    /\ rx \in Seq(Ports)
    /\ non_rt \in Seq(1 .. Len(rx)) /\ served \in Seq(1 .. Len(rx))
    /\ direct \in SUBSET (1 .. Len(rx)) /\ leaked \in SUBSET (1 .. Len(rx))
    /\ up \in BOOLEAN /\ ring \in {"none", "raw", "ready"} /\ opens \in Nat
    /\ krtd_on \in BOOLEAN /\ knonrtd \in Nat /\ knonrtd_pid \in Nat
    /\ setter \in {"idle", "stored"} /\ switches \in Nat
    /\ mod \in {"out", "live", "going"} /\ load \in Nat
    /\ task \in Tasks /\ pc \in Labels /\ timer \in {"off", "armed", "fired"}
    /\ oops \in {"none", "rtl_rx", "non_rt_poll", "non_rt_handler_init", "non_rt_handler_exit"}

Elements(s) == {s[i] : i \in 1 .. Len(s)}
Queued(f) == f \in Elements(non_rt)

(* Every frame rtl_rx() received is in exactly one place: passed up by     *)
(* rtl_rx, passed up by knonrtd, on tp->non_rt, or on a queue head that    *)
(* rtl8169_init_ring() dropped.  No wakeup, stop, switch or reopening      *)
(* loses a frame otherwise or hands it to the stack twice.                 *)
Conservation ==
    /\ 1 .. Len(rx) = Elements(served) \cup Elements(non_rt) \cup direct \cup leaked
    /\ direct \cap (Elements(served) \cup Elements(non_rt) \cup leaked) = {}
    /\ leaked \cap (Elements(served) \cup Elements(non_rt)) = {}
    /\ Elements(served) \cap Elements(non_rt) = {}

(* The frames of other ports are never delayed: rtl_rx() itself passes them *)
(* up, whatever the switch and the thread do.                               *)
OthersBypass == \A f \in 1 .. Len(rx) : rx[f] # NonRtPort => f \in direct

(* When krtd_on is set in the order of start.bash, and cleared before the *)
(* module is removed, the pointer that rtl_rx() dereferences is the live  *)
(* thread, except inside krtd_on_set() itself.                            *)
KnonrtdValid == Disciplined /\ krtd_on /\ setter = "idle" => Valid(knonrtd)

(* A thread that is off the run queue is waiting in schedule(), in a state *)
(* from which wake_up_process() takes it: no wakeup that is sent is lost.  *)
SleeperWakeable ==
    ThreadExists /\ ~Runnable(task) =>
        /\ pc = "woken" /\ task.state \in TASK_NORMAL
        /\ Server = "pl" => timer = "armed"

(* tp->non_rt implements the in-order channel. *)
Channel == INSTANCE FifoChannel WITH arrived <- Len(rx), pending <- non_rt, out <- served
ChannelSpec == Channel!Spec

(* What InOrder of the channel says of the driver's queue. *)
ServedInOrder == Channel!InOrder

(* Once the background server has returned from schedule(), what is queued *)
(* is passed up, unless the thread was stopped or the queue was replaced.  *)
WokenServes ==
    \A f \in Frames :
        (Running("woken") /\ Queued(f)) ~> (~Queued(f) \/ ~ThreadExists \/ ~Alive)

(* Every frame put on tp->non_rt is eventually taken from it. *)
NonRtServed ==
    \A f \in Frames :
        (ThreadExists /\ Queued(f)) ~> (~Queued(f) \/ ~ThreadExists \/ ~Alive)

(* rmmod returns: a thread told to stop exits. *)
ExitReturns == mod = "going" ~> (mod = "out" \/ ~Alive)

(* The selector never dereferences an invalid pointer. *)
SelectorSafe == oops # "rtl_rx"

------------------------------------------------------------------------------
(* The inductive invariant behind the safety properties.                     *)

SleepState == IF Server = "bg" THEN "TASK_INTERRUPTIBLE" ELSE "TASK_UNINTERRUPTIBLE"

(* Where the thread can be in each scheduler state.  Before handler_arm it *)
(* is TASK_RUNNING; once in schedule() it is on the run queue exactly when *)
(* it is TASK_RUNNING, and the polling server has its timer to wake it.    *)
ThreadInv ==
    /\ pc \in {"start", "poll", "arm"} => task.state = "TASK_RUNNING" /\ task.on_rq
    /\ pc \in {"sched", "woken"} => task.state \in {"TASK_RUNNING", SleepState}
    /\ pc = "sched" => task.on_rq
    /\ pc = "woken" => (task.on_rq <=> task.state = "TASK_RUNNING")
    /\ pc \in {"sched", "woken"} /\ Server = "pl" /\ task.state # "TASK_RUNNING" => timer = "armed"
    /\ timer = "armed" => Server = "pl" /\ pc \in {"sched", "woken"}

(* The switch is on only over a loaded module whose thread nobody stopped. *)
SwitchInv ==
    /\ mod # "going" /\ ThreadExists => ~task.should_stop
    /\ mod = "out" => ~ThreadExists
    /\ Disciplined =>
        /\ Alive /\ mod = "live" => ThreadExists
        /\ krtd_on => mod = "live" /\ Valid(knonrtd_pid)
        /\ krtd_on /\ setter = "idle" => Valid(knonrtd)
        /\ setter = "stored" => krtd_on

==============================================================================
