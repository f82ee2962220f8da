----------------------------- MODULE KernelProofs -----------------------------
(*****************************************************************************)
(* The RT handler (RtHandler), for every set of priorities and number of     *)
(* frames and loads; the references to XDP programs (XdpAttach), for every   *)
(* set of programs; the transmit queues and their maps (Xps), for every      *)
(* number of queues; the backlogs of the CPUs (Backlog), for every set of    *)
(* CPUs and every length of the queues.                                      *)
(*****************************************************************************)
EXTENDS MCKernel, KthreadProofs, FiniteSetTheorems, SequenceTheorems, WellFoundedInduction, TLAPS

------------------------------------------------------------------------------
(* The RT handler.  The order of frames needs only their types.  That       *)
(* nothing waits above highest_pri needs that what waits is marked          *)
(* (MarkedInv); that kmond finds krtd needs the phases of rt_handler.ko     *)
(* together with what the scheduler allows in each of them (TaskAt, Phases, *)
(* MonitorRests).                                                           *)

(* A set of priorities that is not empty has a greatest element. *)
LEMMA GreatestPriority ==
    ASSUME NEW S, S \subseteq 1 .. 99, S # {}
    PROVE  \E i \in S : \A j \in S : j <= i
<1> DEFINE T == {99 - i : i \in S}
<1>1. T \subseteq Nat /\ T # {}
  <2>1. PICK s \in S : TRUE
    OBVIOUS
  <2>2. 99 - s \in T
    BY <2>1
  <2>3. \A i \in S : 99 - i \in Nat
    OBVIOUS
  <2> QED BY <2>2, <2>3
<1>2. PICK x \in T : \A y \in T : ~ (<<y, x>> \in OpToRel(<, Nat))
  BY <1>1, NatLessThanWellFounded, WFMin
<1>3. \A y \in T : ~ (y < x)
  BY <1>1, <1>2 DEF OpToRel
<1>4. PICK i \in S : x = 99 - i
  BY <1>2
<1>5. ASSUME NEW j \in S PROVE j <= i
  <2>1. 99 - j \in T
    OBVIOUS
  <2>2. ~ (99 - j < 99 - i)
    BY <1>3, <1>4, <2>1
  <2> QED BY <2>2
<1> QED BY <1>5

LEMMA LevelsRange == Levels \subseteq 1 .. 99 /\ 1 \in Levels /\ Prios \subseteq Levels
BY PriosAssumption DEF Levels

(* get_next_highest_priority() answers a queue that exists, and passes over *)
(* no marked priority below h.                                             *)
LEMMA NextPriority ==
    ASSUME NEW h \in Levels, in_use \subseteq Prios
    PROVE  /\ get_next_highest_priority(h) \in Levels
           /\ \A i \in in_use : i < h => i <= get_next_highest_priority(h)
<1> DEFINE below == {i \in in_use : i < h}
           m == CHOOSE i \in below : \A j \in below : j <= i
<1>1. CASE below = {}
  BY <1>1, LevelsRange DEF get_next_highest_priority
<1>2. CASE below # {}
  <2>1. below \subseteq 1 .. 99
    BY LevelsRange
  <2>2. \E i \in below : \A j \in below : j <= i
    BY <1>2, <2>1, GreatestPriority
  <2>3. m \in below /\ \A j \in below : j <= m
    BY <2>2
  <2>4. get_next_highest_priority(h) = m
    BY <1>2 DEF get_next_highest_priority
  <2> HIDE DEF m
  <2> QED BY <2>3, <2>4, LevelsRange
<1> QED BY <1>1, <1>2

------------------------------------------------------------------------------

(* The types of the frames, the queues and the priorities. *)
FrameTypes ==
    /\ arrived \in Nat
    /\ pq \in [Levels -> Seq(1 .. arrived)] /\ served \in [Levels -> Seq(1 .. arrived)]
    /\ highest_pri \in Levels
    /\ table \in SUBSET Prios /\ in_use \in SUBSET table

(* Only four operations touch the frames, and two the table. *)
LEMMA FrameSteps ==
    ASSUME [Next]_vars
    PROVE  \/ Alive /\ \E p \in Prios : rtl_rx_rt(p)
           \/ Alive /\ rtl_rx_other
           \/ Alive /\ rt_poll
           \/ UNCHANGED <<frames, highest_pri>> /\ \E p \in Prios : hash_add(p) \/ mark_in_use(p)
           \/ UNCHANGED <<frames, highest_pri, ports>>
BY DEF Next, Driver, Administrator, RtThread, Monitor, vars, hash_add, mark_in_use, krtd_on_set,
       create_krtd, create_kmond, prioritise_kmond, init_err_krtd, init_err_return, exit_stop_krtd,
       exit_stop_kmond, exit_return, krtd_begin, krtd_get_highest_prio, krtd_setscheduler, krtd_test,
       krtd_arm, krtd_schedule, krtd_stop_test, kmond_begin, kmond_get_highest_prio, kmond_raise,
       kmond_wake, kmond_arm, kmond_schedule, kmond_stop_test

(* Sequences of frames remain sequences of frames when more have arrived. *)
LEMMA MoreArrived ==
    ASSUME NEW n \in Nat, NEW f \in [Levels -> Seq(1 .. n)]
    PROVE  f \in [Levels -> Seq(1 .. n + 1)]
<1>1. 1 .. n \subseteq 1 .. n + 1
  OBVIOUS
<1>2. \A s \in Seq(1 .. n) : s \in Seq(1 .. n + 1)
  BY <1>1
<1> QED BY <1>2

LEMMA FrameTypesStep ==
    ASSUME FrameTypes, [Next]_vars
    PROVE  FrameTypes'
<1> USE DEF FrameTypes
<1>1. ASSUME NEW p \in Prios, rtl_rx_rt(p) PROVE FrameTypes'
  <2>1. arrived' = arrived + 1 /\ UNCHANGED <<served, table, in_use>>
    BY <1>1 DEF rtl_rx_rt, ports
  <2>2. pq' = [pq EXCEPT ![p] = Append(@, arrived + 1)]
    BY <1>1 DEF rtl_rx_rt, priority_queue_insert
  <2>3. highest_pri' \in Levels
    BY <1>1, LevelsRange DEF rtl_rx_rt, highest_raised
  <2>4. pq \in [Levels -> Seq(1 .. arrived + 1)] /\ served \in [Levels -> Seq(1 .. arrived + 1)]
    BY MoreArrived
  <2>5. Append(pq[p], arrived + 1) \in Seq(1 .. arrived + 1)
    BY <2>4, LevelsRange
  <2>6. pq' \in [Levels -> Seq(1 .. arrived + 1)]
    BY <2>2, <2>4, <2>5, LevelsRange
  <2> QED BY <2>1, <2>3, <2>4, <2>6
<1>2. CASE rtl_rx_other
  <2>1. arrived' = arrived + 1 /\ UNCHANGED <<pq, served, highest_pri, table, in_use>>
    BY <1>2 DEF rtl_rx_other, ports
  <2> QED BY <2>1, MoreArrived
<1>3. CASE rt_poll
  <2>1. arrived' = arrived /\ UNCHANGED <<table, in_use>>
    BY <1>3 DEF rt_poll, ports
  <2>2. served' \in [Levels -> Seq(1 .. arrived)] /\ pq' \in [Levels -> Seq(1 .. arrived)]
    <3>1. served[highest_pri] \o pq[highest_pri] \in Seq(1 .. arrived)
      OBVIOUS
    <3>2. <<>> \in Seq(1 .. arrived)
      OBVIOUS
    <3> QED BY <1>3, <3>1, <3>2 DEF rt_poll
  <2>3. highest_pri' \in Levels
    BY <1>3, LevelsRange, NextPriority DEF rt_poll
  <2> QED BY <2>1, <2>2, <2>3
<1>4. ASSUME NEW p \in Prios, hash_add(p) \/ mark_in_use(p), UNCHANGED <<frames, highest_pri>>
      PROVE  FrameTypes'
  BY <1>4 DEF hash_add, mark_in_use, frames
<1>5. CASE UNCHANGED <<frames, highest_pri, ports>>
  BY <1>5 DEF frames, ports
<1> QED BY <1>1, <1>2, <1>3, <1>4, <1>5, FrameSteps

LEMMA FrameTypesInvariant == Spec => []FrameTypes
<1>1. Init => FrameTypes
  BY LevelsRange DEF Init, FrameTypes
<1>2. FrameTypes /\ [Next]_vars => FrameTypes'
  BY FrameTypesStep
<1> QED BY <1>1, <1>2, PTL DEF Spec

------------------------------------------------------------------------------

(* The queue of each priority takes a step of the channel, or none. *)
LEMMA FifoStep ==
    ASSUME FrameTypes, [Next]_vars, NEW q \in Levels
    PROVE  [RtChannel(q)!Next]_(RtChannel(q)!chan)
<1> USE DEF FrameTypes
<1>1. ASSUME NEW p \in Prios, rtl_rx_rt(p) PROVE RtChannel(q)!Receive
  <2>1. arrived' = arrived + 1 /\ served' = served
    BY <1>1 DEF rtl_rx_rt
  <2>2. pq'[q] \in {pq[q], Append(pq[q], arrived + 1)}
    BY <1>1 DEF rtl_rx_rt, priority_queue_insert
  <2> QED BY <2>1, <2>2 DEF RtChannel!Receive
<1>2. CASE rtl_rx_other
  BY <1>2 DEF rtl_rx_other, RtChannel!Receive, RtChannel!Next
<1>3. CASE rt_poll
  <2>1. arrived' = arrived
    BY <1>3 DEF rt_poll
  <2>2. CASE q # highest_pri
    BY <1>3, <2>1, <2>2 DEF rt_poll, RtChannel!chan
  <2>3. CASE q = highest_pri
    <3>1. served'[q] = served[q] \o pq[q] /\ pq'[q] = <<>>
      BY <1>3, <2>3 DEF rt_poll
    <3>2. pq[q] \in Seq(1 .. arrived) /\ served[q] \in Seq(1 .. arrived)
      OBVIOUS
    <3>3. CASE pq[q] = <<>>
      <4>1. served'[q] = served[q] /\ pq'[q] = pq[q]
        BY <3>1, <3>2, <3>3
      <4> QED BY <2>1, <4>1 DEF RtChannel!chan
    <3>4. CASE pq[q] # <<>>
      <4> DEFINE k == Len(pq[q])
      <4>1. /\ k \in 1 .. Len(pq[q]) /\ SubSeq(pq[q], 1, k) = pq[q]
            /\ SubSeq(pq[q], k + 1, Len(pq[q])) = <<>>
        BY <3>2, <3>4
      <4>2. RtChannel(q)!Deliver
        BY <2>1, <3>1, <4>1 DEF RtChannel!Deliver
      <4> QED BY <4>2 DEF RtChannel!Next
    <3> QED BY <3>3, <3>4
  <2> QED BY <2>2, <2>3
<1>4. CASE UNCHANGED frames
  BY <1>4 DEF frames, RtChannel!chan
<1> QED BY <1>1, <1>2, <1>3, <1>4, FrameSteps DEF RtChannel!Next

(* The queue of every priority implements the in-order channel: rtl_rx()   *)
(* appends, rt_poll() passes up everything, and nothing else touches it.   *)
THEOREM QueuesInOrder == Spec => RtFifo
<1>1. Init => \A p \in Levels : RtChannel(p)!Init
  BY DEF Init, RtChannel!Init
<1>2. FrameTypes /\ [Next]_vars => [\A p \in Levels : [RtChannel(p)!Next]_(RtChannel(p)!chan)]_vars
  BY FifoStep
<1> QED BY <1>1, <1>2, FrameTypesInvariant, PTL DEF Spec, RtFifo

------------------------------------------------------------------------------

(* When no frame comes in the middle of a registration, a frame waits only *)
(* at a marked priority, and not above highest_pri.                        *)
MarkedInv ==
    Quiet => \A p \in Levels : pq[p] # <<>> => p \in in_use /\ p <= highest_pri

LEMMA MarkedStep ==
    ASSUME FrameTypes, MarkedInv, [Next]_vars
    PROVE  MarkedInv'
<1> SUFFICES ASSUME Quiet, NEW q \in Levels, pq'[q] # <<>>
             PROVE  q \in in_use' /\ q <= highest_pri'
  BY DEF MarkedInv
<1> USE LevelsRange DEF FrameTypes
<1>1. ASSUME NEW p \in Prios, rtl_rx_rt(p) PROVE q \in in_use' /\ q <= highest_pri'
  <2>1. highest_pri' >= highest_pri /\ highest_pri' >= p
    BY <1>1 DEF rtl_rx_rt, highest_raised
  <2>2. in_use' = in_use /\ p \in in_use
    BY <1>1 DEF rtl_rx_rt, ports
  <2>3. CASE q = p
    BY <2>1, <2>2, <2>3
  <2>4. CASE q # p
    <3>1. pq'[q] = pq[q]
      BY <1>1, <2>4 DEF rtl_rx_rt
    <3>2. q \in in_use /\ q <= highest_pri
      BY <3>1 DEF MarkedInv
    <3>3. q \in 1 .. 99 /\ highest_pri \in 1 .. 99 /\ highest_pri' \in 1 .. 99
      BY <1>1 DEF rtl_rx_rt, highest_raised
    <3> QED BY <2>1, <2>2, <3>2, <3>3
  <2> QED BY <2>3, <2>4
<1>2. CASE rtl_rx_other
  BY <1>2 DEF rtl_rx_other, ports, MarkedInv
<1>3. CASE rt_poll
  <2>1. q # highest_pri /\ pq'[q] = pq[q] /\ in_use' = in_use
    <3>1. pq' = [pq EXCEPT ![highest_pri] = << >>] /\ in_use' = in_use
      BY <1>3 DEF rt_poll, ports
    <3>2. pq \in [Levels -> Seq(1 .. arrived)]
      BY DEF FrameTypes
    <3> QED BY <3>1, <3>2
  <2>2. q \in in_use /\ q < highest_pri
    <3>1. q \in in_use /\ q <= highest_pri
      BY <2>1 DEF MarkedInv
    <3>2. q \in 1 .. 99 /\ highest_pri \in 1 .. 99
      BY LevelsRange DEF FrameTypes
    <3> QED BY <2>1, <3>1, <3>2
  <2>3. highest_pri' = get_next_highest_priority(highest_pri)
    BY <1>3, <2>2 DEF rt_poll
  <2> QED BY <2>1, <2>2, <2>3, NextPriority
<1>4. ASSUME NEW p \in Prios, hash_add(p) \/ mark_in_use(p), UNCHANGED <<frames, highest_pri>>
      PROVE  q \in in_use' /\ q <= highest_pri'
  BY <1>4 DEF hash_add, mark_in_use, frames, MarkedInv
<1>5. CASE UNCHANGED <<frames, highest_pri, ports>>
  BY <1>5 DEF frames, ports, MarkedInv
<1> QED BY <1>1, <1>2, <1>3, <1>4, <1>5, FrameSteps

LEMMA MarkedInvariant == Spec => []MarkedInv
<1>1. Init => MarkedInv
  BY DEF Init, MarkedInv
<1>2. FrameTypes /\ MarkedInv /\ [Next]_vars => MarkedInv'
  BY MarkedStep
<1> QED BY <1>1, <1>2, FrameTypesInvariant, PTL DEF Spec

(* highest_pri bounds what waits: rt_poll(), which looks only at the queue *)
(* of highest_pri and then at marked ones below, passes no frame over.     *)
THEOREM NothingAbove == Spec => []NoneAbove
<1>1. FrameTypes /\ MarkedInv => NoneAbove
  BY LevelsRange DEF FrameTypes, MarkedInv, NoneAbove
<1> QED BY <1>1, FrameTypesInvariant, MarkedInvariant, PTL

(* No step of krtd passes up a frame while one of a higher priority waits. *)
THEOREM NoPriorityInversion == Spec => NoInversion
<1> DEFINE Inversion == \A p, q \in Levels :
                            Quiet /\ p < q /\ pq[q] # <<>> => served'[p] = served[p]
<1>1. FrameTypes /\ NoneAbove /\ [Next]_vars => [Inversion]_vars
  <2> SUFFICES ASSUME FrameTypes, NoneAbove, [Next]_vars, Quiet,
                      NEW p \in Levels, NEW q \in Levels, p < q, pq[q] # <<>>
               PROVE  served'[p] = served[p]
    OBVIOUS
  <2>1. CASE rt_poll
    <3>1. ~ (q > highest_pri)
      BY DEF NoneAbove
    <3>2. p # highest_pri
      BY <3>1, LevelsRange DEF FrameTypes
    <3> QED BY <2>1, <3>2 DEF rt_poll, FrameTypes
  <2>2. CASE served' = served
    BY <2>2
  <2> QED BY <2>1, <2>2, FrameSteps DEF rtl_rx_rt, rtl_rx_other, frames
<1> QED BY <1>1, FrameTypesInvariant, NothingAbove, PTL DEF Spec, NoInversion

------------------------------------------------------------------------------

(* What the scheduler knows of a thread at each of its instructions: a     *)
(* thread sets its state just before schedule(), and leaves the run queue  *)
(* only there.                                                             *)
TaskAt(t, label) ==
    /\ t.state \in {"TASK_RUNNING", "TASK_INTERRUPTIBLE"} \/ ~Exists(label)
    /\ label \in {"none", "exited"} => t = NoTask
    /\ label \notin {"none", "exited", "sched", "stop"} => t.state = "TASK_RUNNING"
    /\ label \notin {"none", "exited", "stop"} => t.on_rq
    /\ label = "stop" /\ t.state = "TASK_RUNNING" => t.on_rq

(* Which threads there are in each phase of rt_handler.ko, which of them   *)
(* has been told to stop, and the priority of kmond.                       *)
Phases ==
    /\ rmod = "out" => kpc = "none" /\ mpc = "none"
    /\ rmod = "krtd" => Exists(kpc) /\ mpc = "none"
    /\ rmod = "kmond" => Exists(kpc) /\ Exists(mpc)
    /\ rmod = "live" => \/ Exists(kpc) /\ Exists(mpc) /\ kmond.rt_priority = 99
                        \/ kpc = "exited" /\ mpc = "exited"
    /\ rmod = "err_kmond" => Exists(kpc) /\ mpc # "none"
    /\ rmod = "err_krtd" => kpc # "none" /\ mpc = "exited"
    /\ rmod = "stop_krtd" => kpc # "none" /\ Exists(mpc)
    /\ rmod = "stop_kmond" => kpc = "exited" /\ mpc # "none"
    /\ krtd.should_stop => rmod \in {"err_krtd", "stop_krtd"}
    /\ kmond.should_stop => rmod \in {"err_kmond", "stop_kmond"}
    /\ rmod = "stop_kmond" /\ Exists(mpc) => kmond.should_stop

(* From the moment krtd is told to stop, kmond sleeps, with nobody to wake *)
(* it but the kthread_stop() of its own.                                   *)
SafeMode == Preemptive /\ (~RtBranch \/ Disciplined)
MonitorRests ==
    SafeMode => /\ rmod = "stop_krtd" => mpc = "stop" /\ ~kmond.on_rq /\ ~(RtBranch /\ krtd_on)
                /\ rmod = "stop_kmond" => mpc \in {"stop", "exited"}

ControlTypes ==
    /\ cur_priority \in Levels /\ msg_priority \in Levels
    /\ krtd_on \in BOOLEAN
    /\ krtd \in Tasks /\ kpc \in KrtdLabels
    /\ kmond \in Tasks /\ mpc \in KmondLabels
    /\ rmod \in {"out", "krtd", "kmond", "live", "err_kmond", "err_krtd", "stop_krtd", "stop_kmond"}
    /\ loads \in Nat
    /\ oops \in {"none", "rtl_rx", "run_monitor", "rt_handler_init", "rt_handler_exit"}

ControlInv ==
    /\ TaskAt(krtd, kpc) /\ TaskAt(kmond, mpc) /\ Phases /\ MonitorRests

CInv == ControlTypes /\ MonitorSafe /\ (Alive => ControlInv)

(* What another process or an interrupt does to a thread keeps the thread  *)
(* in a state that its label allows.                                       *)
LEMMA TaskKept ==
    ASSUME NEW t \in Tasks, NEW label, TaskAt(t, label)
    PROVE  /\ TaskAt(wake_up_process(t), label)
           /\ Exists(label) => TaskAt(kthread_stop(t), label)
           /\ \A prio \in Nat : Exists(label) => TaskAt(sched_setscheduler(t, prio), label)
<1> USE DEF Exists
<1>1. TaskAt(wake_up_process(t), label)
  <2>1. CASE t.state \in TASK_NORMAL
    <3>1. wake_up_process(t).state = "TASK_RUNNING" /\ wake_up_process(t).on_rq = TRUE
      BY <2>1, WakeUp
    <3>2. label \notin {"none", "exited"}
      BY <2>1 DEF TaskAt, TASK_NORMAL, NoTask
    <3> QED BY <3>1, <3>2 DEF TaskAt
  <2>2. CASE t.state \notin TASK_NORMAL
    BY <2>2, WakeUp
  <2> QED BY <2>1, <2>2
<1>2. ASSUME Exists(label) PROVE TaskAt(kthread_stop(t), label)
  <2>1. CASE t.state \in TASK_NORMAL
    <3>1. kthread_stop(t).state = "TASK_RUNNING" /\ kthread_stop(t).on_rq = TRUE
      BY <2>1, KthreadStop
    <3> QED BY <1>2, <3>1 DEF TaskAt
  <2>2. CASE t.state \notin TASK_NORMAL
    <3>1. kthread_stop(t).state = t.state /\ kthread_stop(t).on_rq = t.on_rq
      BY <2>2, KthreadStop
    <3> QED BY <1>2, <3>1 DEF TaskAt
  <2> QED BY <2>1, <2>2
<1>3. ASSUME NEW prio \in Nat, Exists(label) PROVE TaskAt(sched_setscheduler(t, prio), label)
  <2>1. /\ sched_setscheduler(t, prio).state = t.state
        /\ sched_setscheduler(t, prio).on_rq = t.on_rq
    BY SetScheduler
  <2> QED BY <1>3, <2>1 DEF TaskAt
<1> QED BY <1>1, <1>2, <1>3

(* A step of a thread's own leaves it in a state that its next label allows. *)
LEMMA TaskMoves ==
    ASSUME NEW t \in Tasks
    PROVE  /\ TaskAt(NoTask, "exited") /\ TaskAt(NoTask, "none") /\ TaskAt(kthread_run, "start")
           /\ TaskAt(t, "arm") => TaskAt(set_current_state(t, "TASK_INTERRUPTIBLE"), "sched")
           /\ TaskAt(t, "sched") => TaskAt(schedule(t), "stop")
           /\ TaskAt(t, "stop") /\ t.on_rq =>
                \A label : Exists(label) => TaskAt(set_current_state(t, "TASK_RUNNING"), label)
           /\ \A label, next : /\ TaskAt(t, label) /\ Exists(next)
                               /\ label \notin {"none", "exited", "sched", "stop"}
                               => TaskAt(t, next)
<1> USE DEF Exists
<1>a. "TASK_RUNNING" \in TaskStates /\ "TASK_INTERRUPTIBLE" \in TaskStates
  BY DEF TaskStates
<1>1. TaskAt(NoTask, "exited") /\ TaskAt(NoTask, "none")
  BY DEF TaskAt
<1>2. TaskAt(kthread_run, "start")
  BY NewTask DEF TaskAt
<1>3. ASSUME TaskAt(t, "arm") PROVE TaskAt(set_current_state(t, "TASK_INTERRUPTIBLE"), "sched")
  BY <1>a, <1>3, SetState DEF TaskAt
<1>4. ASSUME TaskAt(t, "sched") PROVE TaskAt(schedule(t), "stop")
  <2>1. schedule(t).state = t.state /\ schedule(t).on_rq = (t.state = "TASK_RUNNING")
    BY Schedule
  <2>2. t.state = "TASK_RUNNING" => schedule(t).on_rq
    BY <2>1
  <2> QED BY <1>4, <2>1, <2>2 DEF TaskAt
<1>5. ASSUME TaskAt(t, "stop"), t.on_rq, NEW label, Exists(label)
      PROVE  TaskAt(set_current_state(t, "TASK_RUNNING"), label)
  <2>1. /\ set_current_state(t, "TASK_RUNNING").state = "TASK_RUNNING"
        /\ set_current_state(t, "TASK_RUNNING").on_rq
    BY <1>a, <1>5, SetState
  <2> QED BY <1>5, <2>1 DEF TaskAt
<1>6. ASSUME NEW label, NEW next, TaskAt(t, label), Exists(next),
             label \notin {"none", "exited", "sched", "stop"}
      PROVE  TaskAt(t, next)
  BY <1>6 DEF TaskAt
<1> QED BY <1>1, <1>2, <1>3, <1>4, <1>5, <1>6

(* Steps of krtd. *)
LEMMA KrtdStep ==
    ASSUME FrameTypes, CInv, Alive, RtThread
    PROVE  CInv'
<1> USE LevelsRange DEF Alive, ControlTypes, KrtdLabels, Exists, rthread, monitor, kmod, ports, frames, Krtd, Runnable
<1>0. /\ ControlTypes /\ TaskAt(krtd, kpc) /\ TaskAt(kmond, mpc) /\ Phases /\ MonitorRests /\ krtd.on_rq
      /\ UNCHANGED <<kmond, mpc, msg_priority, rmod, loads, oops, krtd_on>> /\ krtd \in Tasks /\ Exists(kpc)
  BY DEF RtThread, CInv, ControlInv, krtd_begin, rt_poll, krtd_get_highest_prio, krtd_setscheduler,
         krtd_test, krtd_arm, krtd_schedule, krtd_stop_test
<1>a. "TASK_RUNNING" \in TaskStates /\ "TASK_INTERRUPTIBLE" \in TaskStates
  BY DEF TaskStates
<1>b. NoTask.should_stop = FALSE
  BY DEF NoTask
<1> DEFINE Moved == /\ krtd' \in Tasks /\ kpc' \in KrtdLabels /\ cur_priority' \in Levels
                    /\ TaskAt(krtd', kpc')
                    /\ \/ Exists(kpc') /\ krtd'.should_stop = krtd.should_stop
                       \/ kpc' = "exited" /\ krtd.should_stop /\ ~krtd'.should_stop
<1>1. ASSUME krtd_begin PROVE Moved
  <2>1. CASE krtd.should_stop
    BY <1>0, <1>1, <1>b, <2>1, NewTask, TaskMoves DEF krtd_begin
  <2>2. CASE ~krtd.should_stop
    BY <1>0, <1>1, <2>2, TaskMoves DEF krtd_begin
  <2> QED BY <2>1, <2>2
<1>2. ASSUME rt_poll \/ krtd_get_highest_prio \/ krtd_test PROVE Moved
  <2>1. /\ krtd' = krtd /\ kpc' \in KrtdLabels /\ Exists(kpc') /\ cur_priority' \in Levels
        /\ kpc \notin {"none", "exited", "sched", "stop"}
    BY <1>0, <1>2 DEF rt_poll, krtd_get_highest_prio, krtd_test, FrameTypes
  <2>2. TaskAt(krtd', kpc')
    BY <1>0, <2>1, TaskMoves
  <2> QED BY <1>0, <2>1, <2>2
<1>3. ASSUME krtd_setscheduler PROVE Moved
  <2>1. krtd' = sched_setscheduler(krtd, cur_priority) /\ kpc = "set" /\ kpc' = "test"
        /\ cur_priority' = cur_priority /\ cur_priority \in Nat
    BY <1>0, <1>3 DEF krtd_setscheduler
  <2>2. krtd' \in Tasks /\ krtd'.should_stop = krtd.should_stop
    BY <1>0, <2>1, SetScheduler
  <2>3. TaskAt(krtd', "set")
    BY <1>0, <2>1, TaskKept
  <2>4. TaskAt(krtd', "test")
    BY <2>2, <2>3, TaskMoves
  <2> QED BY <1>0, <2>1, <2>2, <2>4
<1>4. ASSUME krtd_arm PROVE Moved
  BY <1>0, <1>4, <1>a, SetState, TaskMoves DEF krtd_arm
<1>5. ASSUME krtd_schedule PROVE Moved
  BY <1>0, <1>5, Schedule, TaskMoves DEF krtd_schedule
<1>6. ASSUME krtd_stop_test PROVE Moved
  <2>1. CASE krtd.should_stop
    BY <1>0, <1>6, <1>b, <2>1, NewTask, TaskMoves DEF krtd_stop_test
  <2>2. CASE ~krtd.should_stop
    BY <1>0, <1>6, <1>a, <2>2, SetState, TaskMoves DEF krtd_stop_test
  <2> QED BY <2>1, <2>2
<1>7. Moved
  BY <1>1, <1>2, <1>3, <1>4, <1>5, <1>6 DEF RtThread
<1>8. ControlTypes'
  BY <1>0, <1>7
<1>9. Phases'
  BY <1>0, <1>7 DEF Phases
<1>10. MonitorRests'
  BY <1>0 DEF MonitorRests
<1>11. MonitorSafe'
  BY <1>0 DEF MonitorSafe, CInv
<1> QED BY <1>0, <1>7, <1>8, <1>9, <1>10, <1>11 DEF CInv, ControlInv

(* Steps of kmond: none of them finds krtd gone when SafeMode holds. *)
LEMMA KmondStep ==
    ASSUME FrameTypes, CInv, Alive, Monitor
    PROVE  CInv'
<1> USE LevelsRange DEF Alive, ControlTypes, KmondLabels, Exists, rthread, monitor, kmod, ports, frames, Kmond, Runnable
<1>0. /\ ControlTypes /\ TaskAt(krtd, kpc) /\ TaskAt(kmond, mpc) /\ Phases /\ MonitorRests /\ kmond.on_rq
      /\ UNCHANGED <<kpc, cur_priority, rmod, loads, krtd_on>> /\ kmond \in Tasks /\ krtd \in Tasks
      /\ Exists(mpc)
  BY DEF Monitor, CInv, ControlInv, kmond_begin, kmond_get_highest_prio, kmond_raise, kmond_wake,
         kmond_arm, kmond_schedule, kmond_stop_test
<1>a. "TASK_RUNNING" \in TaskStates /\ "TASK_INTERRUPTIBLE" \in TaskStates
  BY DEF TaskStates
<1>b. NoTask.should_stop = FALSE
  BY DEF NoTask
<1> DEFINE Moved == /\ kmond' \in Tasks /\ mpc' \in KmondLabels /\ msg_priority' \in Levels
                    /\ TaskAt(kmond', mpc')
                    /\ \/ Exists(mpc') /\ kmond'.should_stop = kmond.should_stop
                          /\ kmond'.rt_priority = kmond.rt_priority
                       \/ mpc' = "exited" /\ kmond.should_stop /\ ~kmond'.should_stop
                    /\ ~kmond.should_stop \/ mpc # "stop" \/ mpc' = "exited"
           Raised == /\ krtd' \in Tasks /\ TaskAt(krtd', kpc)
                     /\ krtd'.should_stop = krtd.should_stop
                     /\ oops' = "none" \/ (oops' = "run_monitor" /\ ~Exists(kpc) /\ mpc \in {"raise", "wake"})
<1>1. ASSUME kmond_begin PROVE Moved
  <2>1. CASE kmond.should_stop
    BY <1>0, <1>1, <1>b, <2>1, NewTask, TaskMoves DEF kmond_begin
  <2>2. CASE ~kmond.should_stop
    BY <1>0, <1>1, <2>2, TaskMoves DEF kmond_begin
  <2> QED BY <2>1, <2>2
<1>2. ASSUME kmond_get_highest_prio \/ kmond_raise \/ kmond_wake PROVE Moved
  <2>1. /\ kmond' = kmond /\ mpc' \in KmondLabels /\ Exists(mpc') /\ msg_priority' \in Levels
        /\ mpc \notin {"none", "exited", "sched", "stop"}
    BY <1>0, <1>2 DEF kmond_get_highest_prio, kmond_raise, kmond_wake, FrameTypes
  <2>2. TaskAt(kmond', mpc')
    BY <1>0, <2>1, TaskMoves
  <2> QED BY <1>0, <2>1, <2>2
<1>3. ASSUME kmond_arm PROVE Moved
  BY <1>0, <1>3, <1>a, SetState, TaskMoves DEF kmond_arm
<1>4. ASSUME kmond_schedule PROVE Moved
  BY <1>0, <1>4, Schedule, TaskMoves DEF kmond_schedule
<1>5. ASSUME kmond_stop_test PROVE Moved
  <2>1. CASE kmond.should_stop
    BY <1>0, <1>5, <1>b, <2>1, NewTask, TaskMoves DEF kmond_stop_test
  <2>2. CASE ~kmond.should_stop
    BY <1>0, <1>5, <1>a, <2>2, SetState, TaskMoves DEF kmond_stop_test
  <2> QED BY <2>1, <2>2
<1>6. Moved
  BY <1>1, <1>2, <1>3, <1>4, <1>5 DEF Monitor
<1>7. Raised
  <2>1. CASE kmond_raise
    <3>1. CASE Exists(kpc)
      <4>1. msg_priority \in Nat
        BY <1>0
      <4>2. krtd' = krtd \/ krtd' = sched_setscheduler(krtd, msg_priority)
        BY <2>1, <3>1 DEF kmond_raise
      <4>3. oops' = oops
        BY <2>1, <3>1 DEF kmond_raise
      <4> QED BY <1>0, <3>1, <4>1, <4>2, <4>3, TaskKept, SetScheduler
    <3>2. CASE ~Exists(kpc)
      BY <1>0, <2>1, <3>2 DEF kmond_raise
    <3> QED BY <3>1, <3>2
  <2>2. CASE kmond_wake
    <3>1. CASE Exists(kpc)
      <4>1. krtd' = krtd \/ krtd' = wake_up_process(krtd)
        BY <2>2, <3>1 DEF kmond_wake
      <4>2. oops' = oops
        BY <2>2, <3>1 DEF kmond_wake
      <4> QED BY <1>0, <3>1, <4>1, <4>2, TaskKept, WakeUp
    <3>2. CASE ~Exists(kpc)
      BY <1>0, <2>2, <3>2 DEF kmond_wake
    <3> QED BY <3>1, <3>2
  <2>3. CASE UNCHANGED <<krtd, oops>>
    BY <1>0, <2>3
  <2> QED BY <2>1, <2>2, <2>3 DEF Monitor, kmond_begin, kmond_get_highest_prio, kmond_arm,
                                  kmond_schedule, kmond_stop_test
<1>8. ControlTypes'
  BY <1>0, <1>6, <1>7
<1>9. Phases'
  BY <1>0, <1>6, <1>7 DEF Phases
<1>10. MonitorRests'
  BY <1>0, <1>6 DEF MonitorRests, Phases
<1>11. MonitorSafe'
  BY <1>0, <1>7 DEF MonitorSafe, SafeMode, MonitorRests, Phases
<1> QED BY <1>0, <1>6, <1>7, <1>8, <1>9, <1>10, <1>11 DEF CInv, ControlInv

(* Steps of the driver: a frame may wake kmond, but not while it rests. *)
LEMMA DriverStep ==
    ASSUME FrameTypes, CInv, Alive, Driver
    PROVE  CInv'
<1> USE DEF Alive, ControlTypes, Exists, rthread, monitor, kmod, ports, frames
<1>0. /\ ControlTypes /\ TaskAt(krtd, kpc) /\ TaskAt(kmond, mpc) /\ Phases /\ MonitorRests
      /\ krtd \in Tasks /\ kmond \in Tasks
  BY DEF CInv, ControlInv
<1>1. ASSUME NEW p \in Prios, rtl_rx_rt(p) PROVE CInv'
  <2>1. UNCHANGED <<krtd_on, krtd, kpc, cur_priority, mpc, msg_priority, rmod, loads>>
        /\ RtBranch /\ krtd_on
    BY <1>1 DEF rtl_rx_rt
  <2>2. kmond' = kmond \/ kmond' = wake_up_process(kmond)
    BY <1>1 DEF rtl_rx_rt
  <2>3. oops' \in {"none", "rtl_rx"}
    BY <1>1 DEF rtl_rx_rt
  <2>4. /\ kmond' \in Tasks /\ TaskAt(kmond', mpc) /\ kmond'.should_stop = kmond.should_stop
        /\ kmond'.rt_priority = kmond.rt_priority
    <3>1. CASE kmond' = kmond
      BY <1>0, <3>1
    <3>2. CASE kmond' = wake_up_process(kmond)
      BY <1>0, <3>2, WakeUp, TaskKept
    <3> QED BY <2>2, <3>1, <3>2
  <2>5. ControlTypes'
    BY <1>0, <2>1, <2>3, <2>4
  <2>6. Phases'
    BY <1>0, <2>1, <2>4 DEF Phases
  <2>7. MonitorRests'
    BY <1>0, <2>1 DEF MonitorRests
  <2>8. MonitorSafe'
    BY <2>3 DEF MonitorSafe
  <2> QED BY <1>0, <2>1, <2>4, <2>5, <2>6, <2>7, <2>8 DEF CInv, ControlInv
<1>2. CASE UNCHANGED <<krtd_on, rthread, monitor, kmod, oops>>
  BY <1>0, <1>2 DEF CInv, ControlInv, Phases, MonitorRests, MonitorSafe
<1> QED BY <1>1, <1>2 DEF Driver, hash_add, mark_in_use, rtl_rx_other

(* Loading, unloading and switching.  When rt_handler_exit() gets to run,  *)
(* kmond, at priority 99, is asleep: AdminRuns.                            *)
LEMMA AdministratorStep ==
    ASSUME FrameTypes, CInv, Alive, Administrator
    PROVE  CInv'
<1> USE DEF Alive, ControlTypes, Exists, rthread, monitor, kmod, ports, frames
<1>0. /\ ControlTypes /\ TaskAt(krtd, kpc) /\ TaskAt(kmond, mpc) /\ Phases /\ MonitorRests
      /\ krtd \in Tasks /\ kmond \in Tasks /\ oops = "none"
  BY DEF CInv, ControlInv
<1>a. /\ NoTask.should_stop = FALSE /\ kthread_run.should_stop = FALSE
      /\ 1 \in Levels /\ "start" \in KrtdLabels /\ "start" \in KmondLabels
      /\ "none" \in KrtdLabels /\ "none" \in KmondLabels
  BY NewTask, LevelsRange DEF NoTask, KrtdLabels, KmondLabels
<1>1. ASSUME NEW b \in BOOLEAN, krtd_on_set(b) PROVE CInv'
  <2>1. UNCHANGED <<krtd, kpc, cur_priority, kmond, mpc, msg_priority, rmod, loads, oops>>
        /\ krtd_on' = b /\ (Disciplined /\ b => rmod = "live")
    BY <1>1 DEF krtd_on_set
  <2>2. MonitorRests'
    BY <1>0, <2>1 DEF MonitorRests, SafeMode
  <2>3. ControlTypes' /\ Phases' /\ MonitorSafe'
    BY <1>0, <2>1 DEF Phases, MonitorSafe
  <2> QED BY <1>0, <2>1, <2>2, <2>3 DEF CInv, ControlInv
<1>2. ASSUME NEW b \in BOOLEAN, create_krtd(b) PROVE CInv'
  <2>1. /\ UNCHANGED <<krtd_on, kmond, mpc, msg_priority>> /\ rmod = "out" /\ rmod' = "krtd"
        /\ loads' = loads + 1
    BY <1>2 DEF create_krtd
  <2>2. CASE b
    <3>1. krtd' = kthread_run /\ kpc' = "start" /\ cur_priority' = 1 /\ oops' = oops
      BY <1>2, <2>2 DEF create_krtd
    <3>2. ControlTypes' /\ MonitorSafe'
      BY <1>0, <1>a, <2>1, <3>1, NewTask DEF MonitorSafe
    <3>3. TaskAt(krtd', kpc') /\ Phases' /\ MonitorRests'
      BY <1>0, <1>a, <2>1, <3>1, TaskMoves DEF Phases, MonitorRests
    <3> QED BY <1>0, <2>1, <3>2, <3>3 DEF CInv, ControlInv
  <2>3. CASE ~b
    <3>1. oops' = "rt_handler_init" /\ UNCHANGED <<krtd, kpc, cur_priority>>
      BY <1>2, <2>3 DEF create_krtd
    <3> QED BY <1>0, <2>1, <3>1 DEF CInv, MonitorSafe
  <2> QED BY <2>2, <2>3
<1>3. ASSUME NEW b \in BOOLEAN, create_kmond(b) PROVE CInv'
  <2>1. /\ UNCHANGED <<krtd_on, krtd, kpc, cur_priority, msg_priority, loads>>
        /\ rmod = "krtd" /\ rmod' = "kmond"
    BY <1>3 DEF create_kmond
  <2>2. CASE b
    <3>1. kmond' = kthread_run /\ mpc' = "start" /\ oops' = oops
      BY <1>3, <2>2 DEF create_kmond
    <3>2. ControlTypes' /\ MonitorSafe'
      BY <1>0, <1>a, <2>1, <3>1, NewTask DEF MonitorSafe
    <3>3. TaskAt(kmond', mpc') /\ Phases' /\ MonitorRests'
      BY <1>0, <1>a, <2>1, <3>1, TaskMoves DEF Phases, MonitorRests
    <3> QED BY <1>0, <2>1, <3>2, <3>3 DEF CInv, ControlInv
  <2>3. CASE ~b
    <3>1. oops' = "rt_handler_init" /\ UNCHANGED <<kmond, mpc>>
      BY <1>3, <2>3 DEF create_kmond
    <3> QED BY <1>0, <2>1, <3>1 DEF CInv, MonitorSafe
  <2> QED BY <2>2, <2>3
<1>4. ASSUME NEW b \in BOOLEAN, prioritise_kmond(b) PROVE CInv'
  <2>1. /\ UNCHANGED <<krtd_on, krtd, kpc, cur_priority, mpc, msg_priority, loads, oops>>
        /\ rmod = "kmond" /\ rmod' = IF b THEN "live" ELSE "err_kmond"
        /\ kmond' = IF b THEN sched_setscheduler(kmond, 99) ELSE kthread_stop(kmond)
    BY <1>4 DEF prioritise_kmond
  <2>2. Exists(kpc) /\ Exists(mpc)
    BY <1>0, <2>1 DEF Phases
  <2>3. kmond' \in Tasks /\ TaskAt(kmond', mpc)
    BY <1>0, <2>1, <2>2, SetScheduler, KthreadStop, TaskKept
  <2>4. b => kmond'.should_stop = kmond.should_stop /\ kmond'.rt_priority = 99
    BY <1>0, <2>1, SetScheduler
  <2>5. ControlTypes' /\ MonitorSafe'
    BY <1>0, <2>1, <2>3 DEF MonitorSafe
  <2>6. Phases' /\ MonitorRests'
    BY <1>0, <2>1, <2>2, <2>4 DEF Phases, MonitorRests
  <2> QED BY <1>0, <2>1, <2>3, <2>5, <2>6 DEF CInv, ControlInv
<1>5. CASE init_err_krtd
  <2>1. /\ UNCHANGED <<krtd_on, kpc, cur_priority, kmond, mpc, msg_priority, loads, oops>>
        /\ rmod = "err_kmond" /\ mpc = "exited" /\ rmod' = "err_krtd" /\ krtd' = kthread_stop(krtd)
    BY <1>5 DEF init_err_krtd
  <2>2. Exists(kpc) /\ kmond = NoTask
    BY <1>0, <2>1 DEF Phases, TaskAt
  <2>3. krtd' \in Tasks /\ TaskAt(krtd', kpc)
    BY <1>0, <2>1, <2>2, KthreadStop, TaskKept
  <2>4. ControlTypes' /\ MonitorSafe' /\ Phases' /\ MonitorRests'
    BY <1>0, <1>a, <2>1, <2>2, <2>3 DEF Phases, MonitorRests, MonitorSafe
  <2> QED BY <1>0, <2>1, <2>3, <2>4 DEF CInv, ControlInv
<1>6. CASE init_err_return
  <2>1. /\ UNCHANGED <<krtd_on, krtd, kpc, cur_priority, kmond, mpc, msg_priority, loads, oops>>
        /\ rmod = "err_krtd" /\ kpc = "exited" /\ rmod' = "live"
    BY <1>6 DEF init_err_return
  <2>2. krtd = NoTask /\ mpc = "exited" /\ kmond = NoTask
    BY <1>0, <2>1 DEF Phases, TaskAt
  <2>3. ControlTypes' /\ MonitorSafe' /\ Phases' /\ MonitorRests'
    BY <1>0, <1>a, <2>1, <2>2 DEF Phases, MonitorRests, MonitorSafe
  <2> QED BY <1>0, <2>1, <2>3 DEF CInv, ControlInv
<1>7. CASE exit_stop_krtd
  <2>1. /\ UNCHANGED <<krtd_on, kpc, cur_priority, kmond, mpc, msg_priority, loads>>
        /\ AdminRuns /\ rmod = "live" /\ rmod' = "stop_krtd" /\ (Disciplined => ~krtd_on)
    BY <1>7 DEF exit_stop_krtd
  <2>2. CASE Exists(kpc)
    <3>1. krtd' = kthread_stop(krtd) /\ oops' = oops
      BY <1>7, <2>2 DEF exit_stop_krtd
    <3>2. krtd' \in Tasks /\ TaskAt(krtd', kpc)
      BY <1>0, <2>2, <3>1, KthreadStop, TaskKept
    <3>3. Exists(mpc) /\ kmond.rt_priority = 99
      BY <1>0, <2>1, <2>2 DEF Phases
    <3>4. SafeMode => mpc = "stop" /\ ~kmond.on_rq
      BY <1>0, <2>1, <3>3 DEF SafeMode, AdminRuns, Runnable, TaskAt
    <3>5. MonitorRests'
      BY <2>1, <3>4 DEF MonitorRests, SafeMode
    <3>6. ControlTypes' /\ MonitorSafe' /\ Phases'
      BY <1>0, <2>1, <2>2, <3>1, <3>2, <3>3 DEF Phases, MonitorSafe
    <3> QED BY <1>0, <2>1, <3>2, <3>5, <3>6 DEF CInv, ControlInv
  <2>3. CASE ~Exists(kpc)
    <3>1. oops' = "rt_handler_exit" /\ krtd' = krtd
      BY <1>7, <2>3 DEF exit_stop_krtd
    <3> QED BY <1>0, <2>1, <3>1 DEF CInv, MonitorSafe
  <2> QED BY <2>2, <2>3
<1>8. CASE exit_stop_kmond
  <2>1. /\ UNCHANGED <<krtd_on, krtd, kpc, cur_priority, mpc, msg_priority, loads, oops>>
        /\ rmod = "stop_krtd" /\ kpc = "exited" /\ rmod' = "stop_kmond"
        /\ kmond' = kthread_stop(kmond)
    BY <1>8 DEF exit_stop_kmond
  <2>2. Exists(mpc) /\ krtd = NoTask
    BY <1>0, <2>1 DEF Phases, TaskAt
  <2>3. kmond' \in Tasks /\ TaskAt(kmond', mpc) /\ kmond'.should_stop
    BY <1>0, <2>1, <2>2, KthreadStop, TaskKept
  <2>4. ControlTypes' /\ MonitorSafe' /\ Phases' /\ MonitorRests'
    BY <1>0, <1>a, <2>1, <2>2, <2>3 DEF Phases, MonitorRests, MonitorSafe
  <2> QED BY <1>0, <2>1, <2>3, <2>4 DEF CInv, ControlInv
<1>9. CASE exit_return
  <2>1. /\ UNCHANGED <<krtd_on, krtd, cur_priority, kmond, msg_priority, loads, oops>>
        /\ rmod = "stop_kmond" /\ mpc = "exited" /\ rmod' = "out" /\ kpc' = "none" /\ mpc' = "none"
    BY <1>9 DEF exit_return
  <2>2. krtd = NoTask /\ kmond = NoTask
    BY <1>0, <2>1 DEF Phases, TaskAt
  <2>3. TaskAt(krtd', kpc') /\ TaskAt(kmond', mpc')
    BY <1>0, <2>1, <2>2, TaskMoves
  <2>4. ControlTypes' /\ MonitorSafe' /\ Phases' /\ MonitorRests'
    BY <1>0, <1>a, <2>1, <2>2 DEF Phases, MonitorRests, MonitorSafe
  <2> QED BY <2>3, <2>4 DEF CInv, ControlInv
<1> QED BY <1>1, <1>2, <1>3, <1>4, <1>5, <1>6, <1>7, <1>8, <1>9 DEF Administrator

LEMMA ControlInvariant == Spec => []CInv
<1>1. Init => CInv
  <2> SUFFICES ASSUME Init PROVE CInv
    OBVIOUS
  <2>1. NoTask \in Tasks /\ NoTask.should_stop = FALSE /\ 1 \in Levels
    BY NewTask, LevelsRange DEF NoTask
  <2>2. ControlTypes
    BY <2>1 DEF Init, ControlTypes, KrtdLabels, KmondLabels
  <2>3. ControlInv
    BY <2>1, TaskMoves DEF Init, ControlInv, Phases, MonitorRests
  <2>4. MonitorSafe
    BY DEF Init, MonitorSafe
  <2> QED BY <2>2, <2>3, <2>4 DEF CInv
<1>2. FrameTypes /\ CInv /\ [Next]_vars => CInv'
  <2>1. ASSUME CInv, UNCHANGED vars PROVE CInv'
    <3>1. UNCHANGED <<krtd_on, krtd, kpc, cur_priority, kmond, mpc, msg_priority, rmod, loads, oops>>
      BY <2>1 DEF vars, rthread, monitor, kmod
    <3>2. ControlTypes' /\ MonitorSafe'
      BY <2>1, <3>1 DEF CInv, ControlTypes, MonitorSafe
    <3>3. ASSUME Alive' PROVE ControlInv'
      BY <2>1, <3>1, <3>3 DEF CInv, Alive, ControlInv, Phases, MonitorRests
    <3> QED BY <3>2, <3>3 DEF CInv
  <2> QED BY <2>1, KrtdStep, KmondStep, DriverStep, AdministratorStep DEF Next
<1> QED BY <1>1, <1>2, FrameTypesInvariant, PTL DEF Spec

(* Every variable keeps its type: a queue holds only frames that have     *)
(* arrived, and a priority that krtd or kmond reads names a queue.        *)
THEOREM TypeCorrect == Spec => []TypeOK
<1>1. FrameTypes /\ CInv => TypeOK
  BY DEF FrameTypes, CInv, ControlTypes, TypeOK
<1> QED BY <1>1, FrameTypesInvariant, ControlInvariant, PTL

(* kmond never uses the task of a krtd that has exited, although           *)
(* rt_handler_exit() stops krtd first: it is asleep by then, and nothing   *)
(* wakes it before its own kthread_stop().                                 *)
THEOREM MonitorFindsKrtd == Spec => []MonitorSafe
<1>1. CInv => MonitorSafe
  BY DEF CInv
<1> QED BY <1>1, ControlInvariant, PTL

------------------------------------------------------------------------------
(* XDP programs (XdpAttach) *)

(* The link: freed or with a program, and attached in at most one mode, the *)
(* one its flags name, exactly while it has its device.                     *)
LinkInv ==
    /\ xdp_link.st = "none" => xdp_link = NoLink
    /\ xdp_link.st # "none" => xdp_link.prog \in Prog
    /\ \A m \in Mode : xdp_state[m].link =>
          /\ m = dev_xdp_mode(xdp_link.flags) /\ xdp_state[m].prog = NoProg
          /\ xdp_link.dev /\ xdp_link.st \notin {"none", "failed"}
    /\ xdp_link.dev /\ xdp_link.st # "failed" => xdp_state[dev_xdp_mode(xdp_link.flags)].link

XdpInv == XdpTypeOK /\ XdpSound /\ LinkInv

Progs == Prog \cup {NoProg}
Is(p, q) == IF p = q THEN 1 ELSE 0

(* The references of the driver and of the device. *)
Drivers(p) == Cardinality({m \in Mode : xdp_driver[m] = p})
Devices(p) == Cardinality({m \in Mode : xdp_state[m].prog = p})

LEMMA HoldersAre ==
    ASSUME NEW p
    PROVE  Holders(p) = Drivers(p) + Devices(p)
                          + (IF p \in xdp_fd THEN 1 ELSE 0) + (IF xdp_link.prog = p THEN 1 ELSE 0)
BY DEF Holders, Drivers, Devices

------------------------------------------------------------------------------
(* Counting over the three modes *)

LEMMA ModeCount ==
    ASSUME NEW S \in SUBSET Mode
    PROVE  /\ IsFiniteSet(S)
           /\ Cardinality(S) = (IF "XDP_MODE_SKB" \in S THEN 1 ELSE 0)
                               + (IF "XDP_MODE_DRV" \in S THEN 1 ELSE 0)
                               + (IF "XDP_MODE_HW" \in S THEN 1 ELSE 0)
<1> DEFINE A == S \ {"XDP_MODE_SKB"}
           B == A \ {"XDP_MODE_DRV"}
           C == B \ {"XDP_MODE_HW"}
<1>1. C = {}
  BY DEF Mode
<1>2. IsFiniteSet(C) /\ Cardinality(C) = 0
  BY <1>1, FS_EmptySet
<1>3. IsFiniteSet(Mode)
  <2>1. IsFiniteSet({"XDP_MODE_SKB"})
    BY FS_Singleton
  <2>2. IsFiniteSet({"XDP_MODE_SKB"} \cup {"XDP_MODE_DRV"})
    BY <2>1, FS_AddElement
  <2>3. IsFiniteSet(({"XDP_MODE_SKB"} \cup {"XDP_MODE_DRV"}) \cup {"XDP_MODE_HW"})
    BY <2>2, FS_AddElement
  <2>4. Mode = ({"XDP_MODE_SKB"} \cup {"XDP_MODE_DRV"}) \cup {"XDP_MODE_HW"}
    BY DEF Mode
  <2> QED BY <2>3, <2>4
<1>4. IsFiniteSet(S)
  BY <1>3, FS_Subset
<1>5. /\ IsFiniteSet(A)
      /\ Cardinality(A) = IF "XDP_MODE_SKB" \in S THEN Cardinality(S) - 1 ELSE Cardinality(S)
  BY <1>4, FS_RemoveElement
<1>6. /\ IsFiniteSet(B)
      /\ Cardinality(B) = IF "XDP_MODE_DRV" \in A THEN Cardinality(A) - 1 ELSE Cardinality(A)
  BY <1>5, FS_RemoveElement
<1>7. Cardinality(C) = IF "XDP_MODE_HW" \in B THEN Cardinality(B) - 1 ELSE Cardinality(B)
  BY <1>6, FS_RemoveElement
<1>8. Cardinality(S) \in Nat /\ Cardinality(A) \in Nat /\ Cardinality(B) \in Nat
  BY <1>4, <1>5, <1>6, FS_CardinalityType
<1>9. /\ "XDP_MODE_DRV" \in A <=> "XDP_MODE_DRV" \in S
      /\ "XDP_MODE_HW" \in B <=> "XDP_MODE_HW" \in S
  OBVIOUS
<1> HIDE DEF A, B, C
<1> QED BY <1>2, <1>4, <1>5, <1>6, <1>7, <1>8, <1>9

(* Two sets of modes that differ in one mode at most. *)
LEMMA Replaced ==
    ASSUME NEW F \in SUBSET Mode, NEW G \in SUBSET Mode, NEW mode \in Mode,
           \A m \in Mode \ {mode} : m \in G <=> m \in F
    PROVE  Cardinality(G) = Cardinality(F) + (IF mode \in G THEN 1 ELSE 0) - (IF mode \in F THEN 1 ELSE 0)
<1>1. /\ Cardinality(F) = (IF "XDP_MODE_SKB" \in F THEN 1 ELSE 0)
                          + (IF "XDP_MODE_DRV" \in F THEN 1 ELSE 0)
                          + (IF "XDP_MODE_HW" \in F THEN 1 ELSE 0)
      /\ Cardinality(G) = (IF "XDP_MODE_SKB" \in G THEN 1 ELSE 0)
                          + (IF "XDP_MODE_DRV" \in G THEN 1 ELSE 0)
                          + (IF "XDP_MODE_HW" \in G THEN 1 ELSE 0)
  BY ModeCount
<1> QED BY <1>1 DEF Mode

LEMMA Counts ==
    ASSUME NEW p
    PROVE  Drivers(p) \in Nat /\ Devices(p) \in Nat
<1>1. {m \in Mode : xdp_driver[m] = p} \in SUBSET Mode /\ {m \in Mode : xdp_state[m].prog = p} \in SUBSET Mode
  OBVIOUS
<1> QED BY <1>1, ModeCount, FS_CardinalityType DEF Drivers, Devices

LEMMA CountsNext ==
    ASSUME NEW p
    PROVE  Drivers(p)' \in Nat /\ Devices(p)' \in Nat
<1>1. {m \in Mode : xdp_driver'[m] = p} \in SUBSET Mode /\ {m \in Mode : xdp_state'[m].prog = p} \in SUBSET Mode
  OBVIOUS
<1> QED BY <1>1, ModeCount, FS_CardinalityType DEF Drivers, Devices

(* The driver, or the device, gets another program. *)
LEMMA DriverReplaced ==
    ASSUME NEW mode \in Mode, NEW q, xdp_driver \in [Mode -> Progs],
           xdp_driver' = [xdp_driver EXCEPT ![mode] = q], NEW p
    PROVE  Drivers(p)' = Drivers(p) + Is(p, q) - Is(p, xdp_driver[mode])
<1> DEFINE F == {m \in Mode : xdp_driver[m] = p}
           G == {m \in Mode : xdp_driver'[m] = p}
<1>1. xdp_driver'[mode] = q /\ \A m \in Mode \ {mode} : xdp_driver'[m] = xdp_driver[m]
  OBVIOUS
<1>2. /\ F \in SUBSET Mode /\ G \in SUBSET Mode /\ \A m \in Mode \ {mode} : m \in G <=> m \in F
      /\ mode \in G <=> p = q
      /\ mode \in F <=> p = xdp_driver[mode]
  BY <1>1
<1>3. Drivers(p) = Cardinality(F) /\ Drivers(p)' = Cardinality(G)
  BY DEF Drivers
<1> HIDE DEF F, G
<1> QED BY <1>2, <1>3, Replaced DEF Is

StateRecords == [prog : Progs, link : BOOLEAN]

LEMMA DeviceReplaced ==
    ASSUME NEW mode \in Mode, NEW s \in StateRecords, xdp_state \in [Mode -> StateRecords],
           xdp_state' = [xdp_state EXCEPT ![mode] = s], NEW p
    PROVE  Devices(p)' = Devices(p) + Is(p, s.prog) - Is(p, xdp_state[mode].prog)
<1> DEFINE F == {m \in Mode : xdp_state[m].prog = p}
           G == {m \in Mode : xdp_state'[m].prog = p}
<1>1. xdp_state'[mode] = s /\ \A m \in Mode \ {mode} : xdp_state'[m] = xdp_state[m]
  OBVIOUS
<1>2. /\ F \in SUBSET Mode /\ G \in SUBSET Mode /\ \A m \in Mode \ {mode} : m \in G <=> m \in F
      /\ mode \in G <=> p = s.prog
      /\ mode \in F <=> p = xdp_state[mode].prog
  BY <1>1
<1>3. Devices(p) = Cardinality(F) /\ Devices(p)' = Cardinality(G)
  BY DEF Devices
<1> HIDE DEF F, G
<1> QED BY <1>2, <1>3, Replaced DEF Is

------------------------------------------------------------------------------
(* References *)

LEMMA Inc ==
    ASSUME NEW ref \in [Prog -> Int], NEW q \in Progs
    PROVE  /\ bpf_prog_inc(ref, q) \in [Prog -> Int]
           /\ \A p \in Prog : bpf_prog_inc(ref, q)[p] = ref[p] + Is(p, q)
<1>1. CASE q = NoProg
  BY <1>1, XdpAssumption DEF bpf_prog_inc, Is
<1>2. CASE q \in Prog
  BY <1>2, XdpAssumption DEF bpf_prog_inc, Is
<1> QED BY <1>1, <1>2 DEF Progs

LEMMA Put ==
    ASSUME NEW ref \in [Prog -> Int], NEW q \in Progs
    PROVE  /\ bpf_prog_put(ref, q) \in [Prog -> Int]
           /\ \A p \in Prog : bpf_prog_put(ref, q)[p] = ref[p] - Is(p, q)
<1>1. CASE q = NoProg
  BY <1>1, XdpAssumption DEF bpf_prog_put, Is
<1>2. CASE q \in Prog
  BY <1>2, XdpAssumption DEF bpf_prog_put, Is
<1> QED BY <1>1, <1>2 DEF Progs

LEMMA Modes ==
    /\ \A f \in Mode \cup {DefaultMode} : dev_xdp_mode(f) \in Mode
    /\ DefaultMode \notin Mode
BY DEF dev_xdp_mode, Mode, DefaultMode

(* What the invariant says of the variables, in the shape the steps need.   *)
Shape ==
    /\ xdp_state \in [Mode -> StateRecords] /\ xdp_driver \in [Mode -> Progs]
    /\ xdp_ref \in [Prog -> Int] /\ xdp_fd \in SUBSET Prog
    /\ xdp_link \in [st : {"none", "primed", "failed", "open", "closing"}, prog : Progs,
                     dev : BOOLEAN, flags : Mode \cup {DefaultMode}]

Agree == \A m \in Mode : xdp_driver[m] = IF xdp_state[m].link THEN xdp_link.prog ELSE xdp_state[m].prog
Excluded == xdp_driver["XDP_MODE_SKB"] = NoProg \/ xdp_driver["XDP_MODE_DRV"] = NoProg
Key == xdp_key = IF xdp_driver["XDP_MODE_SKB"] # NoProg THEN 1 ELSE 0
Departed == ~xdp_dev => \A m \in Mode : xdp_driver[m] = NoProg
Refs == \A p \in Prog : xdp_ref[p] = Drivers(p) + Devices(p)
                          + (IF p \in xdp_fd THEN 1 ELSE 0) + Is(p, xdp_link.prog)

Core == Shape /\ Agree /\ Excluded /\ Key /\ Departed /\ Refs /\ LinkInv

LEMMA InvIsCore == XdpInv => Core
<1> SUFFICES ASSUME XdpInv PROVE Core
  OBVIOUS
<1>1. Shape
  BY DEF XdpInv, XdpTypeOK, Shape, StateRecords, Progs
<1>2. Agree
  BY DEF XdpInv, XdpSound, Agree, dev_xdp_prog
<1>3. Excluded /\ Key /\ Departed
  BY DEF XdpInv, XdpSound, Excluded, Key, Departed, Mode
<1>4. Refs
  BY HoldersAre DEF XdpInv, XdpSound, Refs, Is
<1> QED BY <1>1, <1>2, <1>3, <1>4 DEF XdpInv, Core

LEMMA CoreIsInv == Core' => XdpInv'
<1> SUFFICES ASSUME Core' PROVE XdpInv'
  OBVIOUS
<1>1. xdp_ref' \in [Prog -> Nat]
  <2>1. \A p \in Prog : xdp_ref'[p] \in Nat
    BY CountsNext DEF Core, Refs, Is
  <2> QED BY <2>1 DEF Core, Shape
<1>2. XdpTypeOK'
  BY <1>1 DEF Core, Shape, Key, XdpTypeOK, StateRecords, Progs
<1>3. \A p \in Prog : xdp_ref'[p] = Holders(p)'
  <2>1. \A p : Holders(p)' = Drivers(p)' + Devices(p)'
                  + (IF p \in xdp_fd' THEN 1 ELSE 0) + (IF xdp_link'.prog = p THEN 1 ELSE 0)
    BY DEF Holders, Drivers, Devices
  <2> QED BY <2>1 DEF Core, Refs, Is
<1>4. \A m \in Mode : xdp_driver'[m] = dev_xdp_prog(m)'
  BY DEF Core, Agree, dev_xdp_prog
<1>5. Cardinality({m \in Mode : xdp_state[m].link})' <= 1
  <2> DEFINE S == {m \in Mode : xdp_state'[m].link}
  <2>1. S \in SUBSET Mode
    OBVIOUS
  <2>2. \A m, n \in S : m = n
    BY DEF Core, LinkInv
  <2> HIDE DEF S
  <2>3. Cardinality(S) <= 1
    BY <2>1, <2>2, ModeCount
  <2> QED BY <2>3 DEF S
<1>6. ((\E m \in Mode : xdp_state[m].link) <=> (xdp_link.dev /\ xdp_link.st # "failed"))'
  BY Modes DEF Core, LinkInv, Shape, dev_xdp_mode
<1>7. XdpSound'
  BY <1>3, <1>4, <1>5, <1>6 DEF Core, Excluded, Key, Departed, XdpSound, Mode
<1> QED BY <1>2, <1>7 DEF XdpInv, Core
------------------------------------------------------------------------------
(* The steps *)

(* dev_xdp_attach where no link is attached: the references afterwards. *)
LEMMA Attached ==
    ASSUME Core, NEW mode \in Mode, ~xdp_state[mode].link, NEW new \in Progs,
           NEW ref \in [Prog -> Int], Attach(mode, new)
    PROVE  /\ attached_refs(ref, mode, new) \in [Prog -> Int]
           /\ \A p \in Prog : attached_refs(ref, mode, new)[p]
                 = ref[p] + Is(p, new) - Is(p, xdp_driver[mode]) - Is(p, xdp_state[mode].prog)
           /\ xdp_driver' = [xdp_driver EXCEPT ![mode] = new]
           /\ Key'
<1> DEFINE cur == xdp_state[mode].prog
<1>1. /\ xdp_driver[mode] = cur /\ dev_xdp_prog(mode) = cur /\ cur \in Progs
      /\ xdp_driver \in [Mode -> Progs]
  BY DEF Core, Agree, Shape, StateRecords, dev_xdp_prog
<1> HIDE DEF cur
<1>2. CASE new # cur
  <2> DEFINE a == bpf_prog_inc(ref, new)
             b == bpf_prog_put(a, cur)
             c == bpf_prog_put(b, cur)
  <2>1. a \in [Prog -> Int] /\ \A p \in Prog : a[p] = ref[p] + Is(p, new)
    BY Inc
  <2> HIDE DEF a
  <2>2. b \in [Prog -> Int] /\ \A p \in Prog : b[p] = a[p] - Is(p, cur)
    BY <1>1, <2>1, Put
  <2> HIDE DEF b
  <2>3. c \in [Prog -> Int] /\ \A p \in Prog : c[p] = b[p] - Is(p, cur)
    BY <1>1, <2>2, Put
  <2>4. attached_refs(ref, mode, new) = c
    BY <1>1, <1>2 DEF attached_refs, dev_xdp_install, a, b, c
  <2> HIDE DEF c
  <2>5. \A p \in Prog : c[p] = ref[p] + Is(p, new) - Is(p, cur) - Is(p, cur)
    BY <2>1, <2>2, <2>3 DEF Is
  <2>6. xdp_driver' = [xdp_driver EXCEPT ![mode] = new] /\ xdp_key' = generic_key(mode, new)
    BY <1>1, <1>2 DEF Attach, Installs
  <2>7. Key'
    BY <1>1, <2>6 DEF Key, Core, generic_key, Mode
  <2> QED BY <1>1, <2>3, <2>4, <2>5, <2>6, <2>7 DEF cur
<1>3. CASE new = cur
  <2> DEFINE c == bpf_prog_put(ref, cur)
  <2>1. c \in [Prog -> Int] /\ \A p \in Prog : c[p] = ref[p] - Is(p, cur)
    BY <1>1, Put
  <2>2. attached_refs(ref, mode, new) = c
    BY <1>1, <1>3 DEF attached_refs, c
  <2> HIDE DEF c
  <2>3. \A p \in Prog : c[p] = ref[p] + Is(p, new) - Is(p, cur) - Is(p, cur)
    BY <1>3, <2>1 DEF Is
  <2>4. xdp_driver' = xdp_driver /\ xdp_key' = xdp_key
    BY <1>1, <1>3 DEF Attach
  <2>5. xdp_driver' = [xdp_driver EXCEPT ![mode] = new] /\ Key'
    BY <1>1, <1>3, <2>4 DEF Core, Key
  <2> QED BY <1>1, <2>1, <2>2, <2>3, <2>5 DEF cur
<1> QED BY <1>2, <1>3

(* Generic and driver programs exclude each other after an attachment. *)
LEMMA StillExcluded ==
    ASSUME Core, NEW mode \in Mode, NEW new \in Progs,
           xdp_driver' = [xdp_driver EXCEPT ![mode] = new],
           new # NoProg /\ mode # "XDP_MODE_HW" =>
              xdp_driver[IF mode = "XDP_MODE_SKB" THEN "XDP_MODE_DRV" ELSE "XDP_MODE_SKB"] = NoProg
    PROVE  Excluded'
<1>1. xdp_driver \in [Mode -> Progs] /\ Excluded
  BY DEF Core, Shape
<1>2. CASE mode = "XDP_MODE_HW"
  BY <1>1, <1>2 DEF Excluded, Mode
<1>3. CASE mode = "XDP_MODE_SKB"
  BY <1>1, <1>3 DEF Excluded, Mode
<1>4. CASE mode = "XDP_MODE_DRV"
  BY <1>1, <1>4 DEF Excluded, Mode
<1> QED BY <1>2, <1>3, <1>4 DEF Mode

LEMMA ChangeKeeps ==
    ASSUME Core, NEW new \in Progs, NEW old \in Progs, NEW flags \in Mode \cup {DefaultMode},
           NEW replace, NEW noexist, dev_change_xdp_fd(new, old, flags, replace, noexist)
    PROVE  Core'
<1> DEFINE mode == dev_xdp_mode(flags)
           s == [prog |-> new, link |-> FALSE]
           h == bpf_prog_inc(bpf_prog_inc(xdp_ref, new), old)
           a == attached_refs(h, mode, new)
<1>1. mode \in Mode
  BY Modes
<1>2. /\ xdp_dev /\ may_attach(FALSE, new, old, flags, replace, noexist) /\ Attach(mode, new)
      /\ xdp_state' = [xdp_state EXCEPT ![mode] = s]
      /\ xdp_ref' = bpf_prog_put(a, old)
      /\ UNCHANGED <<xdp_fd, xdp_link, xdp_upper, xdp_dev>>
  BY DEF dev_change_xdp_fd
<1> HIDE DEF mode
<1>3. ~xdp_state[mode].link
  BY <1>2 DEF may_attach, mode
<1>4. s \in StateRecords /\ s.prog = new /\ s.link = FALSE
  BY DEF StateRecords
<1> HIDE DEF s
<1>5. h \in [Prog -> Int] /\ \A p \in Prog : h[p] = xdp_ref[p] + Is(p, new) + Is(p, old)
  <2> DEFINE b == bpf_prog_inc(xdp_ref, new)
  <2>1. b \in [Prog -> Int] /\ \A p \in Prog : b[p] = xdp_ref[p] + Is(p, new)
    BY Inc DEF Core, Shape
  <2> HIDE DEF b
  <2>2. bpf_prog_inc(b, old) \in [Prog -> Int] /\ \A p \in Prog : bpf_prog_inc(b, old)[p] = b[p] + Is(p, old)
    BY <2>1, Inc
  <2> QED BY <2>1, <2>2 DEF b
<1> HIDE DEF h
<1>6. /\ a \in [Prog -> Int]
      /\ \A p \in Prog : a[p]
            = h[p] + Is(p, new) - Is(p, xdp_driver[mode]) - Is(p, xdp_state[mode].prog)
      /\ xdp_driver' = [xdp_driver EXCEPT ![mode] = new] /\ Key'
  BY <1>1, <1>2, <1>3, <1>5, Attached
<1> HIDE DEF a
<1>7. xdp_ref' \in [Prog -> Int] /\ \A p \in Prog : xdp_ref'[p] = a[p] - Is(p, old)
  BY <1>2, <1>6, Put
<1>8. Shape'
  BY <1>1, <1>2, <1>4, <1>6, <1>7 DEF Core, Shape
<1>9. Refs'
  <2> SUFFICES ASSUME NEW p \in Prog
               PROVE  xdp_ref'[p] = Drivers(p)' + Devices(p)'
                         + (IF p \in xdp_fd' THEN 1 ELSE 0) + Is(p, xdp_link'.prog)
    BY DEF Refs
  <2>1. Drivers(p)' = Drivers(p) + Is(p, new) - Is(p, xdp_driver[mode])
    BY <1>1, <1>6, DriverReplaced DEF Core, Shape
  <2>2. Devices(p)' = Devices(p) + Is(p, new) - Is(p, xdp_state[mode].prog)
    BY <1>1, <1>2, <1>4, DeviceReplaced DEF Core, Shape
  <2>3. xdp_ref[p] = Drivers(p) + Devices(p)
                       + (IF p \in xdp_fd THEN 1 ELSE 0) + Is(p, xdp_link.prog)
    BY DEF Core, Refs
  <2>4. xdp_ref[p] \in Int /\ Drivers(p) \in Nat /\ Devices(p) \in Nat
    BY Counts DEF Core, Shape
  <2>5. xdp_ref'[p] = xdp_ref[p] + Is(p, new) + Is(p, old) + Is(p, new) - Is(p, xdp_driver[mode])
                        - Is(p, xdp_state[mode].prog) - Is(p, old)
    BY <1>5, <1>6, <1>7, <2>4 DEF Is
  <2>6. xdp_fd' = xdp_fd /\ xdp_link' = xdp_link
    BY <1>2
  <2> QED BY <2>1, <2>2, <2>3, <2>4, <2>5, <2>6 DEF Is
<1>10. Agree'
  BY <1>1, <1>2, <1>4, <1>6 DEF Core, Shape, Agree
<1>11. Excluded'
  <2>1. \A m \in Mode : dev_xdp_prog(m) = xdp_driver[m]
    BY DEF Core, Agree, dev_xdp_prog
  <2>2. new # NoProg /\ mode # "XDP_MODE_HW" =>
           xdp_driver[IF mode = "XDP_MODE_SKB" THEN "XDP_MODE_DRV" ELSE "XDP_MODE_SKB"] = NoProg
    BY <1>2, <2>1 DEF may_attach, mode, Mode
  <2> QED BY <1>1, <1>6, <2>2, StillExcluded
<1>12. LinkInv'
  BY <1>1, <1>2, <1>3, <1>4 DEF Core, Shape, LinkInv, dev_xdp_mode
<1>13. Departed'
  BY <1>2 DEF Departed
<1> QED BY <1>6, <1>8, <1>9, <1>10, <1>11, <1>12, <1>13 DEF Core

LEMMA LinkAttachKeeps ==
    ASSUME Core, NEW q \in Prog, NEW flags \in Mode \cup {DefaultMode}, bpf_xdp_link_attach(q, flags)
    PROVE  Core'
<1> DEFINE mode == dev_xdp_mode(flags)
           s == [prog |-> NoProg, link |-> TRUE]
           h == bpf_prog_inc(xdp_ref, q)
           k == [st |-> "primed", prog |-> q, dev |-> TRUE, flags |-> flags]
<1>1. mode \in Mode /\ q \in Progs /\ q # NoProg
  BY Modes, XdpAssumption DEF Progs
<1>2. /\ xdp_dev /\ xdp_link.st = "none" /\ may_attach(TRUE, q, NoProg, flags, FALSE, FALSE)
      /\ Attach(mode, q) /\ xdp_state' = [xdp_state EXCEPT ![mode] = s]
      /\ xdp_ref' = attached_refs(h, mode, q) /\ xdp_link' = k
      /\ UNCHANGED <<xdp_fd, xdp_upper, xdp_dev>>
  BY DEF bpf_xdp_link_attach
<1> HIDE DEF mode
<1>3. ~xdp_state[mode].link /\ xdp_state[mode].prog = NoProg
  BY <1>2 DEF may_attach, dev_xdp_prog, mode
<1>4. s \in StateRecords /\ s.prog = NoProg /\ s.link = TRUE
  BY DEF StateRecords, Progs
<1> HIDE DEF s
<1>5. h \in [Prog -> Int] /\ \A p \in Prog : h[p] = xdp_ref[p] + Is(p, q)
  BY <1>1, Inc DEF Core, Shape
<1> HIDE DEF h
<1>6. /\ xdp_ref' \in [Prog -> Int]
      /\ \A p \in Prog : xdp_ref'[p]
            = h[p] + Is(p, q) - Is(p, xdp_driver[mode]) - Is(p, xdp_state[mode].prog)
      /\ xdp_driver' = [xdp_driver EXCEPT ![mode] = q] /\ Key'
  BY <1>1, <1>2, <1>3, <1>5, Attached
<1>7. /\ k.st = "primed" /\ k.prog = q /\ k.dev = TRUE /\ k.flags = flags
      /\ k \in [st : {"none", "primed", "failed", "open", "closing"}, prog : Progs,
                dev : BOOLEAN, flags : Mode \cup {DefaultMode}]
  BY <1>1
<1> HIDE DEF k
<1>8. Shape'
  BY <1>1, <1>2, <1>4, <1>6, <1>7 DEF Core, Shape
<1>9. xdp_link.prog = NoProg /\ \A m \in Mode : ~xdp_state[m].link
  BY <1>2 DEF Core, LinkInv, NoLink
<1>10. Refs'
  <2> SUFFICES ASSUME NEW p \in Prog
               PROVE  xdp_ref'[p] = Drivers(p)' + Devices(p)'
                         + (IF p \in xdp_fd' THEN 1 ELSE 0) + Is(p, xdp_link'.prog)
    BY DEF Refs
  <2>1. Drivers(p)' = Drivers(p) + Is(p, q) - Is(p, xdp_driver[mode])
    BY <1>1, <1>6, DriverReplaced DEF Core, Shape
  <2>2. Devices(p)' = Devices(p) + Is(p, NoProg) - Is(p, NoProg)
    BY <1>1, <1>2, <1>3, <1>4, DeviceReplaced DEF Core, Shape
  <2>3. xdp_ref[p] = Drivers(p) + Devices(p)
                       + (IF p \in xdp_fd THEN 1 ELSE 0) + Is(p, NoProg)
    BY <1>9 DEF Core, Refs
  <2>4. xdp_ref[p] \in Int /\ Drivers(p) \in Nat /\ Devices(p) \in Nat
    BY Counts DEF Core, Shape
  <2>5. xdp_ref'[p] = xdp_ref[p] + Is(p, q) + Is(p, q) - Is(p, xdp_driver[mode]) - Is(p, NoProg)
    BY <1>3, <1>5, <1>6, <2>4 DEF Is
  <2>6. xdp_fd' = xdp_fd /\ xdp_link'.prog = q /\ Is(p, NoProg) = 0
    BY <1>2, <1>7, XdpAssumption DEF Is
  <2> QED BY <2>1, <2>2, <2>3, <2>4, <2>5, <2>6 DEF Is
<1>11. Agree'
  BY <1>1, <1>2, <1>4, <1>6, <1>7, <1>9 DEF Core, Shape, Agree
<1>12. Excluded'
  <2>1. \A m \in Mode : dev_xdp_prog(m) = xdp_driver[m]
    BY DEF Core, Agree, dev_xdp_prog
  <2>2. mode # "XDP_MODE_HW" =>
           xdp_driver[IF mode = "XDP_MODE_SKB" THEN "XDP_MODE_DRV" ELSE "XDP_MODE_SKB"] = NoProg
    BY <1>1, <1>2, <2>1 DEF may_attach, mode, Mode
  <2> QED BY <1>1, <1>6, <2>2, StillExcluded
<1>13. LinkInv'
  BY <1>1, <1>2, <1>4, <1>7, <1>9 DEF Core, Shape, LinkInv, dev_xdp_mode, mode
<1>14. Departed'
  BY <1>2 DEF Departed
<1> QED BY <1>6, <1>8, <1>10, <1>11, <1>12, <1>13, <1>14 DEF Core

(* A step that leaves what is attached alone: the reference of a holder of  *)
(* q comes or goes.                                                         *)
LEMMA NothingAttached ==
    ASSUME Core, UNCHANGED <<xdp_state, xdp_driver, xdp_key>>, xdp_ref' \in [Prog -> Int],
           xdp_fd' \in SUBSET Prog,
           xdp_link' \in [st : {"none", "primed", "failed", "open", "closing"}, prog : Progs,
                          dev : BOOLEAN, flags : Mode \cup {DefaultMode}],
           \A p \in Prog : xdp_ref'[p] = xdp_ref[p]
               + (IF p \in xdp_fd' THEN 1 ELSE 0) - (IF p \in xdp_fd THEN 1 ELSE 0)
               + Is(p, xdp_link'.prog) - Is(p, xdp_link.prog),
           (\A m \in Mode : ~xdp_state[m].link) \/ xdp_link'.prog = xdp_link.prog,
           Departed', LinkInv'
    PROVE  Core'
<1>1. Shape'
  BY DEF Core, Shape
<1>2. Agree'
  BY DEF Core, Agree
<1>3. Excluded' /\ Key'
  BY DEF Core, Excluded, Key
<1>4. Refs'
  <2> SUFFICES ASSUME NEW p \in Prog
               PROVE  xdp_ref'[p] = Drivers(p)' + Devices(p)'
                         + (IF p \in xdp_fd' THEN 1 ELSE 0) + Is(p, xdp_link'.prog)
    BY DEF Refs
  <2>1. Drivers(p)' = Drivers(p) /\ Devices(p)' = Devices(p)
    BY DEF Drivers, Devices
  <2>2. xdp_ref[p] = Drivers(p) + Devices(p)
                       + (IF p \in xdp_fd THEN 1 ELSE 0) + Is(p, xdp_link.prog)
    BY DEF Core, Refs
  <2>3. xdp_ref[p] \in Int /\ Drivers(p) \in Nat /\ Devices(p) \in Nat
    BY Counts DEF Core, Shape
  <2>4. xdp_ref'[p] = xdp_ref[p]
               + (IF p \in xdp_fd' THEN 1 ELSE 0) - (IF p \in xdp_fd THEN 1 ELSE 0)
               + Is(p, xdp_link'.prog) - Is(p, xdp_link.prog)
    OBVIOUS
  <2> QED BY <2>1, <2>2, <2>3, <2>4 DEF Is
<1> QED BY <1>1, <1>2, <1>3, <1>4 DEF Core

(* Descriptors are opened and closed. *)
LEMMA DescriptorKeeps ==
    ASSUME Core, NEW q \in Prog, open_prog(q) \/ close_prog(q)
    PROVE  Core'
<1>1. /\ UNCHANGED <<xdp_state, xdp_driver, xdp_link, xdp_key, xdp_upper, xdp_dev>>
      /\ xdp_ref \in [Prog -> Int] /\ xdp_fd \in SUBSET Prog /\ q \in Progs
      /\ xdp_link \in [st : {"none", "primed", "failed", "open", "closing"}, prog : Progs,
                       dev : BOOLEAN, flags : Mode \cup {DefaultMode}]
  BY DEF open_prog, close_prog, Core, Shape, Progs
<1>2. Departed' /\ LinkInv'
  BY <1>1 DEF Core, Departed, LinkInv, dev_xdp_mode
<1>3. CASE open_prog(q)
  <2>1. q \notin xdp_fd /\ xdp_fd' = xdp_fd \cup {q} /\ xdp_ref' = bpf_prog_inc(xdp_ref, q)
    BY <1>3 DEF open_prog
  <2>2. xdp_ref' \in [Prog -> Int] /\ \A p \in Prog : xdp_ref'[p] = xdp_ref[p] + Is(p, q)
    BY <1>1, <2>1, Inc
  <2>3. \A p \in Prog : xdp_ref'[p] = xdp_ref[p]
               + (IF p \in xdp_fd' THEN 1 ELSE 0) - (IF p \in xdp_fd THEN 1 ELSE 0)
               + Is(p, xdp_link'.prog) - Is(p, xdp_link.prog)
    BY <1>1, <2>1, <2>2 DEF Is
  <2>4. xdp_fd' \in SUBSET Prog
    BY <1>1, <2>1
  <2> QED BY <1>1, <1>2, <2>2, <2>3, <2>4, NothingAttached
<1>4. CASE close_prog(q)
  <2>1. q \in xdp_fd /\ xdp_fd' = xdp_fd \ {q} /\ xdp_ref' = bpf_prog_put(xdp_ref, q)
    BY <1>4 DEF close_prog
  <2>2. xdp_ref' \in [Prog -> Int] /\ \A p \in Prog : xdp_ref'[p] = xdp_ref[p] - Is(p, q)
    BY <1>1, <2>1, Put
  <2>3. \A p \in Prog : xdp_ref'[p] = xdp_ref[p]
               + (IF p \in xdp_fd' THEN 1 ELSE 0) - (IF p \in xdp_fd THEN 1 ELSE 0)
               + Is(p, xdp_link'.prog) - Is(p, xdp_link.prog)
    BY <1>1, <2>1, <2>2 DEF Is
  <2>4. xdp_fd' \in SUBSET Prog
    BY <1>1, <2>1
  <2> QED BY <1>1, <1>2, <2>2, <2>3, <2>4, NothingAttached
<1> QED BY <1>3, <1>4

(* The device is registered again, the upper device changes, or a link that *)
(* has its program gets a descriptor or loses its last one.                 *)
LEMMA QuietKeeps ==
    ASSUME Core, register_dev \/ upper_changes \/ bpf_link_settle \/ bpf_link_close
    PROVE  Core'
<1>1. /\ UNCHANGED <<xdp_state, xdp_driver, xdp_ref, xdp_fd, xdp_key>>
      /\ xdp_ref \in [Prog -> Int] /\ xdp_fd \in SUBSET Prog
      /\ xdp_link \in [st : {"none", "primed", "failed", "open", "closing"}, prog : Progs,
                       dev : BOOLEAN, flags : Mode \cup {DefaultMode}]
  BY DEF register_dev, upper_changes, bpf_link_settle, bpf_link_close, Core, Shape
<1>2. \/ xdp_link' = xdp_link
      \/ xdp_link' = [xdp_link EXCEPT !.st = "open"] /\ xdp_link.st = "primed"
      \/ xdp_link' = [xdp_link EXCEPT !.st = "closing"] /\ xdp_link.st = "open"
  BY DEF register_dev, upper_changes, bpf_link_settle, bpf_link_close
<1>3. /\ xdp_link' \in [st : {"none", "primed", "failed", "open", "closing"}, prog : Progs,
                        dev : BOOLEAN, flags : Mode \cup {DefaultMode}]
      /\ xdp_link'.prog = xdp_link.prog /\ xdp_link'.dev = xdp_link.dev /\ xdp_link'.flags = xdp_link.flags
      /\ \/ xdp_link' = xdp_link
         \/ xdp_link'.st \in {"open", "closing"} /\ xdp_link.st \in {"primed", "open"}
  BY <1>1, <1>2
<1>4. LinkInv'
  BY <1>1, <1>3 DEF Core, LinkInv, dev_xdp_mode
<1>5. Departed'
  BY <1>1 DEF register_dev, upper_changes, bpf_link_settle, bpf_link_close, Core, Departed
<1>6. \A p \in Prog : xdp_ref'[p] = xdp_ref[p]
               + (IF p \in xdp_fd' THEN 1 ELSE 0) - (IF p \in xdp_fd THEN 1 ELSE 0)
               + Is(p, xdp_link'.prog) - Is(p, xdp_link.prog)
  BY <1>1, <1>3 DEF Is
<1> QED BY <1>1, <1>3, <1>4, <1>5, <1>6, NothingAttached

(* A link whose attachment failed holds its program until it is cleaned up, *)
(* one that was closed until it is freed.                                   *)
LEMMA LinkFailsKeeps ==
    ASSUME Core, NEW q \in Prog, NEW flags \in Mode \cup {DefaultMode}, bpf_xdp_link_attach_fails(q, flags)
    PROVE  Core'
<1> DEFINE k == [st |-> "failed", prog |-> q, dev |-> TRUE, flags |-> flags]
<1>1. /\ xdp_link.st = "none" /\ xdp_link' = k /\ xdp_ref' = bpf_prog_inc(xdp_ref, q)
      /\ UNCHANGED <<xdp_state, xdp_driver, xdp_fd, xdp_key, xdp_upper, xdp_dev>>
      /\ xdp_ref \in [Prog -> Int] /\ xdp_fd \in SUBSET Prog /\ q \in Progs
  BY DEF bpf_xdp_link_attach_fails, Core, Shape, Progs
<1>2. /\ k.st = "failed" /\ k.prog = q /\ k.dev = TRUE /\ k.flags = flags
      /\ k \in [st : {"none", "primed", "failed", "open", "closing"}, prog : Progs,
                dev : BOOLEAN, flags : Mode \cup {DefaultMode}]
  BY <1>1
<1> HIDE DEF k
<1>3. xdp_link.prog = NoProg /\ \A m \in Mode : ~xdp_state[m].link
  BY <1>1 DEF Core, LinkInv, NoLink
<1>4. xdp_ref' \in [Prog -> Int] /\ \A p \in Prog : xdp_ref'[p] = xdp_ref[p] + Is(p, q)
  BY <1>1, Inc
<1>5. \A p \in Prog : xdp_ref'[p] = xdp_ref[p]
               + (IF p \in xdp_fd' THEN 1 ELSE 0) - (IF p \in xdp_fd THEN 1 ELSE 0)
               + Is(p, xdp_link'.prog) - Is(p, xdp_link.prog)
  BY <1>1, <1>2, <1>3, <1>4, XdpAssumption DEF Is
<1>6. LinkInv' /\ Departed'
  BY <1>1, <1>2, <1>3 DEF Core, LinkInv, Departed, dev_xdp_mode
<1> QED BY <1>1, <1>2, <1>3, <1>4, <1>5, <1>6, NothingAttached

LEMMA LinkFreedKeeps ==
    ASSUME Core, bpf_link_cleanup \/ bpf_xdp_link_dealloc
    PROVE  Core'
<1>1. /\ xdp_link.st = "failed" \/ (xdp_link.st = "closing" /\ ~xdp_link.dev)
      /\ xdp_link' = NoLink /\ xdp_ref' = bpf_prog_put(xdp_ref, xdp_link.prog)
      /\ UNCHANGED <<xdp_state, xdp_driver, xdp_fd, xdp_key, xdp_upper, xdp_dev>>
      /\ xdp_ref \in [Prog -> Int] /\ xdp_fd \in SUBSET Prog /\ xdp_link.prog \in Progs
  BY DEF bpf_link_cleanup, bpf_xdp_link_dealloc, Core, Shape
<1>2. /\ NoLink.st = "none" /\ NoLink.prog = NoProg /\ NoLink.dev = FALSE
      /\ NoLink \in [st : {"none", "primed", "failed", "open", "closing"}, prog : Progs,
                     dev : BOOLEAN, flags : Mode \cup {DefaultMode}]
  BY DEF NoLink, Progs
<1>3. \A m \in Mode : ~xdp_state[m].link
  BY <1>1 DEF Core, LinkInv
<1>4. xdp_ref' \in [Prog -> Int] /\ \A p \in Prog : xdp_ref'[p] = xdp_ref[p] - Is(p, xdp_link.prog)
  BY <1>1, Put
<1>5. \A p \in Prog : xdp_ref'[p] = xdp_ref[p]
               + (IF p \in xdp_fd' THEN 1 ELSE 0) - (IF p \in xdp_fd THEN 1 ELSE 0)
               + Is(p, xdp_link'.prog) - Is(p, xdp_link.prog)
  BY <1>1, <1>2, <1>4, XdpAssumption DEF Is
<1>6. LinkInv' /\ Departed'
  BY <1>1, <1>2, <1>3 DEF Core, LinkInv, Departed, dev_xdp_mode
<1> QED BY <1>1, <1>2, <1>3, <1>4, <1>5, <1>6, NothingAttached

(* The program of a link is uninstalled, and stays the link's. *)
LEMMA LinkDetachKeeps ==
    ASSUME Core, bpf_xdp_link_detach
    PROVE  Core'
<1> DEFINE mode == dev_xdp_mode(xdp_link.flags)
           s == [prog |-> NoProg, link |-> FALSE]
           k == [xdp_link EXCEPT !.dev = FALSE]
<1>1. /\ xdp_link.st \in {"open", "closing"} /\ xdp_link.dev /\ xdp_state[mode].link
      /\ xdp_driver' = [xdp_driver EXCEPT ![mode] = NoProg] /\ xdp_key' = generic_key(mode, NoProg)
      /\ xdp_ref' = dev_xdp_install(xdp_ref, mode, NoProg)
      /\ xdp_state' = [xdp_state EXCEPT ![mode] = s]
      /\ xdp_link' = k
      /\ UNCHANGED <<xdp_fd, xdp_upper, xdp_dev>>
  BY DEF bpf_xdp_link_detach, Detach, Installs
<1>2. mode \in Mode
  BY Modes DEF Core, Shape
<1>3. /\ k.st = xdp_link.st /\ k.prog = xdp_link.prog /\ k.dev = FALSE /\ k.flags = xdp_link.flags
      /\ k \in [st : {"none", "primed", "failed", "open", "closing"}, prog : Progs,
                dev : BOOLEAN, flags : Mode \cup {DefaultMode}]
  BY DEF Core, Shape
<1> HIDE DEF k
<1>4. s \in StateRecords /\ s.prog = NoProg /\ s.link = FALSE
  BY DEF StateRecords, Progs
<1> HIDE DEF s
<1>5. \A m \in Mode : xdp_state[m].link => m = mode /\ xdp_state[m].prog = NoProg
  BY DEF Core, LinkInv
<1> HIDE DEF mode
<1>6. xdp_driver[mode] \in Progs /\ xdp_driver[mode] = xdp_link.prog /\ xdp_link.prog # NoProg
  BY <1>1, <1>2, XdpAssumption DEF Core, Shape, Agree, LinkInv
<1>7. xdp_ref' \in [Prog -> Int] /\ \A p \in Prog : xdp_ref'[p] = xdp_ref[p] - Is(p, xdp_driver[mode])
  <2>1. xdp_ref' = bpf_prog_put(xdp_ref, xdp_driver[mode]) /\ xdp_ref \in [Prog -> Int]
    BY <1>1 DEF dev_xdp_install, bpf_prog_inc, Core, Shape
  <2> QED BY <1>6, <2>1, Put
<1>8. Shape'
  <2>1. NoProg \in Progs
    BY DEF Progs
  <2> QED BY <1>1, <1>2, <1>3, <1>4, <1>7, <2>1 DEF Core, Shape
<1>9. Refs'
  <2> SUFFICES ASSUME NEW p \in Prog
               PROVE  xdp_ref'[p] = Drivers(p)' + Devices(p)'
                         + (IF p \in xdp_fd' THEN 1 ELSE 0) + Is(p, xdp_link'.prog)
    BY DEF Refs
  <2>1. Drivers(p)' = Drivers(p) + Is(p, NoProg) - Is(p, xdp_driver[mode])
    BY <1>1, <1>2, DriverReplaced DEF Core, Shape
  <2>2. Devices(p)' = Devices(p) + Is(p, NoProg) - Is(p, NoProg)
    BY <1>1, <1>2, <1>4, <1>5, DeviceReplaced DEF Core, Shape
  <2>3. xdp_ref[p] = Drivers(p) + Devices(p)
                       + (IF p \in xdp_fd THEN 1 ELSE 0) + Is(p, xdp_link.prog)
    BY DEF Core, Refs
  <2>4. xdp_ref[p] \in Int /\ Drivers(p) \in Nat /\ Devices(p) \in Nat
    BY Counts DEF Core, Shape
  <2>5. xdp_ref'[p] = xdp_ref[p] - Is(p, xdp_driver[mode])
    BY <1>7
  <2>6. xdp_fd' = xdp_fd /\ xdp_link'.prog = xdp_link.prog /\ Is(p, NoProg) = 0
    BY <1>1, <1>3, XdpAssumption DEF Is
  <2> QED BY <2>1, <2>2, <2>3, <2>4, <2>5, <2>6 DEF Is
<1>10. Agree'
  BY <1>1, <1>2, <1>3, <1>4 DEF Core, Shape, Agree
<1>11. Excluded'
  <2>1. NoProg \in Progs
    BY DEF Progs
  <2> QED BY <1>1, <1>2, <2>1, StillExcluded
<1>12. Key'
  BY <1>1, <1>2, <1>6 DEF Core, Shape, Key, generic_key, Mode
<1>13. LinkInv'
  BY <1>1, <1>2, <1>3, <1>4, <1>5 DEF Core, Shape, LinkInv, dev_xdp_mode
<1>14. Departed'
  BY <1>1, <1>2 DEF Core, Shape, Departed
<1> QED BY <1>8, <1>9, <1>10, <1>11, <1>12, <1>13, <1>14 DEF Core

(* Another program takes the place of the link's, or the same one again. *)
LEMMA LinkUpdateKeeps ==
    ASSUME Core, NEW q \in Prog, NEW old, bpf_xdp_link_update(q, old)
    PROVE  Core'
<1> DEFINE mode == dev_xdp_mode(xdp_link.flags)
           cur == xdp_link.prog
           k == [xdp_link EXCEPT !.prog = q]
<1>1. /\ xdp_link.st = "open" /\ xdp_link.dev
      /\ xdp_ref' = link_update_refs(q, mode)
      /\ IF q = cur THEN UNCHANGED <<xdp_driver, xdp_key>> ELSE Installs(mode, q)
      /\ xdp_link' = k
      /\ UNCHANGED <<xdp_state, xdp_fd, xdp_upper, xdp_dev>>
  BY DEF bpf_xdp_link_update
<1>2. mode \in Mode /\ q \in Progs /\ q # NoProg
  BY Modes, XdpAssumption DEF Core, Shape, Progs
<1>3. /\ k.st = xdp_link.st /\ k.prog = q /\ k.dev = xdp_link.dev /\ k.flags = xdp_link.flags
      /\ k \in [st : {"none", "primed", "failed", "open", "closing"}, prog : Progs,
                dev : BOOLEAN, flags : Mode \cup {DefaultMode}]
  BY <1>2 DEF Core, Shape
<1> HIDE DEF k
<1>4. /\ xdp_state[mode].link
      /\ \A m \in Mode : xdp_state[m].link => m = mode
  BY <1>1 DEF Core, LinkInv
<1>5. LinkInv'
  BY <1>1, <1>3 DEF Core, LinkInv, dev_xdp_mode
<1> HIDE DEF mode
<1>6. xdp_driver[mode] = cur /\ cur \in Prog /\ cur \in Progs /\ cur # NoProg
  BY <1>1, <1>2, <1>4, XdpAssumption DEF Core, Agree, LinkInv, Progs
<1>7. xdp_ref \in [Prog -> Int] /\ xdp_driver \in [Mode -> Progs]
  BY DEF Core, Shape
<1>8. xdp_driver' = [xdp_driver EXCEPT ![mode] = q] /\ Key'
  <2>1. CASE q = cur
    BY <1>1, <1>2, <1>6, <1>7, <2>1 DEF Core, Key
  <2>2. CASE q # cur
    BY <1>1, <1>2, <1>6, <1>7, <2>2 DEF Core, Key, Installs, generic_key, Mode
  <2> QED BY <2>1, <2>2
<1> HIDE DEF cur
<1>9. /\ xdp_ref' \in [Prog -> Int]
      /\ \A p \in Prog : xdp_ref'[p] = xdp_ref[p] + Is(p, q) + Is(p, q) - Is(p, cur) - Is(p, cur)
  <2> DEFINE a == bpf_prog_inc(xdp_ref, q)
  <2>1. a \in [Prog -> Int] /\ \A p \in Prog : a[p] = xdp_ref[p] + Is(p, q)
    BY <1>2, <1>7, Inc
  <2>2. CASE q = cur
    <3>1. xdp_ref' = bpf_prog_put(a, q)
      BY <1>1, <2>2 DEF link_update_refs, cur
    <3> HIDE DEF a
    <3>2. xdp_ref' \in [Prog -> Int] /\ \A p \in Prog : xdp_ref'[p] = a[p] - Is(p, q)
      BY <1>2, <2>1, <3>1, Put
    <3> QED BY <1>7, <2>1, <2>2, <3>2 DEF Is
  <2>3. CASE q # cur
    <3> DEFINE b == bpf_prog_inc(a, q)
               c == bpf_prog_put(b, cur)
    <3>1. xdp_ref' = bpf_prog_put(c, cur)
      BY <1>1, <1>6, <2>3 DEF link_update_refs, dev_xdp_install, cur
    <3> HIDE DEF a
    <3>2. b \in [Prog -> Int] /\ \A p \in Prog : b[p] = a[p] + Is(p, q)
      BY <1>2, <2>1, Inc
    <3> HIDE DEF b
    <3>3. c \in [Prog -> Int] /\ \A p \in Prog : c[p] = b[p] - Is(p, cur)
      BY <1>6, <3>2, Put
    <3> HIDE DEF c
    <3>4. xdp_ref' \in [Prog -> Int] /\ \A p \in Prog : xdp_ref'[p] = c[p] - Is(p, cur)
      BY <1>6, <3>1, <3>3, Put
    <3> QED BY <1>7, <2>1, <3>2, <3>3, <3>4 DEF Is
  <2> QED BY <2>2, <2>3
<1>10. Shape'
  BY <1>1, <1>2, <1>3, <1>7, <1>8, <1>9 DEF Core, Shape
<1>11. Refs'
  <2> SUFFICES ASSUME NEW p \in Prog
               PROVE  xdp_ref'[p] = Drivers(p)' + Devices(p)'
                         + (IF p \in xdp_fd' THEN 1 ELSE 0) + Is(p, xdp_link'.prog)
    BY DEF Refs
  <2>1. Drivers(p)' = Drivers(p) + Is(p, q) - Is(p, cur)
    BY <1>2, <1>6, <1>7, <1>8, DriverReplaced
  <2>2. Devices(p)' = Devices(p)
    BY <1>1 DEF Devices
  <2>3. xdp_ref[p] = Drivers(p) + Devices(p)
                       + (IF p \in xdp_fd THEN 1 ELSE 0) + Is(p, cur)
    BY DEF Core, Refs, cur
  <2>4. xdp_ref[p] \in Int /\ Drivers(p) \in Nat /\ Devices(p) \in Nat
    BY Counts DEF Core, Shape
  <2>5. xdp_ref'[p] = xdp_ref[p] + Is(p, q) + Is(p, q) - Is(p, cur) - Is(p, cur)
    BY <1>9
  <2>6. xdp_fd' = xdp_fd /\ xdp_link'.prog = q
    BY <1>1, <1>3
  <2> QED BY <2>1, <2>2, <2>3, <2>4, <2>5, <2>6 DEF Is
<1>12. Agree'
  BY <1>1, <1>2, <1>3, <1>4, <1>7, <1>8 DEF Core, Agree
<1>13. Excluded'
  BY <1>2, <1>6, <1>7, <1>8, StillExcluded DEF Core, Excluded, Mode
<1>14. Departed'
  BY <1>1, <1>2, <1>6 DEF Core, Departed
<1> QED BY <1>5, <1>8, <1>10, <1>11, <1>12, <1>13, <1>14 DEF Core

(* The device goes: the driver and the device put every program they had,   *)
(* and the link is left with its own reference.                             *)
LEMMA UninstallKeeps ==
    ASSUME Core, dev_xdp_uninstall
    PROVE  Core'
<1> DEFINE Set == {m \in Mode : dev_xdp_prog(m) # NoProg}
           uses(p) == Cardinality({m \in Set : xdp_driver[m] = p})
                        + Cardinality({m \in Set : ~xdp_state[m].link /\ xdp_state[m].prog = p})
           s == [prog |-> NoProg, link |-> FALSE]
           k == [xdp_link EXCEPT !.dev = FALSE]
<1>1. /\ xdp_driver' = [m \in Mode |-> IF m \in Set THEN NoProg ELSE xdp_driver[m]]
      /\ xdp_key' = IF "XDP_MODE_SKB" \in Set THEN generic_key("XDP_MODE_SKB", NoProg) ELSE xdp_key
      /\ xdp_ref' = [p \in Prog |-> xdp_ref[p] - uses(p)]
      /\ xdp_link' = IF \E m \in Set : xdp_state[m].link THEN k ELSE xdp_link
      /\ xdp_state' = [m \in Mode |-> IF m \in Set THEN s ELSE xdp_state[m]]
      /\ UNCHANGED <<xdp_fd, xdp_upper>>
  BY DEF dev_xdp_uninstall
<1>2. /\ k.st = xdp_link.st /\ k.prog = xdp_link.prog /\ k.dev = FALSE /\ k.flags = xdp_link.flags
      /\ k \in [st : {"none", "primed", "failed", "open", "closing"}, prog : Progs,
                dev : BOOLEAN, flags : Mode \cup {DefaultMode}]
  BY DEF Core, Shape
<1> HIDE DEF k
<1>3. s \in StateRecords /\ s.prog = NoProg /\ s.link = FALSE
  BY DEF StateRecords, Progs
<1> HIDE DEF s
<1>4. \A m \in Mode : m \in Set <=> xdp_driver[m] # NoProg
  BY DEF Core, Agree, dev_xdp_prog
<1>5. \A m \in Mode : xdp_state[m].link => m \in Set /\ xdp_state[m].prog = NoProg
  BY <1>4, XdpAssumption DEF Core, Agree, LinkInv
<1>6. \A m \in Mode : m \notin Set => ~xdp_state[m].link /\ xdp_state[m].prog = NoProg
  BY <1>4, <1>5 DEF Core, Agree
<1>7. \A p \in Prog : uses(p) = Drivers(p) + Devices(p)
  <2> SUFFICES ASSUME NEW p \in Prog PROVE uses(p) = Drivers(p) + Devices(p)
    OBVIOUS
  <2>1. {m \in Set : xdp_driver[m] = p} = {m \in Mode : xdp_driver[m] = p}
    BY <1>4, XdpAssumption
  <2>2. {m \in Set : ~xdp_state[m].link /\ xdp_state[m].prog = p} = {m \in Mode : xdp_state[m].prog = p}
    BY <1>5, <1>6, XdpAssumption
  <2> QED BY <2>1, <2>2 DEF Drivers, Devices
<1> HIDE DEF uses
<1>8. \A m \in Mode : xdp_driver'[m] = NoProg /\ xdp_state'[m].prog = NoProg /\ xdp_state'[m].link = FALSE
  BY <1>1, <1>3, <1>4, <1>6 DEF Core, Shape, StateRecords
<1>9. xdp_driver' \in [Mode -> Progs] /\ xdp_state' \in [Mode -> StateRecords]
  BY <1>1, <1>3 DEF Core, Shape, Progs
<1>10. /\ xdp_link' \in [st : {"none", "primed", "failed", "open", "closing"}, prog : Progs,
                         dev : BOOLEAN, flags : Mode \cup {DefaultMode}]
       /\ xdp_link'.st = xdp_link.st /\ xdp_link'.prog = xdp_link.prog
       /\ xdp_link' = xdp_link \/ xdp_link.st # "none"
       /\ xdp_link'.dev => xdp_link.st = "failed"
  <2>1. CASE \E m \in Set : xdp_state[m].link
    <3>1. xdp_link' = k /\ xdp_link.st # "none"
      BY <1>1, <2>1 DEF Core, LinkInv
    <3> QED BY <1>2, <3>1
  <2>2. CASE ~ \E m \in Set : xdp_state[m].link
    <3>1. xdp_link' = xdp_link /\ \A m \in Mode : ~xdp_state[m].link
      BY <1>1, <1>5, <2>2
    <3>2. xdp_link.dev => xdp_link.st = "failed"
      BY <3>1, Modes DEF Core, Shape, LinkInv
    <3> QED BY <3>1, <3>2 DEF Core, Shape
  <2> QED BY <2>1, <2>2
<1>11. \A p \in Prog : xdp_ref[p] \in Int /\ uses(p) \in Int
  BY <1>7, Counts DEF Core, Shape
<1>12. Shape'
  BY <1>1, <1>9, <1>10, <1>11 DEF Core, Shape
<1>13. Refs'
  <2> SUFFICES ASSUME NEW p \in Prog
               PROVE  xdp_ref'[p] = Drivers(p)' + Devices(p)'
                         + (IF p \in xdp_fd' THEN 1 ELSE 0) + Is(p, xdp_link'.prog)
    BY DEF Refs
  <2>1. {m \in Mode : xdp_driver'[m] = p} = {} /\ {m \in Mode : xdp_state'[m].prog = p} = {}
    BY <1>8, XdpAssumption
  <2>2. Drivers(p)' = 0 /\ Devices(p)' = 0
    BY <2>1, FS_EmptySet DEF Drivers, Devices
  <2>3. xdp_ref[p] = Drivers(p) + Devices(p)
                       + (IF p \in xdp_fd THEN 1 ELSE 0) + Is(p, xdp_link.prog)
    BY DEF Core, Refs
  <2>4. xdp_ref[p] \in Int /\ Drivers(p) \in Nat /\ Devices(p) \in Nat
    BY Counts DEF Core, Shape
  <2>5. xdp_ref'[p] = xdp_ref[p] - (Drivers(p) + Devices(p))
    BY <1>1, <1>7
  <2>6. xdp_fd' = xdp_fd /\ xdp_link'.prog = xdp_link.prog
    BY <1>1, <1>10
  <2> QED BY <2>2, <2>3, <2>4, <2>5, <2>6 DEF Is
<1>14. Agree'
  BY <1>8 DEF Agree
<1>15. Excluded' /\ Departed'
  BY <1>8 DEF Excluded, Departed, Mode
<1>16. Key'
  BY <1>1, <1>4, <1>8 DEF Core, Key, generic_key, Mode
<1>17. LinkInv'
  BY <1>8, <1>10 DEF Core, LinkInv
<1> QED BY <1>12, <1>13, <1>14, <1>15, <1>16, <1>17 DEF Core

LEMMA XdpStart == XdpInit => XdpInv
<1> SUFFICES ASSUME XdpInit PROVE XdpInv
  OBVIOUS
<1> DEFINE s == [prog |-> NoProg, link |-> FALSE]
<1>1. /\ xdp_state = [m \in Mode |-> s] /\ xdp_driver = [m \in Mode |-> NoProg]
      /\ xdp_ref = [p \in Prog |-> 0] /\ xdp_fd = {} /\ xdp_link = NoLink /\ xdp_key = 0 /\ xdp_dev = TRUE
  BY DEF XdpInit
<1>2. s \in [prog : Prog \cup {NoProg}, link : BOOLEAN] /\ s.prog = NoProg /\ s.link = FALSE
  OBVIOUS
<1> HIDE DEF s
<1>3. /\ NoLink.st = "none" /\ NoLink.prog = NoProg /\ NoLink.dev = FALSE
      /\ NoLink \in [st : {"none", "primed", "failed", "open", "closing"}, prog : Prog \cup {NoProg},
                     dev : BOOLEAN, flags : Mode \cup {DefaultMode}]
  BY DEF NoLink
<1>4. XdpTypeOK
  BY <1>1, <1>2, <1>3 DEF XdpTypeOK
<1>5. /\ \A m \in Mode : xdp_driver[m] = NoProg /\ xdp_state[m].prog = NoProg /\ ~xdp_state[m].link
      /\ \A m \in Mode : dev_xdp_prog(m) = NoProg
  BY <1>1, <1>2 DEF dev_xdp_prog
<1>6. \A p \in Prog : xdp_ref[p] = Holders(p)
  <2> SUFFICES ASSUME NEW p \in Prog PROVE xdp_ref[p] = Holders(p)
    OBVIOUS
  <2>1. {m \in Mode : xdp_driver[m] = p} = {} /\ {m \in Mode : xdp_state[m].prog = p} = {}
    BY <1>5, XdpAssumption
  <2>2. Drivers(p) = 0 /\ Devices(p) = 0
    BY <2>1, FS_EmptySet DEF Drivers, Devices
  <2>3. p \notin xdp_fd /\ xdp_link.prog # p /\ xdp_ref[p] = 0
    BY <1>1, <1>3, XdpAssumption
  <2> QED BY <2>2, <2>3, HoldersAre
<1>7. Cardinality({m \in Mode : xdp_state[m].link}) <= 1
  <2>1. {m \in Mode : xdp_state[m].link} = {}
    BY <1>5
  <2> QED BY <2>1, FS_EmptySet
<1>8. XdpSound
  BY <1>1, <1>3, <1>5, <1>6, <1>7 DEF XdpSound, Mode
<1>9. LinkInv
  BY <1>1, <1>3, <1>5 DEF LinkInv
<1> QED BY <1>4, <1>8, <1>9 DEF XdpInv

LEMMA XdpStep ==
    ASSUME XdpInv, [XdpNext]_xdp_vars
    PROVE  XdpInv'
<1>1. Core
  BY InvIsCore
<1>2. CASE UNCHANGED xdp_vars
  BY <1>2 DEF xdp_vars, XdpInv, XdpTypeOK, XdpSound, LinkInv, Holders, dev_xdp_prog, dev_xdp_mode
<1>3. CASE XdpNext
  <2>1. ASSUME NEW p \in Prog, open_prog(p) \/ close_prog(p) PROVE Core'
    BY <1>1, <2>1, DescriptorKeeps
  <2>2. ASSUME register_dev \/ upper_changes \/ bpf_link_settle \/ bpf_link_close PROVE Core'
    BY <1>1, <2>2, QuietKeeps
  <2>3. ASSUME NEW new \in Prog \cup {NoProg}, NEW old \in Prog \cup {NoProg},
               NEW f \in Mode \cup {DefaultMode}, NEW r \in BOOLEAN, NEW n \in BOOLEAN,
               dev_change_xdp_fd(new, old, f, r, n)
        PROVE  Core'
    BY <1>1, <2>3, ChangeKeeps DEF Progs
  <2>4. ASSUME NEW p \in Prog, NEW f \in Mode \cup {DefaultMode}, bpf_xdp_link_attach(p, f) PROVE Core'
    BY <1>1, <2>4, LinkAttachKeeps
  <2>5. ASSUME NEW p \in Prog, NEW f \in Mode \cup {DefaultMode}, bpf_xdp_link_attach_fails(p, f) PROVE Core'
    BY <1>1, <2>5, LinkFailsKeeps
  <2>6. ASSUME bpf_link_cleanup \/ bpf_xdp_link_dealloc PROVE Core'
    BY <1>1, <2>6, LinkFreedKeeps
  <2>7. ASSUME bpf_xdp_link_detach PROVE Core'
    BY <1>1, <2>7, LinkDetachKeeps
  <2>8. ASSUME NEW p \in Prog, NEW old \in Prog \cup {NoProg}, bpf_xdp_link_update(p, old) PROVE Core'
    BY <1>1, <2>8, LinkUpdateKeeps
  <2>9. ASSUME dev_xdp_uninstall PROVE Core'
    BY <1>1, <2>9, UninstallKeeps
  <2>10. Core'
    BY <1>3, <2>1, <2>2, <2>3, <2>4, <2>5, <2>6, <2>7, <2>8, <2>9 DEF XdpNext
  <2> QED BY <2>10, CoreIsInv
<1> QED BY <1>2, <1>3

LEMMA XdpTurn ==
    ASSUME [KernelNext]_kernel_vars, part' = "xdp"
    PROVE  part = "xdp" /\ [XdpNext]_xdp_vars
BY DEF KernelNext, kernel_vars, Turn

(* dev_xdp_attach, dev_xdp_uninstall and the BPF links: whatever is         *)
(* attached, replaced, detached and closed, in whatever order, a program    *)
(* has as many references as holders, what is installed is what the device  *)
(* believes, generic and driver programs exclude each other, and a device   *)
(* that goes leaves none behind.                                            *)
THEOREM ProgramsCounted == KernelSpec => []Programs
<1> DEFINE I == part = "xdp" => XdpInv
<1>1. KernelInit => I
  BY XdpStart DEF KernelInit
<1>2. I /\ [KernelNext]_kernel_vars => I'
  BY XdpTurn, XdpStep
<1>3. I => Programs
  BY DEF Programs, While, XdpInv
<1> QED BY <1>1, <1>2, <1>3, PTL DEF KernelSpec

------------------------------------------------------------------------------
(* Transmit queues (Xps) *)

(* A map that is installed has a cell for each id and class, and a queue. *)
MapOk(t, m) ==
    Installed(m) => /\ m.num_tc \in 1 .. 2
                    /\ m = [num_tc |-> m.num_tc, queues |-> m.queues]
                    /\ m.queues \in [Cells(m, t) -> SUBSET Queue]
                    /\ \E c \in Cells(m, t) : m.queues[c] # {}

XpsTypes ==
    /\ xps_maps \in [XpsType -> {xps_maps[t] : t \in XpsType}]
    /\ \A t \in XpsType : MapOk(t, xps_maps[t])
    /\ tc_state \in [num_tc : 0 .. 2, range : [Class -> [offset : Nat, count : Nat]],
                     prio : [Prio -> Class]]
    /\ real_num \in [tx : 1 .. NumTx, rx : Nat]
    /\ queue_call \in [pc : {"idle", "tx", "sync"}, txq : Nat, rxq : Nat, old_rxq : Nat,
                       waits : BOOLEAN]
    /\ queue_call.pc # "idle" => queue_call.txq \in 1 .. NumTx
    /\ sender \in [pc : {"idle", "picked"}, q : Nat]
    /\ sender.pc = "picked" => sender.q \in Queue
    /\ sk_queue \in Nat /\ qdiscs \subseteq Queue
    /\ xps_error \in {"no", "leak"}

Count(b) == IF b THEN 1 ELSE 0
KeysCount ==
    xps_key = [needed |-> Count(Installed(xps_maps["XPS_CPUS"])) + Count(Installed(xps_maps["XPS_RXQS"])),
               rxqs |-> Count(Installed(xps_maps["XPS_RXQS"]))]

(* No map has fewer classes than the device, and with a single class all    *)
(* queues are its: so no old map is walked past its end, and each queue has *)
(* a class that its map has cells for.                                      *)
ClassesFit ==
    /\ \A t \in XpsType : Installed(xps_maps[t]) => tc_state.num_tc <= xps_maps[t].num_tc
    /\ tc_state.num_tc = 1 => tc_state.range[0] = [offset |-> 0, count |-> NumTx]
    /\ tc_state.num_tc > 0 => ~Outside(tc_state.range[tc_state.prio[1]], real_num.tx)

(* While the lowering waits for senders only those it waits for, and what   *)
(* they have sent, are beyond the new number of queues.                     *)
QueuesInUse ==
    /\ queue_call.pc # "sync" =>
         /\ \A t \in XpsType : Installed(xps_maps[t]) =>
               \A c \in Cells(xps_maps[t], t) : \A q \in xps_maps[t].queues[c] : q < real_num.tx
         /\ \A q \in qdiscs : q < real_num.tx
    /\ queue_call.pc = "sync" => queue_call.txq = real_num.tx
    /\ sender.pc = "picked" => sender.q < real_num.tx \/ (queue_call.pc = "sync" /\ queue_call.waits)

XpsInv == XpsTypes /\ KeysCount /\ ClassesFit /\ QueuesInUse

LEMMA XpsStart == XpsInit => XpsInv
<1> SUFFICES ASSUME XpsInit PROVE XpsInv
  OBVIOUS
<1>1. \A t \in XpsType : ~Installed(xps_maps[t])
  BY DEF XpsInit, Installed
<1>2. XpsTypes
  BY <1>1, XpsAssumption DEF XpsInit, XpsTypes, MapOk, ZeroTc, Class, Prio, NoCallRuns, NoQueue
<1>3. KeysCount
  BY <1>1 DEF XpsInit, KeysCount, Count, XpsType
<1>4. ClassesFit /\ QueuesInUse
  BY <1>1 DEF XpsInit, ClassesFit, QueuesInUse, ZeroTc, NoCallRuns
<1> QED BY <1>2, <1>3, <1>4 DEF XpsInv

LEMMA QueuesReplaced ==
    ASSUME NEW n, NEW q, NEW f
    PROVE  [[num_tc |-> n, queues |-> q] EXCEPT !.queues = f] = [num_tc |-> n, queues |-> f]
OBVIOUS

LEMMA QueuesRemoved ==
    ASSUME NEW t \in XpsType, NEW m, MapOk(t, m), Installed(m), NEW gone
    PROVE  LET r == remove_xps_queues(m, t, gone) IN
           /\ MapOk(t, r)
           /\ Installed(r) => /\ r.num_tc = m.num_tc
                              /\ \A c \in Cells(m, t) : r.queues[c] = m.queues[c] \ gone
           /\ gone = Queue => ~Installed(r)
<1> DEFINE f == [c \in Cells(m, t) |-> m.queues[c] \ gone]
           left == [num_tc |-> m.num_tc, queues |-> f]
           r == remove_xps_queues(m, t, gone)
<1>1. [m EXCEPT !.queues = [c \in Cells(m, t) |-> @[c] \ gone]] = left
  <2>1. m = [num_tc |-> m.num_tc, queues |-> m.queues]
    BY DEF MapOk
  <2>2. [m EXCEPT !.queues = f] = left
    <3> HIDE DEF f
    <3> QED BY <2>1, QueuesReplaced
  <2> QED BY <2>2
<1>2. r = IF \A c \in Cells(m, t) : f[c] = {} THEN NoMaps ELSE left
  BY <1>1 DEF remove_xps_queues
<1>3. f \in [Cells(m, t) -> SUBSET Queue]
  BY DEF MapOk
<1>4. Cells(left, t) = Cells(m, t) /\ left.num_tc = m.num_tc /\ left.queues = f
  BY DEF Cells
<1>5. gone = Queue => \A c \in Cells(m, t) : f[c] = {}
  BY DEF MapOk
<1>6. CASE \A c \in Cells(m, t) : f[c] = {}
  BY <1>2, <1>6 DEF MapOk, Installed
<1>7. CASE ~ \A c \in Cells(m, t) : f[c] = {}
  <2>1. r = left
    BY <1>2, <1>7
  <2>2. m.num_tc \in 1 .. 2
    BY DEF MapOk
  <2>3. MapOk(t, left)
    BY <1>3, <1>4, <1>7, <2>2 DEF MapOk
  <2> QED BY <1>4, <1>5, <1>7, <2>1, <2>3
<1> QED BY <1>6, <1>7

(* netif_reset_xps_queues takes the queues out of every map: a map that is  *)
(* installed is seen, since the keys count it.                              *)
LEMMA QueuesReset ==
    ASSUME XpsTypes, KeysCount, NEW t \in XpsType, NEW gone
    PROVE  LET r == netif_reset_xps_queues(gone)[t] IN
           /\ MapOk(t, r)
           /\ Installed(r) =>
                 /\ Installed(xps_maps[t]) /\ r.num_tc = xps_maps[t].num_tc
                 /\ \A c \in Cells(r, t) : r.queues[c] = xps_maps[t].queues[c] \ gone
           /\ gone = Queue => ~Installed(r)
<1> DEFINE m == xps_maps[t]
           r == netif_reset_xps_queues(gone)[t]
<1>1. MapOk(t, m)
  BY DEF XpsTypes
<1>2. r = clean_xps_maps(t, gone)
  BY DEF netif_reset_xps_queues
<1>3. CASE Installed(m) /\ gone # {}
  <2>1. xps_key.needed > 0 /\ (t = "XPS_RXQS" => xps_key.rxqs > 0)
    BY <1>3 DEF KeysCount, Count, XpsType
  <2>2. r = remove_xps_queues(m, t, gone)
    BY <1>2, <1>3, <2>1 DEF clean_xps_maps
  <2>3. Installed(r) => Cells(r, t) = Cells(m, t)
    BY <1>1, <1>3, <2>2, QueuesRemoved DEF Cells
  <2> QED BY <1>1, <1>3, <2>2, <2>3, QueuesRemoved
<1>4. CASE ~Installed(m)
  BY <1>1, <1>2, <1>4 DEF clean_xps_maps
<1>5. CASE Installed(m) /\ gone = {}
  <2>1. r = m
    BY <1>2, <1>5 DEF clean_xps_maps
  <2>2. Queue # {}
    BY XpsAssumption DEF Queue
  <2> QED BY <1>1, <1>5, <2>1, <2>2
<1> QED BY <1>3, <1>4, <1>5

LEMMA KeysFollow ==
    ASSUME KeysCount, key_change(xps_maps, xps_maps')
    PROVE  KeysCount'
<1> DEFINE d(b, c) == Count(c) - Count(b)
<1>1. xps_key' = [needed |-> xps_key.needed + d(Installed(xps_maps["XPS_CPUS"]), Installed(xps_maps'["XPS_CPUS"]))
                                + d(Installed(xps_maps["XPS_RXQS"]), Installed(xps_maps'["XPS_RXQS"])),
                  rxqs |-> xps_key.rxqs + d(Installed(xps_maps["XPS_RXQS"]), Installed(xps_maps'["XPS_RXQS"]))]
  BY DEF key_change, Count
<1>2. \A b \in BOOLEAN : Count(b) \in {0, 1}
  BY DEF Count
<1>3. /\ xps_key.needed = Count(Installed(xps_maps["XPS_CPUS"])) + Count(Installed(xps_maps["XPS_RXQS"]))
      /\ xps_key.rxqs = Count(Installed(xps_maps["XPS_RXQS"]))
  BY DEF KeysCount
<1>4. \A t \in XpsType : Installed(xps_maps[t]) \in BOOLEAN /\ Installed(xps_maps'[t]) \in BOOLEAN
  BY DEF Installed
<1> DEFINE a == Count(Installed(xps_maps["XPS_CPUS"]))
           b == Count(Installed(xps_maps["XPS_RXQS"]))
           x == Count(Installed(xps_maps'["XPS_CPUS"]))
           y == Count(Installed(xps_maps'["XPS_RXQS"]))
<1>5. a \in Int /\ b \in Int /\ x \in Int /\ y \in Int
  BY <1>2, <1>4 DEF XpsType
<1>6. xps_key.needed = a + b /\ xps_key.rxqs = b
  BY <1>3
<1>7. xps_key' = [needed |-> xps_key.needed + (x - a) + (y - b), rxqs |-> xps_key.rxqs + (y - b)]
  BY <1>1
<1> HIDE DEF a, b, x, y
<1>8. xps_key' = [needed |-> x + y, rxqs |-> y]
  BY <1>5, <1>6, <1>7
<1> QED BY <1>8 DEF KeysCount, x, y

LEMMA ClassOfQueue ==
    ASSUME XpsInv, NEW q \in Queue, netdev_txq_to_tc(q) # NoQueue
    PROVE  netdev_txq_to_tc(q) \in 0 .. (IF tc_state.num_tc = 0 THEN 1 ELSE tc_state.num_tc) - 1
<1> DEFINE found == {t \in Class : InRange(tc_state.range[t], q)}
<1>1. tc_state.num_tc \in 0 .. 2
  BY DEF XpsInv, XpsTypes
<1>2. CASE tc_state.num_tc = 0
  BY <1>2 DEF netdev_txq_to_tc
<1>3. CASE tc_state.num_tc # 0
  <2>1. found # {} /\ netdev_txq_to_tc(q) = CHOOSE t \in found : \A u \in found : t <= u
    BY <1>3 DEF netdev_txq_to_tc
  <2>2. \E t \in found : \A u \in found : t <= u
    BY <2>1 DEF Class
  <2>3. netdev_txq_to_tc(q) \in found /\ \A u \in found : netdev_txq_to_tc(q) <= u
    BY <2>1, <2>2
  <2>4. ASSUME tc_state.num_tc = 1 PROVE 0 \in found
    <3>1. tc_state.range[0] = [offset |-> 0, count |-> NumTx]
      BY <2>4 DEF XpsInv, ClassesFit
    <3> QED BY <3>1, XpsAssumption DEF InRange, Class, Queue
  <2> QED BY <1>1, <1>3, <2>3, <2>4 DEF Class
<1> QED BY <1>2, <1>3

(* What the maps must be for the rest of the invariant, when the rest of    *)
(* the configuration stays.                                                 *)
LEMMA MapsChange ==
    ASSUME XpsInv, xps_maps' \in [XpsType -> {xps_maps'[t] : t \in XpsType}],
           key_change(xps_maps, xps_maps'), xps_error' \in {"no", "leak"},
           UNCHANGED <<tc_state, real_num, queue_call, sender, sk_queue, qdiscs>>,
           \A t \in XpsType : /\ MapOk(t, xps_maps'[t])
                              /\ Installed(xps_maps'[t]) => tc_state.num_tc <= xps_maps'[t].num_tc,
           queue_call.pc # "sync" => \A t \in XpsType : Installed(xps_maps'[t]) =>
                \A c \in Cells(xps_maps'[t], t) : \A q \in xps_maps'[t].queues[c] : q < real_num.tx
    PROVE  XpsInv'
<1>1. XpsTypes'
  BY DEF XpsInv, XpsTypes
<1>2. KeysCount'
  BY KeysFollow DEF XpsInv
<1>3. ClassesFit'
  BY DEF XpsInv, ClassesFit
<1>4. QueuesInUse'
  BY DEF XpsInv, QueuesInUse
<1> QED BY <1>1, <1>2, <1>3, <1>4 DEF XpsInv

LEMMA NewMaps ==
    ASSUME XpsInv, NEW t \in XpsType, NEW mask \in SUBSET Ids(t), mask # {}, NEW q \in Queue,
           queue_call.pc = "idle", q < real_num.tx, NEW n, NEW tc,
           n = (IF tc_state.num_tc = 0 THEN 1 ELSE tc_state.num_tc), tc \in 0 .. n - 1
    PROVE  LET r == new_maps(xps_maps[t], t, mask, q, n, tc) IN
           /\ MapOk(t, r) /\ r.num_tc = n
           /\ \A c \in Cells(r, t) : \A p \in r.queues[c] : p < real_num.tx
<1> DEFINE old == xps_maps[t]
           r == new_maps(old, t, mask, q, n, tc)
           f == [c \in Ids(t) \X (0 .. n - 1) |->
                   IF c[1] \in mask /\ c[2] = tc THEN xps_copy(old, n, c) \cup {q}
                   ELSE xps_copy(old, n, c) \ {q}]
<1>1. r = [num_tc |-> n, queues |-> f]
  BY DEF new_maps
<1>2. n \in 1 .. 2
  BY DEF XpsInv, XpsTypes
<1>3. ASSUME NEW c \in Ids(t) \X (0 .. n - 1)
      PROVE  xps_copy(old, n, c) \in SUBSET Queue /\ \A p \in xps_copy(old, n, c) : p < real_num.tx
  <2>1. CASE same_size(old, n)
    <3>1. Installed(old) /\ old.num_tc = n /\ c \in Cells(old, t)
      BY <2>1 DEF same_size, Cells
    <3>2. old.queues[c] \in SUBSET Queue
      BY <3>1 DEF XpsInv, XpsTypes, MapOk
    <3>3. \A p \in old.queues[c] : p < real_num.tx
      BY <3>1 DEF XpsInv, QueuesInUse
    <3> QED BY <2>1, <3>2, <3>3 DEF xps_copy
  <2>2. CASE ~same_size(old, n)
    BY <2>2 DEF xps_copy
  <2> QED BY <2>1, <2>2
<1>4. f \in [Ids(t) \X (0 .. n - 1) -> SUBSET Queue]
  BY <1>3
<1>5. \A c \in Ids(t) \X (0 .. n - 1) : \A p \in f[c] : p < real_num.tx
  BY <1>3
<1>6. PICK id \in mask : TRUE
  OBVIOUS
<1>7. <<id, tc>> \in Ids(t) \X (0 .. n - 1) /\ q \in f[<<id, tc>>]
  BY <1>6
<1> HIDE DEF f
<1>8. Cells(r, t) = Ids(t) \X (0 .. n - 1) /\ r.num_tc = n /\ r.queues = f
  BY <1>1 DEF Cells
<1> HIDE DEF r
<1>9. MapOk(t, r)
  BY <1>1, <1>2, <1>4, <1>7, <1>8 DEF MapOk
<1> QED BY <1>5, <1>8, <1>9 DEF r

LEMMA SetQueueKeeps ==
    ASSUME XpsInv, NEW t \in XpsType, NEW mask \in SUBSET Ids(t), NEW q \in Queue,
           netif_set_xps_queue(t, mask, q)
    PROVE  XpsInv'
<1> DEFINE old == xps_maps[t]
           n == IF tc_state.num_tc = 0 THEN 1 ELSE tc_state.num_tc
           tc == netdev_txq_to_tc(q)
           new == IF mask = {} THEN no_new_maps(old, t, q) ELSE new_maps(old, t, mask, q, n, tc)
<1>1. /\ queue_call.pc = "idle" /\ q < real_num.tx /\ tc # NoQueue
      /\ xps_maps' = [xps_maps EXCEPT ![t] = new]
      /\ key_change(xps_maps, xps_maps')
      /\ xps_error' = IF xps_error = "no" /\ mask # {} THEN old_maps_walk(old, t, n) ELSE xps_error
      /\ UNCHANGED <<tc_state, real_num, queue_call, sender, sk_queue, qdiscs>>
  BY DEF netif_set_xps_queue, Configurable, send_vars
<1>2. tc \in 0 .. n - 1
  BY <1>1, ClassOfQueue
<1>3. /\ MapOk(t, old) /\ tc_state.num_tc \in 0 .. 2 /\ xps_error \in {"no", "leak"}
      /\ xps_maps \in [XpsType -> {xps_maps[u] : u \in XpsType}]
      /\ Installed(old) => tc_state.num_tc <= old.num_tc
      /\ Installed(old) => \A c \in Cells(old, t) : \A p \in old.queues[c] : p < real_num.tx
  BY <1>1 DEF XpsInv, XpsTypes, ClassesFit, QueuesInUse
<1>4. /\ MapOk(t, new)
      /\ Installed(new) => tc_state.num_tc <= new.num_tc
      /\ Installed(new) => \A c \in Cells(new, t) : \A p \in new.queues[c] : p < real_num.tx
  <2>1. CASE mask # {}
    <3> DEFINE r == new_maps(xps_maps[t], t, mask, q, n, tc)
    <3>1. /\ MapOk(t, r) /\ r.num_tc = n
          /\ \A c \in Cells(r, t) : \A p \in r.queues[c] : p < real_num.tx
      <4>1. n = (IF tc_state.num_tc = 0 THEN 1 ELSE tc_state.num_tc)
        OBVIOUS
      <4>2. queue_call.pc = "idle" /\ q < real_num.tx
        BY <1>1
      <4> HIDE DEF tc, n, new, old
      <4>3. MapOk(t, r)
        BY <1>2, <2>1, <4>1, <4>2, NewMaps
      <4>5. r.num_tc = n
        BY DEF new_maps
      <4>4. \A c \in Cells(r, t) : \A p \in r.queues[c] : p < real_num.tx
        BY <1>2, <2>1, <4>1, <4>2, NewMaps
      <4> QED BY <4>3, <4>4, <4>5
    <3> QED BY <1>3, <2>1, <3>1
  <2>2. CASE mask = {} /\ Installed(old)
    <3>1. new = remove_xps_queues(old, t, {q})
      BY <2>2 DEF no_new_maps
    <3>2. /\ MapOk(t, new)
          /\ Installed(new) => /\ new.num_tc = old.num_tc
                               /\ \A c \in Cells(old, t) : new.queues[c] = old.queues[c] \ {q}
      <4> HIDE DEF old, new
      <4> QED BY <1>3, <2>2, <3>1, QueuesRemoved
    <3>3. Installed(new) => Cells(new, t) = Cells(old, t)
      BY <3>2 DEF Cells
    <3> HIDE DEF new
    <3> QED BY <1>3, <2>2, <3>2, <3>3
  <2>3. CASE mask = {} /\ ~Installed(old)
    <3>1. new = old
      BY <2>3 DEF no_new_maps
    <3> QED BY <1>3, <2>3, <3>1
  <2> QED BY <2>1, <2>2, <2>3
<1>5. xps_error' \in {"no", "leak"}
  <2>1. Installed(old) => old.num_tc \in 1 .. 2
    BY <1>3 DEF MapOk
  <2>2. old_maps_walk(old, t, n) \in {"no", "leak"}
    BY <1>3, <2>1 DEF old_maps_walk
  <2> QED BY <1>1, <1>3, <2>2
<1> HIDE DEF new, old, n, tc
<1>6. /\ xps_maps' \in [XpsType -> {xps_maps'[u] : u \in XpsType}] /\ xps_maps'[t] = new
      /\ \A u \in XpsType \ {t} : xps_maps'[u] = xps_maps[u]
  BY <1>1, <1>3
<1>7. \A u \in XpsType : /\ MapOk(u, xps_maps'[u])
                         /\ Installed(xps_maps'[u]) => tc_state.num_tc <= xps_maps'[u].num_tc
  BY <1>4, <1>6 DEF XpsInv, XpsTypes, ClassesFit
<1>8. \A u \in XpsType : Installed(xps_maps'[u]) =>
                \A c \in Cells(xps_maps'[u], u) : \A p \in xps_maps'[u].queues[c] : p < real_num.tx
  BY <1>1, <1>4, <1>6 DEF XpsInv, QueuesInUse
<1> QED BY <1>1, <1>5, <1>6, <1>7, <1>8, MapsChange

(* A change of the classes finds no map left. *)
LEMMA ClassesKeep ==
    ASSUME XpsInv, xps_maps' = netif_reset_xps_queues(Queue), key_change(xps_maps, xps_maps'),
           UNCHANGED <<real_num, queue_call, xps_error, sender, sk_queue, qdiscs>>,
           tc_state' \in [num_tc : 0 .. 2, range : [Class -> [offset : Nat, count : Nat]],
                          prio : [Prio -> Class]],
           tc_state'.num_tc = 1 => tc_state'.range[0] = [offset |-> 0, count |-> NumTx],
           tc_state'.num_tc > 0 => ~Outside(tc_state'.range[tc_state'.prio[1]], real_num.tx)
    PROVE  XpsInv'
<1>1. \A t \in XpsType : ~Installed(xps_maps'[t])
  BY QueuesReset DEF XpsInv
<1>2. xps_maps' \in [XpsType -> {xps_maps'[t] : t \in XpsType}]
  BY DEF netif_reset_xps_queues
<1>3. XpsTypes'
  BY <1>1, <1>2 DEF XpsInv, XpsTypes, MapOk
<1>4. KeysCount'
  BY KeysFollow DEF XpsInv
<1>5. ClassesFit' /\ QueuesInUse'
  BY <1>1 DEF XpsInv, ClassesFit, QueuesInUse
<1> QED BY <1>3, <1>4, <1>5 DEF XpsInv

LEMMA SetupTcKeeps == ASSUME XpsInv, NEW l \in Layout, setup_tc(Layouts[l]) PROVE XpsInv'
<1> DEFINE y == Layouts[l]
<1>1. /\ Fits(y) /\ xps_maps' = netif_reset_xps_queues(Queue) /\ key_change(xps_maps, xps_maps')
      /\ tc_state' = [num_tc |-> y.num_tc,
                      range |-> [t \in Class |-> IF t < y.num_tc THEN y.range[t + 1] ELSE tc_state.range[t]],
                      prio |-> [p \in Prio |-> y.prio[p + 1]]]
      /\ UNCHANGED <<real_num, queue_call, xps_error, sender, sk_queue, qdiscs>>
  BY DEF setup_tc, netdev_set_num_tc, send_vars
<1>2. l \in 1 .. 3 /\ NumTx \in Nat \ {0} /\ NumTx - 1 \in Nat
  BY XpsAssumption
<1>3. /\ real_num.tx \in Nat
      /\ tc_state.range \in [Class -> [offset : Nat, count : Nat]]
  BY <1>2 DEF XpsInv, XpsTypes
<1>4. CASE l = 1
  <2>1. /\ y.num_tc = 1 /\ y.range[1] = [offset |-> 0, count |-> NumTx]
        /\ y.prio[1] = 0 /\ y.prio[2] = 0
    BY <1>4 DEF Layouts
  <2>2. 0 + NumTx <= real_num.tx
    BY <1>1, <2>1 DEF Fits, Class
  <2> HIDE DEF y
  <2>3. /\ tc_state'.num_tc = 1 /\ tc_state'.range[0] = [offset |-> 0, count |-> NumTx]
        /\ tc_state'.range \in [Class -> [offset : Nat, count : Nat]]
        /\ tc_state'.prio \in [Prio -> Class] /\ tc_state'.prio[1] = 0
    BY <1>1, <1>2, <1>3, <2>1 DEF Class, Prio
  <2>4. tc_state' \in [num_tc : 0 .. 2, range : [Class -> [offset : Nat, count : Nat]],
                       prio : [Prio -> Class]]
    BY <1>1, <2>3
  <2>5. ~Outside(tc_state'.range[tc_state'.prio[1]], real_num.tx)
    BY <1>2, <1>3, <2>2, <2>3 DEF Outside
  <2> QED BY <1>1, <2>3, <2>4, <2>5, ClassesKeep
<1>5. CASE l \in {2, 3}
  <2>1. /\ y.num_tc = 2 /\ y.range[1] \in [offset : Nat, count : Nat]
        /\ y.range[2] \in [offset : Nat, count : Nat]
        /\ y.prio[1] \in Class /\ y.prio[2] = 1
    BY <1>2, <1>5 DEF Layouts, Class
  <2>2. y.range[2].offset + y.range[2].count <= real_num.tx
    BY <1>1, <2>1 DEF Fits, Class
  <2> HIDE DEF y
  <2>3. /\ tc_state'.num_tc = 2 /\ tc_state'.range[1] = y.range[2]
        /\ tc_state'.range \in [Class -> [offset : Nat, count : Nat]]
        /\ tc_state'.prio \in [Prio -> Class] /\ tc_state'.prio[1] = 1
    BY <1>1, <1>2, <1>3, <2>1 DEF Class, Prio
  <2>4. tc_state' \in [num_tc : 0 .. 2, range : [Class -> [offset : Nat, count : Nat]],
                       prio : [Prio -> Class]]
    BY <1>1, <2>3
  <2>5. ~Outside(tc_state'.range[tc_state'.prio[1]], real_num.tx)
    BY <1>3, <2>1, <2>2, <2>3 DEF Outside
  <2> QED BY <1>1, <2>3, <2>4, <2>5, ClassesKeep
<1> QED BY <1>2, <1>4, <1>5

LEMMA ResetTcKeeps == ASSUME XpsInv, netdev_reset_tc PROVE XpsInv'
<1>1. /\ xps_maps' = netif_reset_xps_queues(Queue) /\ key_change(xps_maps, xps_maps')
      /\ tc_state' = ZeroTc
      /\ UNCHANGED <<real_num, queue_call, xps_error, sender, sk_queue, qdiscs>>
  BY DEF netdev_reset_tc, send_vars
<1>2. /\ ZeroTc \in [num_tc : 0 .. 2, range : [Class -> [offset : Nat, count : Nat]], prio : [Prio -> Class]]
      /\ ZeroTc.num_tc = 0
  BY DEF ZeroTc, Class, Prio
<1> QED BY <1>1, <1>2, ClassesKeep

LEMMA NumberBegins ==
    ASSUME XpsInv, NEW txq \in 1 .. NumTx, NEW rxq \in 1 .. NumRx, netif_set_real_num_queues(txq, rxq)
    PROVE  XpsInv'
<1>1. /\ queue_call.pc = "idle"
      /\ queue_call' = [pc |-> "tx", txq |-> txq, rxq |-> rxq, old_rxq |-> real_num.rx, waits |-> FALSE]
      /\ real_num' = [real_num EXCEPT !.rx = IF rxq > @ THEN rxq ELSE @]
      /\ UNCHANGED <<xps_maps, xps_key, tc_state, xps_error, sender, sk_queue, qdiscs>>
  BY DEF netif_set_real_num_queues, Configurable, send_vars
<1>2. /\ real_num \in [tx : 1 .. NumTx, rx : Nat] /\ txq \in Nat /\ rxq \in Nat
  BY XpsAssumption DEF XpsInv, XpsTypes
<1>3. real_num' \in [tx : 1 .. NumTx, rx : Nat] /\ real_num'.tx = real_num.tx
  BY <1>1, <1>2
<1>4. XpsTypes'
  BY <1>1, <1>2, <1>3 DEF XpsInv, XpsTypes
<1>5. KeysCount' /\ ClassesFit' /\ QueuesInUse'
  BY <1>1, <1>3 DEF XpsInv, KeysCount, ClassesFit, QueuesInUse
<1> QED BY <1>4, <1>5 DEF XpsInv

LEMMA NumberFails == ASSUME XpsInv, set_real_num_fails PROVE XpsInv'
<1>1. /\ queue_call.pc = "tx" /\ queue_call' = NoCallRuns
      /\ real_num' = [real_num EXCEPT !.rx = queue_call.old_rxq]
      /\ UNCHANGED <<xps_maps, xps_key, tc_state, xps_error, sender, sk_queue, qdiscs>>
  BY DEF set_real_num_fails, send_vars
<1>2. /\ real_num \in [tx : 1 .. NumTx, rx : Nat] /\ queue_call.old_rxq \in Nat
  BY DEF XpsInv, XpsTypes
<1>3. real_num' \in [tx : 1 .. NumTx, rx : Nat] /\ real_num'.tx = real_num.tx
  BY <1>1, <1>2
<1>4. XpsTypes'
  BY <1>1, <1>2, <1>3 DEF XpsInv, XpsTypes, NoCallRuns
<1>5. KeysCount' /\ ClassesFit' /\ QueuesInUse'
  BY <1>1, <1>3 DEF XpsInv, KeysCount, ClassesFit, QueuesInUse, NoCallRuns
<1> QED BY <1>4, <1>5 DEF XpsInv

LEMMA SetupTc ==
    ASSUME XpsInv, NEW txq \in Nat
    PROVE  LET r == netif_setup_tc(txq) IN
           /\ r \in [num_tc : 0 .. 2, range : [Class -> [offset : Nat, count : Nat]],
                     prio : [Prio -> Class]]
           /\ r.range = tc_state.range /\ r.num_tc \in {0, tc_state.num_tc}
           /\ r.num_tc > 0 => ~Outside(r.range[r.prio[1]], txq)
<1> DEFINE TC == [num_tc : 0 .. 2, range : [Class -> [offset : Nat, count : Nat]], prio : [Prio -> Class]]
<1>1. tc_state \in TC
  BY DEF XpsInv, XpsTypes
<1>2. CASE tc_state.num_tc = 0
  BY <1>1, <1>2 DEF netif_setup_tc
<1>3. CASE tc_state.num_tc # 0 /\ Outside(tc_state.range[0], txq)
  <2>1. netif_setup_tc(txq) = [tc_state EXCEPT !.num_tc = 0]
    BY <1>3 DEF netif_setup_tc
  <2> QED BY <1>1, <2>1
<1>4. CASE tc_state.num_tc # 0 /\ ~Outside(tc_state.range[0], txq)
  <2> DEFINE f == [p \in Prio |-> IF p > 0 /\ Outside(tc_state.range[tc_state.prio[p]], txq)
                                  THEN 0 ELSE tc_state.prio[p]]
  <2>1. netif_setup_tc(txq) = [tc_state EXCEPT !.prio = f]
    BY <1>4 DEF netif_setup_tc
  <2>2. f \in [Prio -> Class] /\ ~Outside(tc_state.range[f[1]], txq)
    BY <1>1, <1>4 DEF Prio, Class
  <2> HIDE DEF f
  <2> QED BY <1>1, <2>1, <2>2
<1> QED BY <1>2, <1>3, <1>4

LEMMA NumberSet == ASSUME XpsInv, set_real_num_tx PROVE XpsInv'
<1> DEFINE txq == queue_call.txq
<1>1. /\ queue_call.pc = "tx"
      /\ tc_state' = IF txq = real_num.tx THEN tc_state ELSE netif_setup_tc(txq)
      /\ real_num' = [tx |-> txq, rx |-> queue_call.rxq]
      /\ queue_call' = IF txq < real_num.tx
                       THEN [queue_call EXCEPT !.pc = "sync", !.waits = sender.pc # "idle"] ELSE NoCallRuns
      /\ UNCHANGED <<xps_maps, xps_key, xps_error, sender, sk_queue, qdiscs>>
  BY DEF set_real_num_tx, send_vars
<1>2. /\ queue_call \in [pc : {"idle", "tx", "sync"}, txq : Nat, rxq : Nat, old_rxq : Nat, waits : BOOLEAN]
      /\ txq \in 1 .. NumTx /\ txq \in Nat /\ queue_call.rxq \in Nat
      /\ real_num.tx \in 1 .. NumTx /\ real_num.tx \in Nat
      /\ sender \in [pc : {"idle", "picked"}, q : Nat]
  BY <1>1, XpsAssumption DEF XpsInv, XpsTypes
<1>3. real_num'.tx = txq /\ real_num' \in [tx : 1 .. NumTx, rx : Nat]
  BY <1>1, <1>2
<1>4. /\ tc_state' \in [num_tc : 0 .. 2, range : [Class -> [offset : Nat, count : Nat]],
                        prio : [Prio -> Class]]
      /\ tc_state'.range = tc_state.range /\ tc_state'.num_tc \in {0, tc_state.num_tc}
      /\ tc_state'.num_tc > 0 => ~Outside(tc_state'.range[tc_state'.prio[1]], txq)
  <2>1. CASE txq = real_num.tx
    BY <1>1, <2>1 DEF XpsInv, XpsTypes, ClassesFit
  <2>2. CASE txq # real_num.tx
    BY <1>1, <1>2, <2>2, SetupTc
  <2> QED BY <2>1, <2>2
<1>5. ClassesFit'
  BY <1>1, <1>3, <1>4 DEF XpsInv, XpsTypes, ClassesFit, MapOk
<1>6. KeysCount'
  BY <1>1 DEF XpsInv, KeysCount
<1>7. CASE txq < real_num.tx
  <2>1. /\ queue_call' \in [pc : {"idle", "tx", "sync"}, txq : Nat, rxq : Nat, old_rxq : Nat, waits : BOOLEAN]
        /\ queue_call'.pc = "sync" /\ queue_call'.txq = txq
        /\ queue_call'.waits = (sender.pc # "idle")
    BY <1>1, <1>2, <1>7
  <2> HIDE DEF txq
  <2>2. XpsTypes'
    BY <1>1, <1>2, <1>3, <1>4, <2>1 DEF XpsInv, XpsTypes
  <2>3. QueuesInUse'
    <3>1. UNCHANGED sender
      BY <1>1
    <3>2. sender.pc \in {"idle", "picked"}
      BY <1>2
    <3> QED BY <1>3, <2>1, <3>1, <3>2 DEF QueuesInUse
  <2> QED BY <1>5, <1>6, <2>2, <2>3 DEF XpsInv
<1>8. CASE ~(txq < real_num.tx)
  <2>1. queue_call' = NoCallRuns
    BY <1>1, <1>8
  <2>7. /\ queue_call'.pc = "idle"
        /\ queue_call' \in [pc : {"idle", "tx", "sync"}, txq : Nat, rxq : Nat, old_rxq : Nat, waits : BOOLEAN]
    BY <2>1 DEF NoCallRuns
  <2>8. UNCHANGED <<xps_maps, xps_error, sender, sk_queue, qdiscs>>
    BY <1>1
  <2>2. XpsTypes'
    BY <1>3, <1>4, <2>7, <2>8 DEF XpsInv, XpsTypes
  <2>3. \A p \in Nat : p < real_num.tx => p < txq
    BY <1>2, <1>8
  <2>4. /\ sender.pc = "picked" => sender.q < txq
        /\ \A q \in qdiscs : q < txq
    <3>1. (sender.pc = "picked" => sender.q \in Nat) /\ qdiscs \subseteq Nat
      BY XpsAssumption DEF XpsInv, XpsTypes, Queue
    <3>2. (sender.pc = "picked" => sender.q < real_num.tx) /\ \A q \in qdiscs : q < real_num.tx
      BY <1>1 DEF XpsInv, QueuesInUse
    <3> QED BY <2>3, <3>1, <3>2
  <2>5. ASSUME NEW t \in XpsType, Installed(xps_maps[t]), NEW c \in Cells(xps_maps[t], t),
               NEW q \in xps_maps[t].queues[c]
        PROVE  q < txq
    <3>1. q \in Nat
      BY <2>5, XpsAssumption DEF XpsInv, XpsTypes, MapOk, Queue
    <3>2. q < real_num.tx
      BY <1>1, <2>5 DEF XpsInv, QueuesInUse
    <3> QED BY <2>3, <3>1, <3>2
  <2> HIDE DEF txq
  <2>6. QueuesInUse'
    BY <1>3, <2>4, <2>5, <2>7, <2>8 DEF QueuesInUse
  <2> QED BY <1>5, <1>6, <2>2, <2>6 DEF XpsInv
<1> QED BY <1>7, <1>8

LEMMA NumberDone == ASSUME XpsInv, reset_tx_gt PROVE XpsInv'
<1> DEFINE gone == {q \in Queue : q >= queue_call.txq}
<1>1. /\ queue_call.pc = "sync" /\ ~queue_call.waits
      /\ qdiscs' = qdiscs \ gone /\ xps_maps' = netif_reset_xps_queues(gone)
      /\ key_change(xps_maps, xps_maps') /\ queue_call' = NoCallRuns
      /\ UNCHANGED <<tc_state, real_num, xps_error, sender, sk_queue>>
  BY DEF reset_tx_gt, senders_done
<1>2. /\ queue_call.txq = real_num.tx /\ real_num.tx \in Nat /\ qdiscs \subseteq Queue
      /\ XpsTypes /\ KeysCount
  BY <1>1, XpsAssumption DEF XpsInv, XpsTypes, QueuesInUse
<1>3. ASSUME NEW t \in XpsType
      PROVE  /\ MapOk(t, xps_maps'[t])
             /\ Installed(xps_maps'[t]) =>
                  /\ Installed(xps_maps[t]) /\ xps_maps'[t].num_tc = xps_maps[t].num_tc
                  /\ \A c \in Cells(xps_maps'[t], t) : xps_maps'[t].queues[c] = xps_maps[t].queues[c] \ gone
  <2> HIDE DEF gone
  <2> QED BY <1>1, <1>2, QueuesReset
<1>4. XpsTypes'
  BY <1>1, <1>3 DEF XpsInv, XpsTypes, netif_reset_xps_queues, NoCallRuns
<1>5. KeysCount'
  BY <1>1, <1>2, KeysFollow
<1>6. ClassesFit'
  BY <1>1, <1>3 DEF XpsInv, ClassesFit
<1>7. ASSUME NEW t \in XpsType, Installed(xps_maps'[t]), NEW c \in Cells(xps_maps'[t], t),
             NEW q \in xps_maps'[t].queues[c]
      PROVE  q < real_num.tx
  <2>1. q \in Queue /\ q \notin gone
    BY <1>3, <1>7 DEF MapOk
  <2> QED BY <1>2, <2>1, XpsAssumption DEF Queue
<1>8. ASSUME NEW q \in qdiscs' PROVE q < real_num.tx
  <2>1. q \in qdiscs /\ q \notin gone
    BY <1>1
  <2> QED BY <1>2, <2>1, XpsAssumption DEF Queue
<1>9. QueuesInUse'
  BY <1>1, <1>7, <1>8 DEF XpsInv, QueuesInUse, NoCallRuns
<1> QED BY <1>4, <1>5, <1>6, <1>9 DEF XpsInv

(* The queues a sender may be given are numbers, and it is held to those in *)
(* use.                                                                     *)
LEMMA SenderChoices ==
    ASSUME XpsInv, NEW cpu \in XpsCpu, NEW rxq \in 0 .. NumRx - 1, NEW prio \in Prio
    PROVE  OrElse(get_xps_queue(cpu, rxq, prio), skb_tx_hash(prio)) \subseteq Nat
<1>1. /\ NumTx \in Nat /\ NoQueue \in Nat /\ Queue \subseteq Nat
      /\ real_num.tx \in Nat /\ tc_state.prio[prio] \in Class
      /\ tc_state.range \in [Class -> [offset : Nat, count : Nat]]
  BY XpsAssumption DEF XpsInv, XpsTypes, NoQueue, Queue
<1>2. ASSUME NEW t \in XpsType, NEW id \in Ids(t) PROVE xps_queue_idx(t, id, prio) \subseteq Nat
  <2> DEFINE m == xps_maps[t]
             tc == tc_state.prio[prio]
             cell == IF Installed(m) /\ tc < m.num_tc THEN m.queues[<<id, tc>>] ELSE {}
  <2>1. cell \subseteq Queue
    <3>1. CASE Installed(m) /\ tc < m.num_tc
      <4>1. m.num_tc \in 1 .. 2 /\ m.queues \in [Cells(m, t) -> SUBSET Queue]
        BY <3>1 DEF XpsInv, XpsTypes, MapOk
      <4>2. <<id, tc>> \in Cells(m, t)
        BY <1>1, <3>1, <4>1 DEF Cells, Class
      <4> QED BY <3>1, <4>1, <4>2
    <3> QED BY <3>1
  <2>2. xps_queue_idx(t, id, prio) =
           IF cell = {} THEN {NoQueue} ELSE {IF q < real_num.tx THEN q ELSE NoQueue : q \in cell}
    BY DEF xps_queue_idx
  <2> HIDE DEF cell
  <2> QED BY <1>1, <2>1, <2>2
<1>3. get_xps_queue(cpu, rxq, prio) \subseteq Nat
  <2>1. xps_queue_idx("XPS_RXQS", rxq, prio) \subseteq Nat /\ xps_queue_idx("XPS_CPUS", cpu, prio) \subseteq Nat
    BY <1>2 DEF XpsType, Ids
  <2> QED BY <1>1, <2>1 DEF get_xps_queue, OrElse
<1>4. skb_tx_hash(prio) \subseteq Nat
  BY <1>1 DEF skb_tx_hash
<1> QED BY <1>3, <1>4 DEF OrElse

LEMMA PickKeeps ==
    ASSUME XpsInv, NEW cpu \in XpsCpu, NEW rxq \in 0 .. NumRx - 1, NEW prio \in Prio,
           netdev_core_pick_tx(cpu, rxq, prio)
    PROVE  XpsInv'
<1> DEFINE new == OrElse(get_xps_queue(cpu, rxq, prio), skb_tx_hash(prio))
<1>1. new \subseteq Nat
  BY SenderChoices
<1> HIDE DEF new
<1>2. /\ UNCHANGED <<xps_maps, xps_key, tc_state, real_num, queue_call, xps_error, qdiscs>>
      /\ \/ sender' = [pc |-> "picked", q |-> netdev_cap_txqueue(sk_queue)] /\ UNCHANGED sk_queue
         \/ \E q \in (IF real_num.tx = 1 THEN {0} ELSE new) :
               /\ sender' = [pc |-> "picked", q |-> netdev_cap_txqueue(q)]
               /\ sk_queue' \in (IF real_num.tx = 1 THEN {sk_queue} ELSE {sk_queue, q})
  BY DEF netdev_core_pick_tx, config_vars, new
<1>3. sk_queue \in Nat /\ real_num.tx \in 1 .. NumTx /\ real_num.tx \in Nat /\ NumTx \in Nat
  BY XpsAssumption DEF XpsInv, XpsTypes
<1>4. ASSUME NEW q \in Nat
      PROVE  /\ netdev_cap_txqueue(q) \in Queue /\ netdev_cap_txqueue(q) \in Nat
             /\ netdev_cap_txqueue(q) < real_num.tx
  BY <1>3 DEF netdev_cap_txqueue, Queue
<1>5. \E q \in Nat : sender' = [pc |-> "picked", q |-> netdev_cap_txqueue(q)] /\ sk_queue' \in {sk_queue, q}
  BY <1>1, <1>2, <1>3
<1>6. /\ sender' \in [pc : {"idle", "picked"}, q : Nat] /\ sender'.q \in Queue
      /\ sender'.q < real_num.tx /\ sk_queue' \in Nat
  BY <1>3, <1>4, <1>5
<1>7. XpsTypes'
  BY <1>2, <1>6 DEF XpsInv, XpsTypes
<1>8. KeysCount' /\ ClassesFit' /\ QueuesInUse'
  BY <1>2, <1>6 DEF XpsInv, KeysCount, ClassesFit, QueuesInUse
<1> QED BY <1>7, <1>8 DEF XpsInv

LEMMA EnqueueKeeps == ASSUME XpsInv, enqueue_skb PROVE XpsInv'
<1>1. /\ sender.pc = "picked" /\ qdiscs' = qdiscs \cup {sender.q}
      /\ sender' = [pc |-> "idle", q |-> NoQueue]
      /\ queue_call' = [queue_call EXCEPT !.waits = FALSE]
      /\ UNCHANGED <<xps_maps, xps_key, tc_state, real_num, xps_error, sk_queue>>
  BY DEF enqueue_skb
<1>2. /\ queue_call \in [pc : {"idle", "tx", "sync"}, txq : Nat, rxq : Nat, old_rxq : Nat, waits : BOOLEAN]
      /\ sender.q \in Queue /\ NoQueue \in Nat
  BY <1>1, XpsAssumption DEF XpsInv, XpsTypes, NoQueue
<1>3. /\ queue_call' \in [pc : {"idle", "tx", "sync"}, txq : Nat, rxq : Nat, old_rxq : Nat, waits : BOOLEAN]
      /\ queue_call'.pc = queue_call.pc /\ queue_call'.txq = queue_call.txq
  BY <1>1, <1>2
<1>4. sender'.pc = "idle" /\ sender' \in [pc : {"idle", "picked"}, q : Nat]
  BY <1>1, <1>2
<1>5. XpsTypes'
  BY <1>1, <1>2, <1>3, <1>4 DEF XpsInv, XpsTypes
<1>6. KeysCount' /\ ClassesFit'
  BY <1>1 DEF XpsInv, KeysCount, ClassesFit
<1>7. QueuesInUse'
  BY <1>1, <1>3, <1>4 DEF XpsInv, QueuesInUse
<1> QED BY <1>5, <1>6, <1>7 DEF XpsInv

LEMMA XpsStep ==
    ASSUME XpsInv, [XpsNext]_xps_vars
    PROVE  XpsInv'
<1>1. CASE UNCHANGED xps_vars
  BY <1>1 DEF xps_vars, XpsInv, XpsTypes, KeysCount, ClassesFit, QueuesInUse
<1>2. ASSUME NEW q \in Queue, run_qdisc(q) PROVE XpsInv'
  BY <1>2 DEF run_qdisc, config_vars, XpsInv, XpsTypes, KeysCount, ClassesFit, QueuesInUse
<1> QED BY <1>1, <1>2, SetQueueKeeps, SetupTcKeeps, ResetTcKeeps, NumberBegins, NumberFails, NumberSet,
           NumberDone, PickKeeps, EnqueueKeeps DEF XpsNext

LEMMA InvIsSound == XpsInv => XpsSound
<1> SUFFICES ASSUME XpsInv PROVE XpsSound
  OBVIOUS
<1> DEFINE S == {t \in XpsType : Installed(xps_maps[t])}
<1>1. Cardinality(S) = Count("XPS_CPUS" \in S) + Count("XPS_RXQS" \in S)
  <2>1. S = {} \/ S = {"XPS_CPUS"} \/ S = {"XPS_RXQS"} \/ S = {"XPS_CPUS"} \cup {"XPS_RXQS"}
    BY DEF XpsType
  <2>2. Cardinality({}) = 0 /\ IsFiniteSet({})
    BY FS_EmptySet
  <2>3. \A x : Cardinality({x}) = 1 /\ IsFiniteSet({x})
    BY FS_Singleton
  <2>4. Cardinality({"XPS_CPUS"} \cup {"XPS_RXQS"}) = 2
    <3>1. "XPS_RXQS" \notin {"XPS_CPUS"} /\ IsFiniteSet({"XPS_CPUS"})
      BY <2>3
    <3>2. Cardinality({"XPS_CPUS"} \cup {"XPS_RXQS"}) = Cardinality({"XPS_CPUS"}) + 1
      BY <3>1, FS_AddElement
    <3> QED BY <2>3, <3>2
  <2> HIDE DEF S
  <2> QED BY <2>1, <2>2, <2>3, <2>4 DEF Count
<1>2. xps_key.needed = Cardinality(S) /\ xps_key.rxqs = (IF Installed(xps_maps["XPS_RXQS"]) THEN 1 ELSE 0)
  BY <1>1 DEF XpsInv, KeysCount, Count, XpsType
<1>3. ASSUME NEW m \in Maps
      PROVE  \E t \in XpsType : m = xps_maps[t] /\ Installed(m) /\ DOMAIN m.queues = Cells(m, t)
  BY DEF Maps, Installed, XpsInv, XpsTypes, MapOk
<1>4. ASSUME Configurable, NEW m \in Maps
      PROVE  /\ \A c \in DOMAIN m.queues : \A q \in m.queues[c] : q < real_num.tx
             /\ \E c \in DOMAIN m.queues : m.queues[c] # {}
  <2>1. PICK t \in XpsType : m = xps_maps[t] /\ Installed(m) /\ DOMAIN m.queues = Cells(m, t)
    BY <1>3
  <2>2. MapOk(t, m)
    BY <2>1 DEF XpsInv, XpsTypes
  <2> QED BY <1>4, <2>1, <2>2 DEF MapOk, XpsInv, QueuesInUse, Configurable
<1>5. xps_error # "overrun"
  BY DEF XpsInv, XpsTypes
<1>6. Configurable => \A q \in qdiscs : q < real_num.tx
  BY DEF XpsInv, QueuesInUse, Configurable
<1>7. tc_state.num_tc > 0 =>
        \A p \in Prio \ {0} : ~Outside(tc_state.range[tc_state.prio[p]], real_num.tx)
  BY DEF XpsInv, ClassesFit, Prio
<1> QED BY <1>2, <1>4, <1>5, <1>6, <1>7 DEF XpsSound

LEMMA XpsTurn ==
    ASSUME [KernelNext]_kernel_vars, part' = "xps"
    PROVE  part = "xps" /\ [XpsNext]_xps_vars
BY DEF KernelNext, kernel_vars, Turn

(* __netif_set_xps_queue, netdev_set_num_tc, netif_set_real_num_tx_queues   *)
(* and the senders: for every number of queues and CPUs, no map and no      *)
(* packet is left on a queue out of use, the static keys count the maps,    *)
(* and no map of fewer classes than are walked is ever found.               *)
THEOREM QueuesSafe == KernelSpec => []Queues
<1> DEFINE I == part = "xps" => XpsInv
<1>1. KernelInit => I
  BY XpsStart DEF KernelInit
<1>2. I /\ [KernelNext]_kernel_vars => I'
  BY XpsTurn, XpsStep
<1>3. I => Queues
  BY InvIsSound DEF Queues, While
<1> QED BY <1>1, <1>2, <1>3, PTL DEF KernelSpec

------------------------------------------------------------------------------
(* Backlogs *)

(* The softnet_data of a CPU.                                               *)
BlRec == [input : Seq(Nat), process : Seq(Nat), skb : Nat, head : Nat, tail : Nat,
          sched : BOOLEAN, listed : BOOLEAN, polling : BOOLEAN, work : Nat]

BlHand(sd) == IF sd.skb = NoPacket THEN << >> ELSE <<sd.skb>>

(* The packets of a backlog, in the order they will be handled.             *)
BlLine(sd) == BlHand(sd) \o (sd.process \o sd.input)

BlOnce(s) == \A i, j \in 1 .. Len(s) : i # j => s[i] # s[j]
BlRising(s) == \A i, j \in 1 .. Len(s) : i < j => s[i] < s[j]

(* Each of the packets all is in one place: on one line once, handled once, *)
(* or lost.                                                                 *)
BlPlaces(line, given, lost, all) ==
    /\ line \in [BlCpu -> Seq(Nat)] /\ given \in Seq(Nat) /\ BlOnce(given)
    /\ \A x \in ToSet(given) : x \notin lost
    /\ \A c \in BlCpu : BlOnce(line[c])
    /\ \A c \in BlCpu : \A x \in ToSet(line[c]) : x \notin ToSet(given) /\ x \notin lost
    /\ \A c, d \in BlCpu : c # d => \A x \in ToSet(line[c]) : x \notin ToSet(line[d])
    /\ \A x : x \in all <=> x \in ToSet(given) \/ x \in lost \/ \E c \in BlCpu : x \in ToSet(line[c])

(* Only the CPU f of the flow has packets, and they follow the handled ones.*)
BlOrder(line, given, f) ==
    /\ BlRising(given)
    /\ \A d \in BlCpu : d # f => line[d] = << >>
    /\ f \in BlCpu => BlRising(line[f]) /\ \A x \in ToSet(given), y \in ToSet(line[f]) : x < y

BlLines(sds) == [c \in BlCpu |-> BlLine(sds[c])]

BlTypes ==
    /\ bl_sd \in [BlCpu -> BlRec]
    /\ bl_flow \in [cpu : BlCpu \cup {NoCpu}, last_qtail : Nat] /\ bl_want \in BlCpu
    /\ bl_ipis \subseteq BlCpu /\ bl_sent \subseteq BlCpu /\ bl_flush \subseteq BlCpu
    /\ bl_online \subseteq BlCpu /\ Home \in bl_online
    /\ bl_next \in Nat /\ bl_stale \in BOOLEAN

BlKept == BlPlaces(BlLines(bl_sd), bl_given, bl_lost, 1 .. bl_next)

BlCounts(sds) == \A c \in BlCpu : sds[c].tail = sds[c].head + Len(BlLine(sds[c]))

(* As long as no CPU has gone down, last_qtail is the end of the line of    *)
(* the flow's CPU: the flow moves only when that line is empty.             *)
BlOrdered ==
    ~bl_stale => /\ bl_online = BlCpu /\ BlOrder(BlLines(bl_sd), bl_given, bl_flow.cpu)
                 /\ bl_flow.cpu # NoCpu => bl_flow.last_qtail = bl_sd[bl_flow.cpu].tail

(* A backlog is kicked once: an IPI is due only for one that is scheduled   *)
(* and not yet on the poll list.                                            *)
BlKick(c, sd, ipis, sent, up, stale) ==
    /\ sd.listed => sd.sched
    /\ sd.polling => sd.listed /\ c \in up
    /\ sd.skb # NoPacket => sd.polling
    /\ c \in ipis \/ c \in sent => sd.sched /\ ~sd.listed
    /\ ~(c \in ipis /\ c \in sent)
    /\ c \in up /\ (sd.input # << >> \/ sd.process # << >>) => sd.sched
    /\ ~stale /\ sd.sched => sd.listed \/ c \in ipis \/ c \in sent
BlKicked(sds) == \A c \in BlCpu : BlKick(c, sds[c], bl_ipis, bl_sent, bl_online, bl_stale)

(* A closed device gets no new packets, so what is flushed stays empty.     *)
BlFlushed(sds) ==
    /\ bl_dev \in {"flushing", "gone"} =>
         \A c \in bl_online : c \notin bl_flush => sds[c].input = << >> /\ sds[c].process = << >>
    /\ bl_dev = "gone" => bl_flush = {} /\ \A c \in BlCpu : sds[c].skb = NoPacket

(* The inductive invariant of the backlogs.                                 *)
BlInv == /\ BlTypes /\ BlKept /\ BlOrdered
         /\ BlCounts(bl_sd) /\ BlKicked(bl_sd) /\ BlFlushed(bl_sd)

LEMMA BlNil == ToSet(<< >>) = {} /\ BlOnce(<< >>) /\ BlRising(<< >>) /\ Len(<< >>) = 0 /\ << >> \in Seq(Nat)
BY DEF ToSet, BlOnce, BlRising

LEMMA BlAppend ==
    ASSUME NEW s \in Seq(Nat), NEW x \in Nat
    PROVE  /\ Append(s, x) \in Seq(Nat) /\ Len(Append(s, x)) = Len(s) + 1
           /\ ToSet(Append(s, x)) = ToSet(s) \cup {x}
           /\ BlOnce(s) /\ x \notin ToSet(s) => BlOnce(Append(s, x))
           /\ BlRising(s) /\ (\A y \in ToSet(s) : y < x) => BlRising(Append(s, x))
<1>0. Len(s) \in Nat /\ DOMAIN s = 1 .. Len(s)
  BY LenProperties
<1>1. PICK t : t = Append(s, x)
  OBVIOUS
<1>2. /\ t \in Seq(Nat) /\ Len(t) = Len(s) + 1
      /\ \A i \in 1 .. Len(s) : t[i] = s[i] /\ s[i] \in Nat
      /\ t[Len(s) + 1] = x
  BY <1>1, AppendProperties, ElementOfSeq
<1>3. DOMAIN t = 1 .. Len(s) + 1
  BY <1>2, LenProperties
<1>4. \A i \in 1 .. Len(s) + 1 : i \in 1 .. Len(s) \/ i = Len(s) + 1
  BY <1>0
<1>5. \A i \in 1 .. Len(s) : i \in 1 .. Len(s) + 1 /\ i # Len(s) + 1 /\ ~(Len(s) + 1 < i)
  BY <1>0
<1>5a. Len(s) + 1 \in 1 .. Len(s) + 1 /\ ~(Len(s) + 1 < Len(s) + 1)
  BY <1>0
<1>6. ToSet(t) = ToSet(s) \cup {x}
  <2>1. ASSUME NEW y \in ToSet(t) PROVE y \in ToSet(s) \cup {x}
    <3>1. PICK i \in 1 .. Len(s) + 1 : y = t[i]
      BY <1>3, <2>1 DEF ToSet
    <3> QED BY <1>0, <1>2, <1>4, <3>1 DEF ToSet
  <2>2. ASSUME NEW y \in ToSet(s) \cup {x} PROVE y \in ToSet(t)
    <3>1. CASE y = x
      BY <1>2, <1>3, <1>5a, <3>1 DEF ToSet
    <3>2. CASE y \in ToSet(s)
      <4>1. PICK i \in 1 .. Len(s) : y = s[i]
        BY <1>0, <3>2 DEF ToSet
      <4> QED BY <1>2, <1>3, <1>5, <4>1 DEF ToSet
    <3> QED BY <2>2, <3>1, <3>2
  <2> QED BY <2>1, <2>2
<1>6a. \A i \in 1 .. Len(s) : s[i] \in ToSet(s)
  BY <1>0 DEF ToSet
<1>7. ASSUME BlOnce(s), x \notin ToSet(s) PROVE BlOnce(t)
  BY <1>2, <1>4, <1>6a, <1>7 DEF BlOnce
<1>8. ASSUME BlRising(s), \A y \in ToSet(s) : y < x PROVE BlRising(t)
  <2> SUFFICES ASSUME NEW i \in 1 .. Len(s) + 1, NEW j \in 1 .. Len(s) + 1, i < j PROVE t[i] < t[j]
    BY <1>2 DEF BlRising
  <2>1. i \in 1 .. Len(s)
    BY <1>0
  <2> QED BY <1>2, <1>4, <1>6a, <1>8, <2>1 DEF BlRising
<1> QED BY <1>1, <1>2, <1>6, <1>7, <1>8

(* A line that begins with the packet x.                                    *)
LEMMA BlCons ==
    ASSUME NEW t \in Seq(Nat), NEW x \in Nat, NEW s, s = <<x>> \o t
    PROVE  /\ s \in Seq(Nat) /\ Len(s) = Len(t) + 1
           /\ ToSet(s) = ToSet(t) \cup {x}
           /\ BlOnce(s) => BlOnce(t) /\ x \notin ToSet(t)
           /\ BlRising(s) => BlRising(t) /\ \A y \in ToSet(t) : x < y
<1>0. Len(t) \in Nat /\ DOMAIN t = 1 .. Len(t) /\ \A i \in 1 .. Len(t) : t[i] \in Nat
  BY LenProperties, ElementOfSeq
<1>1. <<x>> \in Seq(Nat) /\ Len(<<x>>) = 1 /\ <<x>>[1] = x
  OBVIOUS
<1>2. /\ s \in Seq(Nat) /\ Len(s) = Len(t) + 1
      /\ \A i \in 1 .. Len(t) + 1 : s[i] = IF i <= 1 THEN <<x>>[i] ELSE t[i - 1]
  BY <1>0, <1>1, ConcatProperties
<1>3. s[1] = x /\ 1 \in 1 .. Len(t) + 1
  BY <1>0, <1>1, <1>2
<1>4. \A i \in 1 .. Len(t) : i + 1 \in 1 .. Len(t) + 1 /\ s[i + 1] = t[i] /\ i + 1 # 1 /\ 1 < i + 1
  <2> SUFFICES ASSUME NEW i \in 1 .. Len(t)
               PROVE  i + 1 \in 1 .. Len(t) + 1 /\ s[i + 1] = t[i] /\ i + 1 # 1 /\ 1 < i + 1
    OBVIOUS
  <2>1. i + 1 \in 1 .. Len(t) + 1 /\ ~(i + 1 <= 1) /\ (i + 1) - 1 = i
    BY <1>0
  <2> QED BY <1>2, <2>1
<1>5. \A i \in 1 .. Len(t) + 1 : i # 1 => i - 1 \in 1 .. Len(t) /\ s[i] = t[i - 1]
  <2>1. ASSUME NEW i \in 1 .. Len(t) + 1, i # 1 PROVE i - 1 \in 1 .. Len(t) /\ s[i] = t[i - 1]
    <3>1. i - 1 \in 1 .. Len(t) /\ ~(i <= 1)
      BY <1>0, <2>1
    <3> QED BY <1>2, <3>1
  <2> QED BY <2>1
<1>6. DOMAIN s = 1 .. Len(t) + 1
  BY <1>2, LenProperties
<1>7. ToSet(s) = ToSet(t) \cup {x}
  <2>1. ASSUME NEW y \in ToSet(s) PROVE y \in ToSet(t) \cup {x}
    <3>1. PICK i \in 1 .. Len(t) + 1 : y = s[i]
      BY <1>6, <2>1 DEF ToSet
    <3> QED BY <1>0, <1>3, <1>5, <3>1 DEF ToSet
  <2>2. ASSUME NEW y \in ToSet(t) \cup {x} PROVE y \in ToSet(s)
    <3>1. CASE y = x
      BY <1>3, <1>6, <3>1 DEF ToSet
    <3>2. CASE y \in ToSet(t)
      <4>1. PICK i \in 1 .. Len(t) : y = t[i]
        BY <1>0, <3>2 DEF ToSet
      <4> QED BY <1>4, <1>6, <4>1 DEF ToSet
    <3> QED BY <2>2, <3>1, <3>2
  <2> QED BY <2>1, <2>2
<1>8. ASSUME BlOnce(s) PROVE BlOnce(t) /\ x \notin ToSet(t)
  <2>1. ASSUME NEW i \in 1 .. Len(t), NEW j \in 1 .. Len(t), i # j PROVE t[i] # t[j]
    <3>1. PICK a, b : a = i + 1 /\ b = j + 1
      OBVIOUS
    <3>2. a # b /\ a \in Int /\ b \in Int
      BY <2>1, <3>1
    <3>3. a \in 1 .. Len(s) /\ s[a] = t[i]
      BY <1>2, <1>4, <3>1
    <3>4. b \in 1 .. Len(s) /\ s[b] = t[j]
      BY <1>2, <1>4, <3>1
    <3> QED BY <1>8, <3>2, <3>3, <3>4 DEF BlOnce
  <2>2. ASSUME NEW i \in 1 .. Len(t) PROVE t[i] # x
    BY <1>2, <1>3, <1>4, <1>8 DEF BlOnce
  <2> QED BY <1>0, <2>1, <2>2 DEF BlOnce, ToSet
<1>9. ASSUME BlRising(s) PROVE BlRising(t) /\ \A y \in ToSet(t) : x < y
  <2>1. ASSUME NEW i \in 1 .. Len(t), NEW j \in 1 .. Len(t), i < j PROVE t[i] < t[j]
    <3>1. PICK a, b : a = i + 1 /\ b = j + 1
      OBVIOUS
    <3>2. a < b /\ a \in Int /\ b \in Int
      BY <2>1, <3>1
    <3>3. a \in 1 .. Len(s) /\ s[a] = t[i]
      BY <1>2, <1>4, <3>1
    <3>4. b \in 1 .. Len(s) /\ s[b] = t[j]
      BY <1>2, <1>4, <3>1
    <3> QED BY <1>9, <3>2, <3>3, <3>4 DEF BlRising
  <2>2. ASSUME NEW i \in 1 .. Len(t) PROVE x < t[i]
    BY <1>2, <1>3, <1>4, <1>9 DEF BlRising
  <2> QED BY <1>0, <2>1, <2>2 DEF BlRising, ToSet
<1> QED BY <1>2, <1>7, <1>8, <1>9

LEMMA BlCount ==
    ASSUME NEW s \in Seq(Nat), BlOnce(s)
    PROVE  Cardinality(ToSet(s)) = Len(s)
<1>1. Len(s) \in Nat /\ DOMAIN s = 1 .. Len(s) /\ s \in [1 .. Len(s) -> ToSet(s)]
  BY LenProperties DEF ToSet
<1>2. \A y \in ToSet(s) : \E i \in 1 .. Len(s) : s[i] = y
  BY <1>1 DEF ToSet
<1>3. s \in Surjection(1 .. Len(s), ToSet(s))
  BY <1>1, <1>2 DEF Surjection
<1>4. s \in Injection(1 .. Len(s), ToSet(s))
  BY <1>1 DEF Injection, IsInjective, BlOnce
<1>5. ExistsBijection(1 .. Len(s), ToSet(s))
  BY <1>3, <1>4 DEF ExistsBijection, Bijection
<1> QED BY <1>1, <1>5, FS_CountingElements

LEMMA BlSingle == ASSUME NEW x \in Nat PROVE <<x>> \in Seq(Nat) /\ ToSet(<<x>>) = {x} /\ <<x>> # << >>
<1>1. <<x>> \in Seq(Nat) /\ Len(<<x>>) = 1 /\ <<x>>[1] = x
  OBVIOUS
<1>2. DOMAIN <<x>> = 1 .. 1
  BY <1>1, LenProperties
<1>3. ToSet(<<x>>) = {x}
  BY <1>1, <1>2 DEF ToSet
<1> QED BY <1>1, <1>3, BlNil

LEMMA BlConcatSet ==
    ASSUME NEW s \in Seq(Nat), NEW t \in Seq(Nat)
    PROVE  s \o t \in Seq(Nat) /\ ToSet(s \o t) = ToSet(s) \cup ToSet(t)
<1>0. /\ Len(s) \in Nat /\ DOMAIN s = 1 .. Len(s)
      /\ Len(t) \in Nat /\ DOMAIN t = 1 .. Len(t)
  BY LenProperties
<1>1. PICK u : u = s \o t
  OBVIOUS
<1>2. /\ u \in Seq(Nat) /\ Len(u) = Len(s) + Len(t)
      /\ \A i \in 1 .. Len(s) + Len(t) : u[i] = IF i <= Len(s) THEN s[i] ELSE t[i - Len(s)]
  BY <1>1, ConcatProperties
<1>3. DOMAIN u = 1 .. Len(s) + Len(t)
  BY <1>2, LenProperties
<1>4. ASSUME NEW y \in ToSet(u) PROVE y \in ToSet(s) \cup ToSet(t)
  <2>1. PICK i \in 1 .. Len(s) + Len(t) : y = u[i]
    BY <1>3, <1>4 DEF ToSet
  <2>2. CASE i <= Len(s)
    <3>1. i \in 1 .. Len(s) /\ y = s[i]
      BY <1>0, <1>2, <2>1, <2>2
    <3> QED BY <1>0, <3>1 DEF ToSet
  <2>3. CASE ~(i <= Len(s))
    <3>1. i - Len(s) \in 1 .. Len(t) /\ y = t[i - Len(s)]
      BY <1>0, <1>2, <2>1, <2>3
    <3> QED BY <1>0, <3>1 DEF ToSet
  <2> QED BY <2>2, <2>3
<1>5. ASSUME NEW y \in ToSet(s) PROVE y \in ToSet(u)
  <2>1. PICK i \in 1 .. Len(s) : y = s[i]
    BY <1>0, <1>5 DEF ToSet
  <2>2. i \in 1 .. Len(s) + Len(t) /\ i <= Len(s)
    BY <1>0
  <2> QED BY <1>2, <1>3, <2>1, <2>2 DEF ToSet
<1>6. ASSUME NEW y \in ToSet(t) PROVE y \in ToSet(u)
  <2>1. PICK i \in 1 .. Len(t) : y = t[i]
    BY <1>0, <1>6 DEF ToSet
  <2>2. PICK j : j = i + Len(s)
    OBVIOUS
  <2>3. j \in 1 .. Len(s) + Len(t) /\ ~(j <= Len(s)) /\ j - Len(s) = i
    BY <1>0, <2>2
  <2> QED BY <1>2, <1>3, <2>1, <2>3 DEF ToSet
<1> QED BY <1>1, <1>2, <1>4, <1>5, <1>6

LEMMA BlHeadTail ==
    ASSUME NEW s \in Seq(Nat), s # << >>
    PROVE  Head(s) \in Nat /\ Tail(s) \in Seq(Nat) /\ s = <<Head(s)>> \o Tail(s)
<1>1. PICK h, t : h = Head(s) /\ t = Tail(s)
  OBVIOUS
<1>2. /\ h \in Nat /\ t \in Seq(Nat) /\ Len(t) = Len(s) - 1
      /\ \A i \in 1 .. Len(t) : t[i] = s[i + 1]
  BY <1>1, HeadTailProperties
<1>3. Len(s) \in Nat /\ Len(t) \in Nat /\ h = s[1]
  BY <1>1, <1>2, LenProperties
<1>4. <<h>> \in Seq(Nat) /\ Len(<<h>>) = 1 /\ <<h>>[1] = h
  BY <1>2
<1>5. PICK u : u = <<h>> \o t
  OBVIOUS
<1>6. /\ u \in Seq(Nat) /\ Len(u) = 1 + Len(t)
      /\ \A i \in 1 .. 1 + Len(t) : u[i] = IF i <= 1 THEN <<h>>[i] ELSE t[i - 1]
  BY <1>2, <1>4, <1>5, ConcatProperties
<1>7. Len(u) = Len(s)
  BY <1>2, <1>3, <1>6
<1>8. ASSUME NEW i \in 1 .. Len(u) PROVE u[i] = s[i]
  <2>1. CASE i = 1
    BY <1>3, <1>4, <1>6, <2>1
  <2>2. CASE i # 1
    <3>1. PICK j : j = i - 1
      OBVIOUS
    <3>2. j \in 1 .. Len(t) /\ j + 1 = i /\ ~(i <= 1)
      BY <1>3, <1>6, <2>2, <3>1
    <3> QED BY <1>2, <1>6, <3>1, <3>2
  <2> QED BY <2>1, <2>2
<1> QED BY <1>1, <1>2, <1>5, <1>6, <1>7, <1>8, SeqEqual

LEMMA BlHeadCons ==
    ASSUME NEW x \in Nat, NEW t \in Seq(Nat)
    PROVE  Head(<<x>> \o t) = x
<1>1. <<x>> \in Seq(Nat) /\ Len(<<x>>) = 1 /\ <<x>>[1] = x /\ Len(t) \in Nat
  BY LenProperties
<1>2. PICK u : u = <<x>> \o t
  OBVIOUS
<1>3. /\ u \in Seq(Nat) /\ Len(u) = 1 + Len(t)
      /\ \A i \in 1 .. 1 + Len(t) : u[i] = IF i <= 1 THEN <<x>>[i] ELSE t[i - 1]
  BY <1>1, <1>2, ConcatProperties
<1>4. u[1] = x /\ u # << >>
  BY <1>1, <1>3
<1>5. Head(u) = u[1]
  BY <1>3, <1>4
<1> QED BY <1>2, <1>4, <1>5

(* The first packet x of a line leaves it.                                  *)
LEMMA BlTake ==
    ASSUME NEW line, NEW given, NEW lost, NEW all, BlPlaces(line, given, lost, all),
           NEW c \in BlCpu, NEW t \in Seq(Nat), NEW x \in Nat, line[c] = <<x>> \o t
    PROVE  /\ BlPlaces([line EXCEPT ![c] = t], given, lost, all \ {x})
           /\ x \in all
<1>1. PICK l : l = [line EXCEPT ![c] = t]
  OBVIOUS
<1>2. /\ ToSet(line[c]) = ToSet(t) \cup {x}
      /\ BlOnce(t) /\ x \notin ToSet(t)
  BY BlCons DEF BlPlaces
<1>3. l \in [BlCpu -> Seq(Nat)] /\ l[c] = t /\ \A d \in BlCpu : d # c => l[d] = line[d]
  BY <1>1 DEF BlPlaces
<1>4. \A d \in BlCpu : ToSet(l[d]) \subseteq ToSet(line[d]) /\ x \notin ToSet(l[d])
  BY <1>2, <1>3 DEF BlPlaces
<1>5. \A d \in BlCpu : BlOnce(l[d])
  BY <1>2, <1>3 DEF BlPlaces
<1>6. x \in all /\ x \notin ToSet(given) /\ x \notin lost
  BY <1>2 DEF BlPlaces
<1>7. ASSUME NEW y
      PROVE  y \in all \ {x} <=> y \in ToSet(given) \/ y \in lost \/ \E d \in BlCpu : y \in ToSet(l[d])
  <2>1. ASSUME NEW d \in BlCpu, y \in ToSet(line[d]), y # x PROVE y \in ToSet(l[d])
    BY <1>2, <1>3, <2>1
  <2> QED BY <1>4, <1>6, <2>1 DEF BlPlaces
<1>8. \A d, e \in BlCpu : d # e => \A y \in ToSet(l[d]) : y \notin ToSet(l[e])
  BY <1>4 DEF BlPlaces
<1>9. \A d \in BlCpu : \A y \in ToSet(l[d]) : y \notin ToSet(given) /\ y \notin lost
  BY <1>4 DEF BlPlaces
<1> QED BY <1>1, <1>3, <1>5, <1>6, <1>7, <1>8, <1>9 DEF BlPlaces

(* A packet x that has no place comes to the end of a line,                 *)
LEMMA BlPut ==
    ASSUME NEW line, NEW given, NEW lost, NEW all, BlPlaces(line, given, lost, all),
           NEW c \in BlCpu, NEW x \in Nat, x \notin all
    PROVE  BlPlaces([line EXCEPT ![c] = Append(line[c], x)], given, lost, all \cup {x})
<1>1. PICK l : l = [line EXCEPT ![c] = Append(line[c], x)]
  OBVIOUS
<1>2. line[c] \in Seq(Nat) /\ x \notin ToSet(line[c]) /\ BlOnce(line[c])
  BY DEF BlPlaces
<1>3. /\ Append(line[c], x) \in Seq(Nat) /\ ToSet(Append(line[c], x)) = ToSet(line[c]) \cup {x}
      /\ BlOnce(Append(line[c], x))
  BY <1>2, BlAppend
<1>4. l \in [BlCpu -> Seq(Nat)] /\ l[c] = Append(line[c], x) /\ \A d \in BlCpu : d # c => l[d] = line[d]
  BY <1>1, <1>3 DEF BlPlaces
<1>5. \A d \in BlCpu : BlOnce(l[d])
  BY <1>3, <1>4 DEF BlPlaces
<1>6. \A d \in BlCpu : \A y : y \in ToSet(l[d]) <=> y \in ToSet(line[d]) \/ (d = c /\ y = x)
  BY <1>3, <1>4
<1>7. x \notin ToSet(given) /\ x \notin lost /\ \A d \in BlCpu : x \notin ToSet(line[d])
  BY DEF BlPlaces
<1>8. \A y : y \in all \cup {x} <=> y \in ToSet(given) \/ y \in lost \/ \E d \in BlCpu : y \in ToSet(l[d])
  BY <1>6 DEF BlPlaces
<1>9. ASSUME NEW d \in BlCpu, NEW e \in BlCpu, d # e, NEW y \in ToSet(l[d]) PROVE y \notin ToSet(l[e])
  <2>0. \A z \in ToSet(line[d]) : z \notin ToSet(line[e])
    BY <1>9 DEF BlPlaces
  <2>1. CASE d = c
    <3>1. (y \in ToSet(line[c]) \/ y = x) /\ l[e] = line[e]
      BY <1>4, <1>6, <1>9, <2>1
    <3> QED BY <1>7, <2>0, <2>1, <3>1
  <2>2. CASE d # c
    <3>1. y \in ToSet(line[d])
      BY <1>6, <1>9, <2>2
    <3> QED BY <1>6, <1>7, <2>0, <3>1
  <2> QED BY <2>1, <2>2
<1>10. \A d \in BlCpu : \A y \in ToSet(l[d]) : y \notin ToSet(given) /\ y \notin lost
  BY <1>6, <1>7 DEF BlPlaces
<1> QED BY <1>1, <1>4, <1>5, <1>8, <1>9, <1>10 DEF BlPlaces

(* is handled,                                                              *)
LEMMA BlGive ==
    ASSUME NEW line, NEW given, NEW lost, NEW all, BlPlaces(line, given, lost, all),
           NEW x \in Nat, x \notin all
    PROVE  BlPlaces(line, Append(given, x), lost, all \cup {x})
<1>1. PICK g : g = Append(given, x)
  OBVIOUS
<1>2. /\ given \in Seq(Nat) /\ BlOnce(given) /\ x \notin ToSet(given) /\ x \notin lost
      /\ \A d \in BlCpu : x \notin ToSet(line[d])
  BY DEF BlPlaces
<1>3. g \in Seq(Nat) /\ ToSet(g) = ToSet(given) \cup {x} /\ BlOnce(g)
  BY <1>1, <1>2, BlAppend
<1>4. \A y \in ToSet(g) : y \notin lost
  BY <1>2, <1>3 DEF BlPlaces
<1>5. \A d \in BlCpu : \A y \in ToSet(line[d]) : y \notin ToSet(g) /\ y \notin lost
  BY <1>2, <1>3 DEF BlPlaces
<1>6. \A y : y \in all \cup {x} <=> y \in ToSet(g) \/ y \in lost \/ \E d \in BlCpu : y \in ToSet(line[d])
  BY <1>3 DEF BlPlaces
<1> QED BY <1>1, <1>3, <1>4, <1>5, <1>6 DEF BlPlaces

(* or is lost.                                                              *)
LEMMA BlLose ==
    ASSUME NEW line, NEW given, NEW lost, NEW all, BlPlaces(line, given, lost, all),
           NEW x \in Nat, x \notin all
    PROVE  BlPlaces(line, given, lost \cup {x}, all \cup {x})
BY DEF BlPlaces

(* All packets of a line are lost.                                          *)
LEMMA BlEmpty ==
    ASSUME NEW line, NEW given, NEW lost, NEW all, BlPlaces(line, given, lost, all), NEW c \in BlCpu
    PROVE  BlPlaces([line EXCEPT ![c] = << >>], given, lost \cup ToSet(line[c]), all)
<1>1. PICK l, m : l = [line EXCEPT ![c] = << >>] /\ m = lost \cup ToSet(line[c])
  OBVIOUS
<1>2. l \in [BlCpu -> Seq(Nat)] /\ l[c] = << >> /\ \A d \in BlCpu : d # c => l[d] = line[d]
  BY <1>1 DEF BlPlaces
<1>3. /\ \A y : y \notin ToSet(l[c])
      /\ \A d \in BlCpu : \A y : y \in ToSet(l[d]) <=> d # c /\ y \in ToSet(line[d])
  BY <1>2, BlNil
<1>4. \A d \in BlCpu : BlOnce(l[d])
  BY <1>2, BlNil DEF BlPlaces
<1>5. \A y \in ToSet(given) : y \notin m
  BY <1>1 DEF BlPlaces
<1>6. \A d \in BlCpu : \A y \in ToSet(l[d]) : y \notin ToSet(given) /\ y \notin m
  BY <1>1, <1>3 DEF BlPlaces
<1>7. \A d, e \in BlCpu : d # e => \A y \in ToSet(l[d]) : y \notin ToSet(l[e])
  BY <1>3 DEF BlPlaces
<1>8. ASSUME NEW y
      PROVE  y \in all <=> y \in ToSet(given) \/ y \in m \/ \E d \in BlCpu : y \in ToSet(l[d])
  <2>1. ASSUME NEW d \in BlCpu, y \in ToSet(line[d]) PROVE y \in m \/ y \in ToSet(l[d])
    BY <1>1, <1>3, <2>1
  <2> QED BY <1>1, <1>3, <2>1 DEF BlPlaces
<1> QED BY <1>1, <1>2, <1>4, <1>5, <1>6, <1>7, <1>8 DEF BlPlaces

(* What keeps the packets of the flow in order: the first is handled,       *)
LEMMA BlOrderHandled ==
    ASSUME NEW line \in [BlCpu -> Seq(Nat)], NEW given \in Seq(Nat), NEW f, BlOrder(line, given, f),
           NEW c \in BlCpu, NEW t \in Seq(Nat), NEW x \in Nat, line[c] = <<x>> \o t
    PROVE  BlOrder([line EXCEPT ![c] = t], Append(given, x), f)
<1>1. PICK l, g : l = [line EXCEPT ![c] = t] /\ g = Append(given, x)
  OBVIOUS
<1>2. Len(line[c]) = Len(t) + 1 /\ Len(t) \in Nat
  BY BlCons, LenProperties
<1>3. line[c] # << >>
  BY <1>2, BlNil
<1>4. c = f
  BY <1>3 DEF BlOrder
<1>5. l[c] = t /\ \A d \in BlCpu : d # c => l[d] = line[d]
  BY <1>1
<1>6. /\ ToSet(line[c]) = ToSet(t) \cup {x}
      /\ BlRising(t) /\ \A y \in ToSet(t) : x < y
  BY <1>4, BlCons DEF BlOrder
<1>7. ToSet(g) = ToSet(given) \cup {x} /\ BlRising(g)
  BY <1>1, <1>4, <1>6, BlAppend DEF BlOrder
<1>8. \A y \in ToSet(g), z \in ToSet(l[c]) : y < z
  BY <1>4, <1>5, <1>6, <1>7 DEF BlOrder
<1> QED BY <1>1, <1>4, <1>5, <1>6, <1>7, <1>8 DEF BlOrder

(* a later one arrives,                                                     *)
LEMMA BlOrderArrived ==
    ASSUME NEW line \in [BlCpu -> Seq(Nat)], NEW given \in Seq(Nat), NEW f \in BlCpu,
           BlOrder(line, given, f), NEW x \in Nat,
           \A y \in ToSet(given) : y < x, \A y \in ToSet(line[f]) : y < x
    PROVE  BlOrder([line EXCEPT ![f] = Append(line[f], x)], given, f)
<1>1. PICK l : l = [line EXCEPT ![f] = Append(line[f], x)]
  OBVIOUS
<1>2. l[f] = Append(line[f], x) /\ \A d \in BlCpu : d # f => l[d] = line[d]
  BY <1>1
<1>3. ToSet(l[f]) = ToSet(line[f]) \cup {x} /\ BlRising(l[f])
  BY <1>2, BlAppend DEF BlOrder
<1> QED BY <1>1, <1>2, <1>3 DEF BlOrder

(* all that wait are lost,                                                  *)
LEMMA BlOrderLost ==
    ASSUME NEW line \in [BlCpu -> Seq(Nat)], NEW given, NEW f, BlOrder(line, given, f), NEW c \in BlCpu
    PROVE  BlOrder([line EXCEPT ![c] = << >>], given, f)
<1>1. PICK l : l = [line EXCEPT ![c] = << >>]
  OBVIOUS
<1>2. l[c] = << >> /\ \A d \in BlCpu : d # c => l[d] = line[d]
  BY <1>1
<1> QED BY <1>1, <1>2, BlNil DEF BlOrder

(* or the flow moves while none waits.                                      *)
LEMMA BlOrderMoved ==
    ASSUME NEW line \in [BlCpu -> Seq(Nat)], NEW given, NEW f, BlOrder(line, given, f),
           f \in BlCpu => line[f] = << >>, NEW g
    PROVE  BlOrder(line, given, g)
<1>1. \A d \in BlCpu : line[d] = << >>
  BY DEF BlOrder
<1> QED BY <1>1, BlNil DEF BlOrder

------------------------------------------------------------------------------
(* The line of a softnet_data *)

LEMMA BlLineSeq ==
    ASSUME NEW sd \in BlRec
    PROVE  /\ BlLine(sd) \in Seq(Nat) /\ BlHand(sd) \in Seq(Nat)
           /\ sd.process \o sd.input \in Seq(Nat)
           /\ ToSet(BlLine(sd)) = ToSet(sd.input) \cup ToSet(sd.process) \cup ({sd.skb} \ {NoPacket})
           /\ BlLine(sd) = << >> <=> sd.skb = NoPacket /\ sd.process = << >> /\ sd.input = << >>
<1>1. PICK i, p, k : i = sd.input /\ p = sd.process /\ k = sd.skb
  OBVIOUS
<1>2. i \in Seq(Nat) /\ p \in Seq(Nat) /\ k \in Nat
  BY <1>1 DEF BlRec
<1>3. p \o i \in Seq(Nat) /\ ToSet(p \o i) = ToSet(p) \cup ToSet(i)
  BY <1>2, BlConcatSet
<1>4. BlHand(sd) \in Seq(Nat) /\ ToSet(BlHand(sd)) = {k} \ {NoPacket} /\ (BlHand(sd) = << >> <=> k = NoPacket)
  <2>1. CASE k = NoPacket
    BY <1>1, <2>1, BlNil DEF BlHand
  <2>2. CASE k # NoPacket
    <3>1. <<k>> \in Seq(Nat) /\ ToSet(<<k>>) = {k} /\ <<k>> # << >>
      BY <1>2, BlSingle
    <3> QED BY <1>1, <2>2, <3>1 DEF BlHand
  <2> QED BY <2>1, <2>2
<1>5. BlLine(sd) \in Seq(Nat) /\ ToSet(BlLine(sd)) = ToSet(BlHand(sd)) \cup ToSet(p \o i)
  BY <1>1, <1>3, <1>4, BlConcatSet DEF BlLine
<1>6. BlLine(sd) = << >> <=> BlHand(sd) = << >> /\ p \o i = << >>
  BY <1>1, <1>3, <1>4, ConcatEqualIffEmpty DEF BlLine
<1>7. p \o i = << >> <=> p = << >> /\ i = << >>
  BY <1>2, ConcatEqualIffEmpty
<1> QED BY <1>1, <1>3, <1>4, <1>5, <1>6, <1>7

LEMMA BlSameLine ==
    ASSUME NEW a, NEW b, a.input = b.input, a.process = b.process, a.skb = b.skb
    PROVE  BlLine(a) = BlLine(b)
BY DEF BlLine, BlHand

(* What the steps make of a softnet_data sd.  process_backlog starts,       *)
LEMMA BlPolled ==
    ASSUME NEW sd \in BlRec, NEW r, r = [sd EXCEPT !.polling = TRUE, !.work = 0]
    PROVE  /\ r \in BlRec /\ BlLine(r) = BlLine(sd) /\ r.head = sd.head /\ r.tail = sd.tail
           /\ r.input = sd.input /\ r.process = sd.process /\ r.skb = sd.skb
           /\ r.sched = sd.sched /\ r.listed = sd.listed /\ r.polling = TRUE
<1>1. r \in BlRec
  BY DEF BlRec
<1>2. /\ r.head = sd.head /\ r.tail = sd.tail
      /\ r.input = sd.input /\ r.process = sd.process /\ r.skb = sd.skb
      /\ r.sched = sd.sched /\ r.listed = sd.listed /\ r.polling = TRUE
  BY DEF BlRec
<1>3. BlLine(r) = BlLine(sd)
  BY <1>2, BlSameLine
<1> QED BY <1>1, <1>2, <1>3

(* takes a packet off the process queue,                                    *)
LEMMA BlDequeued ==
    ASSUME NEW sd \in BlRec, sd.process # << >>, sd.skb = NoPacket, Head(sd.process) # NoPacket,
           NEW r, r = [sd EXCEPT !.skb = Head(sd.process), !.process = Tail(@)]
    PROVE  /\ r \in BlRec /\ BlLine(r) = BlLine(sd) /\ r.head = sd.head /\ r.tail = sd.tail
           /\ r.input = sd.input /\ r.process = Tail(sd.process) /\ r.skb = Head(sd.process)
           /\ r.sched = sd.sched /\ r.listed = sd.listed /\ r.polling = sd.polling
<1>1. PICK p, h, t : p = sd.process /\ h = Head(p) /\ t = Tail(p)
  OBVIOUS
<1>2. p \in Seq(Nat) /\ p # << >>
  BY <1>1 DEF BlRec
<1>3. h \in Nat /\ t \in Seq(Nat) /\ p = <<h>> \o t
  BY <1>1, <1>2, BlHeadTail
<1>4. r = [sd EXCEPT !.skb = h, !.process = t]
  BY <1>1
<1>5. r \in BlRec
  BY <1>3, <1>4 DEF BlRec
<1>6. /\ r.head = sd.head /\ r.tail = sd.tail
      /\ r.input = sd.input /\ r.process = t /\ r.skb = h
      /\ r.sched = sd.sched /\ r.listed = sd.listed /\ r.polling = sd.polling
  BY <1>3, <1>4 DEF BlRec
<1>7. PICK i : i = sd.input /\ i \in Seq(Nat)
  BY DEF BlRec
<1>8. BlLine(r) = <<h>> \o (t \o i)
  BY <1>1, <1>6, <1>7 DEF BlLine, BlHand
<1>9. BlLine(sd) = << >> \o (p \o i)
  BY <1>1, <1>7 DEF BlLine, BlHand
<1>10. << >> \o (p \o i) = p \o i
  BY <1>2, <1>7, ConcatProperties, ConcatEmptySeq
<1>11. p \o i = <<h>> \o (t \o i)
  <2>1. PICK k : k = <<h>>
    OBVIOUS
  <2>2. <<h>> \in Seq(Nat)
    BY <1>3, BlSingle
  <2>2a. k \in Seq(Nat) /\ t \in Seq(Nat) /\ i \in Seq(Nat)
    BY <1>3, <1>7, <2>1, <2>2
  <2>3. (k \o t) \o i = k \o (t \o i)
    BY <2>2a, ConcatAssociative
  <2> QED BY <1>3, <2>1, <2>3
<1> QED BY <1>1, <1>5, <1>6, <1>8, <1>9, <1>10, <1>11

(* has handled it,                                                          *)
LEMMA BlReceived ==
    ASSUME NEW sd \in BlRec, sd.skb # NoPacket, NEW q \in BOOLEAN,
           NEW r, r = [sd EXCEPT !.skb = NoPacket, !.head = @ + 1, !.work = @ + 1, !.polling = q]
    PROVE  /\ r \in BlRec /\ BlLine(sd) = <<sd.skb>> \o BlLine(r)
           /\ r.head = sd.head + 1 /\ r.tail = sd.tail
           /\ r.input = sd.input /\ r.process = sd.process /\ r.skb = NoPacket
           /\ r.sched = sd.sched /\ r.listed = sd.listed
<1>1. PICK h, w : h = sd.head + 1 /\ w = sd.work + 1
  OBVIOUS
<1>2. h \in Nat /\ w \in Nat /\ NoPacket \in Nat
  BY <1>1 DEF BlRec, NoPacket
<1>3. r = [sd EXCEPT !.skb = NoPacket, !.head = h, !.work = w, !.polling = q]
  BY <1>1
<1>4. r \in BlRec
  BY <1>2, <1>3 DEF BlRec
<1>5. /\ r.head = h /\ r.tail = sd.tail
      /\ r.input = sd.input /\ r.process = sd.process /\ r.skb = NoPacket
      /\ r.sched = sd.sched /\ r.listed = sd.listed /\ r.polling = q
  BY <1>2, <1>3 DEF BlRec
<1>6. PICK s : s = sd.process \o sd.input
  OBVIOUS
<1>7. s \in Seq(Nat)
  BY <1>6, BlLineSeq
<1>8. BlLine(r) = << >> \o s
  BY <1>5, <1>6 DEF BlLine, BlHand
<1>9. BlLine(r) = s
  BY <1>7, <1>8, ConcatEmptySeq
<1>10. BlLine(sd) = <<sd.skb>> \o s
  BY <1>6 DEF BlLine, BlHand
<1> QED BY <1>1, <1>4, <1>5, <1>9, <1>10

(* finds both queues empty,                                                 *)
LEMMA BlCompleted ==
    ASSUME NEW sd \in BlRec, NEW r, r = [sd EXCEPT !.sched = FALSE, !.listed = FALSE, !.polling = FALSE]
    PROVE  /\ r \in BlRec /\ BlLine(r) = BlLine(sd) /\ r.head = sd.head /\ r.tail = sd.tail
           /\ r.input = sd.input /\ r.process = sd.process /\ r.skb = sd.skb
           /\ ~r.sched /\ ~r.listed /\ ~r.polling
<1>1. r \in BlRec
  BY DEF BlRec
<1>2. /\ r.head = sd.head /\ r.tail = sd.tail
      /\ r.input = sd.input /\ r.process = sd.process /\ r.skb = sd.skb
      /\ ~r.sched /\ ~r.listed /\ ~r.polling
  BY DEF BlRec
<1>3. BlLine(r) = BlLine(sd)
  BY <1>2, BlSameLine
<1> QED BY <1>1, <1>2, <1>3

(* or takes over the input queue.                                           *)
LEMMA BlSpliced ==
    ASSUME NEW sd \in BlRec, sd.process = << >>, NEW r, r = [sd EXCEPT !.process = sd.input, !.input = << >>]
    PROVE  /\ r \in BlRec /\ BlLine(r) = BlLine(sd) /\ r.head = sd.head /\ r.tail = sd.tail
           /\ r.input = << >> /\ r.process = sd.input /\ r.skb = sd.skb
           /\ r.sched = sd.sched /\ r.listed = sd.listed /\ r.polling = sd.polling
<1>1. PICK i, e : i = sd.input /\ e = << >>
  OBVIOUS
<1>2. i \in Seq(Nat) /\ e \in Seq(Nat)
  BY <1>1, BlNil DEF BlRec
<1>3. r = [sd EXCEPT !.process = i, !.input = e]
  BY <1>1
<1>4. r \in BlRec
  BY <1>2, <1>3 DEF BlRec
<1>5. /\ r.head = sd.head /\ r.tail = sd.tail
      /\ r.input = e /\ r.process = i /\ r.skb = sd.skb
      /\ r.sched = sd.sched /\ r.listed = sd.listed /\ r.polling = sd.polling
  BY <1>2, <1>3 DEF BlRec
<1>6. i \o << >> = i /\ << >> \o i = i
  BY <1>2, ConcatEmptySeq
<1>7. BlHand(r) = BlHand(sd)
  BY <1>5 DEF BlHand
<1> QED BY <1>1, <1>4, <1>5, <1>6, <1>7 DEF BlLine

(* An IPI, or the death of the CPU, changes no queue.                       *)
LEMMA BlListed ==
    ASSUME NEW sd \in BlRec, NEW r, r = [sd EXCEPT !.listed = TRUE]
    PROVE  /\ r \in BlRec /\ BlLine(r) = BlLine(sd) /\ r.head = sd.head /\ r.tail = sd.tail
           /\ r.input = sd.input /\ r.process = sd.process /\ r.skb = sd.skb
           /\ r.sched = sd.sched /\ r.listed /\ r.polling = sd.polling
<1>1. r \in BlRec
  BY DEF BlRec
<1>2. /\ r.head = sd.head /\ r.tail = sd.tail
      /\ r.input = sd.input /\ r.process = sd.process /\ r.skb = sd.skb
      /\ r.sched = sd.sched /\ r.listed /\ r.polling = sd.polling
  BY DEF BlRec
<1>3. BlLine(r) = BlLine(sd)
  BY <1>2, BlSameLine
<1> QED BY <1>1, <1>2, <1>3

LEMMA BlUnlisted ==
    ASSUME NEW sd \in BlRec, NEW r, r = [sd EXCEPT !.listed = FALSE, !.sched = FALSE]
    PROVE  /\ r \in BlRec /\ BlLine(r) = BlLine(sd) /\ r.head = sd.head /\ r.tail = sd.tail
           /\ r.input = sd.input /\ r.process = sd.process /\ r.skb = sd.skb
           /\ ~r.sched /\ ~r.listed /\ r.polling = sd.polling
<1>1. r \in BlRec
  BY DEF BlRec
<1>2. /\ r.head = sd.head /\ r.tail = sd.tail
      /\ r.input = sd.input /\ r.process = sd.process /\ r.skb = sd.skb
      /\ ~r.sched /\ ~r.listed /\ r.polling = sd.polling
  BY DEF BlRec
<1>3. BlLine(r) = BlLine(sd)
  BY <1>2, BlSameLine
<1> QED BY <1>1, <1>2, <1>3

(* flush_backlog drops what waits.                                          *)
LEMMA BlFlushes ==
    ASSUME NEW sd \in BlRec, sd.skb = NoPacket,
           NEW r, r = [sd EXCEPT !.input = << >>, !.process = << >>,
                                 !.head = @ + Len(sd.input) + Len(sd.process)]
    PROVE  /\ r \in BlRec /\ BlLine(r) = << >> /\ r.head = sd.head + Len(BlLine(sd)) /\ r.tail = sd.tail
           /\ r.input = << >> /\ r.process = << >> /\ r.skb = NoPacket
           /\ r.sched = sd.sched /\ r.listed = sd.listed /\ r.polling = sd.polling
<1>1. PICK e, h, i, p : e = << >> /\ h = sd.head + Len(i) + Len(p) /\ i = sd.input /\ p = sd.process
  OBVIOUS
<1>2. e \in Seq(Nat) /\ i \in Seq(Nat) /\ p \in Seq(Nat) /\ sd.head \in Nat
  BY <1>1, BlNil DEF BlRec
<1>3. Len(i) \in Nat /\ Len(p) \in Nat /\ h \in Nat
  BY <1>1, <1>2, LenProperties
<1>4. r = [sd EXCEPT !.input = e, !.process = e, !.head = h]
  BY <1>1
<1>5. r \in BlRec
  BY <1>2, <1>3, <1>4 DEF BlRec
<1>6. /\ r.head = h /\ r.tail = sd.tail
      /\ r.input = e /\ r.process = e /\ r.skb = sd.skb
      /\ r.sched = sd.sched /\ r.listed = sd.listed /\ r.polling = sd.polling
  BY <1>2, <1>3, <1>4 DEF BlRec
<1>7. BlLine(r) = << >>
  BY <1>1, <1>5, <1>6, BlLineSeq
<1>8. BlLine(sd) = << >> \o (p \o i)
  BY <1>1 DEF BlLine, BlHand
<1>9. p \o i \in Seq(Nat) /\ Len(p \o i) = Len(p) + Len(i)
  BY <1>2, ConcatProperties
<1>10. Len(BlLine(sd)) = Len(p) + Len(i)
  BY <1>8, <1>9, ConcatEmptySeq
<1>11. h = sd.head + Len(BlLine(sd))
  <2>1. h = sd.head + Len(i) + Len(p)
    BY <1>1
  <2> QED BY <1>2, <1>3, <1>10, <2>1
<1> QED BY <1>1, <1>5, <1>6, <1>7, <1>11

(* enqueue_to_backlog.                                                      *)
LEMMA BlEnqueued ==
    ASSUME NEW sd \in BlRec, NEW c, NEW x \in Nat, NEW r, r = enqueue_to_backlog(sd, c, x)
    PROVE  /\ r \in BlRec /\ BlLine(r) = Append(BlLine(sd), x) /\ r.head = sd.head /\ r.tail = sd.tail + 1
           /\ r.input # << >> /\ r.process = sd.process /\ r.skb = sd.skb /\ r.polling = sd.polling
           /\ r.sched <=> sd.sched \/ sd.input = << >>
           /\ r.listed <=> sd.listed \/ (sd.input = << >> /\ ~sd.sched /\ c = Home)
<1>1. PICK k : k = IF Len(sd.input) = 0 THEN napi_schedule_backlog(sd, c) ELSE sd
  OBVIOUS
<1>2. sd.input \in Seq(Nat) /\ sd.process \in Seq(Nat) /\ sd.tail \in Nat
  BY DEF BlRec
<1>3. Len(sd.input) = 0 <=> sd.input = << >>
  BY <1>2, BlNil, EmptySeq
<1>4. PICK l \in BOOLEAN : l <=> sd.listed \/ c = Home
  OBVIOUS
<1>5. /\ k \in BlRec /\ k.head = sd.head /\ k.tail = sd.tail
      /\ k.input = sd.input /\ k.process = sd.process /\ k.skb = sd.skb /\ k.polling = sd.polling
      /\ k.sched <=> sd.sched \/ sd.input = << >>
      /\ k.listed <=> sd.listed \/ (sd.input = << >> /\ ~sd.sched /\ c = Home)
  <2>1. CASE sd.input # << >> \/ sd.sched
    <3>1. k = sd
      BY <1>1, <1>3, <2>1 DEF napi_schedule_backlog
    <3> QED BY <2>1, <3>1
  <2>2. CASE sd.input = << >> /\ ~sd.sched
    <3>0. (sd.listed \/ c = Home) = l
      BY <1>4 DEF BlRec
    <3>1. k = [sd EXCEPT !.sched = TRUE, !.listed = l]
      BY <1>1, <1>3, <2>2, <3>0 DEF napi_schedule_backlog
    <3>2. k \in BlRec
      BY <3>1 DEF BlRec
    <3>3. /\ k.head = sd.head /\ k.tail = sd.tail
          /\ k.input = sd.input /\ k.process = sd.process /\ k.skb = sd.skb /\ k.polling = sd.polling
          /\ k.sched = TRUE /\ k.listed = l
      BY <3>1 DEF BlRec
    <3> QED BY <1>4, <2>2, <3>2, <3>3
  <2> QED BY <2>1, <2>2
<1>6. PICK i, t : i = Append(sd.input, x) /\ t = sd.tail + 1
  OBVIOUS
<1>7. i \in Seq(Nat) /\ i # << >> /\ t \in Nat
  BY <1>2, <1>6, AppendProperties
<1>8. r = [k EXCEPT !.input = i, !.tail = t]
  BY <1>1, <1>5, <1>6 DEF enqueue_to_backlog
<1>9. r \in BlRec
  BY <1>5, <1>7, <1>8 DEF BlRec
<1>10. /\ r.head = k.head /\ r.tail = t
       /\ r.input = i /\ r.process = k.process /\ r.skb = k.skb /\ r.polling = k.polling
       /\ r.sched = k.sched /\ r.listed = k.listed
  BY <1>5, <1>7, <1>8 DEF BlRec
<1>11. BlLine(r) = Append(BlLine(sd), x)
  <2>1. PICK h, p, j : h = BlHand(sd) /\ p = sd.process /\ j = sd.input
    OBVIOUS
  <2>2. h \in Seq(Nat) /\ p \in Seq(Nat) /\ j \in Seq(Nat) /\ <<x>> \in Seq(Nat) /\ p \o j \in Seq(Nat)
    BY <1>2, <2>1, BlLineSeq, BlSingle
  <2>3. BlLine(sd) = h \o (p \o j) /\ h \o (p \o j) \in Seq(Nat)
    BY <2>1, BlLineSeq DEF BlLine
  <2>4. BlHand(r) = h
    BY <1>5, <1>10, <2>1 DEF BlHand
  <2>5. BlLine(r) = h \o (p \o i)
    BY <1>5, <1>10, <2>1, <2>4 DEF BlLine
  <2>6. i = j \o <<x>>
    BY <1>6, <2>1, <2>2, AppendIsConcat
  <2>6a. (p \o j) \o <<x>> = p \o (j \o <<x>>)
    BY <2>2, ConcatAssociative
  <2>7. p \o i = (p \o j) \o <<x>>
    BY <2>6, <2>6a
  <2>8. h \o ((p \o j) \o <<x>>) = (h \o (p \o j)) \o <<x>>
    BY <2>2, ConcatAssociative
  <2>9. Append(BlLine(sd), x) = (h \o (p \o j)) \o <<x>>
    BY <2>3, AppendIsConcat
  <2> QED BY <2>5, <2>7, <2>8, <2>9
<1> QED BY <1>5, <1>6, <1>7, <1>9, <1>10, <1>11

(* dev_cpu_dead takes the first packet.                                     *)
LEMMA BlFirst ==
    ASSUME NEW sd \in BlRec, sd.skb = NoPacket, sd.process \o sd.input # << >>,
           NEW r, r = [sd EXCEPT !.head = @ + 1, !.process = IF @ = << >> THEN @ ELSE Tail(@),
                                 !.input = IF sd.process = << >> THEN Tail(@) ELSE @]
    PROVE  /\ r \in BlRec /\ Head(sd.process \o sd.input) \in Nat
           /\ BlLine(sd) = <<Head(sd.process \o sd.input)>> \o BlLine(r)
           /\ r.head = sd.head + 1 /\ r.tail = sd.tail /\ r.skb = NoPacket
           /\ r.sched = sd.sched /\ r.listed = sd.listed /\ r.polling = sd.polling
<1>1. PICK p, i, h : p = sd.process /\ i = sd.input /\ h = sd.head + 1
  OBVIOUS
<1>2. p \in Seq(Nat) /\ i \in Seq(Nat) /\ h \in Nat
  BY <1>1 DEF BlRec
<1>3. PICK q, j : /\ q = IF p = << >> THEN p ELSE Tail(p)
                  /\ j = IF p = << >> THEN Tail(i) ELSE i
  OBVIOUS
<1>4. r = [sd EXCEPT !.head = h, !.process = q, !.input = j]
  BY <1>1, <1>3
<1>5. /\ q \in Seq(Nat) /\ j \in Seq(Nat) /\ Head(p \o i) \in Nat
      /\ p \o i = <<Head(p \o i)>> \o (q \o j)
  <2>1. CASE p = << >>
    <3>1. << >> \o i = i /\ q = << >> /\ j = Tail(i)
      BY <1>2, <1>3, <2>1, ConcatEmptySeq
    <3>2. i # << >>
      BY <1>1, <2>1, <3>1
    <3>3. Head(i) \in Nat /\ Tail(i) \in Seq(Nat) /\ i = <<Head(i)>> \o Tail(i)
      BY <1>2, <3>2, BlHeadTail
    <3>4. << >> \o j = j
      BY <3>1, <3>3, ConcatEmptySeq
    <3> QED BY <2>1, <3>1, <3>3, <3>4, BlNil
  <2>2. CASE p # << >>
    <3>1. PICK a, t : a = Head(p) /\ t = Tail(p)
      OBVIOUS
    <3>2. a \in Nat /\ t \in Seq(Nat) /\ p = <<a>> \o t
      BY <1>2, <2>2, <3>1, BlHeadTail
    <3>3. q = t /\ j = i
      BY <1>3, <2>2, <3>1
    <3>4. p \o i = <<a>> \o (t \o i)
      <4>1. PICK k : k = <<a>>
        OBVIOUS
      <4>2. <<a>> \in Seq(Nat)
        BY <3>2, BlSingle
      <4>3. k \in Seq(Nat) /\ t \in Seq(Nat) /\ i \in Seq(Nat)
        BY <1>2, <3>2, <4>1, <4>2
      <4>4. (k \o t) \o i = k \o (t \o i)
        BY <4>3, ConcatAssociative
      <4> QED BY <3>2, <4>1, <4>4
    <3>5. t \o i \in Seq(Nat)
      BY <1>2, <3>2, ConcatProperties
    <3>6. Head(p \o i) = a
      BY <3>2, <3>4, <3>5, BlHeadCons
    <3> QED BY <1>2, <3>2, <3>3, <3>4, <3>6
  <2> QED BY <2>1, <2>2
<1>6. r \in BlRec
  BY <1>2, <1>4, <1>5 DEF BlRec
<1>7. /\ r.head = h /\ r.tail = sd.tail
      /\ r.input = j /\ r.process = q /\ r.skb = sd.skb
      /\ r.sched = sd.sched /\ r.listed = sd.listed /\ r.polling = sd.polling
  BY <1>2, <1>4, <1>5 DEF BlRec
<1>8. q \o j \in Seq(Nat) /\ p \o i \in Seq(Nat)
  BY <1>2, <1>5, ConcatProperties
<1>9. BlLine(r) = << >> \o (q \o j) /\ BlLine(sd) = << >> \o (p \o i)
  BY <1>1, <1>7 DEF BlLine, BlHand
<1>10. BlLine(r) = q \o j /\ BlLine(sd) = p \o i
  BY <1>8, <1>9, ConcatEmptySeq
<1> QED BY <1>1, <1>5, <1>6, <1>7, <1>10

------------------------------------------------------------------------------
(* The steps *)

(* One softnet_data changes.                                                *)
LEMMA BlOne ==
    ASSUME NEW sds \in [BlCpu -> BlRec], NEW c \in BlCpu, NEW new \in [BlCpu -> BlRec],
           \A d \in BlCpu : d # c => new[d] = sds[d]
    PROVE  /\ BlLines(sds) \in [BlCpu -> Seq(Nat)] /\ BlLines(sds)[c] = BlLine(sds[c])
           /\ BlLines(new) = [BlLines(sds) EXCEPT ![c] = BlLine(new[c])]
           /\ BlLine(new[c]) = BlLine(sds[c]) => BlLines(new) = BlLines(sds)
<1>1. BlLines(sds) \in [BlCpu -> Seq(Nat)] /\ BlLines(sds)[c] = BlLine(sds[c])
  BY BlLineSeq DEF BlLines
<1>2. BlLines(new) = [BlLines(sds) EXCEPT ![c] = BlLine(new[c])]
  BY DEF BlLines
<1>3. ASSUME BlLine(new[c]) = BlLine(sds[c]) PROVE BlLines(new) = BlLines(sds)
  BY <1>3 DEF BlLines
<1> QED BY <1>1, <1>2, <1>3

(* A step on CPU c that changes no line keeps the packets and their order;  *)
(* the rest is about the backlog of c.                                      *)
LEMMA BlQuiet ==
    ASSUME BlInv, NEW c \in BlCpu, NEW r \in BlRec, BlLine(r) = BlLine(bl_sd[c]),
           r.head = bl_sd[c].head, r.tail = bl_sd[c].tail,
           bl_sd' = [bl_sd EXCEPT ![c] = r],
           UNCHANGED <<bl_flow, bl_want, bl_ipis, bl_online, bl_dev, bl_flush, bl_next, bl_given,
                       bl_lost, bl_stale>>,
           bl_sent' = bl_sent \/ bl_sent' = bl_sent \ {c},
           BlKick(c, r, bl_ipis, bl_sent', bl_online, bl_stale),
           bl_dev \in {"flushing", "gone"} /\ c \in bl_online /\ c \notin bl_flush
              => r.input = << >> /\ r.process = << >>,
           bl_dev = "gone" => r.skb = NoPacket
    PROVE  BlInv'
<1>0. bl_sd \in [BlCpu -> BlRec]
  BY DEF BlInv, BlTypes
<1>1. /\ bl_sd' \in [BlCpu -> BlRec] /\ bl_sd'[c] = r
      /\ \A d \in BlCpu : d # c => bl_sd'[d] = bl_sd[d]
      /\ BlLines(bl_sd') = BlLines(bl_sd)
  <2>1. PICK new : new = bl_sd'
    OBVIOUS
  <2>2. new \in [BlCpu -> BlRec] /\ new[c] = r /\ \A d \in BlCpu : d # c => new[d] = bl_sd[d]
    BY <1>0, <2>1
  <2>3. BlLines(new) = BlLines(bl_sd)
    BY <1>0, <2>2, BlOne
  <2> QED BY <2>1, <2>2, <2>3
<1>2. BlKept'
  BY <1>1 DEF BlInv, BlKept
<1>3. BlCounts(bl_sd')
  BY <1>1 DEF BlInv, BlCounts
<1>4. BlOrdered'
  <2>1. \A d \in BlCpu : bl_sd'[d].tail = bl_sd[d].tail
    BY <1>1
  <2> QED BY <1>1, <2>1 DEF BlInv, BlOrdered, BlTypes
<1>5. BlTypes'
  BY <1>1 DEF BlInv, BlTypes
<1>6. BlKicked(bl_sd)'
  <2>1. ASSUME NEW d \in BlCpu, d # c PROVE BlKick(d, bl_sd[d], bl_ipis, bl_sent', bl_online, bl_stale)
    <3>1. d \in bl_sent' <=> d \in bl_sent
      BY <2>1
    <3> QED BY <3>1 DEF BlInv, BlKicked, BlKick
  <2> QED BY <1>1, <2>1 DEF BlKicked
<1>7. BlFlushed(bl_sd)'
  BY <1>1 DEF BlInv, BlFlushed, BlTypes
<1> QED BY <1>2, <1>3, <1>4, <1>5, <1>6, <1>7 DEF BlInv

LEMMA BlPoll == ASSUME BlInv, poll_backlog PROVE BlInv'
<1>1. PICK c \in bl_online :
         /\ bl_sd[c].listed /\ ~bl_sd[c].polling
         /\ Sd(c, [bl_sd[c] EXCEPT !.polling = TRUE, !.work = 0])
         /\ UNCHANGED bl_given
  BY DEF poll_backlog
<1>2. PICK sd, r : sd = bl_sd[c] /\ r = [sd EXCEPT !.polling = TRUE, !.work = 0]
  OBVIOUS
<1>3. c \in BlCpu /\ sd \in BlRec
  BY <1>2 DEF BlInv, BlTypes
<1>4. /\ r \in BlRec /\ BlLine(r) = BlLine(sd) /\ r.head = sd.head /\ r.tail = sd.tail
      /\ r.input = sd.input /\ r.process = sd.process /\ r.skb = sd.skb
      /\ r.sched = sd.sched /\ r.listed = sd.listed /\ r.polling = TRUE
  BY <1>2, <1>3, BlPolled
<1>5. /\ bl_sd' = [bl_sd EXCEPT ![c] = r]
      /\ UNCHANGED <<bl_flow, bl_want, bl_ipis, bl_sent, bl_online, bl_dev, bl_flush,
                     bl_next, bl_given, bl_lost, bl_stale>>
  BY <1>1, <1>2 DEF Sd
<1>6. BlKick(c, r, bl_ipis, bl_sent', bl_online, bl_stale)
  BY <1>1, <1>2, <1>3, <1>4, <1>5 DEF BlInv, BlKicked, BlKick
<1>7. /\ bl_dev \in {"flushing", "gone"} /\ c \in bl_online /\ c \notin bl_flush
           => r.input = << >> /\ r.process = << >>
      /\ bl_dev = "gone" => r.skb = NoPacket
  BY <1>2, <1>3, <1>4 DEF BlInv, BlFlushed
<1> QED BY <1>2, <1>3, <1>4, <1>5, <1>6, <1>7, BlQuiet

(* The packets that have arrived are numbered from 1.                       *)
LEMMA BlPositive ==
    ASSUME BlInv, NEW c \in BlCpu, NEW x \in ToSet(BlLine(bl_sd[c]))
    PROVE  x \in 1 .. bl_next /\ x # NoPacket /\ x \in Nat
<1>1. BlLines(bl_sd)[c] = BlLine(bl_sd[c])
  BY DEF BlLines
<1>2. x \in 1 .. bl_next
  BY <1>1 DEF BlInv, BlKept, BlPlaces
<1> QED BY <1>2 DEF NoPacket, BlInv, BlTypes

LEMMA BlDequeue == ASSUME BlInv, dequeue_skb PROVE BlInv'
<1>1. PICK c \in BlCpu :
         /\ bl_sd[c].polling /\ bl_sd[c].skb = NoPacket /\ bl_sd[c].process # << >>
         /\ Sd(c, [bl_sd[c] EXCEPT !.skb = Head(bl_sd[c].process), !.process = Tail(@)])
         /\ UNCHANGED bl_given
  BY DEF dequeue_skb
<1>2. PICK sd, r : sd = bl_sd[c] /\ r = [sd EXCEPT !.skb = Head(sd.process), !.process = Tail(@)]
  OBVIOUS
<1>3. sd \in BlRec /\ sd.process \in Seq(Nat)
  BY <1>2 DEF BlInv, BlTypes, BlRec
<1>4. Head(sd.process) # NoPacket
  <2>1. Head(sd.process) \in ToSet(sd.process)
    <3>1. Head(sd.process) = sd.process[1] /\ 1 \in DOMAIN sd.process
      BY <1>1, <1>2, <1>3, LenProperties, EmptySeq
    <3> QED BY <3>1 DEF ToSet
  <2>2. Head(sd.process) \in ToSet(BlLine(sd))
    BY <1>3, <2>1, BlLineSeq
  <2> QED BY <1>2, <2>2, BlPositive
<1>5. /\ r \in BlRec /\ BlLine(r) = BlLine(sd) /\ r.head = sd.head /\ r.tail = sd.tail
      /\ r.input = sd.input /\ r.process = Tail(sd.process) /\ r.skb = Head(sd.process)
      /\ r.sched = sd.sched /\ r.listed = sd.listed /\ r.polling = sd.polling
  BY <1>1, <1>2, <1>3, <1>4, BlDequeued
<1>6. /\ bl_sd' = [bl_sd EXCEPT ![c] = r]
      /\ UNCHANGED <<bl_flow, bl_want, bl_ipis, bl_sent, bl_online, bl_dev, bl_flush,
                     bl_next, bl_given, bl_lost, bl_stale>>
  BY <1>1, <1>2 DEF Sd
<1>7. BlKick(c, r, bl_ipis, bl_sent', bl_online, bl_stale)
  BY <1>1, <1>2, <1>5, <1>6 DEF BlInv, BlKicked, BlKick
<1>8. c \in bl_online
  BY <1>1 DEF BlInv, BlKicked, BlKick
<1>9. /\ bl_dev \in {"flushing", "gone"} /\ c \in bl_online /\ c \notin bl_flush
           => r.input = << >> /\ r.process = << >>
      /\ bl_dev = "gone" => r.skb = NoPacket
  BY <1>1, <1>8 DEF BlInv, BlFlushed
<1> QED BY <1>2, <1>5, <1>6, <1>7, <1>9, BlQuiet

LEMMA BlSplice == ASSUME BlInv, splice_or_complete PROVE BlInv'
<1>1. PICK c \in BlCpu :
         /\ bl_sd[c].polling /\ bl_sd[c].skb = NoPacket /\ bl_sd[c].process = << >>
         /\ Sd(c, IF bl_sd[c].input = << >>
                  THEN [bl_sd[c] EXCEPT !.sched = FALSE, !.listed = FALSE, !.polling = FALSE]
                  ELSE [bl_sd[c] EXCEPT !.process = bl_sd[c].input, !.input = << >>])
         /\ UNCHANGED bl_given
  BY DEF splice_or_complete
<1>2. PICK sd, r : /\ sd = bl_sd[c]
                   /\ r = IF sd.input = << >>
                          THEN [sd EXCEPT !.sched = FALSE, !.listed = FALSE, !.polling = FALSE]
                          ELSE [sd EXCEPT !.process = sd.input, !.input = << >>]
  OBVIOUS
<1>3. sd \in BlRec
  BY <1>2 DEF BlInv, BlTypes
<1>4. /\ bl_sd' = [bl_sd EXCEPT ![c] = r]
      /\ UNCHANGED <<bl_flow, bl_want, bl_ipis, bl_sent, bl_online, bl_dev, bl_flush,
                     bl_next, bl_given, bl_lost, bl_stale>>
  BY <1>1, <1>2 DEF Sd
<1>5. c \in bl_online
  BY <1>1 DEF BlInv, BlKicked, BlKick
<1>6. CASE sd.input = << >>
  <2>1. /\ r \in BlRec /\ BlLine(r) = BlLine(sd) /\ r.head = sd.head /\ r.tail = sd.tail
        /\ r.input = sd.input /\ r.process = sd.process /\ r.skb = sd.skb
        /\ ~r.sched /\ ~r.listed /\ ~r.polling
    <3>1. r = [sd EXCEPT !.sched = FALSE, !.listed = FALSE, !.polling = FALSE]
      BY <1>2, <1>6
    <3> QED BY <1>3, <3>1, BlCompleted
  <2>2. BlKick(c, r, bl_ipis, bl_sent', bl_online, bl_stale)
    BY <1>1, <1>2, <1>4, <1>6, <2>1 DEF BlInv, BlKicked, BlKick
  <2>3. /\ bl_dev \in {"flushing", "gone"} /\ c \in bl_online /\ c \notin bl_flush
             => r.input = << >> /\ r.process = << >>
        /\ bl_dev = "gone" => r.skb = NoPacket
    BY <1>1, <1>2, <1>6, <2>1
  <2> QED BY <1>2, <1>4, <2>1, <2>2, <2>3, BlQuiet
<1>7. CASE sd.input # << >>
  <2>1. /\ r \in BlRec /\ BlLine(r) = BlLine(sd) /\ r.head = sd.head /\ r.tail = sd.tail
        /\ r.input = << >> /\ r.process = sd.input /\ r.skb = sd.skb
        /\ r.sched = sd.sched /\ r.listed = sd.listed /\ r.polling = sd.polling
    BY <1>1, <1>2, <1>3, <1>7, BlSpliced
  <2>2. BlKick(c, r, bl_ipis, bl_sent', bl_online, bl_stale)
    BY <1>1, <1>2, <1>4, <1>7, <2>1 DEF BlInv, BlKicked, BlKick
  <2>3. /\ bl_dev \in {"flushing", "gone"} /\ c \in bl_online /\ c \notin bl_flush
             => r.input = << >> /\ r.process = << >>
        /\ bl_dev = "gone" => r.skb = NoPacket
    BY <1>1, <1>2, <1>5, <1>7, <2>1 DEF BlInv, BlFlushed
  <2> QED BY <1>2, <1>4, <2>1, <2>2, <2>3, BlQuiet
<1> QED BY <1>6, <1>7

LEMMA BlTrigger == ASSUME BlInv, rps_trigger_softirq PROVE BlInv'
<1>1. PICK c \in bl_sent :
         /\ bl_sd' = [bl_sd EXCEPT ![c].listed = TRUE]
         /\ bl_sent' = bl_sent \ {c}
         /\ UNCHANGED <<bl_flow, bl_want, bl_ipis, bl_online, bl_dev, bl_flush, bl_next, bl_given,
                        bl_lost, bl_stale>>
  BY DEF rps_trigger_softirq
<1>2. PICK sd, r : sd = bl_sd[c] /\ r = [sd EXCEPT !.listed = TRUE]
  OBVIOUS
<1>3. c \in BlCpu /\ sd \in BlRec
  BY <1>2 DEF BlInv, BlTypes
<1>4. /\ r \in BlRec /\ BlLine(r) = BlLine(sd) /\ r.head = sd.head /\ r.tail = sd.tail
      /\ r.input = sd.input /\ r.process = sd.process /\ r.skb = sd.skb
      /\ r.sched = sd.sched /\ r.listed /\ r.polling = sd.polling
  BY <1>2, <1>3, BlListed
<1>5. /\ bl_sd' = [bl_sd EXCEPT ![c] = r]
      /\ UNCHANGED <<bl_flow, bl_want, bl_ipis, bl_online, bl_dev, bl_flush,
                     bl_next, bl_given, bl_lost, bl_stale>>
      /\ bl_sent' = bl_sent \/ bl_sent' = bl_sent \ {c}
  BY <1>1, <1>2
<1>6. BlKick(c, r, bl_ipis, bl_sent', bl_online, bl_stale)
  BY <1>1, <1>2, <1>3, <1>4 DEF BlInv, BlKicked, BlKick
<1>7. /\ bl_dev \in {"flushing", "gone"} /\ c \in bl_online /\ c \notin bl_flush
           => r.input = << >> /\ r.process = << >>
      /\ bl_dev = "gone" => r.skb = NoPacket
  BY <1>2, <1>3, <1>4 DEF BlInv, BlFlushed
<1> QED BY <1>2, <1>3, <1>4, <1>5, <1>6, <1>7, BlQuiet

LEMMA BlDead == ASSUME BlInv, dev_cpu_dead PROVE BlInv'
<1>1. PICK c \in BlCpu \ bl_online :
         /\ bl_sd[c].listed
         /\ Sd(c, [bl_sd[c] EXCEPT !.listed = FALSE, !.sched = FALSE])
         /\ UNCHANGED bl_given
  BY DEF dev_cpu_dead
<1>2. PICK sd, r : sd = bl_sd[c] /\ r = [sd EXCEPT !.listed = FALSE, !.sched = FALSE]
  OBVIOUS
<1>3. sd \in BlRec
  BY <1>2 DEF BlInv, BlTypes
<1>4. /\ r \in BlRec /\ BlLine(r) = BlLine(sd) /\ r.head = sd.head /\ r.tail = sd.tail
      /\ r.input = sd.input /\ r.process = sd.process /\ r.skb = sd.skb
      /\ ~r.sched /\ ~r.listed /\ r.polling = sd.polling
  BY <1>2, <1>3, BlUnlisted
<1>5. /\ bl_sd' = [bl_sd EXCEPT ![c] = r]
      /\ UNCHANGED <<bl_flow, bl_want, bl_ipis, bl_sent, bl_online, bl_dev, bl_flush,
                     bl_next, bl_given, bl_lost, bl_stale>>
  BY <1>1, <1>2 DEF Sd
<1>6. BlKick(c, r, bl_ipis, bl_sent', bl_online, bl_stale)
  BY <1>1, <1>2, <1>4, <1>5 DEF BlInv, BlKicked, BlKick
<1>7. /\ bl_dev \in {"flushing", "gone"} /\ c \in bl_online /\ c \notin bl_flush
           => r.input = << >> /\ r.process = << >>
      /\ bl_dev = "gone" => r.skb = NoPacket
  BY <1>1, <1>2, <1>4 DEF BlInv, BlFlushed
<1> QED BY <1>1, <1>2, <1>4, <1>5, <1>6, <1>7, BlQuiet

LEMMA BlReceive == ASSUME BlInv, receive_skb PROVE BlInv'
<1>1. PICK c \in BlCpu :
         /\ bl_sd[c].skb # NoPacket
         /\ Sd(c, [bl_sd[c] EXCEPT !.skb = NoPacket, !.head = @ + 1, !.work = @ + 1,
                                   !.polling = bl_sd[c].work + 1 < Quota])
         /\ bl_given' = Append(bl_given, bl_sd[c].skb)
  BY DEF receive_skb
<1>2. PICK sd, q, x : sd = bl_sd[c] /\ q = (bl_sd[c].work + 1 < Quota) /\ x = sd.skb
  OBVIOUS
<1>2a. PICK r : r = [sd EXCEPT !.skb = NoPacket, !.head = @ + 1, !.work = @ + 1, !.polling = q]
  OBVIOUS
<1>3. sd \in BlRec /\ q \in BOOLEAN /\ x \in Nat /\ x # NoPacket
  BY <1>1, <1>2 DEF BlInv, BlTypes, BlRec
<1>4. /\ r \in BlRec /\ BlLine(sd) = <<x>> \o BlLine(r)
      /\ r.head = sd.head + 1 /\ r.tail = sd.tail
      /\ r.input = sd.input /\ r.process = sd.process /\ r.skb = NoPacket
      /\ r.sched = sd.sched /\ r.listed = sd.listed
  <2>1. sd.skb # NoPacket
    BY <1>2, <1>3
  <2>2. r \in BlRec /\ BlLine(sd) = <<sd.skb>> \o BlLine(r)
    BY <1>2a, <1>3, <2>1, BlReceived
  <2>3. /\ r.head = sd.head + 1 /\ r.tail = sd.tail
        /\ r.input = sd.input /\ r.process = sd.process /\ r.skb = NoPacket
        /\ r.sched = sd.sched /\ r.listed = sd.listed
    BY <1>2a, <1>3, <2>1, BlReceived
  <2> QED BY <1>2, <2>2, <2>3
<1>5. /\ bl_sd' = [bl_sd EXCEPT ![c] = r] /\ bl_given' = Append(bl_given, x)
      /\ UNCHANGED <<bl_flow, bl_want, bl_ipis, bl_sent, bl_online, bl_dev, bl_flush,
                     bl_next, bl_lost, bl_stale>>
  BY <1>1, <1>2, <1>2a DEF Sd
<1>6. bl_sd \in [BlCpu -> BlRec]
  BY DEF BlInv, BlTypes
<1>7. bl_sd' \in [BlCpu -> BlRec] /\ bl_sd'[c] = r /\ \A d \in BlCpu : d # c => bl_sd'[d] = bl_sd[d]
  BY <1>4, <1>5, <1>6
<1>8. PICK line, new : line = BlLines(bl_sd) /\ new = BlLines(bl_sd')
  OBVIOUS
<1>9. line \in [BlCpu -> Seq(Nat)] /\ line[c] = BlLine(sd) /\ new = [line EXCEPT ![c] = BlLine(r)]
  <2>1. PICK sds : sds = bl_sd'
    OBVIOUS
  <2>2. sds \in [BlCpu -> BlRec] /\ sds[c] = r /\ \A d \in BlCpu : d # c => sds[d] = bl_sd[d]
    BY <1>7, <2>1
  <2>3. /\ BlLines(bl_sd) \in [BlCpu -> Seq(Nat)] /\ BlLines(bl_sd)[c] = BlLine(bl_sd[c])
        /\ BlLines(sds) = [BlLines(bl_sd) EXCEPT ![c] = BlLine(sds[c])]
    BY <1>6, <2>2, BlOne
  <2> QED BY <1>2, <1>8, <2>1, <2>2, <2>3
<1>10. PICK t : t = BlLine(r)
  OBVIOUS
<1>11. t \in Seq(Nat) /\ Len(t) \in Nat /\ line[c] = <<x>> \o t
  BY <1>4, <1>9, <1>10, BlLineSeq, LenProperties
<1>12. BlPlaces(line, bl_given, bl_lost, 1 .. bl_next)
  BY <1>8 DEF BlInv, BlKept
<1>13. BlKept'
  <2>1. BlPlaces(new, bl_given, bl_lost, (1 .. bl_next) \ {x}) /\ x \in 1 .. bl_next
    BY <1>3, <1>9, <1>10, <1>11, <1>12, BlTake
  <2>2. BlPlaces(new, Append(bl_given, x), bl_lost, ((1 .. bl_next) \ {x}) \cup {x})
    BY <1>3, <2>1, BlGive
  <2>3. ((1 .. bl_next) \ {x}) \cup {x} = 1 .. bl_next
    BY <2>1
  <2> QED BY <1>5, <1>8, <2>2, <2>3 DEF BlKept
<1>14. BlCounts(bl_sd)'
  <2>1. sd.tail = sd.head + Len(BlLine(sd)) /\ sd.head \in Nat
    BY <1>2, <1>3 DEF BlInv, BlCounts, BlRec
  <2>2. Len(BlLine(sd)) = Len(t) + 1
    BY <1>3, <1>9, <1>11, BlCons
  <2>3. r.tail = r.head + Len(BlLine(r))
    <3>1. r.tail = sd.head + (Len(t) + 1) /\ r.head = sd.head + 1 /\ Len(BlLine(r)) = Len(t)
      BY <1>4, <1>10, <2>1, <2>2
    <3>2. Len(t) \in Nat /\ sd.head \in Nat
      BY <1>11, <2>1
    <3> QED BY <3>1, <3>2
  <2> QED BY <1>7, <2>3 DEF BlInv, BlCounts
<1>15. BlOrdered'
  <2> SUFFICES ASSUME ~bl_stale PROVE BlOrdered'
    BY <1>5 DEF BlOrdered
  <2>1. bl_given \in Seq(Nat) /\ BlOrder(line, bl_given, bl_flow.cpu)
    BY <1>8, <1>12 DEF BlInv, BlOrdered, BlPlaces
  <2>2. BlOrder(new, Append(bl_given, x), bl_flow.cpu)
    BY <1>3, <1>9, <1>10, <1>11, <2>1, BlOrderHandled
  <2>3. \A d \in BlCpu : bl_sd'[d].tail = bl_sd[d].tail
    BY <1>2, <1>4, <1>7
  <2> QED BY <1>5, <1>8, <2>2, <2>3 DEF BlInv, BlOrdered, BlTypes
<1>16. BlTypes'
  BY <1>5, <1>7 DEF BlInv, BlTypes
<1>17. BlKicked(bl_sd)'
  <2>1. BlKick(c, r, bl_ipis, bl_sent, bl_online, bl_stale)
    BY <1>1, <1>2, <1>4 DEF BlInv, BlKicked, BlKick
  <2> QED BY <1>5, <1>7, <2>1 DEF BlInv, BlKicked
<1>18. BlFlushed(bl_sd)'
  BY <1>1, <1>2, <1>4, <1>5, <1>7 DEF BlInv, BlFlushed, BlTypes
<1> QED BY <1>13, <1>14, <1>15, <1>16, <1>17, <1>18 DEF BlInv

LEMMA BlFlush == ASSUME BlInv, flush_backlog PROVE BlInv'
<1>1. PICK c \in bl_flush :
         /\ ~bl_sd[c].polling
         /\ bl_sd' = [bl_sd EXCEPT ![c] = [bl_sd[c] EXCEPT !.input = << >>, !.process = << >>,
                                    !.head = @ + Len(bl_sd[c].input) + Len(bl_sd[c].process)]]
         /\ bl_lost' = bl_lost \cup ToSet(bl_sd[c].input) \cup ToSet(bl_sd[c].process)
         /\ bl_flush' = bl_flush \ {c}
         /\ UNCHANGED <<bl_flow, bl_want, bl_ipis, bl_sent, bl_online, bl_dev, bl_next, bl_given, bl_stale>>
  BY DEF flush_backlog
<1>2. PICK sd : sd = bl_sd[c]
  OBVIOUS
<1>2a. PICK r : r = [sd EXCEPT !.input = << >>, !.process = << >>,
                               !.head = @ + Len(sd.input) + Len(sd.process)]
  OBVIOUS
<1>3. c \in BlCpu /\ sd \in BlRec /\ sd.skb = NoPacket
  BY <1>1, <1>2 DEF BlInv, BlTypes, BlKicked, BlKick
<1>4. /\ r \in BlRec /\ BlLine(r) = << >> /\ r.head = sd.head + Len(BlLine(sd)) /\ r.tail = sd.tail
      /\ r.input = << >> /\ r.process = << >> /\ r.skb = NoPacket
      /\ r.sched = sd.sched /\ r.listed = sd.listed /\ r.polling = sd.polling
  BY <1>2a, <1>3, BlFlushes
<1>5. bl_sd' = [bl_sd EXCEPT ![c] = r]
  BY <1>1, <1>2, <1>2a
<1>6. bl_sd \in [BlCpu -> BlRec]
  BY DEF BlInv, BlTypes
<1>7. bl_sd' \in [BlCpu -> BlRec] /\ bl_sd'[c] = r /\ \A d \in BlCpu : d # c => bl_sd'[d] = bl_sd[d]
  BY <1>3, <1>4, <1>5, <1>6
<1>8. PICK line, new : line = BlLines(bl_sd) /\ new = BlLines(bl_sd')
  OBVIOUS
<1>9. line \in [BlCpu -> Seq(Nat)] /\ line[c] = BlLine(sd) /\ new = [line EXCEPT ![c] = << >>]
  <2>1. PICK sds : sds = bl_sd'
    OBVIOUS
  <2>2. sds \in [BlCpu -> BlRec] /\ sds[c] = r /\ \A d \in BlCpu : d # c => sds[d] = bl_sd[d]
    BY <1>7, <2>1
  <2>3. /\ BlLines(bl_sd) \in [BlCpu -> Seq(Nat)] /\ BlLines(bl_sd)[c] = BlLine(bl_sd[c])
        /\ BlLines(sds) = [BlLines(bl_sd) EXCEPT ![c] = BlLine(sds[c])]
    BY <1>3, <1>6, <2>2, BlOne
  <2> QED BY <1>2, <1>4, <1>8, <2>1, <2>2, <2>3
<1>12. BlPlaces(line, bl_given, bl_lost, 1 .. bl_next)
  BY <1>8 DEF BlInv, BlKept
<1>13. BlKept'
  <2>1. BlPlaces(new, bl_given, bl_lost \cup ToSet(line[c]), 1 .. bl_next)
    BY <1>3, <1>9, <1>12, BlEmpty
  <2>2. ToSet(line[c]) = ToSet(sd.input) \cup ToSet(sd.process)
    BY <1>3, <1>9, BlLineSeq
  <2>3. bl_lost' = bl_lost \cup ToSet(line[c])
    BY <1>1, <1>2, <2>2
  <2> QED BY <1>1, <1>8, <2>1, <2>3 DEF BlKept
<1>14. BlCounts(bl_sd)'
  <2>1. sd.tail = sd.head + Len(BlLine(sd)) /\ r.head \in Nat
    BY <1>2, <1>3, <1>4 DEF BlInv, BlCounts, BlRec
  <2>2. r.tail = r.head + Len(BlLine(r))
    BY <1>4, <2>1, BlNil
  <2> QED BY <1>7, <2>2 DEF BlInv, BlCounts
<1>15. BlOrdered'
  <2> SUFFICES ASSUME ~bl_stale PROVE BlOrdered'
    BY <1>1 DEF BlOrdered
  <2>1. BlOrder(line, bl_given, bl_flow.cpu)
    BY <1>8 DEF BlInv, BlOrdered
  <2>2. BlOrder(new, bl_given, bl_flow.cpu)
    BY <1>3, <1>9, <2>1, BlOrderLost
  <2>3. \A d \in BlCpu : bl_sd'[d].tail = bl_sd[d].tail
    BY <1>2, <1>4, <1>7
  <2> QED BY <1>1, <1>8, <2>2, <2>3 DEF BlInv, BlOrdered, BlTypes
<1>16. BlTypes'
  BY <1>1, <1>7 DEF BlInv, BlTypes
<1>17. BlKicked(bl_sd)'
  <2>1. BlKick(c, r, bl_ipis, bl_sent, bl_online, bl_stale)
    BY <1>2, <1>3, <1>4 DEF BlInv, BlKicked, BlKick
  <2> QED BY <1>1, <1>7, <2>1 DEF BlInv, BlKicked
<1>18. BlFlushed(bl_sd)'
  BY <1>1, <1>4, <1>7 DEF BlInv, BlFlushed, BlTypes
<1> QED BY <1>13, <1>14, <1>15, <1>16, <1>17, <1>18 DEF BlInv

(* A step that leaves the queues and what was handled or lost.              *)
LEMMA BlStill ==
    ASSUME BlInv, UNCHANGED <<bl_sd, bl_flow, bl_next, bl_given, bl_lost>>,
           bl_stale' \in BOOLEAN, ~bl_stale' => ~bl_stale /\ bl_online' = bl_online
    PROVE  BlKept' /\ BlOrdered' /\ BlCounts(bl_sd)'
BY DEF BlInv, BlKept, BlOrdered, BlCounts

LEMMA BlSend == ASSUME BlInv, net_rps_send_ipi PROVE BlInv'
<1>1. BlKept' /\ BlOrdered' /\ BlCounts(bl_sd)'
  BY BlStill DEF net_rps_send_ipi, BlInv, BlTypes
<1>2. BlTypes' /\ BlFlushed(bl_sd)'
  BY DEF net_rps_send_ipi, BlInv, BlTypes, BlFlushed
<1>3. BlKicked(bl_sd)'
  <2> SUFFICES ASSUME NEW c \in BlCpu PROVE BlKick(c, bl_sd[c], bl_ipis', bl_sent', bl_online, bl_stale)
    BY DEF net_rps_send_ipi, BlKicked
  <2>1. c \notin bl_ipis' /\ (c \in bl_sent' <=> c \in bl_sent \/ (c \in bl_ipis /\ c \in bl_online))
    BY DEF net_rps_send_ipi
  <2>2. ~bl_stale => c \in bl_online
    BY DEF BlInv, BlOrdered
  <2>3. BlKick(c, bl_sd[c], bl_ipis, bl_sent, bl_online, bl_stale)
    BY DEF BlInv, BlKicked
  <2> QED BY <2>1, <2>2, <2>3 DEF BlKick
<1> QED BY <1>1, <1>2, <1>3 DEF BlInv

LEMMA BlRecord == ASSUME BlInv, rps_record_sock_flow PROVE BlInv'
<1>1. BlKept' /\ BlOrdered' /\ BlCounts(bl_sd)'
  BY BlStill DEF rps_record_sock_flow, BlInv, BlTypes
<1>2. BlTypes' /\ BlFlushed(bl_sd)' /\ BlKicked(bl_sd)'
  BY DEF rps_record_sock_flow, BlInv, BlTypes, BlFlushed, BlKicked
<1> QED BY <1>1, <1>2 DEF BlInv

LEMMA BlUnregister ==
    ASSUME BlInv, close_device \/ flush_all_backlogs \/ readers_done
    PROVE  BlInv'
<1>1. /\ UNCHANGED <<bl_sd, bl_flow, bl_want, bl_ipis, bl_sent, bl_online, bl_next, bl_given, bl_lost, bl_stale>>
      /\ bl_flush' \subseteq BlCpu
  BY DEF close_device, flush_all_backlogs, readers_done, Unregister, BlInv, BlTypes
<1>2. BlKept' /\ BlOrdered' /\ BlCounts(bl_sd)'
  BY <1>1, BlStill DEF BlInv, BlTypes
<1>3. BlTypes' /\ BlKicked(bl_sd)'
  BY <1>1 DEF BlInv, BlTypes, BlKicked
<1>4. BlFlushed(bl_sd)'
  <2>1. CASE close_device
    BY <1>1, <2>1 DEF close_device, Unregister, BlFlushed
  <2>2. CASE flush_all_backlogs
    BY <1>1, <2>2 DEF flush_all_backlogs, flush_required, Unregister, BlFlushed
  <2>3. CASE readers_done
    BY <1>1, <2>3 DEF readers_done, Unregister, BlFlushed, BlInv
  <2> QED BY <2>1, <2>2, <2>3
<1> QED BY <1>2, <1>3, <1>4 DEF BlInv

LEMMA BlHotplug == ASSUME BlInv, cpu_down \/ cpu_up PROVE BlInv'
<1>1. CASE cpu_down
  <2>1. PICK c \in bl_online \ {Home} :
           /\ bl_flush = {} /\ ~bl_sd[c].polling /\ c \notin bl_sent
           /\ bl_online' = bl_online \ {c} /\ bl_stale' = TRUE
           /\ UNCHANGED <<bl_sd, bl_flow, bl_want, bl_ipis, bl_sent, bl_dev, bl_flush, bl_next,
                          bl_given, bl_lost>>
    BY <1>1 DEF cpu_down
  <2>2. BlKept' /\ BlOrdered' /\ BlCounts(bl_sd)'
    BY <2>1, BlStill
  <2>3. BlTypes' /\ BlFlushed(bl_sd)'
    BY <2>1 DEF BlInv, BlTypes, BlFlushed
  <2>4. BlKicked(bl_sd)'
    BY <2>1 DEF BlInv, BlKicked, BlKick
  <2> QED BY <2>2, <2>3, <2>4 DEF BlInv
<1>2. CASE cpu_up
  <2>1. PICK c \in BlCpu \ bl_online :
           /\ bl_sd[c].input = << >> /\ bl_sd[c].process = << >> /\ ~bl_sd[c].listed
           /\ bl_online' = bl_online \cup {c}
           /\ UNCHANGED <<bl_sd, bl_flow, bl_want, bl_ipis, bl_sent, bl_dev, bl_flush, bl_next,
                          bl_given, bl_lost, bl_stale>>
    BY <1>2 DEF cpu_up
  <2>0. bl_stale
    BY <2>1 DEF BlInv, BlOrdered
  <2>2. BlKept' /\ BlOrdered' /\ BlCounts(bl_sd)'
    BY <2>0, <2>1, BlStill DEF BlInv, BlTypes
  <2>3. BlTypes' /\ BlFlushed(bl_sd)'
    BY <2>1 DEF BlInv, BlTypes, BlFlushed
  <2>4. BlKicked(bl_sd)'
    BY <2>0, <2>1 DEF BlInv, BlKicked, BlKick
  <2> QED BY <2>2, <2>3, <2>4 DEF BlInv
<1> QED BY <1>1, <1>2

BlFlowRec == [cpu : BlCpu \cup {NoCpu}, last_qtail : Nat]

(* enqueue: the packet x comes to the end of the line of c, or is lost.     *)
LEMMA BlEnqueue ==
    ASSUME NEW sds \in [BlCpu -> BlRec], NEW c \in BlCpu, c \in bl_online, NEW x \in Nat,
           NEW all, x \notin all, NEW flow \in BlFlowRec, NEW steered \in BOOLEAN,
           BlPlaces(BlLines(sds), bl_given, bl_lost, all), BlCounts(sds), BlKicked(sds), BlFlushed(sds),
           bl_ipis \subseteq BlCpu, enqueue(sds, c, x, flow, steered),
           UNCHANGED <<bl_sent, bl_online, bl_dev, bl_flush, bl_stale>>
    PROVE  /\ bl_sd' \in [BlCpu -> BlRec] /\ bl_ipis' \subseteq BlCpu
           /\ BlPlaces(BlLines(bl_sd'), bl_given, bl_lost', all \cup {x})
           /\ BlCounts(bl_sd)' /\ BlKicked(bl_sd)' /\ BlFlushed(bl_sd)'
           /\ bl_flow' \in BlFlowRec /\ bl_flow'.cpu = flow.cpu
           /\ steered /\ flow.last_qtail = sds[c].tail => bl_flow'.last_qtail = bl_sd'[c].tail
           /\ BlOrder(BlLines(sds), bl_given, c) /\ (\A y \in all : y < x)
                => BlOrder(BlLines(bl_sd'), bl_given, c)
<1>1. PICK sd : sd = sds[c]
  OBVIOUS
<1>2. sd \in BlRec /\ sd.tail \in Nat /\ sd.input \in Seq(Nat)
  BY <1>1 DEF BlRec
<1>3. CASE /\ ~accepts(sds[c]) \/ flow_limit(sds[c])
           /\ bl_sd' = sds /\ bl_flow' = flow
           /\ bl_lost' = bl_lost \cup {x}
           /\ UNCHANGED bl_ipis
  <2>1. BlPlaces(BlLines(sds), bl_given, bl_lost \cup {x}, all \cup {x})
    BY BlLose
  <2>2. BlKicked(bl_sd)' /\ BlFlushed(bl_sd)' /\ BlCounts(bl_sd)'
    BY <1>3 DEF BlKicked, BlFlushed, BlCounts
  <2> QED BY <1>3, <2>1, <2>2
<1>4. CASE /\ accepts(sds[c])
           /\ bl_sd' = [sds EXCEPT ![c] = enqueue_to_backlog(sds[c], c, x)]
           /\ bl_flow' = IF steered THEN [flow EXCEPT !.last_qtail = sds[c].tail + 1] ELSE flow
           /\ bl_ipis' = IF Len(sds[c].input) = 0 /\ ~sds[c].sched /\ c # Home THEN bl_ipis \cup {c} ELSE bl_ipis
           /\ UNCHANGED bl_lost
  <2>1. PICK r : r = enqueue_to_backlog(sd, c, x)
    OBVIOUS
  <2>2. /\ r \in BlRec /\ BlLine(r) = Append(BlLine(sd), x) /\ r.head = sd.head /\ r.tail = sd.tail + 1
        /\ r.input # << >> /\ r.process = sd.process /\ r.skb = sd.skb /\ r.polling = sd.polling
        /\ r.sched <=> sd.sched \/ sd.input = << >>
        /\ r.listed <=> sd.listed \/ (sd.input = << >> /\ ~sd.sched /\ c = Home)
    BY <1>2, <2>1, BlEnqueued
  <2>3. bl_sd' = [sds EXCEPT ![c] = r] /\ bl_dev = "up"
    BY <1>1, <1>4, <2>1 DEF accepts
  <2>4. bl_sd' \in [BlCpu -> BlRec] /\ bl_sd'[c] = r /\ \A d \in BlCpu : d # c => bl_sd'[d] = sds[d]
    BY <2>2, <2>3
  <2>5. PICK line, new : line = BlLines(sds) /\ new = BlLines(bl_sd')
    OBVIOUS
  <2>6. /\ line \in [BlCpu -> Seq(Nat)] /\ line[c] = BlLine(sd)
        /\ new = [line EXCEPT ![c] = Append(line[c], x)]
    <3>1. PICK to : to = bl_sd'
      OBVIOUS
    <3>2. to \in [BlCpu -> BlRec] /\ to[c] = r /\ \A d \in BlCpu : d # c => to[d] = sds[d]
      BY <2>4, <3>1
    <3>3. /\ BlLines(sds) \in [BlCpu -> Seq(Nat)] /\ BlLines(sds)[c] = BlLine(sds[c])
          /\ BlLines(to) = [BlLines(sds) EXCEPT ![c] = BlLine(to[c])]
      BY <3>2, BlOne
    <3> QED BY <1>1, <2>2, <2>5, <3>1, <3>2, <3>3
  <2>7. BlPlaces(line, bl_given, bl_lost, all)
    BY <2>5
  <2>8. BlPlaces(new, bl_given, bl_lost, all \cup {x})
    BY <2>6, <2>7, BlPut
  <2>9. BlCounts(bl_sd)'
    <3>1. line[c] \in Seq(Nat) /\ Len(line[c]) \in Nat
      BY <2>6, LenProperties
    <3>2. Len(Append(line[c], x)) = Len(line[c]) + 1
      BY <3>1, BlAppend
    <3>3. sd.tail = sd.head + Len(BlLine(sd)) /\ sd.head \in Nat
      BY <1>1, <1>2 DEF BlCounts, BlRec
    <3>4. r.tail = sd.head + Len(line[c]) + 1 /\ r.head = sd.head /\ Len(BlLine(r)) = Len(line[c]) + 1
      BY <2>2, <2>6, <3>2, <3>3
    <3>5. r.tail = r.head + Len(BlLine(r))
      BY <3>1, <3>3, <3>4
    <3> QED BY <2>4, <3>5 DEF BlCounts
  <2>10. sd.input = << >> <=> Len(sd.input) = 0
    BY <1>2, BlNil, EmptySeq
  <2>11. BlKicked(bl_sd)'
    <3>1. ASSUME NEW d \in BlCpu, d # c PROVE BlKick(d, sds[d], bl_ipis', bl_sent, bl_online, bl_stale)
      <4>1. d \in bl_ipis' <=> d \in bl_ipis
        BY <1>4, <3>1
      <4> QED BY <4>1 DEF BlKicked, BlKick
    <3>2. BlKick(c, r, bl_ipis', bl_sent, bl_online, bl_stale)
      <4>1. BlKick(c, sd, bl_ipis, bl_sent, bl_online, bl_stale)
        BY <1>1 DEF BlKicked
      <4>2. CASE sd.input = << >> /\ ~sd.sched /\ c # Home
        <5>1. c \in bl_ipis' /\ r.sched /\ ~r.listed /\ c \notin bl_sent /\ ~r.polling
          BY <1>1, <1>4, <2>2, <2>10, <4>1, <4>2 DEF BlKick
        <5> QED BY <2>2, <4>1, <5>1 DEF BlKick
      <4>3. CASE sd.input = << >> /\ ~sd.sched /\ c = Home
        <5>1. bl_ipis' = bl_ipis /\ r.sched /\ r.listed
          BY <1>4, <2>2, <4>3
        <5> QED BY <2>2, <4>1, <4>3, <5>1 DEF BlKick
      <4>4. CASE ~(sd.input = << >> /\ ~sd.sched)
        <5>1. bl_ipis' = bl_ipis
          BY <1>1, <1>4, <2>10, <4>4
        <5>2. sd.sched
          BY <4>1, <4>4 DEF BlKick
        <5> QED BY <2>2, <4>1, <5>1, <5>2 DEF BlKick
      <4> QED BY <4>2, <4>3, <4>4
    <3> QED BY <2>4, <3>1, <3>2 DEF BlKicked
  <2>12. BlFlushed(bl_sd)'
    BY <2>3 DEF BlFlushed
  <2>13. bl_flow' \in BlFlowRec /\ bl_flow'.cpu = flow.cpu
    BY <1>1, <1>2, <1>4 DEF BlFlowRec
  <2>14. ASSUME steered PROVE bl_flow'.last_qtail = bl_sd'[c].tail
    BY <1>1, <1>2, <1>4, <2>2, <2>4, <2>14 DEF BlFlowRec
  <2>15. ASSUME BlOrder(BlLines(sds), bl_given, c), \A y \in all : y < x
         PROVE  BlOrder(BlLines(bl_sd'), bl_given, c)
    <3>1. bl_given \in Seq(Nat) /\ \A y \in ToSet(bl_given) : y < x
      BY <2>7, <2>15 DEF BlPlaces
    <3>2. \A y \in ToSet(line[c]) : y < x
      BY <2>7, <2>15 DEF BlPlaces
    <3>3. BlOrder(line, bl_given, c) /\ line \in [BlCpu -> Seq(Nat)]
      BY <2>5, <2>6, <2>15
    <3>4. BlOrder([line EXCEPT ![c] = Append(line[c], x)], bl_given, c)
      BY <3>1, <3>2, <3>3, BlOrderArrived
    <3> QED BY <2>5, <2>6, <3>4
  <2>16. bl_ipis' \subseteq BlCpu
    BY <1>4
  <2>17. BlPlaces(BlLines(bl_sd'), bl_given, bl_lost', all \cup {x})
    BY <1>4, <2>5, <2>8
  <2> QED BY <2>4, <2>9, <2>11, <2>12, <2>13, <2>14, <2>15, <2>16, <2>17
<1> QED BY <1>3, <1>4 DEF enqueue

(* get_rps_cpu: until a CPU goes down, the flow is on a CPU that is online, *)
(* its packets are in order there, and last_qtail is the end of the line.   *)
LEMMA BlSteered ==
    ASSUME BlInv, NEW flow, flow = get_rps_cpu
    PROVE  /\ flow \in BlFlowRec
           /\ ~bl_stale => /\ flow.cpu \in bl_online /\ flow.cpu \in BlCpu
                           /\ BlOrder(BlLines(bl_sd), bl_given, flow.cpu)
                           /\ flow.last_qtail = bl_sd[flow.cpu].tail
<1>1. /\ bl_flow \in BlFlowRec /\ bl_flow.cpu \in BlCpu \cup {NoCpu} /\ bl_want \in BlCpu
      /\ bl_sd \in [BlCpu -> BlRec] /\ \A c \in BlCpu : bl_sd[c].head \in Nat /\ bl_sd[c].tail \in Nat
  BY DEF BlInv, BlTypes, BlFlowRec, BlRec
<1>2. CASE ~may_switch(bl_flow.cpu, bl_want)
  <2>1. flow = bl_flow
    BY <1>2 DEF get_rps_cpu
  <2>2. ASSUME ~bl_stale PROVE bl_flow.cpu \in BlCpu
    BY <1>1, <1>2, BacklogAssumption DEF may_switch
  <2> QED BY <1>1, <2>1, <2>2, BacklogAssumption DEF BlInv, BlOrdered
<1>3. CASE may_switch(bl_flow.cpu, bl_want)
  <2>1. flow = [cpu |-> bl_want, last_qtail |-> bl_sd[bl_want].head]
    BY <1>3 DEF get_rps_cpu, set_rps_cpu
  <2>2. flow \in BlFlowRec /\ flow.cpu = bl_want /\ flow.last_qtail = bl_sd[bl_want].head
    BY <1>1, <2>1 DEF BlFlowRec
  <2>3. ASSUME ~bl_stale
        PROVE  /\ flow.cpu \in bl_online /\ flow.cpu \in BlCpu
               /\ BlOrder(BlLines(bl_sd), bl_given, flow.cpu)
               /\ flow.last_qtail = bl_sd[flow.cpu].tail
    <3>1. PICK line, f : line = BlLines(bl_sd) /\ f = bl_flow.cpu
      OBVIOUS
    <3>2. line \in [BlCpu -> Seq(Nat)] /\ \A c \in BlCpu : line[c] = BlLine(bl_sd[c])
      BY <1>1, <3>1, BlLineSeq DEF BlLines
    <3>3. BlOrder(line, bl_given, f) /\ bl_online = BlCpu
      BY <2>3, <3>1 DEF BlInv, BlOrdered
    <3>4. ASSUME f \in BlCpu PROVE line[f] = << >>
      <4>1. bl_sd[f].head >= bl_flow.last_qtail /\ bl_flow.last_qtail = bl_sd[f].tail
        BY <1>3, <2>3, <3>1, <3>3, <3>4, BacklogAssumption DEF may_switch, cpu_online, BlInv, BlOrdered
      <4>2. bl_sd[f].tail = bl_sd[f].head + Len(line[f])
        BY <3>2, <3>4 DEF BlInv, BlCounts
      <4>3. line[f] \in Seq(Nat) /\ Len(line[f]) \in Nat
        BY <3>2, <3>4, LenProperties
      <4>4. Len(line[f]) = 0
        BY <1>1, <3>4, <4>1, <4>2, <4>3
      <4> QED BY <4>3, <4>4, EmptySeq
    <3>5. \A c \in BlCpu : line[c] = << >>
      BY <3>3, <3>4 DEF BlOrder
    <3>6. BlOrder(line, bl_given, bl_want)
      BY <3>2, <3>3, <3>4, BlOrderMoved
    <3>7. bl_sd[bl_want].tail = bl_sd[bl_want].head
      <4>1. bl_sd[bl_want].tail = bl_sd[bl_want].head + Len(line[bl_want])
        BY <1>1, <3>2 DEF BlInv, BlCounts
      <4>2. Len(line[bl_want]) = 0
        BY <1>1, <3>5, BlNil
      <4> QED BY <1>1, <4>1, <4>2
    <3> QED BY <1>1, <2>2, <3>1, <3>3, <3>6, <3>7
  <2> QED BY <2>2, <2>3
<1> QED BY <1>2, <1>3

LEMMA BlArrive == ASSUME BlInv, netif_receive_skb PROVE BlInv'
<1>1. PICK flow, p : flow = get_rps_cpu /\ p = bl_next + 1
  OBVIOUS
<1>2. /\ bl_next' = p
      /\ IF cpu_online(flow.cpu)
         THEN enqueue(bl_sd, flow.cpu, p, flow, TRUE) /\ UNCHANGED bl_given
         ELSE /\ bl_flow' = flow /\ bl_given' = Append(bl_given, p)
              /\ UNCHANGED <<bl_sd, bl_ipis, bl_lost>>
      /\ UNCHANGED <<bl_want, bl_sent, bl_online, bl_dev, bl_flush, bl_stale>>
  BY <1>1 DEF netif_receive_skb
<1>3. /\ flow \in BlFlowRec
      /\ ~bl_stale => /\ flow.cpu \in bl_online /\ flow.cpu \in BlCpu
                      /\ BlOrder(BlLines(bl_sd), bl_given, flow.cpu)
                      /\ flow.last_qtail = bl_sd[flow.cpu].tail
  BY <1>1, BlSteered
<1>4. PICK all : all = 1 .. bl_next
  OBVIOUS
<1>5. bl_next \in Nat /\ p \in Nat /\ p \notin all /\ all \cup {p} = 1 .. p /\ \A y \in all : y < p
  BY <1>1, <1>4 DEF BlInv, BlTypes
<1>6. BlPlaces(BlLines(bl_sd), bl_given, bl_lost, all)
  BY <1>4 DEF BlInv, BlKept
<1>7. CASE cpu_online(flow.cpu)
  <2>1. PICK c : c = flow.cpu
    OBVIOUS
  <2>2. c \in BlCpu /\ c \in bl_online /\ bl_sd \in [BlCpu -> BlRec] /\ bl_ipis \subseteq BlCpu
    BY <1>7, <2>1 DEF cpu_online, BlInv, BlTypes
  <2>3. enqueue(bl_sd, c, p, flow, TRUE) /\ bl_given' = bl_given
    BY <1>2, <1>7, <2>1
  <2>4. BlCounts(bl_sd) /\ BlKicked(bl_sd) /\ BlFlushed(bl_sd)
    BY DEF BlInv
  <2>5. /\ bl_sd' \in [BlCpu -> BlRec] /\ bl_ipis' \subseteq BlCpu
        /\ BlPlaces(BlLines(bl_sd'), bl_given, bl_lost', all \cup {p})
        /\ BlCounts(bl_sd)' /\ BlKicked(bl_sd)' /\ BlFlushed(bl_sd)'
        /\ bl_flow' \in BlFlowRec /\ bl_flow'.cpu = flow.cpu
        /\ TRUE /\ flow.last_qtail = bl_sd[c].tail => bl_flow'.last_qtail = bl_sd'[c].tail
        /\ BlOrder(BlLines(bl_sd), bl_given, c) /\ (\A y \in all : y < p)
             => BlOrder(BlLines(bl_sd'), bl_given, c)
    BY <1>2, <1>3, <1>5, <1>6, <2>2, <2>3, <2>4, BlEnqueue
  <2>6. BlKept'
    BY <1>2, <1>5, <2>3, <2>5 DEF BlKept
  <2>7. BlTypes'
    BY <1>2, <1>5, <2>5 DEF BlInv, BlTypes, BlFlowRec
  <2>8. BlOrdered'
    BY <1>2, <1>3, <1>5, <2>1, <2>3, <2>5 DEF BlInv, BlOrdered
  <2> QED BY <2>5, <2>6, <2>7, <2>8 DEF BlInv
<1>8. CASE ~cpu_online(flow.cpu)
  <2>1. bl_stale
    BY <1>3, <1>8 DEF cpu_online
  <2>2. bl_flow' = flow /\ bl_given' = Append(bl_given, p) /\ UNCHANGED <<bl_sd, bl_ipis, bl_lost>>
    BY <1>2, <1>8
  <2>3. BlPlaces(BlLines(bl_sd), Append(bl_given, p), bl_lost, all \cup {p})
    BY <1>5, <1>6, BlGive
  <2>4. BlKept'
    BY <1>2, <1>5, <2>2, <2>3 DEF BlKept
  <2>5. BlTypes'
    BY <1>2, <1>3, <1>5, <2>2 DEF BlInv, BlTypes, BlFlowRec
  <2>6. BlOrdered' /\ BlCounts(bl_sd)' /\ BlKicked(bl_sd)' /\ BlFlushed(bl_sd)'
    BY <1>2, <2>1, <2>2 DEF BlInv, BlOrdered, BlCounts, BlKicked, BlFlushed
  <2> QED BY <2>4, <2>5, <2>6 DEF BlInv
<1> QED BY <1>7, <1>8

LEMMA BlDeadSkb == ASSUME BlInv, dev_cpu_dead_skb PROVE BlInv'
<1>1. PICK flow : flow = get_rps_cpu
  OBVIOUS
<1>2. PICK c \in BlCpu \ bl_online :
         LET old == bl_sd[c]
             all == old.process \o old.input
             left == [old EXCEPT !.head = @ + 1,
                                 !.process = IF @ = << >> THEN @ ELSE Tail(@),
                                 !.input = IF old.process = << >> THEN Tail(@) ELSE @] IN
         /\ all # << >> /\ ~old.listed
         /\ IF cpu_online(flow.cpu) THEN enqueue([bl_sd EXCEPT ![c] = left], flow.cpu, Head(all), flow, TRUE)
            ELSE enqueue([bl_sd EXCEPT ![c] = left], Home, Head(all), flow, FALSE)
         /\ UNCHANGED <<bl_want, bl_sent, bl_online, bl_dev, bl_flush, bl_next, bl_given, bl_moves, bl_stale>>
  BY <1>1 DEF dev_cpu_dead_skb
<1>3. PICK sd, x : sd = bl_sd[c] /\ x = Head(sd.process \o sd.input)
  OBVIOUS
<1>4. PICK r : r = [sd EXCEPT !.head = @ + 1, !.process = IF @ = << >> THEN @ ELSE Tail(@),
                              !.input = IF sd.process = << >> THEN Tail(@) ELSE @]
  OBVIOUS
<1>5. PICK sds : sds = [bl_sd EXCEPT ![c] = r]
  OBVIOUS
<1>6. /\ sd.process \o sd.input # << >> /\ ~sd.listed
      /\ IF cpu_online(flow.cpu) THEN enqueue(sds, flow.cpu, x, flow, TRUE)
         ELSE enqueue(sds, Home, x, flow, FALSE)
      /\ UNCHANGED <<bl_want, bl_sent, bl_online, bl_dev, bl_flush, bl_next, bl_given, bl_stale>>
  BY <1>2, <1>3, <1>4, <1>5
<1>7. PICK d \in bl_online, steered \in BOOLEAN : enqueue(sds, d, x, flow, steered)
  <2>1. Home \in bl_online
    BY DEF BlInv, BlTypes
  <2>2. CASE cpu_online(flow.cpu)
    <3>1. flow.cpu \in bl_online /\ enqueue(sds, flow.cpu, x, flow, TRUE)
      BY <1>6, <2>2 DEF cpu_online
    <3> QED BY <3>1
  <2>3. CASE ~cpu_online(flow.cpu)
    <3>1. enqueue(sds, Home, x, flow, FALSE)
      BY <1>6, <2>3
    <3> QED BY <2>1, <3>1
  <2> QED BY <2>2, <2>3
<1>8. bl_sd \in [BlCpu -> BlRec] /\ sd \in BlRec /\ d \in BlCpu /\ c \notin bl_online /\ bl_ipis \subseteq BlCpu
  BY <1>3, <1>7 DEF BlInv, BlTypes
<1>9. ~sd.polling /\ sd.skb = NoPacket /\ bl_stale
  BY <1>3, <1>8 DEF BlInv, BlKicked, BlKick, BlOrdered
<1>10. r \in BlRec /\ x \in Nat /\ BlLine(sd) = <<x>> \o BlLine(r)
  BY <1>3, <1>4, <1>6, <1>8, <1>9, BlFirst
<1>11. /\ r.head = sd.head + 1 /\ r.tail = sd.tail /\ r.skb = NoPacket
       /\ r.sched = sd.sched /\ r.listed = sd.listed /\ r.polling = sd.polling
  <2>1. sd \in BlRec /\ sd.skb = NoPacket /\ sd.process \o sd.input # << >>
    BY <1>6, <1>8, <1>9
  <2>2. r.head = sd.head + 1
    BY <1>4, <2>1, BlFirst
  <2>3. r.tail = sd.tail
    BY <1>4, <2>1, BlFirst
  <2>4. r.skb = NoPacket
    BY <1>4, <2>1, BlFirst
  <2>5. r.sched = sd.sched
    BY <1>4, <2>1, BlFirst
  <2>6. r.listed = sd.listed
    BY <1>4, <2>1, BlFirst
  <2>7. r.polling = sd.polling
    BY <1>4, <2>1, BlFirst
  <2> QED BY <2>2, <2>3, <2>4, <2>5, <2>6, <2>7
<1>12. sds \in [BlCpu -> BlRec] /\ sds[c] = r /\ \A e \in BlCpu : e # c => sds[e] = bl_sd[e]
  BY <1>5, <1>8, <1>10
<1>13. /\ BlLines(bl_sd) \in [BlCpu -> Seq(Nat)] /\ BlLines(bl_sd)[c] = BlLine(sd)
       /\ BlLines(sds) = [BlLines(bl_sd) EXCEPT ![c] = BlLine(r)]
  <2>1. /\ BlLines(bl_sd) \in [BlCpu -> Seq(Nat)] /\ BlLines(bl_sd)[c] = BlLine(bl_sd[c])
        /\ BlLines(sds) = [BlLines(bl_sd) EXCEPT ![c] = BlLine(sds[c])]
    BY <1>8, <1>12, BlOne
  <2> QED BY <1>3, <1>12, <2>1
<1>14. PICK t, all : t = BlLine(r) /\ all = (1 .. bl_next) \ {x}
  OBVIOUS
<1>15. t \in Seq(Nat) /\ Len(t) \in Nat
  BY <1>10, <1>14, BlLineSeq, LenProperties
<1>16. BlPlaces(BlLines(sds), bl_given, bl_lost, all) /\ x \in 1 .. bl_next
  <2>1. PICK line : line = BlLines(bl_sd)
    OBVIOUS
  <2>2. BlPlaces(line, bl_given, bl_lost, 1 .. bl_next) /\ line[c] = <<x>> \o t
    BY <1>10, <1>13, <1>14, <2>1 DEF BlInv, BlKept
  <2>3. /\ BlPlaces([line EXCEPT ![c] = t], bl_given, bl_lost, (1 .. bl_next) \ {x})
        /\ x \in 1 .. bl_next
    BY <1>10, <1>15, <2>2, BlTake
  <2> QED BY <1>13, <1>14, <2>1, <2>3
<1>17. BlCounts(sds)
  <2>1. sd.tail = sd.head + Len(BlLine(sd)) /\ sd.head \in Nat
    BY <1>3, <1>8 DEF BlInv, BlCounts, BlRec
  <2>2. Len(BlLine(sd)) = Len(t) + 1
    BY <1>10, <1>14, <1>15, BlCons
  <2>3. r.tail = sd.head + (Len(t) + 1) /\ r.head = sd.head + 1 /\ Len(BlLine(r)) = Len(t)
    BY <1>11, <1>14, <2>1, <2>2
  <2>4. Len(t) \in Nat /\ sd.head \in Nat
    BY <1>15, <2>1
  <2>5. r.tail = r.head + Len(BlLine(r))
    BY <2>3, <2>4
  <2> QED BY <1>12, <2>5 DEF BlInv, BlCounts
<1>18. BlKicked(sds)
  <2>1. BlKick(c, r, bl_ipis, bl_sent, bl_online, bl_stale)
    BY <1>3, <1>8, <1>9, <1>11 DEF BlInv, BlKicked, BlKick
  <2> QED BY <1>12, <2>1 DEF BlInv, BlKicked
<1>19. BlFlushed(sds)
  BY <1>8, <1>11, <1>12 DEF BlInv, BlFlushed, BlTypes
<1>20. flow \in BlFlowRec
  BY <1>1, BlSteered
<1>21. x \notin all /\ all \cup {x} = 1 .. bl_next
  BY <1>14, <1>16
<1>22. UNCHANGED <<bl_sent, bl_online, bl_dev, bl_flush, bl_stale>>
  BY <1>6
<1>23. /\ bl_sd' \in [BlCpu -> BlRec] /\ bl_ipis' \subseteq BlCpu
       /\ BlPlaces(BlLines(bl_sd'), bl_given, bl_lost', all \cup {x})
       /\ BlCounts(bl_sd)' /\ BlKicked(bl_sd)' /\ BlFlushed(bl_sd)'
       /\ bl_flow' \in BlFlowRec /\ bl_flow'.cpu = flow.cpu
       /\ steered /\ flow.last_qtail = sds[d].tail => bl_flow'.last_qtail = bl_sd'[d].tail
       /\ BlOrder(BlLines(sds), bl_given, d) /\ (\A y \in all : y < x)
            => BlOrder(BlLines(bl_sd'), bl_given, d)
  <2>1. sds \in [BlCpu -> BlRec] /\ d \in BlCpu /\ d \in bl_online /\ x \in Nat /\ x \notin all
    BY <1>7, <1>8, <1>10, <1>12, <1>21
  <2>2. BlPlaces(BlLines(sds), bl_given, bl_lost, all) /\ bl_ipis \subseteq BlCpu
    BY <1>8, <1>16
  <2> QED BY <1>7, <1>17, <1>18, <1>19, <1>20, <1>22, <2>1, <2>2, BlEnqueue
<1>24. BlKept'
  BY <1>6, <1>21, <1>23 DEF BlKept
<1>25. BlTypes' /\ BlOrdered'
  BY <1>6, <1>9, <1>23 DEF BlInv, BlTypes, BlOrdered, BlFlowRec
<1> QED BY <1>23, <1>24, <1>25 DEF BlInv

LEMMA BlStart == BacklogInit => BlInv
<1> SUFFICES ASSUME BacklogInit PROVE BlInv
  OBVIOUS
<1>1. PICK e : e = InitSd
  OBVIOUS
<1>2. e \in BlRec
  BY <1>1, BlNil DEF InitSd, BlRec, NoPacket
<1>3. /\ e.input = << >> /\ e.process = << >> /\ e.skb = NoPacket /\ e.head = 0 /\ e.tail = 0
      /\ ~e.sched /\ ~e.listed /\ ~e.polling
  BY <1>1 DEF InitSd
<1>4. BlLine(e) = << >>
  BY <1>2, <1>3, BlLineSeq
<1>5. bl_sd \in [BlCpu -> BlRec] /\ \A c \in BlCpu : bl_sd[c] = e
  BY <1>1, <1>2 DEF BacklogInit
<1>6. BlLines(bl_sd) \in [BlCpu -> Seq(Nat)] /\ \A c \in BlCpu : BlLines(bl_sd)[c] = << >>
  BY <1>4, <1>5, BlNil DEF BlLines
<1>7. BlTypes
  BY <1>5, BacklogAssumption DEF BacklogInit, BlTypes, NoCpu
<1>8. BlKept
  <2>1. 1 .. 0 = {}
    OBVIOUS
  <2> QED BY <1>6, <2>1, BlNil DEF BacklogInit, BlKept, BlPlaces
<1>9. BlOrdered
  BY <1>6, BlNil, BacklogAssumption DEF BacklogInit, BlOrdered, BlOrder
<1>10. BlCounts(bl_sd)
  BY <1>3, <1>4, <1>5, BlNil DEF BlCounts
<1>11. BlKicked(bl_sd) /\ BlFlushed(bl_sd)
  BY <1>3, <1>5 DEF BacklogInit, BlKicked, BlKick, BlFlushed
<1> QED BY <1>7, <1>8, <1>9, <1>10, <1>11 DEF BlInv

LEMMA BlStep == ASSUME BlInv, BacklogNext PROVE BlInv'
BY BlArrive, BlSend, BlTrigger, BlRecord, BlPoll, BlDequeue, BlReceive, BlSplice, BlUnregister,
   BlFlush, BlHotplug, BlDead, BlDeadSkb DEF BacklogNext

LEMMA BlStutter == ASSUME BlInv, UNCHANGED backlog_vars PROVE BlInv'
BY DEF BlInv, BlTypes, BlKept, BlOrdered, BlCounts, BlKicked, BlFlushed, backlog_vars

LEMMA BlImplied == ASSUME BlInv PROVE BacklogSound
<1>1. bl_sd \in [BlCpu -> BlRec] /\ \A c \in BlCpu : bl_sd[c] \in BlRec
  BY DEF BlInv, BlTypes
<1>2. BlPlaces(BlLines(bl_sd), bl_given, bl_lost, 1 .. bl_next)
  BY DEF BlInv, BlKept
<1>3. \A c \in BlCpu : Held(c) = ToSet(BlLine(bl_sd[c])) /\ BlLines(bl_sd)[c] = BlLine(bl_sd[c])
  BY <1>1, BlLineSeq DEF Held, BlLines
<1>4. ASSUME NEW i \in 1 .. Len(bl_given), NEW j \in 1 .. Len(bl_given), i < j
      PROVE  bl_given[i] # bl_given[j] /\ (bl_stale \/ bl_given[i] < bl_given[j])
  <2>1. bl_given[i] # bl_given[j]
    BY <1>2, <1>4 DEF BlPlaces, BlOnce
  <2>2. ~bl_stale => bl_given[i] < bl_given[j]
    BY <1>4 DEF BlInv, BlOrdered, BlOrder, BlRising
  <2> QED BY <2>1, <2>2
<1>5. 1 .. bl_next = ToSet(bl_given) \cup bl_lost \cup UNION {Held(c) : c \in BlCpu}
  BY <1>2, <1>3 DEF BlPlaces
<1>6. ToSet(bl_given) \cap bl_lost = {}
  BY <1>2 DEF BlPlaces
<1>7. ASSUME NEW c \in BlCpu
      PROVE  /\ bl_sd[c].tail - bl_sd[c].head = Cardinality(Held(c))
             /\ cpu_online(c) /\ (bl_sd[c].input # << >> \/ bl_sd[c].process # << >>) =>
                  bl_sd[c].sched /\ (bl_sd[c].listed \/ c \in bl_ipis \/ c \in bl_sent \/ bl_stale)
             /\ bl_sd[c].listed => bl_sd[c].sched
  <2>1. PICK s : s = BlLine(bl_sd[c])
    OBVIOUS
  <2>2. s \in Seq(Nat) /\ BlOnce(s) /\ Len(s) \in Nat
    BY <1>1, <1>2, <1>3, <2>1, BlLineSeq, LenProperties DEF BlPlaces
  <2>3. Cardinality(Held(c)) = Len(s)
    BY <1>3, <2>1, <2>2, BlCount
  <2>4. bl_sd[c].tail = bl_sd[c].head + Len(s) /\ bl_sd[c].head \in Nat
    BY <1>1, <2>1 DEF BlInv, BlCounts, BlRec
  <2>5. bl_sd[c].tail - bl_sd[c].head = Cardinality(Held(c))
    BY <2>2, <2>3, <2>4
  <2> QED BY <2>5 DEF BlInv, BlKicked, BlKick, cpu_online
<1>8. ASSUME bl_dev = "gone", NEW c \in bl_online PROVE Held(c) = {}
  <2>1. c \in BlCpu /\ bl_sd[c].input = << >> /\ bl_sd[c].process = << >> /\ bl_sd[c].skb = NoPacket
    BY <1>8 DEF BlInv, BlFlushed, BlTypes
  <2>2. BlLine(bl_sd[c]) = << >>
    BY <1>1, <2>1, BlLineSeq
  <2> QED BY <1>3, <2>1, <2>2, BlNil
<1> QED BY <1>4, <1>5, <1>6, <1>7, <1>8 DEF BacklogSound

LEMMA BlTurn ==
    ASSUME [KernelNext]_kernel_vars, part' = "backlog"
    PROVE  part = "backlog" /\ [BacklogNext]_backlog_vars
BY DEF KernelNext, kernel_vars, Turn

(* get_rps_cpu, enqueue_to_backlog and process_backlog, for every set of    *)
(* CPUs, every length of the queues, every number of packets and of moves:  *)
(* the packets of a flow are handled in the order of their arrival until a  *)
(* CPU goes down; each packet is held by a backlog, handled once or counted *)
(* as dropped, and the counters of a backlog differ by what it holds; an    *)
(* online CPU that holds packets is scheduled, and on the poll list or with *)
(* its kick on the way unless a CPU went down; and when a device is gone no *)
(* online CPU holds a packet of it.                                         *)
THEOREM FlowsInOrder == KernelSpec => []Steering
<1> DEFINE I == part = "backlog" => BlInv
<1>1. KernelInit => I
  BY BlStart DEF KernelInit
<1>2. I /\ [KernelNext]_kernel_vars => I'
  BY BlTurn, BlStep, BlStutter
<1>3. I => Steering
  BY BlImplied DEF Steering, While
<1> QED BY <1>1, <1>2, <1>3, PTL DEF KernelSpec

==============================================================================
