-------------------------------- MODULE NetRx --------------------------------
(***************************************************************************)
(* How a received frame gets from the ring of the r8169 to the selector in *)
(* rtl_rx on one CPU: the interrupt handler (r8169_main.c), NAPI (dev.c),  *)
(* and the softirq core with the CROS-RT switch ksoftirqd_test that leaves *)
(* NET_RX to ksoftirqd (softirq.c).                                        *)
(*                                                                         *)
(* Hardware (frames, events) interleaves with everything.  An interrupt    *)
(* interleaves with softirqs and threads, a softirq only with threads; a   *)
(* thread runs when neither is active.                                     *)
(***************************************************************************)
EXTENDS Kthread, FiniteSets

CONSTANTS RingSize,     \* bound: descriptors of the receive ring
          Weight,       \* napi->weight
          MaxRestart,   \* MAX_SOFTIRQ_RESTART
          gro_flush_timeout,     \* TRUE: the device has a nonzero timeout
          Budget,       \* bound: events other than frames, and operations
          napi_defer_hard_irqs   \* polls without work before irqs are enabled

ASSUME NetRxAssumption == /\ RingSize \in Nat \ {0}
                          /\ Weight \in Nat \ {0}
                          /\ MaxRestart \in Nat \ {0}
                          /\ Budget \in Nat
                          /\ gro_flush_timeout \in BOOLEAN
                          /\ napi_defer_hard_irqs \in Nat

VARIABLES
    ring,     \* frames in the receive ring, not yet taken by rtl_rx
    ev,       \* IntrStatus
    mask,     \* IntrMask is tp->irq_mask (and not 0)
    status,   \* the events rtl8169_interrupt read; {} outside the handler
    napi,     \* napi->state, a set of NAPI_STATE_* bits
    sd_list,  \* tp->napi is on this CPU's softnet_data.poll_list
    gro,      \* GRO holds packets of this napi (gro_bitmask != 0)
    defer,    \* napi->defer_hard_irqs_count
    timer,    \* napi->timer is armed
    pending,  \* local_softirq_pending()
    sirq,     \* __do_softirq and net_rx_action in progress
    pp,       \* the napi poll in progress
    kd,       \* ksoftirqd: its task and where it is in its loop
    nt,       \* the napi thread: its task and where it is
    dev,      \* dev->threaded, whether napi->thread exists, netif_running
    wk,       \* tp->wk: task flags, and the work item's state
    adm,      \* the holder of rtnl: who, and where it is
    ksoftirqd_test,
    left      \* operations the bound still allows

netrx_vars == <<ring, ev, mask, status, napi, sd_list, gro, defer, timer,
                pending, sirq, pp, kd, nt, dev, wk, adm, ksoftirqd_test, left>>

hw   == <<ring, ev, mask>>
nap  == <<napi, sd_list, gro, defer, timer>>
soft == <<pending, sirq>>
ctl  == <<dev, wk, adm, ksoftirqd_test, left>>

(* SYSErr stands for the events of no interest to NAPI, LinkChg for the    *)
(* enabled ones other than RxOK (TxOK, TxErr, RxErr, RxOverflow, LinkChg). *)
Events == {"RxOK", "LinkChg", "SYSErr"}
irq_mask == {"RxOK", "LinkChg"}

NapiBits == {"SCHED", "MISSED", "DISABLE", "NPSVC", "THREADED", "SCHED_THREADED"}

(* TASKLET stands for every softirq but NET_RX. *)
Softirqs == {"NET_RX", "TASKLET"}

(* The bound: one of the Budget operations is used up. *)
Spend == left > 0 /\ left' = left - 1

NoSoftirq == [on |-> FALSE, owner |-> "other", todo |-> {}, rx_is_set |-> FALSE,
              restarts |-> 0, pc |-> "vec", list |-> FALSE, repoll |-> FALSE]
NoPoll == [ctx |-> "none", pc |-> "rx", work |-> 0]
Idle == [who |-> "none", pc |-> "idle"]

-----------------------------------------------------------------------------
(* softirq.c *)

in_interrupt == sirq.on \/ pp.ctx # "none"

wakeup_softirqd(k) == [k EXCEPT !.task = wake_up_process(k.task)]

(* Faulty: everything is taken, NET_RX included, and NET_RX is not run. *)
restart_drops_rx(s, p, test) ==
    IF test = 1 /\ s.owner # "ksoftirqd" /\ "NET_RX" \in p
    THEN [s |-> [s EXCEPT !.todo = p \ {"NET_RX"}, !.rx_is_set = TRUE], left |-> {}]
    ELSE [s |-> [s EXCEPT !.todo = p], left |-> {}]

(* The block at `restart:': NET_RX stays pending for ksoftirqd when the     *)
(* switch is on and another task is current, the rest is taken to be run.   *)
restart(s, p, test) ==
    IF test = 1 /\ s.owner # "ksoftirqd" /\ "NET_RX" \in p
    THEN [s |-> [s EXCEPT !.todo = p \ {"NET_RX"}, !.rx_is_set = TRUE],
          left |-> {"NET_RX"}]
    ELSE [s |-> [s EXCEPT !.todo = p], left |-> {}]

(* The entry of __do_softirq, for the task that is current. *)
do_softirq(owner, p) ==
    LET r == restart([NoSoftirq EXCEPT !.on = TRUE, !.owner = owner,
                                       !.restarts = MaxRestart], p, ksoftirqd_test)
    IN sirq' = r.s /\ pending' = r.left

(* On one CPU the interrupted task is any task that is runnable, or idle. *)
Current == {"other"} \cup (IF Runnable(kd.task) THEN {"ksoftirqd"} ELSE {})

(* irq_exit (and local_bh_enable): softirqs that are pending run on return. *)
irq_exit(p) ==
    IF ~in_interrupt /\ p # {}
    THEN \E owner \in Current : do_softirq(owner, p)
    ELSE pending' = p /\ UNCHANGED sirq

-----------------------------------------------------------------------------
(* NAPI *)

(* ____napi_schedule: to the napi thread in threaded mode, else onto the   *)
(* poll list, raising NET_RX.  `p' is the pending set before.              *)
____napi_schedule(n, p) ==
    IF "THREADED" \in n /\ dev.thread
    THEN [napi |-> IF nt.task.state # "TASK_INTERRUPTIBLE"
                   THEN n \cup {"SCHED_THREADED"} ELSE n,
          nt   |-> [nt EXCEPT !.task = wake_up_process(nt.task)],
          list |-> sd_list, pending |-> p]
    ELSE [napi |-> n, nt |-> nt, list |-> TRUE, pending |-> p \cup {"NET_RX"}]

napi_schedule_prep(n) ==
    CASE "DISABLE" \in n -> [ok |-> FALSE, napi |-> n]
      [] {"DISABLE", "SCHED"} \cap n = {"SCHED"} -> [ok |-> FALSE, napi |-> n \cup {"MISSED"}]
      [] OTHER -> [ok |-> TRUE, napi |-> n \cup {"SCHED"}]

rtl_schedule_task == wk' = [wk EXCEPT !.flags = @ \cup {"RESET_PENDING"},
                                      !.queued = TRUE]

(* rtl8169_interrupt up to the label out: reads the events, leaves a PCI   *)
(* error to the reset task, else schedules NAPI and masks the device.      *)
rtl8169_interrupt ==
    /\ status = {} /\ mask /\ ev \cap irq_mask # {}
    /\ status' = ev
    /\ IF "SYSErr" \in ev
       THEN rtl_schedule_task /\ UNCHANGED <<mask, napi, nt, sd_list, pending>>
       ELSE LET prep == napi_schedule_prep(napi) IN
            /\ UNCHANGED wk
            /\ IF prep.ok
               THEN LET s == ____napi_schedule(prep.napi, pending) IN
                    /\ mask' = FALSE
                    /\ napi' = s.napi /\ nt' = s.nt
                    /\ sd_list' = s.list /\ pending' = s.pending
               ELSE napi' = prep.napi /\ UNCHANGED <<mask, nt, sd_list, pending>>
    /\ UNCHANGED <<ring, ev, gro, defer, timer, sirq, pp, kd, dev, adm, ksoftirqd_test, left>>

(* rtl_ack_events(status), the return, and irq_exit. *)
rtl_ack_events ==
    /\ status # {}
    /\ ev' = ev \ status
    /\ status' = {}
    /\ irq_exit(pending)
    /\ UNCHANGED <<ring, mask, nap, pp, kd, nt, ctl>>

(* Another interrupt (a timer, say) raises another softirq. *)
other_interrupt ==
    /\ status = {} /\ Spend
    /\ "TASKLET" \notin pending
    /\ irq_exit(pending \cup {"TASKLET"})
    /\ UNCHANGED <<hw, status, nap, pp, kd, nt, dev, wk, adm, ksoftirqd_test>>

(* The hrtimer of napi_complete_done expires. *)
napi_watchdog ==
    /\ status = {} /\ timer
    /\ timer' = FALSE
    /\ IF {"DISABLE", "SCHED"} \cap napi = {}
       THEN LET s == ____napi_schedule(napi \cup {"SCHED"}, pending) IN
            /\ napi' = s.napi /\ nt' = s.nt /\ sd_list' = s.list
            /\ irq_exit(s.pending)
       ELSE UNCHANGED <<napi, nt, sd_list, soft>>
    /\ UNCHANGED <<hw, status, gro, defer, pp, kd, ctl>>

-----------------------------------------------------------------------------
(* The device *)

(* The chip writes a frame to the ring and sets RxOK. *)
frame_arrives ==
    /\ dev.chip /\ ring < RingSize
    /\ ring' = ring + 1
    /\ ev' = ev \cup {"RxOK"}
    /\ UNCHANGED <<mask, status, nap, soft, pp, kd, nt, ctl>>

other_event ==
    /\ dev.chip /\ Spend
    /\ \E e \in {"LinkChg", "SYSErr"} \ ev : ev' = ev \cup {e}
    /\ UNCHANGED <<ring, mask, status, nap, soft, pp, kd, nt, dev, wk, adm, ksoftirqd_test>>

-----------------------------------------------------------------------------
(* __do_softirq: the handlers, then the end with interrupts off *)

SoftirqStep == sirq.on /\ status = {} /\ pp.ctx = "none"

(* Every handler but net_rx_action: external, it does nothing to NAPI. *)
run_other_softirq ==
    /\ SoftirqStep /\ sirq.pc = "vec"
    /\ sirq.todo # {} /\ "NET_RX" \notin sirq.todo
    /\ sirq' = [sirq EXCEPT !.todo = {}]
    /\ UNCHANGED <<hw, status, nap, pending, pp, kd, nt, ctl>>

(* The end of the loop: ksoftirqd is woken for the NET_RX put back; other-  *)
(* wise what was raised meanwhile is run now, or left to ksoftirqd once the *)
(* time, the restarts or need_resched() say so.                             *)
softirq_end ==
    /\ SoftirqStep /\ sirq.pc = "vec" /\ sirq.todo = {}
    /\ \/ /\ sirq.rx_is_set
          /\ kd' = wakeup_softirqd(kd) /\ sirq' = NoSoftirq /\ UNCHANGED pending
       \/ /\ ~sirq.rx_is_set /\ pending = {}
          /\ sirq' = NoSoftirq /\ UNCHANGED <<kd, pending>>
       \/ /\ ~sirq.rx_is_set /\ pending # {}
          /\ kd' = wakeup_softirqd(kd) /\ sirq' = NoSoftirq /\ UNCHANGED pending
       \/ /\ ~sirq.rx_is_set /\ pending # {} /\ sirq.restarts > 1
          /\ LET r == restart([sirq EXCEPT !.restarts = @ - 1], pending, ksoftirqd_test)
             IN sirq' = r.s /\ pending' = r.left
          /\ UNCHANGED kd
    /\ UNCHANGED <<hw, status, nap, pp, nt, ctl>>

-----------------------------------------------------------------------------
(* net_rx_action *)

net_rx_splice ==
    /\ SoftirqStep /\ sirq.pc = "vec" /\ "NET_RX" \in sirq.todo
    /\ sd_list' = FALSE
    /\ sirq' = [sirq EXCEPT !.pc = "loop", !.list = sd_list, !.repoll = FALSE]
    /\ UNCHANGED <<hw, status, napi, gro, defer, timer, pending, pp, kd, nt, ctl>>

NetRxReturns(s) == [s EXCEPT !.pc = "vec", !.todo = @ \ {"NET_RX"},
                             !.list = FALSE, !.repoll = FALSE]

(* napi_poll on the first entry, or the end of the loop.  SCHED is tested   *)
(* before ->poll is called.                                                 *)
net_rx_loop ==
    /\ SoftirqStep /\ sirq.pc = "loop"
    /\ IF sirq.list
       THEN /\ sirq' = [sirq EXCEPT !.list = FALSE]
            /\ pp' = IF "SCHED" \in napi THEN [NoPoll EXCEPT !.ctx = "softirq"] ELSE NoPoll
       ELSE /\ sirq' = IF sirq.repoll THEN [sirq EXCEPT !.pc = "end"] ELSE NetRxReturns(sirq)
            /\ UNCHANGED pp
    /\ UNCHANGED <<hw, status, nap, pending, kd, nt, ctl>>

(* With interrupts off, what is left goes back to the CPU's poll list. *)
net_rx_end ==
    /\ SoftirqStep /\ sirq.pc = "end"
    /\ sd_list' = (sd_list \/ sirq.list \/ sirq.repoll)
    /\ pending' = IF sd_list' THEN pending \cup {"NET_RX"} ELSE pending
    /\ sirq' = NetRxReturns(sirq)
    /\ UNCHANGED <<hw, status, napi, gro, defer, timer, pp, kd, nt, ctl>>

-----------------------------------------------------------------------------
(* __napi_poll and rtl8169_poll, in a softirq or in the napi thread *)

PollStep(pc) == pp.ctx # "none" /\ pp.pc = pc /\ status = {}

(* The end of __napi_poll.  net_rx_action looks at its budget and its time  *)
(* limit; the napi thread enables softirqs, and polls again or waits.       *)
(* `p' and `t' are the pending set and the napi thread as they are now.     *)
PollReturns(repoll, p, t) ==
    /\ pp' = NoPoll
    /\ IF pp.ctx = "softirq"
       THEN /\ \E next \in {"loop", "end"} :
                  sirq' = [sirq EXCEPT !.pc = next, !.repoll = @ \/ repoll]
            /\ pending' = p /\ nt' = t
       ELSE /\ nt' = [t EXCEPT !.pc = IF repoll THEN "poll" ELSE "wait"]
            /\ IF p # {} THEN do_softirq("other", p) ELSE pending' = p /\ UNCHANGED sirq

(* Faulty: the descriptor is looked at and not passed. *)
rtl_rx_frame_kept ==
    /\ PollStep("rx") /\ ring > 0 /\ pp.work < Weight
    /\ pp' = [pp EXCEPT !.work = @ + 1]
    /\ gro' \in {gro, TRUE}
    /\ UNCHANGED <<hw, status, napi, sd_list, defer, timer, soft, kd, nt, ctl>>

(* One iteration of rtl_rx: a frame goes to a priority queue, the non-RT    *)
(* queue or the stack, which may keep it in GRO.                            *)
rtl_rx_frame ==
    /\ PollStep("rx") /\ ring > 0 /\ pp.work < Weight
    /\ ring' = ring - 1
    /\ pp' = [pp EXCEPT !.work = @ + 1]
    /\ gro' \in {gro, TRUE}
    /\ UNCHANGED <<ev, mask, status, napi, sd_list, defer, timer, soft, kd, nt, ctl>>

(* rtl_rx returns: the next descriptor is the chip's, or the budget is used. *)
rtl_rx_return ==
    /\ PollStep("rx") /\ (ring = 0 \/ pp.work = Weight)
    /\ pp' = [pp EXCEPT !.pc = IF pp.work < Weight THEN "complete" ELSE "spent"]
    /\ UNCHANGED <<hw, status, nap, soft, kd, nt, ctl>>

(* napi_complete_done after a poll that did work w. *)
DeferCount(w) == IF w > 0 THEN napi_defer_hard_irqs ELSE defer
KeepTimeout(w) == gro_flush_timeout /\ ((w > 0 /\ gro) \/ DeferCount(w) > 0)

(* Faulty: the deferral count is decremented below zero. *)
DeferLeft_underflow(w) == DeferCount(w) - 1

DeferLeft(w) == IF DeferCount(w) > 0 THEN DeferCount(w) - 1 ELSE 0

(* Faulty: the timer is started only when interrupts are deferred. *)
StartsTimer_defer_only(w, n) == KeepTimeout(w) /\ DeferCount(w) > 1 /\ "MISSED" \notin n

StartsTimer(w, n) == KeepTimeout(w) /\ "MISSED" \notin n

(* The device may be unmasked. *)
Completes(w, n) == "MISSED" \notin n /\ ~(DeferCount(w) > 0 /\ gro_flush_timeout)

(* A napi an interrupt found scheduled stays scheduled.  (A napi with NPSVC *)
(* set, one napi_disable owns, is refused: SingleOwner says it is never     *)
(* polled.)                                                                 *)
CompletedState(n) == (n \ {"MISSED", "SCHED", "SCHED_THREADED"})
                     \cup (IF "MISSED" \in n THEN {"SCHED"} ELSE {})

(* napi_complete_done, with the reschedule a missed interrupt asks for; the *)
(* driver's poll may then enable the device.                                *)
napi_complete_done(w, enable) ==
    LET missed == "MISSED" \in napi
        s == ____napi_schedule(CompletedState(napi), pending)
    IN  /\ defer' = DeferLeft(w)
        /\ timer' = (timer \/ StartsTimer(w, napi))
        /\ gro' \in (IF KeepTimeout(w) THEN {gro, FALSE} ELSE {FALSE})
        /\ napi' = IF missed THEN s.napi ELSE CompletedState(napi)
        /\ sd_list' = IF missed THEN s.list ELSE sd_list
        /\ IF enable /\ Completes(w, napi)
           THEN pp' = [pp EXCEPT !.pc = "enable"] /\ UNCHANGED <<sirq, pending, nt>>
           ELSE IF missed THEN PollReturns(FALSE, s.pending, s.nt)
                          ELSE PollReturns(FALSE, pending, nt)

(* rtl8169_poll below its budget: napi_complete_done. *)
rtl8169_poll_complete ==
    /\ PollStep("complete")
    /\ napi_complete_done(pp.work, TRUE)
    /\ UNCHANGED <<hw, status, kd, ctl>>

(* Faulty: the device stays masked when NAPI is done. *)
rtl_irq_enable_skipped ==
    /\ PollStep("enable")
    /\ PollReturns(FALSE, pending, nt)
    /\ UNCHANGED <<hw, status, nap, kd, ctl>>

rtl_irq_enable ==
    /\ PollStep("enable")
    /\ mask' = TRUE
    /\ PollReturns(FALSE, pending, nt)
    /\ UNCHANGED <<ring, ev, status, nap, kd, ctl>>

(* __napi_poll when the weight is used up: NAPI is completed if it is being *)
(* disabled, else it is polled again.                                       *)
napi_poll_spent ==
    /\ PollStep("spent")
    /\ IF "DISABLE" \in napi
       THEN napi_complete_done(0, FALSE)
       ELSE /\ gro' \in {gro, FALSE}
            /\ PollReturns(TRUE, pending, nt)
            /\ UNCHANGED <<napi, sd_list, defer, timer>>
    /\ UNCHANGED <<hw, status, kd, ctl>>

-----------------------------------------------------------------------------
(* Threads: ksoftirqd and the napi thread *)

Thread == ~sirq.on /\ pp.ctx = "none" /\ status = {}

(* smpboot_thread_fn (external): set TASK_INTERRUPTIBLE, ask                *)
(* ksoftirqd_should_run, then sleep or run.                                 *)
ksoftirqd_should_run ==
    /\ Thread /\ Runnable(kd.task) /\ kd.pc = "test"
    /\ kd' = IF pending # {}
             THEN [task |-> set_current_state(kd.task, "TASK_RUNNING"), pc |-> "run"]
             ELSE [task |-> set_current_state(kd.task, "TASK_INTERRUPTIBLE"), pc |-> "sleep"]
    /\ UNCHANGED <<hw, status, nap, soft, pp, nt, ctl>>

ksoftirqd_sleep ==
    /\ Thread /\ Runnable(kd.task) /\ kd.pc = "sleep"
    /\ kd' = [task |-> schedule(kd.task), pc |-> "test"]
    /\ UNCHANGED <<hw, status, nap, soft, pp, nt, ctl>>

run_ksoftirqd ==
    /\ Thread /\ Runnable(kd.task) /\ kd.pc = "run"
    /\ kd' = [kd EXCEPT !.pc = "test"]
    /\ IF pending # {} THEN do_softirq("ksoftirqd", pending) ELSE UNCHANGED soft
    /\ UNCHANGED <<hw, status, nap, pp, nt, ctl>>

NapiThread(pc) == Thread /\ dev.thread /\ Runnable(nt.task) /\ nt.pc = pc

(* napi_thread_wait: TASK_INTERRUPTIBLE is set before the bit is tested. *)
napi_thread_arm ==
    /\ NapiThread("wait")
    /\ nt' = [nt EXCEPT !.task = set_current_state(@, "TASK_INTERRUPTIBLE"), !.pc = "test"]
    /\ UNCHANGED <<hw, status, nap, soft, pp, kd, ctl>>

(* Faulty: the thread polls when SCHED is set, whoever set it. *)
napi_thread_test_sched ==
    /\ NapiThread("test")
    /\ nt' = IF "SCHED" \in napi
             THEN [task |-> set_current_state(nt.task, "TASK_RUNNING"), pc |-> "poll"]
             ELSE [nt EXCEPT !.pc = "sleep"]
    /\ UNCHANGED <<hw, status, nap, soft, pp, kd, ctl>>

napi_thread_test ==
    /\ NapiThread("test")
    /\ nt' = IF "SCHED_THREADED" \in napi
             THEN [task |-> set_current_state(nt.task, "TASK_RUNNING"), pc |-> "poll"]
             ELSE [nt EXCEPT !.pc = "sleep"]
    /\ UNCHANGED <<hw, status, nap, soft, pp, kd, ctl>>

(* schedule() in napi_thread_wait. *)
napi_thread_sleep ==
    /\ NapiThread("sleep")
    /\ nt' = [task |-> schedule(nt.task), pc |-> "woken"]
    /\ UNCHANGED <<hw, status, nap, soft, pp, kd, ctl>>

(* schedule() has returned: woken is set, so that the next test of the loop *)
(* lets the thread poll whatever the bit says.                              *)
napi_thread_woken ==
    /\ NapiThread("woken")
    /\ nt' = [task |-> set_current_state(nt.task, "TASK_RUNNING"), pc |-> "poll"]
    /\ UNCHANGED <<hw, status, nap, soft, pp, kd, ctl>>

(* napi_threaded_poll: with softirqs disabled, __napi_poll. *)
napi_threaded_poll ==
    /\ NapiThread("poll")
    /\ IF "SCHED" \in napi
       THEN pp' = [NoPoll EXCEPT !.ctx = "thread"] /\ UNCHANGED nt
       ELSE nt' = [nt EXCEPT !.pc = "wait"] /\ UNCHANGED pp
    /\ UNCHANGED <<hw, status, nap, soft, kd, ctl>>

-----------------------------------------------------------------------------
(* rtnl holders: open, close and the reset task, and the sysfs switches *)

Rtnl(pc) == Thread /\ adm.pc = pc /\ adm.who # "none"
Rest == <<ring, gro, defer, pp, status, soft, kd, nt, ksoftirqd_test>>
Same == <<Rest, left>>

(* rtl_open to the call of rtl8169_up, which enables NAPI and the task and *)
(* goes on with rtl_reset_work.                                            *)
rtl8169_up ==
    /\ Thread /\ adm.who = "none" /\ ~dev.running
    /\ dev' = [dev EXCEPT !.running = TRUE]
    /\ napi' = (napi \ {"SCHED", "NPSVC"})
               \cup (IF dev.threaded /\ dev.thread THEN {"THREADED"} ELSE {})
    /\ wk' = [wk EXCEPT !.flags = @ \cup {"ENABLED"}]
    /\ adm' = [who |-> "open", pc |-> "disable"]
    /\ UNCHANGED <<Same, ev, mask, sd_list, timer>>

(* rtl8169_close and rtl8169_down, to the call of rtl8169_cleanup. *)
rtl8169_down ==
    /\ Thread /\ adm.who = "none" /\ dev.running /\ Spend
    /\ dev' = [dev EXCEPT !.running = FALSE]
    /\ wk' = [wk EXCEPT !.flags = {}]
    /\ adm' = [who |-> "close", pc |-> "disable"]
    /\ UNCHANGED <<Rest, ev, mask, nap>>

(* A worker takes the queued work item and calls rtl_task. *)
worker_takes ==
    /\ Thread /\ wk.queued /\ ~wk.active
    /\ wk' = [wk EXCEPT !.queued = FALSE, !.active = TRUE]
    /\ UNCHANGED <<Same, ev, mask, nap, dev, adm>>

(* rtl_task, once it has rtnl: the reset, or nothing. *)
rtl_task ==
    /\ Thread /\ wk.active /\ adm.who = "none"
    /\ IF dev.running /\ {"ENABLED", "RESET_PENDING"} \subseteq wk.flags
       THEN /\ wk' = [wk EXCEPT !.flags = @ \ {"RESET_PENDING"}]
            /\ adm' = [who |-> "worker", pc |-> "disable"]
       ELSE wk' = [wk EXCEPT !.active = FALSE] /\ UNCHANGED adm
    /\ UNCHANGED <<Same, ev, mask, nap, dev>>

napi_disable_begin ==
    /\ Rtnl("disable")
    /\ napi' = napi \cup {"DISABLE"}
    /\ adm' = [adm EXCEPT !.pc = "wait"]
    /\ UNCHANGED <<Same, ev, mask, sd_list, timer, dev, wk>>

(* The msleep loop of napi_disable ends when SCHED is taken from nobody;    *)
(* then NPSVC, the timer and the bits.                                      *)
napi_disable ==
    /\ Rtnl("wait") /\ "SCHED" \notin napi
    /\ napi' = (napi \cup {"SCHED", "NPSVC"}) \ {"DISABLE", "THREADED"}
    /\ timer' = FALSE
    /\ adm' = [adm EXCEPT !.pc = "mask"]
    /\ UNCHANGED <<Same, ev, mask, sd_list, dev, wk>>

(* The rest of rtl8169_cleanup: rtl8169_irq_mask_and_ack, the reset of the  *)
(* chip and of the ring indexes.  The descriptors go back to the chip (or,  *)
(* in rtl8169_close, are freed).                                            *)
rtl8169_cleanup ==
    /\ Rtnl("mask")
    /\ mask' = FALSE /\ ev' = {} /\ ring' = 0
    /\ dev' = [dev EXCEPT !.chip = FALSE]
    /\ adm' = [adm EXCEPT !.pc = IF adm.who = "close" THEN "cancel" ELSE "enable"]
    /\ UNCHANGED <<status, nap, soft, pp, kd, nt, wk, ksoftirqd_test, left>>

napi_enable ==
    /\ Rtnl("enable")
    /\ napi' = (napi \ {"SCHED", "NPSVC"})
               \cup (IF dev.threaded /\ dev.thread THEN {"THREADED"} ELSE {})
    /\ adm' = [adm EXCEPT !.pc = "start"]
    /\ UNCHANGED <<Same, ev, mask, sd_list, timer, dev, wk>>

(* rtl_hw_start, which ends in rtl_irq_enable; rtnl is released. *)
rtl_hw_start ==
    /\ Rtnl("start")
    /\ dev' = [dev EXCEPT !.chip = TRUE]
    /\ mask' = TRUE
    /\ adm' = Idle
    /\ wk' = IF adm.who = "worker" THEN [wk EXCEPT !.active = FALSE] ELSE wk
    /\ UNCHANGED <<Same, ev, nap>>

(* cancel_work_sync in rtl8169_close takes a queued item away and waits for *)
(* one that runs - with rtnl held.                                          *)
cancel_work_sync ==
    /\ Rtnl("cancel") /\ ~wk.active
    /\ wk' = [wk EXCEPT !.queued = FALSE]
    /\ adm' = Idle
    /\ UNCHANGED <<Same, ev, mask, nap, dev>>

(* dev_set_threaded, from sysfs under rtnl; the thread may not be created. *)
dev_set_threaded ==
    /\ Thread /\ adm.who = "none" /\ Spend
    /\ \E created \in (IF ~dev.threaded /\ ~dev.thread THEN BOOLEAN ELSE {dev.thread}) :
         LET on == ~dev.threaded /\ created IN
         /\ dev' = [dev EXCEPT !.threaded = on, !.thread = created]
         /\ nt' = IF created /\ ~dev.thread
                  THEN [task |-> kthread_run, pc |-> "wait"] ELSE nt
         /\ napi' = IF on THEN napi \cup {"THREADED"} ELSE napi \ {"THREADED"}
    /\ UNCHANGED <<hw, status, sd_list, gro, defer, timer, soft, pp, kd, wk, adm, ksoftirqd_test>>

(* The parameter is written through /sys/module. *)
set_ksoftirqd_test ==
    /\ Thread /\ Spend
    /\ ksoftirqd_test' = 1 - ksoftirqd_test
    /\ UNCHANGED <<hw, status, nap, soft, pp, kd, nt, dev, wk, adm>>

-----------------------------------------------------------------------------
(* The specification *)

(* After netif_napi_add and before the first open. *)
Init ==
    /\ ring = 0 /\ ev = {} /\ mask = FALSE /\ status = {}
    /\ napi = {"SCHED", "NPSVC"} /\ sd_list = FALSE /\ gro = FALSE
    /\ defer = 0 /\ timer = FALSE /\ pending = {} /\ sirq = NoSoftirq /\ pp = NoPoll
    /\ kd = [task |-> kthread_run, pc |-> "test"]
    /\ nt = [task |-> NoTask, pc |-> "wait"]
    /\ dev = [threaded |-> FALSE, thread |-> FALSE, running |-> FALSE, chip |-> FALSE]
    /\ wk = [flags |-> {}, queued |-> FALSE, active |-> FALSE]
    /\ adm = Idle
    /\ ksoftirqd_test \in 0 .. 1
    /\ left = Budget

Interrupt == rtl8169_interrupt \/ rtl_ack_events \/ napi_watchdog
SoftirqRun == run_other_softirq \/ softirq_end \/ net_rx_splice \/ net_rx_loop \/ net_rx_end
NapiPoll == rtl_rx_frame \/ rtl_rx_return \/ rtl8169_poll_complete \/ rtl_irq_enable
            \/ napi_poll_spent
Ksoftirqd == ksoftirqd_should_run \/ ksoftirqd_sleep \/ run_ksoftirqd
NapiThreadStep == napi_thread_arm \/ napi_thread_test \/ napi_thread_sleep
                  \/ napi_thread_woken \/ napi_threaded_poll
RtnlHolder == napi_disable_begin \/ napi_disable \/ rtl8169_cleanup \/ napi_enable
              \/ rtl_hw_start \/ cancel_work_sync
Worker == worker_takes \/ rtl_task

Next == Interrupt \/ other_interrupt \/ frame_arrives \/ other_event \/ SoftirqRun \/ NapiPoll
        \/ Ksoftirqd \/ NapiThreadStep \/ RtnlHolder \/ Worker
        \/ rtl8169_up \/ rtl8169_down \/ dev_set_threaded \/ set_ksoftirqd_test

Spec == Init /\ [][Next]_netrx_vars

(* A pending interrupt is taken, and interrupts leave the CPU time for      *)
(* softirqs and for the runnable threads.   Frames, other interrupts and    *)
(* the administrator owe nothing.                                           *)
Fairness == /\ WF_netrx_vars(Interrupt)
            /\ SF_netrx_vars(SoftirqRun \/ NapiPoll)
            /\ SF_netrx_vars(Ksoftirqd)
            /\ SF_netrx_vars(NapiThreadStep \/ RtnlHolder \/ Worker)

FairSpec == Spec /\ Fairness

-----------------------------------------------------------------------------
(* Properties *)

(* Every variable stays in its range: no more than RingSize frames in the   *)
(* ring, no deferral count below zero or above napi_defer_hard_irqs.        *)
TypeOK ==
    /\ ring \in 0 .. RingSize
    /\ ev \subseteq Events /\ status \subseteq Events /\ mask \in BOOLEAN
    /\ napi \subseteq NapiBits
    /\ {sd_list, gro, timer} \subseteq BOOLEAN
    /\ defer \in 0 .. napi_defer_hard_irqs
    /\ pending \subseteq Softirqs
    /\ sirq \in [on : BOOLEAN, owner : {"ksoftirqd", "other"}, todo : SUBSET Softirqs,
                 rx_is_set : BOOLEAN, restarts : 0 .. MaxRestart,
                 pc : {"vec", "loop", "end"}, list : BOOLEAN, repoll : BOOLEAN]
    /\ pp \in [ctx : {"none", "softirq", "thread"},
               pc : {"rx", "complete", "enable", "spent"}, work : 0 .. Weight]
    /\ kd.task \in Tasks /\ kd.pc \in {"test", "sleep", "run"}
    /\ nt.task \in Tasks
    /\ nt.pc \in {"wait", "test", "sleep", "woken", "poll"}
    /\ dev \in [threaded : BOOLEAN, thread : BOOLEAN, running : BOOLEAN, chip : BOOLEAN]
    /\ wk \in [flags : SUBSET {"ENABLED", "RESET_PENDING"}, queued : BOOLEAN, active : BOOLEAN]
    /\ adm \in [who : {"none", "open", "close", "worker"},
                pc : {"idle", "disable", "wait", "mask", "enable", "start", "cancel"}]
    /\ ksoftirqd_test \in 0 .. 1 /\ left \in 0 .. Budget

(* The napi thread will poll: it was handed the napi, by the bit or by a    *)
(* wakeup it will see as such.  After its own napi_complete_done it may     *)
(* only have been given the bit again.                                      *)
ThreadOwns ==
    /\ dev.thread
    /\ IF pp.ctx = "thread" THEN pp.pc = "enable" /\ "SCHED_THREADED" \in napi
       ELSE \/ "SCHED_THREADED" \in napi
            \/ nt.pc = "poll"
            \/ nt.pc = "woken" /\ nt.task.on_rq
            \/ nt.pc \in {"test", "sleep"} /\ nt.task.state = "TASK_RUNNING"

Owners == {o \in {"sd_list", "list", "repoll", "poll", "disabled", "thread"} :
             \/ o = "sd_list" /\ sd_list
             \/ o = "list" /\ sirq.list
             \/ o = "repoll" /\ sirq.repoll
             \/ o = "poll" /\ pp.ctx # "none" /\ pp.pc # "enable"
             \/ o = "disabled" /\ "NPSVC" \in napi
             \/ o = "thread" /\ ThreadOwns}

(* NAPI_STATE_SCHED is a lock: while it is set the napi has exactly one     *)
(* owner - this CPU's poll list, net_rx_action's own lists, a poll, the     *)
(* napi thread, or napi_disable - and while it is clear it has none.  So    *)
(* the rings are never cleaned up under a poll, the thread never polls a    *)
(* napi that is on a list (the WARN_ON of napi_thread_wait), and a napi     *)
(* marked scheduled is never forgotten.                                     *)
SingleOwner == Cardinality(Owners) = (IF "SCHED" \in napi THEN 1 ELSE 0)

(* A pending softirq has someone to run it, and a napi on the poll list a   *)
(* NET_RX: outside softirqs ksoftirqd is awake and will look, also when     *)
(* ksoftirqd_test has put NET_RX back behind the back of raise_softirq.     *)
SoftirqHandled ==
    /\ pending # {} /\ ~in_interrupt /\ status = {}
          => /\ kd.task.on_rq
             /\ kd.pc = "sleep" => kd.task.state = "TASK_RUNNING"
    /\ sd_list => \/ "NET_RX" \in pending
                  \/ sirq.pc = "vec" /\ "NET_RX" \in sirq.todo

(* A frame in the ring of a running device is never stranded between the    *)
(* last look at the ring and the unmasking of the device: an interrupt is   *)
(* due or being handled, the poll is scheduled, the timer that ends the     *)
(* deferral runs, or a reset will throw the frame away.                     *)
NothingStranded ==
    dev.chip /\ ring > 0 =>
        \/ mask /\ ev \cap irq_mask # {}
        \/ status # {} \/ "SCHED" \in napi \/ pp.ctx # "none" \/ timer
        \/ adm.who # "none" \/ "RESET_PENDING" \in wk.flags

GroCovered == gro => "SCHED" \in napi \/ timer

(* Packets GRO keeps are flushed by a later poll: no step but those of a    *)
(* reset or a close (napi_disable cancels the timer) leaves them without a  *)
(* scheduled poll or an armed timer.                                        *)
GroTimed == [][GroCovered => GroCovered' \/ adm.who # "none" \/ adm' # adm]_netrx_vars

(* The ring makes progress: it does not stay as it is while it holds frames *)
(* and the device is up, whichever way ksoftirqd_test and threaded mode are *)
(* switched.                                                                *)
RxProgress == \A k \in 1 .. RingSize :
                 (ring = k /\ dev.chip) ~> (ring # k \/ ~dev.chip)

(* ndo_stop returns: what netdevice.h says of the call presumes it.         *)
CloseReturns == adm.who = "close" ~> adm.who # "close"
=============================================================================
