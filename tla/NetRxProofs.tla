----------------------------- MODULE NetRxProofs -----------------------------
(***************************************************************************)
(* The safety properties of NetRx for every ring size, weight, number of   *)
(* restarts and setting of the deferral of interrupts.                     *)
(***************************************************************************)
EXTENDS NetRx, KthreadProofs, FiniteSetTheorems, TLAPS

SoftirqRecords ==
    [on : BOOLEAN, owner : {"ksoftirqd", "other"}, todo : SUBSET Softirqs,
     rx_is_set : BOOLEAN, restarts : 0 .. MaxRestart,
     pc : {"vec", "loop", "end"}, list : BOOLEAN, repoll : BOOLEAN]

PollRecords == [ctx : {"none", "softirq", "thread"},
                pc : {"rx", "complete", "enable", "spent"}, work : 0 .. Weight]

KsoftirqdRecords == [task : Tasks, pc : {"test", "sleep", "run"}]
NapiThreadRecords == [task : Tasks, pc : {"wait", "test", "sleep", "woken", "poll"}]

(* The types, by the groups of variables that the actions leave alone. *)
HwTypes == ring \in 0 .. RingSize /\ ev \in SUBSET Events /\ mask \in BOOLEAN
NapTypes == /\ napi \in SUBSET NapiBits /\ sd_list \in BOOLEAN /\ gro \in BOOLEAN
            /\ defer \in 0 .. napi_defer_hard_irqs /\ timer \in BOOLEAN
SoftTypes == pending \in SUBSET Softirqs /\ sirq \in SoftirqRecords
ThreadTypes == kd \in KsoftirqdRecords /\ nt \in NapiThreadRecords
CtlTypes ==
    /\ dev \in [threaded : BOOLEAN, thread : BOOLEAN, running : BOOLEAN, chip : BOOLEAN]
    /\ wk \in [flags : SUBSET {"ENABLED", "RESET_PENDING"}, queued : BOOLEAN, active : BOOLEAN]
    /\ adm \in [who : {"none", "open", "close", "worker"},
                pc : {"idle", "disable", "wait", "mask", "enable", "start", "cancel"}]
    /\ ksoftirqd_test \in 0 .. 1 /\ left \in 0 .. Budget

Types == /\ HwTypes /\ status \in SUBSET Events /\ NapTypes /\ SoftTypes /\ pp \in PollRecords
         /\ ThreadTypes /\ CtlTypes

(* The idle values. *)
LEMMA IdleRecords ==
    /\ NoSoftirq \in SoftirqRecords /\ NoPoll \in PollRecords
    /\ ~NoSoftirq.on /\ NoSoftirq.todo = {} /\ NoSoftirq.pc = "vec"
    /\ ~NoSoftirq.list /\ ~NoSoftirq.repoll /\ ~NoSoftirq.rx_is_set
    /\ NoPoll.ctx = "none" /\ NoPoll.pc = "rx" /\ NoPoll.work = 0
<1>1. 0 \in 0 .. MaxRestart /\ 0 \in 0 .. Weight
  BY NetRxAssumption
<1> QED BY <1>1 DEF NoSoftirq, NoPoll, SoftirqRecords, PollRecords

(* restart: everything pending is taken to be run, or stays pending. *)
LEMMA Restart ==
    ASSUME NEW s \in SoftirqRecords, NEW p \in SUBSET Softirqs, NEW test
    PROVE  \E u \in SoftirqRecords, l \in SUBSET Softirqs :
              /\ restart(s, p, test).s = u /\ restart(s, p, test).left = l
              /\ u.on = s.on /\ u.pc = s.pc /\ u.list = s.list /\ u.repoll = s.repoll
              /\ p = u.todo \cup l
<1>1. CASE test = 1 /\ s.owner # "ksoftirqd" /\ "NET_RX" \in p
  <2> DEFINE u == [s EXCEPT !.todo = p \ {"NET_RX"}, !.rx_is_set = TRUE]
  <2>1. restart(s, p, test) = [s |-> u, left |-> {"NET_RX"}]
    BY <1>1 DEF restart
  <2>2. /\ u \in SoftirqRecords /\ u.on = s.on /\ u.owner = s.owner /\ u.pc = s.pc
        /\ u.list = s.list /\ u.repoll = s.repoll /\ u.todo = p \ {"NET_RX"} /\ u.rx_is_set = TRUE
    BY DEF SoftirqRecords
  <2> HIDE DEF u
  <2>3. p = u.todo \cup {"NET_RX"} /\ {"NET_RX"} \in SUBSET Softirqs
    BY <1>1, <2>2 DEF Softirqs
  <2> QED BY <2>1, <2>2, <2>3
<1>2. CASE ~(test = 1 /\ s.owner # "ksoftirqd" /\ "NET_RX" \in p)
  <2> DEFINE u == [s EXCEPT !.todo = p]
  <2>1. restart(s, p, test) = [s |-> u, left |-> {}]
    BY <1>2 DEF restart
  <2>2. /\ u \in SoftirqRecords /\ u.on = s.on /\ u.owner = s.owner /\ u.pc = s.pc
        /\ u.list = s.list /\ u.repoll = s.repoll /\ u.todo = p
    BY DEF SoftirqRecords
  <2> HIDE DEF u
  <2>3. p = u.todo \cup {} /\ {} \in SUBSET Softirqs
    BY <2>2
  <2> QED BY <2>1, <2>2, <2>3
<1> QED BY <1>1, <1>2

(* What do_softirq leaves: a softirq at its first vector. *)
Entered(p) ==
    /\ sirq' \in SoftirqRecords /\ pending' \in SUBSET Softirqs
    /\ sirq'.on /\ sirq'.pc = "vec" /\ ~sirq'.list /\ ~sirq'.repoll
    /\ p = sirq'.todo \cup pending'

LEMMA DoSoftirq ==
    ASSUME NEW owner \in {"ksoftirqd", "other"}, NEW p \in SUBSET Softirqs, do_softirq(owner, p)
    PROVE  Entered(p)
<1> DEFINE u == [NoSoftirq EXCEPT !.on = TRUE, !.owner = owner, !.restarts = MaxRestart]
           r == restart(u, p, ksoftirqd_test)
<1>1. u \in SoftirqRecords /\ u.on = TRUE /\ u.pc = "vec" /\ u.list = FALSE /\ u.repoll = FALSE
  <2>1. MaxRestart \in 0 .. MaxRestart
    BY NetRxAssumption
  <2> QED BY <2>1 DEF SoftirqRecords, NoSoftirq
<1> HIDE DEF u
<1>2. PICK v \in SoftirqRecords, l \in SUBSET Softirqs :
         /\ r.s = v /\ r.left = l /\ p = v.todo \cup l
         /\ v.on = u.on /\ v.pc = u.pc /\ v.list = u.list /\ v.repoll = u.repoll
  BY <1>1, Restart
<1>3. sirq' = r.s /\ pending' = r.left
  BY DEF do_softirq, u
<1> HIDE DEF r
<1> QED BY <1>1, <1>2, <1>3 DEF Entered

LEMMA IrqExit ==
    ASSUME NEW p \in SUBSET Softirqs, irq_exit(p)
    PROVE  \/ ~in_interrupt /\ p # {} /\ Entered(p)
           \/ (in_interrupt \/ p = {}) /\ pending' = p /\ sirq' = sirq
<1>1. Current \subseteq {"ksoftirqd", "other"}
  BY DEF Current
<1>2. CASE ~in_interrupt /\ p # {}
  <2>1. PICK owner \in Current : do_softirq(owner, p)
    BY <1>2 DEF irq_exit
  <2> QED BY <1>1, <1>2, <2>1, DoSoftirq
<1>3. CASE ~(~in_interrupt /\ p # {})
  BY <1>3 DEF irq_exit
<1> QED BY <1>2, <1>3

(* ____napi_schedule hands the napi to its thread, by the bit or by waking  *)
(* it, or puts it on the poll list.                                         *)
LEMMA NapiSchedule ==
    ASSUME Types, NEW n \in SUBSET NapiBits, NEW p \in SUBSET Softirqs
    PROVE  LET r == ____napi_schedule(n, p) IN
           /\ r.napi \in SUBSET NapiBits /\ r.nt \in NapiThreadRecords /\ r.list \in BOOLEAN
           /\ r.pending \in SUBSET Softirqs /\ r.nt.pc = nt.pc
           /\ \/ /\ dev.thread /\ "THREADED" \in n /\ nt.task.state # "TASK_INTERRUPTIBLE"
                 /\ r.napi = n \cup {"SCHED_THREADED"} /\ r.list = sd_list /\ r.pending = p
                 /\ r.nt.task = wake_up_process(nt.task)
              \/ /\ dev.thread /\ nt.task.state = "TASK_INTERRUPTIBLE"
                 /\ r.napi = n /\ r.list = sd_list /\ r.pending = p
                 /\ r.nt.task.state = "TASK_RUNNING" /\ r.nt.task.on_rq
              \/ /\ r.napi = n /\ r.list = TRUE /\ r.pending = p \cup {"NET_RX"} /\ r.nt = nt
<1> DEFINE w == [nt EXCEPT !.task = wake_up_process(nt.task)]
<1>1. nt \in NapiThreadRecords /\ nt.task \in Tasks /\ sd_list \in BOOLEAN
  BY DEF Types, ThreadTypes, NapTypes, NapiThreadRecords
<1>2. wake_up_process(nt.task) \in Tasks
  BY <1>1, WakeUp
<1>3. w \in NapiThreadRecords /\ w.pc = nt.pc /\ w.task = wake_up_process(nt.task)
  BY <1>1, <1>2 DEF NapiThreadRecords
<1>4. "SCHED_THREADED" \in NapiBits /\ "NET_RX" \in Softirqs
  BY DEF NapiBits, Softirqs
<1> HIDE DEF w
<1>5. CASE "THREADED" \in n /\ dev.thread /\ nt.task.state # "TASK_INTERRUPTIBLE"
  <2>1. ____napi_schedule(n, p) =
           [napi |-> n \cup {"SCHED_THREADED"}, nt |-> w, list |-> sd_list, pending |-> p]
    BY <1>5 DEF ____napi_schedule, w
  <2> QED BY <1>1, <1>3, <1>4, <1>5, <2>1
<1>6. CASE "THREADED" \in n /\ dev.thread /\ nt.task.state = "TASK_INTERRUPTIBLE"
  <2>1. ____napi_schedule(n, p) = [napi |-> n, nt |-> w, list |-> sd_list, pending |-> p]
    BY <1>6 DEF ____napi_schedule, w
  <2>2. w.task.state = "TASK_RUNNING" /\ w.task.on_rq
    <3>1. nt.task.state \in TASK_NORMAL
      BY <1>6 DEF TASK_NORMAL
    <3>2. wake_up_process(nt.task).state = "TASK_RUNNING" /\ wake_up_process(nt.task).on_rq = TRUE
      BY <1>1, <3>1, WakeUp
    <3> QED BY <1>3, <3>2
  <2> QED BY <1>1, <1>3, <1>6, <2>1, <2>2
<1>7. CASE ~("THREADED" \in n /\ dev.thread)
  <2>1. ____napi_schedule(n, p) = [napi |-> n, nt |-> nt, list |-> TRUE, pending |-> p \cup {"NET_RX"}]
    BY <1>7 DEF ____napi_schedule
  <2> QED BY <1>1, <1>4, <2>1
<1> QED BY <1>5, <1>6, <1>7

(* It never clears a bit. *)
LEMMA ScheduleKeepsBits ==
    ASSUME NEW n, NEW p
    PROVE  n \subseteq ____napi_schedule(n, p).napi
<1>1. CASE "THREADED" \in n /\ dev.thread /\ nt.task.state # "TASK_INTERRUPTIBLE"
  BY <1>1 DEF ____napi_schedule
<1>2. CASE ~("THREADED" \in n /\ dev.thread /\ nt.task.state # "TASK_INTERRUPTIBLE")
  BY <1>2 DEF ____napi_schedule
<1> QED BY <1>1, <1>2

(* The end of a poll, in a softirq or in the napi thread. *)
Returned(repoll, p, t) ==
    /\ pp' = NoPoll
    /\ \/ /\ pp.ctx = "softirq" /\ pending' = p /\ nt' = t
          /\ sirq' \in SoftirqRecords /\ sirq'.on = sirq.on /\ sirq'.todo = sirq.todo
          /\ sirq'.list = sirq.list /\ sirq'.pc \in {"loop", "end"}
          /\ sirq'.repoll <=> (sirq.repoll \/ repoll)
       \/ /\ pp.ctx = "thread" /\ nt' \in NapiThreadRecords /\ nt'.task = t.task
          /\ nt'.pc = IF repoll THEN "poll" ELSE "wait"
          /\ \/ Entered(p)
             \/ p = {} /\ pending' = {} /\ sirq' = sirq

LEMMA PollReturned ==
    ASSUME Types, pp.ctx # "none", NEW repoll \in BOOLEAN, NEW p \in SUBSET Softirqs,
           NEW t \in NapiThreadRecords, PollReturns(repoll, p, t)
    PROVE  Returned(repoll, p, t)
<1>1. pp' = NoPoll
  BY DEF PollReturns
<1>2. CASE pp.ctx = "softirq"
  <2>1. PICK next \in {"loop", "end"} : sirq' = [sirq EXCEPT !.pc = next, !.repoll = @ \/ repoll]
    BY <1>2 DEF PollReturns
  <2>2. sirq \in SoftirqRecords /\ (sirq.repoll \/ repoll) \in BOOLEAN
    BY DEF Types, SoftTypes, SoftirqRecords
  <2> DEFINE b == sirq.repoll \/ repoll
  <2>3. sirq' = [sirq EXCEPT !.pc = next, !.repoll = b]
    BY <2>1
  <2> HIDE DEF b
  <2>4. /\ sirq' \in SoftirqRecords /\ sirq'.on = sirq.on /\ sirq'.todo = sirq.todo
        /\ sirq'.list = sirq.list /\ sirq'.pc \in {"loop", "end"} /\ sirq'.repoll = b
    BY <2>2, <2>3 DEF SoftirqRecords, b
  <2>5. pending' = p /\ nt' = t
    BY <1>2 DEF PollReturns
  <2> QED BY <1>1, <1>2, <2>4, <2>5 DEF Returned, b
<1>3. CASE pp.ctx # "softirq"
  <2>1. pp.ctx = "thread"
    BY <1>3 DEF Types, PollRecords
  <2>2. nt' = [t EXCEPT !.pc = IF repoll THEN "poll" ELSE "wait"]
    BY <1>3 DEF PollReturns
  <2>3. nt' \in NapiThreadRecords /\ nt'.task = t.task /\ nt'.pc = IF repoll THEN "poll" ELSE "wait"
    BY <2>2 DEF NapiThreadRecords
  <2>4. Entered(p) \/ (p = {} /\ pending' = {} /\ sirq' = sirq)
    BY <1>3, DoSoftirq DEF PollReturns
  <2> QED BY <1>1, <2>1, <2>3, <2>4 DEF Returned
<1> QED BY <1>2, <1>3

(* napi_complete_done.  A poll that does not go on to unmask the device has *)
(* rescheduled the napi, armed the timer, or was being disabled.            *)
Completed(enable) ==
    /\ defer' \in 0 .. napi_defer_hard_irqs /\ timer' \in BOOLEAN /\ gro' \in BOOLEAN
    /\ timer => timer'
    /\ gro' => timer' \/ "MISSED" \in napi
    /\ \/ /\ enable /\ "MISSED" \notin napi /\ napi' = CompletedState(napi) /\ sd_list' = sd_list
          /\ pp' = [pp EXCEPT !.pc = "enable"] /\ UNCHANGED <<sirq, pending, nt>>
       \/ /\ "MISSED" \in napi
          /\ LET r == ____napi_schedule(CompletedState(napi), pending) IN
             napi' = r.napi /\ sd_list' = r.list /\ Returned(FALSE, r.pending, r.nt)
       \/ /\ "MISSED" \notin napi /\ (enable => timer')
          /\ napi' = CompletedState(napi) /\ sd_list' = sd_list /\ Returned(FALSE, pending, nt)

LEMMA CompletedBits ==
    ASSUME napi \in SUBSET NapiBits
    PROVE  /\ CompletedState(napi) \in SUBSET NapiBits
           /\ "SCHED" \in CompletedState(napi) <=> "MISSED" \in napi
           /\ "MISSED" \notin CompletedState(napi) /\ "SCHED_THREADED" \notin CompletedState(napi)
           /\ \A b \in {"DISABLE", "NPSVC", "THREADED"} : b \in CompletedState(napi) <=> b \in napi
BY DEF CompletedState, NapiBits

LEMMA CompleteDone ==
    ASSUME Types, pp.ctx # "none", NEW w \in Nat, NEW enable \in BOOLEAN, napi_complete_done(w, enable)
    PROVE  Completed(enable)
<1> DEFINE r == ____napi_schedule(CompletedState(napi), pending)
<1>1. /\ napi \in SUBSET NapiBits /\ pending \in SUBSET Softirqs /\ nt \in NapiThreadRecords
      /\ defer \in 0 .. napi_defer_hard_irqs /\ timer \in BOOLEAN /\ gro \in BOOLEAN
  BY DEF Types, NapTypes, SoftTypes, ThreadTypes
<1>2. r.nt \in NapiThreadRecords /\ r.pending \in SUBSET Softirqs
  BY <1>1, CompletedBits, NapiSchedule
<1>3. DeferCount(w) \in 0 .. napi_defer_hard_irqs /\ DeferLeft(w) \in 0 .. napi_defer_hard_irqs
  BY <1>1, NetRxAssumption DEF DeferCount, DeferLeft
<1>4. defer' \in 0 .. napi_defer_hard_irqs
  BY <1>3 DEF napi_complete_done
<1>5. timer' <=> (timer \/ StartsTimer(w, napi))
  BY DEF napi_complete_done
<1>6. timer' \in BOOLEAN
  BY DEF napi_complete_done
<1>7. gro' \in BOOLEAN /\ (gro' => KeepTimeout(w))
  BY <1>1 DEF napi_complete_done
<1>8. gro' => timer' \/ "MISSED" \in napi
  BY <1>5, <1>7 DEF StartsTimer
<1>9. CASE enable /\ Completes(w, napi)
  <2>1. /\ "MISSED" \notin napi /\ napi' = CompletedState(napi) /\ sd_list' = sd_list
        /\ pp' = [pp EXCEPT !.pc = "enable"] /\ UNCHANGED <<sirq, pending, nt>>
    BY <1>9 DEF napi_complete_done, Completes
  <2> QED BY <1>4, <1>5, <1>6, <1>7, <1>8, <1>9, <2>1 DEF Completed
<1>10. CASE ~(enable /\ Completes(w, napi)) /\ "MISSED" \in napi
  <2>1. napi' = r.napi /\ sd_list' = r.list /\ PollReturns(FALSE, r.pending, r.nt)
    BY <1>10 DEF napi_complete_done
  <2>2. Returned(FALSE, r.pending, r.nt)
    BY <1>2, <2>1, PollReturned
  <2> QED BY <1>4, <1>5, <1>6, <1>7, <1>8, <1>10, <2>1, <2>2 DEF Completed
<1>11. CASE ~(enable /\ Completes(w, napi)) /\ "MISSED" \notin napi
  <2>1. napi' = CompletedState(napi) /\ sd_list' = sd_list /\ PollReturns(FALSE, pending, nt)
    BY <1>11 DEF napi_complete_done
  <2>2. Returned(FALSE, pending, nt)
    BY <1>1, <2>1, PollReturned
  <2>3. enable => timer'
    BY <1>3, <1>5, <1>11, NetRxAssumption DEF Completes, StartsTimer, KeepTimeout
  <2> QED BY <1>4, <1>5, <1>6, <1>7, <1>8, <1>11, <2>1, <2>2, <2>3 DEF Completed
<1> QED BY <1>9, <1>10, <1>11

------------------------------------------------------------------------------
(* The invariant *)

(* Where softirqs and polls are: a softirq that does not run has nothing to *)
(* do, a poll is inside net_rx_action's loop or in the napi thread with     *)
(* softirqs disabled, and net_rx_action's own lists are empty outside it.   *)
ContextInv ==
    /\ ~sirq.on => sirq.todo = {} /\ sirq.pc = "vec"
    /\ sirq.pc = "vec" => ~sirq.list /\ ~sirq.repoll
    /\ pp.ctx = "softirq" => sirq.on /\ sirq.pc = "loop"
    /\ pp.ctx = "thread" => ~sirq.on /\ dev.thread /\ nt.pc = "poll"

(* The task of a thread at each place of its loop. *)
TaskInv ==
    /\ kd.task.state = "TASK_RUNNING" => kd.task.on_rq
    /\ kd.task.state \in {"TASK_RUNNING", "TASK_INTERRUPTIBLE"}
    /\ kd.pc = "sleep" => kd.task.on_rq
    /\ dev.thread =>
        /\ nt.pc \in {"wait", "poll"} => nt.task.state = "TASK_RUNNING" /\ nt.task.on_rq
        /\ nt.pc \in {"test", "sleep"} => nt.task.on_rq
        /\ nt.pc = "woken" => (nt.task.on_rq <=> nt.task.state = "TASK_RUNNING")
        /\ nt.task.state \in {"TASK_RUNNING", "TASK_INTERRUPTIBLE"}
    /\ ~dev.thread => "SCHED_THREADED" \notin napi

(* The holder of rtnl: where the napi is disabled and the device running. *)
HolderInv ==
    /\ adm.who = "none" <=> adm.pc = "idle"
    /\ adm.who \in {"open", "worker"} => dev.running
    /\ adm.pc \in {"enable", "start"} => adm.who \in {"open", "worker"}
    /\ adm.pc \in {"enable", "start", "cancel"} => ~dev.chip
    /\ "DISABLE" \in napi => adm.pc = "wait"
    /\ adm.pc \in {"mask", "enable", "cancel"} => "NPSVC" \in napi
    /\ adm.pc = "idle" /\ ~dev.running => "NPSVC" \in napi

(* SingleOwner, owner by owner. *)
Polled == pp.ctx # "none" /\ pp.pc # "enable"

OwnerInv ==
    /\ "SCHED" \in napi <=> \/ sd_list \/ sirq.list \/ sirq.repoll \/ Polled
                            \/ "NPSVC" \in napi \/ ThreadOwns
    /\ sd_list => ~(sirq.list \/ sirq.repoll \/ Polled \/ "NPSVC" \in napi \/ ThreadOwns)
    /\ sirq.list => ~(sirq.repoll \/ Polled \/ "NPSVC" \in napi \/ ThreadOwns)
    /\ sirq.repoll => ~(Polled \/ "NPSVC" \in napi \/ ThreadOwns)
    /\ Polled => ~("NPSVC" \in napi \/ ThreadOwns)
    /\ "NPSVC" \in napi => ~ThreadOwns

(* A poll that is scheduled will look at the ring: it has not yet looked    *)
(* for the last time, or a missed interrupt has it look again.              *)
WillLook == "SCHED" \in napi /\ (pp.ctx = "none" \/ pp.pc # "complete" \/ "MISSED" \in napi)

Resets == adm.who # "none" \/ "RESET_PENDING" \in wk.flags

(* A frame in the ring has an event that is not acknowledged, or a poll     *)
(* that will see it; the events being handled have such a poll; and a       *)
(* device is masked only for a poll, a timer, or before it is unmasked.     *)
RingInv ==
    /\ ~dev.chip => ring = 0
    /\ dev.chip /\ ring > 0 => "RxOK" \in ev \/ WillLook \/ Resets
    /\ dev.chip /\ status # {} => WillLook \/ Resets
    /\ dev.chip /\ ~mask => \/ "SCHED" \in napi \/ timer \/ Resets
                            \/ pp.ctx # "none" /\ pp.pc = "enable"

------------------------------------------------------------------------------
(* Types *)

(* The groups of variables that an action leaves alone keep their types. *)
LEMMA GroupsKept ==
    ASSUME Types
    PROVE  /\ UNCHANGED hw => HwTypes'
           /\ UNCHANGED nap => NapTypes'
           /\ UNCHANGED soft => SoftTypes'
           /\ UNCHANGED <<kd, nt>> => ThreadTypes'
           /\ UNCHANGED ctl => CtlTypes'
BY DEF Types, HwTypes, NapTypes, SoftTypes, ThreadTypes, CtlTypes, hw, nap, soft, ctl

Inv == /\ Types /\ ContextInv /\ TaskInv /\ HolderInv /\ OwnerInv /\ SoftirqHandled /\ RingInv

(* ... and the parts of the invariant. *)
LEMMA PartsKept ==
    ASSUME Inv
    PROVE  /\ UNCHANGED <<sirq, pp, nt, dev>> => ContextInv'
           /\ UNCHANGED <<kd, nt, dev, napi>> => TaskInv'
           /\ UNCHANGED <<adm, dev, napi>> => HolderInv'
           /\ UNCHANGED <<napi, sd_list, sirq, pp, nt, dev>> => OwnerInv'
           /\ UNCHANGED <<pending, sirq, pp, status, kd, sd_list>> => SoftirqHandled'
           /\ UNCHANGED <<hw, status, napi, timer, pp, dev, adm, wk>> => RingInv'
<1>1. UNCHANGED <<sirq, pp, nt, dev>> => ContextInv'
  BY DEF Inv, ContextInv
<1>2. UNCHANGED <<kd, nt, dev, napi>> => TaskInv'
  BY DEF Inv, TaskInv
<1>3. UNCHANGED <<adm, dev, napi>> => HolderInv'
  BY DEF Inv, HolderInv
<1>4. UNCHANGED <<napi, sd_list, sirq, pp, nt, dev>> => OwnerInv'
  BY DEF Inv, OwnerInv, Polled, ThreadOwns
<1>5. UNCHANGED <<pending, sirq, pp, status, kd, sd_list>> => SoftirqHandled'
  BY DEF Inv, SoftirqHandled, in_interrupt
<1>6. UNCHANGED <<hw, status, napi, timer, pp, dev, adm, wk>> => RingInv'
  BY DEF Inv, RingInv, WillLook, Resets, hw
<1> QED BY <1>1, <1>2, <1>3, <1>4, <1>5, <1>6

------------------------------------------------------------------------------
(* The device *)

LEMMA FrameArrives == ASSUME Inv, frame_arrives PROVE Inv'
<1>1. /\ ring' = ring + 1 /\ ring < RingSize /\ ev' = ev \cup {"RxOK"} /\ dev.chip
      /\ UNCHANGED <<mask, status, nap, soft, pp, kd, nt, ctl>>
  BY DEF frame_arrives
<1>2. HwTypes'
  BY <1>1, NetRxAssumption DEF Inv, Types, HwTypes, Events
<1>3. Types'
  BY <1>1, <1>2, GroupsKept DEF Inv, Types
<1>4. ContextInv' /\ TaskInv' /\ HolderInv' /\ OwnerInv' /\ SoftirqHandled'
  BY <1>1, PartsKept DEF nap, soft, ctl
<1>5. RingInv'
  BY <1>1 DEF Inv, RingInv, WillLook, Resets, nap, ctl
<1> QED BY <1>3, <1>4, <1>5 DEF Inv

LEMMA OtherEvent == ASSUME Inv, other_event PROVE Inv'
<1>1. PICK e \in {"LinkChg", "SYSErr"} : ev' = ev \cup {e}
  BY DEF other_event
<1>2. /\ left > 0 /\ left' = left - 1
      /\ UNCHANGED <<ring, mask, status, nap, soft, pp, kd, nt, dev, wk, adm, ksoftirqd_test>>
  BY DEF other_event, Spend
<1>3. HwTypes' /\ CtlTypes'
  BY <1>1, <1>2, NetRxAssumption DEF Inv, Types, HwTypes, CtlTypes, Events
<1>4. Types'
  BY <1>2, <1>3, GroupsKept DEF Inv, Types
<1>5. ContextInv' /\ TaskInv' /\ HolderInv' /\ OwnerInv' /\ SoftirqHandled'
  BY <1>2, PartsKept DEF nap, soft
<1>6. RingInv'
  BY <1>1, <1>2 DEF Inv, RingInv, WillLook, Resets, nap
<1> QED BY <1>4, <1>5, <1>6 DEF Inv

------------------------------------------------------------------------------
(* Softirqs *)

LEMMA RunOtherSoftirq == ASSUME Inv, run_other_softirq PROVE Inv'
<1>1. /\ sirq.on /\ pp.ctx = "none" /\ sirq.pc = "vec" /\ "NET_RX" \notin sirq.todo
      /\ sirq' = [sirq EXCEPT !.todo = {}]
      /\ UNCHANGED <<hw, status, nap, pending, pp, kd, nt, ctl>>
  BY DEF run_other_softirq, SoftirqStep
<1>2. /\ sirq' \in SoftirqRecords /\ sirq'.todo = {} /\ sirq'.on = sirq.on /\ sirq'.pc = sirq.pc
      /\ sirq'.list = sirq.list /\ sirq'.repoll = sirq.repoll
  BY <1>1 DEF Inv, Types, SoftTypes, SoftirqRecords
<1>3. Types'
  BY <1>1, <1>2, GroupsKept DEF Inv, Types, SoftTypes
<1>4. TaskInv' /\ HolderInv' /\ RingInv'
  BY <1>1, PartsKept DEF nap, soft, ctl
<1>5. ContextInv'
  BY <1>1, <1>2 DEF Inv, ContextInv, ctl
<1>6. OwnerInv'
  BY <1>1, <1>2 DEF Inv, OwnerInv, Polled, ThreadOwns, nap, ctl
<1>7. SoftirqHandled'
  BY <1>1, <1>2 DEF Inv, SoftirqHandled, in_interrupt, nap
<1> QED BY <1>3, <1>4, <1>5, <1>6, <1>7 DEF Inv

LEMMA NetRxSplice == ASSUME Inv, net_rx_splice PROVE Inv'
<1>1. /\ sirq.on /\ pp.ctx = "none" /\ sirq.pc = "vec" /\ "NET_RX" \in sirq.todo
      /\ sd_list' = FALSE
      /\ sirq' = [sirq EXCEPT !.pc = "loop", !.list = sd_list, !.repoll = FALSE]
      /\ UNCHANGED <<hw, status, napi, gro, defer, timer, pending, pp, kd, nt, ctl>>
  BY DEF net_rx_splice, SoftirqStep
<1>2. /\ sirq' \in SoftirqRecords /\ sirq'.todo = sirq.todo /\ sirq'.on = sirq.on /\ sirq'.pc = "loop"
      /\ sirq'.list = sd_list /\ sirq'.repoll = FALSE
  BY <1>1 DEF Inv, Types, NapTypes, SoftTypes, SoftirqRecords
<1>3. Types'
  BY <1>1, <1>2, GroupsKept DEF Inv, Types, NapTypes, SoftTypes
<1>4. TaskInv' /\ HolderInv' /\ RingInv'
  BY <1>1, PartsKept DEF ctl
<1>5. ContextInv'
  BY <1>1, <1>2 DEF Inv, ContextInv, ctl
<1>6. OwnerInv'
  BY <1>1, <1>2 DEF Inv, ContextInv, OwnerInv, Polled, ThreadOwns, ctl
<1>7. SoftirqHandled'
  BY <1>1, <1>2 DEF Inv, SoftirqHandled, in_interrupt
<1> QED BY <1>3, <1>4, <1>5, <1>6, <1>7 DEF Inv

LEMMA NetRxLoop == ASSUME Inv, net_rx_loop PROVE Inv'
<1>1. /\ sirq.on /\ pp.ctx = "none" /\ sirq.pc = "loop" /\ sirq \in SoftirqRecords
      /\ UNCHANGED <<hw, status, nap, pending, kd, nt, ctl>>
  BY DEF net_rx_loop, SoftirqStep, Inv, Types, SoftTypes
<1>2. /\ sirq' \in SoftirqRecords /\ sirq'.on = sirq.on
      /\ \/ /\ sirq.list = TRUE /\ sirq'.pc = "loop" /\ sirq'.list = FALSE /\ sirq'.repoll = sirq.repoll
            /\ sirq'.todo = sirq.todo
         \/ /\ sirq.list = FALSE /\ sirq.repoll = TRUE /\ sirq'.pc = "end" /\ sirq'.list = FALSE
            /\ sirq'.repoll = TRUE /\ sirq'.todo = sirq.todo /\ pp' = pp
         \/ /\ sirq.list = FALSE /\ sirq.repoll = FALSE /\ sirq'.pc = "vec" /\ sirq'.list = FALSE
            /\ sirq'.repoll = FALSE /\ pp' = pp
  <2>1. CASE sirq.list
    BY <1>1, <2>1 DEF net_rx_loop, SoftirqRecords
  <2>2. CASE ~sirq.list /\ sirq.repoll
    BY <1>1, <2>2 DEF net_rx_loop, SoftirqRecords
  <2>3. CASE ~sirq.list /\ ~sirq.repoll
    <3>1. sirq' = NetRxReturns(sirq) /\ pp' = pp
      BY <2>3 DEF net_rx_loop
    <3>2. /\ NetRxReturns(sirq) \in SoftirqRecords /\ NetRxReturns(sirq).on = sirq.on
          /\ NetRxReturns(sirq).pc = "vec" /\ NetRxReturns(sirq).list = FALSE
          /\ NetRxReturns(sirq).repoll = FALSE
      BY <1>1 DEF NetRxReturns, SoftirqRecords
    <3>3. sirq.list = FALSE /\ sirq.repoll = FALSE
      BY <1>1, <2>3 DEF SoftirqRecords
    <3> QED BY <3>1, <3>2, <3>3
  <2> QED BY <2>1, <2>2, <2>3
<1>3. sirq.list => pp' \in PollRecords /\ pp'.ctx = "softirq" /\ pp'.pc = "rx"
  BY IdleRecords DEF net_rx_loop, Inv, OwnerInv, PollRecords, NoPoll
<1>4. Types'
  BY <1>1, <1>2, <1>3, GroupsKept DEF Inv, Types, SoftTypes
<1>5. TaskInv' /\ HolderInv'
  BY <1>1, PartsKept DEF nap, ctl
<1>6. ContextInv'
  BY <1>1, <1>2, <1>3 DEF Inv, ContextInv, ctl
<1>7. OwnerInv'
  BY <1>1, <1>2, <1>3 DEF Inv, ContextInv, OwnerInv, Polled, ThreadOwns, nap, ctl
<1>8. SoftirqHandled'
  BY <1>1, <1>2, <1>3 DEF Inv, SoftirqHandled, in_interrupt, nap
<1>9. RingInv'
  BY <1>1, <1>2, <1>3 DEF Inv, RingInv, WillLook, Resets, hw, nap, ctl
<1> QED BY <1>4, <1>5, <1>6, <1>7, <1>8, <1>9 DEF Inv

LEMMA NetRxEnd == ASSUME Inv, net_rx_end PROVE Inv'
<1>1. /\ sirq.on /\ pp.ctx = "none" /\ sirq.pc = "end" /\ sirq \in SoftirqRecords
      /\ pending' = IF sd_list' THEN pending \cup {"NET_RX"} ELSE pending
      /\ sirq' = NetRxReturns(sirq)
      /\ UNCHANGED <<hw, status, napi, gro, defer, timer, pp, kd, nt, ctl>>
  BY DEF net_rx_end, SoftirqStep, Inv, Types, SoftTypes
<1>2. sd_list' \in BOOLEAN /\ (sd_list' <=> sd_list \/ sirq.list \/ sirq.repoll)
  BY DEF net_rx_end
<1>3. /\ sirq' \in SoftirqRecords /\ sirq'.on = sirq.on /\ sirq'.pc = "vec"
      /\ sirq'.list = FALSE /\ sirq'.repoll = FALSE
  BY <1>1 DEF NetRxReturns, SoftirqRecords
<1>4. Types'
  BY <1>1, <1>2, <1>3, GroupsKept DEF Inv, Types, NapTypes, SoftTypes, Softirqs
<1>5. TaskInv' /\ HolderInv' /\ RingInv'
  BY <1>1, PartsKept DEF ctl
<1>6. ContextInv'
  BY <1>1, <1>3 DEF Inv, ContextInv, ctl
<1>7. OwnerInv'
  BY <1>1, <1>2, <1>3 DEF Inv, OwnerInv, Polled, ThreadOwns, ctl
<1>8. SoftirqHandled'
  BY <1>1, <1>2, <1>3 DEF Inv, SoftirqHandled, in_interrupt
<1> QED BY <1>4, <1>5, <1>6, <1>7, <1>8 DEF Inv

(* What __do_softirq leaves pending it has woken ksoftirqd for. *)
LEMMA SoftirqEnd == ASSUME Inv, softirq_end PROVE Inv'
<1>1. /\ sirq.on /\ pp.ctx = "none" /\ sirq.pc = "vec" /\ sirq.todo = {} /\ sirq \in SoftirqRecords
      /\ pending \in SUBSET Softirqs /\ kd \in KsoftirqdRecords /\ kd.task \in Tasks
      /\ UNCHANGED <<hw, status, nap, pp, nt, ctl>>
  BY DEF softirq_end, SoftirqStep, Inv, Types, SoftTypes, ThreadTypes, KsoftirqdRecords
<1>p. pending \in SUBSET Softirqs /\ kd \in KsoftirqdRecords /\ kd.task \in Tasks
  BY <1>1
<1> DEFINE w == wakeup_softirqd(kd)
<1>2. /\ w \in KsoftirqdRecords /\ w.pc = kd.pc
      /\ w.task.state = "TASK_RUNNING" /\ w.task.on_rq
  <2>1. wake_up_process(kd.task) \in Tasks
    BY <1>p, WakeUp
  <2>2. w \in KsoftirqdRecords /\ w.pc = kd.pc /\ w.task = wake_up_process(kd.task)
    BY <1>p, <2>1 DEF wakeup_softirqd, KsoftirqdRecords
  <2> HIDE DEF w
  <2>3. kd.task.state = "TASK_RUNNING" => kd.task.on_rq
    BY DEF Inv, TaskInv
  <2>4. kd.task.state \in {"TASK_RUNNING", "TASK_INTERRUPTIBLE"}
    BY DEF Inv, TaskInv
  <2>5. CASE kd.task.state = "TASK_INTERRUPTIBLE"
    <3>1. w.task.state = "TASK_RUNNING" /\ w.task.on_rq = TRUE
      BY <1>p, <2>2, <2>5, WakeUp DEF TASK_NORMAL
    <3> QED BY <2>2, <3>1
  <2>6. CASE kd.task.state = "TASK_RUNNING"
    <3>1. w.task = kd.task
      BY <1>p, <2>2, <2>6, WakeUp DEF TASK_NORMAL
    <3> QED BY <2>2, <2>3, <2>6, <3>1
  <2> QED BY <2>4, <2>5, <2>6
<1>3. \/ sirq' = NoSoftirq /\ pending' = pending /\ kd' = w
      \/ sirq' = NoSoftirq /\ pending' = pending /\ pending = {} /\ kd' = kd
      \/ /\ sirq' \in SoftirqRecords /\ sirq'.on /\ sirq'.pc = "vec" /\ ~sirq'.list /\ ~sirq'.repoll
         /\ pending' \in SUBSET Softirqs /\ pending = sirq'.todo \cup pending' /\ kd' = kd
  <2>1. ASSUME sirq.restarts > 1, kd' = kd,
               LET r == restart([sirq EXCEPT !.restarts = @ - 1], pending, ksoftirqd_test)
               IN sirq' = r.s /\ pending' = r.left
        PROVE  /\ sirq' \in SoftirqRecords /\ sirq'.on /\ sirq'.pc = "vec"
               /\ ~sirq'.list /\ ~sirq'.repoll
               /\ pending' \in SUBSET Softirqs /\ pending = sirq'.todo \cup pending'
    <3> DEFINE u == [sirq EXCEPT !.restarts = @ - 1]
    <3>1. /\ u \in SoftirqRecords /\ u.on = sirq.on /\ u.pc = sirq.pc
          /\ u.list = sirq.list /\ u.repoll = sirq.repoll
      <4>1. sirq.restarts - 1 \in 0 .. MaxRestart
        BY <1>1, <2>1, NetRxAssumption DEF SoftirqRecords
      <4> DEFINE n == sirq.restarts - 1
      <4>2. u = [sirq EXCEPT !.restarts = n]
        OBVIOUS
      <4> HIDE DEF n
      <4> QED BY <1>1, <4>1, <4>2 DEF SoftirqRecords, n
    <3>2. sirq' = restart(u, pending, ksoftirqd_test).s /\ pending' = restart(u, pending, ksoftirqd_test).left
      BY <2>1
    <3> HIDE DEF u
    <3>3. PICK v \in SoftirqRecords, l \in SUBSET Softirqs :
             /\ restart(u, pending, ksoftirqd_test).s = v
             /\ restart(u, pending, ksoftirqd_test).left = l /\ pending = v.todo \cup l
             /\ v.on = u.on /\ v.pc = u.pc /\ v.list = u.list /\ v.repoll = u.repoll
      BY <1>p, <3>1, Restart
    <3>4. sirq.on = TRUE /\ sirq.list = FALSE /\ sirq.repoll = FALSE
      BY <1>1 DEF Inv, ContextInv, SoftirqRecords
    <3> QED BY <1>1, <3>1, <3>2, <3>3, <3>4
  <2> QED BY <2>1 DEF softirq_end
<1> HIDE DEF w
<1>4. Types'
  BY <1>1, <1>2, <1>3, IdleRecords, GroupsKept DEF Inv, Types, SoftTypes, ThreadTypes
<1>5. HolderInv' /\ RingInv'
  BY <1>1, PartsKept DEF nap, ctl
<1>6. ContextInv'
  BY <1>1, <1>3, IdleRecords DEF Inv, ContextInv, ctl
<1>7. TaskInv'
  BY <1>1, <1>2, <1>3 DEF Inv, TaskInv, nap, ctl
<1>8. OwnerInv'
  BY <1>1, <1>3, IdleRecords DEF Inv, ContextInv, OwnerInv, Polled, ThreadOwns, nap, ctl
<1>9. SoftirqHandled'
  BY <1>1, <1>2, <1>3, IdleRecords DEF Inv, SoftirqHandled, in_interrupt, nap
<1> QED BY <1>4, <1>5, <1>6, <1>7, <1>8, <1>9 DEF Inv

------------------------------------------------------------------------------
(* Interrupts *)

(* ____napi_schedule, for a napi thread that has not exited: `t' and `q' are *)
(* the thread and the pending set it leaves.                                 *)
Handed(n, p, t, q) ==
    /\ napi' \in SUBSET NapiBits /\ t \in NapiThreadRecords /\ sd_list' \in BOOLEAN
    /\ q \in SUBSET Softirqs /\ t.pc = nt.pc
    /\ \/ /\ dev.thread /\ nt.task.state = "TASK_RUNNING"
          /\ napi' = n \cup {"SCHED_THREADED"} /\ sd_list' = sd_list /\ q = p /\ t.task = nt.task
       \/ /\ dev.thread /\ nt.task.state = "TASK_INTERRUPTIBLE"
          /\ napi' = n /\ sd_list' = sd_list /\ q = p
          /\ t.task.state = "TASK_RUNNING" /\ t.task.on_rq
       \/ napi' = n /\ sd_list' /\ q = p \cup {"NET_RX"} /\ t = nt

LEMMA HandOver ==
    ASSUME Types, TaskInv, NEW n \in SUBSET NapiBits, NEW p \in SUBSET Softirqs,
           LET r == ____napi_schedule(n, p) IN napi' = r.napi /\ sd_list' = r.list
    PROVE  Handed(n, p, ____napi_schedule(n, p).nt, ____napi_schedule(n, p).pending)
<1> DEFINE r == ____napi_schedule(n, p)
<1>1. napi' = r.napi /\ sd_list' = r.list
  OBVIOUS
<1>2. nt.task \in Tasks
  BY DEF Types, ThreadTypes, NapiThreadRecords
<1>3. dev.thread => nt.task.state \in {"TASK_RUNNING", "TASK_INTERRUPTIBLE"}
  BY DEF TaskInv
<1>4. /\ r.napi \in SUBSET NapiBits /\ r.nt \in NapiThreadRecords /\ r.list \in BOOLEAN
      /\ r.pending \in SUBSET Softirqs /\ r.nt.pc = nt.pc
      /\ \/ /\ dev.thread /\ "THREADED" \in n /\ nt.task.state # "TASK_INTERRUPTIBLE"
            /\ r.napi = n \cup {"SCHED_THREADED"} /\ r.list = sd_list /\ r.pending = p
            /\ r.nt.task = wake_up_process(nt.task)
         \/ /\ dev.thread /\ nt.task.state = "TASK_INTERRUPTIBLE"
            /\ r.napi = n /\ r.list = sd_list /\ r.pending = p
            /\ r.nt.task.state = "TASK_RUNNING" /\ r.nt.task.on_rq
         \/ /\ r.napi = n /\ r.list = TRUE /\ r.pending = p \cup {"NET_RX"} /\ r.nt = nt
  BY NapiSchedule
<1>5. nt.task.state = "TASK_RUNNING" => wake_up_process(nt.task) = nt.task
  BY <1>2, WakeUp DEF TASK_NORMAL
<1> HIDE DEF r
<1>6. Handed(n, p, r.nt, r.pending)
  BY <1>1, <1>3, <1>4, <1>5 DEF Handed
<1> QED BY <1>6 DEF r

(* A napi that nobody owned is now on the poll list or with its thread. *)
LEMMA OneOwner ==
    ASSUME ContextInv, TaskInv, NEW n, NEW p, NEW q, Handed(n, p, nt', q),
           pp' = pp, dev' = dev, ~sd_list, ~Polled, ~ThreadOwns,
           "SCHED_THREADED" \in n => "SCHED_THREADED" \in napi
    PROVE  sd_list' <=> ~ThreadOwns'
<1>1. sd_list' \in BOOLEAN /\ nt'.pc = nt.pc /\ nt' \in NapiThreadRecords
  BY DEF Handed
<1>2. CASE /\ dev.thread /\ nt.task.state = "TASK_RUNNING"
           /\ napi' = n \cup {"SCHED_THREADED"} /\ sd_list' = sd_list /\ nt'.task = nt.task
  BY <1>2 DEF ThreadOwns, Polled
<1>3. CASE /\ dev.thread /\ nt.task.state = "TASK_INTERRUPTIBLE" /\ sd_list' = sd_list
           /\ nt'.task.state = "TASK_RUNNING" /\ nt'.task.on_rq
  <2>1. nt.pc \in {"test", "sleep", "woken"}
    <3>1. nt.pc \in {"wait", "test", "sleep", "woken", "poll"}
      BY <1>1 DEF NapiThreadRecords
    <3>2. nt.pc \notin {"wait", "poll"}
      BY <1>3 DEF TaskInv
    <3> QED BY <3>1, <3>2
  <2>2. pp.ctx # "thread"
    BY <2>1 DEF ContextInv
  <2> QED BY <1>1, <1>3, <2>1, <2>2 DEF ThreadOwns
<1>4. CASE napi' = n /\ sd_list' /\ nt' = nt
  BY <1>4 DEF ThreadOwns, Polled
<1> QED BY <1>2, <1>3, <1>4 DEF Handed

LEMMA InterruptKeeps == ASSUME Inv, rtl8169_interrupt PROVE Inv'
<1>1. /\ status = {} /\ ev \cap irq_mask # {} /\ status' = ev
      /\ UNCHANGED <<ring, ev, gro, defer, timer, sirq, pp, kd, dev, adm, ksoftirqd_test, left>>
      /\ Types /\ napi \in SUBSET NapiBits /\ pending \in SUBSET Softirqs /\ ev \in SUBSET Events
  BY DEF rtl8169_interrupt, Inv, Types, NapTypes, SoftTypes, HwTypes
<1>2. CASE "SYSErr" \in ev
  <2>1. /\ wk' = [wk EXCEPT !.flags = @ \cup {"RESET_PENDING"}, !.queued = TRUE]
        /\ UNCHANGED <<mask, napi, nt, sd_list, pending>>
    BY <1>2 DEF rtl8169_interrupt, rtl_schedule_task
  <2>2. CtlTypes' /\ "RESET_PENDING" \in wk'.flags
    BY <1>1, <2>1 DEF Types, CtlTypes
  <2>3. Types'
    BY <1>1, <2>1, <2>2, GroupsKept DEF Types, hw, nap, soft
  <2>4. ContextInv' /\ TaskInv' /\ HolderInv' /\ OwnerInv'
    BY <1>1, <2>1, PartsKept
  <2>5. SoftirqHandled'
    BY <1>1, <2>1 DEF Inv, SoftirqHandled, in_interrupt
  <2>6. RingInv'
    BY <1>1, <2>1, <2>2 DEF Inv, RingInv, Resets
  <2> QED BY <2>3, <2>4, <2>5, <2>6 DEF Inv
<1>3. CASE "SYSErr" \notin ev /\ ("DISABLE" \in napi \/ "SCHED" \in napi)
  <2>1. /\ \/ napi' = napi \cup {"MISSED"} /\ "SCHED" \in napi
           \/ napi' = napi /\ "DISABLE" \in napi
        /\ UNCHANGED <<wk, mask, nt, sd_list, pending>>
    BY <1>3 DEF rtl8169_interrupt, napi_schedule_prep
  <2>2. Types'
    BY <1>1, <2>1, GroupsKept DEF Types, NapTypes, NapiBits, hw, soft, ctl
  <2>3. ContextInv'
    BY <1>1, <2>1, PartsKept
  <2>4. TaskInv'
    BY <1>1, <2>1 DEF Inv, TaskInv
  <2>5. HolderInv'
    BY <1>1, <2>1 DEF Inv, HolderInv
  <2>6. OwnerInv'
    BY <1>1, <2>1 DEF Inv, OwnerInv, ThreadOwns, Polled
  <2>7. SoftirqHandled'
    BY <1>1, <2>1 DEF Inv, SoftirqHandled, in_interrupt
  <2>8. "DISABLE" \in napi => Resets'
    BY <1>1 DEF Inv, HolderInv, Resets
  <2>9. "DISABLE" \notin napi => WillLook'
    BY <2>1 DEF WillLook
  <2>10. RingInv'
    BY <1>1, <2>1, <2>8, <2>9 DEF Inv, RingInv, Resets, WillLook
  <2> QED BY <2>2, <2>3, <2>4, <2>5, <2>6, <2>7, <2>10 DEF Inv
<1>4. CASE "SYSErr" \notin ev /\ "DISABLE" \notin napi /\ "SCHED" \notin napi
  <2> DEFINE n == napi \cup {"SCHED"}
  <2>1. napi_schedule_prep(napi) = [ok |-> TRUE, napi |-> n]
    BY <1>4 DEF napi_schedule_prep
  <2>2. /\ mask' = FALSE /\ wk' = wk
        /\ napi' = ____napi_schedule(n, pending).napi /\ nt' = ____napi_schedule(n, pending).nt
        /\ sd_list' = ____napi_schedule(n, pending).list
        /\ pending' = ____napi_schedule(n, pending).pending
    BY <1>4, <2>1 DEF rtl8169_interrupt
  <2>3. n \in SUBSET NapiBits
    BY <1>1 DEF NapiBits
  <2>4. Handed(n, pending, nt', pending')
    BY <1>1, <2>2, <2>3, HandOver DEF Inv
  <2>5. Types'
    BY <1>1, <2>2, <2>4, GroupsKept
    DEF Types, Handed, HwTypes, NapTypes, SoftTypes, ThreadTypes, hw, soft, ctl
  <2>6. ~sd_list /\ ~sirq.list /\ ~sirq.repoll /\ ~Polled /\ "NPSVC" \notin napi /\ ~ThreadOwns
    BY <1>4 DEF Inv, OwnerInv
  <2>7. ContextInv'
    BY <1>1, <2>4 DEF Inv, ContextInv, Handed
  <2>8. TaskInv'
    BY <1>1, <2>4 DEF Inv, TaskInv, Handed
  <2>9. HolderInv'
    BY <1>1, <1>4, <2>4 DEF Inv, HolderInv, Handed
  <2>10. OwnerInv'
    <3>1. /\ "SCHED" \in napi' /\ "NPSVC" \notin napi' /\ ~sirq'.list /\ ~sirq'.repoll /\ ~Polled'
      BY <1>1, <2>4, <2>6 DEF Handed, Polled
    <3>2. sd_list' <=> ~ThreadOwns'
      BY <1>1, <2>4, <2>6, OneOwner DEF Inv
    <3> QED BY <3>1, <3>2 DEF OwnerInv
  <2>11. SoftirqHandled'
    BY <1>1, <2>4, <2>6 DEF Inv, SoftirqHandled, in_interrupt, Handed
  <2>12. RingInv'
    BY <1>1, <2>2, <2>4, <2>6 DEF Inv, RingInv, Resets, WillLook, Polled, Handed
  <2> QED BY <2>5, <2>7, <2>8, <2>9, <2>10, <2>11, <2>12 DEF Inv
<1> QED BY <1>2, <1>3, <1>4

(* On the return from an interrupt what is pending is run, or a softirq is  *)
(* under way already.                                                       *)
LEMMA ExitKeeps ==
    ASSUME Types, ContextInv, NEW p \in SUBSET Softirqs, irq_exit(p),
           pp' = pp, dev' = dev, nt'.pc = nt.pc
    PROVE  /\ SoftTypes' /\ ContextInv'
           /\ sirq'.list <=> sirq.list
           /\ sirq'.repoll <=> sirq.repoll
           /\ pending' # {} => in_interrupt'
           /\ "NET_RX" \in p \/ (sirq.pc = "vec" /\ "NET_RX" \in sirq.todo)
                => "NET_RX" \in pending' \/ (sirq'.pc = "vec" /\ "NET_RX" \in sirq'.todo)
<1>1. CASE ~in_interrupt /\ p # {} /\ Entered(p)
  <2>1. ~sirq.on /\ pp.ctx = "none" /\ sirq.pc = "vec" /\ sirq.todo = {} /\ ~sirq.list /\ ~sirq.repoll
    BY <1>1 DEF in_interrupt, ContextInv
  <2>2. SoftTypes'
    BY <1>1 DEF Entered, SoftTypes
  <2>3. ContextInv'
    BY <1>1, <2>1 DEF Entered, ContextInv
  <2>4. in_interrupt'
    BY <1>1 DEF Entered, in_interrupt
  <2> QED BY <1>1, <2>1, <2>2, <2>3, <2>4 DEF Entered
<1>2. CASE (in_interrupt \/ p = {}) /\ pending' = p /\ sirq' = sirq
  <2>1. SoftTypes'
    BY <1>2 DEF Types, SoftTypes
  <2>2. ContextInv'
    BY <1>2 DEF ContextInv
  <2>3. pending' # {} => in_interrupt'
    BY <1>2 DEF in_interrupt
  <2> QED BY <1>2, <2>1, <2>2, <2>3
<1> QED BY <1>1, <1>2, IrqExit

LEMMA AckKeeps == ASSUME Inv, rtl_ack_events PROVE Inv'
<1>1. /\ status # {} /\ ev' = ev \ status /\ status' = {} /\ irq_exit(pending)
      /\ UNCHANGED <<ring, mask, nap, pp, kd, nt, ctl>>
      /\ pending \in SUBSET Softirqs /\ Types /\ ContextInv
  BY DEF rtl_ack_events, Inv, Types, SoftTypes
<1>2. /\ SoftTypes' /\ ContextInv'
      /\ sirq'.list <=> sirq.list
      /\ sirq'.repoll <=> sirq.repoll
      /\ pending' # {} => in_interrupt'
      /\ "NET_RX" \in pending \/ (sirq.pc = "vec" /\ "NET_RX" \in sirq.todo)
           => "NET_RX" \in pending' \/ (sirq'.pc = "vec" /\ "NET_RX" \in sirq'.todo)
  BY <1>1, ExitKeeps DEF ctl
<1>3. HwTypes'
  BY <1>1 DEF Types, HwTypes
<1>4. Types'
  BY <1>1, <1>2, <1>3, GroupsKept DEF Types
<1>5. TaskInv' /\ HolderInv'
  BY <1>1, PartsKept DEF nap, ctl
<1>6. OwnerInv'
  BY <1>1, <1>2 DEF Inv, OwnerInv, ThreadOwns, Polled, nap, ctl
<1>7. SoftirqHandled'
  BY <1>1, <1>2 DEF Inv, SoftirqHandled, nap
<1>8. RingInv'
  BY <1>1 DEF Inv, RingInv, Resets, WillLook, nap, ctl
<1> QED BY <1>2, <1>4, <1>5, <1>6, <1>7, <1>8 DEF Inv

LEMMA OtherInterruptKeeps == ASSUME Inv, other_interrupt PROVE Inv'
<1> DEFINE p == pending \cup {"TASKLET"}
<1>1. /\ irq_exit(p) /\ left > 0 /\ left' = left - 1
      /\ UNCHANGED <<hw, status, nap, pp, kd, nt, dev, wk, adm, ksoftirqd_test>>
      /\ p \in SUBSET Softirqs /\ Types /\ ContextInv
  BY DEF other_interrupt, Spend, Inv, Types, SoftTypes, Softirqs
<1>2. /\ SoftTypes' /\ ContextInv'
      /\ sirq'.list <=> sirq.list
      /\ sirq'.repoll <=> sirq.repoll
      /\ pending' # {} => in_interrupt'
      /\ "NET_RX" \in p \/ (sirq.pc = "vec" /\ "NET_RX" \in sirq.todo)
           => "NET_RX" \in pending' \/ (sirq'.pc = "vec" /\ "NET_RX" \in sirq'.todo)
  BY <1>1, ExitKeeps
<1>3. CtlTypes'
  BY <1>1, NetRxAssumption DEF Types, CtlTypes
<1>4. Types'
  BY <1>1, <1>2, <1>3, GroupsKept DEF Types
<1>5. TaskInv' /\ HolderInv' /\ RingInv'
  BY <1>1, PartsKept DEF nap
<1>6. OwnerInv'
  BY <1>1, <1>2 DEF Inv, OwnerInv, ThreadOwns, Polled, nap
<1>7. SoftirqHandled'
  BY <1>1, <1>2 DEF Inv, SoftirqHandled, nap
<1> QED BY <1>2, <1>4, <1>5, <1>6, <1>7 DEF Inv

LEMMA WatchdogKeeps == ASSUME Inv, napi_watchdog PROVE Inv'
<1>1. /\ timer' = FALSE /\ status = {} /\ UNCHANGED <<hw, status, gro, defer, pp, kd, ctl>>
      /\ Types /\ ContextInv /\ TaskInv /\ napi \in SUBSET NapiBits /\ pending \in SUBSET Softirqs
  BY DEF napi_watchdog, Inv, Types, NapTypes, SoftTypes
<1>2. CASE {"DISABLE", "SCHED"} \cap napi # {}
  <2>1. UNCHANGED <<napi, nt, sd_list, soft>>
    BY <1>2 DEF napi_watchdog
  <2>2. Types'
    BY <1>1, <2>1, GroupsKept DEF Types, NapTypes
  <2>3. ContextInv' /\ TaskInv' /\ HolderInv' /\ OwnerInv' /\ SoftirqHandled'
    BY <1>1, <2>1, PartsKept DEF soft, ctl
  <2>4. "DISABLE" \in napi => Resets
    BY DEF Inv, HolderInv, Resets
  <2>5. RingInv'
    BY <1>1, <1>2, <2>1, <2>4 DEF Inv, RingInv, Resets, WillLook, hw, ctl
  <2> QED BY <2>2, <2>3, <2>5 DEF Inv
<1>3. CASE {"DISABLE", "SCHED"} \cap napi = {}
  <2> DEFINE n == napi \cup {"SCHED"}
             q == ____napi_schedule(n, pending).pending
  <2>1. /\ napi' = ____napi_schedule(n, pending).napi /\ nt' = ____napi_schedule(n, pending).nt
        /\ sd_list' = ____napi_schedule(n, pending).list /\ irq_exit(q)
    BY <1>3 DEF napi_watchdog
  <2>2. n \in SUBSET NapiBits
    BY <1>1 DEF NapiBits
  <2>3. Handed(n, pending, nt', q)
    BY <1>1, <2>1, <2>2, HandOver
  <2> HIDE DEF q
  <2>4. q \in SUBSET Softirqs /\ nt'.pc = nt.pc
    BY <2>3 DEF Handed
  <2>5. /\ SoftTypes' /\ ContextInv'
        /\ sirq'.list <=> sirq.list
        /\ sirq'.repoll <=> sirq.repoll
        /\ pending' # {} => in_interrupt'
        /\ "NET_RX" \in q \/ (sirq.pc = "vec" /\ "NET_RX" \in sirq.todo)
             => "NET_RX" \in pending' \/ (sirq'.pc = "vec" /\ "NET_RX" \in sirq'.todo)
    BY <1>1, <2>1, <2>4, ExitKeeps DEF ctl
  <2>6. Types'
    BY <1>1, <2>3, <2>5, GroupsKept DEF Types, Handed, NapTypes, ThreadTypes
  <2>7. ~sd_list /\ ~sirq.list /\ ~sirq.repoll /\ ~Polled /\ "NPSVC" \notin napi /\ ~ThreadOwns
    BY <1>3 DEF Inv, OwnerInv
  <2>8. TaskInv'
    BY <1>1, <2>3 DEF TaskInv, Handed, ctl
  <2>9. HolderInv'
    BY <1>1, <2>3 DEF Inv, HolderInv, Handed, ctl
  <2>10. OwnerInv'
    <3>1. /\ "SCHED" \in napi' /\ "NPSVC" \notin napi' /\ ~sirq'.list /\ ~sirq'.repoll /\ ~Polled'
      BY <1>1, <2>3, <2>5, <2>7 DEF Handed, Polled
    <3>2. sd_list' <=> ~ThreadOwns'
      BY <1>1, <2>3, <2>7, OneOwner DEF ctl
    <3> QED BY <3>1, <3>2 DEF OwnerInv
  <2>11. SoftirqHandled'
    BY <1>1, <2>3, <2>5, <2>7 DEF SoftirqHandled, Handed
  <2>12. RingInv'
    BY <1>1, <2>3, <2>7 DEF Inv, RingInv, Resets, WillLook, Polled, Handed, hw, ctl
  <2> QED BY <2>5, <2>6, <2>8, <2>9, <2>10, <2>11, <2>12 DEF Inv
<1> QED BY <1>2, <1>3

------------------------------------------------------------------------------
(* Polls *)

LEMMA RxFrameKeeps == ASSUME Inv, rtl_rx_frame PROVE Inv'
<1>1. /\ pp.ctx # "none" /\ pp.pc = "rx" /\ ring > 0 /\ pp.work < Weight /\ status = {}
      /\ ring' = ring - 1 /\ pp' = [pp EXCEPT !.work = @ + 1] /\ gro' \in {gro, TRUE}
      /\ UNCHANGED <<ev, mask, status, napi, sd_list, defer, timer, soft, kd, nt, ctl>>
      /\ pp \in PollRecords
  BY DEF rtl_rx_frame, PollStep, Inv, Types
<1>2. pp' \in PollRecords /\ pp'.ctx = pp.ctx /\ pp'.pc = pp.pc
  BY <1>1, NetRxAssumption DEF PollRecords
<1>3. HwTypes' /\ NapTypes'
  <2>1. ring' \in 0 .. RingSize
    BY <1>1, NetRxAssumption DEF Inv, Types, HwTypes
  <2>2. gro \in BOOLEAN
    BY DEF Inv, Types, NapTypes
  <2>3. gro' \in BOOLEAN
    BY <1>1, <2>2
  <2> QED BY <1>1, <2>1, <2>3 DEF Inv, Types, HwTypes, NapTypes
<1>4. Types'
  BY <1>1, <1>2, <1>3, GroupsKept DEF Inv, Types
<1>5. TaskInv' /\ HolderInv'
  BY <1>1, PartsKept DEF ctl
<1>6. ContextInv'
  BY <1>1, <1>2 DEF Inv, ContextInv, soft, ctl
<1>7. OwnerInv'
  BY <1>1, <1>2 DEF Inv, OwnerInv, ThreadOwns, Polled, soft, ctl
<1>8. SoftirqHandled'
  BY <1>1, <1>2 DEF Inv, SoftirqHandled, in_interrupt, soft
<1>9. RingInv'
  <2>1. ring' > 0 => ring > 0
    BY <1>1 DEF Inv, Types, HwTypes
  <2>2. dev.chip
    BY <1>1 DEF Inv, RingInv
  <2> QED BY <1>1, <1>2, <2>1, <2>2 DEF Inv, RingInv, Resets, WillLook, ctl
<1> QED BY <1>4, <1>5, <1>6, <1>7, <1>8, <1>9 DEF Inv

LEMMA RxReturnKeeps == ASSUME Inv, rtl_rx_return PROVE Inv'
<1>1. /\ pp.ctx # "none" /\ pp.pc = "rx" /\ (ring = 0 \/ pp.work = Weight) /\ status = {}
      /\ pp' = [pp EXCEPT !.pc = IF pp.work < Weight THEN "complete" ELSE "spent"]
      /\ UNCHANGED <<hw, status, nap, soft, kd, nt, ctl>> /\ pp \in PollRecords
  BY DEF rtl_rx_return, PollStep, Inv, Types
<1>2. /\ pp' \in PollRecords /\ pp'.ctx = pp.ctx /\ pp'.pc \in {"complete", "spent"}
      /\ pp'.pc = "complete" => ring = 0
  BY <1>1, NetRxAssumption DEF PollRecords
<1>3. Types'
  BY <1>1, <1>2, GroupsKept DEF Inv, Types
<1>4. TaskInv' /\ HolderInv'
  BY <1>1, PartsKept DEF nap, ctl
<1>5. ContextInv'
  BY <1>1, <1>2 DEF Inv, ContextInv, soft, ctl
<1>6. OwnerInv'
  BY <1>1, <1>2 DEF Inv, OwnerInv, ThreadOwns, Polled, soft, nap, ctl
<1>7. SoftirqHandled'
  BY <1>1, <1>2 DEF Inv, SoftirqHandled, in_interrupt, soft, nap
<1>8. RingInv'
  BY <1>1, <1>2 DEF Inv, RingInv, Resets, WillLook, hw, nap, ctl
<1> QED BY <1>3, <1>4, <1>5, <1>6, <1>7, <1>8 DEF Inv

(* The end of a poll: net_rx_action goes on, or the napi thread enables     *)
(* softirqs, which runs what was raised meanwhile.                          *)
LEMMA ReturnKeeps ==
    ASSUME Types, ContextInv, pp.ctx # "none", dev' = dev, NEW repoll \in BOOLEAN,
           NEW p \in SUBSET Softirqs, NEW t \in NapiThreadRecords, t.pc = nt.pc,
           Returned(repoll, p, t)
    PROVE  /\ SoftTypes' /\ pp' = NoPoll /\ nt' \in NapiThreadRecords /\ ContextInv'
           /\ pending' # {} => in_interrupt'
           /\ "NET_RX" \in p => "NET_RX" \in pending' \/ (sirq'.pc = "vec" /\ "NET_RX" \in sirq'.todo)
           /\ sirq'.list <=> sirq.list
           /\ sirq'.repoll <=> sirq.repoll \/ (repoll /\ pp.ctx = "softirq")
           /\ nt'.task = t.task
           /\ nt'.pc = IF pp.ctx = "softirq" THEN nt.pc ELSE IF repoll THEN "poll" ELSE "wait"
<1>1. pp' = NoPoll /\ pp'.ctx = "none"
  BY IdleRecords DEF Returned
<1>2. CASE /\ pp.ctx = "softirq" /\ pending' = p /\ nt' = t
           /\ sirq' \in SoftirqRecords /\ sirq'.on = sirq.on /\ sirq'.todo = sirq.todo
           /\ sirq'.list = sirq.list /\ sirq'.pc \in {"loop", "end"}
           /\ sirq'.repoll <=> (sirq.repoll \/ repoll)
  <2>1. SoftTypes'
    BY <1>2 DEF SoftTypes
  <2>2. sirq.on
    BY <1>2 DEF ContextInv
  <2>3. ContextInv' /\ in_interrupt'
    BY <1>1, <1>2, <2>2 DEF ContextInv, in_interrupt
  <2> QED BY <1>1, <1>2, <2>1, <2>3
<1>3. CASE /\ pp.ctx = "thread" /\ nt' \in NapiThreadRecords /\ nt'.task = t.task
           /\ nt'.pc = IF repoll THEN "poll" ELSE "wait"
           /\ Entered(p)
  <2>1. SoftTypes'
    BY <1>3 DEF SoftTypes, Entered
  <2>2. ~sirq.on /\ sirq.pc = "vec" /\ ~sirq.list /\ ~sirq.repoll
    BY <1>3 DEF ContextInv
  <2>3. ContextInv' /\ in_interrupt'
    BY <1>1, <1>3 DEF ContextInv, in_interrupt, Entered
  <2> QED BY <1>1, <1>3, <2>1, <2>2, <2>3 DEF Entered
<1>4. CASE /\ pp.ctx = "thread" /\ nt' \in NapiThreadRecords /\ nt'.task = t.task
           /\ nt'.pc = IF repoll THEN "poll" ELSE "wait"
           /\ p = {} /\ pending' = {} /\ sirq' = sirq
  <2>1. SoftTypes'
    BY <1>4 DEF Types, SoftTypes
  <2>2. ContextInv'
    BY <1>1, <1>4 DEF ContextInv
  <2> QED BY <1>1, <1>4, <2>1, <2>2
<1> QED BY <1>2, <1>3, <1>4 DEF Returned

(* The poll of a softirq or the thread has NET_RX pending for the list. *)
LEMMA ListPending ==
    ASSUME Inv, pp.ctx # "none"
    PROVE  sd_list => "NET_RX" \in pending
BY DEF Inv, Types, PollRecords, ContextInv, SoftirqHandled

LEMMA IrqEnableKeeps == ASSUME Inv, rtl_irq_enable PROVE Inv'
<1>1. /\ pp.ctx # "none" /\ pp.pc = "enable" /\ status = {} /\ mask' = TRUE
      /\ PollReturns(FALSE, pending, nt) /\ UNCHANGED <<ring, ev, status, nap, kd, ctl>>
      /\ Types /\ ContextInv /\ pending \in SUBSET Softirqs /\ nt \in NapiThreadRecords
      /\ pp.ctx \in {"softirq", "thread"}
  BY DEF rtl_irq_enable, PollStep, Inv, Types, SoftTypes, ThreadTypes, PollRecords
<1>2. Returned(FALSE, pending, nt)
  BY <1>1, PollReturned
<1>3. /\ SoftTypes' /\ pp' = NoPoll /\ nt' \in NapiThreadRecords /\ ContextInv'
      /\ pending' # {} => in_interrupt'
      /\ "NET_RX" \in pending => "NET_RX" \in pending' \/ (sirq'.pc = "vec" /\ "NET_RX" \in sirq'.todo)
      /\ sirq'.list <=> sirq.list
      /\ sirq'.repoll <=> sirq.repoll
      /\ nt'.task = nt.task
      /\ nt'.pc = IF pp.ctx = "softirq" THEN nt.pc ELSE "wait"
  BY <1>1, <1>2, ReturnKeeps DEF ctl
<1>4. HwTypes' /\ ThreadTypes'
  BY <1>1, <1>3 DEF Types, HwTypes, ThreadTypes
<1>5. Types'
  BY <1>1, <1>3, <1>4, IdleRecords, GroupsKept DEF Types
<1>6. pp'.ctx = "none"
  BY <1>3, IdleRecords
<1>7. TaskInv'
  BY <1>1, <1>3 DEF Inv, TaskInv, ContextInv, nap, ctl
<1>8. HolderInv'
  BY <1>1, PartsKept DEF nap, ctl
<1>9. ThreadOwns' <=> ThreadOwns
  BY <1>1, <1>3, <1>6 DEF Inv, ThreadOwns, ContextInv, TaskInv, nap, ctl
<1>10. OwnerInv'
  BY <1>1, <1>3, <1>6, <1>9 DEF Inv, OwnerInv, Polled, nap
<1>11. SoftirqHandled'
  BY <1>1, <1>3, ListPending DEF SoftirqHandled, nap
<1>12. RingInv'
  BY <1>1, <1>6 DEF Inv, RingInv, Resets, WillLook, nap, ctl
<1> QED BY <1>3, <1>5, <1>7, <1>8, <1>10, <1>11, <1>12 DEF Inv

(* napi_complete_done, called by the poll that owns the napi. *)
LEMMA CompletedKeeps ==
    ASSUME Inv, pp.ctx # "none", pp.pc # "enable", status = {}, NEW enable \in BOOLEAN,
           enable => pp.pc = "complete",
           ~enable => "DISABLE" \in napi, Completed(enable), UNCHANGED <<hw, status, kd, ctl>>
    PROVE  Inv'
<1>1. /\ Types /\ ContextInv /\ TaskInv /\ HolderInv /\ OwnerInv /\ pp \in PollRecords
      /\ napi \in SUBSET NapiBits /\ pending \in SUBSET Softirqs /\ nt \in NapiThreadRecords
      /\ pp.ctx \in {"softirq", "thread"} /\ sd_list \in BOOLEAN
  BY DEF Inv, Types, NapTypes, SoftTypes, ThreadTypes, PollRecords
<1>2. /\ Polled /\ ~sd_list /\ ~sirq.list /\ ~sirq.repoll /\ "NPSVC" \notin napi /\ ~ThreadOwns
  BY <1>1 DEF OwnerInv, Polled
<1> DEFINE n == CompletedState(napi)
<1>3. /\ n \in SUBSET NapiBits /\ "SCHED_THREADED" \notin n /\ "NPSVC" \notin n
      /\ "SCHED" \in n <=> "MISSED" \in napi
      /\ "DISABLE" \in n <=> "DISABLE" \in napi
  BY <1>1, <1>2, CompletedBits
<1>4. ~enable => Resets'
  BY <1>1 DEF HolderInv, Resets, ctl
<1>5. /\ defer' \in 0 .. napi_defer_hard_irqs /\ timer' \in BOOLEAN /\ gro' \in BOOLEAN
      /\ timer => timer'
  BY DEF Completed
<1>6. CASE /\ enable /\ "MISSED" \notin napi /\ napi' = n /\ sd_list' = sd_list
           /\ pp' = [pp EXCEPT !.pc = "enable"] /\ UNCHANGED <<sirq, pending, nt>>
  <2> HIDE DEF n
  <2>1. pp' \in PollRecords /\ pp'.ctx = pp.ctx /\ pp'.pc = "enable"
    BY <1>1, <1>6 DEF PollRecords
  <2>2. Types'
    BY <1>1, <1>3, <1>5, <1>6, <2>1, GroupsKept DEF Types, NapTypes, soft
  <2>3. ContextInv'
    BY <1>1, <1>6, <2>1 DEF ContextInv, ctl
  <2>4. TaskInv'
    BY <1>1, <1>3, <1>6 DEF TaskInv, ctl
  <2>5. HolderInv'
    BY <1>1, <1>2, <1>3, <1>6 DEF HolderInv, ctl
  <2>6. ~ThreadOwns' /\ ~Polled'
    BY <1>2, <1>3, <1>6, <2>1 DEF ThreadOwns, Polled, ctl
  <2>7. OwnerInv'
    BY <1>2, <1>3, <1>6, <2>6 DEF OwnerInv
  <2>8. SoftirqHandled'
    BY <1>2, <1>6, <2>1 DEF SoftirqHandled, in_interrupt
  <2>9. RingInv'
    BY <1>6, <2>1 DEF Inv, RingInv, Resets, WillLook, hw, ctl
  <2> QED BY <2>2, <2>3, <2>4, <2>5, <2>7, <2>8, <2>9 DEF Inv
<1>7. CASE /\ "MISSED" \notin napi /\ (enable => timer')
           /\ napi' = n /\ sd_list' = sd_list /\ Returned(FALSE, pending, nt)
  <2> HIDE DEF n
  <2>1. /\ SoftTypes' /\ pp' = NoPoll /\ nt' \in NapiThreadRecords /\ ContextInv'
        /\ pending' # {} => in_interrupt'
        /\ sirq'.list <=> sirq.list
        /\ sirq'.repoll <=> sirq.repoll
        /\ nt'.task = nt.task
        /\ nt'.pc = IF pp.ctx = "softirq" THEN nt.pc ELSE "wait"
    BY <1>1, <1>7, ReturnKeeps DEF ctl
  <2>2. pp' \in PollRecords /\ pp'.ctx = "none"
    BY <2>1, IdleRecords
  <2>3. Types'
    BY <1>1, <1>3, <1>5, <1>7, <2>1, <2>2, GroupsKept DEF Types, NapTypes, ThreadTypes
  <2>4. TaskInv'
    BY <1>1, <1>3, <1>7, <2>1 DEF TaskInv, ContextInv, ctl
  <2>5. HolderInv'
    BY <1>1, <1>2, <1>3, <1>7 DEF HolderInv, ctl
  <2>6. ~ThreadOwns' /\ ~Polled'
    BY <1>1, <1>2, <1>3, <1>7, <2>1, <2>2 DEF ThreadOwns, Polled, ContextInv, TaskInv, ctl
  <2>7. OwnerInv'
    BY <1>2, <1>3, <1>7, <2>1, <2>6 DEF OwnerInv
  <2>8. SoftirqHandled'
    BY <1>2, <1>7, <2>1 DEF SoftirqHandled
  <2>9. RingInv'
    BY <1>4, <1>7 DEF Inv, RingInv, Resets, WillLook, hw, ctl
  <2> QED BY <2>1, <2>3, <2>4, <2>5, <2>7, <2>8, <2>9 DEF Inv
<1>8. CASE /\ "MISSED" \in napi
           /\ LET r == ____napi_schedule(n, pending) IN
              napi' = r.napi /\ sd_list' = r.list /\ Returned(FALSE, r.pending, r.nt)
  <2> DEFINE t == ____napi_schedule(n, pending).nt
             q == ____napi_schedule(n, pending).pending
  <2>1. Handed(n, pending, t, q)
    BY <1>1, <1>3, <1>8, HandOver
  <2>2. Returned(FALSE, q, t)
    BY <1>8
  <2> HIDE DEF n, t, q
  <2>3. q \in SUBSET Softirqs /\ t \in NapiThreadRecords /\ t.pc = nt.pc
    BY <2>1 DEF Handed
  <2>4. /\ SoftTypes' /\ pp' = NoPoll /\ nt' \in NapiThreadRecords /\ ContextInv'
        /\ pending' # {} => in_interrupt'
        /\ "NET_RX" \in q => "NET_RX" \in pending' \/ (sirq'.pc = "vec" /\ "NET_RX" \in sirq'.todo)
        /\ sirq'.list <=> sirq.list
        /\ sirq'.repoll <=> sirq.repoll
        /\ nt'.task = t.task
        /\ nt'.pc = IF pp.ctx = "softirq" THEN nt.pc ELSE "wait"
    BY <1>1, <2>2, <2>3, ReturnKeeps DEF ctl
  <2>5. pp' \in PollRecords /\ pp'.ctx = "none"
    BY <2>4, IdleRecords
  <2>6. Types'
    BY <1>1, <1>5, <2>1, <2>4, <2>5, GroupsKept DEF Types, NapTypes, ThreadTypes, Handed
  <2>7. TaskInv'
    BY <1>1, <1>3, <2>1, <2>4 DEF TaskInv, ContextInv, Handed, ctl
  <2>8. HolderInv'
    BY <1>1, <1>2, <1>3, <2>1 DEF HolderInv, Handed, ctl
  <2>9. sd_list' <=> ~ThreadOwns'
    <3>1. CASE pp.ctx = "softirq"
      <4>1. nt'.pc = t.pc /\ nt'.task = t.task
        BY <2>3, <2>4, <3>1
      <4>2. ThreadOwns' <=> /\ dev.thread
                            /\ \/ "SCHED_THREADED" \in napi'
                               \/ t.pc = "poll"
                               \/ t.pc = "woken" /\ t.task.on_rq
                               \/ t.pc \in {"test", "sleep"} /\ t.task.state = "TASK_RUNNING"
        BY <2>5, <4>1 DEF ThreadOwns, ctl
      <4>3. ~(dev.thread /\ \/ "SCHED_THREADED" \in napi
                            \/ nt.pc = "poll"
                            \/ nt.pc = "woken" /\ nt.task.on_rq
                            \/ nt.pc \in {"test", "sleep"} /\ nt.task.state = "TASK_RUNNING")
        BY <1>2, <3>1 DEF ThreadOwns
      <4>4. nt.pc \in {"wait", "test", "sleep", "woken", "poll"}
        BY <1>1 DEF NapiThreadRecords
      <4>5. dev.thread /\ nt.task.state = "TASK_INTERRUPTIBLE" => nt.pc \in {"test", "sleep", "woken"}
        BY <1>1, <4>4 DEF TaskInv
      <4> QED BY <1>2, <1>3, <2>1, <4>2, <4>3, <4>5 DEF Handed
    <3>2. CASE pp.ctx = "thread"
      <4>1. dev.thread /\ nt.task.state = "TASK_RUNNING" /\ nt'.pc = "wait"
        BY <1>1, <2>4, <3>2 DEF ContextInv, TaskInv
      <4>2. ThreadOwns' <=> "SCHED_THREADED" \in napi'
        BY <2>5, <4>1 DEF ThreadOwns, ctl
      <4> QED BY <1>2, <1>3, <2>1, <4>1, <4>2 DEF Handed
    <3> QED BY <1>1, <3>1, <3>2
  <2>10. OwnerInv'
    <3>1. "SCHED" \in napi' /\ "NPSVC" \notin napi'
      BY <1>3, <1>8, <2>1 DEF Handed
    <3>2. ~Polled' /\ ~sirq'.list /\ ~sirq'.repoll
      BY <1>2, <2>4, <2>5 DEF Polled
    <3> QED BY <2>9, <3>1, <3>2 DEF OwnerInv
  <2>11. SoftirqHandled'
    BY <1>2, <2>1, <2>4 DEF SoftirqHandled, Handed
  <2>12. RingInv'
    BY <1>3, <1>8, <2>1, <2>5 DEF Inv, RingInv, Resets, WillLook, Handed, hw, ctl
  <2> QED BY <2>4, <2>6, <2>7, <2>8, <2>10, <2>11, <2>12 DEF Inv
<1> QED BY <1>6, <1>7, <1>8 DEF Completed

LEMMA PollCompleteKeeps == ASSUME Inv, rtl8169_poll_complete PROVE Inv'
<1>1. /\ pp.ctx # "none" /\ pp.pc = "complete" /\ status = {} /\ napi_complete_done(pp.work, TRUE)
      /\ UNCHANGED <<hw, status, kd, ctl>> /\ Types
  BY DEF rtl8169_poll_complete, PollStep, Inv
<1>p. pp.work \in Nat
  BY <1>1, NetRxAssumption DEF Types, PollRecords
<1>2. Completed(TRUE)
  BY <1>1, <1>p, CompleteDone
<1> QED BY <1>1, <1>2, CompletedKeeps

LEMMA PollSpentKeeps == ASSUME Inv, napi_poll_spent PROVE Inv'
<1>1. /\ pp.ctx # "none" /\ pp.pc = "spent" /\ status = {}
      /\ UNCHANGED <<hw, status, kd, ctl>> /\ Types /\ ContextInv /\ TaskInv
      /\ pending \in SUBSET Softirqs /\ nt \in NapiThreadRecords
      /\ pp.ctx \in {"softirq", "thread"}
  BY DEF napi_poll_spent, PollStep, Inv, Types, SoftTypes, ThreadTypes, PollRecords
<1>2. CASE "DISABLE" \in napi
  <2>1. napi_complete_done(0, FALSE)
    BY <1>2 DEF napi_poll_spent
  <2>2. Completed(FALSE)
    BY <1>1, <2>1, CompleteDone
  <2> QED BY <1>1, <1>2, <2>2, CompletedKeeps
<1>3. CASE "DISABLE" \notin napi
  <2>1. PollReturns(TRUE, pending, nt) /\ gro' \in {gro, FALSE} /\ UNCHANGED <<napi, sd_list, defer, timer>>
    BY <1>3 DEF napi_poll_spent
  <2>2. Returned(TRUE, pending, nt)
    BY <1>1, <2>1, PollReturned
  <2>3. /\ SoftTypes' /\ pp' = NoPoll /\ nt' \in NapiThreadRecords /\ ContextInv'
        /\ pending' # {} => in_interrupt'
        /\ sirq'.list <=> sirq.list
        /\ sirq'.repoll <=> sirq.repoll \/ pp.ctx = "softirq"
        /\ nt'.task = nt.task
        /\ nt'.pc = IF pp.ctx = "softirq" THEN nt.pc ELSE "poll"
    BY <1>1, <2>2, ReturnKeeps DEF ctl
  <2>4. pp' \in PollRecords /\ pp'.ctx = "none"
    BY <2>3, IdleRecords
  <2>5. /\ Polled /\ ~sd_list /\ ~sirq.list /\ ~sirq.repoll /\ "NPSVC" \notin napi /\ ~ThreadOwns
        /\ "SCHED" \in napi
    BY <1>1 DEF Inv, OwnerInv, Polled
  <2>6. gro' \in BOOLEAN
    <3>1. gro \in BOOLEAN
      BY <1>1 DEF Types, NapTypes
    <3> QED BY <2>1, <3>1
  <2>7. Types'
    BY <1>1, <2>1, <2>3, <2>4, <2>6, GroupsKept DEF Types, NapTypes, ThreadTypes
  <2>8. TaskInv'
    BY <1>1, <2>1, <2>3 DEF TaskInv, ContextInv, ctl
  <2>9. HolderInv'
    BY <1>1, <2>1, PartsKept DEF ctl
  <2>10. ThreadOwns' <=> pp.ctx = "thread"
    BY <1>1, <2>1, <2>3, <2>4, <2>5 DEF ThreadOwns, ContextInv, TaskInv, ctl
  <2>11. OwnerInv'
    BY <1>1, <2>1, <2>3, <2>4, <2>5, <2>10 DEF OwnerInv, Polled
  <2>12. SoftirqHandled'
    BY <2>1, <2>3, <2>5 DEF SoftirqHandled
  <2>13. RingInv'
    BY <1>1, <2>1, <2>4 DEF Inv, RingInv, Resets, WillLook, hw, ctl
  <2> QED BY <2>3, <2>7, <2>8, <2>9, <2>11, <2>12, <2>13 DEF Inv
<1> QED BY <1>2, <1>3

------------------------------------------------------------------------------
(* ksoftirqd *)

LEMMA ShouldRunKeeps == ASSUME Inv, ksoftirqd_should_run PROVE Inv'
<1>1. /\ kd.task.on_rq /\ kd.task \in Tasks /\ UNCHANGED <<hw, status, nap, soft, pp, nt, ctl>>
  BY DEF ksoftirqd_should_run, Runnable, Inv, Types, ThreadTypes, KsoftirqdRecords
<1>2. /\ kd' \in KsoftirqdRecords /\ kd'.task.on_rq
      /\ \/ kd'.task.state = "TASK_RUNNING" /\ kd'.pc = "run"
         \/ kd'.task.state = "TASK_INTERRUPTIBLE" /\ kd'.pc = "sleep" /\ pending = {}
  <2> DEFINE r == set_current_state(kd.task, "TASK_RUNNING")
             i == set_current_state(kd.task, "TASK_INTERRUPTIBLE")
  <2>1. /\ r \in Tasks /\ r.state = "TASK_RUNNING" /\ r.on_rq = kd.task.on_rq
        /\ i \in Tasks /\ i.state = "TASK_INTERRUPTIBLE" /\ i.on_rq = kd.task.on_rq
    BY <1>1, SetState DEF TaskStates
  <2>2. kd' = IF pending # {} THEN [task |-> r, pc |-> "run"] ELSE [task |-> i, pc |-> "sleep"]
    BY DEF ksoftirqd_should_run
  <2> HIDE DEF r, i
  <2> QED BY <1>1, <2>1, <2>2 DEF KsoftirqdRecords
<1>3. Types'
  BY <1>1, <1>2, GroupsKept DEF Inv, Types, ThreadTypes
<1>4. ContextInv' /\ HolderInv' /\ OwnerInv' /\ RingInv'
  BY <1>1, PartsKept DEF nap, soft, ctl
<1>5. TaskInv'
  BY <1>1, <1>2 DEF Inv, TaskInv, nap, ctl
<1>6. SoftirqHandled'
  BY <1>1, <1>2 DEF Inv, SoftirqHandled, in_interrupt, nap, soft
<1> QED BY <1>3, <1>4, <1>5, <1>6 DEF Inv

LEMMA KsoftirqdSleepKeeps == ASSUME Inv, ksoftirqd_sleep PROVE Inv'
<1>1. /\ kd.pc = "sleep" /\ kd.task \in Tasks /\ UNCHANGED <<hw, status, nap, soft, pp, nt, ctl>>
      /\ kd' = [task |-> schedule(kd.task), pc |-> "test"]
  BY DEF ksoftirqd_sleep, Inv, Types, ThreadTypes, KsoftirqdRecords
<1>2. /\ kd' \in KsoftirqdRecords /\ kd'.pc = "test" /\ kd'.task.state = kd.task.state
      /\ kd'.task.on_rq <=> kd.task.state = "TASK_RUNNING"
  BY <1>1, Schedule DEF KsoftirqdRecords
<1>3. Types'
  BY <1>1, <1>2, GroupsKept DEF Inv, Types, ThreadTypes
<1>4. ContextInv' /\ HolderInv' /\ OwnerInv' /\ RingInv'
  BY <1>1, PartsKept DEF nap, soft, ctl
<1>5. TaskInv'
  BY <1>1, <1>2 DEF Inv, TaskInv, nap, ctl
<1>6. SoftirqHandled'
  BY <1>1, <1>2 DEF Inv, SoftirqHandled, in_interrupt, nap, soft
<1> QED BY <1>3, <1>4, <1>5, <1>6 DEF Inv

LEMMA RunKsoftirqdKeeps == ASSUME Inv, run_ksoftirqd PROVE Inv'
<1>1. /\ ~sirq.on /\ pp.ctx = "none" /\ kd' = [kd EXCEPT !.pc = "test"] /\ kd \in KsoftirqdRecords
      /\ UNCHANGED <<hw, status, nap, pp, nt, ctl>> /\ pending \in SUBSET Softirqs
  BY DEF run_ksoftirqd, Thread, Inv, Types, SoftTypes, ThreadTypes
<1>2. kd' \in KsoftirqdRecords /\ kd'.pc = "test" /\ kd'.task = kd.task
  BY <1>1 DEF KsoftirqdRecords
<1>3. Entered(pending) \/ (pending = {} /\ UNCHANGED soft)
  BY <1>1, DoSoftirq DEF run_ksoftirqd
<1>4. Types'
  BY <1>1, <1>2, <1>3, GroupsKept DEF Inv, Types, ThreadTypes, SoftTypes, Entered
<1>5. HolderInv' /\ RingInv'
  BY <1>1, PartsKept DEF nap, ctl
<1>6. ContextInv'
  BY <1>1, <1>3 DEF Inv, ContextInv, Entered, soft, ctl
<1>7. TaskInv'
  BY <1>1, <1>2 DEF Inv, TaskInv, nap, ctl
<1>8. OwnerInv'
  BY <1>1, <1>3 DEF Inv, ContextInv, OwnerInv, ThreadOwns, Polled, Entered, soft, nap, ctl
<1>9. SoftirqHandled'
  BY <1>1, <1>3 DEF Inv, ContextInv, SoftirqHandled, in_interrupt, Entered, soft, nap
<1> QED BY <1>4, <1>5, <1>6, <1>7, <1>8, <1>9 DEF Inv

------------------------------------------------------------------------------
(* The napi thread *)

(* A step of the thread that leaves its ownership as it is. *)
LEMMA ThreadMoves ==
    ASSUME Inv, dev.thread, pp.ctx = "none", nt' \in NapiThreadRecords,
           UNCHANGED <<hw, status, nap, soft, pp, kd, ctl>>,
           nt'.pc \in {"wait", "poll"} => nt'.task.state = "TASK_RUNNING" /\ nt'.task.on_rq,
           nt'.pc \in {"test", "sleep"} => nt'.task.on_rq,
           nt'.pc = "woken" => (nt'.task.on_rq <=> nt'.task.state = "TASK_RUNNING"),
           nt'.task.state \in {"TASK_RUNNING", "TASK_INTERRUPTIBLE"},
           ThreadOwns' <=> ThreadOwns
    PROVE  Inv'
<1>1. Types'
  BY GroupsKept DEF Inv, Types, ThreadTypes
<1>2. ContextInv'
  BY DEF Inv, ContextInv, soft, ctl
<1>3. TaskInv'
  BY DEF Inv, TaskInv, nap, ctl
<1>4. OwnerInv'
  BY DEF Inv, OwnerInv, Polled, soft, nap
<1>5. HolderInv' /\ SoftirqHandled' /\ RingInv'
  BY PartsKept DEF soft, nap, ctl
<1> QED BY <1>1, <1>2, <1>3, <1>4, <1>5 DEF Inv

(* The thread is where it may run, and its task may be woken or not. *)
LEMMA ThreadRuns ==
    ASSUME Inv, NEW pc, NapiThread(pc)
    PROVE  /\ dev.thread /\ pp.ctx = "none" /\ nt.pc = pc /\ nt.task.on_rq
           /\ nt \in NapiThreadRecords /\ nt.task \in Tasks
           /\ nt.task.state \in {"TASK_RUNNING", "TASK_INTERRUPTIBLE"}
BY DEF NapiThread, Thread, Runnable, Inv, Types, ThreadTypes, NapiThreadRecords, TaskInv

LEMMA ThreadArmKeeps == ASSUME Inv, napi_thread_arm PROVE Inv'
<1> DEFINE i == set_current_state(nt.task, "TASK_INTERRUPTIBLE")
<1>1. /\ dev.thread /\ pp.ctx = "none" /\ nt.pc = "wait" /\ nt.task.on_rq
      /\ nt \in NapiThreadRecords /\ nt.task \in Tasks
  BY ThreadRuns DEF napi_thread_arm
<1>2. UNCHANGED <<hw, status, nap, soft, pp, kd, ctl>> /\ nt' = [nt EXCEPT !.task = i, !.pc = "test"]
  BY DEF napi_thread_arm
<1>3. i \in Tasks /\ i.state = "TASK_INTERRUPTIBLE" /\ i.on_rq = nt.task.on_rq
  BY <1>1, SetState DEF TaskStates
<1> HIDE DEF i
<1>4. nt' \in NapiThreadRecords /\ nt'.pc = "test" /\ nt'.task = i
  BY <1>1, <1>2, <1>3 DEF NapiThreadRecords
<1>5. nt'.task.state = "TASK_INTERRUPTIBLE" /\ nt'.task.on_rq
  BY <1>1, <1>3, <1>4
<1>6. ThreadOwns' <=> ThreadOwns
  BY <1>1, <1>2, <1>4, <1>5 DEF ThreadOwns, nap, ctl
<1> QED BY <1>1, <1>2, <1>4, <1>5, <1>6, ThreadMoves

LEMMA ThreadTestKeeps == ASSUME Inv, napi_thread_test PROVE Inv'
<1> DEFINE r == set_current_state(nt.task, "TASK_RUNNING")
<1>1. /\ dev.thread /\ pp.ctx = "none" /\ nt.pc = "test" /\ nt.task.on_rq
      /\ nt \in NapiThreadRecords /\ nt.task \in Tasks
      /\ nt.task.state \in {"TASK_RUNNING", "TASK_INTERRUPTIBLE"}
  BY ThreadRuns DEF napi_thread_test
<1>2. /\ UNCHANGED <<hw, status, nap, soft, pp, kd, ctl>>
      /\ nt' = IF "SCHED_THREADED" \in napi THEN [task |-> r, pc |-> "poll"]
               ELSE [nt EXCEPT !.pc = "sleep"]
  BY DEF napi_thread_test
<1>3. r \in Tasks /\ r.state = "TASK_RUNNING" /\ r.on_rq = nt.task.on_rq
  BY <1>1, SetState DEF TaskStates
<1> HIDE DEF r
<1>4. CASE "SCHED_THREADED" \in napi
  <2>1. nt' \in NapiThreadRecords /\ nt'.pc = "poll" /\ nt'.task = r
    BY <1>2, <1>3, <1>4 DEF NapiThreadRecords
  <2>2. nt'.task.state = "TASK_RUNNING" /\ nt'.task.on_rq
    BY <1>1, <1>3, <2>1
  <2>3. ThreadOwns' <=> ThreadOwns
    BY <1>1, <1>2, <1>4, <2>1 DEF ThreadOwns, nap, ctl
  <2> QED BY <1>1, <1>2, <2>1, <2>2, <2>3, ThreadMoves
<1>5. CASE "SCHED_THREADED" \notin napi
  <2>1. nt' \in NapiThreadRecords /\ nt'.pc = "sleep" /\ nt'.task = nt.task
    BY <1>1, <1>2, <1>5 DEF NapiThreadRecords
  <2>2. ThreadOwns' <=> ThreadOwns
    BY <1>1, <1>2, <2>1 DEF ThreadOwns, nap, ctl
  <2> QED BY <1>1, <1>2, <2>1, <2>2, ThreadMoves
<1> QED BY <1>4, <1>5

LEMMA ThreadSleepKeeps == ASSUME Inv, napi_thread_sleep PROVE Inv'
<1>1. /\ dev.thread /\ pp.ctx = "none" /\ nt.pc = "sleep"
      /\ nt \in NapiThreadRecords /\ nt.task \in Tasks
      /\ nt.task.state \in {"TASK_RUNNING", "TASK_INTERRUPTIBLE"}
  BY ThreadRuns DEF napi_thread_sleep
<1>2. /\ UNCHANGED <<hw, status, nap, soft, pp, kd, ctl>>
      /\ nt' = [task |-> schedule(nt.task), pc |-> "woken"]
  BY DEF napi_thread_sleep
<1>3. /\ nt' \in NapiThreadRecords /\ nt'.pc = "woken" /\ nt'.task.state = nt.task.state
      /\ nt'.task.on_rq <=> nt.task.state = "TASK_RUNNING"
  BY <1>1, <1>2, Schedule DEF NapiThreadRecords
<1>4. ThreadOwns' <=> ThreadOwns
  BY <1>1, <1>2, <1>3 DEF ThreadOwns, nap, ctl
<1> QED BY <1>1, <1>2, <1>3, <1>4, ThreadMoves

LEMMA ThreadWokenKeeps == ASSUME Inv, napi_thread_woken PROVE Inv'
<1> DEFINE r == set_current_state(nt.task, "TASK_RUNNING")
<1>1. /\ dev.thread /\ pp.ctx = "none" /\ nt.pc = "woken" /\ nt.task.on_rq
      /\ nt \in NapiThreadRecords /\ nt.task \in Tasks
  BY ThreadRuns DEF napi_thread_woken
<1>2. UNCHANGED <<hw, status, nap, soft, pp, kd, ctl>> /\ nt' = [task |-> r, pc |-> "poll"]
  BY DEF napi_thread_woken
<1>3. r \in Tasks /\ r.state = "TASK_RUNNING" /\ r.on_rq = nt.task.on_rq
  BY <1>1, SetState DEF TaskStates
<1> HIDE DEF r
<1>4. nt' \in NapiThreadRecords /\ nt'.pc = "poll" /\ nt'.task = r
  BY <1>2, <1>3 DEF NapiThreadRecords
<1>5. nt'.task.state = "TASK_RUNNING" /\ nt'.task.on_rq
  BY <1>1, <1>3, <1>4
<1>6. ThreadOwns' <=> ThreadOwns
  BY <1>1, <1>2, <1>4 DEF ThreadOwns, nap, ctl
<1> QED BY <1>1, <1>2, <1>4, <1>5, <1>6, ThreadMoves

LEMMA ThreadedPollKeeps == ASSUME Inv, napi_threaded_poll PROVE Inv'
<1>1. /\ dev.thread /\ pp.ctx = "none" /\ nt.pc = "poll"
  BY ThreadRuns DEF napi_threaded_poll
<1>2. ~sirq.on /\ UNCHANGED <<hw, status, nap, soft, kd, ctl>> /\ status = {}
  BY DEF napi_threaded_poll, NapiThread, Thread
<1>3. "SCHED" \in napi /\ ThreadOwns
  BY <1>1 DEF Inv, OwnerInv, ThreadOwns
<1>4. pp' \in PollRecords /\ pp'.ctx = "thread" /\ pp'.pc = "rx" /\ nt' = nt
  BY <1>3, IdleRecords DEF napi_threaded_poll, PollRecords, NoPoll
<1>5. Types'
  BY <1>2, <1>4, GroupsKept DEF Inv, Types
<1>6. ContextInv'
  BY <1>1, <1>2, <1>4 DEF Inv, ContextInv, soft, ctl
<1>7. TaskInv' /\ HolderInv'
  BY <1>2, <1>4, PartsKept DEF nap, ctl
<1>8. OwnerInv'
  BY <1>2, <1>3, <1>4 DEF Inv, OwnerInv, ThreadOwns, Polled, soft, nap, ctl
<1>9. SoftirqHandled'
  BY <1>2, <1>4 DEF Inv, SoftirqHandled, in_interrupt, soft, nap
<1>10. RingInv'
  BY <1>1, <1>2, <1>3, <1>4 DEF Inv, RingInv, WillLook, Resets, hw, nap, ctl
<1> QED BY <1>5, <1>6, <1>7, <1>8, <1>9, <1>10 DEF Inv

------------------------------------------------------------------------------
(* The holders of rtnl *)

(* NAPI is enabled again by the holder that has disabled it. *)
LEMMA Enabled ==
    ASSUME Inv, Thread, "NPSVC" \in napi, adm'.who # "none",
           napi' = (napi \ {"SCHED", "NPSVC"})
                   \cup (IF dev.threaded /\ dev.thread THEN {"THREADED"} ELSE {}),
           dev'.thread = dev.thread, dev'.chip = dev.chip,
           UNCHANGED <<ring, status, sd_list, pp, soft, kd, nt>>
    PROVE  ContextInv' /\ TaskInv' /\ OwnerInv' /\ SoftirqHandled' /\ RingInv'
<1>1. \A b \in {"SCHED", "NPSVC"} : b \notin napi'
  OBVIOUS
<1>2. \A b \in {"SCHED_THREADED", "MISSED", "DISABLE"} : b \in napi' <=> b \in napi
  OBVIOUS
<1>3. ContextInv'
  BY DEF Inv, ContextInv, soft
<1>4. TaskInv'
  BY <1>2 DEF Inv, TaskInv
<1>5. ThreadOwns' <=> ThreadOwns
  BY <1>2 DEF ThreadOwns
<1>6. OwnerInv'
  BY <1>1, <1>5 DEF Inv, OwnerInv, Polled, soft
<1>7. SoftirqHandled'
  BY DEF Inv, SoftirqHandled, in_interrupt, soft
<1>8. RingInv'
  BY DEF Inv, RingInv, Resets, Thread
<1> QED BY <1>3, <1>4, <1>6, <1>7, <1>8

LEMMA UpKeeps == ASSUME Inv, rtl8169_up PROVE Inv'
<1> USE DEF Rest, Same
<1>1. /\ Thread /\ adm.who = "none" /\ ~dev.running /\ dev' = [dev EXCEPT !.running = TRUE]
      /\ napi' = (napi \ {"SCHED", "NPSVC"})
                 \cup (IF dev.threaded /\ dev.thread THEN {"THREADED"} ELSE {})
      /\ wk' = [wk EXCEPT !.flags = @ \cup {"ENABLED"}] /\ adm' = [who |-> "open", pc |-> "disable"]
      /\ UNCHANGED <<ring, ev, mask, status, sd_list, gro, defer, timer, soft, pp, kd, nt,
                     ksoftirqd_test, left>>
  BY DEF rtl8169_up
<1>2. CtlTypes' /\ dev'.running /\ dev'.thread = dev.thread /\ dev'.chip = dev.chip
  BY <1>1 DEF Inv, Types, CtlTypes
<1>3. adm.pc = "idle" /\ "NPSVC" \in napi /\ "DISABLE" \notin napi
  BY <1>1 DEF Inv, HolderInv
<1>4. adm'.who = "open" /\ adm'.pc = "disable"
  BY <1>1
<1>5. NapTypes' /\ "DISABLE" \notin napi'
  BY <1>1, <1>3 DEF Inv, Types, NapTypes, NapiBits
<1>6. Types'
  BY <1>1, <1>2, <1>5, GroupsKept DEF Inv, Types, hw
<1>7. HolderInv'
  BY <1>2, <1>4, <1>5 DEF HolderInv
<1>8. ContextInv' /\ TaskInv' /\ OwnerInv' /\ SoftirqHandled' /\ RingInv'
  BY <1>1, <1>2, <1>3, <1>4, Enabled
<1> QED BY <1>6, <1>7, <1>8 DEF Inv

LEMMA EnableKeeps == ASSUME Inv, napi_enable PROVE Inv'
<1> USE DEF Rest, Same
<1>1. /\ Thread /\ adm.pc = "enable" /\ adm.who # "none"
      /\ napi' = (napi \ {"SCHED", "NPSVC"})
                 \cup (IF dev.threaded /\ dev.thread THEN {"THREADED"} ELSE {})
      /\ adm' = [adm EXCEPT !.pc = "start"]
      /\ UNCHANGED <<ring, ev, mask, status, sd_list, gro, defer, timer, soft, pp, kd, nt, dev, wk,
                     ksoftirqd_test, left>>
  BY DEF napi_enable, Rtnl
<1>2. CtlTypes' /\ adm'.who = adm.who /\ adm'.pc = "start"
  BY <1>1 DEF Inv, Types, CtlTypes
<1>3. "NPSVC" \in napi /\ "DISABLE" \notin napi
  BY <1>1 DEF Inv, HolderInv
<1>4. NapTypes' /\ "DISABLE" \notin napi'
  BY <1>1, <1>3 DEF Inv, Types, NapTypes, NapiBits
<1>5. Types'
  BY <1>1, <1>2, <1>4, GroupsKept DEF Inv, Types, hw
<1>6. HolderInv'
  BY <1>1, <1>2, <1>4 DEF Inv, HolderInv
<1>7. ContextInv' /\ TaskInv' /\ OwnerInv' /\ SoftirqHandled' /\ RingInv'
  BY <1>1, <1>2, <1>3, Enabled
<1> QED BY <1>5, <1>6, <1>7 DEF Inv

LEMMA DownKeeps == ASSUME Inv, rtl8169_down PROVE Inv'
<1> USE DEF Rest
<1>1. /\ Thread /\ adm.who = "none" /\ dev' = [dev EXCEPT !.running = FALSE]
      /\ wk' = [wk EXCEPT !.flags = {}] /\ adm' = [who |-> "close", pc |-> "disable"]
      /\ left > 0 /\ left' = left - 1
      /\ UNCHANGED <<hw, status, nap, pp, soft, kd, nt, ksoftirqd_test>>
  BY DEF rtl8169_down, Spend, hw, nap
<1>2. /\ CtlTypes' /\ ~dev'.running /\ dev'.thread = dev.thread /\ dev'.chip = dev.chip
  <2>1. left' \in 0 .. Budget
    BY <1>1, NetRxAssumption DEF Inv, Types, CtlTypes
  <2> QED BY <1>1, <2>1 DEF Inv, Types, CtlTypes
<1>3. Types'
  BY <1>1, <1>2, GroupsKept DEF Inv, Types
<1>4. adm'.who = "close" /\ adm'.pc = "disable" /\ adm.pc = "idle"
  BY <1>1 DEF Inv, HolderInv
<1>5. HolderInv'
  BY <1>1, <1>2, <1>4 DEF Inv, HolderInv, nap
<1>6. SoftirqHandled'
  BY <1>1, PartsKept DEF soft, nap
<1>7. ContextInv'
  BY <1>1, <1>2 DEF Inv, ContextInv, soft
<1>8. TaskInv'
  BY <1>1, <1>2 DEF Inv, TaskInv, nap
<1>9. OwnerInv'
  BY <1>1, <1>2 DEF Inv, OwnerInv, ThreadOwns, Polled, soft, nap
<1>10. RingInv'
  BY <1>1, <1>2, <1>4 DEF Inv, RingInv, Resets, WillLook, hw, nap
<1> QED BY <1>3, <1>5, <1>6, <1>7, <1>8, <1>9, <1>10 DEF Inv

LEMMA WorkerTakesKeeps == ASSUME Inv, worker_takes PROVE Inv'
<1> USE DEF Rest, Same
<1>1. /\ wk' = [wk EXCEPT !.queued = FALSE, !.active = TRUE]
      /\ UNCHANGED <<hw, status, nap, pp, soft, kd, nt, dev, adm, ksoftirqd_test, left>>
  BY DEF worker_takes, hw, nap
<1>2. CtlTypes' /\ wk'.flags = wk.flags
  BY <1>1 DEF Inv, Types, CtlTypes
<1>3. Types'
  BY <1>1, <1>2, GroupsKept DEF Inv, Types
<1>4. ContextInv' /\ TaskInv' /\ HolderInv' /\ OwnerInv' /\ SoftirqHandled'
  BY <1>1, PartsKept DEF soft, nap
<1>5. RingInv'
  BY <1>1, <1>2 DEF Inv, RingInv, Resets, WillLook, hw, nap
<1> QED BY <1>3, <1>4, <1>5 DEF Inv

LEMMA TaskKeeps == ASSUME Inv, rtl_task PROVE Inv'
<1> USE DEF Rest, Same
<1>1. /\ adm.who = "none" /\ UNCHANGED <<hw, status, nap, pp, soft, kd, nt, dev, ksoftirqd_test, left>>
  BY DEF rtl_task, hw, nap
<1>2. /\ CtlTypes'
      /\ \/ adm'.who = "worker" /\ adm'.pc = "disable" /\ dev.running
         \/ adm' = adm /\ wk'.flags = wk.flags
  <2>1. CASE dev.running /\ {"ENABLED", "RESET_PENDING"} \subseteq wk.flags
    <3>1. wk' = [wk EXCEPT !.flags = @ \ {"RESET_PENDING"}] /\ adm' = [who |-> "worker", pc |-> "disable"]
      BY <2>1 DEF rtl_task
    <3> QED BY <1>1, <2>1, <3>1 DEF Inv, Types, CtlTypes
  <2>2. CASE ~(dev.running /\ {"ENABLED", "RESET_PENDING"} \subseteq wk.flags)
    <3>1. wk' = [wk EXCEPT !.active = FALSE] /\ adm' = adm
      BY <2>2 DEF rtl_task
    <3> QED BY <1>1, <3>1 DEF Inv, Types, CtlTypes
  <2> QED BY <2>1, <2>2
<1>3. Types'
  BY <1>1, <1>2, GroupsKept DEF Inv, Types
<1>4. ContextInv' /\ TaskInv' /\ OwnerInv' /\ SoftirqHandled'
  BY <1>1, PartsKept DEF soft, nap
<1>5. HolderInv'
  BY <1>1, <1>2 DEF Inv, HolderInv, nap
<1>6. RingInv'
  BY <1>1, <1>2 DEF Inv, RingInv, Resets, WillLook, hw, nap
<1> QED BY <1>3, <1>4, <1>5, <1>6 DEF Inv

LEMMA DisableBeginKeeps == ASSUME Inv, napi_disable_begin PROVE Inv'
<1> USE DEF Rest, Same
<1>1. /\ adm.pc = "disable" /\ adm.who # "none" /\ napi' = napi \cup {"DISABLE"}
      /\ adm' = [adm EXCEPT !.pc = "wait"]
      /\ UNCHANGED <<hw, status, sd_list, gro, defer, timer, pp, soft, kd, nt, dev, wk,
                     ksoftirqd_test, left>>
  BY DEF napi_disable_begin, Rtnl, hw
<1>2. CtlTypes' /\ adm'.who = adm.who /\ adm'.pc = "wait"
  BY <1>1 DEF Inv, Types, CtlTypes
<1>3. NapTypes'
  BY <1>1 DEF Inv, Types, NapTypes, NapiBits
<1>4. Types'
  BY <1>1, <1>2, <1>3, GroupsKept DEF Inv, Types
<1>5. ContextInv' /\ SoftirqHandled'
  BY <1>1, PartsKept DEF soft
<1>6. TaskInv'
  BY <1>1 DEF Inv, TaskInv
<1>7. HolderInv'
  BY <1>1, <1>2 DEF Inv, HolderInv
<1>8. OwnerInv'
  BY <1>1 DEF Inv, OwnerInv, ThreadOwns, Polled, soft
<1>9. RingInv'
  BY <1>1, <1>2 DEF Inv, RingInv, Resets, WillLook, hw
<1> QED BY <1>4, <1>5, <1>6, <1>7, <1>8, <1>9 DEF Inv

LEMMA DisableKeeps == ASSUME Inv, napi_disable PROVE Inv'
<1> USE DEF Rest, Same
<1>1. /\ adm.pc = "wait" /\ adm.who # "none" /\ "SCHED" \notin napi
      /\ napi' = (napi \cup {"SCHED", "NPSVC"}) \ {"DISABLE", "THREADED"}
      /\ timer' = FALSE /\ adm' = [adm EXCEPT !.pc = "mask"]
      /\ UNCHANGED <<hw, status, sd_list, gro, defer, pp, soft, kd, nt, dev, wk,
                     ksoftirqd_test, left>>
  BY DEF napi_disable, Rtnl, hw
<1>2. CtlTypes' /\ adm'.who = adm.who /\ adm'.pc = "mask"
  BY <1>1 DEF Inv, Types, CtlTypes
<1>3. NapTypes'
  BY <1>1 DEF Inv, Types, NapTypes, NapiBits
<1>4. Types'
  BY <1>1, <1>2, <1>3, GroupsKept DEF Inv, Types
<1>5. ContextInv' /\ SoftirqHandled'
  BY <1>1, PartsKept DEF soft
<1>6. TaskInv'
  BY <1>1 DEF Inv, TaskInv
<1>7. HolderInv'
  BY <1>1, <1>2 DEF Inv, HolderInv
<1>8. OwnerInv'
  BY <1>1 DEF Inv, OwnerInv, ThreadOwns, Polled, soft
<1>9. RingInv'
  BY <1>1, <1>2 DEF Inv, RingInv, Resets, WillLook, hw
<1> QED BY <1>4, <1>5, <1>6, <1>7, <1>8, <1>9 DEF Inv

LEMMA CleanupKeeps == ASSUME Inv, rtl8169_cleanup PROVE Inv'
<1>1. /\ adm.pc = "mask" /\ adm.who # "none" /\ mask' = FALSE /\ ev' = {} /\ ring' = 0
      /\ dev' = [dev EXCEPT !.chip = FALSE]
      /\ adm' = [adm EXCEPT !.pc = IF adm.who = "close" THEN "cancel" ELSE "enable"]
      /\ UNCHANGED <<status, nap, soft, pp, kd, nt, wk, ksoftirqd_test, left>>
  BY DEF rtl8169_cleanup, Rtnl
<1>2. /\ CtlTypes' /\ adm'.who = adm.who /\ dev'.chip = FALSE
      /\ dev'.thread = dev.thread /\ dev'.running = dev.running
      /\ adm'.pc \in {"cancel", "enable"} /\ (adm'.pc = "enable" => adm.who \in {"open", "worker"})
  BY <1>1 DEF Inv, Types, CtlTypes
<1>3. HwTypes'
  <2>1. 0 \in 0 .. RingSize
    BY NetRxAssumption
  <2> QED BY <1>1, <2>1 DEF HwTypes
<1>4. Types'
  BY <1>1, <1>2, <1>3, GroupsKept DEF Inv, Types
<1>5. SoftirqHandled'
  BY <1>1, PartsKept DEF soft, nap
<1>6. ContextInv'
  BY <1>1, <1>2 DEF Inv, ContextInv, soft
<1>7. TaskInv'
  BY <1>1, <1>2 DEF Inv, TaskInv, nap
<1>8. HolderInv'
  BY <1>1, <1>2 DEF Inv, HolderInv, nap
<1>9. OwnerInv'
  BY <1>1, <1>2 DEF Inv, OwnerInv, ThreadOwns, Polled, soft, nap
<1>10. RingInv'
  BY <1>1, <1>2 DEF RingInv
<1> QED BY <1>4, <1>5, <1>6, <1>7, <1>8, <1>9, <1>10 DEF Inv

LEMMA HwStartKeeps == ASSUME Inv, rtl_hw_start PROVE Inv'
<1> USE DEF Rest, Same
<1>1. /\ Thread /\ adm.pc = "start" /\ dev' = [dev EXCEPT !.chip = TRUE] /\ mask' = TRUE /\ adm' = Idle
      /\ wk' = IF adm.who = "worker" THEN [wk EXCEPT !.active = FALSE] ELSE wk
      /\ UNCHANGED <<ring, ev, status, nap, soft, pp, kd, nt, ksoftirqd_test, left>>
  BY DEF rtl_hw_start, Rtnl
<1>2. /\ CtlTypes' /\ adm'.who = "none" /\ adm'.pc = "idle" /\ dev'.chip = TRUE
      /\ dev'.thread = dev.thread /\ dev'.running = dev.running
  BY <1>1 DEF Inv, Types, CtlTypes, Idle
<1>3. HwTypes'
  BY <1>1 DEF Inv, Types, HwTypes
<1>4. Types'
  BY <1>1, <1>2, <1>3, GroupsKept DEF Inv, Types
<1>5. SoftirqHandled'
  BY <1>1, PartsKept DEF soft, nap
<1>6. ContextInv'
  BY <1>1, <1>2 DEF Inv, ContextInv, soft
<1>7. TaskInv'
  BY <1>1, <1>2 DEF Inv, TaskInv, nap
<1>8. HolderInv'
  BY <1>1, <1>2 DEF Inv, HolderInv, nap
<1>9. OwnerInv'
  BY <1>1, <1>2 DEF Inv, OwnerInv, ThreadOwns, Polled, soft, nap
<1>10. ring = 0 /\ status = {}
  BY <1>1 DEF Inv, HolderInv, RingInv, Thread
<1>11. RingInv'
  BY <1>1, <1>2, <1>10 DEF RingInv
<1> QED BY <1>4, <1>5, <1>6, <1>7, <1>8, <1>9, <1>11 DEF Inv

LEMMA CancelKeeps == ASSUME Inv, cancel_work_sync PROVE Inv'
<1> USE DEF Rest, Same
<1>1. /\ adm.pc = "cancel" /\ wk' = [wk EXCEPT !.queued = FALSE] /\ adm' = Idle
      /\ UNCHANGED <<hw, status, nap, soft, pp, kd, nt, dev, ksoftirqd_test, left>>
  BY DEF cancel_work_sync, Rtnl, hw, nap
<1>2. CtlTypes' /\ adm'.who = "none" /\ adm'.pc = "idle"
  BY <1>1 DEF Inv, Types, CtlTypes, Idle
<1>3. Types'
  BY <1>1, <1>2, GroupsKept DEF Inv, Types
<1>4. ContextInv' /\ TaskInv' /\ OwnerInv' /\ SoftirqHandled'
  BY <1>1, PartsKept DEF soft, nap
<1>5. HolderInv'
  BY <1>1, <1>2 DEF Inv, HolderInv, nap
<1>6. RingInv'
  BY <1>1 DEF Inv, HolderInv, RingInv, hw
<1> QED BY <1>3, <1>4, <1>5, <1>6 DEF Inv

LEMMA SetThreadedKeeps == ASSUME Inv, dev_set_threaded PROVE Inv'
<1>1. PICK created \in (IF ~dev.threaded /\ ~dev.thread THEN BOOLEAN ELSE {dev.thread}) :
         LET on == ~dev.threaded /\ created IN
         /\ dev' = [dev EXCEPT !.threaded = on, !.thread = created]
         /\ nt' = IF created /\ ~dev.thread THEN [task |-> kthread_run, pc |-> "wait"] ELSE nt
         /\ napi' = IF on THEN napi \cup {"THREADED"} ELSE napi \ {"THREADED"}
  BY DEF dev_set_threaded
<1>2. /\ Thread /\ adm.who = "none" /\ left > 0 /\ left' = left - 1
      /\ UNCHANGED <<hw, status, sd_list, gro, defer, timer, soft, pp, kd, wk, adm, ksoftirqd_test>>
  BY DEF dev_set_threaded, Spend
<1>3. dev.thread \in BOOLEAN /\ dev.threaded \in BOOLEAN
  BY DEF Inv, Types, CtlTypes
<1>4. created \in BOOLEAN /\ (dev.thread => created)
  BY <1>3
<1> DEFINE on == ~dev.threaded /\ created
<1>5. dev' = [dev EXCEPT !.threaded = on, !.thread = created]
  BY <1>1
<1>6. on \in BOOLEAN
  OBVIOUS
<1> HIDE DEF on
<1>7. left' \in 0 .. Budget
  BY <1>2, NetRxAssumption DEF Inv, Types, CtlTypes
<1>8. CtlTypes' /\ dev'.thread = created /\ dev'.chip = dev.chip /\ dev'.running = dev.running
  BY <1>2, <1>4, <1>5, <1>6, <1>7 DEF Inv, Types, CtlTypes
<1>9. /\ napi' \subseteq NapiBits
      /\ \A b \in {"SCHED", "MISSED", "DISABLE", "NPSVC", "SCHED_THREADED"} : b \in napi' <=> b \in napi
  BY <1>1 DEF Inv, Types, NapTypes, NapiBits
<1>10. /\ nt' \in NapiThreadRecords
       /\ \/ dev.thread = created /\ nt' = nt
          \/ /\ ~dev.thread /\ nt'.pc = "wait" /\ nt'.task.state = "TASK_RUNNING" /\ nt'.task.on_rq
  <2>1. nt \in NapiThreadRecords
    BY DEF Inv, Types, ThreadTypes
  <2>2. CASE created /\ ~dev.thread
    BY <1>1, <2>2, NewTask DEF NapiThreadRecords
  <2>3. CASE ~(created /\ ~dev.thread)
    BY <1>1, <1>3, <1>4, <2>1, <2>3
  <2> QED BY <2>2, <2>3
<1>11. Types'
  BY <1>2, <1>8, <1>9, <1>10, GroupsKept DEF Inv, Types, NapTypes, ThreadTypes
<1>12. pp.ctx = "none"
  BY <1>2 DEF Thread
<1>13. ContextInv'
  BY <1>2, <1>12 DEF Inv, ContextInv, soft
<1>14. TaskInv'
  BY <1>2, <1>8, <1>9, <1>10 DEF Inv, TaskInv
<1>15. HolderInv'
  BY <1>2, <1>8, <1>9 DEF Inv, HolderInv
<1>16. ThreadOwns' <=> ThreadOwns
  BY <1>2, <1>8, <1>9, <1>10, <1>12 DEF Inv, ThreadOwns, TaskInv
<1>17. OwnerInv'
  BY <1>2, <1>9, <1>16 DEF Inv, OwnerInv, Polled, soft
<1>18. SoftirqHandled'
  BY <1>2, PartsKept DEF soft
<1>19. RingInv'
  BY <1>2, <1>8, <1>9 DEF Inv, RingInv, Resets, WillLook, hw
<1> QED BY <1>11, <1>13, <1>14, <1>15, <1>17, <1>18, <1>19 DEF Inv

LEMMA SwitchKeeps == ASSUME Inv, set_ksoftirqd_test PROVE Inv'
<1>1. /\ left > 0 /\ left' = left - 1 /\ ksoftirqd_test' = 1 - ksoftirqd_test
      /\ UNCHANGED <<hw, status, nap, soft, pp, kd, nt, dev, wk, adm>>
  BY DEF set_ksoftirqd_test, Spend
<1>2. CtlTypes'
  BY <1>1, NetRxAssumption DEF Inv, Types, CtlTypes
<1>3. Types'
  BY <1>1, <1>2, GroupsKept DEF Inv, Types
<1>4. ContextInv' /\ TaskInv' /\ HolderInv' /\ OwnerInv' /\ SoftirqHandled' /\ RingInv'
  BY <1>1, PartsKept DEF soft, nap
<1> QED BY <1>3, <1>4 DEF Inv

------------------------------------------------------------------------------
(* The theorems *)

LEMMA InvInit == Init => Inv
<1> SUFFICES ASSUME Init PROVE Inv
  OBVIOUS
<1>1. /\ ring = 0 /\ ev = {} /\ mask = FALSE /\ status = {}
      /\ napi = {"SCHED", "NPSVC"} /\ sd_list = FALSE /\ gro = FALSE
      /\ defer = 0 /\ timer = FALSE /\ pending = {} /\ sirq = NoSoftirq /\ pp = NoPoll
      /\ kd = [task |-> kthread_run, pc |-> "test"] /\ nt = [task |-> NoTask, pc |-> "wait"]
      /\ dev = [threaded |-> FALSE, thread |-> FALSE, running |-> FALSE, chip |-> FALSE]
      /\ wk = [flags |-> {}, queued |-> FALSE, active |-> FALSE] /\ adm = Idle
      /\ ksoftirqd_test \in 0 .. 1 /\ left = Budget
  BY DEF Init
<1>2. 0 \in 0 .. RingSize /\ 0 \in 0 .. napi_defer_hard_irqs /\ Budget \in 0 .. Budget
  BY NetRxAssumption
<1>3. HwTypes /\ NapTypes /\ SoftTypes
  BY <1>1, <1>2, IdleRecords DEF HwTypes, NapTypes, NapiBits, SoftTypes
<1>4. ThreadTypes
  BY <1>1, NewTask DEF ThreadTypes, KsoftirqdRecords, NapiThreadRecords
<1>5. CtlTypes
  BY <1>1, <1>2 DEF CtlTypes, Idle
<1>6. Types
  BY <1>1, <1>3, <1>4, <1>5, IdleRecords DEF Types
<1>7. ContextInv
  BY <1>1, IdleRecords DEF ContextInv
<1>8. TaskInv
  BY <1>1, NewTask DEF TaskInv
<1>9. HolderInv
  BY <1>1 DEF HolderInv, Idle
<1>10. OwnerInv
  BY <1>1, IdleRecords DEF OwnerInv, Polled, ThreadOwns
<1>11. SoftirqHandled /\ RingInv
  BY <1>1 DEF SoftirqHandled, RingInv
<1> QED BY <1>6, <1>7, <1>8, <1>9, <1>10, <1>11 DEF Inv

LEMMA InvStep == Inv /\ [Next]_netrx_vars => Inv'
<1> SUFFICES ASSUME Inv, [Next]_netrx_vars PROVE Inv'
  OBVIOUS
<1>1. CASE UNCHANGED netrx_vars
  <2>1. Types'
    BY <1>1, GroupsKept DEF Inv, Types, netrx_vars, hw, nap, soft, ctl
  <2>2. ContextInv' /\ TaskInv' /\ HolderInv' /\ OwnerInv' /\ SoftirqHandled' /\ RingInv'
    BY <1>1, PartsKept DEF netrx_vars, hw
  <2> QED BY <2>1, <2>2 DEF Inv
<1>2. CASE Interrupt
  BY <1>2, InterruptKeeps, AckKeeps, WatchdogKeeps DEF Interrupt
<1>3. CASE SoftirqRun
  BY <1>3, RunOtherSoftirq, SoftirqEnd, NetRxSplice, NetRxLoop, NetRxEnd DEF SoftirqRun
<1>4. CASE NapiPoll
  BY <1>4, RxFrameKeeps, RxReturnKeeps, PollCompleteKeeps, IrqEnableKeeps, PollSpentKeeps DEF NapiPoll
<1>5. CASE Ksoftirqd
  BY <1>5, ShouldRunKeeps, KsoftirqdSleepKeeps, RunKsoftirqdKeeps DEF Ksoftirqd
<1>6. CASE NapiThreadStep
  BY <1>6, ThreadArmKeeps, ThreadTestKeeps, ThreadSleepKeeps, ThreadWokenKeeps, ThreadedPollKeeps
  DEF NapiThreadStep
<1>7. CASE RtnlHolder
  BY <1>7, DisableBeginKeeps, DisableKeeps, CleanupKeeps, EnableKeeps, HwStartKeeps, CancelKeeps
  DEF RtnlHolder
<1>8. CASE Worker
  BY <1>8, WorkerTakesKeeps, TaskKeeps DEF Worker
<1> QED BY <1>1, <1>2, <1>3, <1>4, <1>5, <1>6, <1>7, <1>8, OtherInterruptKeeps, FrameArrives,
           OtherEvent, UpKeeps, DownKeeps, SetThreadedKeeps, SwitchKeeps DEF Next

LEMMA Always == Spec => []Inv
BY InvInit, InvStep, PTL DEF Spec

(* TypeOK: the ring indexes, the deferral count (napi_complete_done         *)
(* decrements it, in an int that is never negative) and every state of the  *)
(* softirq, the poll, the threads and the holder of rtnl stay in range.     *)
THEOREM TypeCorrect == Spec => []TypeOK
<1>1. Inv => TypeOK
  <2> SUFFICES ASSUME Types PROVE TypeOK
    BY DEF Inv
  <2>1. {sd_list, gro, timer} \subseteq BOOLEAN
    BY DEF Types, NapTypes
  <2>2. /\ kd.task \in Tasks /\ kd.pc \in {"test", "sleep", "run"} /\ nt.task \in Tasks
        /\ nt.pc \in {"wait", "test", "sleep", "woken", "poll"}
    BY DEF Types, ThreadTypes, KsoftirqdRecords, NapiThreadRecords
  <2>3. /\ ring \in 0 .. RingSize /\ ev \subseteq Events /\ status \subseteq Events /\ mask \in BOOLEAN
        /\ napi \subseteq NapiBits /\ defer \in 0 .. napi_defer_hard_irqs /\ pending \subseteq Softirqs
    BY DEF Types, HwTypes, NapTypes, SoftTypes
  <2> QED BY <2>1, <2>2, <2>3 DEF TypeOK, Types, SoftTypes, SoftirqRecords, PollRecords, CtlTypes
<1> QED BY <1>1, Always, PTL

(* SingleOwner: NAPI_STATE_SCHED is a lock.  Through interrupts, softirqs,  *)
(* the napi thread, the timer and resets, a scheduled napi has exactly one  *)
(* owner and an unscheduled one none.                                       *)
THEOREM ScheduledIsOwned == Spec => []SingleOwner
<1>1. Inv => SingleOwner
  <2> SUFFICES ASSUME OwnerInv PROVE SingleOwner
    BY DEF Inv
  <2> DEFINE Is(o) == \/ o = "sd_list" /\ sd_list
                      \/ o = "list" /\ sirq.list
                      \/ o = "repoll" /\ sirq.repoll
                      \/ o = "poll" /\ Polled
                      \/ o = "disabled" /\ "NPSVC" \in napi
                      \/ o = "thread" /\ ThreadOwns
             Names == {"sd_list", "list", "repoll", "poll", "disabled", "thread"}
  <2>1. Owners = {o \in Names : Is(o)}
    BY DEF Owners, Polled
  <2>2. CASE "SCHED" \in napi
    <3>1. \E o \in Names : Is(o)
      BY <2>2 DEF OwnerInv
    <3>2. \A o, u \in Names : Is(o) /\ Is(u) => o = u
      BY DEF OwnerInv
    <3>3. PICK o \in Names : Is(o)
      BY <3>1
    <3> HIDE DEF Is, Names
    <3>4. Owners = {o}
      BY <2>1, <3>2, <3>3
    <3> QED BY <2>2, <3>4, FS_Singleton DEF SingleOwner
  <2>3. CASE "SCHED" \notin napi
    <3>1. \A o \in Names : ~Is(o)
      BY <2>3 DEF OwnerInv
    <3> HIDE DEF Is, Names
    <3>2. Owners = {}
      BY <2>1, <3>1
    <3> QED BY <2>3, <3>2, FS_EmptySet DEF SingleOwner
  <2> QED BY <2>2, <2>3
<1> QED BY <1>1, Always, PTL

(* SoftirqHandled: a pending softirq has a ksoftirqd that is awake and will *)
(* look, and a napi on the poll list has a NET_RX, also when ksoftirqd_test *)
(* is switched between the two.                                             *)
THEOREM SoftirqsRun == Spec => []SoftirqHandled
<1>1. Inv => SoftirqHandled
  BY DEF Inv
<1> QED BY <1>1, Always, PTL

(* NothingStranded: no order of frames, interrupts, acknowledgements and    *)
(* the unmasking at the end of a poll leaves a frame in the ring with       *)
(* nothing that will look at it.                                            *)
THEOREM FramesAreSeen == Spec => []NothingStranded
<1>1. Inv => NothingStranded
  <2> SUFFICES ASSUME RingInv PROVE NothingStranded
    BY DEF Inv
  <2>1. "RxOK" \in ev => ev \cap irq_mask # {}
    BY DEF irq_mask
  <2> QED BY <2>1 DEF RingInv, NothingStranded, WillLook, Resets
<1> QED BY <1>1, Always, PTL

(* GroTimed: what GRO holds after a poll has the poll scheduled again, or   *)
(* the timer of napi_complete_done armed.                                   *)
THEOREM GroIsFlushed == Spec => GroTimed
<1>1. ASSUME Inv, Next, GroCovered, adm.who = "none", adm' = adm
      PROVE  GroCovered'
  <2>1. UNCHANGED <<napi, gro, timer>> => GroCovered'
    BY <1>1 DEF GroCovered
  <2>2. "DISABLE" \notin napi
    BY <1>1 DEF Inv, HolderInv
  <2>3. CASE Interrupt
    <3>1. CASE rtl8169_interrupt
      <4>1. UNCHANGED <<gro, timer>>
        BY <3>1 DEF rtl8169_interrupt
      <4>2. "SCHED" \in napi => "SCHED" \in napi'
        BY <2>2, <3>1 DEF rtl8169_interrupt, napi_schedule_prep
      <4> QED BY <1>1, <4>1, <4>2 DEF GroCovered
    <3>2. CASE rtl_ack_events
      BY <2>1, <3>2 DEF rtl_ack_events, nap
    <3>3. CASE napi_watchdog
      <4>1. "SCHED" \in napi'
        <5>1. CASE "SCHED" \in napi
          BY <3>3, <5>1 DEF napi_watchdog
        <5>2. CASE "SCHED" \notin napi
          <6> DEFINE n == napi \cup {"SCHED"}
          <6>1. napi' = ____napi_schedule(n, pending).napi
            BY <2>2, <3>3, <5>2 DEF napi_watchdog
          <6> QED BY <6>1, ScheduleKeepsBits
        <5> QED BY <5>1, <5>2
      <4> QED BY <4>1 DEF GroCovered
    <3> QED BY <2>3, <3>1, <3>2, <3>3 DEF Interrupt
  <2>4. CASE SoftirqRun
    BY <2>1, <2>4
    DEF SoftirqRun, run_other_softirq, softirq_end, net_rx_splice, net_rx_loop, net_rx_end, nap
  <2>5. CASE NapiPoll
    <3>1. CASE rtl_rx_frame
      <4>1. "SCHED" \in napi /\ napi' = napi
        BY <1>1, <3>1 DEF rtl_rx_frame, PollStep, Inv, OwnerInv, Polled
      <4> QED BY <4>1 DEF GroCovered
    <3>2. CASE rtl_rx_return \/ rtl_irq_enable
      BY <2>1, <3>2 DEF rtl_rx_return, rtl_irq_enable, nap
    <3>3. CASE rtl8169_poll_complete
      <4>1. pp.ctx # "none" /\ napi_complete_done(pp.work, TRUE)
        BY <3>3 DEF rtl8169_poll_complete, PollStep
      <4>2. Types /\ napi \in SUBSET NapiBits /\ pending \in SUBSET Softirqs
        BY <1>1 DEF Inv, Types, NapTypes, SoftTypes
      <4>3. pp.work \in Nat
        BY <4>2, NetRxAssumption DEF Types, PollRecords
      <4>4. Completed(TRUE)
        BY <4>1, <4>2, <4>3, CompleteDone
      <4> DEFINE n == CompletedState(napi)
      <4>5. n \in SUBSET NapiBits /\ ("MISSED" \in napi => "SCHED" \in n)
        BY <4>2, CompletedBits
      <4>6. n \subseteq ____napi_schedule(n, pending).napi
        BY ScheduleKeepsBits
      <4>7. "MISSED" \in napi => napi' = ____napi_schedule(n, pending).napi
        BY <4>4 DEF Completed
      <4>8. gro' => timer' \/ "MISSED" \in napi
        BY <4>4 DEF Completed
      <4> QED BY <4>5, <4>6, <4>7, <4>8 DEF GroCovered
    <3>4. CASE napi_poll_spent
      <4>1. "SCHED" \in napi /\ napi' = napi
        BY <1>1, <2>2, <3>4 DEF napi_poll_spent, PollStep, Inv, OwnerInv, Polled
      <4> QED BY <4>1 DEF GroCovered
    <3> QED BY <2>5, <3>1, <3>2, <3>3, <3>4 DEF NapiPoll
  <2>6. CASE Ksoftirqd
    BY <2>1, <2>6 DEF Ksoftirqd, ksoftirqd_should_run, ksoftirqd_sleep, run_ksoftirqd, nap
  <2>7. CASE NapiThreadStep
    BY <2>1, <2>7 DEF NapiThreadStep, napi_thread_arm, napi_thread_test, napi_thread_sleep,
       napi_thread_woken, napi_threaded_poll, nap
  <2>8. ~RtnlHolder
    BY <1>1 DEF RtnlHolder, napi_disable_begin, napi_disable, rtl8169_cleanup, napi_enable,
       rtl_hw_start, cancel_work_sync, Rtnl
  <2>9. CASE Worker
    BY <2>1, <2>9 DEF Worker, worker_takes, rtl_task, nap
  <2>10. ~rtl8169_up /\ ~rtl8169_down
    BY <1>1 DEF rtl8169_up, rtl8169_down
  <2>11. CASE dev_set_threaded
    <3>1. UNCHANGED <<gro, timer>>
      BY <2>11 DEF dev_set_threaded
    <3>2. "SCHED" \in napi => "SCHED" \in napi'
      BY <2>11 DEF dev_set_threaded
    <3> QED BY <1>1, <3>1, <3>2 DEF GroCovered
  <2>12. CASE other_interrupt \/ frame_arrives \/ other_event \/ set_ksoftirqd_test
    BY <2>1, <2>12 DEF other_interrupt, frame_arrives, other_event, set_ksoftirqd_test, nap
  <2> QED BY <1>1, <2>3, <2>4, <2>5, <2>6, <2>7, <2>8, <2>9, <2>10, <2>11, <2>12 DEF Next
<1>2. Inv /\ [Next]_netrx_vars
        => [GroCovered => GroCovered' \/ adm.who # "none" \/ adm' # adm]_netrx_vars
  BY <1>1
<1> QED BY <1>2, Always, PTL DEF Spec, GroTimed

==============================================================================
