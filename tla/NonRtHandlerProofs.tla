------------------------- MODULE NonRtHandlerProofs -------------------------
(***************************************************************************)
(* The safety properties of NonRtHandler for every server, period,         *)
(* utilisation and bound.  What is said of the frames needs the types and  *)
(* the order of the channel; what is said of the thread and of the switch  *)
(* needs the strengthenings ThreadInv and SwitchInv.                       *)
(***************************************************************************)
EXTENDS NonRtHandler, KthreadProofs, TLAPS

(* Appending to a sequence adds one element. *)
LEMMA ElementsAppend ==
    ASSUME NEW S, NEW s \in Seq(S), NEW e \in S
    PROVE  Elements(Append(s, e)) = Elements(s) \cup {e}
<1>1. Len(Append(s, e)) = Len(s) + 1 /\ Append(s, e)[Len(s) + 1] = e
      /\ \A i \in 1 .. Len(s) : Append(s, e)[i] = s[i]
  OBVIOUS
<1>2. 1 .. Len(s) + 1 = (1 .. Len(s)) \cup {Len(s) + 1}
  OBVIOUS
<1> QED BY <1>1, <1>2 DEF Elements

(* A poll moves a prefix of the queue to the end of what was served: the *)
(* frames in the two together stay the same, and so do their types.      *)
LEMMA ElementsMove ==
    ASSUME NEW S, NEW a \in Seq(S), NEW b \in Seq(S), NEW k \in 0 .. Len(b)
    PROVE  /\ a \o SubSeq(b, 1, k) \in Seq(S)
           /\ SubSeq(b, k + 1, Len(b)) \in Seq(S)
           /\ Elements(a \o SubSeq(b, 1, k)) \cup Elements(SubSeq(b, k + 1, Len(b)))
                = Elements(a) \cup Elements(b)
<1> DEFINE p == SubSeq(b, 1, k)
           c == a \o p
           r == SubSeq(b, k + 1, Len(b))
           n == Len(a)
<1>1. p \in Seq(S) /\ Len(p) = k /\ \A i \in 1 .. k : p[i] = b[i]
  OBVIOUS
<1>2. r \in Seq(S) /\ Len(r) = Len(b) - k /\ \A i \in 1 .. Len(b) - k : r[i] = b[k + i]
  OBVIOUS
<1>3. c \in Seq(S) /\ Len(c) = n + k
  BY <1>1
<1>4. (\A i \in 1 .. n : c[i] = a[i]) /\ (\A i \in n + 1 .. n + k : c[i] = b[i - n])
  BY <1>1
<1>5. n \in Nat /\ Len(b) \in Nat /\ k \in Nat /\ k <= Len(b)
  OBVIOUS
<1> HIDE DEF p, c, r
<1>6. Elements(c) \subseteq Elements(a) \cup Elements(b)
  <2> SUFFICES ASSUME NEW i \in 1 .. n + k PROVE c[i] \in Elements(a) \cup Elements(b)
    BY <1>3 DEF Elements
  <2>1. CASE i \in 1 .. n
    BY <1>4, <2>1 DEF Elements
  <2>2. CASE i \in n + 1 .. n + k
    <3>1. i - n \in 1 .. Len(b)
      BY <1>5, <2>2
    <3> QED BY <1>4, <2>2, <3>1 DEF Elements
  <2> QED BY <1>5, <2>1, <2>2
<1>7. Elements(r) \subseteq Elements(b)
  <2> SUFFICES ASSUME NEW i \in 1 .. Len(b) - k PROVE r[i] \in Elements(b)
    BY <1>2 DEF Elements
  <2>1. k + i \in 1 .. Len(b)
    BY <1>5
  <2> QED BY <1>2, <2>1 DEF Elements
<1>8. Elements(a) \subseteq Elements(c)
  <2>1. \A i \in 1 .. n : i \in 1 .. n + k /\ c[i] = a[i]
    BY <1>4, <1>5
  <2> QED BY <1>3, <2>1 DEF Elements
<1>9. Elements(b) \subseteq Elements(c) \cup Elements(r)
  <2> SUFFICES ASSUME NEW i \in 1 .. Len(b) PROVE b[i] \in Elements(c) \cup Elements(r)
    BY DEF Elements
  <2>1. CASE i <= k
    <3>1. n + i \in n + 1 .. n + k /\ n + i \in 1 .. n + k /\ (n + i) - n = i
      BY <1>5, <2>1
    <3>2. c[n + i] = b[i]
      BY <1>4, <3>1
    <3> QED BY <1>3, <3>1, <3>2 DEF Elements
  <2>2. CASE i > k
    <3>1. i - k \in 1 .. Len(b) - k /\ k + (i - k) = i
      BY <1>5, <2>2
    <3>2. r[i - k] = b[i]
      BY <1>2, <3>1
    <3> QED BY <1>2, <3>1, <3>2 DEF Elements
  <2> QED BY <1>5, <2>1, <2>2
<1>10. c \in Seq(S) /\ r \in Seq(S) /\ Elements(c) \cup Elements(r) = Elements(a) \cup Elements(b)
  BY <1>2, <1>3, <1>6, <1>7, <1>8, <1>9
<1> QED BY <1>10 DEF c, p, r

(* Only three operations touch the frames. *)
LEMMA FrameSteps ==
    ASSUME [Next]_vars
    PROVE  \/ Alive /\ \E port \in Ports : rtl_rx(port)
           \/ Alive /\ rtl8169_init_ring
           \/ Alive /\ handler_action
           \/ UNCHANGED queues
BY DEF Next, Driver, Administrator, Thread, vars, rtl_open, rtl8169_close, set_knonrtd_pid,
       krtd_on_store, krtd_on_lookup, non_rt_handler_init, non_rt_handler_exit,
       kthread_stop_return, kthread_begin, handler_arm, handler_schedule, msleep_again,
       handler_stop_test, msleep_timeout

(* A poll takes no more frames than there are. *)
LEMMA TakenRange ==
    ASSUME non_rt \in Seq(1 .. Len(rx))
    PROVE  Taken \in 0 .. Len(non_rt)
<1>1. Len(non_rt) \in Nat
  OBVIOUS
<1>2. Util * Period \in Nat
  BY TimeAssumption
<1>3. ProcessMs \in Nat
  BY <1>2 DEF ProcessMs
<1>4. ProcessBudget \in Nat
  BY <1>3 DEF ProcessBudget
<1> QED BY <1>1, <1>4 DEF Taken, non_rt_poll, non_rt_pl_poll

(* The types of the frames and of the queues. *)
FrameTypes ==
    /\ rx \in Seq(Ports)
    /\ non_rt \in Seq(1 .. Len(rx)) /\ served \in Seq(1 .. Len(rx))
    /\ direct \in SUBSET (1 .. Len(rx)) /\ leaked \in SUBSET (1 .. Len(rx))

LEMMA FrameTypesStep ==
    ASSUME FrameTypes, [Next]_vars
    PROVE  FrameTypes'
<1> USE DEF FrameTypes
<1>1. ASSUME NEW port \in Ports, rtl_rx(port) PROVE FrameTypes'
  <2>1. rx' = Append(rx, port) /\ rx' \in Seq(Ports) /\ Len(rx') = Len(rx) + 1
    BY <1>1 DEF rtl_rx
  <2>2. 1 .. Len(rx) \subseteq 1 .. Len(rx') /\ Len(rx) + 1 \in 1 .. Len(rx')
    BY <2>1
  <2>3. non_rt \in Seq(1 .. Len(rx')) /\ served \in Seq(1 .. Len(rx'))
    BY <2>2
  <2> HIDE DEF FrameTypes
  <2>4. non_rt' \in Seq(1 .. Len(rx'))
    <3>1. non_rt' = non_rt \/ non_rt' = Append(non_rt, Len(rx) + 1)
      BY <1>1 DEF rtl_rx, skb_queue_tail
    <3>2. Append(non_rt, Len(rx) + 1) \in Seq(1 .. Len(rx'))
      BY <2>2, <2>3
    <3> QED BY <2>3, <3>1, <3>2
  <2>5. direct' \in SUBSET (1 .. Len(rx'))
    BY <1>1, <2>2 DEF rtl_rx, FrameTypes
  <2>6. served' = served /\ leaked' = leaked
    BY <1>1 DEF rtl_rx
  <2> QED BY <2>1, <2>2, <2>3, <2>4, <2>5, <2>6 DEF FrameTypes
<1>2. CASE rtl8169_init_ring
  <2>1. rx' = rx /\ served' = served /\ direct' = direct /\ non_rt' = <<>>
        /\ leaked' = leaked \cup {non_rt[i] : i \in 1 .. Len(non_rt)}
    BY <1>2 DEF rtl8169_init_ring
  <2>2. \A i \in 1 .. Len(non_rt) : non_rt[i] \in 1 .. Len(rx)
    OBVIOUS
  <2>3. leaked' \in SUBSET (1 .. Len(rx))
    BY <2>1, <2>2
  <2>4. <<>> \in Seq(1 .. Len(rx))
    OBVIOUS
  <2> QED BY <2>1, <2>3, <2>4
<1>3. CASE handler_action
  <2>1. rx' = rx /\ direct' = direct /\ leaked' = leaked
    BY <1>3 DEF handler_action
  <2>2. CASE UNCHANGED <<non_rt, served>>
    BY <2>1, <2>2
  <2>3. CASE /\ served' = served \o SubSeq(non_rt, 1, Taken)
             /\ non_rt' = SubSeq(non_rt, Taken + 1, Len(non_rt))
    BY <2>1, <2>3, TakenRange, ElementsMove
  <2> QED BY <1>3, <2>2, <2>3 DEF handler_action, skb_dequeue
<1>4. CASE UNCHANGED queues
  BY <1>4 DEF queues
<1> QED BY <1>1, <1>2, <1>3, <1>4, FrameSteps

------------------------------------------------------------------------------

(* Every step of the driver and of the thread is a step of the channel. *)
LEMMA ChannelStep ==
    ASSUME FrameTypes, [Next]_vars
    PROVE  [Channel!Next]_(Channel!chan)
<1>1. ASSUME NEW port \in Ports, rtl_rx(port) PROVE Channel!Receive
  <2>1. Len(rx') = Len(rx) + 1
    BY <1>1 DEF rtl_rx, FrameTypes
  <2>2. non_rt' \in {non_rt, Append(non_rt, Len(rx) + 1)} /\ served' = served
    BY <1>1 DEF rtl_rx, skb_queue_tail
  <2> QED BY <2>1, <2>2 DEF Channel!Receive
<1>2. CASE rtl8169_init_ring
  BY <1>2 DEF rtl8169_init_ring, Channel!Next, Channel!Discard
<1>3. CASE handler_action
  <2>1. rx' = rx
    BY <1>3 DEF handler_action
  <2>2. CASE UNCHANGED <<non_rt, served>>
    BY <2>1, <2>2 DEF Channel!chan
  <2>3. CASE /\ served' = served \o SubSeq(non_rt, 1, Taken)
             /\ non_rt' = SubSeq(non_rt, Taken + 1, Len(non_rt))
    <3>1. Taken \in 0 .. Len(non_rt)
      BY TakenRange DEF FrameTypes
    <3>2. CASE Taken = 0
      <4>1. served' = served /\ non_rt' = non_rt
        BY <2>3, <3>2 DEF FrameTypes
      <4> QED BY <2>1, <4>1 DEF Channel!chan
    <3>3. CASE Taken # 0
      <4>1. Taken \in 1 .. Len(non_rt)
        BY <3>1, <3>3 DEF FrameTypes
      <4>2. Channel!Deliver
        BY <2>1, <2>3, <4>1 DEF Channel!Deliver
      <4> QED BY <4>2 DEF Channel!Next
    <3> QED BY <3>2, <3>3
  <2> QED BY <1>3, <2>2, <2>3 DEF handler_action, skb_dequeue
<1>4. CASE UNCHANGED queues
  BY <1>4 DEF queues, Channel!chan
<1> QED BY <1>1, <1>2, <1>3, <1>4, FrameSteps DEF Channel!Next

(* The frames that rtl_rx() queues and knonrtd passes up implement the     *)
(* in-order channel, whatever the switch, the module and the interface do. *)
THEOREM ImplementsChannel == Spec => ChannelSpec
<1>1. Init => FrameTypes /\ Channel!Init
  BY DEF Init, FrameTypes, Channel!Init
<1>2. FrameTypes /\ [Next]_vars => FrameTypes' /\ [Channel!Next]_(Channel!chan)
  BY FrameTypesStep, ChannelStep
<1> QED BY <1>1, <1>2, PTL DEF Spec, ChannelSpec, Channel!Spec

Ch == INSTANCE FifoChannelProofs WITH arrived <- Len(rx), pending <- non_rt, out <- served

(* The stack sees the frames of port 7778 that were queued in the order in *)
(* which they arrived, each at most once.                                  *)
THEOREM FramesInOrder == Spec => []ServedInOrder
<1>1. ChannelSpec => Ch!Spec
  BY DEF ChannelSpec, Channel!Spec, Ch!Spec, Channel!Init, Ch!Init, Channel!Next, Ch!Next,
         Channel!chan, Ch!chan, Channel!Receive, Ch!Receive, Channel!Deliver, Ch!Deliver,
         Channel!Discard, Ch!Discard
<1>2. Ch!InOrder => ServedInOrder
  BY DEF ServedInOrder, Channel!InOrder, Ch!InOrder, Channel!Increasing, Ch!Increasing
<1>3. Ch!Spec => [](Ch!ChanTypeOK /\ Ch!InOrder)
  BY Ch!ChannelInOrder
<1> QED BY <1>1, <1>2, <1>3, ImplementsChannel, PTL

------------------------------------------------------------------------------

(* In-order sequences have no frame in common. *)
LEMMA ServedNotQueued ==
    FrameTypes /\ ServedInOrder => Elements(served) \cap Elements(non_rt) = {}
<1> SUFFICES ASSUME FrameTypes, ServedInOrder
             PROVE  Elements(served) \cap Elements(non_rt) = {}
  OBVIOUS
<1>1. \A i \in 1 .. Len(served), j \in 1 .. Len(non_rt) : served[i] < non_rt[j]
  BY DEF ServedInOrder, Channel!InOrder
<1>2. \A i \in 1 .. Len(served) : served[i] \in Nat
  BY DEF FrameTypes
<1> QED BY <1>1, <1>2 DEF Elements

(* A step keeps every frame in exactly one place. *)
LEMMA ConservationStep ==
    ASSUME FrameTypes, Conservation, ServedInOrder, ServedInOrder', [Next]_vars
    PROVE  Conservation'
<1> DEFINE Held == Elements(served) \cup Elements(non_rt)
<1>0. Elements(served') \cap Elements(non_rt') = {}
  <2>1. FrameTypes'
    BY FrameTypesStep
  <2>2. (Elements(served) \cap Elements(non_rt) = {})'
    BY <2>1, ServedNotQueued, PTL
  <2> QED BY <2>2 DEF Elements
<1>1. ASSUME NEW port \in Ports, rtl_rx(port) PROVE Conservation'
  <2> DEFINE f == Len(rx) + 1
  <2>1. 1 .. Len(rx') = (1 .. Len(rx)) \cup {f} /\ f \notin 1 .. Len(rx)
    BY <1>1 DEF rtl_rx, FrameTypes
  <2>2. leaked' = leaked /\ served' = served
    BY <1>1 DEF rtl_rx, skb_queue_tail
  <2>3. CASE direct' = direct /\ non_rt' = Append(non_rt, f)
    <3>1. Elements(non_rt') = Elements(non_rt) \cup {f}
      <4>1. non_rt \in Seq(Nat) /\ f \in Nat
        BY DEF FrameTypes
      <4> QED BY <2>3, <4>1, ElementsAppend
    <3> QED BY <1>0, <2>1, <2>2, <2>3, <3>1 DEF Conservation
  <2>4. CASE direct' = direct \cup {f} /\ non_rt' = non_rt
    BY <1>0, <2>1, <2>2, <2>4 DEF Conservation
  <2> QED BY <1>1, <2>3, <2>4 DEF rtl_rx, skb_queue_tail
<1>2. CASE rtl8169_init_ring
  <2>1. leaked' = leaked \cup Elements(non_rt) /\ rx' = rx /\ served' = served /\ direct' = direct
        /\ non_rt' = <<>>
    BY <1>2 DEF rtl8169_init_ring, Elements
  <2>2. Elements(<<>>) = {}
    BY DEF Elements
  <2> QED BY <2>1, <2>2 DEF Conservation
<1>3. CASE handler_action
  <2>1. rx' = rx /\ direct' = direct /\ leaked' = leaked
    BY <1>3 DEF handler_action
  <2>2. CASE UNCHANGED <<non_rt, served>>
    BY <2>1, <2>2 DEF Conservation, Elements
  <2>3. CASE /\ served' = served \o SubSeq(non_rt, 1, Taken)
             /\ non_rt' = SubSeq(non_rt, Taken + 1, Len(non_rt))
    <3>1. Elements(served') \cup Elements(non_rt') = Held
      BY <2>3, TakenRange, ElementsMove DEF FrameTypes
    <3> QED BY <1>0, <2>1, <3>1 DEF Conservation
  <2> QED BY <1>3, <2>2, <2>3 DEF handler_action, skb_dequeue
<1>4. CASE UNCHANGED queues
  BY <1>4 DEF queues, Conservation, Elements
<1> QED BY <1>1, <1>2, <1>3, <1>4, FrameSteps

(* No step delays a frame of another port. *)
LEMMA OthersBypassStep ==
    ASSUME FrameTypes, OthersBypass, [Next]_vars
    PROVE  OthersBypass'
<1>1. ASSUME NEW port \in Ports, rtl_rx(port) PROVE OthersBypass'
  <2>1. Len(rx') = Len(rx) + 1 /\ rx'[Len(rx) + 1] = port /\ Len(rx) \in Nat
        /\ \A g \in 1 .. Len(rx) : rx'[g] = rx[g]
    BY <1>1 DEF rtl_rx, FrameTypes
  <2>2. direct \subseteq direct' /\ (port # NonRtPort => Len(rx) + 1 \in direct')
    BY <1>1 DEF rtl_rx, Selected
  <2> QED BY <2>1, <2>2 DEF OthersBypass
<1>2. CASE rx' = rx /\ direct' = direct
  BY <1>2 DEF OthersBypass
<1> QED BY <1>1, <1>2, FrameSteps DEF rtl8169_init_ring, handler_action, queues

(* Frames are neither lost nor passed up twice, and only those of port 7778 *)
(* ever wait: Conservation and OthersBypass hold in every behaviour.        *)
THEOREM FramesConserved == Spec => [](Conservation /\ OthersBypass)
<1> DEFINE I == FrameTypes /\ Conservation /\ OthersBypass
<1>1. Init => I
  <2>1. Elements(<<>>) = {} /\ 1 .. 0 = {}
    BY DEF Elements
  <2> QED BY <2>1 DEF Init, FrameTypes, Conservation, OthersBypass
<1>2. I /\ ServedInOrder /\ ServedInOrder' /\ [Next]_vars => I'
  BY FrameTypesStep, ConservationStep, OthersBypassStep
<1> QED BY <1>1, <1>2, FramesInOrder, PTL DEF Spec

(* The message selector's other branch: a frame whose port is not that of   *)
(* the non-RT messages is given to netif_receive_skb at once, whatever the  *)
(* handler's thread is doing.                                               *)
THEOREM OthersNeverWait == Spec => []OthersBypass
BY FramesConserved, PTL

------------------------------------------------------------------------------

(* The types of everything but the frames. *)
ControlTypes ==
    /\ up \in BOOLEAN /\ ring \in {"none", "raw", "ready"} /\ opens \in Nat
    /\ krtd_on \in BOOLEAN /\ knonrtd \in Nat /\ knonrtd_pid \in Nat
    /\ setter \in {"idle", "stored"} /\ switches \in Nat
    /\ mod \in {"out", "live", "going"} /\ load \in Nat
    /\ task \in Tasks /\ pc \in Labels /\ timer \in {"off", "armed", "fired"}
    /\ oops \in {"none", "rtl_rx", "non_rt_poll", "non_rt_handler_init", "non_rt_handler_exit"}

CInv == ControlTypes /\ ThreadInv /\ SwitchInv

LEMMA ControlStep ==
    ASSUME CInv, [Next]_vars
    PROVE  CInv'
<1> USE DEF CInv, ControlTypes, ThreadInv, SwitchInv, Labels, SleepState, ThreadExists, Valid, Alive,
            NULL, queues, netdev, control, thread, kmod, Running, Runnable
<1>a. TASK_NORMAL = {"TASK_INTERRUPTIBLE", "TASK_UNINTERRUPTIBLE"}
  BY DEF TASK_NORMAL
<1>b. "TASK_RUNNING" \in TaskStates /\ "TASK_INTERRUPTIBLE" \in TaskStates
      /\ "TASK_UNINTERRUPTIBLE" \in TaskStates
  BY DEF TaskStates
<1>1. ASSUME NEW port \in Ports, Alive, rtl_rx(port) PROVE CInv'
  <2>1. task' = task \/ (task.state # "TASK_RUNNING" /\ task' = wake_up_process(task))
    BY <1>1 DEF rtl_rx
  <2>2. ControlTypes'
    <3>1. task' \in Tasks
      BY <2>1, WakeUp
    <3>2. UNCHANGED <<netdev, control, pc, timer, kmod>> /\ oops' \in {oops, "rtl_rx"}
      BY <1>1 DEF rtl_rx
    <3> QED BY <3>1, <3>2
  <2>3. ThreadInv'
    <3>1. pc' = pc /\ timer' = timer
      BY <1>1 DEF rtl_rx
    <3>2. CASE task' = task
      BY <3>1, <3>2
    <3>3. CASE task.state # "TASK_RUNNING" /\ task' = wake_up_process(task)
      <4>1. CASE pc \in {"sched", "woken"}
        <5>1. task.state \in TASK_NORMAL
          BY <1>a, <3>3, <4>1, ServerAssumption
        <5>2. task'.state = "TASK_RUNNING" /\ task'.on_rq = TRUE
          BY <3>3, <5>1, WakeUp
        <5> QED BY <3>1, <4>1, <5>2
      <4>2. CASE pc \notin {"sched", "woken"}
        BY <3>1, <3>3, <4>2
      <4> QED BY <4>1, <4>2
    <3> QED BY <2>1, <3>2, <3>3
  <2>4. SwitchInv'
    BY <1>1, <2>1, WakeUp DEF rtl_rx
  <2> QED BY <2>2, <2>3, <2>4
<1>2. ASSUME Alive, rtl8169_init_ring PROVE CInv'
  BY <1>2 DEF rtl8169_init_ring
<1>3. ASSUME Alive, rtl_open PROVE CInv'
  BY <1>3 DEF rtl_open
<1>4. ASSUME Alive, rtl8169_close PROVE CInv'
  <2>1. up' \in BOOLEAN /\ UNCHANGED <<ring, opens, control, thread, kmod, oops>>
    BY <1>4 DEF rtl8169_close
  <2> QED BY <2>1
<1>5. ASSUME Alive, set_knonrtd_pid PROVE CInv'
  BY <1>5 DEF set_knonrtd_pid
<1>6. ASSUME NEW val \in BOOLEAN, Alive, krtd_on_store(val) PROVE CInv'
  BY <1>6 DEF krtd_on_store
<1>7. ASSUME Alive, krtd_on_lookup PROVE CInv'
  BY <1>7 DEF krtd_on_lookup, pid_task
<1>8. ASSUME NEW created \in BOOLEAN, NEW prioritised \in BOOLEAN, Alive,
             non_rt_handler_init(created, prioritised) PROVE CInv'
  BY <1>8, NewTask, SetScheduler DEF non_rt_handler_init
<1>9. ASSUME Alive, non_rt_handler_exit PROVE CInv'
  <2>1. task' = task \/ task' = kthread_stop(task)
    BY <1>9 DEF non_rt_handler_exit
  <2>2. ControlTypes'
    <3>1. task' \in Tasks
      BY <2>1, KthreadStop
    <3>2. /\ UNCHANGED <<netdev, control, pc, timer, load>> /\ mod' = "going"
          /\ oops' \in {oops, "non_rt_handler_exit"}
      BY <1>9 DEF non_rt_handler_exit
    <3> QED BY <3>1, <3>2
  <2>3. ThreadInv'
    <3>1. pc' = pc /\ timer' = timer
      BY <1>9 DEF non_rt_handler_exit
    <3>2. CASE task' = task
      BY <3>1, <3>2
    <3>3. CASE task' = kthread_stop(task) /\ task.state \in TASK_NORMAL
      <4>1. task'.state = "TASK_RUNNING" /\ task'.on_rq = TRUE
        BY <3>3, KthreadStop
      <4> QED BY <3>1, <4>1
    <3>4. CASE task' = kthread_stop(task) /\ task.state \notin TASK_NORMAL
      <4>1. task'.state = task.state /\ task'.on_rq = task.on_rq
        BY <3>4, KthreadStop
      <4> QED BY <3>1, <4>1
    <3> QED BY <2>1, <3>2, <3>3, <3>4
  <2>4. SwitchInv'
    BY <1>9 DEF non_rt_handler_exit
  <2> QED BY <2>2, <2>3, <2>4
<1>10. ASSUME Alive, kthread_stop_return PROVE CInv'
  BY <1>10 DEF kthread_stop_return
<1>11. ASSUME Alive, kthread_begin PROVE CInv'
  BY <1>11, NewTask DEF kthread_begin
<1>12. ASSUME Alive, handler_action PROVE CInv'
  BY <1>12 DEF handler_action
<1>13. ASSUME Alive, handler_arm PROVE CInv'
  BY <1>13, <1>b, SetState, ServerAssumption DEF handler_arm
<1>14. ASSUME Alive, handler_schedule PROVE CInv'
  <2>1. /\ task' \in Tasks /\ task'.state = task.state /\ task'.should_stop = task.should_stop
        /\ task'.on_rq = (task.state = "TASK_RUNNING")
    BY <1>14, Schedule DEF handler_schedule
  <2>2. pc = "sched" /\ pc' = "woken" /\ UNCHANGED <<netdev, control, timer, kmod, oops>>
    BY <1>14 DEF handler_schedule
  <2>3. ControlTypes'
    BY <2>1, <2>2
  <2>4. ThreadInv'
    BY <2>1, <2>2
  <2>5. SwitchInv'
    BY <2>1, <2>2
  <2> QED BY <2>3, <2>4, <2>5
<1>15. ASSUME Alive, msleep_again PROVE CInv'
  BY <1>15, <1>b, SetState, ServerAssumption DEF msleep_again
<1>16. ASSUME Alive, handler_stop_test PROVE CInv'
  <2>a. task' \in Tasks /\ pc' \in Labels
    <3>1. task \in Tasks
      OBVIOUS
    <3>2. CASE task.should_stop
      BY <1>16, <3>2, NewTask DEF handler_stop_test
    <3>3. CASE ~task.should_stop
      BY <1>16, <1>b, <3>1, <3>3, SetState DEF handler_stop_test
    <3> QED BY <3>2, <3>3
  <2>b. timer' = "off" /\ UNCHANGED <<netdev, control, kmod, oops>>
    BY <1>16 DEF handler_stop_test
  <2>1. ControlTypes'
    BY <2>a, <2>b
  <2>2. ThreadInv'
    BY <1>16, <1>b, SetState DEF handler_stop_test
  <2>3. SwitchInv'
    BY <1>16, <1>b, SetState DEF handler_stop_test
  <2> QED BY <2>1, <2>2, <2>3
<1>17. ASSUME Alive, msleep_timeout PROVE CInv'
  <2>1. /\ timer = "armed" /\ timer' = "fired" /\ pc' = pc /\ task' = wake_up_process(task)
        /\ UNCHANGED <<netdev, control, kmod, oops>>
    BY <1>17 DEF msleep_timeout
  <2>2. task' \in Tasks /\ task'.should_stop = task.should_stop
    BY <2>1, WakeUp
  <2>3. ControlTypes'
    BY <2>1, <2>2
  <2>4. ThreadInv'
    <3>1. CASE task.state = "TASK_RUNNING"
      <4>1. task' = task
        BY <1>a, <2>1, <3>1, WakeUp
      <4> QED BY <2>1, <3>1, <4>1
    <3>2. CASE task.state = SleepState
      <4>1. task'.state = "TASK_RUNNING" /\ task'.on_rq = TRUE
        BY <1>a, <2>1, <3>2, WakeUp
      <4> QED BY <2>1, <4>1
    <3> QED BY <2>1, <3>1, <3>2
  <2>5. SwitchInv'
    BY <2>1, <2>2
  <2> QED BY <2>3, <2>4, <2>5
<1>18. CASE UNCHANGED vars
  BY <1>18 DEF vars
<1> HIDE DEF CInv
<1> QED
  BY <1>1, <1>2, <1>3, <1>4, <1>5, <1>6, <1>7, <1>8, <1>9, <1>10, <1>11, <1>12, <1>13, <1>14, <1>15, <1>16, <1>17, <1>18
     DEF Next, Driver, Administrator, Thread

(* The strengthened invariant holds in every behaviour. *)
LEMMA ControlInvariant == Spec => []CInv
<1>1. Init => CInv
  <2> SUFFICES ASSUME Init PROVE CInv
    OBVIOUS
  <2>1. up \in BOOLEAN /\ krtd_on \in BOOLEAN /\ task \in Tasks
    BY NewTask DEF Init
  <2>2. ControlTypes
    BY <2>1 DEF Init, ControlTypes, Labels, NULL
  <2>3. ThreadInv /\ SwitchInv
    BY DEF Init, ThreadInv, SwitchInv, ThreadExists, Alive
  <2> QED BY <2>2, <2>3 DEF CInv
<1>2. CInv /\ [Next]_vars => CInv'
  BY ControlStep
<1> QED BY <1>1, <1>2, PTL DEF Spec

(* Types: every variable keeps its type, and the queue and the histories *)
(* name only frames that have arrived.                                   *)
THEOREM TypeCorrect == Spec => []TypeOK
<1>1. Init => FrameTypes
  BY DEF Init, FrameTypes
<1>2. FrameTypes /\ [Next]_vars => FrameTypes'
  BY FrameTypesStep
<1>3. FrameTypes /\ CInv => TypeOK
  BY DEF CInv, FrameTypes, ControlTypes, TypeOK
<1> QED BY <1>1, <1>2, <1>3, ControlInvariant, PTL DEF Spec

(* With the order of start.bash, the pointer the selector dereferences is *)
(* the live thread at every moment outside krtd_on_set().                 *)
THEOREM PointerValid == Spec => []KnonrtdValid
<1>1. CInv => KnonrtdValid
  BY DEF CInv, SwitchInv, KnonrtdValid
<1> QED BY <1>1, ControlInvariant, PTL

(* A thread off the run queue is in schedule(), in a state a wakeup ends, *)
(* and the polling server also has an armed timer.                        *)
THEOREM SleepersWake == Spec => []SleeperWakeable
<1>1. CInv => SleeperWakeable
  <2> SUFFICES ASSUME CInv, ThreadExists, ~Runnable(task)
               PROVE  /\ pc = "woken" /\ task.state \in TASK_NORMAL
                      /\ Server = "pl" => timer = "armed"
    BY DEF SleeperWakeable
  <2>1. pc = "woken"
    BY DEF CInv, ControlTypes, ThreadInv, ThreadExists, Labels, Runnable
  <2>2. task.state = SleepState /\ task.state # "TASK_RUNNING"
    BY <2>1 DEF CInv, ThreadInv, Runnable
  <2> QED BY <2>1, <2>2, ServerAssumption DEF CInv, ThreadInv, SleepState, TASK_NORMAL
<1> QED BY <1>1, ControlInvariant, PTL

==============================================================================
