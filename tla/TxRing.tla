------------------------------- MODULE TxRing -------------------------------
(***************************************************************************)
(* The transmit path from the queueing discipline to the r8169's ring:     *)
(* rtl8169_start_xmit fills descriptors and stops the queue when the ring  *)
(* is nearly full, the card sends them, rtl_tx (in the NAPI poll, on       *)
(* another CPU or preempting the sender) takes them back and wakes the     *)
(* queue, byte queue limits (BQL) stop and wake it independently, and      *)
(* net_tx_action runs a woken queue.  The two sides share no lock; each    *)
(* publishes its index and then looks at the other's.                      *)
(*                                                                         *)
(* External: the discipline (qdisc_run), the card, the interrupt that      *)
(* brings rtl_tx (NetRx models it), and the dynamic limit of BQL, a        *)
(* constant here.  A packet counts one byte.                               *)
(***************************************************************************)
EXTENDS Naturals, FiniteSets

CONSTANTS NUM_TX_DESC, MAX_SKB_FRAGS,
          IndexRange,    \* 2^32 in the code: the indices wrap there
          DqlLimit,      \* BQL: packets in flight
          MaxBacklog     \* bound: packets in the discipline and in a burst

ASSUME TxRingAssumption == /\ {NUM_TX_DESC, IndexRange} \subseteq Nat \ {0}
                           /\ {MAX_SKB_FRAGS, DqlLimit, MaxBacklog} \subseteq Nat
                           /\ IndexRange % NUM_TX_DESC = 0 /\ IndexRange > NUM_TX_DESC

VARIABLES tx_desc,    \* per entry: own (DescOwn), last (LastFrag), used (tx_skb.len)
          cur_tx, dirty_tx,
          drv_xoff, stack_xoff,    \* __QUEUE_STATE_DRV_XOFF, __QUEUE_STATE_STACK_XOFF
          inflight,   \* dql: queued and not completed
          card,       \* [state, at, owed]: the descriptor it looks at next; owed:
                      \* a burst ended in an error before its doorbell
          tx_event,   \* a TxOK interrupt that will bring rtl_tx
          xmit,       \* the sender, inside HARD_TX_LOCK
          reclaim,    \* rtl_tx
          tx_reset,   \* the reset work
          qd          \* the discipline: packets waiting, running, scheduled
txring_vars == <<tx_desc, cur_tx, dirty_tx, drv_xoff, stack_xoff, inflight, card, tx_event,
                 xmit, reclaim, tx_reset, qd>>

TxEntry == 0 .. NUM_TX_DESC - 1
FreeDesc == [own |-> FALSE, last |-> FALSE, used |-> FALSE]
NoXmit == [pc |-> "idle", left |-> 0, bell |-> FALSE, quiet |-> FALSE, size |-> 0]
NoPoll == [pc |-> "idle", dirty |-> 0, skb |-> FALSE, pkts |-> 0]

Plus(i, n) == (i + n) % IndexRange

rtl_tx_slots_avail(dirty, cur) == Plus(dirty, NUM_TX_DESC + IndexRange - cur) > MAX_SKB_FRAGS

(* rtl8169_doorbell: lost on a card that is just going idle, which is what  *)
(* the comment in rtl_tx calls packets too close.                           *)
doorbell(c) == [c EXCEPT !.state = IF @ = "idle" THEN "active" ELSE @, !.owed = FALSE]

netif_schedule(q) == [q EXCEPT !.sched = TRUE]
netif_xmit_stopped == drv_xoff \/ stack_xoff

-----------------------------------------------------------------------------
(* The stack *)

(* __dev_queue_xmit: the packet joins the discipline, which the sender runs *)
(* unless somebody does already.                                            *)
dev_queue_xmit ==
    /\ qd.waiting + xmit.left < MaxBacklog
    /\ qd' = [qd EXCEPT !.waiting = @ + 1, !.running = TRUE]
    /\ UNCHANGED <<tx_desc, cur_tx, dirty_tx, drv_xoff, stack_xoff, inflight, card, tx_event,
                   xmit, reclaim, tx_reset>>

(* qdisc_run: a burst of packets if the queue is not stopped, or the end of *)
(* the run; an exhausted quota schedules another.                           *)
qdisc_run ==
    /\ qd.running /\ xmit.pc = "idle"
    /\ \/ /\ qd.waiting > 0 /\ ~netif_xmit_stopped
          /\ \E n \in 1 .. qd.waiting :
                /\ xmit' = [NoXmit EXCEPT !.pc = "start", !.left = n - 1]
                /\ qd' = [qd EXCEPT !.waiting = @ - n]
       \/ /\ qd.waiting = 0 \/ netif_xmit_stopped
          /\ qd' = [qd EXCEPT !.running = FALSE] /\ UNCHANGED xmit
       \/ /\ qd.waiting > 0
          /\ qd' = netif_schedule([qd EXCEPT !.running = FALSE]) /\ UNCHANGED xmit
    /\ UNCHANGED <<tx_desc, cur_tx, dirty_tx, drv_xoff, stack_xoff, inflight, card, tx_event,
                   reclaim, tx_reset>>

net_tx_action ==
    /\ qd.sched
    /\ qd' = [qd EXCEPT !.sched = FALSE, !.running = TRUE]
    /\ UNCHANGED <<tx_desc, cur_tx, dirty_tx, drv_xoff, stack_xoff, inflight, card, tx_event,
                   xmit, reclaim, tx_reset>>

-----------------------------------------------------------------------------
(* rtl8169_start_xmit, once per packet of the burst of dev_hard_start_xmit *)

(* What dev_hard_start_xmit does after a packet: the rest of the burst goes *)
(* back to the discipline if the driver stopped the queue.                  *)
burst_goes_on(stopped) ==
    IF xmit.left = 0 THEN xmit' = NoXmit /\ UNCHANGED qd
    ELSE IF stopped
         THEN /\ xmit' = NoXmit
              /\ qd' = netif_schedule([qd EXCEPT !.waiting = @ + xmit.left])
    ELSE /\ xmit' = [NoXmit EXCEPT !.pc = "start", !.left = xmit.left - 1,
                                 !.quiet = xmit.quiet /\ ~xmit.bell]
         /\ UNCHANGED qd

(* err_stop_0: the ring is full though the queue was awake. *)
start_xmit_busy ==
    /\ drv_xoff' = TRUE
    /\ xmit' = NoXmit /\ qd' = netif_schedule([qd EXCEPT !.waiting = @ + xmit.left + 1])
    /\ UNCHANGED <<tx_desc, inflight, card>>

(* A DMA mapping fails: what was mapped is unmapped, the packet dropped. *)
start_xmit_dma_error ==
    /\ burst_goes_on(drv_xoff)
    /\ card' = [card EXCEPT !.owed = @ \/ (xmit.quiet /\ xmit'.pc = "idle")]
    /\ UNCHANGED <<tx_desc, inflight, drv_xoff>>

(* rtl8169_tx_map and rtl8169_xmit_frags write the descriptors, all but the *)
(* first already owned by the card; then the bytes are counted              *)
(* (__netdev_tx_sent_queue: only the last packet of a burst heeds the       *)
(* limit, and the others ring no doorbell).                                 *)
start_xmit_map ==
    \E size \in 1 .. MAX_SKB_FRAGS + 1 :
       /\ tx_desc' = [e \in TxEntry |->
              IF \E i \in 0 .. size - 1 : e = Plus(cur_tx, i) % NUM_TX_DESC
              THEN [own |-> e # cur_tx % NUM_TX_DESC, used |-> TRUE,
                    last |-> e = Plus(cur_tx, size - 1) % NUM_TX_DESC]
              ELSE tx_desc[e]]
       /\ inflight' = inflight + 1
       /\ xmit' = [xmit EXCEPT !.size = size, !.bell = xmit.left = 0 \/ drv_xoff,
                !.pc = IF xmit.left = 0 /\ inflight' > DqlLimit THEN "limit" ELSE "publish"]
       /\ UNCHANGED <<card, drv_xoff, qd>>

start_xmit_first ==
    /\ xmit.pc = "start"
    /\ IF rtl_tx_slots_avail(dirty_tx, cur_tx) THEN start_xmit_dma_error \/ start_xmit_map
       ELSE start_xmit_busy
    /\ UNCHANGED <<cur_tx, dirty_tx, stack_xoff, tx_event, reclaim, tx_reset>>

(* Over the limit: the queue is stopped, *)
sent_queue_stop ==
    /\ xmit.pc = "limit"
    /\ stack_xoff' = TRUE /\ xmit' = [xmit EXCEPT !.pc = "relimit"]
    /\ UNCHANGED <<tx_desc, cur_tx, dirty_tx, drv_xoff, inflight, card, tx_event, reclaim, tx_reset, qd>>

(* and started again if another CPU has just made room. *)
sent_queue_recheck ==
    /\ xmit.pc = "relimit"
    /\ stack_xoff' = (stack_xoff /\ inflight > DqlLimit) /\ xmit' = [xmit EXCEPT !.pc = "publish"]
    /\ UNCHANGED <<tx_desc, cur_tx, dirty_tx, drv_xoff, inflight, card, tx_event, reclaim, tx_reset, qd>>

(* The first descriptor is handed over, cur_tx published and the room       *)
(* looked at.  One step: the card is assumed not to send the packet, and    *)
(* rtl_tx not to run, between the first two.  If they did, rtl_tx would not *)
(* see the packet, and only the next TxOK or the watchdog would help.       *)
start_xmit_publish ==
    /\ xmit.pc = "publish"
    /\ tx_desc' = [tx_desc EXCEPT ![cur_tx % NUM_TX_DESC].own = TRUE]
    /\ cur_tx' = Plus(cur_tx, xmit.size)
    /\ xmit' = [xmit EXCEPT !.size = 0, !.quiet = ~xmit.bell,
                            !.pc = IF rtl_tx_slots_avail(dirty_tx, cur_tx') THEN "bell" ELSE "stop"]
    /\ UNCHANGED <<dirty_tx, drv_xoff, stack_xoff, inflight, card, tx_event, reclaim, tx_reset, qd>>

(* Faulty: the queue stays open behind the packet that filled the ring.     *)
start_xmit_stop_never ==
    /\ xmit.pc = "stop" /\ xmit' = [xmit EXCEPT !.pc = "recheck", !.bell = TRUE]
    /\ UNCHANGED <<tx_desc, cur_tx, dirty_tx, drv_xoff, stack_xoff, inflight, card, tx_event,
                   reclaim, tx_reset, qd>>

start_xmit_stop ==
    /\ xmit.pc = "stop"
    /\ drv_xoff' = TRUE /\ xmit' = [xmit EXCEPT !.pc = "recheck", !.bell = TRUE]
    /\ UNCHANGED <<tx_desc, cur_tx, dirty_tx, stack_xoff, inflight, card, tx_event, reclaim, tx_reset, qd>>

(* Faulty: rtl_tx may have made room before it could see the queue stopped. *)
start_xmit_recheck_never ==
    /\ xmit.pc = "recheck" /\ xmit' = [xmit EXCEPT !.pc = "bell"]
    /\ UNCHANGED <<tx_desc, cur_tx, dirty_tx, drv_xoff, stack_xoff, inflight, card, tx_event,
                   reclaim, tx_reset, qd>>

start_xmit_recheck ==
    /\ xmit.pc = "recheck"
    /\ drv_xoff' = (drv_xoff /\ ~rtl_tx_slots_avail(dirty_tx, cur_tx))
    /\ xmit' = [xmit EXCEPT !.pc = "bell"]
    /\ UNCHANGED <<tx_desc, cur_tx, dirty_tx, stack_xoff, inflight, card, tx_event, reclaim, tx_reset, qd>>

start_xmit_bell ==
    /\ xmit.pc = "bell"
    /\ card' = IF xmit.bell THEN doorbell(card) ELSE card
    /\ burst_goes_on(drv_xoff)
    /\ UNCHANGED <<tx_desc, cur_tx, dirty_tx, drv_xoff, stack_xoff, inflight, tx_event, reclaim, tx_reset>>

-----------------------------------------------------------------------------
(* The card *)

(* It sends descriptor after descriptor and raises TxOK after a packet.     *)
(* Before it finishes the last one it knows of, it has looked for a next    *)
(* one: a doorbell that comes after that is lost.                           *)
card_sends ==
    LET next == (card.at + 1) % NUM_TX_DESC IN
    /\ card.state = "active" /\ tx_desc[card.at].own
    /\ IF tx_desc[next].own /\ next # card.at
       THEN /\ tx_desc' = [tx_desc EXCEPT ![card.at].own = FALSE]
            /\ card' = [card EXCEPT !.at = next]
            /\ tx_event' = (tx_event \/ tx_desc[card.at].last)
       ELSE /\ card' = [card EXCEPT !.state = "leaving"]
            /\ UNCHANGED <<tx_desc, tx_event>>
    /\ UNCHANGED <<cur_tx, dirty_tx, drv_xoff, stack_xoff, inflight, xmit, reclaim, tx_reset, qd>>

card_idles ==
    /\ \/ /\ card.state = "leaving"
          /\ tx_desc' = [tx_desc EXCEPT ![card.at].own = FALSE]
          /\ card' = [card EXCEPT !.at = (card.at + 1) % NUM_TX_DESC, !.state = "idle"]
          /\ tx_event' = TRUE
       \/ /\ card.state = "active" /\ ~tx_desc[card.at].own
          /\ card' = [card EXCEPT !.state = "idle"] /\ UNCHANGED <<tx_desc, tx_event>>
    /\ UNCHANGED <<cur_tx, dirty_tx, drv_xoff, stack_xoff, inflight, xmit, reclaim, tx_reset, qd>>

-----------------------------------------------------------------------------
(* rtl_tx *)

rtl_tx_begin ==
    /\ tx_event /\ reclaim.pc = "idle" /\ tx_reset \in {"no", "stopped"}
    /\ tx_event' = FALSE
    /\ reclaim' = [NoPoll EXCEPT !.pc = "loop", !.dirty = dirty_tx]
    /\ UNCHANGED <<tx_desc, cur_tx, dirty_tx, drv_xoff, stack_xoff, inflight, card, xmit, tx_reset, qd>>

rtl_tx_loop ==
    LET e == reclaim.dirty % NUM_TX_DESC IN
    /\ reclaim.pc = "loop"
    /\ IF cur_tx # reclaim.dirty /\ ~tx_desc[e].own
       THEN /\ tx_desc' = [tx_desc EXCEPT ![e] = FreeDesc]
            /\ reclaim' = [pc |-> "loop", dirty |-> Plus(reclaim.dirty, 1), skb |-> tx_desc[e].last,
                           pkts |-> reclaim.pkts + (IF tx_desc[e].last THEN 1 ELSE 0)]
       ELSE /\ reclaim' = IF reclaim.dirty = dirty_tx THEN NoPoll
                          ELSE [reclaim EXCEPT !.pc = "complete"]
            /\ UNCHANGED tx_desc
    /\ UNCHANGED <<cur_tx, dirty_tx, drv_xoff, stack_xoff, inflight, card, tx_event, xmit, tx_reset, qd>>

(* netdev_tx_completed_queue: count, *)
completed_queue ==
    /\ reclaim.pc = "complete"
    /\ inflight' = inflight - reclaim.pkts
    /\ reclaim' = [reclaim EXCEPT !.pc = IF reclaim.pkts = 0 \/ inflight' > DqlLimit
                                         THEN "publish" ELSE "restart"]
    /\ UNCHANGED <<tx_desc, cur_tx, dirty_tx, drv_xoff, stack_xoff, card, tx_event, xmit, tx_reset, qd>>

(* then start the queue if BQL had stopped it. *)
completed_queue_restart ==
    /\ reclaim.pc = "restart"
    /\ stack_xoff' = FALSE
    /\ qd' = IF stack_xoff /\ ~drv_xoff THEN netif_schedule(qd) ELSE qd
    /\ reclaim' = [reclaim EXCEPT !.pc = "publish"]
    /\ UNCHANGED <<tx_desc, cur_tx, dirty_tx, drv_xoff, inflight, card, tx_event, xmit, tx_reset>>

rtl_tx_publish ==
    /\ reclaim.pc = "publish"
    /\ dirty_tx' = reclaim.dirty /\ reclaim' = [reclaim EXCEPT !.pc = "wake"]
    /\ UNCHANGED <<tx_desc, cur_tx, drv_xoff, stack_xoff, inflight, card, tx_event, xmit, tx_reset, qd>>

(* netif_wake_queue if the queue is stopped and has room. *)
rtl_tx_wake ==
    /\ reclaim.pc = "wake"
    /\ LET wake == drv_xoff /\ rtl_tx_slots_avail(dirty_tx, cur_tx) IN
       /\ drv_xoff' = (drv_xoff /\ ~wake)
       /\ qd' = IF wake THEN netif_schedule(qd) ELSE qd
    /\ reclaim' = [reclaim EXCEPT !.pc = "bell"]
    /\ UNCHANGED <<tx_desc, cur_tx, dirty_tx, stack_xoff, inflight, card, tx_event, xmit, tx_reset>>

(* The extra doorbell for a burst. *)
rtl_tx_bell ==
    /\ reclaim.pc = "bell"
    /\ card' = IF cur_tx # reclaim.dirty /\ reclaim.skb THEN doorbell(card) ELSE card
    /\ reclaim' = NoPoll
    /\ UNCHANGED <<tx_desc, cur_tx, dirty_tx, drv_xoff, stack_xoff, inflight, tx_event, xmit, tx_reset, qd>>

-----------------------------------------------------------------------------
(* rtl_reset_work, which rtl8169_tx_timeout schedules when the watchdog     *)
(* finds the queue stopped, and an error interrupt at any time.             *)
reset_stop_queue ==
    /\ tx_reset = "no"
    /\ drv_xoff' = TRUE /\ tx_reset' = "stopped"
    /\ UNCHANGED <<tx_desc, cur_tx, dirty_tx, stack_xoff, inflight, card, tx_event, xmit, reclaim, qd>>

(* napi_disable waits for the poll, synchronize_net for a sender; then the  *)
(* card is reset.  rtl_tx, still running after netif_stop_queue, or a       *)
(* sender's second look, may have started the queue again: packets are then *)
(* sent into a ring that is being cleared.  Nothing is said of what follows *)
(* ("raced").                                                               *)
reset_napi_disable ==
    /\ tx_reset = "stopped" /\ reclaim.pc = "idle"
    /\ tx_reset' = "napi_off"
    /\ UNCHANGED <<tx_desc, cur_tx, dirty_tx, drv_xoff, stack_xoff, inflight, card, tx_event,
                   xmit, reclaim, qd>>

reset_synchronize_net ==
    /\ tx_reset = "napi_off" /\ xmit.pc = "idle"
    /\ tx_reset' = IF drv_xoff THEN "quiet" ELSE "raced"
    /\ tx_event' = FALSE
    /\ card' = [state |-> "off", at |-> 0, owed |-> FALSE]
    /\ UNCHANGED <<tx_desc, cur_tx, dirty_tx, drv_xoff, stack_xoff, inflight, xmit, reclaim, qd>>

(* rtl8169_tx_clear and rtl8169_init_ring_indexes. *)
reset_tx_clear ==
    /\ tx_reset = "quiet"
    /\ tx_reset' = "cleared"
    /\ tx_desc' = [e \in TxEntry |-> FreeDesc] /\ cur_tx' = 0 /\ dirty_tx' = 0
    /\ inflight' = 0 /\ stack_xoff' = FALSE
    /\ UNCHANGED <<drv_xoff, card, tx_event, xmit, reclaim, qd>>

(* napi_enable, rtl_hw_start and netif_wake_queue. *)
reset_wake_queue ==
    /\ tx_reset = "cleared"
    /\ tx_reset' = "no"
    /\ card' = [state |-> "idle", at |-> 0, owed |-> FALSE]
    /\ drv_xoff' = FALSE
    /\ qd' = IF drv_xoff THEN netif_schedule(qd) ELSE qd
    /\ UNCHANGED <<tx_desc, cur_tx, dirty_tx, stack_xoff, inflight, tx_event, xmit, reclaim>>

-----------------------------------------------------------------------------
TxRingInit ==
    /\ tx_desc = [e \in TxEntry |-> FreeDesc] /\ cur_tx = 0 /\ dirty_tx = 0
    /\ drv_xoff = FALSE /\ stack_xoff = FALSE /\ inflight = 0
    /\ card = [state |-> "idle", at |-> 0, owed |-> FALSE] /\ tx_event = FALSE
    /\ xmit = NoXmit /\ reclaim = NoPoll /\ tx_reset = "no"
    /\ qd = [waiting |-> 0, running |-> FALSE, sched |-> FALSE]

start_xmit == start_xmit_first \/ sent_queue_stop
              \/ sent_queue_recheck \/ start_xmit_publish \/ start_xmit_stop
              \/ start_xmit_recheck \/ start_xmit_bell

rtl_tx == rtl_tx_begin \/ rtl_tx_loop \/ completed_queue \/ completed_queue_restart
          \/ rtl_tx_publish \/ rtl_tx_wake \/ rtl_tx_bell

rtl_reset == reset_stop_queue \/ reset_napi_disable
             \/ reset_synchronize_net \/ reset_tx_clear \/ reset_wake_queue

TxRingNext == /\ tx_reset # "raced"
              /\ \/ dev_queue_xmit \/ qdisc_run \/ net_tx_action
                 \/ start_xmit \/ card_sends \/ card_idles \/ rtl_tx \/ rtl_reset

-----------------------------------------------------------------------------
(* Properties *)

TxRingTypeOK ==
    /\ tx_desc \in [TxEntry -> [own : BOOLEAN, last : BOOLEAN, used : BOOLEAN]]
    /\ {cur_tx, dirty_tx, reclaim.dirty} \subseteq 0 .. IndexRange - 1
    /\ {drv_xoff, stack_xoff, tx_event} \subseteq BOOLEAN
    /\ inflight \in 0 .. NUM_TX_DESC
    /\ card \in [state : {"idle", "active", "leaving", "off"}, at : TxEntry, owed : BOOLEAN]

InFlight(d, c) == {Plus(d, i) % NUM_TX_DESC :
                      i \in {j \in 0 .. NUM_TX_DESC - 1 : j < Plus(c, IndexRange - d)}}

(* rtl_tx is running, or will be brought by the card. *)
ReclaimComes == \/ tx_event \/ reclaim.pc # "idle" \/ card.state = "leaving"
                \/ card.state = "active" /\ tx_desc[card.at].own

(* The ring is never overrun: descriptors in use lie between dirty_tx and   *)
(* cur_tx or belong to the packet being queued, the card never runs into an *)
(* entry out of this range, and start_xmit is not called on a full ring     *)
(* ("BUG! Tx Ring full when queue awake!").  Nothing is forgotten either:   *)
(* whenever the queue is stopped, somebody is still to look at the room and *)
(* wake it; whenever the card idles before an owned descriptor, a doorbell  *)
(* is still to come, unless a burst ended in an error before its doorbell   *)
(* (the error paths of start_xmit ring none); and waiting packets of a      *)
(* queue that is not stopped are being run or scheduled.                    *)
TxRingSound ==
    tx_reset = "no" =>
      /\ \A e \in TxEntry : tx_desc[e].used => e \in InFlight(dirty_tx, Plus(cur_tx, xmit.size))
      /\ \A e \in TxEntry : tx_desc[e].own => tx_desc[e].used
      /\ xmit.pc = "start" => rtl_tx_slots_avail(dirty_tx, cur_tx)
      /\ drv_xoff => xmit.pc \in {"recheck", "bell"} \/ ReclaimComes
      /\ stack_xoff => xmit.pc # "idle" \/ ReclaimComes
      /\ (card.state = "idle" /\ tx_desc[card.at].own /\ card.at \in InFlight(dirty_tx, cur_tx))
            => xmit.pc # "idle" \/ ReclaimComes \/ card.owed
      /\ qd.waiting > 0 /\ ~netif_xmit_stopped => qd.running \/ qd.sched \/ reclaim.pc # "idle"
=============================================================================
