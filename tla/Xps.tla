-------------------------------- MODULE Xps --------------------------------
(***************************************************************************)
(* The transmit queues of a device and the choice among them               *)
(* (net/core/dev.c): the number of queues in use, the ranges of queues of  *)
(* the traffic classes, and the maps of transmit packet steering (XPS)     *)
(* from CPUs and from receive queues to transmit queues.                   *)
(*                                                                         *)
(* Configuration is done under the rtnl lock, one call at a time; a sender *)
(* runs at any moment, in an RCU section that covers the choice of a queue *)
(* and the enqueueing.  The lowering of the number of queues is split at   *)
(* synchronize_net, for which it waits.  A mask is what is left of it      *)
(* after the online CPUs were taken; a map is the set of its queues.       *)
(* Subordinate channels are not modelled.                                  *)
(***************************************************************************)
EXTENDS Integers, FiniteSets

CONSTANTS NumTx,       \* num_tx_queues
          NumRx,       \* num_rx_queues
          XpsCpu,      \* the CPUs
          Layout       \* the traffic-class layouts a driver sets up, see Layouts

ASSUME XpsAssumption == NumTx \in Nat \ {0} /\ NumRx \in Nat \ {0} /\ Layout \subseteq 1 .. 3

VARIABLES xps_maps,    \* dev->xps_maps, by type
          xps_key,     \* the static keys xps_needed and xps_rxqs_needed
          tc_state,    \* num_tc, tc_to_txq and prio_tc_map
          real_num,    \* real_num_tx_queues and real_num_rx_queues
          queue_call,  \* the netif_set_real_num_queues that runs
          sender,      \* the sender: where it is and the queue it chose
          sk_queue,    \* sk_tx_queue_mapping of its socket
          qdiscs,      \* queues with packets
          xps_error    \* ghost: an old map was walked past its end, or leaked
xps_vars == <<xps_maps, xps_key, tc_state, real_num, queue_call, sender, sk_queue, qdiscs, xps_error>>
config_vars == <<xps_maps, xps_key, tc_state, real_num, queue_call, xps_error>>
send_vars == <<sender, sk_queue, qdiscs>>

Queue == 0 .. NumTx - 1
Class == 0 .. 1
Prio == 0 .. 1
XpsType == {"XPS_CPUS", "XPS_RXQS"}
Ids(type) == IF type = "XPS_CPUS" THEN XpsCpu ELSE 0 .. NumRx - 1

NoMaps == [num_tc |-> 0]
NoQueue == NumTx
NoCallRuns == [pc |-> "idle", txq |-> 0, rxq |-> 0, old_rxq |-> 0, waits |-> FALSE]
ZeroTc == [num_tc |-> 0, range |-> [t \in Class |-> [offset |-> 0, count |-> 0]], prio |-> [p \in Prio |-> 0]]

XpsInit ==
    /\ xps_maps = [t \in XpsType |-> NoMaps]
    /\ xps_key = [needed |-> 0, rxqs |-> 0]
    /\ tc_state = ZeroTc
    /\ real_num = [tx |-> NumTx, rx |-> NumRx]
    /\ queue_call = NoCallRuns
    /\ sender = [pc |-> "idle", q |-> NoQueue]
    /\ sk_queue = NoQueue
    /\ qdiscs = {}
    /\ xps_error = "no"

Configurable == queue_call.pc = "idle"

-----------------------------------------------------------------------------
(* XPS maps *)

Installed(maps) == maps # NoMaps
Cells(maps, type) == Ids(type) \X (0 .. maps.num_tc - 1)

(* remove_xps_queue for the queues gone, in every cell; reset_xps_maps when *)
(* no cell has a queue left.                                                *)
remove_xps_queues(maps, type, gone) ==
    LET left == [maps EXCEPT !.queues = [c \in Cells(maps, type) |-> @[c] \ gone]] IN
    IF \A c \in Cells(maps, type) : left.queues[c] = {} THEN NoMaps ELSE left

(* The static keys count the maps that are installed. *)
key_change(old, new) ==
    LET delta(t) == (IF Installed(new[t]) THEN 1 ELSE 0) - (IF Installed(old[t]) THEN 1 ELSE 0) IN
    xps_key' = [needed |-> xps_key.needed + delta("XPS_CPUS") + delta("XPS_RXQS"),
                rxqs |-> xps_key.rxqs + delta("XPS_RXQS")]

(* clean_xps_maps and netif_reset_xps_queues: nothing is looked at while    *)
(* the keys say that no device has a map.                                   *)
clean_xps_maps(type, gone) ==
    IF Installed(xps_maps[type]) /\ xps_key.needed > 0 /\ (type = "XPS_RXQS" => xps_key.rxqs > 0) /\ gone # {}
    THEN remove_xps_queues(xps_maps[type], type, gone)
    ELSE xps_maps[type]
netif_reset_xps_queues(gone) == [t \in XpsType |-> clean_xps_maps(t, gone)]

(* netdev_txq_to_tc; NoQueue stands for -1. *)
InRange(range, q) == q >= range.offset /\ q < range.offset + range.count
netdev_txq_to_tc(q) ==
    LET found == {t \in Class : InRange(tc_state.range[t], q)} IN
    IF tc_state.num_tc = 0 THEN 0
    ELSE IF found = {} THEN NoQueue ELSE CHOOSE t \in found : \A u \in found : t <= u

(* The maps that __netif_set_xps_queue publishes for a mask that is not     *)
(* empty: cells of other classes and ids are copied from old maps of the    *)
(* same size, and the queue leaves every cell that was not asked for.       *)
same_size(old, num_tc) == Installed(old) /\ old.num_tc = num_tc
xps_copy(old, num_tc, c) == IF same_size(old, num_tc) THEN old.queues[c] ELSE {}
new_maps(old, type, mask, index, num_tc, tc) ==
    [num_tc |-> num_tc,
     queues |-> [c \in Ids(type) \X (0 .. num_tc - 1) |->
                   IF c[1] \in mask /\ c[2] = tc THEN xps_copy(old, num_tc, c) \cup {index}
                   ELSE xps_copy(old, num_tc, c) \ {index}]]

(* With nothing left of the mask the queue only leaves the maps there are.  *)
no_new_maps(old, type, index) ==
    IF Installed(old) THEN remove_xps_queues(old, type, {index}) ELSE old

(* The loop that frees the old maps walks num_tc cells of each id, whatever *)
(* the size of the old maps was.                                            *)
old_maps_walk(old, type, num_tc) ==
    IF ~Installed(old) \/ same_size(old, num_tc) THEN "no"
    ELSE IF num_tc > old.num_tc THEN "overrun"
    ELSE IF \E c \in Cells(old, type) : c[2] >= num_tc /\ old.queues[c] # {} THEN "leak" ELSE "no"

(* __netif_set_xps_queue; without memory it changes nothing. *)
netif_set_xps_queue(type, mask, index) ==
    LET old == xps_maps[type]
        num_tc == IF tc_state.num_tc = 0 THEN 1 ELSE tc_state.num_tc
        tc == netdev_txq_to_tc(index)
        new == IF mask = {} THEN no_new_maps(old, type, index)
               ELSE new_maps(old, type, mask, index, num_tc, tc) IN
    /\ Configurable /\ index < real_num.tx
    /\ tc # NoQueue
    /\ xps_maps' = [xps_maps EXCEPT ![type] = new]
    /\ key_change(xps_maps, xps_maps')
    /\ xps_error' = IF xps_error = "no" /\ mask # {} THEN old_maps_walk(old, type, num_tc) ELSE xps_error
    /\ UNCHANGED <<tc_state, real_num, queue_call, send_vars>>

-----------------------------------------------------------------------------
(* Traffic classes *)

(* What a driver or mqprio asks for: classes, their ranges and priorities.  *)
Layouts == <<[num_tc |-> 1, range |-> <<[offset |-> 0, count |-> NumTx], [offset |-> 0, count |-> 0]>>, prio |-> <<0, 0>>],
             [num_tc |-> 2, range |-> <<[offset |-> 0, count |-> 1], [offset |-> 1, count |-> NumTx - 1]>>, prio |-> <<1, 1>>],
             [num_tc |-> 2, range |-> <<[offset |-> NumTx - 1, count |-> 1], [offset |-> 0, count |-> NumTx - 1]>>, prio |-> <<0, 1>>]>>

Fits(layout) == \A t \in Class : t < layout.num_tc =>
                   layout.range[t + 1].offset + layout.range[t + 1].count <= real_num.tx

(* Faulty: the maps survive a change of the number of classes. *)
netdev_set_num_tc_keeps == xps_maps

(* netdev_set_num_tc takes every queue out of the XPS maps ... *)
netdev_set_num_tc == netif_reset_xps_queues(Queue)

(* ... netdev_set_tc_queue takes those of the range of the class, of which  *)
(* none is left, and sets the range; netdev_set_prio_tc_map follows.        *)
setup_tc(layout) ==
    /\ Configurable /\ Fits(layout)
    /\ xps_maps' = netdev_set_num_tc
    /\ key_change(xps_maps, xps_maps')
    /\ tc_state' = [num_tc |-> layout.num_tc,
                    range |-> [t \in Class |-> IF t < layout.num_tc THEN layout.range[t + 1] ELSE tc_state.range[t]],
                    prio |-> [p \in Prio |-> layout.prio[p + 1]]]
    /\ UNCHANGED <<real_num, queue_call, xps_error, send_vars>>

netdev_reset_tc ==
    /\ Configurable /\ tc_state # ZeroTc
    /\ xps_maps' = netif_reset_xps_queues(Queue)
    /\ key_change(xps_maps, xps_maps')
    /\ tc_state' = ZeroTc
    /\ UNCHANGED <<real_num, queue_call, xps_error, send_vars>>

(* netif_setup_tc: with class 0 out of range the classes are given up; the  *)
(* priorities from 1 on of a class out of range go to class 0.              *)
Outside(range, txq) == range.offset + range.count > txq
netif_setup_tc(txq) ==
    IF tc_state.num_tc = 0 THEN tc_state
    ELSE IF Outside(tc_state.range[0], txq) THEN [tc_state EXCEPT !.num_tc = 0]
    ELSE [tc_state EXCEPT !.prio = [p \in Prio |->
            IF p > 0 /\ Outside(tc_state.range[@[p]], txq) THEN 0 ELSE @[p]]]

-----------------------------------------------------------------------------
(* The number of queues *)

(* netif_set_real_num_queues starts with the receive queues, if they grow. *)
netif_set_real_num_queues(txq, rxq) ==
    /\ Configurable /\ (txq # real_num.tx \/ rxq # real_num.rx)
    /\ queue_call' = [pc |-> "tx", txq |-> txq, rxq |-> rxq, old_rxq |-> real_num.rx, waits |-> FALSE]
    /\ real_num' = [real_num EXCEPT !.rx = IF rxq > @ THEN rxq ELSE @]
    /\ UNCHANGED <<xps_maps, xps_key, tc_state, xps_error, send_vars>>

(* netdev_queue_update_kobjects fails when the queues grow: undo_rx. *)
set_real_num_fails ==
    /\ queue_call.pc = "tx" /\ queue_call.txq > real_num.tx
    /\ real_num' = [real_num EXCEPT !.rx = queue_call.old_rxq]
    /\ queue_call' = NoCallRuns
    /\ UNCHANGED <<xps_maps, xps_key, tc_state, xps_error, send_vars>>

(* netif_set_real_num_tx_queues; before the queues are lowered the receive  *)
(* queues are, and then it waits for the senders.                           *)
set_real_num_tx ==
    LET txq == queue_call.txq IN
    /\ queue_call.pc = "tx"
    /\ tc_state' = IF txq = real_num.tx THEN tc_state ELSE netif_setup_tc(txq)
    /\ real_num' = [tx |-> txq, rx |-> queue_call.rxq]
    /\ queue_call' = IF txq < real_num.tx
                     THEN [queue_call EXCEPT !.pc = "sync", !.waits = sender.pc # "idle"] ELSE NoCallRuns
    /\ UNCHANGED <<xps_maps, xps_key, xps_error, send_vars>>

(* Faulty: the queues are reset at once. *)
senders_done_skipped == TRUE

(* synchronize_net *)
senders_done == ~queue_call.waits

(* qdisc_reset_all_tx_gt and netif_reset_xps_queues_gt. *)
reset_tx_gt ==
    LET gone == {q \in Queue : q >= queue_call.txq} IN
    /\ queue_call.pc = "sync" /\ senders_done
    /\ qdiscs' = qdiscs \ gone
    /\ xps_maps' = netif_reset_xps_queues(gone)
    /\ key_change(xps_maps, xps_maps')
    /\ queue_call' = NoCallRuns
    /\ UNCHANGED <<tc_state, real_num, xps_error, sender, sk_queue>>

-----------------------------------------------------------------------------
(* Sending *)

(* __get_xps_queue_idx: the hash picks any queue of the cell; one that is   *)
(* not in use counts as none.                                               *)
xps_queue_idx(type, id, prio) ==
    LET maps == xps_maps[type]
        tc == tc_state.prio[prio]
        cell == IF Installed(maps) /\ tc < maps.num_tc THEN maps.queues[<<id, tc>>] ELSE {} IN
    IF cell = {} THEN {NoQueue} ELSE {IF q < real_num.tx THEN q ELSE NoQueue : q \in cell}

(* The choices of first, and those of next where first has none. *)
OrElse(first, next) == (first \ {NoQueue}) \cup (IF NoQueue \in first THEN next ELSE {})

(* get_xps_queue: by the receive queue of the socket, or by the CPU. *)
get_xps_queue(cpu, rxq, prio) ==
    IF xps_key.needed = 0 THEN {NoQueue}
    ELSE OrElse(IF xps_key.rxqs > 0 THEN xps_queue_idx("XPS_RXQS", rxq, prio) ELSE {NoQueue},
                xps_queue_idx("XPS_CPUS", cpu, prio))

(* skb_tx_hash: a queue of the range of the class, or any queue in use. *)
skb_tx_hash(prio) ==
    LET range == tc_state.range[tc_state.prio[prio]] IN
    IF tc_state.num_tc = 0 \/ range.count = 0 THEN 0 .. real_num.tx - 1
    ELSE range.offset .. range.offset + range.count - 1

netdev_cap_txqueue(q) == IF q >= real_num.tx THEN 0 ELSE q

(* netdev_pick_tx and netdev_core_pick_tx: the queue of the socket, unless  *)
(* order does not matter or it is out of use; a new one may be recorded.    *)
netdev_core_pick_tx(cpu, rxq, prio) ==
    LET new == OrElse(get_xps_queue(cpu, rxq, prio), skb_tx_hash(prio)) IN
    /\ sender.pc = "idle"
    /\ \/ /\ sk_queue # NoQueue /\ sk_queue < real_num.tx /\ real_num.tx # 1
          /\ sender' = [pc |-> "picked", q |-> netdev_cap_txqueue(sk_queue)]
          /\ UNCHANGED sk_queue
       \/ \E q \in (IF real_num.tx = 1 THEN {0} ELSE new) :
             /\ sender' = [pc |-> "picked", q |-> netdev_cap_txqueue(q)]
             /\ sk_queue' \in (IF real_num.tx = 1 THEN {sk_queue} ELSE {sk_queue, q})
    /\ UNCHANGED <<config_vars, qdiscs>>

(* The packet goes on the queue that was chosen, and the section ends. *)
enqueue_skb ==
    /\ sender.pc = "picked"
    /\ qdiscs' = qdiscs \cup {sender.q}
    /\ sender' = [pc |-> "idle", q |-> NoQueue]
    /\ queue_call' = [queue_call EXCEPT !.waits = FALSE]
    /\ UNCHANGED <<xps_maps, xps_key, tc_state, real_num, xps_error, sk_queue>>

run_qdisc(q) ==
    /\ q \in qdiscs /\ qdiscs' = qdiscs \ {q}
    /\ UNCHANGED <<config_vars, sender, sk_queue>>

XpsNext ==
    \/ \E t \in XpsType : \E m \in SUBSET Ids(t), q \in Queue : netif_set_xps_queue(t, m, q)
    \/ \E l \in Layout : setup_tc(Layouts[l])
    \/ netdev_reset_tc
    \/ \E t \in 1 .. NumTx, r \in 1 .. NumRx : netif_set_real_num_queues(t, r)
    \/ set_real_num_fails \/ set_real_num_tx \/ reset_tx_gt
    \/ \E c \in XpsCpu, r \in 0 .. NumRx - 1, p \in Prio : netdev_core_pick_tx(c, r, p)
    \/ enqueue_skb
    \/ \E q \in Queue : run_qdisc(q)

-----------------------------------------------------------------------------

XpsTypeOK ==
    /\ \A t \in XpsType : Installed(xps_maps[t]) =>
          xps_maps[t].num_tc \in 1 .. 2 /\ xps_maps[t].queues \in [Cells(xps_maps[t], t) -> SUBSET Queue]
    /\ xps_key \in [needed : 0 .. 2, rxqs : 0 .. 1]
    /\ tc_state.num_tc \in 0 .. 2 /\ tc_state.prio \in [Prio -> Class]
    /\ real_num \in [tx : 1 .. NumTx, rx : 1 .. NumRx]
    /\ sender.q \in 0 .. NoQueue /\ sk_queue \in 0 .. NoQueue
    /\ qdiscs \subseteq Queue

Maps == {xps_maps[t] : t \in XpsType} \ {NoMaps}

(* Between calls no map sends to a queue that is not in use and no packet   *)
(* sits on one; a map that is installed has a queue, and the keys count the *)
(* maps; the classes of the priorities from 1 on lie within the queues; and *)
(* maps of another number of classes are never walked past their end.       *)
XpsSound ==
    /\ xps_error # "overrun"
    /\ xps_key.needed = Cardinality({t \in XpsType : Installed(xps_maps[t])})
    /\ xps_key.rxqs = (IF Installed(xps_maps["XPS_RXQS"]) THEN 1 ELSE 0)
    /\ Configurable =>
         /\ \A m \in Maps : \A c \in DOMAIN m.queues : \A q \in m.queues[c] : q < real_num.tx
         /\ \A m \in Maps : \E c \in DOMAIN m.queues : m.queues[c] # {}
         /\ \A q \in qdiscs : q < real_num.tx
         /\ tc_state.num_tc > 0 => \A p \in Prio \ {0} : ~Outside(tc_state.range[tc_state.prio[p]], real_num.tx)
=============================================================================
