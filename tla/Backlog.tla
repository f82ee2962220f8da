------------------------------- MODULE Backlog -------------------------------
(***************************************************************************)
(* Receive packet steering and the per-CPU backlog (net/core/dev.c).  The  *)
(* CPU that polls the device (Home) puts the packets of a flow on the      *)
(* backlog of the CPU where its reader runs, kicks that CPU, and must not  *)
(* let a packet overtake an earlier one when the reader moves.  Meanwhile  *)
(* a device is unregistered and its packets flushed, and a CPU goes down   *)
(* with packets on its backlog.                                            *)
(*                                                                         *)
(* Steps under rps_lock are atomic, and so is get_rps_cpu, whose only      *)
(* remote reads are of counters that grow.  The flow is one entry of the   *)
(* flow table; packets are numbered in the order they arrive.              *)
(***************************************************************************)
EXTENDS Naturals, Sequences, SequencesExt, FiniteSets

CONSTANTS BlCpu, Home,
          netdev_max_backlog,
          Quota,              \* dev_rx_weight
          MaxPackets,         \* bound: packets
          MaxMoves            \* bound: moves of the reader, removals of a CPU

NoCpu == 0      \* RPS_NO_CPU

ASSUME BacklogAssumption == /\ NoCpu \notin BlCpu /\ Home \in BlCpu
                            /\ netdev_max_backlog \in Nat /\ Quota \in Nat \ {0}
                            /\ MaxPackets \in Nat /\ MaxMoves \in Nat

VARIABLES bl_sd,      \* per CPU, softnet_data: see InitSd
          bl_flow,    \* rps_dev_flow: cpu and last_qtail
          bl_want,    \* rps_sock_flow_table: the CPU of the reader
          bl_ipis,    \* rps_ipi_list of Home, in any order
          bl_sent,    \* CPUs an IPI is on its way to
          bl_online,
          bl_dev,     \* up, closed, or unregistering and later
          bl_flush,   \* CPUs whose flush_works is still to run
          bl_next,    \* number of packets that have arrived
          bl_given,   \* packets handed to the protocols, in order
          bl_lost,    \* packets dropped
          bl_moves,
          bl_stale    \* ghost: a CPU went down: order, or a kick, may be lost
backlog_vars == <<bl_sd, bl_flow, bl_want, bl_ipis, bl_sent, bl_online, bl_dev, bl_flush,
                  bl_next, bl_given, bl_lost, bl_moves, bl_stale>>

NoPacket == 0

(* input_pkt_queue, process_queue, the packet in __netif_receive_skb, the   *)
(* two counters, NAPI_STATE_SCHED of the backlog, whether it is on          *)
(* poll_list, whether process_backlog runs and how much it has done.        *)
InitSd == [input |-> <<>>, process |-> <<>>, skb |-> NoPacket, head |-> 0, tail |-> 0,
           sched |-> FALSE, listed |-> FALSE, polling |-> FALSE, work |-> 0]

cpu_online(c) == c \in bl_online

-----------------------------------------------------------------------------
(* Receiving on Home *)

(* Faulty: the flow follows its reader at once. *)
may_switch_always(cpu, want) == cpu # want

(* get_rps_cpu: the flow follows its reader once the packets it has on the  *)
(* old CPU's backlog have been handled.                                     *)
may_switch(cpu, want) ==
    /\ cpu # want
    /\ \/ cpu = NoCpu
       \/ ~cpu_online(cpu)
       \/ bl_sd[cpu].head >= bl_flow.last_qtail

set_rps_cpu(next) == [cpu |-> next, last_qtail |-> bl_sd[next].head]

get_rps_cpu == IF may_switch(bl_flow.cpu, bl_want) THEN set_rps_cpu(bl_want) ELSE bl_flow

(* rps_ipi_queued and ____napi_schedule, from Home: the backlog of c gets   *)
(* scheduled, by an IPI if it is another CPU's.                             *)
napi_schedule_backlog(sd, c) ==
    IF sd.sched THEN sd ELSE [sd EXCEPT !.sched = TRUE, !.listed = @ \/ c = Home]

(* enqueue_to_backlog on the backlog sd of CPU c; skb_flow_limit may refuse *)
(* a packet once the queue is half full.                                    *)
enqueue_to_backlog(sd, c, p) ==
    LET first == Len(sd.input) = 0
        kicked == IF first THEN napi_schedule_backlog(sd, c) ELSE sd IN
    [kicked EXCEPT !.input = Append(@, p), !.tail = @ + 1]

accepts(sd) == bl_dev = "up" /\ Len(sd.input) <= netdev_max_backlog

flow_limit(sd) == Len(sd.input) >= (netdev_max_backlog \div 2) /\ Len(sd.input) > 0

(* enqueue_to_backlog of packet p on CPU c, in the softnet_data sds, with   *)
(* flow as the entry that get_rps_cpu left; steered says that it is that    *)
(* entry's last_qtail that records the place.                               *)
enqueue(sds, c, p, flow, steered) ==
    LET sd == sds[c] IN
    \/ /\ accepts(sd)
       /\ bl_sd' = [sds EXCEPT ![c] = enqueue_to_backlog(sd, c, p)]
       /\ bl_flow' = IF steered THEN [flow EXCEPT !.last_qtail = sd.tail + 1] ELSE flow
       /\ bl_ipis' = IF Len(sd.input) = 0 /\ ~sd.sched /\ c # Home THEN bl_ipis \cup {c} ELSE bl_ipis
       /\ UNCHANGED bl_lost
    \/ /\ ~accepts(sd) \/ flow_limit(sd)
       /\ bl_sd' = sds /\ bl_flow' = flow
       /\ bl_lost' = bl_lost \cup {p}
       /\ UNCHANGED bl_ipis

(* netif_receive_skb_internal: with no CPU to steer to (no rps_map is set), *)
(* the packet is handled here.                                              *)
netif_receive_skb ==
    LET flow == get_rps_cpu
        p == bl_next + 1 IN
    /\ bl_next < MaxPackets
    /\ bl_next' = p
    /\ IF cpu_online(flow.cpu)
       THEN enqueue(bl_sd, flow.cpu, p, flow, TRUE) /\ UNCHANGED bl_given
       ELSE /\ bl_flow' = flow /\ bl_given' = Append(bl_given, p)
            /\ UNCHANGED <<bl_sd, bl_ipis, bl_lost>>
    /\ UNCHANGED <<bl_want, bl_sent, bl_online, bl_dev, bl_flush, bl_moves, bl_stale>>

(* net_rps_action_and_irq_enable, at the end of net_rx_action or in         *)
(* process_backlog: a CPU that is not online gets no IPI.                   *)
net_rps_send_ipi ==
    /\ bl_ipis # {}
    /\ bl_sent' = bl_sent \cup (bl_ipis \cap bl_online)
    /\ bl_ipis' = {}
    /\ UNCHANGED <<bl_sd, bl_flow, bl_want, bl_online, bl_dev, bl_flush, bl_next, bl_given,
                   bl_lost, bl_moves, bl_stale>>

rps_trigger_softirq ==
    \E c \in bl_sent :
       /\ bl_sd' = [bl_sd EXCEPT ![c].listed = TRUE]
       /\ bl_sent' = bl_sent \ {c}
       /\ UNCHANGED <<bl_flow, bl_want, bl_ipis, bl_online, bl_dev, bl_flush, bl_next, bl_given,
                      bl_lost, bl_moves, bl_stale>>

(* rps_record_sock_flow: the reader calls recvmsg on another CPU. *)
rps_record_sock_flow ==
    /\ bl_moves < MaxMoves
    /\ \E c \in BlCpu \ {bl_want} : bl_want' = c
    /\ bl_moves' = bl_moves + 1
    /\ UNCHANGED <<bl_sd, bl_flow, bl_ipis, bl_sent, bl_online, bl_dev, bl_flush, bl_next,
                   bl_given, bl_lost, bl_stale>>

-----------------------------------------------------------------------------
(* process_backlog on CPU c *)

Sd(c, sd) == /\ bl_sd' = [bl_sd EXCEPT ![c] = sd]
             /\ UNCHANGED <<bl_flow, bl_want, bl_ipis, bl_sent, bl_online, bl_dev, bl_flush,
                            bl_next, bl_lost, bl_moves, bl_stale>>

poll_backlog ==
    \E c \in bl_online :
       /\ bl_sd[c].listed /\ ~bl_sd[c].polling
       /\ c = Home => bl_ipis = {}
       /\ Sd(c, [bl_sd[c] EXCEPT !.polling = TRUE, !.work = 0])
       /\ UNCHANGED bl_given

dequeue_skb ==
    \E c \in BlCpu :
       /\ bl_sd[c].polling /\ bl_sd[c].skb = NoPacket /\ bl_sd[c].process # <<>>
       /\ Sd(c, [bl_sd[c] EXCEPT !.skb = Head(bl_sd[c].process), !.process = Tail(@)])
       /\ UNCHANGED bl_given

(* The packet is handled before it is counted as gone from the backlog.     *)
(* With the quota used up the backlog stays on the poll list.               *)
receive_skb ==
    \E c \in BlCpu :
       LET sd == bl_sd[c] IN
       /\ sd.skb # NoPacket
       /\ Sd(c, [sd EXCEPT !.skb = NoPacket, !.head = @ + 1, !.work = @ + 1,
                           !.polling = sd.work + 1 < Quota])
       /\ bl_given' = Append(bl_given, sd.skb)

splice_or_complete ==
    \E c \in BlCpu :
       LET sd == bl_sd[c] IN
       /\ sd.polling /\ sd.skb = NoPacket /\ sd.process = <<>>
       /\ Sd(c, IF sd.input = <<>>
                THEN [sd EXCEPT !.sched = FALSE, !.listed = FALSE, !.polling = FALSE]
                ELSE [sd EXCEPT !.process = sd.input, !.input = <<>>])
       /\ UNCHANGED bl_given

-----------------------------------------------------------------------------
(* The device goes away; the steps of the unregistration *)

Unregister(st) == /\ bl_dev' = st
                  /\ UNCHANGED <<bl_flow, bl_want, bl_ipis, bl_sent, bl_online, bl_next, bl_given,
                                 bl_moves, bl_stale>>

close_device == /\ bl_dev = "up" /\ Unregister("closed") /\ UNCHANGED <<bl_sd, bl_flush, bl_lost>>

(* flush_required, under each CPU's rps_lock. *)
flush_required(c) == bl_sd[c].input # <<>> \/ bl_sd[c].process # <<>>

flush_all_backlogs ==
    /\ bl_dev = "closed" /\ Unregister("flushing")
    /\ bl_flush' = {c \in bl_online : flush_required(c)}
    /\ UNCHANGED <<bl_sd, bl_lost>>

(* flush_backlog runs on its CPU with bottom halves off. *)
flush_backlog ==
    \E c \in bl_flush :
       LET sd == bl_sd[c] IN
       /\ ~sd.polling
       /\ bl_sd' = [bl_sd EXCEPT ![c] = [sd EXCEPT !.input = <<>>, !.process = <<>>,
                                         !.head = @ + Len(sd.input) + Len(sd.process)]]
       /\ bl_lost' = bl_lost \cup ToSet(sd.input) \cup ToSet(sd.process)
       /\ bl_flush' = bl_flush \ {c}
       /\ UNCHANGED <<bl_flow, bl_want, bl_ipis, bl_sent, bl_online, bl_dev, bl_next, bl_given,
                      bl_moves, bl_stale>>

(* readers_done: every packet that was being handled has been. *)
readers_done ==
    /\ bl_dev = "flushing" /\ bl_flush = {}
    /\ \A c \in BlCpu : bl_sd[c].skb = NoPacket
    /\ Unregister("gone") /\ UNCHANGED <<bl_sd, bl_flush, bl_lost>>

-----------------------------------------------------------------------------
(* A CPU goes down, between its softirqs, and its IPIs have been handled;   *)
(* flush_all_backlogs holds the hotplug lock.                               *)
cpu_down ==
    \E c \in bl_online \ {Home} :
       /\ bl_moves < MaxMoves /\ bl_flush = {}
       /\ ~bl_sd[c].polling /\ c \notin bl_sent
       /\ bl_online' = bl_online \ {c}
       /\ bl_moves' = bl_moves + 1
       /\ bl_stale' = TRUE
       /\ UNCHANGED <<bl_sd, bl_flow, bl_want, bl_ipis, bl_sent, bl_dev, bl_flush, bl_next,
                      bl_given, bl_lost>>

(* dev_cpu_dead, run on Home: the backlog leaves the poll list, *)
dev_cpu_dead ==
    \E c \in BlCpu \ bl_online :
       /\ bl_sd[c].listed
       /\ Sd(c, [bl_sd[c] EXCEPT !.listed = FALSE, !.sched = FALSE])
       /\ UNCHANGED bl_given

(* and its packets are received again by netif_rx_ni, one after the other,  *)
(* on Home where nothing else is said.                                      *)
dev_cpu_dead_skb ==
    \E c \in BlCpu \ bl_online :
       LET old == bl_sd[c]
           all == old.process \o old.input
           left == [old EXCEPT !.head = @ + 1,
                               !.process = IF @ = <<>> THEN @ ELSE Tail(@),
                               !.input = IF old.process = <<>> THEN Tail(@) ELSE @]
           flow == get_rps_cpu IN
       /\ all # <<>> /\ ~old.listed
       /\ IF cpu_online(flow.cpu) THEN enqueue([bl_sd EXCEPT ![c] = left], flow.cpu, Head(all), flow, TRUE)
          ELSE enqueue([bl_sd EXCEPT ![c] = left], Home, Head(all), flow, FALSE)
       /\ UNCHANGED <<bl_want, bl_sent, bl_online, bl_dev, bl_flush, bl_next, bl_given,
                      bl_moves, bl_stale>>

cpu_up ==
    \E c \in BlCpu \ bl_online :
       /\ bl_sd[c].input = <<>> /\ bl_sd[c].process = <<>> /\ ~bl_sd[c].listed
       /\ bl_online' = bl_online \cup {c}
       /\ UNCHANGED <<bl_sd, bl_flow, bl_want, bl_ipis, bl_sent, bl_dev, bl_flush, bl_next,
                      bl_given, bl_lost, bl_moves, bl_stale>>

BacklogInit ==
    /\ bl_sd = [c \in BlCpu |-> InitSd]
    /\ bl_flow = [cpu |-> NoCpu, last_qtail |-> 0]
    /\ bl_want = Home
    /\ bl_ipis = {} /\ bl_sent = {} /\ bl_online = BlCpu
    /\ bl_dev = "up" /\ bl_flush = {}
    /\ bl_next = 0 /\ bl_given = <<>> /\ bl_lost = {} /\ bl_moves = 0 /\ bl_stale = FALSE

BacklogNext ==
    \/ netif_receive_skb \/ net_rps_send_ipi \/ rps_trigger_softirq \/ rps_record_sock_flow
    \/ poll_backlog \/ dequeue_skb \/ receive_skb \/ splice_or_complete
    \/ close_device \/ flush_all_backlogs \/ flush_backlog \/ readers_done
    \/ cpu_down \/ dev_cpu_dead \/ dev_cpu_dead_skb \/ cpu_up

-----------------------------------------------------------------------------
(* Properties *)

BacklogTypeOK ==
    /\ \A c \in BlCpu :
          /\ bl_sd[c].head \in 0 .. MaxPackets + bl_sd[c].tail /\ bl_sd[c].tail \in Nat
          /\ bl_sd[c].skb \in 0 .. MaxPackets /\ bl_sd[c].work \in 0 .. Quota
    /\ bl_flow.cpu \in BlCpu \cup {NoCpu} /\ bl_want \in BlCpu
    /\ bl_ipis \subseteq BlCpu /\ bl_sent \subseteq BlCpu /\ bl_online \subseteq BlCpu
    /\ bl_dev \in {"up", "closed", "flushing", "gone"}

Held(c) == ToSet(bl_sd[c].input) \cup ToSet(bl_sd[c].process) \cup ({bl_sd[c].skb} \ {NoPacket})

(* No packet is lost without being counted as dropped, none is handled      *)
(* twice, and as long as no CPU goes down the protocols see the packets of  *)
(* a flow in the order they arrived, wherever its reader moves.  The two    *)
(* counters of a backlog differ by what it holds.  A backlog that holds     *)
(* packets will be polled: it is on a poll list, or a kick for it is        *)
(* queued or on its way; the one exception is a CPU that went down between  *)
(* the queueing of its kick and the sending.  Once a device is gone no      *)
(* backlog holds a packet of it.                                            *)
BacklogSound ==
    /\ \A i, j \in 1 .. Len(bl_given) : i < j =>
          /\ bl_given[i] # bl_given[j]
          /\ bl_stale \/ bl_given[i] < bl_given[j]
    /\ 1 .. bl_next = ToSet(bl_given) \cup bl_lost \cup UNION {Held(c) : c \in BlCpu}
    /\ ToSet(bl_given) \cap bl_lost = {}
    /\ \A c \in BlCpu :
          LET sd == bl_sd[c] IN
          /\ sd.tail - sd.head = Cardinality(Held(c))
          /\ cpu_online(c) /\ (sd.input # <<>> \/ sd.process # <<>>) =>
                sd.sched /\ (sd.listed \/ c \in bl_ipis \/ c \in bl_sent \/ bl_stale)
          /\ sd.listed => sd.sched
    /\ bl_dev = "gone" => \A c \in bl_online : Held(c) = {}
=============================================================================
