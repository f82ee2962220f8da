------------------------------- MODULE RxCore -------------------------------
(***************************************************************************)
(* The receive path above the drivers (net/core/dev.c): packets are given  *)
(* to the taps and to the protocols that registered a packet_type, after   *)
(* generic XDP, the ingress hooks, VLAN and the receive handler of the     *)
(* device have had their say.  __netif_receive_skb_core keeps the last     *)
(* matching packet_type in pt_prev and calls it when the next one is found *)
(* so that the last one gets the buffer itself and no copy.                *)
(*                                                                         *)
(* One CPU receives lists of packets from the device "lower", or shows a   *)
(* packet it sends to the taps, inside one RCU section; packet types and   *)
(* the receive handler come and go meanwhile.  A packet_type list is kept  *)
(* by its next pointers, because a reader may stand on a node that was     *)
(* removed.  Programs, classifiers, hooks and handlers are external: they  *)
(* give any of their verdicts.                                             *)
(***************************************************************************)
EXTENDS Naturals, Sequences, FiniteSets

CONSTANTS Tap, DevTap,        \* packet types for ETH_P_ALL: any device, "lower"
          Proto,              \* packet types for IP, any device
          LowProto, UpProto,  \* packet types for IP bound to "lower", "upper"
          MaxList,            \* bound: packets of a list
          MaxRounds,          \* bound: passes of a packet through another_round
          MaxChanges          \* bound: registrations and removals during a section

ASSUME RxCoreAssumption ==
    /\ Cardinality(Tap \cup DevTap \cup Proto \cup LowProto \cup UpProto) =
         Cardinality(Tap) + Cardinality(DevTap) + Cardinality(Proto) + Cardinality(LowProto) + Cardinality(UpProto)
    /\ MaxList \in Nat \ {0} /\ MaxRounds \in Nat \ {0} /\ MaxChanges \in Nat

VARIABLES rx_next,     \* the next pointers of the packet_type lists
          rx_type,     \* per packet_type: out, in, or being removed
          rx_handler,  \* rx_handler and rx_handler_data of "lower" are set
          rx_skb,      \* the packets of the list, see Kind
          rx_cpu,      \* the locals of the functions that run, see Resting
          rx_waits,    \* whose synchronize_net waits for this section
          rx_new,      \* packet types added during this section
          rx_changes,  \* number of changes during this section
          rx_fault     \* ghost: something was used after it went away
rxcore_vars == <<rx_next, rx_type, rx_handler, rx_skb, rx_cpu, rx_waits, rx_new, rx_changes, rx_fault>>
env_vars == <<rx_next, rx_type, rx_handler, rx_waits, rx_new, rx_changes>>
path_vars == <<rx_skb, rx_cpu, rx_fault>>

Ptype == Tap \cup DevTap \cup Proto \cup LowProto \cup UpProto
Nil == "nil"
Heads == {"ptype_all", "lower_all", "upper_all", "ptype_base", "lower_specific", "upper_specific"}

ptype_head(p) == CASE p \in Tap -> "ptype_all" [] p \in DevTap -> "lower_all"
                   [] p \in Proto -> "ptype_base" [] p \in LowProto -> "lower_specific"
                   [] OTHER -> "upper_specific"

(* A packet: the VLAN headers still in its data, the tag that was taken     *)
(* out, whether it is IP, and whether it came from the emergency reserves;  *)
(* got and due count, for each packet type, the calls made and the calls    *)
(* that the lists asked for; gone once its buffer was given away or freed.  *)
NoTag == 2
Kind(hdrs, tag, ip, pf) ==
    [hdrs |-> hdrs, tag |-> tag, ip |-> ip, pfmemalloc |-> pf, dev |-> "lower", gone |-> FALSE,
     got |-> [p \in Ptype |-> 0], due |-> [p \in Ptype |-> 0]]
Packets == {Kind(<<>>, NoTag, TRUE, FALSE), Kind(<<>>, NoTag, FALSE, FALSE), Kind(<<>>, NoTag, TRUE, TRUE),
            Kind(<<>>, NoTag, FALSE, TRUE), Kind(<<>>, 1, TRUE, FALSE), Kind(<<0, 1>>, NoTag, TRUE, FALSE)}

Resting == [pc |-> "idle", batch |-> FALSE, i |-> 0, prev |-> Nil, at |-> Nil, exact |-> FALSE,
            rounds |-> 0, sub |-> <<>>, curr |-> Nil, skip |-> {}]

RxCoreInit ==
    /\ rx_next = [n \in Ptype \cup Heads |-> Nil]
    /\ rx_type = [p \in Ptype |-> "out"]
    /\ rx_handler = [func |-> FALSE, data |-> FALSE]
    /\ rx_skb = <<>>
    /\ rx_cpu = Resting
    /\ rx_waits = {}
    /\ rx_new = {}
    /\ rx_changes = 0
    /\ rx_fault = FALSE

Reading == rx_cpu.pc # "idle"
Change == IF Reading THEN rx_changes < MaxChanges /\ rx_changes' = rx_changes + 1 ELSE UNCHANGED rx_changes
me == rx_cpu.i
skb == rx_skb[me]

-----------------------------------------------------------------------------
(* Registration *)

(* dev_add_pack: list_add_rcu, at the head. *)
dev_add_pack(p) ==
    /\ rx_type[p] = "out"
    /\ Change
    /\ rx_next' = [rx_next EXCEPT ![p] = rx_next[ptype_head(p)], ![ptype_head(p)] = p]
    /\ rx_type' = [rx_type EXCEPT ![p] = "in"]
    /\ rx_new' = IF Reading THEN rx_new \cup {p} ELSE rx_new
    /\ UNCHANGED <<rx_handler, rx_waits, path_vars>>

(* Faulty: synchronize_net returns during the section. *)
synchronize_net_returns == TRUE

(* synchronize_net waits for the section that runs, if any. *)
synchronize_net == ~Reading

(* dev_remove_pack: list_del_rcu leaves the next pointer of p in place; the *)
(* caller may free p when the function returns.                             *)
dev_remove_pack(p) ==
    /\ rx_type[p] = "in"
    /\ Change
    /\ LET unlinked == [n \in DOMAIN rx_next |->
             IF rx_next[n] = p /\ (n \in Heads \/ rx_type[n] = "in") THEN rx_next[p] ELSE rx_next[n]] IN
       IF synchronize_net
       THEN /\ rx_type' = [rx_type EXCEPT ![p] = "out"]
            /\ rx_next' = [unlinked EXCEPT ![p] = Nil]
            /\ UNCHANGED rx_waits
       ELSE /\ rx_type' = [rx_type EXCEPT ![p] = "removing"]
            /\ rx_next' = unlinked
            /\ rx_waits' = rx_waits \cup {p}
    /\ UNCHANGED <<rx_handler, rx_new, path_vars>>

(* netdev_rx_handler_register, under rtnl: refused while there is one.      *)
netdev_rx_handler_register ==
    /\ ~rx_handler.func /\ Nil \notin rx_waits
    /\ Change
    /\ rx_handler' = [rx_handler EXCEPT !.func = TRUE, !.data = TRUE]
    /\ UNCHANGED <<rx_next, rx_type, rx_waits, rx_new, path_vars>>

(* netdev_rx_handler_unregister: the data goes after synchronize_net. *)
netdev_rx_handler_unregister ==
    /\ rx_handler.func
    /\ Change
    /\ rx_handler' = [rx_handler EXCEPT !.func = FALSE, !.data = ~synchronize_net]
    /\ rx_waits' = IF synchronize_net THEN rx_waits ELSE rx_waits \cup {Nil}
    /\ UNCHANGED <<rx_next, rx_type, rx_new, path_vars>>

-----------------------------------------------------------------------------
(* Deliveries *)

(* The call of p's function with packet k of the packets skbs. *)
Call(skbs, k, p) == [skbs EXCEPT ![k].got[p] = @ + 1]
Dead(p) == rx_type[p] = "out"

(* deliver_skb with pt_prev, if there is one. *)
deliver_prev(skbs) == IF rx_cpu.prev = Nil THEN skbs ELSE Call(skbs, me, rx_cpu.prev)

Marks(p) ==
    /\ rx_fault' = (rx_fault \/ (p # Nil /\ Dead(p)))
DeliverPrev == Marks(rx_cpu.prev)

Goto(label) == rx_cpu' = [rx_cpu EXCEPT !.pc = label]
Clear(label) == rx_cpu' = [rx_cpu EXCEPT !.pc = label, !.prev = Nil]
Step(label) == /\ rx_cpu.pc = label
               /\ UNCHANGED env_vars
NoDelivery == UNCHANGED rx_fault

(* The buffer was freed or given away: what it held no longer matters. *)
Gone(skbs) == [skbs EXCEPT ![me] = [Kind(<<>>, NoTag, TRUE, @.pfmemalloc) EXCEPT
                                      !.gone = TRUE, !.got = skbs[me].got, !.due = skbs[me].due]]


(* A list is entered: the packet types on it that match are owed a call.    *)
Listed(head) == {p \in Ptype : rx_type[p] = "in" /\ ptype_head(p) = head}
Matches(p) == (p \in Tap \cup DevTap \/ (skb.ip /\ skb.hdrs = <<>>)) /\ p \notin rx_cpu.skip
Owe(skbs, head) == [skbs EXCEPT ![me].due =
                [p \in Ptype |-> IF p \in Listed(head) /\ Matches(p) THEN @[p] + 1 ELSE @[p]]]
Enter(skbs, label, head) ==
    /\ rx_cpu' = [rx_cpu EXCEPT !.pc = label, !.at = head]
    /\ rx_skb' = Owe(skbs, head)
    /\ NoDelivery

(* The loops over the lists (deliver_ptype_list_skb and the loops over the  *)
(* taps): the packet type found before is called when the next is found.    *)
AtEnd == rx_next[rx_cpu.at] = Nil
deliver_ptype_list(label) ==
    LET n == rx_next[rx_cpu.at] IN
    /\ Step(label) /\ ~AtEnd
    /\ IF Matches(n)
       THEN /\ rx_cpu' = [rx_cpu EXCEPT !.at = n, !.prev = n]
            /\ rx_skb' = deliver_prev(rx_skb)
            /\ DeliverPrev
       ELSE /\ rx_cpu' = [rx_cpu EXCEPT !.at = n]
            /\ UNCHANGED rx_skb /\ NoDelivery

-----------------------------------------------------------------------------
(* __netif_receive_skb_core *)

another_round(skbs, label) ==
    /\ rx_cpu.rounds < MaxRounds
    /\ rx_cpu' = [rx_cpu EXCEPT !.pc = "round", !.rounds = @ + 1, !.prev = IF label = "keep" THEN @ ELSE Nil]
    /\ rx_skb' = [skbs EXCEPT ![me].dev = "upper"]

(* do_xdp_generic: with no program, or if it says XDP_PASS, the packet goes *)
(* on, perhaps as another protocol; otherwise it was freed, sent back by    *)
(* generic_xdp_tx or redirected.                                            *)
generic_xdp_pass(p) == {p} \cup (IF p.dev = "lower" THEN {[p EXCEPT !.ip = ~@]} ELSE {})

generic_xdp_consume ==
    /\ Step("round")
    /\ rx_skb' = Gone(rx_skb) /\ Clear("next") /\ NoDelivery

(* skb_vlan_untag: the outer header becomes the tag, unless there is one.   *)
skb_vlan_untag(p) ==
    IF p.hdrs # <<>> /\ p.tag = NoTag THEN [p EXCEPT !.tag = Head(p.hdrs), !.hdrs = Tail(@)] ELSE p

(* The start of a round: skb_skip_tc_classify goes to skip_classify,        *)
(* pfmemalloc to skip_taps.                                                 *)
start_round ==
    /\ Step("round")
    /\ \E x \in generic_xdp_pass(skb) :
         LET p == skb_vlan_untag(x)
             skbs == [rx_skb EXCEPT ![me] = p] IN
         \/ p # x /\ rx_skb' = Gone(rx_skb) /\ Clear("next") /\ NoDelivery
         \/ rx_skb' = skbs /\ Goto("vlan") /\ rx_cpu.rounds = 1 /\ NoDelivery
         \/ skb.pfmemalloc /\ rx_skb' = skbs /\ Goto("ingress") /\ NoDelivery
         \/ ~skb.pfmemalloc /\ Enter(skbs, "ptype_all", "ptype_all")

enter_dev_taps == Step("ptype_all") /\ AtEnd
                  /\ Enter(rx_skb, "dev_all", IF skb.dev = "lower" THEN "lower_all" ELSE "upper_all")
leave_taps == Step("dev_all") /\ AtEnd /\ Goto("ingress") /\ UNCHANGED rx_skb /\ NoDelivery

(* sch_handle_ingress: without an ingress qdisc, nothing; with one, pt_prev *)
(* is served first, and the verdict lets the packet pass, takes it, or      *)
(* makes it a packet of another device.                                     *)
sch_handle_ingress_none ==
    /\ Step("ingress") /\ Goto("hook") /\ UNCHANGED rx_skb /\ NoDelivery

sch_handle_ingress ==
    /\ Step("ingress")
    /\ DeliverPrev
    /\ LET served == deliver_prev(rx_skb) IN
       \/ rx_skb' = served /\ Clear("hook")
       \/ rx_skb' = Gone(served) /\ Clear("next")
       \/ skb.dev = "lower" /\ another_round(served, "served")

(* nf_ingress: nothing without hooks; else pt_prev is served first.         *)
nf_ingress ==
    /\ Step("hook")
    /\ \/ Goto("vlan") /\ UNCHANGED rx_skb /\ NoDelivery
       \/ rx_skb' = deliver_prev(rx_skb) /\ Clear("vlan") /\ DeliverPrev
       \/ rx_skb' = Gone(deliver_prev(rx_skb)) /\ Clear("next") /\ DeliverPrev

skb_pfmemalloc_protocol(p) == p.ip \/ p.hdrs # <<>>

pfmemalloc_drop ==
    /\ Step("vlan") /\ skb.pfmemalloc /\ ~skb_pfmemalloc_protocol(skb)
    /\ rx_skb' = Gone(rx_skb) /\ Clear("next") /\ NoDelivery

(* vlan_do_receive may find a VLAN device, find none, or lose the packet.   *)
vlan_do_receive(skbs) ==
    \/ skb.dev = "lower" /\ another_round([skbs EXCEPT ![me].tag = NoTag], "served")
    \/ rx_skb' = skbs /\ Clear("handler")
    \/ rx_skb' = Gone(skbs) /\ Clear("next")

receive_vlan ==
    /\ Step("vlan") /\ ~(skb.pfmemalloc /\ ~skb_pfmemalloc_protocol(skb))
    /\ IF skb.tag # NoTag
       THEN vlan_do_receive(deliver_prev(rx_skb)) /\ DeliverPrev
       ELSE Goto("handler") /\ UNCHANGED rx_skb /\ NoDelivery

(* Faulty: the handler gets the packet before pt_prev is served. *)
rx_handler_prev_forgotten(skbs) == skbs

(* pt_prev is served before the receive handler gets the packet. *)
rx_handler_prev(skbs) == deliver_prev(skbs)

(* The receive handler consumes the packet, passes it on, restricts it to   *)
(* exact matches, or makes it a packet of another device.                   *)
call_rx_handler ==
    /\ Step("handler") /\ rx_handler.func /\ skb.dev = "lower"
    /\ LET served == rx_handler_prev(rx_skb) IN
       \/ rx_skb' = Gone(served) /\ Clear("next")
       \/ another_round(served, "served")
       \/ /\ rx_skb' = served
          /\ \E exact \in BOOLEAN : rx_cpu' = [rx_cpu EXCEPT !.pc = "check", !.prev = Nil, !.exact = @ \/ exact]
    /\ rx_fault' = (rx_fault \/ ~rx_handler.data \/ (rx_cpu.prev # Nil /\ Dead(rx_cpu.prev)))

no_rx_handler ==
    /\ Step("handler") /\ ~(rx_handler.func /\ skb.dev = "lower")
    /\ Goto("check") /\ UNCHANGED rx_skb /\ NoDelivery

(* check_vlan_id: a tag that is left is cleared; under a priority tag       *)
(* (id 0) the inner header gets its chance first.                           *)
check_vlan_id ==
    /\ Step("check") /\ NoDelivery
    /\ IF skb.tag = 0 /\ skb.hdrs # <<>>
       THEN LET inner == [rx_skb EXCEPT ![me] = skb_vlan_untag([skb EXCEPT !.tag = NoTag])] IN
            \/ rx_skb' = Gone(rx_skb) /\ Clear("next")
            \/ skb.dev = "lower" /\ another_round([inner EXCEPT ![me].tag = NoTag], "keep")
            \/ rx_skb' = inner /\ Goto("check")
       ELSE rx_skb' = [rx_skb EXCEPT ![me].tag = NoTag] /\ Goto("types")

enter_types ==
    /\ Step("types")
    /\ IF rx_cpu.exact THEN Enter(rx_skb, "orig", "lower_specific") ELSE Enter(rx_skb, "ptype_base", "ptype_base")
enter_orig_specific == Step("ptype_base") /\ AtEnd /\ Enter(rx_skb, "orig", "lower_specific")
enter_dev_specific == Step("orig") /\ AtEnd
                      /\ IF skb.dev = "upper" THEN Enter(rx_skb, "specific", "upper_specific")
                         ELSE Goto("finish") /\ UNCHANGED rx_skb /\ NoDelivery
leave_types == Step("specific") /\ AtEnd /\ Goto("finish") /\ UNCHANGED rx_skb /\ NoDelivery

(* No packet type is left in pt_prev, or skb_orphan_frags_rx fails and the  *)
(* last one gets nothing: the packet is dropped.                            *)
receive_drop ==
    /\ Step("finish") /\ NoDelivery
    /\ rx_skb' = Gone(IF rx_cpu.prev = Nil THEN rx_skb
                      ELSE [rx_skb EXCEPT ![me].due[rx_cpu.prev] = @ - 1])
    /\ Clear("next")

(* __netif_receive_skb_one_core: the last packet type gets the packet.      *)
receive_one_core ==
    /\ Step("finish") /\ rx_cpu.prev # Nil /\ ~rx_cpu.batch
    /\ rx_skb' = Gone(deliver_prev(rx_skb)) /\ DeliverPrev
    /\ Clear("next")

-----------------------------------------------------------------------------
(* Lists of packets *)

(* __netif_receive_skb_list_ptype: the packets sub go to pt.                *)
list_ptype(skbs, sub, pt) ==
    [k \in DOMAIN skbs |->
        IF \E j \in DOMAIN sub : sub[j] = k
        THEN [skbs[k] EXCEPT !.got[pt] = @ + 1, !.gone = TRUE] ELSE skbs[k]]
ListMarks(sub, pt) ==
    /\ rx_fault' = (rx_fault \/ (sub # <<>> /\ Dead(pt)))

(* __netif_receive_skb_list_core: packets with the same last packet type    *)
(* are gathered; a different one dispatches what was gathered.              *)
receive_list_core ==
    /\ Step("finish") /\ rx_cpu.prev # Nil /\ rx_cpu.batch
    /\ IF rx_cpu.curr = rx_cpu.prev
       THEN /\ rx_cpu' = [rx_cpu EXCEPT !.pc = "next", !.prev = Nil, !.sub = Append(@, me)]
            /\ UNCHANGED rx_skb /\ NoDelivery
       ELSE /\ rx_cpu' = [rx_cpu EXCEPT !.pc = "next", !.prev = Nil, !.sub = <<me>>, !.curr = rx_cpu.prev]
            /\ rx_skb' = list_ptype(rx_skb, rx_cpu.sub, rx_cpu.curr)
            /\ ListMarks(rx_cpu.sub, rx_cpu.curr)

Start(i) == [Resting EXCEPT !.pc = "round", !.rounds = 1, !.i = i, !.batch = rx_cpu.batch]
More == me < Len(rx_skb)

(* The next packet of the same list ... *)
receive_next ==
    /\ Step("next") /\ More /\ rx_skb[me + 1].pfmemalloc = skb.pfmemalloc
    /\ rx_cpu' = [Start(me + 1) EXCEPT !.sub = rx_cpu.sub, !.curr = rx_cpu.curr]
    /\ UNCHANGED rx_skb /\ NoDelivery

(* ... or the end of a list: what was gathered is dispatched, and           *)
(* __netif_receive_skb_list goes on with the packets of the other kind.     *)
receive_list_end ==
    /\ Step("next") /\ (More => rx_skb[me + 1].pfmemalloc # skb.pfmemalloc)
    /\ rx_cpu' = IF More THEN Start(me + 1) ELSE [rx_cpu EXCEPT !.pc = "end", !.sub = <<>>]
    /\ rx_skb' = list_ptype(rx_skb, rx_cpu.sub, rx_cpu.curr)
    /\ ListMarks(rx_cpu.sub, rx_cpu.curr)

(* netif_receive_skb and netif_receive_skb_list; packets whose time stamp   *)
(* is deferred, or that are steered to another CPU, are not on the list.    *)
receive_skb_list(batch, skbs) ==
    /\ Step("idle")
    /\ rx_cpu' = [Resting EXCEPT !.pc = "round", !.rounds = 1, !.i = 1, !.batch = batch]
    /\ rx_skb' = skbs
    /\ NoDelivery

netif_receive_skb_one == \E k \in Packets : receive_skb_list(FALSE, <<k>>)

\* Bound: in a longer list, all packets but the first are untagged IP.
netif_receive_skb_list ==
    \E n \in 1 .. MaxList, first \in Packets :
       \E more \in [2 .. n -> {p \in Packets : p.hdrs = <<>> /\ p.tag = NoTag /\ p.ip}] :
          receive_skb_list(TRUE, [i \in 1 .. n |-> IF i = 1 THEN first ELSE more[i]])

(* The section ends, and with it the synchronize_net that wait for it. *)
rcu_read_unlock ==
    /\ rx_cpu.pc = "end"
    /\ rx_cpu' = Resting /\ rx_skb' = <<>>
    /\ rx_type' = [p \in Ptype |-> IF p \in rx_waits THEN "out" ELSE rx_type[p]]
    /\ rx_next' = [n \in DOMAIN rx_next |-> IF n \in rx_waits THEN Nil ELSE rx_next[n]]
    /\ rx_handler' = IF Nil \in rx_waits THEN [rx_handler EXCEPT !.data = FALSE] ELSE rx_handler
    /\ rx_waits' = {} /\ rx_new' = {} /\ rx_changes' = 0
    /\ UNCHANGED rx_fault

-----------------------------------------------------------------------------
(* dev_queue_xmit_nit: the taps see a clone of an outgoing packet, except   *)
(* those that ignore outgoing packets and the one it came from (skip).      *)
dev_queue_xmit_nit(skip) ==
    /\ Step("idle")
    /\ rx_cpu' = [Resting EXCEPT !.pc = "nit", !.rounds = 1, !.i = 1, !.skip = skip]
    /\ rx_skb' = <<Kind(<<>>, NoTag, TRUE, FALSE)>>
    /\ NoDelivery

nit_enter_all == Step("nit") /\ Enter(rx_skb, "nit_all", "ptype_all")
nit_enter_dev == Step("nit_all") /\ AtEnd /\ Enter(rx_skb, "nit_dev", "lower_all")

(* The clone is made for the first tap; without memory no tap gets it.      *)
nit_clone_fails ==
    /\ rx_cpu.pc \in {"nit_all", "nit_dev"} /\ UNCHANGED env_vars
    /\ ~AtEnd /\ rx_cpu.prev = Nil /\ Matches(rx_next[rx_cpu.at])
    /\ rx_skb' = Gone([rx_skb EXCEPT ![me].due = skb.got])
    /\ Goto("end") /\ NoDelivery

nit_end ==
    /\ Step("nit_dev") /\ AtEnd
    /\ \/ rx_skb' = Gone(deliver_prev(rx_skb)) /\ DeliverPrev
       \/ /\ rx_cpu.prev # Nil          \* skb_orphan_frags_rx fails
          /\ rx_skb' = Gone([rx_skb EXCEPT ![me].due[rx_cpu.prev] = @ - 1]) /\ NoDelivery
    /\ Clear("end")

RxCoreNext ==
    \/ \E p \in Ptype : dev_add_pack(p) \/ dev_remove_pack(p)
    \/ netdev_rx_handler_register \/ netdev_rx_handler_unregister
    \/ netif_receive_skb_one \/ netif_receive_skb_list
    \/ start_round \/ generic_xdp_consume
    \/ enter_dev_taps \/ leave_taps
    \/ sch_handle_ingress_none \/ sch_handle_ingress \/ nf_ingress
    \/ pfmemalloc_drop \/ receive_vlan \/ call_rx_handler \/ no_rx_handler \/ check_vlan_id
    \/ enter_types \/ enter_orig_specific \/ enter_dev_specific \/ leave_types
    \/ \E l \in {"ptype_all", "dev_all", "ptype_base", "orig", "specific", "nit_all", "nit_dev"} :
          deliver_ptype_list(l)
    \/ receive_drop \/ receive_one_core \/ receive_list_core
    \/ receive_next \/ receive_list_end \/ rcu_read_unlock
    \/ \E skip \in SUBSET (Tap \cup DevTap) : dev_queue_xmit_nit(skip)
    \/ nit_enter_all \/ nit_enter_dev \/ nit_clone_fails \/ nit_end

-----------------------------------------------------------------------------

RxCoreTypeOK ==
    /\ rx_next \in [Ptype \cup Heads -> Ptype \cup {Nil}]
    /\ rx_type \in [Ptype -> {"out", "in", "removing"}]
    /\ rx_cpu.prev \in Ptype \cup {Nil} /\ rx_cpu.curr \in Ptype \cup {Nil}
    /\ rx_cpu.at \in Ptype \cup Heads \cup {Nil}
    /\ \A j \in DOMAIN rx_cpu.sub : rx_cpu.sub[j] \in 1 .. me
    /\ me \in 0 .. Len(rx_skb) /\ Len(rx_skb) <= MaxList
    /\ rx_waits \subseteq Ptype \cup {Nil} /\ rx_new \subseteq Ptype

InCore == rx_cpu.pc \notin {"idle", "next", "end"}

(* Packet types and handlers are called only while they are registered, a   *)
(* buffer is given away once, and when the section ends every packet was    *)
(* given away or freed and every packet type that was registered throughout *)
(* was called once for each time the packet passed its list.                *)
RxCoreSound ==
    /\ ~rx_fault
    /\ InCore => ~skb.gone
    /\ \A j \in DOMAIN rx_cpu.sub : ~rx_skb[rx_cpu.sub[j]].gone
    /\ rx_cpu.pc = "end" =>
         \A k \in DOMAIN rx_skb :
            /\ rx_skb[k].gone
            /\ \A p \in Ptype \ (rx_waits \cup rx_new) : rx_skb[k].got[p] = rx_skb[k].due[p]

=============================================================================
