---------------------------- MODULE MCKernel ----------------------------
(***************************************************************************)
(* Components that are checked one at a time, as one specification: the    *)
(* module of the RT handler, and the parts of the kernel around it that    *)
(* place tasks and bring packets in and out. Each initial state picks the  *)
(* component that runs, and the others keep their initial states. The      *)
(* components share no variable, so the behaviours are those of the        *)
(* components taken separately.                                            *)
(***************************************************************************)
EXTENDS RtHandler, Uclamp, Affinity, TxRing, Backlog, RxCore, Xps, XdpAttach

VARIABLE part

Part == {"rt", "uclamp", "affinity", "txring", "backlog", "rxcore", "xps", "xdp"}

kernel_vars == <<part, vars, uclamp_vars, affinity_vars, txring_vars, backlog_vars, rxcore_vars,
      xps_vars, xdp_vars>>

KernelInit ==
    /\ part \in Part
    /\ Init /\ UclampInit /\ AffinityInit /\ TxRingInit /\ BacklogInit /\ RxCoreInit /\ XpsInit
    /\ XdpInit

\* The components that do not run keep their states,
Rest(p, state) == IF part = p THEN TRUE ELSE UNCHANGED state

\* and the one that runs takes a step.
Turn(p, step) == IF part = p THEN step ELSE TRUE

KernelNext ==
    /\ UNCHANGED part
    /\ Rest("rt", vars) /\ Rest("uclamp", uclamp_vars) /\ Rest("affinity", affinity_vars)
    /\ Rest("txring", txring_vars) /\ Rest("backlog", backlog_vars)
    /\ Rest("rxcore", rxcore_vars) /\ Rest("xps", xps_vars) /\ Rest("xdp", xdp_vars)
    /\ Turn("rt", Next) /\ Turn("uclamp", UclampNext) /\ Turn("affinity", AffinityNext)
    /\ Turn("txring", TxRingNext) /\ Turn("backlog", BacklogNext) /\ Turn("rxcore", RxCoreNext)
    /\ Turn("xps", XpsNext) /\ Turn("xdp", XdpNext)

\* What tells two states apart: the component that runs, and its state.
KernelView ==
    <<part, CASE part = "rt" -> vars [] part = "uclamp" -> uclamp_vars
              [] part = "affinity" -> affinity_vars [] part = "txring" -> txring_vars
              [] part = "backlog" -> backlog_vars [] part = "rxcore" -> rxcore_vars
              [] part = "xps" -> xps_vars [] part = "xdp" -> xdp_vars>>

KernelSpec == KernelInit /\ [][KernelNext]_kernel_vars

\* I, wherever the component p runs; elsewhere p is in its initial state.
While(p, I) == part = p => I

(* The variables of the component that runs keep their types. *)
KernelTypeOK ==
    /\ While("rt", TypeOK)
    /\ While("uclamp", UclampTypeOK)
    /\ While("affinity", AffinityTypeOK)
    /\ While("txring", TxRingTypeOK)
    /\ While("backlog", BacklogTypeOK)
    /\ While("rxcore", RxCoreTypeOK)
    /\ While("xps", XpsTypeOK)
    /\ While("xdp", XdpTypeOK)

(* uclamp_rq_inc_id and uclamp_rq_dec_id: the clamp buckets of a run queue *)
(* count the tasks that are on it, whatever changes their clamps, classes  *)
(* and groups meanwhile.                                                   *)
Clamps == While("uclamp", UclampSound)

(* set_cpus_allowed_ptr against migrate_disable, the stopper threads and   *)
(* CPU hotplug: no request on a stack is used after its call returned, and *)
(* each one that is waited for will be completed.                          *)
Moves == While("affinity", AffinitySound)

(* rtl8169_start_xmit against rtl_tx: the descriptors in use lie between   *)
(* dirty_tx and cur_tx, start_xmit is not called on a full ring, and while *)
(* the queue is stopped somebody is still to look at the room and wake it. *)
(* __netif_receive_skb_core: a packet type that stays registered gets each *)
(* packet that passes its list once, none is called after its removal      *)
(* returned, and every buffer is given away or freed once.                 *)
Transfers == While("txring", TxRingSound) /\ While("rxcore", RxCoreSound)

(* Receive packet steering, process_backlog and flushes: a flow stays in   *)
(* order when its reader moves to another CPU, each packet is handled or   *)
(* counted as dropped, and none outlives its device.                       *)
Steering == While("backlog", BacklogSound)

(* __netif_set_xps_queue, netdev_set_num_tc and the number of queues: no   *)
(* map leads to a queue that is not in use, no packet sits on one, and     *)
(* maps of another number of classes are not walked past their end.        *)
Queues == While("xps", XpsSound)

(* dev_xdp_attach and BPF links: a program has as many references as       *)
(* holders, and what is installed is what the device believes.             *)
Programs == While("xdp", XdpSound)
=============================================================================
