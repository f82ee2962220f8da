---------------------------- MODULE MCComponents ----------------------------
(***************************************************************************)
(* Components that are checked one at a time, as one specification: the    *)
(* priority identifier, the registry of network devices, scheduling        *)
(* policies, Fast-DDS and the nodes. Each initial state picks the          *)
(* component that runs, and the others keep their initial states. The      *)
(* components share no variable, so the behaviours are those of the        *)
(* components taken separately.                                            *)
(***************************************************************************)
EXTENDS PriorityIdentifier, Adjacent, TimedEvents, DataSharing, Reception, Pendulum, NodeChains,
        NetdevRegistry, NapiHash, SchedPolicy

VARIABLE part

Part == {"tables", "adjacent", "timed", "datasharing", "reception", "pendulum", "chains",
         "registry", "napihash", "policy"}

components_vars == <<part, vars, adjacent_vars, timed_vars, datasharing_vars, reception_vars,
      pendulum_vars, chains_vars, registry_vars, napihash_vars, schedpolicy_vars>>

ComponentsInit ==
    /\ part \in Part
    /\ Init /\ AdjacentInit /\ TimedInit /\ DataSharingInit /\ ReceptionInit /\ PendulumInit
    /\ NodeChainsInit /\ NetdevRegistryInit /\ NapiHashInit /\ SchedPolicyInit
    /\ part # "policy" => \A t \in SpTask : sp_task[t].policy = "SCHED_NORMAL"

\* The components that do not run keep their states,
Rest(p, state) == IF part = p THEN TRUE ELSE UNCHANGED state

\* and the one that runs takes a step.
Turn(p, step) == IF part = p THEN step ELSE TRUE

ComponentsNext ==
    /\ UNCHANGED part
    /\ Rest("tables", vars) /\ Rest("adjacent", adjacent_vars) /\ Rest("timed", timed_vars)
    /\ Rest("datasharing", datasharing_vars) /\ Rest("reception", reception_vars)
    /\ Rest("pendulum", pendulum_vars) /\ Rest("chains", chains_vars)
    /\ Rest("registry", registry_vars) /\ Rest("napihash", napihash_vars)
    /\ Rest("policy", schedpolicy_vars)
    /\ Turn("tables", Next) /\ Turn("adjacent", AdjacentNext) /\ Turn("timed", TimedNext)
    /\ Turn("datasharing", DataSharingNext) /\ Turn("reception", ReceptionNext)
    /\ Turn("pendulum", PendulumNext) /\ Turn("chains", NodeChainsNext)
    /\ Turn("registry", NetdevRegistryNext) /\ Turn("napihash", NapiHashNext)
    /\ Turn("policy", SchedPolicyNext)

\* What tells two states apart: the component that runs, and its state.
ComponentsView ==
    <<part, CASE part = "tables" -> vars [] part = "adjacent" -> adjacent_vars
              [] part = "timed" -> timed_vars [] part = "datasharing" -> datasharing_vars
              [] part = "reception" -> reception_vars [] part = "pendulum" -> pendulum_vars
              [] part = "chains" -> chains_vars [] part = "registry" -> registry_vars
              [] part = "napihash" -> napihash_vars [] part = "policy" -> schedpolicy_vars>>

ComponentsSpec == ComponentsInit /\ [][ComponentsNext]_components_vars

\* I, wherever the component p runs; elsewhere p is in its initial state.
While(p, I) == part = p => I

(* The variables of the component that runs keep their types. *)
ComponentsTypeOK ==
    /\ While("tables", TypeOK)
    /\ While("adjacent", AdjacentTypeOK)
    /\ While("timed", TimedTypeOK)
    /\ While("datasharing", DataSharingTypeOK)
    /\ While("reception", ReceptionTypeOK)
    /\ While("pendulum", PendulumTypeOK)
    /\ While("chains", NodeChainsTypeOK)
    /\ While("registry", NetdevRegistryTypeOK)
    /\ While("napihash", NapiHashTypeOK)
    /\ While("policy", SchedPolicyTypeOK)

(* Between the system calls of the priority identifier its tables answer   *)
(* like a map and every priority in use is marked (connect_pp_syscall and  *)
(* the others); an id of napi_hash_add names one NAPI, and what a reader   *)
(* found with it under the RCU lock stays allocated until the unlock.      *)
Identifier ==
    /\ While("tables", TableIsMap /\ RegisteredMarked)
    /\ While("napihash", NapiHashSound)

(* A step of a call to the priority identifier changes what a lookup finds *)
(* for the key of that call only (hash_add and hash_del on shared chains). *)
EntriesKept == [][While("tables", OthersKept)]_components_vars

(* netdev_upper_dev_link, its kin and their error paths: the two ends of   *)
(* each link of devices agree, a device is held once per entry that names  *)
(* it, no chain is longer than MAX_NEST_DEV, and the levels the check of   *)
(* that bound relies on are those of the graph.                            *)
Adjacency == While("adjacent", AdjacencySound)

(* ResourceEvent of Fast-DDS: no event is in a list twice, none that was   *)
(* destroyed is in a list, one that was armed stays in a list until it is  *)
(* cancelled, and a thread that destroys an event gets through whenever    *)
(* the service thread waits.                                               *)
Timers == While("timed", TimedEventsSound)

(* DataSharingListener of Fast-DDS: a listener that sleeps has taken every *)
(* payload announced to it, its iterator is not used after the list of     *)
(* pools changed, and each payload passed over was read or reported lost.  *)
SharedData == While("datasharing", DataSharingSound)

(* The reception threads and the shared-memory watchdog of Fast-DDS: a     *)
(* message goes to a receiver that is attached, no thread stays in the     *)
(* receive of a released channel, and no task runs after remove_task has   *)
(* returned.                                                               *)
Receivers == While("reception", ReceptionSound)

(* The messages of the pendulum demo hold angles within the limits         *)
(* although two threads write the position; in the node chains of the      *)
(* evaluation a node starts a message after the node before it ended it,   *)
(* and in the order of the numbers.                                        *)
Nodes == While("pendulum", PendulumSafe) /\ While("chains", ChainOrdered)

(* register_netdevice, unregister_netdevice, moves between namespaces and  *)
(* the notifier chains: each notifier knows the devices there are, names   *)
(* and indexes are unique, and a device is freed only when nothing refers  *)
(* to it.                                                                  *)
Registry == While("registry", RegistrySound)

(* __sched_setscheduler, set_user_nice and rt_mutex_setprio: policy and    *)
(* priority agree although the policy may change between the checks of a   *)
(* call and its effect, a boost lasts as long as its donors wait, and the  *)
(* task that runs has the highest priority or is about to be preempted.    *)
Priority == While("policy", SchedPolicySound)
=============================================================================
