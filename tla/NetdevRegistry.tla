--------------------------- MODULE NetdevRegistry ---------------------------
(***************************************************************************)
(* The network device registry of net/core/dev.c: registration and           *)
(* unregistration with the notifier chains, names and alternative names,     *)
(* moves between network namespaces, open and close, references, and the     *)
(* todo list on which an unregistered device waits for its last reference.   *)
(*                                                                          *)
(* Everything under rtnl_lock excludes everything else under rtnl_lock and   *)
(* is one step; lookups take references without it, and netdev_run_todo      *)
(* waits after it has been released.  A notifier may refuse an event, which  *)
(* ends the chain.  What a notifier has been told is kept as its view.       *)
(***************************************************************************)
EXTENDS Integers, FiniteSets, Sequences, SequencesExt

CONSTANTS RDev, Netns, Name, \* devices, namespaces, interface names
          RMovable,          \* bound: the devices that are moved or have other names
          Notifier,          \* notifier blocks
          IfIndex,           \* interface indexes, 1..n
          MaxAltNames,       \* bound of the other names
          MaxHeld            \* bound of the references of lookups

ASSUME NetdevRegistryAssumption ==
    /\ IsFiniteSet(Notifier) /\ Netns # {} /\ Name # {}
    /\ {"off", "all"} \cap Netns = {} /\ "nodev" \notin RDev

VARIABLES reg_state,   \* NETREG_* of a device, "none" before alloc_netdev
          net,         \* dev_net of each device
          listed,      \* devices in the lists of their namespace
          dname,       \* dev->name, the key of the primary name node
          ifindex,
          altnames,    \* <<namespace, name, device>>: the other name nodes
          iff_up,      \* devices with IFF_UP
          held,        \* devices a lookup holds a reference to
          refcnt,      \* netdev_refcnt_read
          todo,        \* net_todo_list and the lists taken from it
          scope,       \* chain a notifier is on: "off", "all" or a namespace
          follows,     \* device whose namespace a notifier follows
          view, up_view,  \* devices a notifier knows, and knows to be up
          misnamed,    \* a refused move has overwritten a name
          refused      \* a notifier has refused an event of a move

registry_vars == <<reg_state, net, listed, dname, ifindex, altnames, iff_up, held, refcnt,
                   todo, scope, follows, view, up_view, misnamed, refused>>

table_vars == <<listed, dname, ifindex, altnames>>
notifier_vars == <<scope, follows, view, up_view>>
ghost_vars == <<misnamed, refused>>

NoDev == "nodev"
init_net == CHOOSE n \in Netns : TRUE
no_name == CHOOSE x \in Name : TRUE

NetdevRegistryInit ==
    /\ reg_state = [d \in RDev |-> "none"]
    /\ net = [d \in RDev |-> init_net]
    /\ listed = {} /\ altnames = {} /\ iff_up = {} /\ held = {}
    /\ dname = [d \in RDev |-> no_name]
    /\ ifindex = [d \in RDev |-> 0] /\ refcnt = [d \in RDev |-> 0]
    /\ todo = {}
    /\ scope = [b \in Notifier |-> "off"] /\ follows = [b \in Notifier |-> NoDev]
    /\ view = [b \in Notifier |-> {}] /\ up_view = [b \in Notifier |-> {}]
    /\ misnamed = FALSE /\ refused = FALSE

-----------------------------------------------------------------------------
(* Lookups and notifier chains *)

In(n) == {d \in listed : net[d] = n}
name_lookup(n, x) == {d \in In(n) : dname[d] = x}
                        \cup {e[3] : e \in {a \in altnames : a[1] = n /\ a[2] = x}}
index_lookup(n, i) == {d \in In(n) : ifindex[d] = i}

\* __dev_alloc_name and dev_get_valid_name: the names a device may take.
ValidNames(n) == {x \in Name : name_lookup(n, x) = {}}
FreeIndexes(n) == {i \in IfIndex : index_lookup(n, i) = {}}

\* call_netdevice_notifiers_info: the chain of the namespace, then the global
\* one, for notifiers in the scopes sc.  Within a chain they come in the order
\* of their priorities, of which nothing is assumed.
ChainOf(sc, n) == SetToSeq({b \in Notifier : sc[b] = n}) \o SetToSeq({b \in Notifier : sc[b] = "all"})
Chain(n) == ChainOf(scope, n)
InScope(b, n) == scope[b] \in {n, "all"}

\* The notifiers an event reaches when the k-th of the chain is the last to
\* accept it.
Reached(n, k) == ToSet(SubSeq(Chain(n), 1, k))

Learn(v, bs, d) == [b \in Notifier |-> IF b \in bs THEN v[b] \cup {d} ELSE v[b]]
Forget(v, bs, d) == [b \in Notifier |-> IF b \in bs THEN v[b] \ {d} ELSE v[b]]
All(n) == ToSet(Chain(n))

-----------------------------------------------------------------------------
(* Registration *)

alloc_netdev_mqs(d) ==
    /\ reg_state[d] = "none"
    /\ reg_state' = [reg_state EXCEPT ![d] = "UNINITIALIZED"]
    /\ refcnt' = [refcnt EXCEPT ![d] = 1]
    /\ UNCHANGED <<net, table_vars, iff_up, held, todo, notifier_vars, ghost_vars>>

\* All notifiers accept; the failures before the device is listed (name,
\* ndo_init, index, kobject) leave it as it was.
register_netdevice(d) ==
    /\ reg_state[d] = "UNINITIALIZED"
    /\ \E x \in ValidNames(net[d]), i \in FreeIndexes(net[d]) :
         /\ dname' = [dname EXCEPT ![d] = x]
         /\ ifindex' = [ifindex EXCEPT ![d] = i]
    /\ reg_state' = [reg_state EXCEPT ![d] = "REGISTERED"]
    /\ listed' = listed \cup {d}
    /\ refcnt' = [refcnt EXCEPT ![d] = @ + 1]
    /\ view' = Learn(view, All(net[d]), d)
    /\ UNCHANGED <<net, altnames, iff_up, held, todo, scope, follows, up_view, ghost_vars>>

\* A notifier refuses NETDEV_REGISTER: the device is unregistered again, and
\* every notifier is told, also those that never heard of it.
register_refused(d) ==
    /\ reg_state[d] = "UNINITIALIZED"
    /\ Chain(net[d]) # << >> /\ ValidNames(net[d]) # {} /\ FreeIndexes(net[d]) # {}
    /\ reg_state' = [reg_state EXCEPT ![d] = "UNREGISTERING"]
    /\ todo' = todo \cup {d}
    /\ \E k \in 0..(Len(Chain(net[d])) - 1) :
         view' = Forget(Learn(view, Reached(net[d], k), d), All(net[d]), d)
    /\ UNCHANGED <<net, table_vars, iff_up, held, refcnt, scope, follows, up_view, ghost_vars>>

\* unregister_netdevice_many for one device: close it, take it off the lists,
\* tell the notifiers, flush its other names, drop the registration's
\* reference and put it on the todo list.  Its followers have left before.
unregister_netdevice(d) ==
    /\ reg_state[d] = "REGISTERED" /\ \A b \in Notifier : follows[b] # d
    /\ reg_state' = [reg_state EXCEPT ![d] = "UNREGISTERING"]
    /\ iff_up' = iff_up \ {d} /\ listed' = listed \ {d}
    /\ altnames' = {a \in altnames : a[3] # d}
    /\ view' = Forget(view, All(net[d]), d)
    /\ up_view' = Forget(up_view, All(net[d]), d)
    /\ refcnt' = [refcnt EXCEPT ![d] = @ - 1]
    /\ todo' = todo \cup {d}
    /\ UNCHANGED <<net, dname, ifindex, held, scope, follows, ghost_vars>>

\* netdev_run_todo, after __rtnl_unlock.
todo_unregistered(d) ==
    /\ d \in todo /\ reg_state[d] = "UNREGISTERING"
    /\ reg_state' = [reg_state EXCEPT ![d] = "UNREGISTERED"]
    /\ UNCHANGED <<net, table_vars, iff_up, held, refcnt, todo, notifier_vars, ghost_vars>>

\* netdev_wait_allrefs rebroadcasts NETDEV_UNREGISTER while it waits.
rebroadcast(d) ==
    /\ d \in todo /\ reg_state[d] = "UNREGISTERED" /\ refcnt[d] # 1
    /\ view' = Forget(view, All(net[d]), d)
    /\ UNCHANGED <<reg_state, net, table_vars, iff_up, held, refcnt, todo, scope, follows,
                   up_view, ghost_vars>>

\* Faulty variant: the device is given up while somebody refers to it.
wait_allrefs_no(d) == TRUE
wait_allrefs(d) == refcnt[d] = 1

todo_done(d) ==
    /\ d \in todo /\ reg_state[d] = "UNREGISTERED" /\ wait_allrefs(d)
    /\ todo' = todo \ {d}
    /\ UNCHANGED <<reg_state, net, table_vars, iff_up, held, refcnt, notifier_vars, ghost_vars>>

\* free_netdev, by the todo list or by the owner once it is through.
free_netdev(d) ==
    /\ d \notin todo /\ reg_state[d] \in {"UNREGISTERED", "UNINITIALIZED"}
    /\ reg_state' = [reg_state EXCEPT ![d] = "none"]
    /\ refcnt' = [refcnt EXCEPT ![d] = 0]
    /\ net' = [net EXCEPT ![d] = init_net] /\ dname' = [dname EXCEPT ![d] = no_name]
    /\ ifindex' = [ifindex EXCEPT ![d] = 0]
    /\ UNCHANGED <<listed, altnames, iff_up, held, todo, notifier_vars, ghost_vars>>

\* dev_get_by_name and dev_get_by_index, under RCU.
dev_get(n) ==
    /\ \E d \in UNION ({name_lookup(n, x) : x \in Name}
                       \cup {index_lookup(n, i) : i \in IfIndex}) :
         /\ d \notin held /\ Cardinality(held) < MaxHeld
         /\ held' = held \cup {d} /\ refcnt' = [refcnt EXCEPT ![d] = @ + 1]
    /\ UNCHANGED <<reg_state, net, table_vars, iff_up, todo, notifier_vars, ghost_vars>>

dev_put(d) ==
    /\ d \in held /\ held' = held \ {d}
    /\ refcnt' = [refcnt EXCEPT ![d] = @ - 1]
    /\ UNCHANGED <<reg_state, net, table_vars, iff_up, todo, notifier_vars, ghost_vars>>

-----------------------------------------------------------------------------
(* Open, close, names *)

\* A refused NETDEV_PRE_UP or a failing ndo_open leaves the device down.
dev_open(d) ==
    /\ reg_state[d] = "REGISTERED" /\ d \notin iff_up
    /\ iff_up' = iff_up \cup {d}
    /\ up_view' = Learn(up_view, All(net[d]), d)
    /\ UNCHANGED <<reg_state, net, table_vars, held, refcnt, todo, scope, follows, view, ghost_vars>>

dev_close(d) ==
    /\ d \in iff_up /\ iff_up' = iff_up \ {d}
    /\ up_view' = Forget(up_view, All(net[d]), d)
    /\ UNCHANGED <<reg_state, net, table_vars, held, refcnt, todo, scope, follows, view, ghost_vars>>

\* Only while down.  A refused NETDEV_CHANGENAME is rolled back to the old
\* name, which leaves all tables as they were.
dev_change_name(d) ==
    /\ reg_state[d] = "REGISTERED" /\ d \notin iff_up
    /\ \E x \in ValidNames(net[d]) : dname' = [dname EXCEPT ![d] = x]
    /\ UNCHANGED <<reg_state, net, listed, ifindex, altnames, iff_up, held, refcnt, todo,
                   notifier_vars, ghost_vars>>

netdev_name_node_alt_create(d) ==
    /\ reg_state[d] = "REGISTERED" /\ d \in RMovable /\ Cardinality(altnames) < MaxAltNames
    /\ \E x \in ValidNames(net[d]) : altnames' = altnames \cup {<<net[d], x, d>>}
    /\ UNCHANGED <<reg_state, net, listed, dname, ifindex, iff_up, held, refcnt, todo,
                   notifier_vars, ghost_vars>>

\* The name must be another name of this device, in its own namespace.
netdev_name_node_alt_destroy(d) ==
    /\ \E a \in altnames : a[3] = d /\ a[1] = net[d] /\ altnames' = altnames \ {a}
    /\ UNCHANGED <<reg_state, net, listed, dname, ifindex, iff_up, held, refcnt, todo,
                   notifier_vars, ghost_vars>>

-----------------------------------------------------------------------------
(* Notifiers *)

\* Registration replays NETDEV_REGISTER and NETDEV_UP; a refusal is rolled
\* back and the notifier is not registered.
Replay(b, ds) == /\ view' = [view EXCEPT ![b] = ds]
                 /\ up_view' = [up_view EXCEPT ![b] = ds \cap iff_up]

register_netdevice_notifier(b) ==
    /\ scope[b] = "off" /\ scope' = [scope EXCEPT ![b] = "all"]
    /\ Replay(b, listed)
    /\ UNCHANGED <<reg_state, net, table_vars, iff_up, held, refcnt, todo, follows, ghost_vars>>

register_netdevice_notifier_net(b, n) ==
    /\ scope[b] = "off" /\ scope' = [scope EXCEPT ![b] = n]
    /\ Replay(b, In(n))
    /\ UNCHANGED <<reg_state, net, table_vars, iff_up, held, refcnt, todo, follows, ghost_vars>>

register_netdevice_notifier_dev_net(b, d) ==
    /\ scope[b] = "off" /\ reg_state[d] = "REGISTERED"
    /\ scope' = [scope EXCEPT ![b] = net[d]] /\ follows' = [follows EXCEPT ![b] = d]
    /\ Replay(b, In(net[d]))
    /\ UNCHANGED <<reg_state, net, table_vars, iff_up, held, refcnt, todo, ghost_vars>>

\* unregister_netdevice_notifier and its per-namespace forms: off the chain,
\* then down and unregister events for every device of the lists.
unregister_netdevice_notifier(b) ==
    /\ scope[b] # "off"
    /\ LET ds == {d \in listed : InScope(b, net[d])}
       IN /\ view' = [view EXCEPT ![b] = @ \ ds]
          /\ up_view' = [up_view EXCEPT ![b] = @ \ ds]
    /\ scope' = [scope EXCEPT ![b] = "off"] /\ follows' = [follows EXCEPT ![b] = NoDev]
    /\ UNCHANGED <<reg_state, net, table_vars, iff_up, held, refcnt, todo, ghost_vars>>

-----------------------------------------------------------------------------
(* Moving a device to another namespace *)

\* A mini version of unregister and register.  The primary name node moves;
\* the other names stay in the table of the old namespace.  A notifier that
\* refuses NETDEV_REGISTER ends the chain, and the move goes on.
__dev_change_net_namespace(d, n) ==
    /\ reg_state[d] = "REGISTERED" /\ net[d] # n /\ d \in RMovable
    /\ \E x \in Name, i \in IfIndex :
         /\ IF name_lookup(n, dname[d]) = {} THEN x = dname[d] ELSE x \in ValidNames(n)
         /\ index_lookup(n, i) = {}
         /\ IF index_lookup(n, ifindex[d]) = {} THEN i = ifindex[d] ELSE TRUE
         /\ dname' = [dname EXCEPT ![d] = x] /\ ifindex' = [ifindex EXCEPT ![d] = i]
    /\ net' = [net EXCEPT ![d] = n]
    /\ iff_up' = iff_up \ {d}
    /\ scope' = [b \in Notifier |-> IF follows[b] = d THEN n ELSE scope[b]]
    /\ LET gone == Forget(view, All(net[d]), d)
           down == Forget(up_view, All(net[d]), d)
           moved == [b \in Notifier |-> IF follows[b] = d THEN In(n) ELSE gone[b]]
           order == ChainOf(scope', n)
       IN \E k \in 0..Len(order) :
            /\ view' = Learn(moved, ToSet(SubSeq(order, 1, k)), d)
            /\ up_view' = [b \in Notifier |-> IF follows[b] = d THEN In(n) \cap iff_up
                                                                ELSE down[b]]
            /\ refused' = (refused \/ k < Len(order))
    /\ UNCHANGED <<reg_state, listed, altnames, held, refcnt, todo, follows, misnamed>>

\* The name pattern has been applied to dev->name when the requested index
\* turns out to be in use: the move fails and the device keeps the new name.
__dev_change_net_namespace_busy(d, n) ==
    /\ reg_state[d] = "REGISTERED" /\ net[d] # n /\ d \in RMovable
    /\ name_lookup(n, dname[d]) # {} /\ In(n) # {}
    /\ \E x \in ValidNames(n) : dname' = [dname EXCEPT ![d] = x]
    /\ misnamed' = TRUE
    /\ UNCHANGED <<reg_state, net, listed, ifindex, altnames, iff_up, held, refcnt, todo,
                   notifier_vars, refused>>

NetdevRegistryNext ==
    \/ \E d \in RDev :
         \/ alloc_netdev_mqs(d) \/ register_netdevice(d) \/ register_refused(d)
         \/ unregister_netdevice(d) \/ todo_unregistered(d) \/ rebroadcast(d)
         \/ todo_done(d) \/ free_netdev(d) \/ dev_put(d) \/ dev_open(d) \/ dev_close(d)
         \/ dev_change_name(d) \/ netdev_name_node_alt_create(d)
         \/ netdev_name_node_alt_destroy(d)
         \/ \E n \in Netns : __dev_change_net_namespace(d, n)
                             \/ __dev_change_net_namespace_busy(d, n)
         \/ \E b \in Notifier : register_netdevice_notifier_dev_net(b, d)
    \/ \E n \in Netns : dev_get(n)
    \/ \E b \in Notifier :
         \/ register_netdevice_notifier(b) \/ unregister_netdevice_notifier(b)
         \/ \E n \in Netns : register_netdevice_notifier_net(b, n)

-----------------------------------------------------------------------------
(* Properties *)

NetdevRegistryTypeOK ==
    /\ reg_state \in [RDev -> {"none", "UNINITIALIZED", "REGISTERED", "UNREGISTERING",
                               "UNREGISTERED"}]
    /\ net \in [RDev -> Netns] /\ dname \in [RDev -> Name]
    /\ ifindex \in [RDev -> IfIndex \cup {0}] /\ refcnt \in [RDev -> Nat]
    /\ listed \subseteq RDev /\ iff_up \subseteq RDev /\ held \subseteq RDev
    /\ altnames \subseteq Netns \X Name \X RDev /\ todo \subseteq RDev
    /\ scope \in [Notifier -> {"off", "all"} \cup Netns]
    /\ view \in [Notifier -> SUBSET RDev] /\ up_view \in [Notifier -> SUBSET RDev]

\* A notifier knows exactly the devices of its namespaces, and which of them
\* are up, however they were registered, opened, moved and removed and
\* whenever it was registered itself (once a notifier has refused an event of
\* a move, only that it knows no device that is gone); a device is listed
\* while it is registered, under a name and an index of its own; and a device
\* is freed only when nobody refers to it and no table leads to it.
RegistrySound ==
    /\ \A b \in Notifier :
         LET known == {d \in listed : InScope(b, net[d])}
         IN /\ view[b] \subseteq known /\ up_view[b] \subseteq iff_up \cap known
            /\ ~refused => view[b] = known /\ up_view[b] = iff_up \cap known
    /\ listed = {d \in RDev : reg_state[d] = "REGISTERED"} /\ iff_up \subseteq listed
    /\ \A d, e \in listed : d # e /\ net[d] = net[e] =>
         /\ ifindex[d] # ifindex[e]
         /\ ~misnamed => dname[d] # dname[e]
    /\ \A d \in RDev : reg_state[d] = "none" =>
         d \notin held /\ \A a \in altnames : a[3] # d
=============================================================================
