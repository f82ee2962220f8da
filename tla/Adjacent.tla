------------------------------ MODULE Adjacent ------------------------------
(***************************************************************************)
(* The stack of network devices in net/core/dev.c: every device keeps the  *)
(* lists of the devices above and below it, as netdev_adjacent entries     *)
(* with a reference count, and its level counted from the top and from the *)
(* bottom.  All operations hold rtnl, so each is one step; they can fail   *)
(* half way and then undo what they did.                                   *)
(*                                                                         *)
(* A list is a function from the devices on it to their entries.  Its      *)
(* order matters to the code only in that a master comes first, which is   *)
(* how netdev_master_upper_dev_get finds it.                               *)
(***************************************************************************)
EXTENDS Naturals, FiniteSets, Functions, FiniteSetsExt, SequencesExt

CONSTANTS NetDev,         \* the devices
          MovableDev,     \* bound: the devices that change their namespace
          MAX_NEST_DEV,   \* 8 in netdevice.h
          MaxAdjacent      \* bound: sum of the reference counts on upper lists

ASSUME AdjacentAssumption == /\ IsFiniteSet(NetDev) /\ MovableDev \subseteq NetDev
                             /\ MAX_NEST_DEV \in Nat \ {0} /\ MaxAdjacent \in Nat

VARIABLES adj_upper,   \* adj_list.upper: [dev -> entries of its uppers]
          adj_lower,   \* adj_list.lower
          upper_level, lower_level,
          adj_refs,    \* references dev_hold took on a device for entries
          sysfs,       \* the symlinks upper_*, lower_* and master
          dev_net,     \* the namespace of each device
          change       \* between netdev_adjacent_change_prepare and its end

adjacent_vars == <<adj_upper, adj_lower, upper_level, lower_level, adj_refs, sysfs,
                   dev_net, change>>

NoChange == <<>>

(* The lists and what belongs to them, as one value. *)
Lists == [up |-> adj_upper, down |-> adj_lower, refs |-> adj_refs, sys |-> sysfs]

-----------------------------------------------------------------------------
(* Walks.  __netdev_walk_all_lower_dev and its siblings visit a device once *)
(* for every path to it, in preorder, without the ignored links.            *)

Heeded(list) == {d \in DOMAIN list : ~list[d].ignore}

walk_all_dev(lists, dev) ==
    LET walk[n \in 0 .. Cardinality(NetDev), d \in NetDev] ==
            IF n = 0 THEN <<>>
            ELSE FlattenSeq([i \in 1 .. Cardinality(Heeded(lists[d])) |->
                    LET e == SetToSeq(Heeded(lists[d]))[i] IN <<e>> \o walk[n - 1, e]])
    IN  walk[Cardinality(NetDev), dev]

__netdev_has_upper_dev(lists, dev, upper) == upper \in Range(walk_all_dev(lists, dev))

(* __netdev_master_upper_dev_get: the master, unless it is ignored. *)
Masters(up) == {u \in DOMAIN up : up[u].master}
master_upper_dev_get(up) == Masters(up) \cap Heeded(up)

(* __netdev_update_upper_level (and lower): one more than the highest level *)
(* among the neighbours.                                                    *)
update_level(list, level, d) ==
    [level EXCEPT ![d] = 1 + Max({0} \cup {level[e] : e \in Heeded(list[d])})]

(* Faulty: only the device itself is updated. *)
update_levels_here(list, walked, level, dev) == update_level(list, level, dev)

(* The device, then all the walk finds. *)
update_levels(list, walked, level, dev) ==
    FoldLeft(LAMBDA l, d : update_level(list, l, d), level,
             <<dev>> \o walk_all_dev(walked, dev))

-----------------------------------------------------------------------------
(* Entries *)

With(f, d, e) == [x \in DOMAIN f \cup {d} |-> IF x = d THEN e ELSE f[x]]
Without(f, d) == Restrict(f, DOMAIN f \ {d})

(* netdev_adjacent_is_neigh_list: links are made within a namespace. *)
Links(dev, side, d) == IF dev_net[dev] = dev_net[d] THEN {<<dev, side, d>>} ELSE {}

(* __netdev_adjacent_dev_insert on side "up" or "down" of dev: another     *)
(* reference to an entry that exists, else a new entry.                    *)
adjacent_dev_insert(L, side, dev, d, master) ==
    LET list == L[side][dev]
        e == IF d \in DOMAIN list THEN [list[d] EXCEPT !.ref_nr = @ + 1]
             ELSE [ref_nr |-> 1, master |-> master, ignore |-> FALSE]
        new == d \notin DOMAIN list
        links == Links(dev, side, d) \cup (IF master THEN {<<dev, "master", d>>} ELSE {})
    IN  [L EXCEPT ![side][dev] = With(list, d, e),
                  !.refs[d] = IF new THEN @ + 1 ELSE @,
                  !.sys = IF new THEN @ \cup links ELSE @]

(* __netdev_adjacent_dev_remove of one reference. *)
adjacent_dev_remove(L, side, dev, d) ==
    LET e == L[side][dev][d] IN
    IF e.ref_nr > 1 THEN [L EXCEPT ![side][dev][d].ref_nr = @ - 1]
    ELSE [L EXCEPT ![side][dev] = Without(@, d),
                   !.refs[d] = @ - 1,
                   !.sys = @ \ (Links(dev, side, d)
                                \cup (IF e.master THEN {<<dev, "master", d>>} ELSE {}))]

(* __netdev_adjacent_dev_link_lists, where the second insertion may fail. *)
link_neighbour(L, dev, upper, master) ==
    adjacent_dev_insert(adjacent_dev_insert(L, "up", dev, upper, master),
                        "down", upper, dev, FALSE)

link_neighbour_fails(L, dev, upper, master) ==
    adjacent_dev_remove(adjacent_dev_insert(L, "up", dev, upper, master), "up", dev, upper)

unlink_neighbour(L, dev, upper) ==
    adjacent_dev_remove(adjacent_dev_remove(L, "up", dev, upper), "down", upper, dev)

(* __netdev_adjacent_dev_set *)
set_ignore(L, upper, dev, val) ==
    [L EXCEPT !.up[dev] = IF upper \in DOMAIN @ THEN [@ EXCEPT ![upper].ignore = val] ELSE @,
              !.down[upper] = IF dev \in DOMAIN @ THEN [@ EXCEPT ![dev].ignore = val] ELSE @]

Store(L) == /\ adj_upper' = L.up /\ adj_lower' = L.down
            /\ adj_refs' = L.refs /\ sysfs' = L.sys

(* The levels after the lists have become L's: upward from upper, downward *)
(* from dev.                                                               *)
Relevel(L, dev, upper) ==
    /\ upper_level' = update_levels(L.up, L.down, upper_level, dev)
    /\ lower_level' = update_levels(L.down, L.up, lower_level, upper)

-----------------------------------------------------------------------------
(* Operations *)

(* The checks of __netdev_upper_dev_link. *)
may_link(L, dev, upper, master) ==
    /\ dev # upper
    /\ ~__netdev_has_upper_dev(L.up, upper, dev)
    /\ lower_level[dev] + upper_level[upper] <= MAX_NEST_DEV
    /\ IF master THEN master_upper_dev_get(L.up[dev]) = {}
       ELSE ~__netdev_has_upper_dev(L.up, dev, upper)

(* The bound on the size of the instance. *)
Room == MaxAdjacent > FoldSet(LAMBDA e, n : n + adj_upper[e[1]][e[2]].ref_nr, 0,
                             {e \in NetDev \X NetDev : e[2] \in DOMAIN adj_upper[e[1]]})

(* netdev_upper_dev_link and netdev_master_upper_dev_link: done, or failed  *)
(* at the second insertion, or refused by a NETDEV_CHANGEUPPER notifier and *)
(* rolled back before the levels are touched.                               *)
netdev_upper_dev_link ==
    \E dev, upper \in NetDev, master \in BOOLEAN :
       /\ change = NoChange /\ Room /\ may_link(Lists, dev, upper, master)
       /\ LET L == link_neighbour(Lists, dev, upper, master) IN
          \/ Store(L) /\ Relevel(L, dev, upper)
          \/ /\ Store(link_neighbour_fails(Lists, dev, upper, master))
             /\ UNCHANGED <<upper_level, lower_level>>
          \/ Store(unlink_neighbour(L, dev, upper)) /\ UNCHANGED <<upper_level, lower_level>>
       /\ UNCHANGED <<dev_net, change>>

netdev_upper_dev_unlink ==
    \E dev \in NetDev : \E upper \in DOMAIN adj_upper[dev] :
       /\ change = NoChange
       /\ LET L == unlink_neighbour(Lists, dev, upper) IN Store(L) /\ Relevel(L, dev, upper)
       /\ UNCHANGED <<dev_net, change>>

(* netdev_adjacent_change_prepare: the link to the old lower device is      *)
(* ignored and the new one made; on failure it is heeded again.             *)
netdev_adjacent_change_prepare ==
    \E dev, old, new \in NetDev :
       /\ change = NoChange /\ Room /\ new # old /\ dev \in DOMAIN adj_upper[old]
       /\ LET ign == set_ignore(Lists, dev, old, TRUE)
              L == link_neighbour(ign, new, dev, FALSE) IN
          /\ may_link(ign, new, dev, FALSE)
          /\ \/ Store(L) /\ Relevel(L, new, dev) /\ change' = <<old, new, dev>>
             \/ /\ Store(set_ignore(unlink_neighbour(L, new, dev), dev, old, FALSE))
                /\ UNCHANGED <<upper_level, lower_level, change>>
       /\ UNCHANGED dev_net

(* netdev_adjacent_change_commit drops the old link, netdev_adjacent_       *)
(* change_abort the new one; both first heed the old one again.             *)
netdev_adjacent_change_end ==
    /\ change # NoChange
    /\ \E drop \in {change[1], change[2]} :
          LET dev == change[3]
              L == unlink_neighbour(set_ignore(Lists, dev, change[1], FALSE), drop, dev)
          IN  Store(L) /\ Relevel(L, drop, dev)
    /\ change' = NoChange
    /\ UNCHANGED dev_net

(* The part of dev_change_net_namespace that is about links: they are       *)
(* removed under the old namespace and made anew under the new one.         *)
netdev_adjacent_links ==
    \E dev \in MovableDev :
       LET net == [dev_net EXCEPT ![dev] = 1 - @]
           ends(n) == UNION {{<<dev, "up", u>>, <<u, "down", dev>>} :
                                u \in {v \in DOMAIN adj_upper[dev] : n[v] = n[dev]}}
                      \cup UNION {{<<dev, "down", l>>, <<l, "up", dev>>} :
                                l \in {v \in DOMAIN adj_lower[dev] : n[v] = n[dev]}}
       IN /\ change = NoChange
          /\ sysfs' = (sysfs \ ends(dev_net)) \cup ends(net)
          /\ dev_net' = net
          /\ UNCHANGED <<adj_upper, adj_lower, upper_level, lower_level, adj_refs, change>>

AdjacentInit ==
    /\ adj_upper = [d \in NetDev |-> <<>>] /\ adj_lower = [d \in NetDev |-> <<>>]
    /\ upper_level = [d \in NetDev |-> 1] /\ lower_level = [d \in NetDev |-> 1]
    /\ adj_refs = [d \in NetDev |-> 0] /\ sysfs = {}
    /\ dev_net = [d \in NetDev |-> 0] /\ change = NoChange

AdjacentNext == netdev_upper_dev_link \/ netdev_upper_dev_unlink
                \/ netdev_adjacent_change_prepare \/ netdev_adjacent_change_end
                \/ netdev_adjacent_links

-----------------------------------------------------------------------------
(* Properties *)

AdjEntry == [ref_nr : 1 .. MaxAdjacent, master : BOOLEAN, ignore : BOOLEAN]

AdjacentTypeOK ==
    /\ \A d \in NetDev : \A list \in {adj_upper[d], adj_lower[d]} :
          DOMAIN list \subseteq NetDev /\ \A e \in DOMAIN list : list[e] \in AdjEntry
    /\ upper_level \in [NetDev -> 1 .. MAX_NEST_DEV] /\ lower_level \in [NetDev -> 1 .. MAX_NEST_DEV]

(* All edges, the ignored ones too, with the longest chain above a device. *)
Above(d) == {u \in NetDev : u \in DOMAIN adj_upper[d]}
Height == LET h[n \in 0 .. Cardinality(NetDev), d \in NetDev] ==
                IF n = 0 THEN 0 ELSE 1 + Max({0} \cup {h[n - 1, u] : u \in Above(d)})
          IN  [d \in NetDev |-> h[Cardinality(NetDev), d]]
DepthBelow == LET h[n \in 0 .. Cardinality(NetDev), d \in NetDev] ==
                IF n = 0 THEN 0
                ELSE 1 + Max({0} \cup {h[n - 1, l] : l \in DOMAIN adj_lower[d]})
          IN  [d \in NetDev |-> h[Cardinality(NetDev), d]]

(* The two sides of the stack agree whatever failed on the way: an entry    *)
(* above has its entry below with the same count, a device is held once per *)
(* entry that names it, it has at most one master, and the symlinks are     *)
(* those of the entries within one namespace.  No chain of devices is       *)
(* longer than MAX_NEST_DEV, the size of the walks' stacks, not even while  *)
(* a link is being replaced; and outside a replacement the levels are the   *)
(* lengths of the longest chains, so that the check that enforces the bound *)
(* can rely on them.                                                        *)
AdjacencySound ==
    /\ \A d, u \in NetDev :
          /\ u \in DOMAIN adj_upper[d] <=> d \in DOMAIN adj_lower[u]
          /\ u \in DOMAIN adj_upper[d] =>
                /\ adj_upper[d][u].ref_nr = adj_lower[u][d].ref_nr
                /\ adj_upper[d][u].ignore = adj_lower[u][d].ignore
    /\ \A d \in NetDev :
          /\ adj_refs[d] = Cardinality(DOMAIN adj_upper[d]) + Cardinality(DOMAIN adj_lower[d])
          /\ Cardinality(Masters(adj_upper[d])) <= 1
          /\ Height[d] <= MAX_NEST_DEV
          /\ change = NoChange => upper_level[d] = Height[d] /\ lower_level[d] = DepthBelow[d]
    /\ sysfs = UNION {UNION {Links(d, "up", u) \cup Links(u, "down", d)
                             \cup (IF adj_upper[d][u].master THEN {<<d, "master", u>>} ELSE {}) :
                               u \in DOMAIN adj_upper[d]} : d \in NetDev}
=============================================================================
