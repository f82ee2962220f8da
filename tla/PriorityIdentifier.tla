------------------------- MODULE PriorityIdentifier -------------------------
(***************************************************************************)
(* The cross-layer priority identifier: four system calls register and     *)
(* remove the priority of a UDP port (connect_pp_syscall,                  *)
(* disconnect_pp_syscall) and of a thread (add_tp_syscall,                 *)
(* remove_tp_syscall) in two hash tables of the kernel.                    *)
(*                                                                         *)
(* No lock protects the tables, so a call is split where another caller    *)
(* may preempt it.  A table is represented by one chain of entries, newest *)
(* first: lookups and removals stop at the first entry of the key, and     *)
(* keys in different chains do not meet.                                   *)
(***************************************************************************)
EXTENDS Naturals, Sequences, FiniteSets

CONSTANTS
    Callers,      \* processes that make the calls
    Ports, Tids,  \* the keys of the two tables
    Priorities,   \* the priorities passed to the calls
    Serialised,   \* the calls come one after the other
    Once,         \* a key is registered again only after it was removed
    MaxEntries    \* bound on the length of a chain

ASSUME KeyAssumption == Ports \subseteq Nat /\ Tids \subseteq Nat /\ Ports \cap Tids = {}
ASSUME PriorityAssumption == Priorities \subseteq Nat
ASSUME ModeAssumption == Serialised \in BOOLEAN /\ Once \in BOOLEAN
ASSUME BoundAssumption == MaxEntries \in Nat

Tables == {"port", "tid"}      \* port_priority_table, tid_priority_map
Keys == Ports \cup Tids
TableOf(key) == IF key \in Ports THEN "port" ELSE "tid"
MaxPriority == 100             \* the length of priority_in_use

VARIABLES
    chain,    \* the entries of each table
    in_use,   \* the indices with priority_in_use[i]
    call,     \* what each caller is doing
    latest    \* the priority of each key by the calls that returned, 0 for none

vars == <<chain, in_use, call, latest>>

Entries == [key : Keys, priority : Priorities]
NoCall == [pc |-> "idle", key |-> 0, priority |-> 0, first |-> <<>>]

Init ==
    /\ chain = [t \in Tables |-> <<>>]
    /\ in_use = {}
    /\ call = [c \in Callers |-> NoCall]
    /\ latest = [k \in Keys |-> 0]

Idle(c) == call[c].pc = "idle"
Quiescent == \A c \in Callers : Idle(c)
MayStart(c) == Idle(c) /\ (Serialised => Quiescent)

(* Definitions marked "Faulty" are wrong variants of the one that follows  *)
(* them; the properties are shown to fail on them.                         *)

(* Faulty: the key of the entry is not compared. *)
find_any(entries, key) == IF entries = <<>> THEN 0 ELSE 1

(* The place of the first entry of a key, 0 if there is none. *)
find(entries, key) ==
    LET at == {i \in 1 .. Len(entries) : entries[i].key = key}
    IN  IF at = {} THEN 0 ELSE CHOOSE i \in at : \A j \in at : i <= j

(* get_port_priority(), and the same look at the other table. *)
get_priority(key) ==
    LET entries == chain[TableOf(key)]
        i == find(entries, key)
    IN  IF i = 0 THEN 0 ELSE entries[i].priority

Return(c, key, priority) ==
    /\ call' = [call EXCEPT ![c] = NoCall]
    /\ latest' = [latest EXCEPT ![key] = priority]

------------------------------------------------------------------------------
(* connect_pp_syscall (odd ports only) and add_tp_syscall: the entry is     *)
(* allocated and filled.  When kmalloc fails the call returns and has done  *)
(* nothing, like a call with an even port.                                  *)
register(c, key, priority) ==
    /\ MayStart(c)
    /\ key \in Ports => key % 2 = 1
    /\ Once => latest[key] = 0
    /\ Len(chain[TableOf(key)]) < MaxEntries
    /\ call' = [call EXCEPT ![c] = [pc |-> "head", key |-> key, priority |-> priority, first |-> <<>>]]
    /\ UNCHANGED <<chain, in_use, latest>>

(* hash_add() reads the head of the chain ... *)
hash_add_head(c) ==
    /\ call[c].pc = "head"
    /\ call' = [call EXCEPT ![c].pc = "link", ![c].first = chain[TableOf(call[c].key)]]
    /\ UNCHANGED <<chain, in_use, latest>>

(* ... and makes the new entry the head, in front of what it read. *)
hash_add_link(c) ==
    LET k == call[c].key
        entry == [key |-> k, priority |-> call[c].priority]
    IN
    /\ call[c].pc = "link"
    /\ chain' = [chain EXCEPT ![TableOf(k)] = <<entry>> \o call[c].first]
    /\ IF k \in Ports
       THEN call' = [call EXCEPT ![c].pc = "mark"] /\ UNCHANGED latest
       ELSE Return(c, k, call[c].priority)
    /\ UNCHANGED in_use

(* Faulty: the index is not checked against the length of the array. *)
mark_unchecked(c) ==
    /\ call[c].pc = "mark"
    /\ in_use' = in_use \cup {call[c].priority}
    /\ Return(c, call[c].key, call[c].priority)
    /\ UNCHANGED chain

(* The end of set_port_priority(). *)
mark_in_use(c) ==
    /\ call[c].pc = "mark"
    /\ in_use' = IF call[c].priority < MaxPriority THEN in_use \cup {call[c].priority} ELSE in_use
    /\ Return(c, call[c].key, call[c].priority)
    /\ UNCHANGED chain

(* disconnect_pp_syscall and remove_tp_syscall: remove_port_priority() *)
(* looks the priority up before it walks the table.                    *)
remove(c, key) ==
    /\ MayStart(c)
    /\ call' = [call EXCEPT ![c] =
                  [pc |-> "unlink", key |-> key, priority |-> get_priority(key), first |-> <<>>]]
    /\ UNCHANGED <<chain, in_use, latest>>

(* Faulty: the priority is cleared although another port may have it. *)
hash_del_clear(c) ==
    LET k == call[c].key
        entries == chain[TableOf(k)]
        i == find(entries, k)
    IN
    /\ call[c].pc = "unlink"
    /\ in_use' = in_use \ {call[c].priority}
    /\ chain' = IF i = 0 THEN chain
                ELSE [chain EXCEPT ![TableOf(k)] =
                         SubSeq(entries, 1, i - 1) \o SubSeq(entries, i + 1, Len(entries))]
    /\ Return(c, k, 0)

(* The first entry of the key is deleted and the call returns; only a walk *)
(* that finds none reaches the line that clears priority_in_use.           *)
hash_del(c) ==
    LET k == call[c].key
        entries == chain[TableOf(k)]
        i == find(entries, k)
    IN
    /\ call[c].pc = "unlink"
    /\ \/ /\ i # 0
          /\ chain' = [chain EXCEPT ![TableOf(k)] =
                          SubSeq(entries, 1, i - 1) \o SubSeq(entries, i + 1, Len(entries))]
          /\ UNCHANGED in_use
       \/ /\ i = 0
          /\ in_use' = IF k \in Ports /\ call[c].priority < MaxPriority
                       THEN in_use \ {call[c].priority} ELSE in_use
          /\ UNCHANGED chain
    /\ Return(c, k, 0)

Next ==
    \E c \in Callers :
        \/ \E k \in Keys, p \in Priorities : register(c, k, p)
        \/ hash_add_head(c) \/ hash_add_link(c) \/ mark_in_use(c)
        \/ \E k \in Keys : remove(c, k)
        \/ hash_del(c)

Spec == Init /\ [][Next]_vars

------------------------------------------------------------------------------

TypeOK ==
    /\ chain \in [Tables -> Seq(Entries)]
    /\ in_use \in SUBSET (0 .. MaxPriority - 1)
    /\ \A c \in Callers :
        /\ call[c].pc \in {"idle", "head", "link", "mark", "unlink"}
        /\ Idle(c) \/ call[c].key \in Keys
        /\ call[c].first \in Seq(Entries)
    /\ latest \in [Keys -> Priorities \cup {0}]

(* Between calls the tables answer like a map from keys to priorities: a   *)
(* lookup gives the priority of the last registration, and 0 for a key     *)
(* that was removed since.                                                 *)
TableIsMap == Quiescent => \A k \in Keys : get_priority(k) = latest[k]

(* get_next_highest_priority() only stops at marked priorities: every      *)
(* priority that a port has in the table is marked, between calls.         *)
RegisteredMarked ==
    Quiescent => \A i \in 1 .. Len(chain["port"]) :
                    chain["port"][i].priority < MaxPriority => chain["port"][i].priority \in in_use

(* A call changes what a lookup finds for its own key only. *)
OthersKept ==
    \A k \in Keys : (\A c \in Callers : call[c].key # k) => get_priority(k)' = get_priority(k)

==============================================================================
