------------------------------ MODULE NapiHash ------------------------------
(***************************************************************************)
(* How the CROS-RT modules find the NAPI of the card (net/core/dev.c): the *)
(* priority identifier and the handler threads look up the fixed id 257,   *)
(* the first one that napi_hash_add ever gives, and call the function      *)
(* pointers that rtl_init_one stored there.                                *)
(*                                                                         *)
(* A NAPI instance is a piece of memory that a driver registers, removes   *)
(* and frees after an RCU grace period.  Ids are numbered from 1 here.     *)
(***************************************************************************)
EXTENDS Naturals, FiniteSets

CONSTANTS Napi,        \* the instances there may be
          CardNapi,    \* those of the r8169: a rebound card has another one
          NapiCaller,  \* callers of the CROS-RT functions
          MaxNapiId    \* bound: ids before napi_gen_id wraps around

ASSUME NapiHashAssumption ==
    /\ CardNapi \subseteq Napi
    /\ IsFiniteSet(Napi) /\ MaxNapiId \in Nat /\ Cardinality(Napi) <= MaxNapiId

VARIABLES nh_gen,     \* napi_gen_id
          nh_napi,    \* each instance: its state, napi_id, and whether the
                      \* driver has stored its function pointers
          nh_reader,  \* the instance an RCU reader found
          nh_call     \* the instance each CROS-RT caller found
napihash_vars == <<nh_gen, nh_napi, nh_reader, nh_call>>

NoNapi == "no napi"
FreeNapi == [st |-> "free", id |-> 0, calls |-> FALSE]
FixedId == 1

NapiHashInit ==
    /\ nh_gen = 0
    /\ nh_napi = [n \in Napi |-> FreeNapi]
    /\ nh_reader = NoNapi
    /\ nh_call = [c \in NapiCaller |-> NoNapi]

napi_by_id(id) == {n \in Napi : nh_napi[n].st = "hashed" /\ nh_napi[n].id = id}

(* The next id that no instance has, after napi_gen_id and around the end. *)
next_free_id ==
    LET After(k) == ((nh_gen + k - 1) % MaxNapiId) + 1
        Free == {k \in 1 .. MaxNapiId : napi_by_id(After(k)) = {}} IN
    After(CHOOSE k \in Free : \A j \in Free : k <= j)

(* Faulty: an id that is in use is not skipped. *)
napi_hash_add_next(n) ==
    /\ nh_gen' = (nh_gen % MaxNapiId) + 1
    /\ nh_napi' = [nh_napi EXCEPT ![n] = [FreeNapi EXCEPT !.st = "hashed", !.id = (nh_gen % MaxNapiId) + 1]]

napi_hash_add(n) ==
    /\ nh_gen' = next_free_id
    /\ nh_napi' = [nh_napi EXCEPT ![n] = [FreeNapi EXCEPT !.st = "hashed", !.id = next_free_id]]

(* netif_napi_add makes the instance visible before its pointers are there. *)
netif_napi_add(n) ==
    /\ nh_napi[n].st = "free"
    /\ napi_hash_add(n)
    /\ UNCHANGED <<nh_reader, nh_call>>

(* rtl_init_one: netif_napi_add_port_priority ... netif_napi_add_highest_prio. *)
netif_napi_add_calls(n) ==
    /\ n \in CardNapi /\ nh_napi[n].st = "hashed" /\ ~nh_napi[n].calls
    /\ nh_napi' = [nh_napi EXCEPT ![n].calls = TRUE]
    /\ UNCHANGED <<nh_gen, nh_reader, nh_call>>

(* netif_napi_del: the instance leaves the hash ... *)
__netif_napi_del(n) ==
    /\ nh_napi[n].st = "hashed"
    /\ n \in CardNapi => nh_napi[n].calls
    /\ nh_napi' = [nh_napi EXCEPT ![n].st = "deleted"]
    /\ UNCHANGED <<nh_gen, nh_reader, nh_call>>

(* Faulty: the memory is freed at once. *)
netif_napi_del_at_once(n) ==
    /\ nh_napi[n].st = "deleted"
    /\ nh_napi' = [nh_napi EXCEPT ![n] = FreeNapi]
    /\ UNCHANGED <<nh_gen, nh_reader, nh_call>>

(* ... and after a grace period its memory, which is in the device's, goes. *)
netif_napi_del(n) ==
    /\ nh_napi[n].st = "deleted" /\ nh_reader # n
    /\ nh_napi' = [nh_napi EXCEPT ![n] = FreeNapi]
    /\ UNCHANGED <<nh_gen, nh_reader, nh_call>>

(* A reader that keeps the RCU read lock while it uses what it found.       *)
dev_get_by_napi_id(id) ==
    /\ nh_reader = NoNapi
    /\ \E n \in napi_by_id(id) : nh_reader' = n
    /\ UNCHANGED <<nh_gen, nh_napi, nh_call>>

reader_unlock ==
    /\ nh_reader # NoNapi /\ nh_reader' = NoNapi
    /\ UNCHANGED <<nh_gen, nh_napi, nh_call>>

(* The CROS-RT functions drop the RCU read lock with the pointer in hand;   *)
(* a lookup that fails only logs.                                           *)
lookup_fixed_id(c) ==
    /\ nh_call[c] = NoNapi
    /\ \E n \in napi_by_id(FixedId) : nh_call' = [nh_call EXCEPT ![c] = n]
    /\ UNCHANGED <<nh_gen, nh_napi, nh_reader>>

(* n->set_port_priority, n->rt_poll and the others are called and return.   *)
call_returns(c) ==
    /\ nh_call[c] # NoNapi
    /\ nh_call' = [nh_call EXCEPT ![c] = NoNapi]
    /\ UNCHANGED <<nh_gen, nh_napi, nh_reader>>

NapiHashNext ==
    \/ \E n \in Napi : netif_napi_add(n) \/ netif_napi_add_calls(n) \/ __netif_napi_del(n) \/ netif_napi_del(n)
    \/ \E id \in 1 .. MaxNapiId : dev_get_by_napi_id(id)
    \/ reader_unlock
    \/ \E c \in NapiCaller : lookup_fixed_id(c) \/ call_returns(c)

NapiHashSpec == NapiHashInit /\ [][NapiHashNext]_napihash_vars

-----------------------------------------------------------------------------

NapiHashTypeOK ==
    /\ nh_gen \in 0 .. MaxNapiId
    /\ nh_napi \in [Napi -> [st : {"free", "hashed", "deleted"}, id : 0 .. MaxNapiId, calls : BOOLEAN]]
    /\ nh_reader \in Napi \cup {NoNapi}
    /\ nh_call \in [NapiCaller -> Napi \cup {NoNapi}]

(* An id names one instance, through removals and the wrap-around of the    *)
(* counter, and what a reader found under the RCU lock stays allocated as   *)
(* long as the lock is held.                                                *)
NapiHashSound ==
    /\ \A m, n \in Napi : (nh_napi[m].st = "hashed" /\ nh_napi[n].st = "hashed" /\ m # n)
                            => nh_napi[m].id # nh_napi[n].id
    /\ nh_reader # NoNapi => nh_napi[nh_reader].st # "free"

(* What a CROS-RT function calls through is still allocated.                *)
CallsAllocated ==
    \A c \in NapiCaller : nh_call[c] # NoNapi => nh_napi[nh_call[c]].st # "free"
=============================================================================
