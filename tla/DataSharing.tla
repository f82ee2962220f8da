---------------------------- MODULE DataSharing ----------------------------
(***************************************************************************)
(* Fast-DDS DataSharingListener: a thread that sleeps on a notification     *)
(* shared with the writers of other processes and reads the payloads they   *)
(* leave in their pools, while other threads match and unmatch writers.     *)
(* process_new_data walks the pools under mutex_ but reads each pool with    *)
(* the mutex released, so the list can change under it.                     *)
(*                                                                          *)
(* The pools (ReaderPool), the reader and the notification are not in the   *)
(* repository: a pool keeps the last HistorySize payloads of its writer, the *)
(* reader may refuse a payload, and notify() sets new_data and wakes the    *)
(* listener.  A matching thread calls notify(true), which runs              *)
(* process_new_data in that thread; it is taken to do so only while the      *)
(* listener is outside of it, which the class itself does not ensure.       *)
(***************************************************************************)
EXTENDS Integers, FiniteSets, Sequences, SequencesExt

CONSTANTS DsWriter,     \* writers that share data with the reader
          MaxPayload,   \* bound of the payloads of all writers
          HistorySize   \* payloads a pool keeps

ASSUME DataSharingAssumption == HistorySize \in Nat \ {0} /\ MaxPayload \in Nat

VARIABLES is_running, new_data, writer_pools_changed,
          listener,      \* "none", "top", "asleep", "process", "ended"
          stopping,      \* stop() has cleared is_running and not yet joined
          writer_pools,  \* matched writers, in the order of the vector
          produced,      \* payloads a writer has put into its pool
          unannounced,   \* writers between writing and notify()
          matching,      \* a matching thread between add and its notify(true)
          last_read,     \* last payload advanced over, per pool
          accounted,     \* payloads the reader got or was told are lost
          worker,        \* who runs process_new_data: "none" or a thread
          it,            \* position of its iterator
          pool,          \* the pool it reads with the mutex released
          phase          \* "read" or "locked"

datasharing_vars == <<is_running, new_data, writer_pools_changed, listener, stopping,
                      writer_pools, produced, unannounced, matching, last_read,
                      accounted, worker, it, pool, phase>>

list_vars == <<writer_pools, matching>>
pool_vars == <<produced, unannounced>>
read_vars == <<last_read, accounted>>
walk_vars == <<worker, it, pool, phase>>

DataSharingInit ==
    /\ is_running = FALSE /\ new_data = FALSE /\ writer_pools_changed = FALSE
    /\ listener = "none" /\ stopping = FALSE
    /\ writer_pools = << >> /\ matching = FALSE
    /\ produced = [w \in DsWriter |-> 0] /\ unannounced = {}
    /\ last_read = [w \in DsWriter |-> 0] /\ accounted = [w \in DsWriter |-> {}]
    /\ worker = "none" /\ it = 0 /\ pool = CHOOSE w \in DsWriter : TRUE
    /\ phase = "locked"

\* DataSharingNotification::notify (external): set new_data and wake the
\* listener; both under the notification mutex.
Notify ==
    /\ new_data' = TRUE
    /\ listener' = IF listener = "asleep" THEN "top" ELSE listener

-----------------------------------------------------------------------------
(* A writer, in its own process (external) *)

write_payload(w) ==
    /\ SumFunction(produced) < MaxPayload /\ w \notin unannounced
    /\ produced' = [produced EXCEPT ![w] = @ + 1]
    /\ unannounced' = unannounced \cup {w}
    /\ UNCHANGED <<is_running, new_data, writer_pools_changed, listener, stopping,
                   list_vars, read_vars, walk_vars>>

notify_new_data(w) ==
    /\ w \in unannounced
    /\ unannounced' = unannounced \ {w}
    /\ Notify
    /\ UNCHANGED <<is_running, writer_pools_changed, stopping, produced, list_vars,
                   read_vars, walk_vars>>

-----------------------------------------------------------------------------
(* Threads that start and stop the listener, and match writers *)

pools_mutex_free == worker = "none" \/ phase = "read"

start ==
    /\ pools_mutex_free /\ ~is_running /\ ~stopping
    /\ is_running' = TRUE /\ listener' = "top"
    /\ UNCHANGED <<new_data, writer_pools_changed, stopping, list_vars, pool_vars,
                   read_vars, walk_vars>>

\* The flag is cleared under mutex_, the notification follows it.
stop_listener ==
    /\ pools_mutex_free /\ is_running
    /\ is_running' = FALSE /\ stopping' = TRUE
    /\ UNCHANGED <<new_data, writer_pools_changed, listener, list_vars, pool_vars,
                   read_vars, walk_vars>>

stop_notifies ==
    /\ stopping /\ listener # "ended" /\ ~new_data
    /\ Notify
    /\ UNCHANGED <<is_running, writer_pools_changed, stopping, list_vars, pool_vars,
                   read_vars, walk_vars>>

stop_joins ==
    /\ stopping /\ listener = "ended"
    /\ stopping' = FALSE /\ listener' = "none"
    /\ UNCHANGED <<is_running, new_data, writer_pools_changed, list_vars, pool_vars,
                   read_vars, walk_vars>>

\* init_shared_memory succeeds; a volatile reader starts at the end of the
\* pool, another at its beginning.
add_datasharing_writer(w) ==
    /\ pools_mutex_free /\ ~matching
    /\ w \notin ToSet(writer_pools)
    /\ writer_pools' = Append(writer_pools, w)
    /\ writer_pools_changed' = TRUE
    /\ \E from \in {0, produced[w]} :
         /\ last_read' = [last_read EXCEPT ![w] = from]
         /\ accounted' = [accounted EXCEPT ![w] = 1..from]
    /\ matching' = TRUE
    /\ UNCHANGED <<is_running, new_data, listener, stopping, pool_vars, walk_vars>>

remove_datasharing_writer(w) ==
    /\ pools_mutex_free /\ w \in ToSet(writer_pools)
    /\ writer_pools' = RemoveFirst(writer_pools, w)
    /\ writer_pools_changed' = TRUE
    /\ UNCHANGED <<is_running, new_data, listener, stopping, matching, pool_vars,
                   read_vars, walk_vars>>

-----------------------------------------------------------------------------
(* run() and process_new_data *)

\* Leaving process_new_data, at its end or when the list has changed.
Leave ==
    /\ worker' = "none" /\ it' = 0 /\ phase' = "locked" /\ UNCHANGED pool
    /\ listener' = IF worker # "listener" THEN listener
                   ELSE IF is_running /\ (new_data \/ writer_pools_changed)
                        THEN "process" ELSE "top"

\* Under the mutex: take the pool of the iterator and release the mutex.
TakePool(i) ==
    /\ it' = i /\ pool' = writer_pools[i] /\ phase' = "read"
    /\ UNCHANGED <<listener>>

run_top ==
    /\ listener = "top"
    /\ listener' = IF ~is_running THEN "ended" ELSE IF new_data THEN "process" ELSE "asleep"
    /\ UNCHANGED <<is_running, new_data, writer_pools_changed, stopping, list_vars,
                   pool_vars, read_vars, walk_vars>>

\* Both flags are cleared before any pool is looked at.
Clears(who) ==
    /\ worker = "none" /\ worker' = who
    /\ new_data' = FALSE /\ writer_pools_changed' = FALSE
    /\ it' = 0 /\ phase' = "locked"
    /\ UNCHANGED <<is_running, listener, stopping, writer_pools, pool_vars, read_vars, pool>>

process_new_data ==
    /\ listener = "process" /\ Clears("listener") /\ UNCHANGED matching

notify_same_thread ==
    /\ matching /\ Clears("matcher") /\ matching' = FALSE

next_pool ==
    /\ worker # "none" /\ phase = "locked"
    /\ IF it < Len(writer_pools) THEN TakePool(it + 1) /\ UNCHANGED worker ELSE Leave
    /\ UNCHANGED <<is_running, new_data, writer_pools_changed, stopping, list_vars,
                   pool_vars, read_vars>>

\* get_next_unread_payload: the oldest payload still in the pool.
Unread == last_read[pool] < produced[pool]
NextUnread == LET oldest == produced[pool] - HistorySize + 1
              IN IF oldest > last_read[pool] + 1 THEN oldest ELSE last_read[pool] + 1

\* processGapMsg for what was overwritten, then processDataMsg, which may
\* refuse the payload and leave it for the next turn of the loop.
processGapMsg(from, sn) == from..(sn - 1)

read_payload ==
    /\ worker # "none" /\ phase = "read"
    /\ Unread
    /\ LET sn == NextUnread
           told == accounted[pool] \cup processGapMsg(last_read[pool] + 1, sn)
       IN \/ /\ accounted' = [accounted EXCEPT ![pool] = told \cup {sn}]
             /\ last_read' = [last_read EXCEPT ![pool] = sn]
          \/ /\ accounted' = [accounted EXCEPT ![pool] = told]
             /\ UNCHANGED last_read
    /\ phase' = IF writer_pools_changed THEN "relock" ELSE "read"
    /\ UNCHANGED <<is_running, new_data, writer_pools_changed, listener, stopping,
                   list_vars, pool_vars, worker, it, pool>>

no_more_payload ==
    /\ worker # "none" /\ phase = "read" /\ ~Unread
    /\ phase' = "relock"
    /\ UNCHANGED <<is_running, new_data, writer_pools_changed, listener, stopping,
                   list_vars, pool_vars, read_vars, worker, it, pool>>

\* Faulty variant: the walk goes on without looking at the flag.
relock_blind ==
    /\ worker # "none" /\ phase = "relock" /\ phase' = "locked"
    /\ UNCHANGED <<is_running, new_data, writer_pools_changed, stopping, list_vars,
                   pool_vars, read_vars, worker, it, pool, listener>>

\* The mutex is taken again: the iterator is used only if nothing changed.
relock ==
    /\ worker # "none" /\ phase = "relock"
    /\ IF writer_pools_changed THEN Leave
       ELSE phase' = "locked" /\ UNCHANGED <<worker, it, pool, listener>>
    /\ UNCHANGED <<is_running, new_data, writer_pools_changed, stopping, list_vars,
                   pool_vars, read_vars>>

DataSharingNext ==
    \/ \E w \in DsWriter : write_payload(w) \/ notify_new_data(w) \/ add_datasharing_writer(w)
                           \/ remove_datasharing_writer(w)
    \/ start \/ stop_listener \/ stop_notifies \/ stop_joins
    \/ run_top \/ process_new_data \/ notify_same_thread \/ next_pool \/ read_payload
    \/ no_more_payload \/ relock

-----------------------------------------------------------------------------
(* Properties *)

DataSharingTypeOK ==
    /\ {is_running, new_data, writer_pools_changed, stopping, matching} \subseteq BOOLEAN
    /\ listener \in {"none", "top", "asleep", "process", "ended"}
    /\ writer_pools \in Seq(DsWriter) /\ unannounced \subseteq DsWriter
    /\ produced \in [DsWriter -> 0..MaxPayload] /\ last_read \in [DsWriter -> 0..MaxPayload]
    /\ worker \in {"none", "listener", "matcher"} /\ it \in Nat /\ pool \in DsWriter
    /\ phase \in {"locked", "read", "relock"}

\* While the listener sleeps, nobody is about to notify it and no change of
\* the list is unseen, every payload of every matched writer has been taken
\* (a change that breaks off the process_new_data of a matching thread is the
\* exception: nothing makes the listener resume that walk); the iterator is never used after
\* the list has changed; the reader has got, or has been told the loss of,
\* every payload up to the last one taken; and a listener that was told to
\* stop does not sleep on.
DataSharingSound ==
    /\ (listener = "asleep" /\ ~new_data /\ ~matching /\ worker = "none"
        /\ ~writer_pools_changed) =>
         \A w \in ToSet(writer_pools) : last_read[w] < produced[w] => w \in unannounced
    /\ (worker # "none" /\ it > 0 /\ phase = "locked") =>
         it <= Len(writer_pools) /\ writer_pools[it] = pool
    /\ \A w \in ToSet(writer_pools) : 1..last_read[w] \subseteq accounted[w]
    /\ (stopping /\ listener = "asleep") => ~new_data
=============================================================================
