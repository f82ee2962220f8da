--------------------------- MODULE MiddlewareProofs ---------------------------
(***************************************************************************)
(* The threads above the kernel: the reception threads, the watchdog, the  *)
(* data sharing listener and the timed events of Fast-DDS, the pendulum    *)
(* demo and the chains of the evaluation nodes, for every number of        *)
(* channels, tasks, writers, timers, nodes and messages.                   *)
(***************************************************************************)
EXTENDS MCComponents, SequenceTheorems, WellFoundedInduction, TLAPS

------------------------------------------------------------------------------
(* Reception threads and watchdog *)

ListenAt == {"top", "receive", "blocked", "check", "deliver", "reset", "ended"}

(* A buffer is held from the receive to its release only, and between the   *)
(* rounds of the watchdog no task is left to run.                           *)
ReceptionInv ==
    /\ alive \in [Channel -> BOOLEAN] /\ released \in [Channel -> BOOLEAN]
    /\ receiver \in [Channel -> BOOLEAN] /\ joined \in [Channel -> BOOLEAN]
    /\ buffer \in [Channel -> BOOLEAN] /\ listen \in [Channel -> ListenAt]
    /\ \A c \in Channel :
         /\ listen[c] = "deliver" => receiver[c]
         /\ released[c] => listen[c] # "blocked"
         /\ listen[c] \in {"top", "receive", "blocked", "ended"} => ~buffer[c]
    /\ to_run \subseteq tasks
    /\ watchdog # "run" => to_run = {}

LEMMA ReceptionStart == ReceptionInit => ReceptionInv
BY DEF ReceptionInit, ReceptionInv, ListenAt

LEMMA ReceptionStep ==
    ASSUME ReceptionInv, [ReceptionNext]_reception_vars
    PROVE  ReceptionInv'
<1> USE DEF ReceptionInv
<1>1. ASSUME NEW c \in Channel, message_arrives(c) PROVE ReceptionInv'
  BY <1>1 DEF message_arrives, watchdog_vars, ListenAt
<1>2. ASSUME NEW c \in Channel, listen_top(c) PROVE ReceptionInv'
  BY <1>2 DEF listen_top, watchdog_vars, ListenAt
<1>3. ASSUME NEW c \in Channel, receive(c) PROVE ReceptionInv'
  BY <1>3 DEF receive, watchdog_vars, ListenAt
<1>4. ASSUME NEW c \in Channel, check_receiver(c) PROVE ReceptionInv'
  BY <1>4 DEF check_receiver, watchdog_vars, ListenAt
<1>5. ASSUME NEW c \in Channel, OnDataReceived(c) PROVE ReceptionInv'
  BY <1>5 DEF OnDataReceived, watchdog_vars, ListenAt
<1>6. ASSUME NEW c \in Channel, stop_processing_buffer(c) PROVE ReceptionInv'
  BY <1>6 DEF stop_processing_buffer, watchdog_vars, ListenAt
<1>7. ASSUME NEW c \in Channel, disable(c) PROVE ReceptionInv'
  BY <1>7 DEF disable, watchdog_vars
<1>8. ASSUME NEW c \in Channel, release(c) PROVE ReceptionInv'
  BY <1>8 DEF release, watchdog_vars, ListenAt
<1>9. ASSUME NEW c \in Channel, destroy(c) PROVE ReceptionInv'
  BY <1>9 DEF destroy, watchdog_vars
<1>10. ASSUME NEW t \in Task, add_task(t) \/ remove_task(t) PROVE ReceptionInv'
  BY <1>10 DEF add_task, remove_task, tasks_free, channel_vars
<1>11. ASSUME watchdog_exit \/ wake_up \/ watchdog_top \/ watchdog_round \/ run_task PROVE ReceptionInv'
  BY <1>11 DEF watchdog_exit, wake_up, watchdog_top, watchdog_round, run_task, channel_vars
<1>12. CASE UNCHANGED reception_vars
  BY <1>12 DEF reception_vars
<1> QED
  BY <1>1, <1>2, <1>3, <1>4, <1>5, <1>6, <1>7, <1>8, <1>9, <1>10, <1>11, <1>12 DEF ReceptionNext

LEMMA ReceptionTurn ==
    ASSUME [ComponentsNext]_components_vars, part' = "reception"
    PROVE  part = "reception" /\ [ReceptionNext]_reception_vars
BY DEF ComponentsNext, components_vars, Turn

(* UDPChannelResource, SharedMemChannelResource and SharedMemWatchdog: for  *)
(* any number of channels that are closed while messages arrive, a message  *)
(* goes to a receiver that is attached, the join of a released channel is   *)
(* not held up by its receive, and no task runs after its removal.          *)
THEOREM ReceiversSafe == ComponentsSpec => []Receivers
<1> DEFINE I == part = "reception" => ReceptionInv
<1>1. ComponentsInit => I
  BY ReceptionStart DEF ComponentsInit
<1>2. I /\ [ComponentsNext]_components_vars => I'
  BY ReceptionTurn, ReceptionStep
<1>3. I => Receivers
  BY DEF Receivers, While, ReceptionInv, ReceptionSound
<1> QED BY <1>1, <1>2, <1>3, PTL DEF ComponentsSpec

------------------------------------------------------------------------------
(* The data sharing listener *)

LEMMA Least ==
    ASSUME NEW S \in SUBSET Nat, S # {}
    PROVE  Min(S) \in S /\ \A y \in S : Min(S) <= y
<1>1. PICK x \in S : \A y \in S : ~ (<<y, x>> \in OpToRel(<, Nat))
  BY NatLessThanWellFounded, WFMin
<1>2. ASSUME NEW y \in S PROVE x <= y
  <2>1. x \in Nat /\ y \in Nat
    BY <1>1
  <2>2. ~ (y < x)
    BY <1>1, <2>1 DEF OpToRel
  <2> QED BY <2>1, <2>2
<1> QED BY <1>2 DEF Min

LEMMA RemoveAtType ==
    ASSUME NEW S, NEW s \in Seq(S), NEW i \in 1 .. Len(s)
    PROVE  RemoveAt(s, i) \in Seq(S)
<1>1. SubSeq(s, 1, i - 1) \in Seq(S)
  <2>1. \A j \in 1 .. i - 1 : s[j] \in S
    BY ElementOfSeq, LenProperties
  <2> QED BY <2>1, SubSeqProperties, LenProperties
<1>2. SubSeq(s, i + 1, Len(s)) \in Seq(S)
  BY SubSeqProperties, LenProperties, ElementOfSeq
<1> QED BY <1>1, <1>2, ConcatProperties DEF RemoveAt

LEMMA RemoveFirstType ==
    ASSUME NEW S, NEW s \in Seq(S), NEW e
    PROVE  RemoveFirst(s, e) \in Seq(S)
<1>1. CASE \E i \in 1 .. Len(s) : s[i] = e
  <2> DEFINE I == {i \in 1 .. Len(s) : s[i] = e}
  <2>1. I \in SUBSET Nat /\ I # {}
    BY <1>1, LenProperties
  <2>2. Min(I) \in I
    BY <2>1, Least
  <2>3. RemoveFirst(s, e) = RemoveAt(s, Min(I))
    BY <1>1, <2>1 DEF RemoveFirst, SelectInSeq
  <2> QED BY <2>2, <2>3, RemoveAtType
<1>2. CASE ~ \E i \in 1 .. Len(s) : s[i] = e
  BY <1>2 DEF RemoveFirst
<1> QED BY <1>1, <1>2

DsTypes ==
    /\ writer_pools \in Seq(DsWriter)
    /\ produced \in [DsWriter -> Nat] /\ last_read \in [DsWriter -> Nat]
    /\ accounted \in [DsWriter -> SUBSET Nat]
    /\ {new_data, writer_pools_changed, matching} \subseteq BOOLEAN
    /\ worker \in {"none", "listener", "matcher"} /\ it \in Nat
    /\ phase \in {"locked", "read", "relock"}

(* The walk: its iterator stands on its pool until the list changes, which  *)
(* it does only while the mutex is released.                                *)
DsWalk ==
    /\ worker = "none" => phase = "locked"
    /\ phase # "locked" => it > 0 /\ pool \in DsWriter
    /\ worker # "none" /\ phase = "locked" => ~writer_pools_changed
    /\ worker # "none" /\ it > 0 /\ ~writer_pools_changed => it <= Len(writer_pools) /\ writer_pools[it] = pool

(* Payloads that were announced and not taken. *)
Missed(w) == last_read[w] < produced[w] /\ w \notin unannounced

(* Nobody forgets them: a flag tells of them, a matching thread is about to *)
(* look, or the walk that is going on still comes to them or is there.      *)
DsNoticed ==
    \A i \in 1 .. Len(writer_pools) : Missed(writer_pools[i]) =>
        \/ new_data \/ writer_pools_changed \/ matching
        \/ worker # "none" /\ (i > it \/ (phase = "read" /\ pool = writer_pools[i]))

DsAccounted == \A w \in DsWriter : 1 .. last_read[w] \subseteq accounted[w]

DsInv == DsTypes /\ DsWalk /\ DsNoticed /\ DsAccounted /\ (listener = "asleep" => ~new_data)

LEMMA DsStart == DataSharingInit => DsInv
<1> SUFFICES ASSUME DataSharingInit PROVE DsInv
  OBVIOUS
<1>1. writer_pools = << >> /\ Len(writer_pools) = 0 /\ writer_pools \in Seq(DsWriter)
  BY DEF DataSharingInit
<1>2. DsTypes
  BY <1>1 DEF DataSharingInit, DsTypes
<1>3. DsNoticed
  BY <1>1 DEF DsNoticed
<1>4. DsAccounted
  BY DEF DataSharingInit, DsAccounted
<1> QED BY <1>2, <1>3, <1>4 DEF DataSharingInit, DsInv, DsWalk

LEMMA DsStep ==
    ASSUME DsInv, [DataSharingNext]_datasharing_vars
    PROVE  DsInv'
<1> USE DEF list_vars, pool_vars, read_vars, walk_vars
<1>1. ASSUME NEW w \in DsWriter, write_payload(w) PROVE DsInv'
  <2>1. /\ produced' = [produced EXCEPT ![w] = @ + 1] /\ unannounced' = unannounced \cup {w}
        /\ UNCHANGED <<is_running, new_data, writer_pools_changed, listener, stopping,
                       list_vars, read_vars, walk_vars>>
    BY <1>1 DEF write_payload
  <2>2. DsTypes'
    BY <2>1 DEF DsInv, DsTypes
  <2>3. DsNoticed'
    <3>1. \A v \in DsWriter : Missed(v)' => Missed(v)
      BY <2>1 DEF DsInv, DsTypes, Missed
    <3>2. \A i \in 1 .. Len(writer_pools) : writer_pools[i] \in DsWriter
      BY DEF DsInv, DsTypes
    <3> QED BY <2>1, <3>1, <3>2 DEF DsInv, DsNoticed, Missed
  <2> QED BY <2>1, <2>2, <2>3 DEF DsInv, DsWalk, DsAccounted
<1>2. ASSUME NEW w \in DsWriter, notify_new_data(w) PROVE DsInv'
  <2>1. /\ new_data' = TRUE /\ listener' = IF listener = "asleep" THEN "top" ELSE listener
        /\ UNCHANGED <<writer_pools_changed, produced, list_vars, read_vars, walk_vars>>
    BY <1>2 DEF notify_new_data, Notify
  <2> QED BY <2>1 DEF DsInv, DsTypes, DsWalk, DsNoticed, DsAccounted
<1>3. ASSUME NEW w \in DsWriter, add_datasharing_writer(w) PROVE DsInv'
  <2>1. /\ worker = "none" \/ phase = "read"
        /\ writer_pools' = Append(writer_pools, w) /\ writer_pools_changed' = TRUE /\ matching' = TRUE
        /\ UNCHANGED <<is_running, new_data, listener, stopping, pool_vars, walk_vars>>
    BY <1>3 DEF add_datasharing_writer, pools_mutex_free
  <2>2. PICK from \in {0, produced[w]} : /\ last_read' = [last_read EXCEPT ![w] = from]
                                         /\ accounted' = [accounted EXCEPT ![w] = 1..from]
    BY <1>3 DEF add_datasharing_writer
  <2>3. from \in Nat
    BY DEF DsInv, DsTypes
  <2>4. DsTypes'
    BY <2>1, <2>2, <2>3 DEF DsInv, DsTypes
  <2>5. DsWalk'
    BY <2>1 DEF DsInv, DsTypes, DsWalk
  <2>6. DsNoticed'
    BY <2>1 DEF DsNoticed
  <2>7. DsAccounted'
    BY <2>2, <2>3 DEF DsInv, DsTypes, DsAccounted
  <2> QED BY <2>1, <2>4, <2>5, <2>6, <2>7 DEF DsInv
<1>4. ASSUME NEW w \in DsWriter, remove_datasharing_writer(w) PROVE DsInv'
  <2>1. /\ worker = "none" \/ phase = "read"
        /\ writer_pools' = RemoveFirst(writer_pools, w) /\ writer_pools_changed' = TRUE
        /\ UNCHANGED <<is_running, new_data, listener, stopping, matching, pool_vars, read_vars, walk_vars>>
    BY <1>4 DEF remove_datasharing_writer, pools_mutex_free
  <2>2. writer_pools' \in Seq(DsWriter)
    BY <2>1, RemoveFirstType DEF DsInv, DsTypes
  <2>3. DsTypes'
    BY <2>1, <2>2 DEF DsInv, DsTypes
  <2>4. DsWalk'
    BY <2>1 DEF DsInv, DsTypes, DsWalk
  <2> QED BY <2>1, <2>3, <2>4 DEF DsInv, DsNoticed, DsAccounted
<1>5. ASSUME start \/ stop_listener \/ stop_joins \/ run_top PROVE DsInv'
  <2>1. /\ UNCHANGED <<new_data, writer_pools_changed, list_vars, pool_vars, read_vars, walk_vars>>
        /\ listener' = "asleep" => listener = "asleep" \/ ~new_data
    BY <1>5 DEF start, stop_listener, stop_joins, run_top
  <2> QED BY <2>1 DEF DsInv, DsTypes, DsWalk, DsNoticed, DsAccounted, Missed
<1>6. ASSUME stop_notifies PROVE DsInv'
  <2>1. /\ new_data' = TRUE /\ listener' = IF listener = "asleep" THEN "top" ELSE listener
        /\ UNCHANGED <<writer_pools_changed, list_vars, pool_vars, read_vars, walk_vars>>
    BY <1>6 DEF stop_notifies, Notify
  <2> QED BY <2>1 DEF DsInv, DsTypes, DsWalk, DsNoticed, DsAccounted
<1>7. ASSUME process_new_data \/ notify_same_thread PROVE DsInv'
  <2>1. /\ worker' \in {"listener", "matcher"} /\ new_data' = FALSE /\ writer_pools_changed' = FALSE
        /\ it' = 0 /\ phase' = "locked" /\ matching' \in {matching, FALSE}
        /\ UNCHANGED <<is_running, listener, stopping, writer_pools, pool_vars, read_vars, pool>>
    BY <1>7 DEF process_new_data, notify_same_thread, Clears
  <2>2. DsTypes'
    BY <2>1 DEF DsInv, DsTypes
  <2>3. DsNoticed'
    BY <2>1 DEF DsInv, DsTypes, DsNoticed
  <2> QED BY <2>1, <2>2, <2>3 DEF DsInv, DsWalk, DsAccounted
<1>8. ASSUME next_pool PROVE DsInv'
  <2>1. /\ worker # "none" /\ phase = "locked"
        /\ UNCHANGED <<new_data, writer_pools_changed, list_vars, pool_vars, read_vars>>
    BY <1>8 DEF next_pool
  <2>2. CASE it < Len(writer_pools)
    <3>1. /\ it' = it + 1 /\ pool' = writer_pools[it + 1] /\ phase' = "read"
          /\ listener' = listener /\ worker' = worker
      BY <1>8, <2>2 DEF next_pool, TakePool
    <3>2. it + 1 \in 1 .. Len(writer_pools) /\ writer_pools[it + 1] \in DsWriter
      BY <2>2, LenProperties DEF DsInv, DsTypes
    <3>3. DsTypes' /\ DsWalk'
      BY <2>1, <3>1, <3>2 DEF DsInv, DsTypes, DsWalk
    <3>4. DsNoticed'
      BY <2>1, <3>1, <3>2, LenProperties DEF DsInv, DsTypes, DsNoticed, Missed
    <3> QED BY <2>1, <3>1, <3>3, <3>4 DEF DsInv, DsAccounted
  <2>3. CASE ~ (it < Len(writer_pools))
    <3>1. /\ worker' = "none" /\ it' = 0 /\ phase' = "locked" /\ pool' = pool
          /\ listener' = "asleep" => listener = "asleep"
      BY <1>8, <2>3 DEF next_pool, Leave
    <3>2. DsTypes' /\ DsWalk'
      BY <2>1, <3>1 DEF DsInv, DsTypes, DsWalk
    <3>3. DsNoticed'
      BY <2>1, <2>3, <3>1, LenProperties DEF DsInv, DsTypes, DsNoticed, Missed
    <3> QED BY <2>1, <3>1, <3>2, <3>3 DEF DsInv, DsAccounted
  <2> QED BY <2>2, <2>3
<1>9. ASSUME read_payload PROVE DsInv'
  <2> DEFINE sn == NextUnread
             told == accounted[pool] \cup ((last_read[pool] + 1) .. (sn - 1))
  <2>1. /\ worker # "none" /\ phase = "read"
        /\ \/ /\ accounted' = [accounted EXCEPT ![pool] = told \cup {sn}]
              /\ last_read' = [last_read EXCEPT ![pool] = sn]
           \/ accounted' = [accounted EXCEPT ![pool] = told] /\ last_read' = last_read
        /\ phase' = IF writer_pools_changed THEN "relock" ELSE "read"
        /\ UNCHANGED <<is_running, new_data, writer_pools_changed, listener, stopping,
                       list_vars, pool_vars, worker, it, pool>>
    BY <1>9 DEF read_payload, processGapMsg
  <2>2. pool \in DsWriter /\ last_read[pool] \in Nat /\ produced[pool] \in Nat
    BY <2>1 DEF DsInv, DsTypes, DsWalk
  <2>3. sn \in Nat /\ sn > last_read[pool]
    BY <2>2, DataSharingAssumption DEF NextUnread
  <2> HIDE DEF sn
  <2>4. told \in SUBSET Nat
    BY <2>2, <2>3 DEF DsInv, DsTypes
  <2>5. DsTypes'
    BY <2>1, <2>2, <2>3, <2>4 DEF DsInv, DsTypes
  <2>6. DsWalk'
    BY <2>1 DEF DsInv, DsTypes, DsWalk
  <2>7. DsAccounted'
    <3>1. 1 .. sn \subseteq (1 .. last_read[pool]) \cup ((last_read[pool] + 1) .. (sn - 1)) \cup {sn}
      BY <2>2, <2>3
    <3>2. 1 .. last_read[pool] \subseteq accounted[pool]
      BY <2>2 DEF DsInv, DsAccounted
    <3> QED BY <2>1, <2>2, <3>1, <3>2 DEF DsInv, DsTypes, DsAccounted
  <2>8. DsNoticed'
    <3>1. \A v \in DsWriter : v # pool => last_read'[v] = last_read[v]
      BY <2>1 DEF DsInv, DsTypes
    <3>2. \A i \in 1 .. Len(writer_pools) : writer_pools[i] \in DsWriter
      BY DEF DsInv, DsTypes
    <3> QED BY <2>1, <3>1, <3>2 DEF DsInv, DsNoticed, Missed
  <2> QED BY <2>1, <2>5, <2>6, <2>7, <2>8 DEF DsInv
<1>10. ASSUME no_more_payload PROVE DsInv'
  <2>1. /\ worker # "none" /\ phase = "read" /\ ~ (last_read[pool] < produced[pool]) /\ phase' = "relock"
        /\ UNCHANGED <<is_running, new_data, writer_pools_changed, listener, stopping,
                       list_vars, pool_vars, read_vars, worker, it, pool>>
    BY <1>10 DEF no_more_payload, Unread
  <2>2. DsNoticed'
    BY <2>1 DEF DsInv, DsNoticed, Missed
  <2> QED BY <2>1, <2>2 DEF DsInv, DsTypes, DsWalk, DsAccounted
<1>11. ASSUME relock PROVE DsInv'
  <2>1. /\ worker # "none" /\ phase = "relock"
        /\ UNCHANGED <<is_running, new_data, writer_pools_changed, stopping, list_vars, pool_vars, read_vars>>
    BY <1>11 DEF relock
  <2>2. CASE writer_pools_changed
    <3>1. /\ worker' = "none" /\ it' = 0 /\ phase' = "locked" /\ pool' = pool
          /\ listener' = "asleep" => listener = "asleep"
      BY <1>11, <2>2 DEF relock, Leave
    <3> QED BY <2>1, <2>2, <3>1 DEF DsInv, DsTypes, DsWalk, DsNoticed, DsAccounted
  <2>3. CASE ~writer_pools_changed
    <3>1. phase' = "locked" /\ UNCHANGED <<worker, it, pool, listener>>
      BY <1>11, <2>3 DEF relock
    <3>2. DsNoticed'
      BY <2>1, <2>3, <3>1 DEF DsInv, DsNoticed, Missed
    <3> QED BY <2>1, <2>3, <3>1, <3>2 DEF DsInv, DsTypes, DsWalk, DsAccounted
  <2> QED BY <2>2, <2>3
<1>12. CASE UNCHANGED datasharing_vars
  BY <1>12 DEF datasharing_vars, DsInv, DsTypes, DsWalk, DsNoticed, DsAccounted, Missed
<1> QED
  BY <1>1, <1>2, <1>3, <1>4, <1>5, <1>6, <1>7, <1>8, <1>9, <1>10, <1>11, <1>12 DEF DataSharingNext

LEMMA DsTurn ==
    ASSUME [ComponentsNext]_components_vars, part' = "datasharing"
    PROVE  part = "datasharing" /\ [DataSharingNext]_datasharing_vars
BY DEF ComponentsNext, components_vars, Turn

(* DataSharingListener: with any number of writers that write, match and    *)
(* unmatch at any time, a listener that sleeps has taken every payload that *)
(* was announced, the iterator is not used after the list of pools changed, *)
(* and each payload passed over was read or reported lost.                  *)
THEOREM SharedDataTaken == ComponentsSpec => []SharedData
<1> DEFINE I == part = "datasharing" => DsInv
<1>1. ComponentsInit => I
  BY DsStart DEF ComponentsInit
<1>2. I /\ [ComponentsNext]_components_vars => I'
  BY DsTurn, DsStep
<1>3. I => SharedData
  <2> SUFFICES ASSUME DsInv PROVE DataSharingSound
    BY DEF SharedData, While
  <2>1. \A w \in ToSet(writer_pools) : \E i \in 1 .. Len(writer_pools) : writer_pools[i] = w /\ w \in DsWriter
    BY LenProperties, ElementOfSeq DEF DsInv, DsTypes, ToSet
  <2>2. (listener = "asleep" /\ ~new_data /\ ~matching /\ worker = "none" /\ ~writer_pools_changed) =>
           \A w \in ToSet(writer_pools) : last_read[w] < produced[w] => w \in unannounced
    BY <2>1 DEF DsInv, DsNoticed, Missed
  <2>3. (worker # "none" /\ it > 0 /\ phase = "locked") => it <= Len(writer_pools) /\ writer_pools[it] = pool
    BY DEF DsInv, DsWalk
  <2>4. \A w \in ToSet(writer_pools) : 1..last_read[w] \subseteq accounted[w]
    BY <2>1 DEF DsInv, DsAccounted
  <2> QED BY <2>2, <2>3, <2>4 DEF DsInv, DataSharingSound
<1> QED BY <1>1, <1>2, <1>3, PTL DEF ComponentsSpec

------------------------------------------------------------------------------
(* The pendulum demo *)

(* The position is out of the limits only between the physics thread's      *)
(* integration and its limit: a command is limited before it is sent.       *)
PendulumInv ==
    /\ position \in Int /\ (physics # "clamp" => position \in Angle)
    /\ physics = "clamp" => position \in Raw
    /\ sensor_message \in Angle
    /\ controller = "up" => command_message \in Angle
    /\ sensor_topic \in Angle \cup {None} /\ command_topic \in Angle \cup {None}
    /\ (controller = "up" /\ statistics_topic # << >>) =>
         statistics_topic[1] \in Angle /\ statistics_topic[2] \in Angle

LEMMA Limits ==
    /\ \A x \in Raw : limit(x) \in Angle
    /\ \A x \in Angle : limit(x) = x /\ x \in Raw /\ x \in Int
    /\ limit(NaN) = NaN /\ NaN \notin Angle /\ None \notin Angle
    /\ 0 \in Angle /\ 1 \in Angle
    /\ \A x \in Raw : x \in Int
BY PendulumAssumption DEF limit, Raw, Angle, NaN, None

LEMMA PendulumStart == PendulumInit => PendulumInv
BY Limits DEF PendulumInit, PendulumInv

LEMMA PendulumStep ==
    ASSUME PendulumInv, [PendulumNext]_pendulum_vars
    PROVE  PendulumInv'
<1> USE DEF PendulumInv, motor_vars, controller_vars, executor_vars
<1>1. CASE physics_integrate
  BY <1>1, Limits DEF physics_integrate
<1>2. CASE physics_limit
  BY <1>2, Limits DEF physics_limit
<1>3. CASE physics_publish
  BY <1>3, Limits DEF physics_publish
<1>4. CASE motor_publish_callback
  BY <1>4 DEF motor_publish_callback
<1>5. CASE on_command_message
  BY <1>5, Limits DEF on_command_message
<1>6. CASE command_limit
  BY <1>6, Limits DEF command_limit
<1>7. CASE on_sensor_message
  <2>1. PICK x \in Commands(sensor_topic) :
           /\ command_message' = limit(x)
           /\ command_message' = NaN => controller' = "dead"
    BY <1>7 DEF on_sensor_message, command_of
  <2>2. limit(x) \in Angle \/ limit(x) = NaN
    BY Limits DEF Commands
  <2>3. /\ controller = "up" /\ sensor_topic' = None
        /\ UNCHANGED <<motor_vars, command_topic, executor_vars>>
    BY <1>7 DEF on_sensor_message
  <2> QED BY <2>1, <2>2, <2>3
<1>8. CASE on_pendulum_setpoint \/ teleop_publish \/ loop_callback \/ spin_ends
  BY <1>8 DEF on_pendulum_setpoint, teleop_publish, loop_callback, spin_ends
<1>9. CASE controller_publish_callback \/ message_lost
  BY <1>9 DEF controller_publish_callback, message_lost
<1>10. CASE logger_publish_callback
  <2>1. /\ statistics_topic' = <<command_message, sensor_message>>
        /\ UNCHANGED <<motor_vars, controller_vars, sensor_topic, command_topic>>
    BY <1>10 DEF logger_publish_callback
  <2>2. statistics_topic'[1] = command_message /\ statistics_topic'[2] = sensor_message
    BY <2>1
  <2> QED BY <2>1, <2>2
<1>11. CASE UNCHANGED pendulum_vars
  BY <1>11 DEF pendulum_vars
<1> QED
  BY <1>1, <1>2, <1>3, <1>4, <1>5, <1>6, <1>7, <1>8, <1>9, <1>10, <1>11 DEF PendulumNext

------------------------------------------------------------------------------
(* The chains of nodes: how they are wired *)

(* The node that passes messages on to a topic. *)
PublisherOf(topic) ==
    CASE topic = "topic_lidar" -> "talker_lidar" [] topic = "topic_camera1" -> "talker_camera1"
      [] topic = "topic_camera2" -> "talker_camera2" [] topic = "topic_TF" -> "talker_TF"
      [] topic = "topic_goal" -> "talker_goal" [] topic = "topic_pos" -> "local"
      [] topic = "topic_local_costmap" -> "local_pos" [] topic = "topic_joint" -> "TF"
      [] topic = "topic_URDF" -> "TF_joint" [] topic = "topic_processing" -> "camera1"
      [] topic = "topic_detection" -> "camera1_processing" [] topic = "topic_estimation" -> "camera2"
      [] topic = "chatter" -> "talker" [] topic = "random_topic" -> "uunifast" [] OTHER -> "nobody"

LEMMA Wired ==
    ASSUME NEW w \in Wires
    PROVE  /\ w.gives # "None" => w.node = PublisherOf(w.gives)
           /\ w.takes # "None" /\ w.takes # w.gives
<1>1. CASE w \in Lidar
  BY <1>1 DEF Lidar, Wire, PublisherOf
<1>2. CASE w \in local \cup global \cup goal
  BY <1>2 DEF local, global, goal, Wire, PublisherOf
<1>3. CASE w \in TF_path
  BY <1>3 DEF TF_path, Wire, PublisherOf
<1>4. CASE w \in camera1_path \cup camera2_path
  BY <1>4 DEF camera1_path, camera2_path, Wire, PublisherOf
<1>5. CASE w \in motivation_talker \cup motivation_listener \cup uunifast \cup msg_uunifast
  BY <1>5 DEF motivation_talker, motivation_listener, uunifast, msg_uunifast, Wire, PublisherOf
<1> QED BY <1>1, <1>2, <1>3, <1>4, <1>5 DEF Wires

(* A node has one source at most, and is not its own. *)
LEMMA OneSource ==
    ASSUME NEW p \in Node, NEW n \in Chained, n \in Subscribers(p)
    PROVE  /\ p = PublisherOf(subscribes(n)) /\ p # n /\ publishes(p) # "None"
<1>1. \A m \in Node : WireOf(m) \in Wires /\ WireOf(m).node = m
  BY NodeChainsAssumption DEF WireOf
<1>2. n \in Node /\ subscribes(n) = publishes(p)
  BY DEF Subscribers, Chained
<1> QED BY <1>1, <1>2, Wired DEF subscribes, publishes

------------------------------------------------------------------------------
(* The line of messages a node has before it: the one it started, the ones  *)
(* its subscription holds and the ones on their way.                        *)

Line(a, h, t) == <<a>> \o h \o t
Waiting(n) == Line(started[n], history[n], transit[n])
Increasing(s) == \A i, j \in 1 .. Len(s) : i < j => s[i] < s[j]

(* What a line K of a, h and t looks like. *)
IsLine(K, a, h, t) ==
    /\ K \in Seq(Nat) /\ Len(h) \in Nat /\ Len(t) \in Nat /\ Len(K) = 1 + Len(h) + Len(t)
    /\ \A i \in 1 .. 1 + Len(h) + Len(t) : K[i] =
          IF i = 1 THEN a ELSE IF i <= 1 + Len(h) THEN h[i - 1] ELSE t[i - 1 - Len(h)]

LEMMA LineIs ==
    ASSUME NEW a \in Nat, NEW h \in Seq(Nat), NEW t \in Seq(Nat)
    PROVE  IsLine(Line(a, h, t), a, h, t)
<1> DEFINE b == <<a>> \o h
<1>1. <<a>> \in Seq(Nat) /\ Len(<<a>>) = 1 /\ <<a>>[1] = a
  OBVIOUS
<1>2. /\ b \in Seq(Nat) /\ Len(b) = 1 + Len(h)
      /\ \A i \in 1 .. Len(b) : b[i] = IF i <= 1 THEN <<a>>[i] ELSE h[i - 1]
  BY <1>1, ConcatProperties
<1> HIDE DEF b
<1>3. /\ b \o t \in Seq(Nat) /\ Len(b \o t) = Len(b) + Len(t)
      /\ \A i \in 1 .. Len(b) + Len(t) : (b \o t)[i] = IF i <= Len(b) THEN b[i] ELSE t[i - Len(b)]
  BY <1>2, ConcatProperties
<1>4. Line(a, h, t) = b \o t
  BY DEF Line, b
<1>5. Len(h) \in Nat /\ Len(t) \in Nat
  BY LenProperties
<1> DEFINE K == b \o t
<1>6. K \in Seq(Nat) /\ Len(K) = 1 + Len(h) + Len(t)
  BY <1>2, <1>3, <1>5
<1>7. ASSUME NEW i \in 1 .. 1 + Len(h) + Len(t)
      PROVE  K[i] = IF i = 1 THEN a ELSE IF i <= 1 + Len(h) THEN h[i - 1] ELSE t[i - 1 - Len(h)]
  <2>1. i \in 1 .. Len(b) + Len(t) /\ K[i] = IF i <= Len(b) THEN b[i] ELSE t[i - Len(b)]
    BY <1>2, <1>3, <1>5
  <2>2. CASE i <= Len(b)
    <3>1. i \in 1 .. Len(b) /\ K[i] = b[i]
      BY <1>2, <1>5, <2>1, <2>2
    <3> QED BY <1>1, <1>2, <1>5, <2>2, <3>1
  <2>3. CASE ~ (i <= Len(b))
    BY <1>2, <1>5, <2>1, <2>3
  <2> QED BY <2>2, <2>3
<1> HIDE DEF K
<1>8. IsLine(K, a, h, t)
  BY <1>5, <1>6, <1>7 DEF IsLine
<1> QED BY <1>4, <1>8 DEF K

(* A message is published, *)
LEMMA LineAppend ==
    ASSUME NEW a \in Nat, NEW h \in Seq(Nat), NEW t \in Seq(Nat), NEW m \in Nat,
           Increasing(Line(a, h, t)), \A i \in 1 .. Len(Line(a, h, t)) : Line(a, h, t)[i] < m
    PROVE  LET L == Line(a, h, Append(t, m)) IN
           Increasing(L) /\ \A i \in 1 .. Len(L) : L[i] <= m
<1> DEFINE K == Line(a, h, t)
           u == Append(t, m)
           L == Line(a, h, u)
<1>1. u \in Seq(Nat) /\ Len(u) = Len(t) + 1 /\ (\A i \in 1 .. Len(t) : u[i] = t[i]) /\ u[Len(t) + 1] = m
  BY AppendProperties
<1> HIDE DEF u
<1>2. IsLine(K, a, h, t) /\ IsLine(L, a, h, u)
  BY <1>1, LineIs
<1>3. Increasing(K) /\ \A i \in 1 .. Len(K) : K[i] < m
  OBVIOUS
<1> HIDE DEF K, L
<1>4. /\ Len(L) = Len(K) + 1 /\ Len(K) = 1 + Len(h) + Len(t) /\ Len(h) \in Nat /\ Len(t) \in Nat
      /\ Len(K) \in Nat
  BY <1>1, <1>2 DEF IsLine
<1>5. ASSUME NEW i \in 1 .. Len(K) PROVE L[i] = K[i] /\ K[i] \in Nat
  <2>1. i \in 1 .. 1 + Len(h) + Len(t) /\ i \in 1 .. 1 + Len(h) + Len(u)
    BY <1>1, <1>4
  <2>2. /\ K[i] = IF i = 1 THEN a ELSE IF i <= 1 + Len(h) THEN h[i - 1] ELSE t[i - 1 - Len(h)]
        /\ L[i] = IF i = 1 THEN a ELSE IF i <= 1 + Len(h) THEN h[i - 1] ELSE u[i - 1 - Len(h)]
    BY <1>2, <2>1 DEF IsLine
  <2>3. ~ (i <= 1 + Len(h)) => i - 1 - Len(h) \in 1 .. Len(t)
    BY <1>4, <2>1
  <2>4. K[i] \in Nat
    BY <1>2, ElementOfSeq DEF IsLine
  <2> QED BY <1>1, <2>2, <2>3, <2>4
<1>6. L[Len(K) + 1] = m
  <2> DEFINE i == Len(K) + 1
  <2>1. i \in 1 .. 1 + Len(h) + Len(u) /\ i # 1 /\ ~ (i <= 1 + Len(h)) /\ i - 1 - Len(h) = Len(t) + 1
    BY <1>1, <1>4
  <2> HIDE DEF i
  <2>2. L[i] = u[i - 1 - Len(h)]
    BY <1>2, <2>1 DEF IsLine
  <2> QED BY <1>1, <2>1, <2>2 DEF i
<1>7. /\ \A i \in 1 .. Len(K) : L[i] \in Nat /\ L[i] < m
      /\ \A i, j \in 1 .. Len(K) : i < j => L[i] < L[j]
  BY <1>3, <1>5 DEF Increasing
<1>8. \A i \in 1 .. Len(L) : i \in 1 .. Len(K) \/ i = Len(K) + 1
  <2>1. Len(K) \in Nat /\ Len(L) = Len(K) + 1
    BY <1>4
  <2> QED BY <2>1
<1>9. \A i \in 1 .. Len(L) : L[i] <= m
  BY <1>6, <1>7, <1>8
<1>10. ASSUME NEW i \in 1 .. Len(L), NEW j \in 1 .. Len(L), i < j PROVE L[i] < L[j]
  <2>1. i \in 1 .. Len(K)
    BY <1>4, <1>10
  <2> QED BY <1>6, <1>7, <1>8, <1>10, <2>1
<1>11. Increasing(L)
  BY <1>10 DEF Increasing
<1> QED BY <1>9, <1>11 DEF L, u

(* a callback starts, *)
LEMMA LineStart ==
    ASSUME NEW a \in Nat, NEW h \in Seq(Nat), NEW t \in Seq(Nat), h # << >>, Increasing(Line(a, h, t))
    PROVE  LET K == Line(a, h, t)
               L == Line(Head(h), Tail(h), t) IN
           /\ Head(h) \in Nat /\ Tail(h) \in Seq(Nat)
           /\ Increasing(L) /\ a < Head(h)
           /\ \A i \in 1 .. Len(L) : \E j \in 1 .. Len(K) : L[i] = K[j]
<1> DEFINE K == Line(a, h, t)
           g == Tail(h)
           b == Head(h)
           L == Line(b, g, t)
<1>1. /\ b \in Nat /\ g \in Seq(Nat) /\ Len(g) = Len(h) - 1 /\ b = h[1]
      /\ \A i \in 1 .. Len(g) : g[i] = h[i + 1]
  BY HeadTailProperties, ElementOfSeq
<1> HIDE DEF b, g
<1>2. IsLine(K, a, h, t) /\ IsLine(L, b, g, t)
  BY <1>1, LineIs
<1>3. Increasing(K)
  OBVIOUS
<1> HIDE DEF K, L
<1>4. /\ Len(L) = Len(K) - 1 /\ Len(K) = 1 + Len(h) + Len(t) /\ Len(h) \in Nat /\ Len(t) \in Nat
      /\ Len(g) \in Nat /\ Len(K) \in Nat
  BY <1>1, <1>2 DEF IsLine
<1>5. ASSUME NEW i \in 1 .. Len(L) PROVE i + 1 \in 1 .. Len(K) /\ L[i] = K[i + 1]
  <2>1. i \in 1 .. 1 + Len(g) + Len(t) /\ i + 1 \in 1 .. 1 + Len(h) + Len(t) /\ i + 1 # 1
    BY <1>1, <1>4
  <2> DEFINE j == i + 1
  <2>7. j \in 1 .. 1 + Len(h) + Len(t) /\ j # 1
    BY <2>1
  <2> HIDE DEF j
  <2>8. K[j] = IF j <= 1 + Len(h) THEN h[j - 1] ELSE t[j - 1 - Len(h)]
    BY <1>2, <2>7 DEF IsLine
  <2>2. L[i] = IF i = 1 THEN b ELSE IF i <= 1 + Len(g) THEN g[i - 1] ELSE t[i - 1 - Len(g)]
    BY <1>2, <2>1 DEF IsLine
  <2>3. Len(g) = Len(h) - 1
    BY <1>1
  <2>4. /\ i # 1 /\ i <= 1 + Len(g) => i - 1 \in 1 .. Len(g)
        /\ i - 1 + 1 = i /\ j - 1 = i /\ (j <= 1 + Len(h) <=> i <= 1 + Len(g))
        /\ j - 1 - Len(h) = i - 1 - Len(g) /\ (i = 1 => i <= 1 + Len(g))
    BY <1>4, <2>1, <2>3 DEF j
  <2>5. i # 1 /\ i <= 1 + Len(g) => g[i - 1] = h[i]
    BY <1>1, <2>4
  <2>6. L[i] = K[j]
    BY <1>1, <2>2, <2>4, <2>5, <2>8
  <2> QED BY <1>4, <2>1, <2>6 DEF j
<1>6. Len(K) >= 2 /\ K[1] = a /\ K[2] = b
  <2>1. Len(L) >= 1 /\ 1 \in 1 .. 1 + Len(h) + Len(t) /\ 1 \in 1 .. 1 + Len(g) + Len(t)
    BY <1>1, <1>4
  <2>2. K[1] = a /\ L[1] = b
    BY <1>2, <2>1 DEF IsLine
  <2> QED BY <1>4, <1>5, <2>1, <2>2
<1>7. Increasing(L) /\ a < b
  BY <1>3, <1>4, <1>5, <1>6 DEF Increasing
<1>8. \A i \in 1 .. Len(L) : \E j \in 1 .. Len(K) : L[i] = K[j]
  BY <1>5
<1> QED BY <1>1, <1>7, <1>8 DEF L, K, b, g

(* or a message comes to the subscription, where the oldest may give way.   *)
LEMMA LineKeep ==
    ASSUME NEW a \in Nat, NEW h \in Seq(Nat), NEW t \in Seq(Nat), t # << >>, Increasing(Line(a, h, t))
    PROVE  LET K == Line(a, h, t)
               L == Line(a, Keep(h, Head(t)), Tail(t)) IN
           /\ Keep(h, Head(t)) \in Seq(Nat) /\ Tail(t) \in Seq(Nat)
           /\ Increasing(L)
           /\ \A i \in 1 .. Len(L) : \E j \in 1 .. Len(K) : L[i] = K[j]
<1> DEFINE K == Line(a, h, t)
           g == Keep(h, Head(t))
           u == Tail(t)
           L == Line(a, g, u)
           d == IF Len(h) < Depth THEN 0 ELSE 1
<1>1. /\ Head(t) \in Nat /\ u \in Seq(Nat) /\ Len(u) = Len(t) - 1 /\ Head(t) = t[1]
      /\ \A i \in 1 .. Len(u) : u[i] = t[i + 1]
  BY HeadTailProperties, ElementOfSeq
<1>2. /\ g \in Seq(Nat) /\ Len(g) = Len(h) + 1 - d /\ g[Len(g)] = t[1]
      /\ \A i \in 1 .. Len(g) - 1 : g[i] = h[i + d]
  <2>1. CASE Len(h) < Depth
    BY <1>1, <2>1, AppendProperties, LenProperties DEF Keep
  <2>2. CASE ~ (Len(h) < Depth)
    <3>1. h # << >>
      BY <2>2, NodeChainsAssumption
    <3>2. /\ Tail(h) \in Seq(Nat) /\ Len(Tail(h)) = Len(h) - 1 /\ Len(h) \in Nat
          /\ \A i \in 1 .. Len(Tail(h)) : Tail(h)[i] = h[i + 1]
      BY <3>1, HeadTailProperties, LenProperties
    <3>3. g = Append(Tail(h), Head(t)) /\ d = 1
      BY <2>2 DEF Keep
    <3>4. /\ g \in Seq(Nat) /\ Len(g) = Len(Tail(h)) + 1 /\ g[Len(Tail(h)) + 1] = Head(t)
          /\ \A i \in 1 .. Len(Tail(h)) : g[i] = Tail(h)[i]
      <4> DEFINE q == Tail(h)
                 m == Head(t)
      <4>1. q \in Seq(Nat) /\ m \in Nat /\ g = Append(q, m)
        BY <1>1, <3>2, <3>3
      <4> HIDE DEF q, m, g
      <4>2. /\ g \in Seq(Nat) /\ Len(g) = Len(q) + 1 /\ g[Len(q) + 1] = m
            /\ \A i \in 1 .. Len(q) : g[i] = q[i]
        BY <4>1, AppendProperties
      <4> QED BY <4>2 DEF q, m
    <3> HIDE DEF g, d
    <3> QED BY <1>1, <3>2, <3>3, <3>4
  <2> QED BY <2>1, <2>2
<1>3. d \in {0, 1} /\ d <= Len(h)
  BY NodeChainsAssumption, LenProperties
<1> HIDE DEF g, u, d
<1>4. IsLine(K, a, h, t) /\ IsLine(L, a, g, u)
  BY <1>1, <1>2, LineIs
<1>5. Increasing(K)
  OBVIOUS
<1> HIDE DEF K, L
<1>6. /\ Len(L) = Len(K) - d /\ Len(K) = 1 + Len(h) + Len(t) /\ Len(L) = 1 + Len(g) + Len(u)
      /\ Len(h) \in Nat /\ Len(t) \in Nat /\ Len(g) \in Nat /\ Len(u) \in Nat /\ Len(K) \in Nat
      /\ Len(g) = Len(h) + 1 - d /\ Len(u) = Len(t) - 1
  BY <1>1, <1>2, <1>3, <1>4 DEF IsLine
<1> DEFINE hl == Len(h)  tl == Len(t)  gl == Len(g)  ul == Len(u)
<1>14. hl \in Nat /\ tl \in Nat /\ gl \in Nat /\ ul \in Nat /\ gl = hl + 1 - d /\ ul = tl - 1
  BY <1>6
<1> HIDE DEF hl, tl, gl, ul
<1>12. /\ \A i \in 1 .. 1 + gl + ul : i > gl + 1 =>
             /\ i - 1 - gl \in 1 .. ul /\ ~ (i <= 1 + gl) /\ ~ (i + d <= 1 + hl)
             /\ i + d - 1 - hl = i - 1 - gl + 1
       /\ \A i \in 1 .. 1 + gl + ul : i = 1 \/ i <= gl \/ i = gl + 1 \/ i > gl + 1
       /\ \A i, j \in 1 .. 1 + gl + ul :
             i < j => (IF i = 1 THEN 1 ELSE i + d) < (IF j = 1 THEN 1 ELSE j + d)
  BY <1>3, <1>14
<1>13. Len(L) = 1 + gl + ul
  BY <1>6 DEF gl, ul
<1> DEFINE at(i) == IF i = 1 THEN 1 ELSE i + d
<1>7. ASSUME NEW i \in 1 .. Len(L) PROVE at(i) \in 1 .. Len(K) /\ L[i] = K[at(i)]
  <2>1. at(i) \in 1 .. Len(K) /\ (i # 1 => i + d # 1)
    BY <1>3, <1>6
  <2>2. /\ L[i] = IF i = 1 THEN a ELSE IF i <= 1 + Len(g) THEN g[i - 1] ELSE u[i - 1 - Len(g)]
        /\ K[1] = a
    <3>1. i \in 1 .. 1 + Len(g) + Len(u) /\ 1 \in 1 .. 1 + Len(h) + Len(t)
      BY <1>6
    <3> QED BY <1>4, <3>1 DEF IsLine
  <2>3. CASE i = 1
    BY <2>1, <2>2, <2>3
  <2> DEFINE j == i + d
  <2>7. i # 1 => at(i) = j /\ j \in 1 .. 1 + Len(h) + Len(t) /\ j # 1
    BY <1>6, <2>1
  <2> HIDE DEF j, at
  <2>8. i # 1 => K[j] = IF j <= 1 + Len(h) THEN h[j - 1] ELSE t[j - 1 - Len(h)]
    BY <1>4, <2>7 DEF IsLine
  <2>4. CASE i # 1 /\ i <= Len(g)
    <3>1. i - 1 \in 1 .. Len(g) - 1 /\ i <= 1 + Len(g) /\ j <= 1 + Len(h) /\ i - 1 + d = j - 1
      BY <1>3, <1>6, <2>4 DEF j
    <3>2. L[i] = g[i - 1] /\ K[j] = h[j - 1]
      BY <2>2, <2>4, <2>8, <3>1
    <3>3. g[i - 1] = h[i - 1 + d]
      BY <1>2, <3>1
    <3> QED BY <2>1, <2>4, <2>7, <3>1, <3>2, <3>3
  <2>5. CASE i # 1 /\ i = Len(g) + 1
    <3>1. i - 1 = Len(g) /\ i <= 1 + Len(g) /\ ~ (j <= 1 + Len(h)) /\ j - 1 - Len(h) = 1
      BY <1>3, <1>6, <2>5 DEF j
    <3>2. L[i] = g[Len(g)] /\ K[j] = t[1]
      BY <2>2, <2>5, <2>8, <3>1
    <3> QED BY <1>2, <2>1, <2>5, <2>7, <3>2
  <2>6. CASE i # 1 /\ i > Len(g) + 1
    <3>1. /\ i - 1 - Len(g) \in 1 .. Len(u) /\ ~ (i <= 1 + Len(g)) /\ ~ (j <= 1 + Len(h))
          /\ j - 1 - Len(h) = i - 1 - Len(g) + 1
      <4>1. i \in 1 .. 1 + gl + ul /\ i > gl + 1
        BY <1>13, <2>6 DEF gl
      <4>2. /\ i - 1 - gl \in 1 .. ul /\ ~ (i <= 1 + gl) /\ ~ (i + d <= 1 + hl)
            /\ i + d - 1 - hl = i - 1 - gl + 1
        BY <1>12, <4>1
      <4>3. gl = Len(g) /\ ul = Len(u) /\ hl = Len(h) /\ j = i + d
        BY DEF gl, ul, hl, j
      <4>4. i - 1 - Len(g) \in 1 .. Len(u)
        BY <4>2, <4>3
      <4>5. ~ (i <= 1 + Len(g)) /\ ~ (j <= 1 + Len(h))
        BY <4>2, <4>3
      <4>6. j - 1 - Len(h) = i - 1 - Len(g) + 1
        <5>1. i + d - 1 - hl = i - 1 - gl + 1 /\ i \in Int /\ d \in Int /\ hl \in Int /\ gl \in Int
          BY <1>3, <1>14, <4>1, <4>2
        <5>2. j - 1 - hl = i - 1 - gl + 1
          BY <4>3, <5>1
        <5> QED BY <4>3, <5>2
      <4> QED BY <4>4, <4>5, <4>6
    <3>2. L[i] = u[i - 1 - Len(g)] /\ K[j] = t[j - 1 - Len(h)]
      BY <2>2, <2>6, <2>8, <3>1
    <3>3. u[i - 1 - Len(g)] = t[i - 1 - Len(g) + 1]
      BY <1>1, <3>1
    <3> QED BY <2>1, <2>6, <2>7, <3>1, <3>2, <3>3
  <2>9. i = 1 \/ i <= Len(g) \/ i = Len(g) + 1 \/ i > Len(g) + 1
    BY <1>12, <1>13 DEF gl
  <2> QED BY <2>3, <2>4, <2>5, <2>6, <2>9
<1>8. \A i, j \in 1 .. Len(L) : i < j => at(i) < at(j)
  BY <1>12, <1>13
<1>9. \A i \in 1 .. Len(L) : at(i) \in 1 .. Len(K) /\ L[i] = K[at(i)]
  BY <1>7
<1> HIDE DEF at
<1>10. Increasing(L)
  BY <1>5, <1>8, <1>9 DEF Increasing
<1>11. \A i \in 1 .. Len(L) : \E j \in 1 .. Len(K) : L[i] = K[j]
  BY <1>9
<1> QED BY <1>1, <1>2, <1>10, <1>11 DEF L, K, g, u

------------------------------------------------------------------------------
(* The chains of nodes: the messages *)

ChainTypes ==
    /\ count \in [Timed -> Nat] /\ message \in [Node -> Nat]
    /\ started \in [Node -> Nat] /\ ended \in [Node -> Nat]
    /\ history \in [Chained -> Seq(Nat)] /\ transit \in [Chained -> Seq(Nat)]
    /\ callback \in [Node -> {"idle", "work", "publish"}]

(* A node has passed on no message beyond the one it ended last, and that   *)
(* one not before it publishes.                                             *)
Behind(n, p) ==
    \A i \in 1 .. Len(Waiting(n)) :
       Waiting(n)[i] <= ended[p] /\ (callback[p] = "publish" => Waiting(n)[i] < ended[p])

TimerPhase(p) == callback[p] = "idle" /\ count[p] = ended[p] + 1
ChainPhase(n) ==
    /\ callback[n] = "idle" => ended[n] = started[n]
    /\ callback[n] = "work" => message[n] = started[n] /\ ended[n] < started[n]
    /\ callback[n] = "publish" => message[n] = started[n] /\ ended[n] = started[n]

ChainInv ==
    /\ ChainTypes
    /\ \A n \in Chained : Increasing(Waiting(n)) /\ ChainPhase(n)
    /\ \A p \in Timed : TimerPhase(p)
    /\ \A n \in Chained, p \in Node : n \in Subscribers(p) => Behind(n, p)

LEMMA ChainStart == NodeChainsInit => ChainInv
<1> SUFFICES ASSUME NodeChainsInit PROVE ChainInv
  OBVIOUS
<1>1. Timed \subseteq Node /\ Chained \subseteq Node
  BY DEF Timed, Chained
<1>2. ChainTypes
  BY <1>1 DEF NodeChainsInit, ChainTypes
<1>3. ASSUME NEW n \in Chained PROVE Len(Waiting(n)) = 1 /\ Waiting(n)[1] = 0
  <2>1. Waiting(n) = <<0>> \o << >> \o << >>
    BY <1>1 DEF NodeChainsInit, Waiting, Line
  <2> QED BY <2>1
<1>4. \A n \in Chained : Increasing(Waiting(n)) /\ ChainPhase(n)
  BY <1>1, <1>3 DEF Increasing, NodeChainsInit, ChainPhase
<1>5. \A p \in Timed : TimerPhase(p)
  BY <1>1 DEF NodeChainsInit, TimerPhase
<1>6. \A n \in Chained, p \in Node : Behind(n, p)
  BY <1>3 DEF NodeChainsInit, Behind
<1> QED BY <1>2, <1>4, <1>5, <1>6 DEF ChainInv

(* The lines in front of the nodes when node p publishes m. *)
LEMMA Published ==
    ASSUME ChainInv, NEW p \in Node, NEW m \in Nat, Publish(p, m),
           NEW n \in Chained, started'[n] = started[n], history'[n] = history[n],
           n \in Subscribers(p) => \A i \in 1 .. Len(Waiting(n)) : Waiting(n)[i] < m
    PROVE  /\ transit' \in [Chained -> Seq(Nat)]
           /\ Increasing(Waiting(n)')
           /\ n \in Subscribers(p) => \A i \in 1 .. Len(Waiting(n)') : Waiting(n)'[i] <= m
           /\ n \notin Subscribers(p) => Waiting(n)' = Waiting(n)
<1>1. /\ started[n] \in Nat /\ history[n] \in Seq(Nat) /\ transit[n] \in Seq(Nat)
      /\ transit \in [Chained -> Seq(Nat)] /\ Increasing(Waiting(n))
  BY DEF ChainInv, ChainTypes, Chained
<1>2. transit' = [s \in Chained |-> IF s \in Subscribers(p) THEN Append(transit[s], m) ELSE transit[s]]
  BY DEF Publish
<1>3. transit' \in [Chained -> Seq(Nat)]
  BY <1>1, <1>2, AppendProperties
<1>4. CASE n \in Subscribers(p)
  <2>1. Waiting(n)' = Line(started[n], history[n], Append(transit[n], m))
    BY <1>2, <1>4 DEF Waiting, Line
  <2> QED BY <1>1, <1>3, <1>4, <2>1, LineAppend DEF Waiting
<1>5. CASE n \notin Subscribers(p)
  <2>1. Waiting(n)' = Waiting(n)
    BY <1>2, <1>5 DEF Waiting, Line
  <2> QED BY <1>1, <1>3, <1>5, <2>1
<1> QED BY <1>4, <1>5

(* The timer callback. *)
LEMMA TimerKeeps ==
    ASSUME ChainInv, NEW p \in Timed, publish_message(p)
    PROVE  ChainInv'
<1>1. /\ count' = [count EXCEPT ![p] = @ + 1] /\ started' = [started EXCEPT ![p] = count[p]]
      /\ ended' = [ended EXCEPT ![p] = count[p]] /\ Publish(p, count[p])
      /\ UNCHANGED <<history, callback, message>>
  BY DEF publish_message
<1>2. p \in Node /\ p \notin Chained /\ Timed \subseteq Node /\ Chained \subseteq Node
  BY DEF Timed, Chained
<1>3. count[p] \in Nat /\ count[p] = ended[p] + 1 /\ callback[p] = "idle" /\ ended[p] \in Nat
  BY <1>2 DEF ChainInv, ChainTypes, TimerPhase
<1>4. \A n \in Node : n # p => started'[n] = started[n] /\ ended'[n] = ended[n]
  BY <1>1 DEF ChainInv, ChainTypes
<1>5. \A q \in Timed : q # p => count'[q] = count[q]
  BY <1>1 DEF ChainInv, ChainTypes
<1>6. ended'[p] = count[p] /\ count'[p] = count[p] + 1
  BY <1>1, <1>2 DEF ChainInv, ChainTypes
<1>7. ASSUME NEW n \in Chained
      PROVE  /\ transit' \in [Chained -> Seq(Nat)] /\ Increasing(Waiting(n)')
             /\ n \in Subscribers(p) => \A i \in 1 .. Len(Waiting(n)') : Waiting(n)'[i] <= count[p]
             /\ n \notin Subscribers(p) => Waiting(n)' = Waiting(n)
  <2>1. n \in Subscribers(p) => \A i \in 1 .. Len(Waiting(n)) : Waiting(n)[i] <= ended[p]
    BY <1>2 DEF ChainInv, Behind
  <2>2. \A i \in 1 .. Len(Waiting(n)) : Waiting(n)[i] \in Nat
    BY <1>2, LineIs, ElementOfSeq DEF ChainInv, ChainTypes, Waiting, IsLine
  <2>3. n \in Subscribers(p) => \A i \in 1 .. Len(Waiting(n)) : Waiting(n)[i] < count[p]
    BY <1>3, <2>1, <2>2
  <2>4. started'[n] = started[n] /\ history'[n] = history[n]
    BY <1>1, <1>2, <1>4
  <2> QED BY <1>1, <1>2, <1>3, <2>3, <2>4, Published
<1>8. transit' \in [Chained -> Seq(Nat)]
  <2>1. CASE Chained = {}
    BY <1>1, <2>1 DEF Publish
  <2> QED BY <1>7, <2>1
<1>9. ChainTypes'
  BY <1>1, <1>2, <1>3, <1>8 DEF ChainInv, ChainTypes
<1>10. \A n \in Chained : Increasing(Waiting(n)') /\ ChainPhase(n)'
  BY <1>1, <1>2, <1>4, <1>7 DEF ChainInv, ChainPhase
<1>11. \A q \in Timed : TimerPhase(q)'
  BY <1>1, <1>2, <1>3, <1>4, <1>5, <1>6 DEF ChainInv, TimerPhase
<1>12. ASSUME NEW n \in Chained, NEW q \in Node, n \in Subscribers(q) PROVE Behind(n, q)'
  <2>1. CASE q = p
    BY <1>1, <1>3, <1>6, <1>7, <1>12, <2>1 DEF Behind
  <2>2. CASE q # p
    <3>1. n \notin Subscribers(p)
      BY <1>2, <1>12, <2>2, OneSource
    <3>2. Waiting(n)' = Waiting(n) /\ ended'[q] = ended[q] /\ callback'[q] = callback[q]
      BY <1>1, <1>4, <1>7, <2>2, <3>1
    <3> QED BY <1>12, <3>2 DEF ChainInv, Behind
  <2> QED BY <2>1, <2>2
<1> QED BY <1>9, <1>10, <1>11, <1>12 DEF ChainInv, Timed, Chained, Subscribers

(* A message comes to a subscription, or a callback starts: the line in     *)
(* front of the node gets shorter.                                          *)
LEMMA Shortened ==
    ASSUME ChainInv, ChainTypes', NEW n \in Chained,
           \A m \in Chained \ {n} : Waiting(m)' = Waiting(m),
           Increasing(Waiting(n)'),
           \A i \in 1 .. Len(Waiting(n)') : \E j \in 1 .. Len(Waiting(n)) : Waiting(n)'[i] = Waiting(n)[j],
           ended' = ended, count' = count,
           \A p \in Node : callback'[p] = callback[p] \/ (callback'[p] = "work" /\ p = n),
           \A m \in Chained : ChainPhase(m)'
    PROVE  ChainInv'
<1>1. \A m \in Chained : Increasing(Waiting(m)')
  BY DEF ChainInv
<1>2. \A p \in Timed : TimerPhase(p)'
  BY DEF ChainInv, TimerPhase, Chained, Timed
<1>3. ASSUME NEW m \in Chained, NEW p \in Node, m \in Subscribers(p) PROVE Behind(m, p)'
  <2>1. Behind(m, p)
    BY <1>3 DEF ChainInv
  <2>2. CASE m = n
    BY <2>1, <2>2 DEF Behind
  <2>3. CASE m # n
    BY <2>1, <2>3 DEF Behind
  <2> QED BY <2>2, <2>3
<1> QED BY <1>1, <1>2, <1>3 DEF ChainInv, Timed, Chained, Subscribers

LEMMA DeliverKeeps ==
    ASSUME ChainInv, NEW n \in Chained, deliver(n)
    PROVE  ChainInv'
<1>1. /\ transit[n] # << >> /\ history' = [history EXCEPT ![n] = Keep(history[n], Head(transit[n]))]
      /\ transit' = [transit EXCEPT ![n] = Tail(transit[n])]
      /\ UNCHANGED <<count, callback, message, started, ended>>
  BY DEF deliver
<1>2. /\ started[n] \in Nat /\ history[n] \in Seq(Nat) /\ transit[n] \in Seq(Nat) /\ Increasing(Waiting(n))
      /\ history \in [Chained -> Seq(Nat)] /\ transit \in [Chained -> Seq(Nat)]
  BY DEF ChainInv, ChainTypes, Chained
<1> DEFINE g == Keep(history[n], Head(transit[n]))
           u == Tail(transit[n])
           L == Line(started[n], g, u)
<1>3. /\ g \in Seq(Nat) /\ u \in Seq(Nat) /\ Increasing(L)
      /\ \A i \in 1 .. Len(L) : \E j \in 1 .. Len(Waiting(n)) : L[i] = Waiting(n)[j]
  BY <1>1, <1>2, LineKeep DEF Waiting
<1> HIDE DEF g, u
<1>4. /\ history'[n] = g /\ transit'[n] = u /\ history' \in [Chained -> Seq(Nat)] /\ transit' \in [Chained -> Seq(Nat)]
      /\ \A m \in Chained \ {n} : history'[m] = history[m] /\ transit'[m] = transit[m]
  BY <1>1, <1>2, <1>3 DEF g, u
<1>5. Waiting(n)' = L
  BY <1>1, <1>4 DEF Waiting, Line
<1>6. \A m \in Chained \ {n} : Waiting(m)' = Waiting(m)
  BY <1>1, <1>4 DEF Waiting, Line
<1>7. ChainTypes'
  BY <1>1, <1>4 DEF ChainInv, ChainTypes
<1>8. \A m \in Chained : ChainPhase(m)'
  BY <1>1 DEF ChainInv, ChainPhase
<1> HIDE DEF L
<1> QED BY <1>1, <1>3, <1>5, <1>6, <1>7, <1>8, Shortened

LEMMA StartKeeps ==
    ASSUME ChainInv, NEW n \in Chained, callback_start(n)
    PROVE  ChainInv'
<1>1. /\ callback[n] = "idle" /\ history[n] # << >>
      /\ message' = [message EXCEPT ![n] = Head(history[n])]
      /\ history' = [history EXCEPT ![n] = Tail(history[n])]
      /\ started' = [started EXCEPT ![n] = Head(history[n])]
      /\ callback' = [callback EXCEPT ![n] = "work"]
      /\ UNCHANGED <<count, transit, ended>>
  BY DEF callback_start
<1>2. /\ started[n] \in Nat /\ history[n] \in Seq(Nat) /\ transit[n] \in Seq(Nat) /\ Increasing(Waiting(n))
      /\ history \in [Chained -> Seq(Nat)] /\ n \in Node /\ Chained \subseteq Node
      /\ started \in [Node -> Nat] /\ message \in [Node -> Nat]
      /\ callback \in [Node -> {"idle", "work", "publish"}]
  BY DEF ChainInv, ChainTypes, Chained
<1> DEFINE b == Head(history[n])
           g == Tail(history[n])
           L == Line(b, g, transit[n])
<1>3. /\ b \in Nat /\ g \in Seq(Nat) /\ Increasing(L) /\ started[n] < b
      /\ \A i \in 1 .. Len(L) : \E j \in 1 .. Len(Waiting(n)) : L[i] = Waiting(n)[j]
  BY <1>1, <1>2, LineStart DEF Waiting
<1> HIDE DEF b, g
<1>4. /\ history'[n] = g /\ history' \in [Chained -> Seq(Nat)] /\ started'[n] = b /\ message'[n] = b
      /\ callback'[n] = "work"
      /\ \A m \in Chained \ {n} : history'[m] = history[m]
      /\ \A m \in Node \ {n} : started'[m] = started[m] /\ message'[m] = message[m] /\ callback'[m] = callback[m]
  BY <1>1, <1>2, <1>3 DEF b, g
<1>5. Waiting(n)' = L
  BY <1>1, <1>4 DEF Waiting, Line
<1>6. \A m \in Chained \ {n} : Waiting(m)' = Waiting(m)
  BY <1>1, <1>2, <1>4 DEF Waiting, Line
<1>7. ChainTypes'
  BY <1>1, <1>2, <1>3, <1>4 DEF ChainInv, ChainTypes, b
<1>8. ended[n] = started[n]
  BY <1>1 DEF ChainInv, ChainPhase
<1>9. \A m \in Chained : ChainPhase(m)'
  BY <1>1, <1>2, <1>3, <1>4, <1>8 DEF ChainInv, ChainPhase
<1> HIDE DEF L
<1> QED BY <1>1, <1>3, <1>4, <1>5, <1>6, <1>7, <1>9, Shortened

LEMMA EndKeeps ==
    ASSUME ChainInv, NEW n \in Chained, callback_end(n)
    PROVE  ChainInv'
<1>1. /\ callback[n] = "work" /\ ended' = [ended EXCEPT ![n] = message[n]]
      /\ callback' = [callback EXCEPT ![n] = "publish"]
      /\ UNCHANGED <<count, history, transit, message, started>>
  BY DEF callback_end
<1>2. n \in Node /\ n \notin Timed /\ Chained \subseteq Node /\ Timed \subseteq Node
  BY DEF Chained, Timed
<1>3. message[n] = started[n] /\ ended[n] < message[n] /\ message[n] \in Nat /\ ended[n] \in Nat
  BY <1>1, <1>2 DEF ChainInv, ChainTypes, ChainPhase
<1>4. /\ ended'[n] = message[n] /\ callback'[n] = "publish"
      /\ \A m \in Node \ {n} : ended'[m] = ended[m] /\ callback'[m] = callback[m]
  BY <1>1, <1>2 DEF ChainInv, ChainTypes
<1>5. ChainTypes'
  BY <1>1, <1>2, <1>3 DEF ChainInv, ChainTypes
<1>6. \A m \in Chained : Waiting(m)' = Waiting(m)
  BY <1>1 DEF Waiting, Line
<1>7. \A m \in Chained : Increasing(Waiting(m)') /\ ChainPhase(m)'
  BY <1>1, <1>2, <1>3, <1>4, <1>6 DEF ChainInv, ChainPhase
<1>8. \A p \in Timed : TimerPhase(p)'
  BY <1>1, <1>2, <1>4 DEF ChainInv, TimerPhase
<1>9. ASSUME NEW m \in Chained, NEW p \in Node, m \in Subscribers(p) PROVE Behind(m, p)'
  <2>1. Behind(m, p) /\ Waiting(m)' = Waiting(m)
    BY <1>6, <1>9 DEF ChainInv
  <2>2. \A i \in 1 .. Len(Waiting(m)) : Waiting(m)[i] \in Nat
    BY <1>2, LineIs, ElementOfSeq DEF ChainInv, ChainTypes, Waiting, IsLine
  <2>3. CASE p = n
    BY <1>3, <1>4, <2>1, <2>2, <2>3 DEF Behind
  <2>4. CASE p # n
    BY <1>4, <2>1, <2>4 DEF Behind
  <2> QED BY <2>3, <2>4
<1> QED BY <1>5, <1>7, <1>8, <1>9 DEF ChainInv, Timed, Chained, Subscribers

LEMMA PublishKeeps ==
    ASSUME ChainInv, NEW n \in Chained, callback_publish(n)
    PROVE  ChainInv'
<1>1. /\ callback[n] = "publish" /\ callback' = [callback EXCEPT ![n] = "idle"]
      /\ IF publishes(n) # "None" THEN Publish(n, message[n]) ELSE transit' = transit
      /\ UNCHANGED <<count, history, message, started, ended>>
  BY DEF callback_publish
<1>2. n \in Node /\ n \notin Timed /\ Chained \subseteq Node /\ Timed \subseteq Node
  BY DEF Chained, Timed
<1>3. message[n] = ended[n] /\ ended[n] = started[n] /\ message[n] \in Nat
  BY <1>1, <1>2 DEF ChainInv, ChainTypes, ChainPhase
<1>4. callback'[n] = "idle" /\ \A m \in Node \ {n} : callback'[m] = callback[m]
  BY <1>1, <1>2 DEF ChainInv, ChainTypes
<1>5. ASSUME NEW m \in Chained
      PROVE  /\ transit' \in [Chained -> Seq(Nat)] /\ Increasing(Waiting(m)')
             /\ m \in Subscribers(n) => \A i \in 1 .. Len(Waiting(m)') : Waiting(m)'[i] <= message[n]
             /\ m \notin Subscribers(n) => Waiting(m)' = Waiting(m)
  <2>1. CASE publishes(n) # "None"
    <3>1. Publish(n, message[n]) /\ started'[m] = started[m] /\ history'[m] = history[m]
      BY <1>1, <2>1
    <3>2. m \in Subscribers(n) => \A i \in 1 .. Len(Waiting(m)) : Waiting(m)[i] < message[n]
      BY <1>1, <1>2, <1>3 DEF ChainInv, Behind
    <3> QED BY <1>2, <1>3, <3>1, <3>2, Published
  <2>2. CASE publishes(n) = "None"
    <3>1. transit' = transit /\ m \notin Subscribers(n)
      BY <1>1, <1>2, <2>2, OneSource
    <3>2. Waiting(m)' = Waiting(m)
      BY <1>1, <3>1 DEF Waiting, Line
    <3> QED BY <3>1, <3>2 DEF ChainInv, ChainTypes
  <2> QED BY <2>1, <2>2
<1>6. ChainTypes'
  BY <1>1, <1>2, <1>5 DEF ChainInv, ChainTypes
<1>7. \A m \in Chained : Increasing(Waiting(m)') /\ ChainPhase(m)'
  BY <1>1, <1>2, <1>3, <1>4, <1>5 DEF ChainInv, ChainPhase
<1>8. \A p \in Timed : TimerPhase(p)'
  BY <1>1, <1>2, <1>4 DEF ChainInv, TimerPhase
<1>9. ASSUME NEW m \in Chained, NEW p \in Node, m \in Subscribers(p) PROVE Behind(m, p)'
  <2>1. CASE p = n
    BY <1>1, <1>3, <1>4, <1>5, <1>9, <2>1 DEF Behind
  <2>2. CASE p # n
    <3>1. m \notin Subscribers(n)
      BY <1>2, <1>9, <2>2, OneSource
    <3>2. Waiting(m)' = Waiting(m) /\ ended'[p] = ended[p] /\ callback'[p] = callback[p]
      BY <1>1, <1>4, <1>5, <2>2, <3>1
    <3> QED BY <1>9, <3>2 DEF ChainInv, Behind
  <2> QED BY <2>1, <2>2
<1> QED BY <1>6, <1>7, <1>8, <1>9 DEF ChainInv, Timed, Chained, Subscribers

LEMMA ChainStep ==
    ASSUME ChainInv, [NodeChainsNext]_chains_vars
    PROVE  ChainInv'
<1>1. CASE UNCHANGED chains_vars
  BY <1>1 DEF chains_vars, ChainInv, ChainTypes, ChainPhase, TimerPhase, Behind, Waiting, Line
<1> QED BY <1>1, TimerKeeps, DeliverKeeps, StartKeeps, EndKeeps, PublishKeeps DEF NodeChainsNext

LEMMA LineStarts ==
    ASSUME NEW K, NEW a, NEW h, NEW t, IsLine(K, a, h, t)
    PROVE  1 \in 1 .. Len(K) /\ K[1] = a
<1>1. Len(h) \in Nat /\ Len(t) \in Nat /\ Len(K) = 1 + Len(h) + Len(t)
  BY DEF IsLine
<1>2. 1 \in 1 .. 1 + Len(h) + Len(t)
  BY <1>1
<1>3. K[1] = IF 1 = 1 THEN a ELSE IF 1 <= 1 + Len(h) THEN h[1 - 1] ELSE t[1 - 1 - Len(h)]
  BY <1>2 DEF IsLine
<1> QED BY <1>1, <1>2, <1>3

LEMMA ChainIsOrdered == ChainInv => ChainOrdered
<1> SUFFICES ASSUME ChainInv, NEW n \in Chained
             PROVE  /\ \A p \in Sources(n) : started[n] <= ended[p]
                    /\ ended[n] <= started[n]
                    /\ Increasing(Waiting(n))
  BY DEF ChainOrdered, Increasing, Waiting, Line
<1>1. /\ started[n] \in Nat /\ ended[n] \in Nat
      /\ history[n] \in Seq(Nat) /\ transit[n] \in Seq(Nat)
      /\ callback[n] \in {"idle", "work", "publish"}
  BY DEF ChainInv, ChainTypes, Chained
<1>2. IsLine(Waiting(n), started[n], history[n], transit[n])
  BY <1>1, LineIs DEF Waiting
<1>3. 1 \in 1 .. Len(Waiting(n)) /\ Waiting(n)[1] = started[n]
  BY <1>2, LineStarts
<1>4. ASSUME NEW p \in Sources(n) PROVE started[n] <= ended[p]
  <2>1. Behind(n, p)
    BY DEF Sources, ChainInv
  <2> QED BY <1>3, <2>1 DEF Behind
<1>5. ended[n] <= started[n]
  BY <1>1 DEF ChainInv, ChainPhase
<1>6. Increasing(Waiting(n))
  BY DEF ChainInv
<1> QED BY <1>4, <1>5, <1>6

LEMMA NodesTurn ==
    ASSUME [ComponentsNext]_components_vars
    PROVE  /\ part' = part
           /\ part = "pendulum" => [PendulumNext]_pendulum_vars
           /\ part = "chains" => [NodeChainsNext]_chains_vars
BY DEF ComponentsNext, components_vars, Turn

(* PendulumMotor and PendulumController, and the nodes of the evaluation:   *)
(* in every run of the demo the messages hold angles within the limits; in  *)
(* every choice of nodes, histories and numbers of messages, a node starts  *)
(* a message after the node before it ended it, in the order of the numbers.*)
THEOREM NodesInOrder == ComponentsSpec => []Nodes
<1> DEFINE I == (part = "pendulum" => PendulumInv) /\ (part = "chains" => ChainInv)
<1>1. ComponentsInit => I
  BY PendulumStart, ChainStart DEF ComponentsInit
<1>2. I /\ [ComponentsNext]_components_vars => I'
  BY NodesTurn, PendulumStep, ChainStep
<1>3. I => Nodes
  <2>1. ASSUME PendulumInv PROVE PendulumSafe
    BY <2>1 DEF PendulumInv, PendulumSafe
  <2> QED BY <2>1, ChainIsOrdered DEF Nodes, While
<1> QED BY <1>1, <1>2, <1>3, PTL DEF ComponentsSpec

------------------------------------------------------------------------------
(* Timed events *)

(* What is left when one place of a sequence is removed.                    *)
LEMMA PlaceRemoved ==
    ASSUME NEW S, NEW s \in Seq(S), NEW k \in 1 .. Len(s)
    PROVE  /\ RemoveAt(s, k) \in Seq(S) /\ DOMAIN RemoveAt(s, k) = 1 .. Len(s) - 1
           /\ \A i \in 1 .. Len(s) - 1 : RemoveAt(s, k)[i] = IF i < k THEN s[i] ELSE s[i + 1]
<1>1. PICK n \in Nat : n = Len(s)
  BY LenProperties
<1>2. DOMAIN s = 1 .. n /\ \A i \in 1 .. n : s[i] \in S
  BY <1>1, LenProperties
<1>3. PICK a : a = SubSeq(s, 1, k - 1)
  OBVIOUS
<1>4. PICK b : b = SubSeq(s, k + 1, n)
  OBVIOUS
<1>k. k \in Nat /\ 1 <= k /\ k <= n
  BY <1>1
<1>5. a \in Seq(S) /\ Len(a) = k - 1 /\ \A i \in 1 .. k - 1 : a[i] = s[i]
  <2>1. \A i \in 1 .. k - 1 : s[i] \in S
    BY <1>2, <1>k
  <2>2. 1 \in Int /\ k - 1 \in Int
    BY <1>k
  <2>3. /\ a \in Seq(S) /\ Len(a) = (IF 1 <= k - 1 THEN k - 1 - 1 + 1 ELSE 0)
        /\ \A i \in 1 .. k - 1 - 1 + 1 : a[i] = s[1 + i - 1]
    BY <1>3, <2>1, <2>2, SubSeqProperties
  <2>4. ASSUME NEW i \in 1 .. k - 1 PROVE a[i] = s[i]
    <3>1. i \in 1 .. k - 1 - 1 + 1 /\ 1 + i - 1 = i
      BY <1>k
    <3> QED BY <2>3, <3>1
  <2>5. Len(a) = k - 1
    BY <1>k, <2>3
  <2> QED BY <2>3, <2>4, <2>5
<1>6. b \in Seq(S) /\ Len(b) = n - k /\ \A i \in 1 .. n - k : b[i] = s[k + i]
  <2>1. \A i \in k + 1 .. n : s[i] \in S
    BY <1>2, <1>k
  <2>2. k + 1 \in Int /\ n \in Int
    BY <1>1, <1>k
  <2>3. /\ b \in Seq(S) /\ Len(b) = (IF k + 1 <= n THEN n - (k + 1) + 1 ELSE 0)
        /\ \A i \in 1 .. n - (k + 1) + 1 : b[i] = s[k + 1 + i - 1]
    BY <1>4, <2>1, <2>2, SubSeqProperties
  <2>4. ASSUME NEW i \in 1 .. n - k PROVE b[i] = s[k + i]
    <3>1. i \in 1 .. n - (k + 1) + 1 /\ k + 1 + i - 1 = k + i
      BY <1>1, <1>k
    <3> QED BY <2>3, <3>1
  <2>5. Len(b) = n - k
    BY <1>1, <1>k, <2>3
  <2> QED BY <2>3, <2>4, <2>5
<1>7. PICK r : r = a \o b
  OBVIOUS
<1>8. /\ r \in Seq(S) /\ Len(r) = Len(a) + Len(b)
      /\ \A i \in 1 .. Len(a) + Len(b) : r[i] = IF i <= Len(a) THEN a[i] ELSE b[i - Len(a)]
  BY <1>5, <1>6, <1>7, ConcatProperties
<1>9. Len(r) = n - 1 /\ DOMAIN r = 1 .. n - 1
  <2>1. Len(r) = n - 1
    BY <1>1, <1>k, <1>5, <1>6, <1>8
  <2> QED BY <1>8, <2>1, LenProperties
<1>10. ASSUME NEW i \in 1 .. n - 1 PROVE r[i] = IF i < k THEN s[i] ELSE s[i + 1]
  <2>0. i \in Int /\ i \in 1 .. Len(a) + Len(b)
    BY <1>1, <1>k, <1>5, <1>6
  <2>1. CASE i < k
    <3>1. i <= Len(a) /\ i \in 1 .. k - 1
      BY <1>k, <1>5, <2>0, <2>1
    <3> QED BY <1>5, <1>8, <2>0, <2>1, <3>1
  <2>2. CASE ~(i < k)
    <3>1. ~(i <= Len(a)) /\ i - Len(a) = i - k + 1 /\ i - k + 1 \in 1 .. n - k /\ k + (i - k + 1) = i + 1
      BY <1>1, <1>k, <1>5, <2>0, <2>2
    <3>2. r[i] = b[i - k + 1]
      BY <1>8, <2>0, <3>1
    <3>3. b[i - k + 1] = s[k + (i - k + 1)]
      BY <1>6, <3>1
    <3> QED BY <2>2, <3>1, <3>2, <3>3
  <2> QED BY <2>1, <2>2
<1>11. RemoveAt(s, k) = r
  BY <1>1, <1>3, <1>4, <1>7 DEF RemoveAt
<1> QED BY <1>1, <1>8, <1>9, <1>10, <1>11

(* event_compare's order, for the trigger times f.                          *)
Ascending(s, f) == \A i, j \in 1 .. Len(s) : i < j => f[s[i]] <= f[s[j]]

(* The places at which a thinned list r keeps the elements of s.            *)
Keeps(r, s, m) ==
    /\ m \in [1 .. Len(r) -> 1 .. Len(s)]
    /\ \A i \in 1 .. Len(r) : r[i] = s[m[i]]
    /\ \A i, j \in 1 .. Len(r) : i < j => m[i] < m[j]

(* A list some elements of which are taken out stays in order and free of   *)
(* repetition.                                                              *)
LEMMA Thinned ==
    ASSUME NEW s \in Seq(Timer), NEW r \in Seq(Timer), NEW m, Keeps(r, s, m)
    PROVE  /\ IsInjective(s) => IsInjective(r)
           /\ \A f \in [Timer -> Int] : Ascending(s, f) => Ascending(r, f)
           /\ ToSet(r) \subseteq ToSet(s)
<1>1. PICK n \in Nat : n = Len(s) /\ DOMAIN s = 1 .. n
  BY LenProperties
<1>2. PICK l \in Nat : l = Len(r) /\ DOMAIN r = 1 .. l
  BY LenProperties
<1>3. /\ \A i \in 1 .. l : m[i] \in 1 .. n /\ r[i] = s[m[i]]
      /\ \A i, j \in 1 .. l : i < j => m[i] < m[j]
  BY <1>1, <1>2 DEF Keeps
<1>4. ASSUME IsInjective(s) PROVE IsInjective(r)
  <2>1. ASSUME NEW i \in 1 .. l, NEW j \in 1 .. l, r[i] = r[j] PROVE i = j
    <3>1. m[i] = m[j]
      BY <1>1, <1>3, <1>4, <2>1 DEF IsInjective
    <3>2. ~(i < j) /\ ~(j < i)
      BY <1>3, <3>1
    <3> QED BY <3>2
  <2> QED BY <1>2, <2>1 DEF IsInjective
<1>5. ASSUME NEW f \in [Timer -> Int], Ascending(s, f) PROVE Ascending(r, f)
  <2>1. ASSUME NEW i \in 1 .. l, NEW j \in 1 .. l, i < j PROVE f[r[i]] <= f[r[j]]
    <3>1. m[i] < m[j] /\ m[i] \in 1 .. n /\ m[j] \in 1 .. n
      BY <1>3, <2>1
    <3>2. f[s[m[i]]] <= f[s[m[j]]]
      BY <1>1, <1>5, <3>1 DEF Ascending
    <3> QED BY <1>3, <3>2
  <2> QED BY <1>2, <2>1 DEF Ascending
<1>6. ToSet(r) \subseteq ToSet(s)
  BY <1>1, <1>2, <1>3 DEF ToSet
<1> QED BY <1>4, <1>5, <1>6

(* erase: one place of a list without repetition.                           *)
LEMMA Erased ==
    ASSUME NEW s \in Seq(Timer), IsInjective(s), NEW k \in 1 .. Len(s), NEW r, r = RemoveAt(s, k)
    PROVE  /\ r \in Seq(Timer) /\ IsInjective(r) /\ ToSet(r) = ToSet(s) \ {s[k]}
           /\ \A f \in [Timer -> Int] : Ascending(s, f) => Ascending(r, f)
<1>1. PICK n \in Nat : n = Len(s) /\ DOMAIN s = 1 .. n
  BY LenProperties
<1>k. k \in Nat /\ 1 <= k /\ k <= n
  BY <1>1
<1>2. /\ r \in Seq(Timer) /\ DOMAIN r = 1 .. n - 1
      /\ \A i \in 1 .. n - 1 : r[i] = IF i < k THEN s[i] ELSE s[i + 1]
  BY <1>1, PlaceRemoved
<1>3. Len(r) = n - 1
  <2>1. Len(r) \in Nat /\ DOMAIN r = 1 .. Len(r)
    BY <1>2, LenProperties
  <2>2. n - 1 \in Nat
    BY <1>k
  <2> QED BY <1>2, <2>1, <2>2
<1>4. PICK m : m = [i \in 1 .. n - 1 |-> IF i < k THEN i ELSE i + 1]
  OBVIOUS
<1>5. Keeps(r, s, m)
  <2>1. \A i \in 1 .. n - 1 : /\ m[i] = (IF i < k THEN i ELSE i + 1)
                              /\ m[i] \in 1 .. n
    BY <1>k, <1>4
  <2>2. m \in [1 .. Len(r) -> 1 .. Len(s)]
    BY <1>1, <1>3, <1>4, <2>1
  <2>3. \A i \in 1 .. n - 1 : r[i] = s[m[i]]
    BY <1>2, <2>1
  <2>4. \A i, j \in 1 .. n - 1 : i < j => m[i] < m[j]
    BY <1>k, <2>1
  <2> QED BY <1>3, <2>2, <2>3, <2>4 DEF Keeps
<1>6. /\ IsInjective(r) /\ ToSet(r) \subseteq ToSet(s)
      /\ \A f \in [Timer -> Int] : Ascending(s, f) => Ascending(r, f)
  BY <1>2, <1>5, Thinned
<1>7. s[k] \notin ToSet(r)
  <2>1. ASSUME NEW i \in 1 .. n - 1 PROVE r[i] # s[k]
    <3>1. PICK p \in 1 .. n : p = (IF i < k THEN i ELSE i + 1) /\ r[i] = s[p]
      BY <1>k, <1>2
    <3>2. p # k
      BY <1>k, <3>1
    <3> QED BY <1>1, <3>1, <3>2 DEF IsInjective
  <2> QED BY <1>2, <2>1 DEF ToSet
<1>8. ASSUME NEW i \in 1 .. n, i # k PROVE s[i] \in ToSet(r)
  <2>1. CASE i < k
    <3>1. i \in 1 .. n - 1 /\ r[i] = s[i]
      BY <1>k, <1>2, <2>1
    <3> QED BY <1>2, <3>1 DEF ToSet
  <2>2. CASE ~(i < k)
    <3>1. i - 1 \in 1 .. n - 1 /\ ~(i - 1 < k) /\ (i - 1) + 1 = i
      BY <1>k, <1>8, <2>2
    <3>2. r[i - 1] = s[i]
      BY <1>2, <3>1
    <3> QED BY <1>2, <3>1, <3>2 DEF ToSet
  <2> QED BY <2>1, <2>2
<1>9. ToSet(s) \ {s[k]} \subseteq ToSet(r)
  <2>1. ToSet(s) = {s[i] : i \in 1 .. n}
    BY <1>1 DEF ToSet
  <2> QED BY <1>8, <2>1
<1> QED BY <1>2, <1>6, <1>7, <1>9

(* unregister_timer: find and erase.                                        *)
LEMMA Unregistered ==
    ASSUME NEW s \in Seq(Timer), IsInjective(s), NEW e, NEW r, r = RemoveFirst(s, e)
    PROVE  /\ r \in Seq(Timer) /\ IsInjective(r) /\ ToSet(r) = ToSet(s) \ {e}
           /\ \A f \in [Timer -> Int] : Ascending(s, f) => Ascending(r, f)
           /\ e \notin ToSet(s) => r = s
<1>1. DOMAIN s = 1 .. Len(s)
  BY LenProperties
<1>2. CASE ~ \E i \in 1 .. Len(s) : s[i] = e
  BY <1>1, <1>2 DEF RemoveFirst, ToSet
<1>3. CASE \E i \in 1 .. Len(s) : s[i] = e
  <2>1. PICK I : I = {i \in 1 .. Len(s) : s[i] = e}
    OBVIOUS
  <2>2. I \in SUBSET Nat /\ I # {}
    BY <1>3, <2>1
  <2>3. PICK k \in I : k = Min(I)
    BY <2>2, Least
  <2>4. k \in 1 .. Len(s) /\ s[k] = e
    BY <2>1, <2>3
  <2>5. SelectInSeq(s, LAMBDA v : v = e) = k
    BY <2>1, <2>2, <2>3 DEF SelectInSeq
  <2>6. r = RemoveAt(s, k)
    BY <1>3, <2>5 DEF RemoveFirst
  <2>7. e \in ToSet(s)
    BY <1>1, <2>4 DEF ToSet
  <2> QED BY <2>4, <2>6, <2>7, Erased
<1> QED BY <1>2, <1>3

(* std::lower_bound on a list in order: what is left of its place is less,  *)
(* and nothing else.                                                        *)
LEMMA Bounded ==
    ASSUME next_trigger \in [Timer -> Time], MaxTime \in Nat,
           NEW s \in Seq(Timer), Ascending(s, next_trigger), NEW time \in Time
    PROVE  /\ lower_bound(s, time) \in 1 .. Len(s) + 1
           /\ \A k \in 1 .. Len(s) : k < lower_bound(s, time) <=> next_trigger[s[k]] < time
<1> DEFINE less(i) == i < 1 \/ (i <= Len(s) /\ next_trigger[s[i]] < time)
           fits(i) == /\ less(i - 1) /\ ~less(i)
                      /\ \A j \in (i + 1) .. (Len(s) + 1) : less(j) \/ ~less(j - 1)
<1>1. PICK n \in Nat : n = Len(s)
  BY LenProperties
<1>2. \A i \in 1 .. n : next_trigger[s[i]] \in Int
  <2>1. \A i \in 1 .. n : s[i] \in Timer
    BY <1>1, ElementOfSeq
  <2> QED BY <2>1 DEF Time, CancelTime
<1>3. time \in Int
  BY DEF Time, CancelTime
<1>4. \A i, j \in 1 .. n : i < j => next_trigger[s[i]] <= next_trigger[s[j]]
  BY <1>1 DEF Ascending
<1>5. \E i \in 1 .. n + 1 : fits(i)
  <2>1. PICK I : I = {i \in 1 .. n + 1 : ~less(i)}
    OBVIOUS
  <2>2. n + 1 \in I
    BY <1>1, <2>1
  <2>3. I \in SUBSET Nat /\ I # {}
    BY <2>1, <2>2
  <2>4. PICK i \in I : \A j \in I : i <= j
    BY <2>3, Least
  <2>5. i \in 1 .. n + 1 /\ ~less(i)
    BY <2>1, <2>4
  <2>6. less(i - 1)
    <3>1. CASE i = 1
      BY <3>1
    <3>2. CASE i # 1
      <4>1. i - 1 \in 1 .. n + 1 /\ ~(i <= i - 1)
        BY <2>5, <3>2
      <4>2. i - 1 \notin I
        BY <2>4, <4>1
      <4> QED BY <2>1, <4>1, <4>2
    <3> QED BY <3>1, <3>2
  <2>7. ASSUME NEW j \in (i + 1) .. (n + 1) PROVE ~less(j - 1)
    <3>1. j - 1 \in 1 .. n /\ i \in 1 .. n /\ i <= j - 1
      BY <1>1, <2>5, <2>7
    <3>2. ~(next_trigger[s[i]] < time)
      BY <1>1, <2>5, <3>1
    <3>3. next_trigger[s[i]] <= next_trigger[s[j - 1]]
      <4>1. CASE i = j - 1
        BY <1>2, <3>1, <4>1
      <4>2. CASE i # j - 1
        <5>1. i < j - 1
          BY <3>1, <4>2
        <5> QED BY <1>4, <3>1, <5>1
      <4> QED BY <4>1, <4>2
    <3>4. ~(next_trigger[s[j - 1]] < time)
      BY <1>2, <1>3, <3>1, <3>2, <3>3
    <3>5. ~(j - 1 < 1)
      BY <3>1
    <3> QED BY <3>4, <3>5
  <2>8. fits(i)
    BY <1>1, <2>5, <2>6, <2>7
  <2> QED BY <2>5, <2>8
<1>6. PICK b : b = lower_bound(s, time)
  OBVIOUS
<1>7. b = CHOOSE i \in 1 .. (n + 1) : fits(i)
  BY <1>1, <1>6 DEF lower_bound
<1>8. b \in 1 .. n + 1 /\ fits(b)
  <2> HIDE DEF fits
  <2> QED BY <1>5, <1>7
<1>9. b \in Nat /\ b - 1 \in Int /\ less(b - 1) /\ ~less(b)
  BY <1>8
<1>10. ASSUME NEW k \in 1 .. n PROVE k < b <=> next_trigger[s[k]] < time
  <2>1. CASE k < b
    <3>1. b - 1 \in 1 .. n /\ k <= b - 1 /\ ~(b - 1 < 1)
      BY <1>8, <2>1
    <3>2. next_trigger[s[b - 1]] < time
      BY <1>9, <3>1
    <3>3. next_trigger[s[k]] <= next_trigger[s[b - 1]]
      <4>1. CASE k = b - 1
        BY <1>2, <3>1, <4>1
      <4>2. CASE k # b - 1
        <5>1. k < b - 1
          BY <3>1, <4>2
        <5> QED BY <1>4, <3>1, <5>1
      <4> QED BY <4>1, <4>2
    <3> QED BY <1>2, <1>3, <2>1, <3>1, <3>2, <3>3
  <2>2. CASE ~(k < b)
    <3>1. b \in 1 .. n /\ b <= k /\ ~(b < 1)
      BY <1>8, <2>2
    <3>2. ~(next_trigger[s[b]] < time)
      BY <1>1, <1>9, <3>1
    <3>3. next_trigger[s[b]] <= next_trigger[s[k]]
      <4>1. CASE k = b
        BY <1>2, <3>1, <4>1
      <4>2. CASE k # b
        <5>1. b < k
          BY <3>1, <4>2
        <5> QED BY <1>4, <3>1, <5>1
      <4> QED BY <4>1, <4>2
    <3> QED BY <1>2, <1>3, <2>2, <3>1, <3>2, <3>3
  <2> QED BY <2>1, <2>2
<1> QED BY <1>1, <1>6, <1>8, <1>10

(* emplace: the element at its place, the others around it.                 *)
IsEmplaced(r, s, k, e) ==
    /\ r \in Seq(Timer) /\ Len(r) = Len(s) + 1
    /\ \A i \in 1 .. Len(s) + 1 : r[i] = IF i < k THEN s[i] ELSE IF i = k THEN e ELSE s[i - 1]

LEMMA PlaceTaken ==
    ASSUME NEW s \in Seq(Timer), NEW k \in 1 .. Len(s) + 1, NEW e \in Timer
    PROVE  IsEmplaced(InsertAt(s, k, e), s, k, e)
<1>1. PICK n \in Nat : n = Len(s)
  BY LenProperties
<1>2. DOMAIN s = 1 .. n /\ \A i \in 1 .. n : s[i] \in Timer
  BY <1>1, LenProperties
<1>3. PICK a : a = SubSeq(s, 1, k - 1)
  OBVIOUS
<1>4. PICK b : b = SubSeq(s, k, n)
  OBVIOUS
<1>k. k \in Nat /\ 1 <= k /\ k <= n + 1
  BY <1>1
<1>5. a \in Seq(Timer) /\ Len(a) = k - 1 /\ \A i \in 1 .. k - 1 : a[i] = s[i]
  <2>1. \A i \in 1 .. k - 1 : s[i] \in Timer
    BY <1>2, <1>k
  <2>2. 1 \in Int /\ k - 1 \in Int
    BY <1>k
  <2>3. /\ a \in Seq(Timer) /\ Len(a) = (IF 1 <= k - 1 THEN k - 1 - 1 + 1 ELSE 0)
        /\ \A i \in 1 .. k - 1 - 1 + 1 : a[i] = s[1 + i - 1]
    BY <1>3, <2>1, <2>2, SubSeqProperties
  <2>4. ASSUME NEW i \in 1 .. k - 1 PROVE a[i] = s[i]
    <3>1. i \in 1 .. k - 1 - 1 + 1 /\ 1 + i - 1 = i
      BY <1>k
    <3> QED BY <2>3, <3>1
  <2>5. Len(a) = k - 1
    BY <1>k, <2>3
  <2> QED BY <2>3, <2>4, <2>5
<1>6. b \in Seq(Timer) /\ Len(b) = n - k + 1 /\ \A i \in 1 .. n - k + 1 : b[i] = s[k + i - 1]
  <2>1. \A i \in k .. n : s[i] \in Timer
    BY <1>2, <1>k
  <2>2. k \in Int /\ n \in Int
    BY <1>1, <1>k
  <2>3. /\ b \in Seq(Timer) /\ Len(b) = (IF k <= n THEN n - k + 1 ELSE 0)
        /\ \A i \in 1 .. n - k + 1 : b[i] = s[k + i - 1]
    BY <1>4, <2>1, <2>2, SubSeqProperties
  <2>5. Len(b) = n - k + 1
    BY <1>1, <1>k, <2>3
  <2> QED BY <2>3, <2>5
<1>7. PICK c : c = a \o <<e>>
  OBVIOUS
<1>8. c \in Seq(Timer) /\ Len(c) = k /\ (\A i \in 1 .. k - 1 : c[i] = s[i]) /\ c[k] = e
  <2>1. <<e>> \in Seq(Timer) /\ Len(<<e>>) = 1 /\ <<e>>[1] = e
    OBVIOUS
  <2>2. /\ c \in Seq(Timer) /\ Len(c) = Len(a) + 1
        /\ \A i \in 1 .. Len(a) + 1 : c[i] = IF i <= Len(a) THEN a[i] ELSE <<e>>[i - Len(a)]
    BY <1>5, <1>7, <2>1, ConcatProperties
  <2>3. Len(c) = k
    BY <1>k, <1>5, <2>2
  <2>4. \A i \in 1 .. k - 1 : c[i] = a[i]
    BY <1>k, <1>5, <2>2
  <2>5. c[k] = <<e>>[1]
    <3>1. k \in 1 .. Len(a) + 1 /\ ~(k <= Len(a)) /\ k - Len(a) = 1
      BY <1>k, <1>5
    <3> QED BY <2>2, <3>1
  <2> QED BY <1>5, <2>1, <2>2, <2>3, <2>4, <2>5
<1>9. PICK r : r = c \o b
  OBVIOUS
<1>10. /\ r \in Seq(Timer) /\ Len(r) = Len(c) + Len(b)
       /\ \A i \in 1 .. Len(c) + Len(b) : r[i] = IF i <= Len(c) THEN c[i] ELSE b[i - Len(c)]
  BY <1>6, <1>8, <1>9, ConcatProperties
<1>11. Len(r) = n + 1
  BY <1>1, <1>k, <1>6, <1>8, <1>10
<1>12. ASSUME NEW i \in 1 .. n + 1
       PROVE  r[i] = IF i < k THEN s[i] ELSE IF i = k THEN e ELSE s[i - 1]
  <2>0. i \in Int /\ i \in 1 .. Len(c) + Len(b)
    BY <1>1, <1>k, <1>6, <1>8
  <2>1. CASE i < k
    <3>1. i <= Len(c) /\ i \in 1 .. k - 1
      BY <1>k, <1>8, <2>0, <2>1
    <3> QED BY <1>8, <1>10, <2>0, <2>1, <3>1
  <2>2. CASE i = k
    <3>1. i <= Len(c) /\ ~(i < k)
      BY <1>k, <1>8, <2>0, <2>2
    <3> QED BY <1>8, <1>10, <2>0, <2>2, <3>1
  <2>3. CASE k < i
    <3>1. ~(i <= Len(c)) /\ i - Len(c) = i - k /\ i - k \in 1 .. n - k + 1 /\ k + (i - k) - 1 = i - 1
      BY <1>1, <1>k, <1>8, <2>0, <2>3
    <3>2. r[i] = b[i - k]
      BY <1>10, <2>0, <3>1
    <3>3. b[i - k] = s[k + (i - k) - 1]
      BY <1>6, <3>1
    <3>4. ~(i < k) /\ i # k
      BY <1>k, <2>0, <2>3
    <3> QED BY <3>1, <3>2, <3>3, <3>4
  <2> QED BY <1>k, <2>0, <2>1, <2>2, <2>3
<1>13. InsertAt(s, k, e) = r
  BY <1>1, <1>3, <1>4, <1>7, <1>9 DEF InsertAt
<1> QED BY <1>1, <1>10, <1>11, <1>12, <1>13 DEF IsEmplaced

(* An updated event put at its lower bound leaves the list in order of the  *)
(* new trigger times.                                                       *)
LEMMA Emplaced ==
    ASSUME next_trigger \in [Timer -> Time], MaxTime \in Nat,
           NEW s \in Seq(Timer), IsInjective(s), Ascending(s, next_trigger),
           NEW t \in Timer, t \notin ToSet(s), NEW when \in Time,
           NEW r, r = InsertAt(s, lower_bound(s, when), t),
           NEW f, f = [next_trigger EXCEPT ![t] = when]
    PROVE  r \in Seq(Timer) /\ IsInjective(r) /\ ToSet(r) = ToSet(s) \cup {t} /\ Ascending(r, f)
<1>1. PICK n \in Nat : n = Len(s) /\ DOMAIN s = 1 .. n
  BY LenProperties
<1>2. PICK k : k = lower_bound(s, when)
  OBVIOUS
<1>3. k \in 1 .. n + 1 /\ \A i \in 1 .. n : i < k <=> next_trigger[s[i]] < when
  BY <1>1, <1>2, Bounded
<1>4. /\ r \in Seq(Timer) /\ Len(r) = n + 1
      /\ \A i \in 1 .. n + 1 : r[i] = IF i < k THEN s[i] ELSE IF i = k THEN t ELSE s[i - 1]
  <2>1. k \in 1 .. Len(s) + 1 /\ r = InsertAt(s, k, t)
    BY <1>1, <1>2, <1>3
  <2>2. IsEmplaced(r, s, k, t)
    BY <2>1, PlaceTaken
  <2> QED BY <1>1, <2>2 DEF IsEmplaced
<1>5. DOMAIN r = 1 .. n + 1
  BY <1>4, LenProperties
<1>k. k \in Nat /\ 1 <= k /\ k <= n + 1
  BY <1>1, <1>3
<1>6. r[k] = t
  BY <1>k, <1>4
<1>7. \A i \in 1 .. n + 1 : i # k => \E q \in 1 .. n : q = (IF i < k THEN i ELSE i - 1) /\ r[i] = s[q]
  <2>1. ASSUME NEW i \in 1 .. n + 1, i # k
        PROVE  \E q \in 1 .. n : q = (IF i < k THEN i ELSE i - 1) /\ r[i] = s[q]
    <3>1. CASE i < k
      <4>1. i \in 1 .. n
        BY <1>k, <3>1
      <4> QED BY <1>4, <3>1, <4>1
    <3>2. CASE ~(i < k)
      <4>1. i - 1 \in 1 .. n
        BY <1>k, <2>1, <3>2
      <4> QED BY <1>4, <2>1, <3>2, <4>1
    <3> QED BY <3>1, <3>2
  <2> QED BY <2>1
<1>8. \A q \in 1 .. n : s[q] # t /\ s[q] \in Timer
  <2>1. \A q \in 1 .. n : s[q] \in Timer
    BY <1>1, ElementOfSeq
  <2>2. \A q \in 1 .. n : s[q] # t
    BY <1>1 DEF ToSet
  <2> QED BY <2>1, <2>2
<1>9. IsInjective(r)
  <2>1. ASSUME NEW i \in 1 .. n + 1, NEW j \in 1 .. n + 1, i # j PROVE r[i] # r[j]
    <3>1. CASE i = k
      BY <1>6, <1>7, <1>8, <2>1, <3>1
    <3>2. CASE j = k
      BY <1>6, <1>7, <1>8, <2>1, <3>2
    <3>3. CASE i # k /\ j # k
      <4>1. PICK p \in 1 .. n : p = (IF i < k THEN i ELSE i - 1) /\ r[i] = s[p]
        BY <1>7, <3>3
      <4>2. PICK q \in 1 .. n : q = (IF j < k THEN j ELSE j - 1) /\ r[j] = s[q]
        BY <1>7, <3>3
      <4>3. p # q
        BY <1>k, <2>1, <3>3, <4>1, <4>2
      <4> QED BY <1>1, <4>1, <4>2, <4>3 DEF IsInjective
    <3> QED BY <3>1, <3>2, <3>3
  <2> QED BY <1>5, <2>1 DEF IsInjective
<1>10. ToSet(r) = ToSet(s) \cup {t}
  <2>1. ToSet(r) = {r[i] : i \in 1 .. n + 1} /\ ToSet(s) = {s[i] : i \in 1 .. n}
    BY <1>1, <1>5 DEF ToSet
  <2>2. ToSet(r) \subseteq ToSet(s) \cup {t}
    BY <1>6, <1>7, <2>1
  <2>3. ASSUME NEW q \in 1 .. n PROVE \E i \in 1 .. n + 1 : r[i] = s[q]
    <3>1. CASE q < k
      <4>1. q \in 1 .. n + 1
        OBVIOUS
      <4> QED BY <1>4, <3>1, <4>1
    <3>2. CASE ~(q < k)
      <4>1. q + 1 \in 1 .. n + 1 /\ ~(q + 1 < k) /\ q + 1 # k /\ (q + 1) - 1 = q
        BY <1>k, <3>2
      <4>2. r[q + 1] = s[(q + 1) - 1]
        BY <1>4, <4>1
      <4> QED BY <4>1, <4>2
    <3> QED BY <3>1, <3>2
  <2>4. t \in ToSet(r)
    BY <1>3, <1>6, <2>1
  <2> QED BY <2>1, <2>2, <2>3, <2>4
<1>11. Ascending(r, f)
  <2>1. f[t] = when /\ \A q \in 1 .. n : f[s[q]] = next_trigger[s[q]] /\ next_trigger[s[q]] \in Int
    BY <1>8 DEF Time, CancelTime
  <2>w. when \in Int
    BY DEF Time, CancelTime
  <2>2. ASSUME NEW i \in 1 .. n + 1, NEW j \in 1 .. n + 1, i < j PROVE f[r[i]] <= f[r[j]]
    <3>1. CASE i = k
      <4>1. PICK q \in 1 .. n : q = j - 1 /\ r[j] = s[q]
        BY <1>k, <1>7, <2>2, <3>1
      <4>2. ~(q < k)
        BY <1>k, <2>2, <3>1, <4>1
      <4>3. ~(next_trigger[s[q]] < when)
        BY <1>3, <4>2
      <4> QED BY <1>6, <2>1, <2>w, <3>1, <4>1, <4>3
    <3>2. CASE j = k
      <4>1. PICK q \in 1 .. n : q = i /\ r[i] = s[q]
        BY <1>k, <1>7, <2>2, <3>2
      <4>2. next_trigger[s[q]] < when
        BY <1>3, <2>2, <3>2, <4>1
      <4> QED BY <1>6, <2>1, <2>w, <3>2, <4>1, <4>2
    <3>3. CASE i # k /\ j # k
      <4>1. PICK p \in 1 .. n : p = (IF i < k THEN i ELSE i - 1) /\ r[i] = s[p]
        BY <1>7, <3>3
      <4>2. PICK q \in 1 .. n : q = (IF j < k THEN j ELSE j - 1) /\ r[j] = s[q]
        BY <1>7, <3>3
      <4>3. p < q
        BY <1>k, <2>2, <3>3, <4>1, <4>2
      <4>4. next_trigger[s[p]] <= next_trigger[s[q]]
        BY <1>1, <4>3 DEF Ascending
      <4> QED BY <2>1, <4>1, <4>2, <4>4
    <3> QED BY <3>1, <3>2, <3>3
  <2> QED BY <1>4, <2>2 DEF Ascending
<1> QED BY <1>4, <1>9, <1>10, <1>11

(* What std::sort leaves: the same events, in order.                        *)
LEMMA Rearranged ==
    ASSUME next_trigger \in [Timer -> Time], MaxTime \in Nat,
           NEW s \in Seq(Timer), IsInjective(s), NEW r \in sort_timers(s)
    PROVE  r \in Seq(Timer) /\ IsInjective(r) /\ ToSet(r) = ToSet(s) /\ Ascending(r, next_trigger)
<1>1. PICK n \in Nat : n = Len(s) /\ DOMAIN s = 1 .. n
  BY LenProperties
<1>2. PICK place \in Bijection(DOMAIN s, DOMAIN s) : r = [i \in DOMAIN s |-> s[place[i]]]
  BY DEF sort_timers
<1>3. \A i, j \in DOMAIN s : i < j => ~event_compare(r[j], r[i])
  BY DEF sort_timers
<1>4. /\ place \in [1 .. n -> 1 .. n] /\ IsInjective(place)
      /\ \A m \in 1 .. n : \E i \in 1 .. n : place[i] = m
  BY <1>1, <1>2 DEF Bijection, Injection, Surjection
<1>5. \A i \in 1 .. n : s[i] \in Timer
  BY <1>1, ElementOfSeq
<1>6. /\ r = [i \in 1 .. n |-> s[place[i]]]
      /\ \A i \in 1 .. n : r[i] = s[place[i]] /\ place[i] \in 1 .. n /\ r[i] \in Timer
  BY <1>1, <1>2, <1>4, <1>5
<1>7. r \in Seq(Timer) /\ Len(r) = n /\ DOMAIN r = 1 .. n
  BY <1>6
<1>8. IsInjective(r)
  <2>1. ASSUME NEW i \in 1 .. n, NEW j \in 1 .. n, r[i] = r[j] PROVE i = j
    <3>1. place[i] = place[j]
      BY <1>1, <1>6, <2>1 DEF IsInjective
    <3> QED BY <1>4, <3>1 DEF IsInjective
  <2> QED BY <1>7, <2>1 DEF IsInjective
<1>9. ToSet(r) = ToSet(s)
  <2>1. ToSet(r) = {r[i] : i \in 1 .. n} /\ ToSet(s) = {s[i] : i \in 1 .. n}
    BY <1>1, <1>7 DEF ToSet
  <2>2. ToSet(r) \subseteq ToSet(s)
    BY <1>6, <2>1
  <2>3. ASSUME NEW m \in 1 .. n PROVE s[m] \in ToSet(r)
    <3>1. PICK i \in 1 .. n : place[i] = m
      BY <1>4
    <3>2. r[i] = s[m]
      BY <1>6, <3>1
    <3> QED BY <2>1, <3>1, <3>2
  <2> QED BY <2>1, <2>2, <2>3
<1>10. Ascending(r, next_trigger)
  <2>1. \A i \in 1 .. n : next_trigger[r[i]] \in Int
    BY <1>6 DEF Time, CancelTime
  <2>2. \A i, j \in 1 .. n : i < j => ~(next_trigger[r[j]] < next_trigger[r[i]])
    BY <1>1, <1>3 DEF event_compare
  <2> QED BY <1>7, <2>1, <2>2 DEF Ascending
<1> QED BY <1>7, <1>8, <1>9, <1>10

(* The cancelled events are at the end of a list in order: erasing from the *)
(* lower bound of CancelTime drops them and no other.                       *)
LEMMA Cut ==
    ASSUME next_trigger \in [Timer -> Time], MaxTime \in Nat,
           NEW s \in Seq(Timer), IsInjective(s), Ascending(s, next_trigger),
           NEW r, r = SubSeq(s, 1, lower_bound(s, CancelTime) - 1)
    PROVE  /\ r \in Seq(Timer) /\ IsInjective(r) /\ Ascending(r, next_trigger)
           /\ ToSet(r) = {t \in ToSet(s) : next_trigger[t] < CancelTime}
<1>1. PICK n \in Nat : n = Len(s) /\ DOMAIN s = 1 .. n
  BY LenProperties
<1>2. PICK k : k = lower_bound(s, CancelTime)
  OBVIOUS
<1>c. CancelTime \in Time
  BY DEF Time, CancelTime
<1>3. k \in 1 .. n + 1 /\ \A i \in 1 .. n : i < k <=> next_trigger[s[i]] < CancelTime
  BY <1>1, <1>2, <1>c, Bounded
<1>k. k \in Nat /\ 1 <= k /\ k <= n + 1
  BY <1>1, <1>3
<1>5. r \in Seq(Timer) /\ Len(r) = k - 1 /\ \A i \in 1 .. k - 1 : r[i] = s[i]
  <2>1. \A i \in 1 .. k - 1 : s[i] \in Timer
    BY <1>k, <1>1, ElementOfSeq
  <2>2. 1 \in Int /\ k - 1 \in Int
    BY <1>k
  <2>3. /\ r \in Seq(Timer) /\ Len(r) = (IF 1 <= k - 1 THEN k - 1 - 1 + 1 ELSE 0)
        /\ \A i \in 1 .. k - 1 - 1 + 1 : r[i] = s[1 + i - 1]
    BY <1>2, <2>1, <2>2, SubSeqProperties
  <2>4. ASSUME NEW i \in 1 .. k - 1 PROVE r[i] = s[i]
    <3>1. i \in 1 .. k - 1 - 1 + 1 /\ 1 + i - 1 = i
      BY <1>k
    <3> QED BY <2>3, <3>1
  <2>5. Len(r) = k - 1
    BY <1>k, <2>3
  <2> QED BY <2>3, <2>4, <2>5
<1>6. DOMAIN r = 1 .. k - 1
  BY <1>5, LenProperties
<1>7. PICK m : m = [i \in 1 .. k - 1 |-> i]
  OBVIOUS
<1>8. Keeps(r, s, m)
  BY <1>1, <1>k, <1>5, <1>7 DEF Keeps
<1>9. next_trigger \in [Timer -> Int]
  BY DEF Time, CancelTime
<1>10. IsInjective(r) /\ Ascending(r, next_trigger)
  BY <1>5, <1>8, <1>9, Thinned
<1>11. ToSet(r) = {r[i] : i \in 1 .. k - 1} /\ ToSet(s) = {s[i] : i \in 1 .. n}
  BY <1>1, <1>6 DEF ToSet
<1>12. \A i \in 1 .. k - 1 : i \in 1 .. n /\ i < k
  BY <1>k
<1>13. \A i \in 1 .. n : i < k => i \in 1 .. k - 1
  BY <1>k
<1>14. ToSet(r) = {t \in ToSet(s) : next_trigger[t] < CancelTime}
  BY <1>3, <1>5, <1>11, <1>12, <1>13
<1> QED BY <1>5, <1>10, <1>14

(* A pending event is found and taken out of a list in order.               *)
LEMMA TakenOut ==
    ASSUME next_trigger \in [Timer -> Time], MaxTime \in Nat,
           NEW s \in Seq(Timer), IsInjective(s), Ascending(s, next_trigger),
           NEW t \in Timer, NEW r, r = erase_active(s, t)
    PROVE  r \in Seq(Timer) /\ IsInjective(r) /\ ToSet(r) = ToSet(s) \ {t} /\ Ascending(r, next_trigger)
<1>1. PICK n \in Nat : n = Len(s) /\ DOMAIN s = 1 .. n
  BY LenProperties
<1>2. next_trigger[t] \in Time /\ next_trigger[t] \in Int /\ next_trigger \in [Timer -> Int]
  BY DEF Time, CancelTime
<1>3. PICK from : from = lower_bound(s, next_trigger[t])
  OBVIOUS
<1>4. from \in 1 .. n + 1 /\ \A i \in 1 .. n : i < from <=> next_trigger[s[i]] < next_trigger[t]
  BY <1>1, <1>2, <1>3, Bounded
<1>5. PICK hits : hits = {i \in from .. n : s[i] = t}
  OBVIOUS
<1>6. hits \in SUBSET Nat /\ \A i \in hits : i \in 1 .. n /\ s[i] = t
  BY <1>4, <1>5
<1>7. \A i \in 1 .. n : s[i] = t => i \in hits
  <2>1. ASSUME NEW i \in 1 .. n, s[i] = t PROVE i \in hits
    <3>1. ~(next_trigger[s[i]] < next_trigger[t])
      BY <1>2, <2>1
    <3>2. ~(i < from)
      BY <1>4, <3>1
    <3> QED BY <1>4, <1>5, <2>1, <3>2
  <2> QED BY <2>1
<1>8. CASE hits = {}
  <2>1. r = s
    BY <1>1, <1>3, <1>5, <1>8 DEF erase_active
  <2>2. t \notin ToSet(s)
    BY <1>1, <1>7, <1>8 DEF ToSet
  <2> QED BY <2>1, <2>2
<1>9. CASE hits # {}
  <2>1. PICK k : k = CHOOSE i \in hits : \A j \in hits : i <= j
    OBVIOUS
  <2>2. \E i \in hits : \A j \in hits : i <= j
    BY <1>6, <1>9, Least
  <2>3. k \in hits
    BY <2>1, <2>2
  <2>4. k \in 1 .. Len(s) /\ s[k] = t
    BY <1>1, <1>6, <2>3
  <2>5. r = RemoveAt(s, k)
    BY <1>1, <1>3, <1>5, <1>9, <2>1 DEF erase_active
  <2> QED BY <1>2, <2>4, <2>5, Erased
<1> QED BY <1>8, <1>9

(* The active events are in order whenever the service thread reads them by *)
(* their times: only the callbacks of a walk disturb it, until the sort.    *)
TiOrdered == (service \in {"trigger", "sort"} /\ did_something) \/ Ascending(active_timers, next_trigger)

(* An armed event that is not pending is active and not cancelled, so that  *)
(* the sort keeps it.                                                       *)
TiArmed ==
    \A t \in armed : \/ t \in ToSet(pending_timers)
                     \/ t \in ToSet(active_timers) /\ next_trigger[t] < CancelTime

(* The inductive invariant of the timed events.                             *)
TiInv == /\ TimedTypeOK /\ TimedEventsSound /\ TiOrdered /\ TiArmed
         /\ service = "trigger" => cursor >= 1

LEMMA TiStart == ASSUME MaxTime \in Nat, TimedInit PROVE TiInv
<1>1. TimedTypeOK
  <2>1. next_trigger \in [Timer -> Time]
    BY DEF TimedInit, Time, CancelTime
  <2>2. now \in 0 .. MaxTime /\ current_time \in 0 .. now /\ cursor \in Nat
    BY DEF TimedInit
  <2>3. {did_something, skip_checking, allow_manipulation, stop} \subseteq BOOLEAN
    BY DEF TimedInit
  <2>4. pending_timers \in Seq(Timer) /\ active_timers \in Seq(Timer)
    BY DEF TimedInit
  <2> QED BY <2>1, <2>2, <2>3, <2>4 DEF TimedInit, TimedTypeOK
<1>2. TimedEventsSound
  <2>1. ToSet(<< >>) = {} /\ IsInjective(<< >>)
    BY DEF ToSet, IsInjective
  <2> QED BY <2>1 DEF TimedInit, TimedEventsSound
<1>3. TiOrdered
  BY DEF TimedInit, TiOrdered, Ascending
<1>4. TiArmed /\ service # "trigger"
  BY DEF TimedInit, TiArmed
<1> QED BY <1>1, <1>2, <1>3, <1>4 DEF TiInv

(* notify: an event is pending once.                                        *)
LEMMA Noted ==
    ASSUME NEW s \in Seq(Timer), IsInjective(s), NEW t \in Timer, NEW r,
           r = IF t \in ToSet(s) THEN s ELSE Append(s, t)
    PROVE  r \in Seq(Timer) /\ IsInjective(r) /\ ToSet(r) = ToSet(s) \cup {t}
<1>1. CASE t \in ToSet(s)
  BY <1>1
<1>2. CASE t \notin ToSet(s)
  <2>1. PICK n \in Nat : n = Len(s) /\ DOMAIN s = 1 .. n
    BY LenProperties
  <2>2. /\ r \in Seq(Timer) /\ Len(r) = n + 1
        /\ \A i \in 1 .. n : r[i] = s[i]
        /\ r[n + 1] = t
    BY <1>2, <2>1, AppendProperties
  <2>3. DOMAIN r = 1 .. n + 1
    BY <2>2, LenProperties
  <2>4. \A i \in 1 .. n : s[i] # t
    BY <1>2, <2>1 DEF ToSet
  <2>5. \A i \in 1 .. n + 1 : i \in 1 .. n \/ i = n + 1
    OBVIOUS
  <2>6. IsInjective(r)
    BY <2>1, <2>2, <2>3, <2>4, <2>5 DEF IsInjective
  <2>7. ToSet(r) = ToSet(s) \cup {t}
    <3>1. ToSet(r) = {r[i] : i \in 1 .. n + 1} /\ ToSet(s) = {s[i] : i \in 1 .. n}
      BY <2>1, <2>3 DEF ToSet
    <3>2. \A i \in 1 .. n : i \in 1 .. n + 1
      OBVIOUS
    <3>3. n + 1 \in 1 .. n + 1
      OBVIOUS
    <3> QED BY <2>2, <2>5, <3>1, <3>2, <3>3
  <2> QED BY <2>2, <2>6, <2>7
<1> QED BY <1>1, <1>2

(* The pending events without the first.                                    *)
LEMMA FirstTaken ==
    ASSUME NEW s \in Seq(Timer), IsInjective(s), s # << >>
    PROVE  /\ Head(s) \in Timer /\ Head(s) \in ToSet(s)
           /\ Tail(s) \in Seq(Timer) /\ IsInjective(Tail(s)) /\ ToSet(Tail(s)) = ToSet(s) \ {Head(s)}
<1>1. PICK n \in Nat : n = Len(s) /\ DOMAIN s = 1 .. n
  BY LenProperties
<1>2. n > 0 /\ Head(s) = s[1] /\ Head(s) \in Timer
  BY <1>1, HeadTailProperties
<1>3. PICK r : r = Tail(s)
  OBVIOUS
<1>4. r \in Seq(Timer) /\ Len(r) = n - 1 /\ \A i \in 1 .. Len(r) : r[i] = s[i + 1]
  BY <1>1, <1>3, HeadTailProperties
<1>5. DOMAIN r = 1 .. n - 1 /\ \A i \in 1 .. n - 1 : r[i] = s[i + 1]
  BY <1>4, LenProperties
<1>6. \A i \in 1 .. n - 1 : i + 1 \in 1 .. n /\ i + 1 # 1
  BY <1>1
<1>7. \A i \in 1 .. n : i # 1 => i - 1 \in 1 .. n - 1 /\ (i - 1) + 1 = i
  BY <1>1
<1>8. \A i, j \in 1 .. n : s[i] = s[j] => i = j
  BY <1>1 DEF IsInjective
<1>9. IsInjective(r)
  <2>1. ASSUME NEW i \in 1 .. n - 1, NEW j \in 1 .. n - 1, r[i] = r[j] PROVE i = j
    <3>1. i + 1 = j + 1
      BY <1>5, <1>6, <1>8, <2>1
    <3> QED BY <3>1
  <2> QED BY <1>5, <2>1 DEF IsInjective
<1>10. ToSet(r) = {r[i] : i \in 1 .. n - 1} /\ ToSet(s) = {s[i] : i \in 1 .. n}
  BY <1>1, <1>5 DEF ToSet
<1>11. 1 \in 1 .. n
  BY <1>2
<1>12. \A i \in 1 .. n - 1 : r[i] \in ToSet(s) /\ r[i] # s[1]
  BY <1>5, <1>6, <1>8, <1>10, <1>11
<1>13. \A i \in 1 .. n : s[i] # s[1] => s[i] \in ToSet(r)
  <2>1. ASSUME NEW i \in 1 .. n, s[i] # s[1] PROVE s[i] \in ToSet(r)
    <3>1. i - 1 \in 1 .. n - 1 /\ (i - 1) + 1 = i
      BY <1>7, <2>1
    <3>2. r[i - 1] = s[i]
      BY <1>5, <3>1
    <3> QED BY <1>10, <3>1, <3>2
  <2> QED BY <2>1
<1>14. ToSet(r) = ToSet(s) \ {Head(s)}
  BY <1>2, <1>10, <1>12, <1>13
<1> QED BY <1>2, <1>3, <1>4, <1>9, <1>10, <1>11, <1>14

(* A step that leaves the lists, the times and the owners' requests as they *)
(* are.                                                                     *)
LEMMA TiQuiet ==
    ASSUME MaxTime \in Nat, TiInv,
           UNCHANGED <<pending_timers, active_timers, next_trigger, armed>>,
           registered \subseteq registered', registered' \subseteq Timer,
           unregistering' \subseteq registered',
           now' \in 0 .. MaxTime, current_time' \in 0 .. now',
           service' \in {"top", "pending", "trigger", "sort", "decide", "wait", "awake", "exit", "exited"},
           cursor' \in Nat, {did_something', skip_checking', allow_manipulation', stop'} \subseteq BOOLEAN,
           service' = "trigger" => cursor' >= 1 /\ cursor' <= Len(active_timers) + 1,
           service' \in {"wait", "awake", "exited"} <=> allow_manipulation',
           (service' \in {"trigger", "sort"} /\ did_something') \/ Ascending(active_timers, next_trigger)
    PROVE  TiInv'
<1>1. TimedTypeOK'
  BY DEF TiInv, TimedTypeOK, Time, CancelTime
<1>2. TimedEventsSound'
  BY DEF TiInv, TimedEventsSound
<1>3. TiOrdered' /\ TiArmed'
  BY DEF TiInv, TiOrdered, TiArmed, CancelTime
<1> QED BY <1>1, <1>2, <1>3 DEF TiInv

LEMMA TiOthers ==
    ASSUME MaxTime \in Nat, TiInv, NEW t \in Timer,
           register_timer(t) \/ unregister_timer_begin(t)
    PROVE  TiInv'
<1> USE DEF TiInv, TimedTypeOK
<1>0. /\ service = "trigger" => cursor <= Len(active_timers) + 1
      /\ service \in {"wait", "awake", "exited"} <=> allow_manipulation
      /\ (service \in {"trigger", "sort"} /\ did_something) \/ Ascending(active_timers, next_trigger)
  BY DEF TimedEventsSound, TiOrdered
<1>1. CASE register_timer(t)
  BY <1>0, <1>1, TiQuiet DEF register_timer, Notified, mutex_free
<1>2. CASE unregister_timer_begin(t)
  BY <1>0, <1>2, TiQuiet DEF unregister_timer_begin
<1> QED BY <1>1, <1>2

LEMMA TiService ==
    ASSUME MaxTime \in Nat, TiInv,
           service_top \/ trigger_done \/ service_decide \/ service_wakes \/ service_exits
    PROVE  TiInv'
<1> USE DEF TiInv, TimedTypeOK
<1>0. /\ service = "trigger" => cursor <= Len(active_timers) + 1
      /\ service \in {"wait", "awake", "exited"} <=> allow_manipulation
      /\ (service \in {"trigger", "sort"} /\ did_something) \/ Ascending(active_timers, next_trigger)
  BY DEF TimedEventsSound, TiOrdered
<1>1. CASE service_top
  BY <1>0, <1>1, TiQuiet DEF service_top
<1>2. CASE trigger_done
  BY <1>0, <1>2, TiQuiet DEF trigger_done
<1>3. CASE service_decide
  BY <1>0, <1>3, TiQuiet DEF service_decide
<1>4. CASE service_wakes
  BY <1>0, <1>4, TiQuiet DEF service_wakes
<1>5. CASE service_exits
  BY <1>0, <1>5, TiQuiet DEF service_exits
<1> QED BY <1>1, <1>2, <1>3, <1>4, <1>5

LEMMA TiNotify ==
    ASSUME MaxTime \in Nat, TiInv, NEW t \in Timer, notify(t)
    PROVE  TiInv'
<1>1. /\ t \in registered /\ armed' = armed \cup {t}
      /\ pending_timers' = IF t \in ToSet(pending_timers) THEN pending_timers ELSE Append(pending_timers, t)
      /\ UNCHANGED <<registered, active_timers, next_trigger, unregistering, cursor, did_something,
                     skip_checking, allow_manipulation, stop, now, current_time>>
  BY DEF notify, register_timer_nts
<1>2. service' = service \/ (service = "wait" /\ service' = "awake")
  BY DEF notify, Notified
<1>3. /\ pending_timers' \in Seq(Timer) /\ IsInjective(pending_timers')
      /\ ToSet(pending_timers') = ToSet(pending_timers) \cup {t}
  BY <1>1, Noted DEF TiInv, TimedTypeOK, TimedEventsSound
<1>4. TimedTypeOK'
  BY <1>1, <1>2, <1>3 DEF TiInv, TimedTypeOK, Time, CancelTime
<1>5. TimedEventsSound'
  BY <1>1, <1>2, <1>3 DEF TiInv, TimedEventsSound
<1>6. TiOrdered' /\ TiArmed'
  BY <1>1, <1>2, <1>3 DEF TiInv, TiOrdered, TiArmed, CancelTime
<1> QED BY <1>1, <1>2, <1>4, <1>5, <1>6 DEF TiInv

LEMMA TiUnregister ==
    ASSUME MaxTime \in Nat, TiInv, NEW t \in Timer, unregister_timer(t)
    PROVE  TiInv'
<1>1. /\ pending_timers' = RemoveFirst(pending_timers, t) /\ active_timers' = RemoveFirst(active_timers, t)
      /\ registered' = registered \ {t} /\ armed' = armed \ {t} /\ unregistering' = unregistering \ {t}
      /\ UNCHANGED <<next_trigger, cursor, did_something, skip_checking, allow_manipulation, stop, now,
                     current_time>>
  BY DEF unregister_timer, remove_timer
<1>2. service' = service \/ (service = "wait" /\ service' = "awake")
  BY DEF unregister_timer, Notified
<1>3. /\ pending_timers' \in Seq(Timer) /\ IsInjective(pending_timers')
      /\ ToSet(pending_timers') = ToSet(pending_timers) \ {t}
  BY <1>1, Unregistered DEF TiInv, TimedTypeOK, TimedEventsSound
<1>4. next_trigger \in [Timer -> Int]
  BY DEF TiInv, TimedTypeOK, Time, CancelTime
<1>5. /\ active_timers' \in Seq(Timer) /\ IsInjective(active_timers')
      /\ ToSet(active_timers') = ToSet(active_timers) \ {t}
      /\ Ascending(active_timers, next_trigger) => Ascending(active_timers', next_trigger)
  BY <1>1, <1>4, Unregistered DEF TiInv, TimedTypeOK, TimedEventsSound
<1>6. service # "trigger" /\ service # "sort"
  BY DEF unregister_timer, TiInv, TimedEventsSound
<1>7. TimedTypeOK'
  BY <1>1, <1>2, <1>3, <1>5 DEF TiInv, TimedTypeOK, Time, CancelTime
<1>8. TimedEventsSound'
  BY <1>1, <1>2, <1>3, <1>5, <1>6 DEF TiInv, TimedEventsSound
<1>9. TiOrdered'
  BY <1>1, <1>2, <1>5, <1>6 DEF TiInv, TiOrdered
<1>10. TiArmed'
  BY <1>1, <1>3, <1>5 DEF TiInv, TiArmed, CancelTime
<1> QED BY <1>2, <1>6, <1>7, <1>8, <1>9, <1>10 DEF TiInv

(* One round of do_timer_actions: the pending events,                       *)
LEMMA TiPending ==
    ASSUME MaxTime \in Nat, TiInv, process_pending
    PROVE  TiInv'
<1>0. /\ service = "pending" /\ Ascending(active_timers, next_trigger) /\ next_trigger \in [Timer -> Time]
      /\ active_timers \in Seq(Timer) /\ IsInjective(active_timers)
      /\ pending_timers \in Seq(Timer) /\ IsInjective(pending_timers)
  BY DEF process_pending, TiInv, TimedTypeOK, TimedEventsSound, TiOrdered
<1>1. CASE pending_timers = << >>
  <2>1. /\ UNCHANGED <<pending_timers, active_timers, next_trigger, armed, registered, unregistering,
                       allow_manipulation, stop, now, current_time>>
        /\ service' = "trigger" /\ cursor' = 1 /\ skip_checking' = FALSE /\ did_something' = FALSE
    BY <1>1 DEF process_pending
  <2>2. cursor' >= 1 /\ cursor' <= Len(active_timers) + 1 /\ cursor' \in Nat
    BY <1>0, <2>1, LenProperties
  <2>3. ~allow_manipulation
    BY <1>0 DEF TiInv, TimedEventsSound
  <2> QED BY <1>0, <2>1, <2>2, <2>3, TiQuiet DEF TiInv, TimedTypeOK
<1>2. CASE pending_timers # << >>
  <2>1. PICK when \in (current_time .. MaxTime) \cup {CancelTime} :
          LET t == Head(pending_timers)
              rest == erase_active(active_timers, t)
          IN /\ pending_timers' = Tail(pending_timers)
             /\ next_trigger' = [next_trigger EXCEPT ![t] = when]
             /\ IF when = CancelTime
                THEN /\ active_timers' = rest /\ armed' = armed \ {t}
                ELSE /\ active_timers' = InsertAt(rest, lower_bound(rest, when), t)
                     /\ UNCHANGED armed
             /\ UNCHANGED <<service, cursor, skip_checking, did_something>>
    BY <1>2 DEF process_pending
  <2>2. PICK t : t = Head(pending_timers)
    OBVIOUS
  <2>3. PICK rest : rest = erase_active(active_timers, t)
    OBVIOUS
  <2>4. /\ pending_timers' = Tail(pending_timers) /\ next_trigger' = [next_trigger EXCEPT ![t] = when]
        /\ when = CancelTime => active_timers' = rest /\ armed' = armed \ {t}
        /\ when # CancelTime => /\ active_timers' = InsertAt(rest, lower_bound(rest, when), t)
                                /\ armed' = armed
        /\ UNCHANGED <<service, cursor, skip_checking, did_something>>
        /\ UNCHANGED <<registered, unregistering, allow_manipulation, stop, now, current_time>>
    BY <2>1, <2>2, <2>3 DEF process_pending
  <2>5. /\ t \in Timer /\ t \in ToSet(pending_timers)
        /\ pending_timers' \in Seq(Timer) /\ IsInjective(pending_timers')
        /\ ToSet(pending_timers') = ToSet(pending_timers) \ {t}
    BY <1>0, <1>2, <2>2, <2>4, FirstTaken
  <2>6. /\ rest \in Seq(Timer) /\ IsInjective(rest) /\ ToSet(rest) = ToSet(active_timers) \ {t}
        /\ Ascending(rest, next_trigger)
    BY <1>0, <2>3, <2>5, TakenOut
  <2>7. when \in Time /\ (when # CancelTime => when < CancelTime)
    BY DEF Time, CancelTime, TiInv, TimedTypeOK
  <2>8. next_trigger' \in [Timer -> Time] /\ next_trigger'[t] = when
        /\ \A u \in Timer : u # t => next_trigger'[u] = next_trigger[u]
    BY <1>0, <2>4, <2>5, <2>7
  <2>9. /\ active_timers' \in Seq(Timer) /\ IsInjective(active_timers') /\ Ascending(active_timers', next_trigger')
        /\ ToSet(active_timers') = IF when = CancelTime THEN ToSet(rest) ELSE ToSet(rest) \cup {t}
    <3>1. CASE when = CancelTime
      <4>1. active_timers' = rest
        BY <2>4, <3>1
      <4>2. PICK n \in Nat : n = Len(rest)
        BY <2>6, LenProperties
      <4>3. \A i \in 1 .. n : rest[i] \in Timer /\ rest[i] # t
        <5>1. \A i \in 1 .. n : rest[i] \in Timer
          BY <2>6, <4>2, ElementOfSeq
        <5>2. DOMAIN rest = 1 .. n
          BY <2>6, <4>2, LenProperties
        <5>3. \A i \in 1 .. n : rest[i] \in ToSet(rest)
          BY <5>2 DEF ToSet
        <5> QED BY <2>6, <5>1, <5>3
      <4>4. Ascending(rest, next_trigger')
        BY <2>6, <2>8, <4>2, <4>3 DEF Ascending
      <4> QED BY <2>6, <3>1, <4>1, <4>4
    <3>2. CASE when # CancelTime
      <4>1. active_timers' = InsertAt(rest, lower_bound(rest, when), t)
        BY <2>4, <3>2
      <4>2. t \notin ToSet(rest)
        BY <2>6
      <4>3. /\ active_timers' \in Seq(Timer) /\ IsInjective(active_timers')
            /\ ToSet(active_timers') = ToSet(rest) \cup {t} /\ Ascending(active_timers', next_trigger')
        BY <1>0, <2>4, <2>5, <2>6, <2>7, <4>1, <4>2, Emplaced
      <4> QED BY <3>2, <4>3
    <3> QED BY <3>1, <3>2
  <2>10. armed' = IF when = CancelTime THEN armed \ {t} ELSE armed
    BY <2>4
  <2>11. TimedTypeOK'
    BY <2>4, <2>5, <2>8, <2>9, <2>10 DEF TiInv, TimedTypeOK, Time, CancelTime
  <2>12. \A u \in ToSet(active_timers') : u \in ToSet(active_timers) \/ u = t
    BY <2>6, <2>9
  <2>13. ToSet(active_timers') \cup ToSet(pending_timers') \subseteq registered'
    BY <2>4, <2>5, <2>12 DEF TiInv, TimedEventsSound
  <2>14. TiArmed'
    <3>1. ASSUME NEW u \in armed'
          PROVE  u \in ToSet(pending_timers') \/ (u \in ToSet(active_timers') /\ next_trigger'[u] < CancelTime)
      <4>1. u \in armed /\ u \in Timer
        BY <2>10, <3>1 DEF TiInv, TimedTypeOK
      <4>2. CASE u = t
        BY <2>7, <2>8, <2>9, <2>10, <3>1, <4>2
      <4>3. CASE u # t
        <5>1. u \in ToSet(pending_timers) \/ (u \in ToSet(active_timers) /\ next_trigger[u] < CancelTime)
          BY <4>1 DEF TiInv, TiArmed
        <5> QED BY <2>5, <2>6, <2>8, <2>9, <4>1, <4>3, <5>1
      <4> QED BY <4>2, <4>3
    <3> QED BY <3>1 DEF TiArmed, CancelTime
  <2>15. TimedEventsSound'
    <3>1. armed' \subseteq ToSet(active_timers') \cup ToSet(pending_timers')
      BY <2>14 DEF TiArmed
    <3> QED BY <1>0, <2>4, <2>5, <2>9, <2>13, <3>1 DEF TiInv, TimedEventsSound
  <2> QED BY <1>0, <2>4, <2>9, <2>11, <2>14, <2>15 DEF TiInv, TiOrdered
<1> QED BY <1>1, <1>2

(* the events that are due, whose callbacks arm and destroy others,         *)
LEMMA TiTrigger ==
    ASSUME MaxTime \in Nat, TiInv, trigger_timer
    PROVE  TiInv'
<1>0. /\ service = "trigger" /\ next_trigger \in [Timer -> Time] /\ cursor \in Nat /\ cursor >= 1
      /\ cursor <= Len(active_timers)
      /\ active_timers \in Seq(Timer) /\ IsInjective(active_timers)
      /\ pending_timers \in Seq(Timer) /\ IsInjective(pending_timers)
      /\ registered \subseteq Timer /\ armed \subseteq registered /\ unregistering \subseteq registered
      /\ ToSet(active_timers) \cup ToSet(pending_timers) \subseteq registered
  BY DEF trigger_timer, Due, TiInv, TimedTypeOK, TimedEventsSound
<1>1. PICK t : t = active_timers[cursor]
  OBVIOUS
<1>2. t \in Timer
  BY <1>0, <1>1, ElementOfSeq
<1>3. PICK when \in ((current_time + 1) .. MaxTime) \cup {CancelTime} :
        LET kept == IF when = CancelTime THEN armed \ {t} ELSE armed IN
        /\ next_trigger' = [next_trigger EXCEPT ![t] = when]
        /\ \/ UNCHANGED <<registered, pending_timers, active_timers, skip_checking, service>>
           \/ \E u \in registered \ unregistering :
                /\ register_timer_nts(u)
                /\ UNCHANGED <<registered, active_timers, skip_checking, service>>
           \/ \E u \in registered \ (unregistering \cup {t}) :
                /\ remove_timer(u)
                /\ skip_checking' = skips(u)
                /\ service' = IF skip_checking' THEN "sort" ELSE service
        /\ armed' = (kept \cup ToSet(pending_timers')) \cap registered'
  BY <1>1 DEF trigger_timer
<1>4. /\ did_something' = TRUE /\ cursor' = cursor + 1
      /\ UNCHANGED <<unregistering, allow_manipulation, stop, now, current_time>>
  BY DEF trigger_timer
<1>5. when \in Time /\ (when # CancelTime => when < CancelTime)
  BY DEF Time, CancelTime, TiInv, TimedTypeOK
<1>6. /\ next_trigger' \in [Timer -> Time] /\ next_trigger'[t] = when
      /\ \A u \in Timer : u # t => next_trigger'[u] = next_trigger[u]
  BY <1>0, <1>2, <1>3, <1>5
<1>7. armed' = ((IF when = CancelTime THEN armed \ {t} ELSE armed) \cup ToSet(pending_timers')) \cap registered'
  BY <1>3
(* In every case the lists lose the events that are destroyed, no other. *)
<1>8. /\ pending_timers' \in Seq(Timer) /\ IsInjective(pending_timers')
      /\ active_timers' \in Seq(Timer) /\ IsInjective(active_timers')
      /\ registered' \subseteq Timer /\ unregistering \subseteq registered'
      /\ ToSet(active_timers') \cup ToSet(pending_timers') \subseteq registered'
      /\ \A u \in registered' : /\ u \in ToSet(active_timers) => u \in ToSet(active_timers')
                                /\ u \in ToSet(pending_timers) => u \in ToSet(pending_timers')
      /\ registered' \subseteq registered
      /\ service' = "sort" \/ (service' = "trigger" /\ active_timers' = active_timers)
      /\ skip_checking' \in BOOLEAN
  <2>1. CASE UNCHANGED <<registered, pending_timers, active_timers, skip_checking, service>>
    BY <1>0, <2>1 DEF TiInv, TimedTypeOK
  <2>2. CASE \E u \in registered \ unregistering :
                /\ register_timer_nts(u)
                /\ UNCHANGED <<registered, active_timers, skip_checking, service>>
    <3>1. PICK u \in registered \ unregistering :
                /\ register_timer_nts(u)
                /\ UNCHANGED <<registered, active_timers, skip_checking, service>>
      BY <2>2
    <3>2. u \in Timer /\ u \in registered
      BY <1>0, <3>1
    <3>3. /\ pending_timers' \in Seq(Timer) /\ IsInjective(pending_timers')
          /\ ToSet(pending_timers') = ToSet(pending_timers) \cup {u}
      BY <1>0, <3>1, <3>2, Noted DEF register_timer_nts
    <3> QED BY <1>0, <3>1, <3>2, <3>3 DEF TiInv, TimedTypeOK
  <2>3. CASE \E u \in registered \ (unregistering \cup {t}) :
                /\ remove_timer(u)
                /\ skip_checking' = skips(u)
                /\ service' = IF skip_checking' THEN "sort" ELSE service
    <3>1. PICK u \in registered \ (unregistering \cup {t}) :
                /\ remove_timer(u)
                /\ skip_checking' = skips(u)
                /\ service' = IF skip_checking' THEN "sort" ELSE service
      BY <2>3
    <3>2. /\ pending_timers' = RemoveFirst(pending_timers, u) /\ active_timers' = RemoveFirst(active_timers, u)
          /\ registered' = registered \ {u}
      BY <3>1 DEF remove_timer
    <3>3. /\ pending_timers' \in Seq(Timer) /\ IsInjective(pending_timers')
          /\ ToSet(pending_timers') = ToSet(pending_timers) \ {u}
      BY <1>0, <3>2, Unregistered
    <3>4. /\ active_timers' \in Seq(Timer) /\ IsInjective(active_timers')
          /\ ToSet(active_timers') = ToSet(active_timers) \ {u}
          /\ u \notin ToSet(active_timers) => active_timers' = active_timers
      BY <1>0, <3>2, Unregistered
    <3>5. skip_checking' \in BOOLEAN /\ (skip_checking' <=> u \in ToSet(active_timers))
      <4>1. skip_checking' = (u \in ToSet(active_timers))
        BY <3>1 DEF skips
      <4>2. CASE u \in ToSet(active_timers)
        BY <4>1, <4>2, Zenon
      <4>3. CASE u \notin ToSet(active_timers)
        <5>1. (u \in ToSet(active_timers)) = FALSE
          BY <4>3
        <5>2. skip_checking' = FALSE
          BY <4>1, <5>1
        <5> QED BY <4>3, <5>2
      <4> QED BY <4>2, <4>3
    <3>6. service' = "sort" \/ (service' = "trigger" /\ active_timers' = active_timers)
      BY <1>0, <3>1, <3>4, <3>5
    <3> QED BY <1>0, <3>1, <3>2, <3>3, <3>4, <3>5, <3>6
  <2> QED BY <1>3, <2>1, <2>2, <2>3
<1>9. TimedTypeOK'
  <2>1. armed' \subseteq registered'
    BY <1>7
  <2>2. {did_something', skip_checking', allow_manipulation', stop'} \subseteq BOOLEAN
    BY <1>4, <1>8 DEF TiInv, TimedTypeOK
  <2>3. cursor' \in Nat /\ now' \in 0 .. MaxTime /\ current_time' \in 0 .. now'
    BY <1>0, <1>4 DEF TiInv, TimedTypeOK
  <2>4. next_trigger' \in [Timer -> Time']
    BY <1>6 DEF Time, CancelTime
  <2> QED BY <1>4, <1>8, <2>1, <2>2, <2>3, <2>4 DEF TimedTypeOK
<1>10. TiArmed'
  <2>1. ASSUME NEW u \in armed', u \notin ToSet(pending_timers')
        PROVE  u \in ToSet(active_timers') /\ next_trigger'[u] < CancelTime
    <3>1. u \in armed /\ (when = CancelTime => u # t) /\ u \in registered'
      BY <1>7, <2>1
    <3>2. u \in Timer /\ u \notin ToSet(pending_timers)
      BY <1>8, <2>1, <3>1
    <3>3. u \in ToSet(active_timers) /\ next_trigger[u] < CancelTime
      BY <3>1, <3>2 DEF TiInv, TiArmed
    <3>4. u \in ToSet(active_timers')
      BY <1>8, <3>1, <3>3
    <3>5. next_trigger'[u] < CancelTime
      BY <1>5, <1>6, <3>1, <3>2, <3>3
    <3> QED BY <3>4, <3>5
  <2> QED BY <2>1 DEF TiArmed, CancelTime
<1>11. TimedEventsSound'
  <2>1. armed' \subseteq ToSet(active_timers') \cup ToSet(pending_timers')
    BY <1>10 DEF TiArmed
  <2>2. service' = "trigger" => cursor' <= Len(active_timers') + 1
    <3>1. Len(active_timers) \in Nat
      BY <1>0, LenProperties
    <3> QED BY <1>0, <1>4, <1>8, <3>1
  <2>3. ~allow_manipulation'
    BY <1>0, <1>4 DEF TiInv, TimedEventsSound
  <2> QED BY <1>8, <2>1, <2>2, <2>3 DEF TimedEventsSound
<1>12. TiOrdered'
  BY <1>4, <1>8 DEF TiOrdered
<1> QED BY <1>0, <1>4, <1>9, <1>10, <1>11, <1>12 DEF TiInv

(* and the sort that puts them in order again.                              *)
LEMMA TiSort ==
    ASSUME MaxTime \in Nat, TiInv, sort_and_erase
    PROVE  TiInv'
<1>0. /\ service = "sort" /\ service' = "decide" /\ next_trigger \in [Timer -> Time]
      /\ active_timers \in Seq(Timer) /\ IsInjective(active_timers)
      /\ UNCHANGED <<registered, pending_timers, next_trigger, armed, unregistering, cursor,
                     did_something, skip_checking, allow_manipulation, stop, now, current_time>>
  BY DEF sort_and_erase, TiInv, TimedTypeOK, TimedEventsSound
<1>1. CASE ~did_something
  <2>1. active_timers' = active_timers /\ Ascending(active_timers, next_trigger) /\ ~allow_manipulation
    BY <1>0, <1>1 DEF sort_and_erase, TiInv, TiOrdered, TimedEventsSound
  <2> QED BY <1>0, <2>1, TiQuiet DEF TiInv, TimedTypeOK
<1>2. CASE did_something
  <2>1. PICK s \in sort_timers(active_timers) :
          active_timers' = SubSeq(s, 1, lower_bound(s, CancelTime) - 1)
    BY <1>2 DEF sort_and_erase
  <2>2. /\ s \in Seq(Timer) /\ IsInjective(s) /\ ToSet(s) = ToSet(active_timers)
        /\ Ascending(s, next_trigger)
    BY <1>0, <2>1, Rearranged
  <2>3. /\ active_timers' \in Seq(Timer) /\ IsInjective(active_timers')
        /\ Ascending(active_timers', next_trigger)
        /\ ToSet(active_timers') = {t \in ToSet(s) : next_trigger[t] < CancelTime}
    BY <1>0, <2>1, <2>2, Cut
  <2>4. TimedTypeOK'
    BY <1>0, <2>3 DEF TiInv, TimedTypeOK, Time, CancelTime
  <2>5. TiArmed'
    BY <1>0, <2>2, <2>3 DEF TiInv, TiArmed, CancelTime
  <2>6. TimedEventsSound'
    <3>1. armed' \subseteq ToSet(active_timers') \cup ToSet(pending_timers')
      BY <2>5 DEF TiArmed
    <3>2. ToSet(active_timers') \cup ToSet(pending_timers') \subseteq registered'
      BY <1>0, <2>2, <2>3 DEF TiInv, TimedEventsSound
    <3> QED BY <1>0, <2>3, <3>1, <3>2 DEF TiInv, TimedEventsSound
  <2>7. TiOrdered'
    BY <1>0, <2>3 DEF TiOrdered
  <2> QED BY <1>0, <2>4, <2>5, <2>6, <2>7 DEF TiInv
<1> QED BY <1>0, <1>1, <1>2 DEF TiInv, TimedTypeOK

LEMMA TiStep ==
    ASSUME MaxTime \in Nat, TiInv, [TimedNext]_timed_vars
    PROVE  TiInv'
<1>1. ASSUME NEW t \in Timer, register_timer(t) \/ unregister_timer_begin(t) PROVE TiInv'
  BY <1>1, TiOthers
<1>2. ASSUME NEW t \in Timer, notify(t) \/ unregister_timer(t) PROVE TiInv'
  BY <1>2, TiNotify, TiUnregister
<1>3. CASE tick \/ stop_thread
  <2> USE DEF TiInv, TimedTypeOK
  <2>0. /\ service = "trigger" => cursor <= Len(active_timers) + 1
        /\ service \in {"wait", "awake", "exited"} <=> allow_manipulation
        /\ (service \in {"trigger", "sort"} /\ did_something) \/ Ascending(active_timers, next_trigger)
    BY DEF TimedEventsSound, TiOrdered
  <2>1. CASE tick
    BY <2>0, <2>1, TiQuiet DEF tick
  <2>2. CASE stop_thread
    BY <2>0, <2>2, TiQuiet DEF stop_thread, Notified, mutex_free
  <2> QED BY <1>3, <2>1, <2>2
<1>4. CASE service_top \/ trigger_done \/ service_decide \/ service_wakes \/ service_exits
  BY <1>4, TiService
<1>5. CASE process_pending \/ trigger_timer \/ sort_and_erase
  BY <1>5, TiPending, TiTrigger, TiSort
<1>6. CASE UNCHANGED timed_vars
  BY <1>6 DEF timed_vars, TiInv, TimedTypeOK, TimedEventsSound, TiOrdered, TiArmed, Ascending, Time, CancelTime,
              IsInjective, ToSet
<1> QED BY <1>1, <1>2, <1>3, <1>4, <1>5, <1>6 DEF TimedNext

LEMMA TimedTurn ==
    ASSUME [ComponentsNext]_components_vars, part' = "timed"
    PROVE  part = "timed" /\ [TimedNext]_timed_vars
BY DEF ComponentsNext, components_vars, Turn

LEMMA TimedHolds == TiInv => TimedEventsSound
BY DEF TiInv

(* ResourceEvent keeps its promises however many events, threads that arm   *)
(* and destroy them, and callbacks that do so inside the walk: no event is  *)
(* in a list twice or after its destruction, an armed one stays in a list,  *)
(* the walk meets only events of the list, and who destroys an event is let *)
(* through while the service thread waits.                                  *)
THEOREM TimersKept == ComponentsSpec => []Timers
<1> DEFINE I == part = "timed" => TiInv
<1>1. ComponentsInit => I
  BY TiStart, TimedEventsAssumption DEF ComponentsInit
<1>2. I /\ [ComponentsNext]_components_vars => I'
  BY TimedTurn, TiStep, TimedEventsAssumption
<1>3. I => Timers
  BY TimedHolds DEF Timers, While
<1> QED BY <1>1, <1>2, <1>3, PTL DEF ComponentsSpec
==============================================================================
