---------------------------- MODULE TimedEvents ----------------------------
(***************************************************************************)
(* Fast-DDS ResourceEvent: one service thread fires the timed events of a   *)
(* participant.  Other threads arm events with notify and destroy them with *)
(* unregister_timer; the callbacks, which run in the service thread without *)
(* the mutex, may do both as well.  active_timers_ is kept sorted by next   *)
(* trigger time and is walked without the mutex, so other threads may edit  *)
(* it only while the service thread waits.                                  *)
(*                                                                          *)
(* TimedEventImpl is not in the repository: update and trigger choose a new *)
(* trigger time, or CancelTime when the event has become inactive.  Times   *)
(* are absolute and stop at MaxTime.  Every critical section of mutex_ is   *)
(* one step.                                                                *)
(***************************************************************************)
EXTENDS Integers, FiniteSets, Sequences, SequencesExt

CONSTANTS Timer,     \* the TimedEventImpl objects
          MaxTime    \* bound of the steady clock

ASSUME TimedEventsAssumption == MaxTime \in Nat

VARIABLES registered,     \* events created and not destroyed; timers_count_
          pending_timers, \* pending_timers_, in the order of arrival
          active_timers,  \* active_timers_
          next_trigger,   \* next_trigger_time() of each event
          armed,          \* events that asked to fire and were not cancelled
          unregistering,  \* events whose owner waits in unregister_timer
          service,        \* where event_service is
          cursor,         \* element of active_timers reached by the walk
          did_something, skip_checking, allow_manipulation, stop,
          now, current_time

timed_vars == <<registered, pending_timers, active_timers, next_trigger, armed,
                unregistering, service, cursor, did_something, skip_checking,
                allow_manipulation, stop, now, current_time>>

CancelTime == MaxTime + 1
Time == 0..CancelTime

\* std::lower_bound with event_compare: where a binary search for time ends,
\* between an element that is less and one that is not.  A sorted list has
\* one such place; of several the search is taken to end at the last.
lower_bound(s, time) ==
    LET less(i) == i < 1 \/ (i <= Len(s) /\ next_trigger[s[i]] < time)
    IN CHOOSE i \in 1..(Len(s) + 1) :
           /\ less(i - 1) /\ ~less(i)
           /\ \A j \in (i + 1)..(Len(s) + 1) : less(j) \/ ~less(j - 1)

event_compare(a, b) == next_trigger[a] < next_trigger[b]
\* Faulty variant: the list is left as the callbacks have changed it.
sort_timers_omitted(s) == {s}
\* std::sort with event_compare: the orders it may leave a list in, which
\* differ in the places of the events that are due together.
sort_timers(s) ==
    {r \in {[i \in DOMAIN s |-> s[place[i]]] : place \in Bijection(DOMAIN s, DOMAIN s)} :
        \A i, j \in DOMAIN s : i < j => ~event_compare(r[j], r[i])}

TimedInit ==
    /\ registered = {}
    /\ pending_timers = << >> /\ active_timers = << >>
    /\ next_trigger = [t \in Timer |-> CancelTime]
    /\ armed = {} /\ unregistering = {}
    /\ service = "top" /\ cursor = 0
    /\ did_something = FALSE /\ skip_checking = FALSE
    /\ allow_manipulation = FALSE /\ stop = FALSE
    /\ now = 0 /\ current_time = 0

tick ==
    /\ now < MaxTime /\ now' = now + 1
    /\ UNCHANGED <<registered, pending_timers, active_timers, next_trigger, armed,
                   unregistering, service, cursor, did_something, skip_checking,
                   allow_manipulation, stop, current_time>>

\* The service thread holds mutex_ while it processes the pending events.
mutex_free == service # "pending"

\* cv_.notify_one wakes the service thread out of its timed wait.
Notified(s) == IF s = "wait" THEN "awake" ELSE s

-----------------------------------------------------------------------------
(* Other threads *)

register_timer(t) ==
    /\ mutex_free /\ t \notin registered
    /\ registered' = registered \cup {t}
    /\ service' = Notified(service)
    /\ UNCHANGED <<pending_timers, active_timers, next_trigger, armed, unregistering,
                   cursor, did_something, skip_checking, allow_manipulation, stop,
                   now, current_time>>

register_timer_nts(t) ==
    pending_timers' = IF t \in ToSet(pending_timers) THEN pending_timers
                                                     ELSE Append(pending_timers, t)

notify(t) ==
    /\ mutex_free /\ t \in registered \ unregistering
    /\ register_timer_nts(t)
    /\ armed' = armed \cup {t}
    /\ service' = IF pending_timers' # pending_timers THEN Notified(service) ELSE service
    /\ UNCHANGED <<registered, active_timers, next_trigger, unregistering, cursor,
                   did_something, skip_checking, allow_manipulation, stop, now,
                   current_time>>

unregister_timer_begin(t) ==
    /\ t \in registered \ unregistering
    /\ unregistering' = unregistering \cup {t}
    /\ UNCHANGED <<registered, pending_timers, active_timers, next_trigger, armed,
                   service, cursor, did_something, skip_checking, allow_manipulation,
                   stop, now, current_time>>

\* The removal common to both kinds of caller.
remove_timer(t) ==
    /\ pending_timers' = RemoveFirst(pending_timers, t)
    /\ active_timers' = RemoveFirst(active_timers, t)
    /\ registered' = registered \ {t}

unregister_timer(t) ==
    /\ mutex_free /\ t \in unregistering
    /\ allow_manipulation
    /\ remove_timer(t)
    /\ armed' = armed \ {t}
    /\ unregistering' = unregistering \ {t}
    /\ service' = IF t \in ToSet(pending_timers) \cup ToSet(active_timers)
                  THEN Notified(service) ELSE service
    /\ UNCHANGED <<next_trigger, cursor, did_something, skip_checking,
                   allow_manipulation, stop, now, current_time>>

stop_thread ==
    /\ mutex_free /\ ~stop /\ stop' = TRUE
    /\ service' = Notified(service)
    /\ UNCHANGED <<registered, pending_timers, active_timers, next_trigger, armed,
                   unregistering, cursor, did_something, skip_checking,
                   allow_manipulation, now, current_time>>

-----------------------------------------------------------------------------
(* The service thread *)

\* std::find from the lower bound of the event's own trigger time.
erase_active(s, t) ==
    LET from == lower_bound(s, next_trigger[t])
        hits == {i \in from..Len(s) : s[i] = t}
    IN IF hits = {} THEN s
       ELSE RemoveAt(s, CHOOSE i \in hits : \A j \in hits : i <= j)

\* One pending event: take it out of the active ones, update it (external:
\* active with a new trigger time, or cancelled), put it back in its place.
process_pending ==
    /\ service = "pending"
    /\ IF pending_timers = << >>
       THEN /\ service' = "trigger" /\ cursor' = 1
            /\ skip_checking' = FALSE /\ did_something' = FALSE
            /\ UNCHANGED <<pending_timers, active_timers, next_trigger, armed>>
       ELSE \E when \in (current_time..MaxTime) \cup {CancelTime} :
              LET t == Head(pending_timers)
                  rest == erase_active(active_timers, t)
              IN /\ pending_timers' = Tail(pending_timers)
                 /\ next_trigger' = [next_trigger EXCEPT ![t] = when]
                 /\ IF when = CancelTime
                    THEN /\ active_timers' = rest /\ armed' = armed \ {t}
                    ELSE /\ active_timers' = InsertAt(rest, lower_bound(rest, when), t)
                         /\ UNCHANGED armed
                 /\ UNCHANGED <<service, cursor, skip_checking, did_something>>
    /\ UNCHANGED <<registered, unregistering, allow_manipulation, stop, now, current_time>>

service_top ==
    /\ service = "top"
    /\ service' = IF stop THEN "exit" ELSE "pending"
    /\ current_time' = now
    /\ UNCHANGED <<registered, pending_timers, active_timers, next_trigger, armed,
                   unregistering, cursor, did_something, skip_checking,
                   allow_manipulation, stop, now>>

\* A due event fires: trigger sets its next time, and its callback may arm or
\* destroy another event (unregister_timer does not wait in the service thread).
Due == /\ cursor <= Len(active_timers)
       /\ next_trigger[active_timers[cursor]] <= current_time

skips(u) == u \in ToSet(active_timers)

trigger_timer ==
    /\ service = "trigger" /\ Due
    /\ did_something' = TRUE /\ cursor' = cursor + 1
    /\ \E when \in ((current_time + 1)..MaxTime) \cup {CancelTime} :
         LET t == active_timers[cursor]
             kept == IF when = CancelTime THEN armed \ {t} ELSE armed
         IN /\ next_trigger' = [next_trigger EXCEPT ![t] = when]
            /\ \/ UNCHANGED <<registered, pending_timers, active_timers,
                              skip_checking, service>>
               \/ \E u \in registered \ unregistering :
                    /\ register_timer_nts(u)
                    /\ UNCHANGED <<registered, active_timers, skip_checking, service>>
               \/ \E u \in registered \ (unregistering \cup {t}) :
                    /\ remove_timer(u)
                    /\ skip_checking' = skips(u)
                    /\ service' = IF skip_checking' THEN "sort" ELSE service
            /\ armed' = (kept \cup ToSet(pending_timers')) \cap registered'
    /\ UNCHANGED <<unregistering, allow_manipulation, stop, now, current_time>>

trigger_done ==
    /\ service = "trigger" /\ ~Due
    /\ service' = "sort"
    /\ UNCHANGED <<registered, pending_timers, active_timers, next_trigger, armed,
                   unregistering, cursor, did_something, skip_checking,
                   allow_manipulation, stop, now, current_time>>

\* The active events in order again, the cancelled ones dropped.
sort_and_erase ==
    /\ service = "sort"
    /\ IF did_something
       THEN \E s \in sort_timers(active_timers) :
               active_timers' = SubSeq(s, 1, lower_bound(s, CancelTime) - 1)
       ELSE UNCHANGED active_timers
    /\ service' = "decide"
    /\ UNCHANGED <<registered, pending_timers, next_trigger, armed, unregistering, cursor,
                   did_something, skip_checking, allow_manipulation, stop, now, current_time>>

\* Under the mutex: stop, go on with the pending events, or wait.
service_decide ==
    /\ service = "decide"
    /\ service' = IF stop THEN "exit" ELSE IF pending_timers # << >> THEN "top" ELSE "wait"
    /\ allow_manipulation' = (service' = "wait")
    /\ UNCHANGED <<registered, pending_timers, active_timers, next_trigger, armed,
                   unregistering, cursor, did_something, skip_checking, stop, now,
                   current_time>>

\* The wait ends by a notification or by its timeout.
service_wakes ==
    /\ service \in {"wait", "awake"}
    /\ service' = "top" /\ allow_manipulation' = FALSE
    /\ UNCHANGED <<registered, pending_timers, active_timers, next_trigger, armed,
                   unregistering, cursor, did_something, skip_checking, stop, now,
                   current_time>>

service_exits ==
    /\ service = "exit"
    /\ service' = "exited" /\ allow_manipulation' = TRUE
    /\ UNCHANGED <<registered, pending_timers, active_timers, next_trigger, armed,
                   unregistering, cursor, did_something, skip_checking, stop, now,
                   current_time>>

TimedNext ==
    \/ tick \/ stop_thread
    \/ \E t \in Timer : register_timer(t) \/ notify(t) \/ unregister_timer_begin(t)
                        \/ unregister_timer(t)
    \/ service_top \/ process_pending \/ trigger_timer \/ trigger_done
    \/ sort_and_erase \/ service_decide \/ service_wakes \/ service_exits

-----------------------------------------------------------------------------
(* Properties *)

TimedTypeOK ==
    /\ registered \subseteq Timer /\ armed \subseteq registered
    /\ unregistering \subseteq registered
    /\ pending_timers \in Seq(Timer) /\ active_timers \in Seq(Timer)
    /\ next_trigger \in [Timer -> Time] /\ now \in 0..MaxTime /\ current_time \in 0..now
    /\ service \in {"top", "pending", "trigger", "sort", "decide", "wait", "awake",
                    "exit", "exited"}
    /\ cursor \in Nat
    /\ {did_something, skip_checking, allow_manipulation, stop} \subseteq BOOLEAN

\* What the users of ResourceEvent rely on.  No event is in a list twice (it
\* would fire after its destruction: unregister_timer removes one entry);
\* none that was destroyed is in a list; one that was armed stays in a list
\* until it is cancelled; the walk over the active events meets only events of
\* the list; and a thread that waits to destroy an event is let through
\* whenever the service thread waits or has gone.
TimedEventsSound ==
    /\ IsInjective(active_timers) /\ IsInjective(pending_timers)
    /\ ToSet(active_timers) \cup ToSet(pending_timers) \subseteq registered
    /\ armed \subseteq ToSet(active_timers) \cup ToSet(pending_timers)
    /\ service = "trigger" => cursor <= Len(active_timers) + 1
    /\ service \in {"wait", "awake", "exited"} <=> allow_manipulation
=============================================================================
