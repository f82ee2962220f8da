------------------------------- MODULE Uclamp -------------------------------
(***************************************************************************)
(* Utilization clamps (kernel/sched/core.c): what a task, its group and    *)
(* the system ask for, and the buckets in which every run queue counts the *)
(* tasks it holds, to know the clamp to apply.  The count is only right if *)
(* each decrement meets the bucket of its increment, while requests, task  *)
(* groups, scheduling classes and the static key that enables the whole    *)
(* mechanism change in between.                                            *)
(*                                                                         *)
(* Steps under the run queue's lock are atomic.  A change of a group's     *)
(* clamps (under uclamp_mutex) visits the groups below it and their tasks  *)
(* one by one; a task is moved by the cgroup core (css) before             *)
(* sched_move_task tells the scheduler (sched_task_group).                 *)
(***************************************************************************)
EXTENDS Naturals, FiniteSets, FiniteSetsExt

CONSTANTS UcTask, UcCpu,
          UcDepth,       \* number of task groups, each inside the one before
          SCALE,         \* SCHED_CAPACITY_SCALE, 1024 in the kernel
          BUCKETS,       \* UCLAMP_BUCKETS
          MaxRequests    \* bound: changes of requests

ASSUME UclampAssumption == /\ IsFiniteSet(UcTask) /\ 0 \notin UcCpu /\ UcDepth \in Nat \ {0}
                           /\ SCALE \in Nat \ {0} /\ BUCKETS \in 1 .. SCALE
                           /\ MaxRequests \in Nat

VARIABLES uc_used,    \* the static key sched_uclamp_used
          uc_default, \* uclamp_default, and min_rt: the sysctl for RT tasks
          uc_tg,      \* per group: req (uclamp_req) and eff (uclamp)
          uc_task,    \* per task: see InitTask
          uc_rq,      \* per CPU: see InitRq
          uc_walk,    \* under uclamp_mutex: groups, tasks and RT tasks to visit
          uc_requests \* number of changes so far
uclamp_vars == <<uc_used, uc_default, uc_tg, uc_task, uc_rq, uc_walk, uc_requests>>

ClampId == {"MIN", "MAX"}
Level == 1 .. UcDepth     \* a group is named by its depth; 1 is the root
Value == 0 .. SCALE

-----------------------------------------------------------------------------
(* Values *)

uclamp_none(id) == IF id = "MIN" THEN 0 ELSE SCALE

(* UCLAMP_BUCKET_DELTA rounds to the closest. *)
BUCKET_DELTA == (SCALE + BUCKETS \div 2) \div BUCKETS
uclamp_bucket_id(v) == Min({v \div BUCKET_DELTA, BUCKETS - 1})

clamp(v, lo, hi) == Min({Max({v, lo}), hi})

(* uclamp_tg_restrict: tasks of the root group are not restricted by it. *)
uclamp_tg_restrict(p, id) ==
    LET v == p.req[id].value
        g == uc_tg[p.tg].eff
    IN  IF p.tg = 1 THEN v ELSE clamp(v, g["MIN"], g["MAX"])

uclamp_eff_get(p, id) == Min({uclamp_tg_restrict(p, id), uc_default[id]})

-----------------------------------------------------------------------------
(* Buckets.  The operators below map st = [rq, se], a run queue and the     *)
(* clamps of a task, to their next value.                                   *)

uclamp_rq_inc_id(st, id, eff) ==
    LET rq == st.rq
        b == uclamp_bucket_id(eff)
        old == rq.bucket[id][b]
        new == [tasks |-> old.tasks + 1,
                value |-> IF old.tasks = 0 \/ eff > old.value THEN eff ELSE old.value]
        base == IF rq.idle THEN eff ELSE rq.value[id]       \* uclamp_idle_reset
    IN  [rq |-> [value |-> [rq.value EXCEPT ![id] = Max({base, eff})], idle |-> rq.idle,
                 bucket |-> [rq.bucket EXCEPT ![id] = [@ EXCEPT ![b] = new]]],
         se |-> [st.se EXCEPT ![id] = [value |-> eff, active |-> TRUE]]]

(* uclamp_rq_max_value and uclamp_idle_value: the value of the topmost      *)
(* bucket in use; with none in use the last maximum clamp is kept.          *)
uclamp_rq_max_value(bucket, id, last) ==
    LET used == {b \in 0 .. BUCKETS - 1 : bucket[b].tasks > 0}
    IN  IF used # {} THEN bucket[Max(used)].value
        ELSE IF id = "MAX" THEN last ELSE uclamp_none("MIN")

(* A task leaves its bucket; if that was the last of the topmost bucket,    *)
(* the run queue's clamp is that of the next one.                           *)
TakeOut(st, id) ==
    LET rq == st.rq
        v == st.se[id].value
        b == uclamp_bucket_id(v)
        old == rq.bucket[id][b]
        left == IF old.tasks > 0 THEN old.tasks - 1 ELSE 0
        bucket == [rq.bucket[id] EXCEPT ![b] = [tasks |-> left, value |-> old.value]]
        empty == \A c \in 0 .. BUCKETS - 1 : bucket[c].tasks = 0
        stays == left > 0 \/ old.value < rq.value[id]
    IN  [rq |-> [value |-> IF stays THEN rq.value
                           ELSE [rq.value EXCEPT ![id] = uclamp_rq_max_value(bucket, id, v)],
                 idle |-> rq.idle \/ (~stays /\ id = "MAX" /\ empty),
                 bucket |-> [rq.bucket EXCEPT ![id] = bucket]],
         se |-> [st.se EXCEPT ![id] = [value |-> v, active |-> FALSE]]]

(* Faulty: the task is taken out of a bucket whether or not it is in one. *)
uclamp_rq_dec_id_unbalanced(st, id) == TakeOut(st, id)

uclamp_rq_dec_id(st, id) == IF st.se[id].active THEN TakeOut(st, id) ELSE st

NotIdle(st) == [rq |-> [value |-> st.rq.value, idle |-> FALSE, bucket |-> st.rq.bucket], se |-> st.se]

uclamp_enabled(class) == class \in {"fair", "rt"}

(* The two clamps in the order of for_each_clamp_id, for a task p. *)
uclamp_rq_inc(st, p, used) ==
    IF ~used \/ ~uclamp_enabled(p.class) THEN st
    ELSE NotIdle(uclamp_rq_inc_id(uclamp_rq_inc_id(st, "MIN", uclamp_eff_get(p, "MIN")),
                                  "MAX", uclamp_eff_get(p, "MAX")))

uclamp_rq_dec(st, p, used) ==
    IF ~used \/ ~uclamp_enabled(p.class) THEN st
    ELSE uclamp_rq_dec_id(uclamp_rq_dec_id(st, "MIN"), "MAX")

uclamp_rq_reinc_id(st, p, id) ==
    IF ~st.se[id].active THEN st
    ELSE LET again == uclamp_rq_inc_id(uclamp_rq_dec_id(st, id), id, uclamp_eff_get(p, id))
         IN  IF id = "MAX" THEN NotIdle(again) ELSE again

-----------------------------------------------------------------------------
(* Tasks.  cpu is 0 off the run queues; a task is alive once forked. *)

InitTask == [alive |-> FALSE, cpu |-> 0, class |-> "fair", css |-> 1, tg |-> 1,
             req |-> [id \in ClampId |-> [value |-> uclamp_none(id), user |-> FALSE]],
             se |-> [id \in ClampId |-> [value |-> 0, active |-> FALSE]]]

InitRq == [value |-> [id \in ClampId |-> uclamp_none(id)], idle |-> TRUE,
           bucket |-> [id \in ClampId |-> [b \in 0 .. BUCKETS - 1 |-> [tasks |-> 0, value |-> 0]]]]

On(t, cpu) == [rq |-> uc_rq[cpu], se |-> uc_task[t].se]

(* A task with its clamps as a run queue left them. *)
Placed(p, cpu, se) == [alive |-> p.alive, cpu |-> cpu, class |-> p.class, css |-> p.css, tg |-> p.tg,
                       req |-> p.req, se |-> se]

(* enqueue_task, as far as clamps go, by activate_task. *)
enqueue_task ==
    \E t \in UcTask, c \in UcCpu :
       /\ uc_task[t].alive /\ uc_task[t].cpu = 0
       /\ LET st == uclamp_rq_inc(On(t, c), uc_task[t], uc_used) IN
          /\ uc_rq' = [uc_rq EXCEPT ![c] = st.rq]
          /\ uc_task' = [uc_task EXCEPT ![t] = Placed(@, c, st.se)]
       /\ UNCHANGED <<uc_used, uc_default, uc_tg, uc_walk, uc_requests>>

dequeue_task ==
    \E t \in UcTask :
       /\ uc_task[t].cpu # 0
       /\ LET st == uclamp_rq_dec(On(t, uc_task[t].cpu), uc_task[t], uc_used) IN
          /\ uc_rq' = [uc_rq EXCEPT ![uc_task[t].cpu] = st.rq]
          /\ uc_task' = [uc_task EXCEPT ![t] = Placed(@, 0, st.se)]
       /\ UNCHANGED <<uc_used, uc_default, uc_tg, uc_walk, uc_requests>>

(* The pattern of __sched_setscheduler and sched_move_task: a queued task   *)
(* is dequeued as it was and enqueued as new.                               *)
requeue(t, new, used) ==
    LET cpu == uc_task[t].cpu
        st == uclamp_rq_inc(uclamp_rq_dec(On(t, cpu), uc_task[t], used), new, used)
    IN  IF cpu = 0 THEN uc_task' = [uc_task EXCEPT ![t] = new] /\ UNCHANGED uc_rq
        ELSE /\ uc_task' = [uc_task EXCEPT ![t] = Placed(new, cpu, st.se)]
             /\ uc_rq' = [uc_rq EXCEPT ![cpu] = st.rq]

(* uclamp_fork: the clamps of a child of p, which no bucket counts. *)
uclamp_fork(p, reset) ==
    [se |-> [id \in ClampId |-> [value |-> p.se[id].value, active |-> FALSE]],
     req |-> IF reset THEN [id \in ClampId |-> [value |-> uclamp_none(id), user |-> FALSE]] ELSE p.req]

(* __uclamp_update_util_min_rt_default, for RT tasks without a request. *)
update_util_min_rt_default(task, min_rt) ==
    IF task.class # "rt" \/ task.req["MIN"].user THEN task
    ELSE [task EXCEPT !.req = [@ EXCEPT !["MIN"] = [value |-> min_rt, user |-> FALSE]]]

(* sched_fork up to sched_post_fork; the child is not runnable in between. *)
sched_fork ==
    \E p, t \in UcTask, reset \in BOOLEAN :
       /\ uc_task[p].alive /\ ~uc_task[t].alive
       /\ uc_task[p].class = "dl" => reset
       /\ LET clamps == uclamp_fork(uc_task[p], reset)
              child == [alive |-> TRUE, cpu |-> 0, class |-> IF reset THEN "fair" ELSE uc_task[p].class,
                        css |-> uc_task[p].css, tg |-> uc_task[p].css, req |-> clamps.req, se |-> clamps.se]
          IN  uc_task' = [uc_task EXCEPT ![t] =
                             update_util_min_rt_default(child, uc_default["min_rt"])]
       /\ UNCHANGED <<uc_used, uc_default, uc_tg, uc_rq, uc_walk, uc_requests>>

-----------------------------------------------------------------------------
(* Requests of a task.  ask[id] is "no" (flag not set), "reset" (-1) or a   *)
(* value.                                                                   *)

Ask == Value \cup {SCALE + 1, SCALE + 2}
no == SCALE + 1
reset_ask == SCALE + 2

Wanted(t, id, ask) == IF ask[id] = no THEN uc_task[t].req[id].value ELSE ask[id]

uclamp_validate(t, ask) ==
    \/ Wanted(t, "MIN", ask) = reset_ask \/ Wanted(t, "MAX", ask) = reset_ask
    \/ Wanted(t, "MIN", ask) <= Wanted(t, "MAX", ask)

(* uclamp_reset *)
uclamp_reset(t, id, ask) ==
    \/ \A i \in ClampId : ask[i] = no /\ ~uc_task[t].req[id].user
    \/ ask[id] = reset_ask

__setscheduler_uclamp(t, class, ask) ==
    [id \in ClampId |->
       IF ask[id] \in Value THEN [value |-> ask[id], user |-> TRUE]
       ELSE IF uclamp_reset(t, id, ask)
            THEN [value |-> IF class = "rt" /\ id = "MIN" THEN uc_default["min_rt"]
                            ELSE uclamp_none(id),
                  user |-> FALSE]
       ELSE uc_task[t].req[id]]

Attributed(p, class, req) == [alive |-> p.alive, cpu |-> p.cpu, class |-> class, css |-> p.css,
                              tg |-> p.tg, req |-> req, se |-> p.se]

(* __sched_setscheduler as far as clamps go: out of the bucket in the old   *)
(* class, the new requests, back in in the new class.  The calls made here  *)
(* ask for at most one of the two clamps.                                   *)
sched_setattr ==
    \E t \in UcTask, class \in {"fair", "rt", "dl"}, one \in ClampId, a \in Ask :
       LET ask == [id \in ClampId |-> IF id = one THEN a ELSE no]
           asks == \E id \in ClampId : ask[id] # no IN
       /\ uc_task[t].alive /\ uc_requests < MaxRequests
       /\ asks => uclamp_validate(t, ask)
       /\ asks \/ class # uc_task[t].class
       /\ uc_used' = (uc_used \/ asks)
       /\ requeue(t, Attributed(uc_task[t], class, __setscheduler_uclamp(t, class, ask)), uc_used')
       /\ uc_requests' = uc_requests + 1
       /\ UNCHANGED <<uc_default, uc_tg, uc_walk>>

-----------------------------------------------------------------------------
(* Requests of a group and of the system *)

NoWalk == [groups |-> {}, tasks |-> {}, rt |-> {}]

(* cpu_uclamp_write takes uclamp_mutex until the walk below is over. *)
cpu_uclamp_write ==
    \E g \in Level \ {1}, id \in ClampId, v \in Value :
       /\ uc_walk = NoWalk /\ uc_requests < MaxRequests
       /\ uc_used' = TRUE
       /\ uc_tg' = [uc_tg EXCEPT ![g].req[id] = v]
       /\ uc_walk' = [NoWalk EXCEPT !.groups = g .. UcDepth]
       /\ uc_requests' = uc_requests + 1
       /\ UNCHANGED <<uc_default, uc_task, uc_rq>>

(* sysctl_sched_uclamp_handler, with a valid new value for one knob. *)
sysctl_sched_uclamp_handler ==
    \E knob \in ClampId \cup {"min_rt"}, v \in Value :
       /\ uc_walk = NoWalk /\ uc_requests < MaxRequests
       /\ v # uc_default[knob]
       /\ LET d == [uc_default EXCEPT ![knob] = v] IN
          /\ d["MIN"] <= d["MAX"]
          /\ uc_default' = d
          /\ IF knob = "min_rt" THEN uc_walk' = [NoWalk EXCEPT !.rt = {t \in UcTask : uc_task[t].alive}] /\ UNCHANGED uc_tg
             ELSE /\ uc_walk' = [NoWalk EXCEPT !.groups = Level]
                  /\ uc_tg' = [uc_tg EXCEPT ![1].req = [id \in ClampId |-> d[id]]]
       /\ uc_used' = TRUE
       /\ uc_requests' = uc_requests + 1
       /\ UNCHANGED <<uc_task, uc_rq>>

(* One group of cpu_util_update_eff: its effective clamps, capped by its    *)
(* parent's; if they change, its tasks are visited before the groups below, *)
(* else nothing below can change.                                           *)
cpu_util_update_eff ==
    /\ uc_walk.groups # {} /\ uc_walk.tasks = {}
    /\ LET g == Min(uc_walk.groups)
           up(id) == IF g = 1 THEN uc_tg[g].req[id]
                     ELSE Min({uc_tg[g].req[id], uc_tg[g - 1].eff[id]})
           eff == [id \in ClampId |-> IF id = "MIN" THEN Min({up("MIN"), up("MAX")}) ELSE up("MAX")]
           same == eff = uc_tg[g].eff
       IN /\ uc_tg' = [uc_tg EXCEPT ![g].eff = eff]
          /\ uc_walk' = IF same THEN NoWalk
                        ELSE [uc_walk EXCEPT !.groups = @ \ {g},
                                             !.tasks = {t \in UcTask : uc_task[t].alive /\ uc_task[t].css = g}]
    /\ UNCHANGED <<uc_used, uc_default, uc_task, uc_rq, uc_requests>>

(* uclamp_update_active for one task of uclamp_update_active_tasks. *)
uclamp_update_active ==
    \E t \in uc_walk.tasks :
       /\ IF uc_task[t].cpu = 0 THEN UNCHANGED <<uc_task, uc_rq>>
          ELSE LET c == uc_task[t].cpu
                   st == uclamp_rq_reinc_id(uclamp_rq_reinc_id(On(t, c), uc_task[t], "MIN"),
                                            uc_task[t], "MAX")
               IN  /\ uc_rq' = [uc_rq EXCEPT ![c] = st.rq]
                   /\ uc_task' = [uc_task EXCEPT ![t] = Placed(@, c, st.se)]
       /\ uc_walk' = [uc_walk EXCEPT !.tasks = @ \ {t}]
       /\ UNCHANGED <<uc_used, uc_default, uc_tg, uc_requests>>

(* uclamp_update_util_min_rt_default for one task of                        *)
(* uclamp_sync_util_min_rt_default.                                         *)
uclamp_sync_util_min_rt_default ==
    \E t \in uc_walk.rt :
       /\ uc_task' = [uc_task EXCEPT ![t] = update_util_min_rt_default(@, uc_default["min_rt"])]
       /\ uc_walk' = [uc_walk EXCEPT !.rt = @ \ {t}]
       /\ UNCHANGED <<uc_used, uc_default, uc_tg, uc_rq, uc_requests>>

(* The cgroup core moves a task, which the walks see at once. *)
cgroup_migrate ==
    \E t \in UcTask, g \in Level :
       /\ uc_task[t].alive /\ uc_task[t].css = uc_task[t].tg /\ g # uc_task[t].css
       /\ uc_task' = [uc_task EXCEPT ![t].css = g]
       /\ UNCHANGED <<uc_used, uc_default, uc_tg, uc_rq, uc_walk, uc_requests>>

(* sched_move_task, by cpu_cgroup_attach. *)
sched_move_task ==
    \E t \in UcTask :
       /\ uc_task[t].css # uc_task[t].tg
       /\ requeue(t, [uc_task[t] EXCEPT !.tg = uc_task[t].css], uc_used)
       /\ UNCHANGED <<uc_used, uc_default, uc_tg, uc_walk, uc_requests>>

UclampInit ==
    /\ uc_used = FALSE
    /\ uc_default = [k \in ClampId \cup {"min_rt"} |-> SCALE]
    /\ uc_tg = [g \in Level |->
         [req |-> [id \in ClampId |-> IF g = 1 THEN SCALE ELSE uclamp_none(id)],
          eff |-> [id \in ClampId |-> IF g = 1 THEN SCALE ELSE uclamp_none(id)]]]
    /\ uc_task = [t \in UcTask |-> [InitTask EXCEPT !.alive = t = CHOOSE p \in UcTask : TRUE]]
    /\ uc_rq = [c \in UcCpu |-> InitRq]
    /\ uc_walk = NoWalk /\ uc_requests = 0

UclampNext == enqueue_task \/ dequeue_task \/ sched_fork \/ sched_setattr
              \/ cpu_uclamp_write \/ sysctl_sched_uclamp_handler \/ cpu_util_update_eff
              \/ uclamp_update_active \/ uclamp_sync_util_min_rt_default
              \/ cgroup_migrate \/ sched_move_task

-----------------------------------------------------------------------------
(* Properties *)

UclampTypeOK ==
    /\ uc_used \in BOOLEAN /\ uc_default \in [ClampId \cup {"min_rt"} -> Value]
    /\ uc_tg \in [Level -> [req : [ClampId -> Value], eff : [ClampId -> Value]]]
    /\ uc_task \in [UcTask -> [alive : BOOLEAN, cpu : UcCpu \cup {0}, class : {"fair", "rt", "dl"},
                               css : Level, tg : Level,
                               req : [ClampId -> [value : Value, user : BOOLEAN]],
                               se : [ClampId -> [value : Value, active : BOOLEAN]]]]

Counted(c, id, b) == {t \in UcTask : /\ uc_task[t].cpu = c /\ uc_task[t].se[id].active
                                     /\ uclamp_bucket_id(uc_task[t].se[id].value) = b}

(* Every run queue's buckets count exactly the tasks that were put in them, *)
(* across requests, class changes, moves between groups, forks and the late *)
(* enabling of the mechanism; a bucket in use is no lower than its tasks,   *)
(* and the clamp of the run queue is that of its topmost bucket.  Once no   *)
(* change is being propagated, no counted task of a group exceeds the       *)
(* group's limit.                                                           *)
UclampSound ==
    /\ \A t \in UcTask, id \in ClampId : uc_task[t].se[id].active => uc_task[t].cpu # 0
    /\ \A c \in UcCpu, id \in ClampId :
          LET bucket == uc_rq[c].bucket[id]
              used == {b \in 0 .. BUCKETS - 1 : Counted(c, id, b) # {}} IN
          /\ \A b \in 0 .. BUCKETS - 1 :
                /\ bucket[b].tasks = Cardinality(Counted(c, id, b))
                /\ \A t \in Counted(c, id, b) : uc_task[t].se[id].value <= bucket[b].value
          /\ IF used = {} THEN uc_rq[c].idle
             ELSE ~uc_rq[c].idle /\ uc_rq[c].value[id] = bucket[Max(used)].value
    /\ uc_walk = NoWalk =>
          \A t \in UcTask, id \in ClampId :
             uc_task[t].se[id].active /\ uc_task[t].css = uc_task[t].tg /\ uc_task[t].tg # 1 =>
                uc_task[t].se[id].value <= uc_tg[uc_task[t].tg].eff["MAX"]
=============================================================================
