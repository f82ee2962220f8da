------------------------------ MODULE Affinity ------------------------------
(***************************************************************************)
(* Changing the CPUs a task may run on (kernel/sched/core.c): concurrent   *)
(* calls of set_cpus_allowed_ptr on one task p that runs, is preempted,    *)
(* blocks, wakes, disables migration and is pushed about, while a CPU goes *)
(* down and comes back.  "This function is wildly self concurrent; here be *)
(* dragons", says affine_move_task.                                        *)
(*                                                                         *)
(* Steps under p->pi_lock and the run queue's lock are atomic; what a call *)
(* or the stopper does after dropping them (queue a stopper work, complete *)
(* a request, drop a reference) is a step of its own.  A caller's pending  *)
(* request is on its stack: it is named by the caller, and is dead as soon *)
(* as the call returns.                                                    *)
(***************************************************************************)
EXTENDS Naturals, FiniteSets

CONSTANTS AfCpu,       \* CPUs
          HotCpu,      \* those that may go down
          Compat,      \* task_cpu_possible_mask of a 32-bit program
          Caller,      \* tasks that call set_cpus_allowed_ptr on p
          Self,        \* p as a caller, and
          Enable,      \* p in migrate_enable
          NoRequest,
          MaxAffinity  \* bound: calls, execs of a 32-bit program, and removals of a CPU

ASSUME AffinityAssumption ==
    /\ IsFiniteSet(AfCpu) /\ 0 \notin AfCpu /\ HotCpu \subseteq AfCpu /\ HotCpu # AfCpu
    /\ IsFiniteSet(Caller)
    /\ Compat \subseteq AfCpu /\ Compat \ HotCpu # {}
    /\ Self \notin Caller /\ Enable \notin Caller \cup {Self} /\ NoRequest \notin Caller \cup {Self, Enable}
    /\ MaxAffinity \in Nat

VARIABLES af_p,        \* the task: see InitP
          af_pending,  \* p->migration_pending
          af_own,      \* per caller, its my_pending
          af_call,     \* per caller, where it is; see NotCalling
          af_work,     \* per caller, where the stop_work of its request is queued
          af_comp,     \* requests whose stopper is about to complete them
          af_push,     \* CPUs whose push_work is queued (rq->push_busy)
          af_bpush,    \* CPUs on which __balance_push_cpu_stop is queued
          af_cpu,      \* per CPU: active, going (online, !active, dying) or off
          af_accident, \* ghost: what CPU hotplug made go wrong
          af_count
affinity_vars == <<af_p, af_pending, af_own, af_call, af_work, af_comp, af_push, af_bpush,
                   af_cpu, af_accident, af_count>>
stop_vars == <<af_work, af_comp, af_push, af_bpush>>
rest_vars == <<af_cpu, af_accident, af_count>>

Requesters == Caller \cup {Self}
NotCalling == [pc |-> "idle", pending |-> NoRequest, cpu |-> 0, next |-> "idle"]
NoPending == [refs |-> 0, stop |-> FALSE, done |-> FALSE, dest |-> 0]

active(c) == af_cpu[c] = "active"
online(c) == af_cpu[c] # "off"

(* cpus_ptr points at cpus_mask, or at the CPU of a task that was switched  *)
(* out with migration disabled.                                             *)
cpus_ptr(p) == IF p.pinned THEN {p.cpu} ELSE p.mask

task_cpu_possible_mask(p) == IF p.compat THEN Compat ELSE AfCpu

(* is_cpu_allowed, for a task that is no kernel thread. *)
is_cpu_allowed(p, c) ==
    /\ c \in cpus_ptr(p)
    /\ IF p.disabled > 0 THEN online(c) ELSE active(c) /\ c \in task_cpu_possible_mask(p)

(* migrate_disable_switch, when __schedule switches p out. *)
migrate_disable_switch(p) == [p EXCEPT !.pinned = p.disabled > 0]

set_task_cpu(p, c) == [p EXCEPT !.cpu = c]

(* Off one run queue and on to the other; p->pi_lock is held throughout. *)
move_queued_task(p, dest) == set_task_cpu(p, dest)

__migrate_task(p, dest) == IF is_cpu_allowed(p, dest) THEN move_queued_task(p, dest) ELSE p

__do_set_cpus_allowed(p, new) == [p EXCEPT !.mask = new]

(* The placements select_fallback_rq may choose for p.  With no allowed CPU *)
(* left, cpuset_cpus_allowed_fallback or do_set_cpus_allowed widens the     *)
(* mask to the possible CPUs, which leaves user_cpus_ptr alone.             *)
select_fallback_rq(p) ==
    LET wide == __do_set_cpus_allowed(p, task_cpu_possible_mask(p))
        q == IF \E c \in AfCpu : is_cpu_allowed(p, c) THEN p ELSE wide
    IN  {set_task_cpu(q, c) : c \in {d \in AfCpu : is_cpu_allowed(q, d)}}

(* The class's choice, or any CPU of cpus_ptr, corrected if not allowed. *)
select_task_rq(p) == select_fallback_rq(p)

-----------------------------------------------------------------------------
(* p is scheduled *)

Runs == af_p.st = "running"

(* Preemption is off in the part of migrate_enable modelled in steps. *)
Preemptible == Runs /\ af_call[Enable].pc = "idle"

Reschedule(p) == af_p' = p /\ UNCHANGED <<af_pending, af_own, af_call, stop_vars, rest_vars>>

(* p is picked; the stopper that pushes it away goes first. *)
pick_next_task == /\ af_p.st = "queued" /\ af_p.cpu \notin af_bpush
                  /\ Reschedule([af_p EXCEPT !.st = "running"])

preempt_schedule == Preemptible /\ Reschedule(migrate_disable_switch([af_p EXCEPT !.st = "queued"]))

block == Preemptible /\ Reschedule(migrate_disable_switch([af_p EXCEPT !.st = "blocked"]))

(* ttwu_queue_cond, and the idle state of the CPU. *)
ttwu_queue_wakelist(p) == active(p.cpu) /\ p.cpu \in cpus_ptr(p)

(* try_to_wake_up: p is placed, and enqueued at once or left on the         *)
(* wakelist of an active CPU.                                               *)
try_to_wake_up ==
    /\ af_p.st = "blocked"
    /\ \E p \in select_task_rq(af_p), st \in {"queued", "waking"} :
          /\ st = "waking" => ttwu_queue_wakelist(p)
          /\ Reschedule([p EXCEPT !.st = st])

sched_ttwu_pending == af_p.st = "waking" /\ Reschedule([af_p EXCEPT !.st = "queued"])

(* A load balancer pulls p to another CPU (external). *)
load_balance ==
    /\ af_p.st = "queued" /\ af_p.disabled = 0
    /\ \E c \in AfCpu \ {af_p.cpu} : is_cpu_allowed(af_p, c) /\ Reschedule(move_queued_task(af_p, c))

-----------------------------------------------------------------------------
(* Disabling migration *)

migrate_disable == /\ Preemptible /\ af_call[Self].pc = "idle" /\ af_p.disabled < 2
                   /\ Reschedule([af_p EXCEPT !.disabled = @ + 1])

-----------------------------------------------------------------------------
(* A call c, under the locks.  p is the task with its new masks. *)

ReturnFrom(c) == [af_call EXCEPT ![c] = IF c = Enable THEN [NotCalling EXCEPT !.pc = "clear"] ELSE NotCalling]

At(c, pc, pending, cpu, next) ==
    [af_call EXCEPT ![c] = [pc |-> pc, pending |-> pending, cpu |-> cpu, next |-> next]]

(* affine_move_task on an allowed CPU: waiters that no stopper will serve   *)
(* are completed now, and a push that was put off is started.               *)
affine_done(c, p) ==
    LET complete == af_pending # NoRequest /\ ~af_own[af_pending].stop
        next == IF c = Enable THEN "clear" ELSE "idle" IN
    /\ p.cpu \in p.mask
    /\ af_p' = p
    /\ af_pending' = IF complete THEN NoRequest ELSE af_pending
    /\ af_call' = IF complete THEN At(c, "complete", af_pending, 0, next) ELSE ReturnFrom(c)
    /\ af_push' = IF c = Enable /\ p.push THEN af_push \cup {p.cpu} ELSE af_push
    /\ UNCHANGED <<af_own, af_work, af_comp, af_bpush>>

(* The request c uses: the one that is installed, or its own. *)
install(c, dest) ==
    IF c = Enable THEN af_own
    ELSE IF af_pending = NoRequest THEN [af_own EXCEPT ![c] = [NoPending EXCEPT !.refs = 1, !.dest = dest]]
    ELSE [af_own EXCEPT ![af_pending].refs = @ + 1, ![af_pending].dest = dest]

(* p runs or is being woken: the stopper has to deal with it. *)
affine_stop(c, p, own, r) ==
    LET next == IF c = Enable THEN "clear" ELSE "wait" IN
    /\ p.st \in {"running", "waking"}
    /\ af_p' = IF c = Enable THEN [p EXCEPT !.push = FALSE] ELSE p
    /\ af_own' = [own EXCEPT ![r].stop = TRUE]
    /\ af_pending' = r
    /\ af_call' = IF own[r].stop THEN At(c, next, r, 0, "idle") ELSE At(c, "post", r, p.cpu, next)

(* Anything else is done here, unless p cannot move yet. *)
affine_here(c, p, own, r, dest) ==
    LET free == p.disabled = 0
        complete == free /\ ~own[r].stop IN
    /\ p.st \in {"queued", "blocked"}
    /\ af_p' = IF free /\ p.st = "queued" THEN move_queued_task(p, dest) ELSE p
    /\ af_own' = own
    /\ af_pending' = IF complete THEN NoRequest ELSE r
    /\ af_call' = IF complete THEN At(c, "complete", r, 0, "wait") ELSE At(c, "wait", r, 0, "idle")

affine_move_task(c, p, dest) ==
    \/ affine_done(c, p)
    \/ LET own == install(c, dest)
           r == IF af_pending = NoRequest THEN c ELSE af_pending IN
       /\ p.cpu \notin p.mask
       /\ IF r = Enable THEN af_p' = p /\ af_call' = ReturnFrom(c) /\ UNCHANGED <<af_own, af_pending>>
          ELSE affine_stop(c, p, own, r) \/ affine_here(c, p, own, r, dest)
       /\ UNCHANGED stop_vars

(* __set_cpus_allowed_ptr_locked for a call that is no migrate_enable: user *)
(* says whether the mask is the user's (SCA_USER).  Refused calls return    *)
(* at once and change nothing.                                              *)
valid_mask(p) == {c \in AfCpu : IF p.disabled > 0 THEN online(c) ELSE active(c)}

mask_refused(c, p, new) ==
    \/ ~(new \subseteq task_cpu_possible_mask(p))
    \/ new = p.mask
    \/ c = Self /\ p.disabled > 0 /\ p.cpu \notin new
    \/ new \cap valid_mask(p) = {}

set_cpus_allowed_locked(c, p, new, user) ==
    /\ ~mask_refused(c, p, new)
    /\ \E dest \in new \cap valid_mask(p) :
          affine_move_task(c, [__do_set_cpus_allowed(p, new) EXCEPT !.user = IF user THEN {} ELSE @], dest)

CanCall(c) == /\ af_call[c].pc = "idle" /\ af_count < MaxAffinity
              /\ c = Self => Preemptible

(* The other callers are interchangeable: any idle one is taken. *)
IdleCallers == {c \in Caller : af_call[c].pc = "idle"}
NextCallers == {Self} \cup (IF IdleCallers = {} THEN {} ELSE {CHOOSE c \in IdleCallers : TRUE})

sched_setaffinity ==
    \E c \in NextCallers, new \in SUBSET AfCpu \ {{}}, user \in BOOLEAN :
       /\ CanCall(c)
       /\ set_cpus_allowed_locked(c, af_p, new, user)
       /\ af_count' = af_count + 1
       /\ UNCHANGED <<af_cpu, af_accident>>

(* exec of a 32-bit program: force_compatible_cpus_allowed_ptr restricts    *)
(* the mask and keeps the old one, or, with nothing left, overrides it.     *)
restrict(p) == [p EXCEPT !.compat = TRUE, !.user = IF @ = {} THEN cpus_ptr(p) ELSE @]

force_compatible_cpus_allowed_ptr ==
    LET p == [af_p EXCEPT !.compat = TRUE]
        new == p.mask \cap Compat
        narrow == new # {} /\ new \cap valid_mask(p) # {}
        q == IF new # {} THEN restrict(af_p) ELSE p IN
    /\ CanCall(Self) /\ af_p.disabled = 0 /\ ~af_p.compat
    /\ \/ /\ narrow /\ new # p.mask /\ set_cpus_allowed_locked(Self, q, new, FALSE)
       \/ /\ ~narrow /\ set_cpus_allowed_locked(Self, q, Compat, FALSE)
       \/ /\ new = p.mask
          /\ af_p' = q /\ UNCHANGED <<af_pending, af_own, af_call, stop_vars>>
    /\ af_count' = af_count + 1
    /\ UNCHANGED <<af_cpu, af_accident>>

(* exec of a 64-bit program: relax_compatible_cpus_allowed_ptr asks for the *)
(* old mask as a user would; if that is refused it is forgotten.            *)
relax_compatible_cpus_allowed_ptr ==
    LET p == [af_p EXCEPT !.compat = FALSE] IN
    /\ af_call[Self].pc = "idle" /\ Preemptible /\ af_p.disabled = 0 /\ af_p.compat
    /\ IF p.user = {} \/ mask_refused(Self, p, p.user)
       THEN /\ af_p' = [p EXCEPT !.user = {}] /\ UNCHANGED <<af_pending, af_own, af_call, stop_vars>>
       ELSE set_cpus_allowed_locked(Self, p, p.user, TRUE)
    /\ UNCHANGED <<af_cpu, af_count, af_accident>>

(* migrate_enable, preemption off: if p was switched out while disabled,    *)
(* cpus_ptr is set back and the requests that came meanwhile are served;    *)
(* with no online CPU in the mask that fails, and cpus_ptr stays.           *)
migrate_enable ==
    LET none == af_p.pinned /\ af_p.mask \cap valid_mask(af_p) = {} IN
    /\ Preemptible /\ af_call[Self].pc = "idle" /\ af_p.disabled > 0
    /\ IF af_p.disabled > 1 THEN af_p' = [af_p EXCEPT !.disabled = @ - 1]
                                 /\ UNCHANGED <<af_pending, af_own, af_call, stop_vars>>
       ELSE IF af_p.pinned /\ ~none
            THEN affine_move_task(Enable, [af_p EXCEPT !.pinned = FALSE], 0)
       ELSE af_p' = af_p /\ af_call' = ReturnFrom(Enable) /\ UNCHANGED <<af_pending, af_own, stop_vars>>
    /\ af_accident' = IF af_p.disabled = 1 /\ none THEN af_accident \cup {"stays pinned"} ELSE af_accident
    /\ UNCHANGED <<af_cpu, af_count>>

migrate_enabled ==
    /\ af_call[Enable].pc = "clear"
    /\ af_p' = [af_p EXCEPT !.disabled = 0]
    /\ af_call' = [af_call EXCEPT ![Enable] = NotCalling]
    /\ UNCHANGED <<af_pending, af_own, stop_vars, rest_vars>>

-----------------------------------------------------------------------------
(* A call, after the locks.  p's own steps need it to run. *)

Steps(c, pc) == af_call[c].pc = pc /\ (c \in {Self, Enable} => Runs)

(* stop_one_cpu_nowait: a stopper that is not enabled drops the work. *)
stop_one_cpu_nowait ==
    \E c \in Requesters \cup {Enable} :
       /\ Steps(c, "post")
       /\ IF online(af_call[c].cpu)
          THEN af_work' = [af_work EXCEPT ![af_call[c].pending] = af_call[c].cpu] /\ UNCHANGED af_accident
          ELSE af_accident' = af_accident \cup {"work dropped"} /\ UNCHANGED af_work
       /\ af_call' = [af_call EXCEPT ![c].pc = af_call[c].next]
       /\ UNCHANGED <<af_p, af_pending, af_own, af_comp, af_push, af_bpush, af_cpu, af_count>>

complete_all ==
    \E c \in Requesters \cup {Enable} :
       /\ Steps(c, "complete")
       /\ af_own' = [af_own EXCEPT ![af_call[c].pending].done = TRUE]
       /\ af_call' = IF af_call[c].next = "wait" THEN [af_call EXCEPT ![c].pc = "wait"] ELSE ReturnFrom(c)
       /\ UNCHANGED <<af_p, af_pending, stop_vars, rest_vars>>

(* wait_for_completion, and refcount_dec_and_test. *)
wait_for_completion ==
    \E c \in Requesters :
       LET r == af_call[c].pending IN
       /\ Steps(c, "wait") /\ af_own[r].done
       /\ af_own' = [af_own EXCEPT ![r].refs = @ - 1]
       /\ af_call' = [af_call EXCEPT ![c] = [NotCalling EXCEPT !.pc = "drain"]]
       /\ UNCHANGED <<af_p, af_pending, stop_vars, rest_vars>>

(* Faulty: the owner returns once it has been served itself. *)
wait_var_event_skipped ==
    \E c \in Requesters :
       /\ Steps(c, "drain")
       /\ af_call' = [af_call EXCEPT ![c] = NotCalling]
       /\ UNCHANGED <<af_p, af_pending, af_own, stop_vars, rest_vars>>

(* wait_var_event: the owner of a request stays until all have let go. *)
wait_var_event ==
    \E c \in Requesters :
       /\ Steps(c, "drain") /\ af_own[c].refs = 0
       /\ af_call' = [af_call EXCEPT ![c] = NotCalling]
       /\ UNCHANGED <<af_p, af_pending, af_own, stop_vars, rest_vars>>

-----------------------------------------------------------------------------
(* The stopper of CPU c; p does not run there meanwhile *)

Stopper(c) == online(c) /\ ~(Runs /\ af_p.cpu = c)

(* migration_cpu_stop for the request r: p is on this CPU, *)
stop_task_here(r, p) ==
    LET moved == IF p.cpu \in p.mask THEN p
                 ELSE IF p.st = "queued" THEN __migrate_task(p, af_own[r].dest) ELSE p IN
    IF p.disabled > 0
    THEN /\ af_own' = [af_own EXCEPT ![r].stop = FALSE]
         /\ af_work' = [af_work EXCEPT ![r] = 0]
         /\ af_p' = p /\ UNCHANGED <<af_pending, af_comp, af_accident>>
    ELSE /\ af_p' = moved
         /\ af_pending' = NoRequest
         /\ af_own' = [af_own EXCEPT ![r].stop = FALSE]
         /\ af_work' = [af_work EXCEPT ![r] = 0] /\ af_comp' = af_comp \cup {r}
         /\ af_accident' = IF p.st = "queued" /\ moved.cpu \notin p.mask
                           THEN af_accident \cup {"not moved"} ELSE af_accident

(* or has left it: done if it got somewhere allowed, else chased.  The test *)
(* is on cpus_ptr, which for a task that has since disabled migration is    *)
(* the CPU it is on, whatever the mask says.                                *)
stop_task_gone(r, p) ==
    /\ IF p.cpu \in cpus_ptr(p)
       THEN /\ af_pending' = NoRequest
            /\ af_own' = [af_own EXCEPT ![r].stop = FALSE]
            /\ af_work' = [af_work EXCEPT ![r] = 0] /\ af_comp' = af_comp \cup {r}
            /\ af_accident' = IF p.cpu \in p.mask THEN af_accident
                              ELSE af_accident \cup {"completed early"}
       ELSE /\ af_work' = [af_work EXCEPT ![r] = p.cpu]
            /\ UNCHANGED <<af_pending, af_own, af_comp, af_accident>>
    /\ UNCHANGED af_p

(* A wakeup left for this CPU is handled first. *)
flushed(p, c) == IF p.st = "waking" /\ p.cpu = c THEN [p EXCEPT !.st = "queued"] ELSE p

migration_cpu_stop ==
    \E r \in Requesters, c \in AfCpu :
       /\ af_work[r] = c /\ Stopper(c)
       /\ IF af_p.cpu = c THEN stop_task_here(r, flushed(af_p, c)) ELSE stop_task_gone(r, af_p)
       /\ UNCHANGED <<af_call, af_push, af_bpush, af_cpu, af_count>>

migration_cpu_stop_complete ==
    \E r \in af_comp :
       /\ af_own' = [af_own EXCEPT ![r].done = TRUE]
       /\ af_comp' = af_comp \ {r}
       /\ UNCHANGED <<af_p, af_pending, af_call, af_work, af_push, af_bpush, rest_vars>>

(* The RT class wants the running p elsewhere (external). *)
push_rt_task ==
    /\ Preemptible /\ af_p.cpu \notin af_push
    /\ af_push' = af_push \cup {af_p.cpu}
    /\ UNCHANGED <<af_p, af_pending, af_own, af_call, af_work, af_comp, af_bpush, rest_vars>>

push_cpu_stop ==
    \E c \in af_push :
       /\ Stopper(c)
       /\ \/ af_p.cpu # c /\ af_p' = af_p
          \/ af_p.cpu = c /\ af_p.disabled > 0 /\ af_p' = [af_p EXCEPT !.push = TRUE]
          \/ /\ af_p.cpu = c /\ af_p.disabled = 0
             /\ \E d \in AfCpu :
                   /\ d # c => af_p.st = "queued" /\ d \in af_p.mask /\ active(d)
                   /\ af_p' = [af_p EXCEPT !.push = FALSE, !.cpu = d]
       /\ af_push' = af_push \ {c}
       /\ UNCHANGED <<af_pending, af_own, af_call, af_work, af_comp, af_bpush, rest_vars>>

-----------------------------------------------------------------------------
(* CPU hotplug, one CPU at a time (cpu_hotplug_lock) *)

(* balance_push, as the CPU switches to p: the stopper is to take p away. *)
balance_push ==
    /\ Preemptible /\ af_cpu[af_p.cpu] = "going" /\ af_p.disabled = 0
    /\ af_bpush' = af_bpush \cup {af_p.cpu}
    /\ af_p' = [af_p EXCEPT !.st = "queued"]
    /\ UNCHANGED <<af_pending, af_own, af_call, af_work, af_comp, af_push, rest_vars>>

__balance_push_cpu_stop ==
    \E c \in af_bpush :
       /\ Stopper(c)
       /\ IF af_p.cpu = c /\ af_p.st = "queued"
          THEN \E p \in select_fallback_rq(af_p) : af_p' = p
          ELSE af_p' = af_p
       /\ af_bpush' = af_bpush \ {c}
       /\ UNCHANGED <<af_pending, af_own, af_call, af_work, af_comp, af_push, rest_vars>>

(* p holds cpu_hotplug_lock in force_compatible_cpus_allowed_ptr. *)
MayHotplug == af_call[Self].pc = "idle" \/ ~af_p.compat

SetCpu(c, st) == /\ af_cpu' = [af_cpu EXCEPT ![c] = st]
                 /\ UNCHANGED <<af_p, af_pending, af_own, af_call, stop_vars, af_accident>>

(* Clears cpu_active and sets balance_push. *)
sched_cpu_deactivate ==
    \E c \in HotCpu : /\ MayHotplug /\ \A d \in AfCpu : active(d)
                      /\ af_count < MaxAffinity /\ af_count' = af_count + 1
                      /\ SetCpu(c, "going")

(* The hotplug thread waits until nothing runs or is pinned here, then the  *)
(* stopper, done with its queue, takes the CPU down.                        *)
sched_cpu_wait_empty ==
    \E c \in HotCpu :
       /\ af_cpu[c] = "going"
       /\ af_p.cpu = c => af_p.st = "blocked" /\ af_p.disabled = 0
       /\ c \notin af_push \cup af_bpush /\ \A r \in Requesters : af_work[r] # c
       /\ SetCpu(c, "off") /\ UNCHANGED af_count

(* The CPU comes up, or its going down is given up (cpuset_cpu_inactive). *)
sched_cpu_activate ==
    \E c \in HotCpu : ~active(c) /\ MayHotplug /\ SetCpu(c, "active") /\ UNCHANGED af_count

-----------------------------------------------------------------------------
InitP == [st |-> "blocked", cpu |-> CHOOSE c \in Compat \ HotCpu : TRUE, mask |-> AfCpu,
          disabled |-> 0, pinned |-> FALSE, push |-> FALSE, user |-> {}, compat |-> FALSE]

AffinityInit ==
    /\ af_p = InitP
    /\ af_pending = NoRequest
    /\ af_own = [c \in Requesters |-> NoPending]
    /\ af_call = [c \in Requesters \cup {Enable} |-> NotCalling]
    /\ af_work = [c \in Requesters |-> 0]
    /\ af_comp = {} /\ af_push = {} /\ af_bpush = {}
    /\ af_cpu = [c \in AfCpu |-> "active"]
    /\ af_accident = {} /\ af_count = 0

AffinityNext ==
    \/ pick_next_task \/ preempt_schedule \/ block \/ try_to_wake_up \/ sched_ttwu_pending
    \/ load_balance \/ migrate_disable \/ migrate_enable \/ migrate_enabled
    \/ sched_setaffinity \/ force_compatible_cpus_allowed_ptr \/ relax_compatible_cpus_allowed_ptr
    \/ stop_one_cpu_nowait \/ complete_all \/ wait_for_completion \/ wait_var_event
    \/ migration_cpu_stop \/ migration_cpu_stop_complete \/ push_rt_task \/ push_cpu_stop
    \/ balance_push \/ __balance_push_cpu_stop
    \/ sched_cpu_deactivate \/ sched_cpu_wait_empty \/ sched_cpu_activate

-----------------------------------------------------------------------------
(* Properties *)

AffinityTypeOK ==
    /\ af_p \in [st : {"running", "queued", "blocked", "waking"}, cpu : AfCpu,
                 mask : SUBSET AfCpu \ {{}}, disabled : 0 .. 2, pinned : BOOLEAN,
                 push : BOOLEAN, user : SUBSET AfCpu, compat : BOOLEAN]
    /\ af_pending \in Requesters \cup {NoRequest}
    /\ af_own \in [Requesters -> [refs : 0 .. Cardinality(Requesters), stop : BOOLEAN, done : BOOLEAN,
                               dest : AfCpu \cup {0}]]
    /\ af_work \in [Requesters -> AfCpu \cup {0}] /\ af_comp \subseteq Requesters
    /\ af_push \subseteq AfCpu /\ af_bpush \subseteq AfCpu

(* Requests in use: installed, waited for, about to be posted or completed, *)
(* or queued at a stopper.  A migrate_enable that has let go of the locks   *)
(* and posted uses none.                                                    *)
InUse(r) ==
    \/ af_pending = r \/ af_work[r] # 0 \/ r \in af_comp \/ af_own[r].stop
    \/ \E c \in Requesters \cup {Enable} : af_call[c].pending = r /\ af_call[c].pc \notin {"idle", "clear"}

(* A task that is on the run queue of a CPU outside its mask is still to be *)
(* moved: no call of set_cpus_allowed_ptr that asked for the mask has been  *)
(* told that it is in force, "P1 *cannot* return from this call until P0    *)
(* executes its outermost migrate_enable()" (affine_move_task).             *)
MovesPending == af_p.st # "blocked" /\ af_p.cpu \notin af_p.mask => af_pending # NoRequest

(* A request on the stack of a call that has returned is referred to by     *)
(* nothing; a stopper work finds the request it was queued for installed    *)
(* (the WARN_ON in migration_cpu_stop).  Unless a CPU that went down made   *)
(* an accident of it, an installed request will be served (by a stopper     *)
(* work, by a call that will queue one, or by p's migrate_enable), a        *)
(* waiter's request is installed, done or about to be completed, and a task *)
(* that is on a run queue of a CPU outside its mask has an installed        *)
(* request that will move it (the WARN_ON in affine_move_task).             *)
AffinitySound ==
    /\ \A r \in Requesters : af_call[r].pc = "idle" => ~InUse(r)
    /\ \A r \in Requesters : af_work[r] \in AfCpu => af_pending = r /\ af_own[r].stop
    /\ af_accident = {} =>
       /\ af_pending # NoRequest => af_p.disabled > 0 \/ af_own[af_pending].stop
       /\ \A r \in Requesters : af_own[r].stop =>
             \/ af_work[r] # 0
             \/ \E c \in Requesters \cup {Enable} : af_call[c].pc = "post" /\ af_call[c].pending = r
       /\ \A c \in Requesters :
             LET r == af_call[c].pending IN
             af_call[c].pc = "wait" =>
                \/ af_own[r].done \/ af_pending = r \/ r \in af_comp
                \/ \E d \in Requesters \cup {Enable} : af_call[d].pc = "complete" /\ af_call[d].pending = r
       /\ MovesPending
       /\ af_p.pinned => af_p.disabled > 0
=============================================================================
