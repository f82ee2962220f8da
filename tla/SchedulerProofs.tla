--------------------------- MODULE SchedulerProofs ----------------------------
(*****************************************************************************)
(* Where the scheduler may put a task and how it clamps its utilization: the *)
(* requests to move a task (Affinity), for every set of callers; the clamp   *)
(* buckets (Uclamp), for every set of tasks and number of buckets.           *)
(*****************************************************************************)
EXTENDS MCKernel, FiniteSetTheorems, WellFoundedInduction, TLAPS

------------------------------------------------------------------------------
(* CPU affinity (Affinity) *)

AfCalls == Requesters \cup {Enable}

(* A call at k that uses the request r, holds a reference to it, is about   *)
(* to queue its stopper work, or to complete it.                            *)
Uses(k, r) == k.pending = r /\ k.pc \in {"post", "complete", "wait"}
Waits(k, r) == Uses(k, r) /\ (k.pc = "wait" \/ k.next = "wait")
Posts(k, r) == k.pc = "post" /\ k.pending = r
Completes(k, r) == k.pc = "complete" /\ k.pending = r
Waiters(r) == {c \in Requesters : Waits(af_call[c], r)}

(* A request that is to be completed: installed, or taken off by the one    *)
(* who will complete it.                                                    *)
Unfinished(r) == af_pending = r \/ r \in af_comp \/ \E c \in AfCalls : Completes(af_call[c], r)

PTypes == [st : {"running", "queued", "blocked", "waking"}, cpu : AfCpu,
           mask : SUBSET AfCpu, disabled : 0 .. 2, pinned : BOOLEAN,
           push : BOOLEAN, user : SUBSET AfCpu, compat : BOOLEAN]
OwnTypes == [refs : Int, stop : BOOLEAN, done : BOOLEAN, dest : AfCpu \cup {0}]
CallRecs == [pc : {"idle", "post", "complete", "wait", "drain", "clear"},
             pending : Requesters \cup {NoRequest}, cpu : AfCpu \cup {0}, next : {"idle", "wait", "clear"}]

AfTypes ==
    /\ af_p \in PTypes
    /\ af_pending \in Requesters \cup {NoRequest}
    /\ af_own \in [Requesters -> OwnTypes]
    /\ af_work \in [Requesters -> AfCpu \cup {0}] /\ af_comp \in SUBSET Requesters
    /\ af_call \in [AfCalls -> CallRecs]

CallOk(c, k) ==
    /\ k.pc \in {"post", "complete", "wait"} => k.pending \in Requesters
    /\ k.pc = "post" => k.cpu \in AfCpu
    /\ k.pc = "drain" => k.pending = NoRequest
    /\ c \in Requesters => /\ k.pc # "clear"
                           /\ k.pc = "post" => k.next = "wait"
                           /\ k.pc = "complete" => k.next \in {"wait", "idle"}
    /\ c = Enable => /\ k.pc \in {"idle", "post", "complete", "clear"}
                     /\ k.pc \in {"post", "complete"} => k.next = "clear"

(* One completes a request, whose owner waits for it meanwhile, *)
CompletedOnce(r) ==
    /\ Unfinished(r) => Waits(af_call[r], r) /\ ~af_own[r].done
    /\ af_pending = r => r \notin af_comp /\ \A c \in AfCalls : ~Completes(af_call[c], r)
    /\ r \in af_comp => \A c \in AfCalls : ~Completes(af_call[c], r)
    /\ \A c, d \in AfCalls : Completes(af_call[c], r) /\ Completes(af_call[d], r) => c = d

(* one queues its stopper work, *)
PostedOnce(r) ==
    /\ af_own[r].stop => af_pending = r
    /\ af_work[r] # 0 => af_own[r].stop /\ \A c \in AfCalls : ~Posts(af_call[c], r)
    /\ \A c \in AfCalls : Posts(af_call[c], r) => af_own[r].stop
    /\ \A c, d \in AfCalls : Posts(af_call[c], r) /\ Posts(af_call[d], r) => c = d

(* and the references are those of the waiters, for whom the owner stays.   *)
ReferencesCounted(r) ==
    /\ af_own[r].refs = Cardinality(Waiters(r))
    /\ \A c \in Requesters : Waits(af_call[c], r) =>
          (Unfinished(r) \/ af_own[r].done) /\ (Waits(af_call[r], r) \/ af_call[r].pc = "drain")

RequestOk(r) == CompletedOnce(r) /\ PostedOnce(r) /\ ReferencesCounted(r)

Requests == /\ \A c \in AfCalls : CallOk(c, af_call[c])
            /\ \A r \in Requesters : RequestOk(r)

(* cpus_ptr is the CPU of p exactly while p has disabled migration and was  *)
(* switched out since; preemption is off inside migrate_enable.             *)
PinnedInv ==
    /\ af_p.pinned => af_p.disabled > 0
    /\ af_p.disabled > 0 /\ af_p.st # "running" => af_p.pinned
    /\ af_call[Enable].pc # "idle" => af_p.st = "running" /\ af_p.disabled = 1 /\ ~af_p.pinned

(* An installed request has a stopper to come or a migrate_enable, and so   *)
(* has a task outside its mask.                                             *)
ServedInv ==
    /\ af_pending # NoRequest => \/ af_own[af_pending].stop
                                 \/ af_p.pinned /\ af_call[Enable].pc = "idle"
    /\ \A r \in Requesters : af_own[r].stop => af_work[r] # 0 \/ \E c \in AfCalls : Posts(af_call[c], r)
    /\ (af_p.st # "blocked" \/ af_p.pinned) /\ af_p.cpu \notin af_p.mask => af_pending # NoRequest

AffinityInv == AfTypes /\ Requests /\ (af_accident = {} => PinnedInv /\ ServedInv)

LEMMA CallersAre ==
    /\ Self \in Requesters /\ Enable \notin Requesters /\ NoRequest \notin AfCalls
    /\ IsFiniteSet(Requesters) /\ 0 \notin AfCpu
<1>1. IsFiniteSet(Caller \cup {Self})
  BY AffinityAssumption, FS_AddElement
<1> QED BY <1>1, AffinityAssumption DEF Requesters, AfCalls

LEMMA WaitersFinite ==
    \A r : IsFiniteSet(Waiters(r)) /\ Cardinality(Waiters(r)) \in Nat
<1> TAKE r
<1>1. Waiters(r) \subseteq Requesters
  BY DEF Waiters
<1> QED BY <1>1, CallersAre, FS_Subset, FS_CardinalityType

(* Nobody uses the request of a call that is idle. *)
LEMMA IdleUnused ==
    ASSUME Requests, NEW r \in Requesters, af_call[r].pc = "idle"
    PROVE  /\ ~Unfinished(r) /\ ~af_own[r].stop /\ af_work[r] = 0
           /\ \A c \in AfCalls : ~Posts(af_call[c], r) /\ ~Completes(af_call[c], r)
           /\ \A c \in Requesters : ~Waits(af_call[c], r)
           /\ Waiters(r) = {} /\ af_own[r].refs = 0
<1>1. RequestOk(r)
  BY DEF Requests
<1>2. ~Waits(af_call[r], r)
  BY DEF Waits, Uses
<1>3. ~Unfinished(r)
  BY <1>1, <1>2 DEF RequestOk, CompletedOnce
<1>4. \A c \in Requesters : ~Waits(af_call[c], r)
  BY <1>1, <1>2 DEF RequestOk, ReferencesCounted
<1>5. Waiters(r) = {}
  BY <1>4 DEF Waiters
<1>6. af_own[r].refs = 0
  BY <1>1, <1>5, FS_EmptySet DEF RequestOk, ReferencesCounted
<1>7. ~af_own[r].stop
  BY <1>1, <1>3 DEF RequestOk, PostedOnce, Unfinished
<1> QED BY <1>1, <1>3, <1>4, <1>5, <1>6, <1>7 DEF RequestOk, PostedOnce, Unfinished

(* A step that concerns one call c0, which goes from af_call[c0] to k, and  *)
(* one request r0, leaves the other requests as they are.                   *)
LEMMA OthersKept ==
    ASSUME Requests, af_call \in [AfCalls -> CallRecs],
           NEW c0 \in AfCalls, NEW k, CallOk(c0, k), af_call' = [af_call EXCEPT ![c0] = k],
           NEW r0 \in Requesters, RequestOk(r0)',
           \A x \in Requesters \ {r0} : /\ af_own'[x] = af_own[x] /\ af_work'[x] = af_work[x]
                                        /\ af_pending' = x <=> af_pending = x
                                        /\ x \in af_comp' <=> x \in af_comp
                                        /\ ~Uses(af_call[c0], x) /\ ~Uses(k, x),
           af_call[c0].pc = "drain" => c0 = r0
    PROVE  Requests'
<1>1. \A c \in AfCalls : c # c0 => af_call'[c] = af_call[c]
  OBVIOUS
<1>2. af_call'[c0] = k
  OBVIOUS
<1>3. \A c \in AfCalls : CallOk(c, af_call'[c])
  BY <1>1, <1>2 DEF Requests
<1>4. ASSUME NEW x \in Requesters, x # r0 PROVE RequestOk(x)'
  <2>1. /\ af_own'[x] = af_own[x] /\ af_work'[x] = af_work[x]
        /\ af_pending' = x <=> af_pending = x
        /\ x \in af_comp' <=> x \in af_comp
        /\ ~Uses(af_call[c0], x) /\ ~Uses(k, x)
    BY <1>4
  <2>2. RequestOk(x) /\ x \in AfCalls /\ Requesters \subseteq AfCalls
    BY DEF Requests, AfCalls
  <2>3. \A c \in AfCalls : /\ Waits(af_call'[c], x) <=> Waits(af_call[c], x)
                           /\ Posts(af_call'[c], x) <=> Posts(af_call[c], x)
                           /\ Completes(af_call'[c], x) <=> Completes(af_call[c], x)
    <3>1. \A m : ~Uses(m, x) => ~Waits(m, x) /\ ~Posts(m, x) /\ ~Completes(m, x)
      BY DEF Uses, Waits, Posts, Completes
    <3> QED BY <1>1, <1>2, <2>1, <3>1
  <2>4. Unfinished(x)' <=> Unfinished(x)
    BY <2>1, <2>3 DEF Unfinished
  <2>5. Waiters(x)' = Waiters(x)
    BY <2>2, <2>3 DEF Waiters
  <2>6. CompletedOnce(x)'
    BY <2>1, <2>2, <2>3, <2>4 DEF CompletedOnce, RequestOk
  <2>7. PostedOnce(x)'
    BY <2>1, <2>2, <2>3 DEF PostedOnce, RequestOk
  <2>8. Waits(af_call[x], x) \/ af_call[x].pc = "drain" => (Waits(af_call[x], x) \/ af_call[x].pc = "drain")'
    BY <1>1, <1>4, <2>2, <2>3
  <2>9. ReferencesCounted(x)'
    BY <2>1, <2>2, <2>3, <2>4, <2>5, <2>8 DEF ReferencesCounted, RequestOk
  <2> QED BY <2>6, <2>7, <2>9 DEF RequestOk
<1> QED BY <1>3, <1>4 DEF Requests

(* What the other calls are to r0 stays; cited by each of the steps below. *)
LEMMA SameForOthers ==
    ASSUME af_call \in [AfCalls -> CallRecs], NEW c0 \in AfCalls, NEW k, af_call' = [af_call EXCEPT ![c0] = k]
    PROVE  af_call'[c0] = k /\ \A c \in AfCalls : c # c0 => af_call'[c] = af_call[c]
OBVIOUS

(* A request as a record, with one of its fields changed. *)
LEMMA OwnChange ==
    ASSUME af_own \in [Requesters -> OwnTypes], NEW r \in Requesters, NEW o \in OwnTypes,
           af_own' = [af_own EXCEPT ![r] = o]
    PROVE  /\ af_own' \in [Requesters -> OwnTypes] /\ af_own'[r] = o
           /\ \A x \in Requesters \ {r} : af_own'[x] = af_own[x]
OBVIOUS

LEMMA NotCallings ==
    /\ NotCalling = [pc |-> "idle", pending |-> NoRequest, cpu |-> 0, next |-> "idle"]
    /\ [NotCalling EXCEPT !.pc = "drain"] = [pc |-> "drain", pending |-> NoRequest, cpu |-> 0, next |-> "idle"]
    /\ [NotCalling EXCEPT !.pc = "clear"] = [pc |-> "clear", pending |-> NoRequest, cpu |-> 0, next |-> "idle"]
BY DEF NotCalling

(* A call that is not in the middle of a request uses none. *)
LEMMA NotUsing ==
    ASSUME NEW k, k.pc \in {"idle", "drain", "clear"}
    PROVE  \A x : ~Uses(k, x) /\ ~Waits(k, x) /\ ~Posts(k, x) /\ ~Completes(k, x)
BY DEF Uses, Waits, Posts, Completes

(* The two parts of a step. *)
LEMMA StepKeeps ==
    ASSUME AffinityInv, NEW c0 \in AfCalls, NEW k \in CallRecs, CallOk(c0, k),
           af_call' = [af_call EXCEPT ![c0] = k],
           NEW r0 \in Requesters, NEW o \in OwnTypes, af_own' = [af_own EXCEPT ![r0] = o],
           NEW w \in AfCpu \cup {0}, af_work' = [af_work EXCEPT ![r0] = w],
           af_p' \in PTypes, af_pending' \in Requesters \cup {NoRequest}, af_comp' \in SUBSET Requesters,
           RequestOk(r0)',
           \A x \in Requesters \ {r0} : /\ af_pending' = x <=> af_pending = x
                                        /\ x \in af_comp' <=> x \in af_comp
                                        /\ ~Uses(af_call[c0], x) /\ ~Uses(k, x),
           af_call[c0].pc = "drain" => c0 = r0
    PROVE  AfTypes' /\ Requests'
<1>1. AfTypes /\ Requests
  BY DEF AffinityInv
<1>2. af_own \in [Requesters -> OwnTypes] /\ af_work \in [Requesters -> AfCpu \cup {0}]
      /\ af_call \in [AfCalls -> CallRecs]
  BY <1>1 DEF AfTypes
<1>3. AfTypes'
  BY <1>2 DEF AfTypes
<1>4. \A x \in Requesters \ {r0} : /\ af_own'[x] = af_own[x] /\ af_work'[x] = af_work[x]
                                   /\ af_pending' = x <=> af_pending = x
                                   /\ x \in af_comp' <=> x \in af_comp
                                   /\ ~Uses(af_call[c0], x) /\ ~Uses(k, x)
  BY <1>2
<1>5. Requests'
  BY <1>1, <1>2, <1>4, OthersKept
<1> QED BY <1>3, <1>5

LEMMA WaitKeeps == ASSUME AffinityInv, wait_for_completion PROVE AffinityInv'
<1>0. AfTypes /\ Requests /\ Requesters \subseteq AfCalls
  BY DEF AffinityInv, AfCalls
<1>1. PICK c \in Requesters, r \in Requesters :
         /\ r = af_call[c].pending /\ af_call[c].pc = "wait" /\ af_own[r].done
         /\ af_own' = [af_own EXCEPT ![r].refs = @ - 1]
         /\ af_call' = [af_call EXCEPT ![c] = [NotCalling EXCEPT !.pc = "drain"]]
  BY <1>0 DEF wait_for_completion, Steps, Requests, CallOk
<1>2. UNCHANGED <<af_p, af_pending, stop_vars, rest_vars>>
  BY DEF wait_for_completion
<1>3. UNCHANGED <<af_p, af_pending, af_work, af_comp, af_accident>>
  BY <1>2 DEF stop_vars, rest_vars
<1> DEFINE k == [pc |-> "drain", pending |-> NoRequest, cpu |-> 0, next |-> "idle"]
           o == [af_own[r] EXCEPT !.refs = @ - 1]
<1>4. r \in Requesters /\ c \in AfCalls /\ RequestOk(r) /\ af_call[c].pc = "wait" /\ af_own[r].done
  BY <1>0, <1>1 DEF Requests
<1>5. k \in CallRecs /\ CallOk(c, k) /\ k.pc = "drain"
      /\ \A x : ~Uses(k, x) /\ ~Waits(k, x) /\ ~Posts(k, x) /\ ~Completes(k, x)
  <2>1. k \in CallRecs /\ CallOk(c, k) /\ k.pc = "drain"
    BY CallersAre DEF CallRecs, CallOk
  <2> HIDE DEF k
  <2> QED BY <2>1, NotUsing
<1>6. af_call' = [af_call EXCEPT ![c] = k]
  BY <1>1, NotCallings
<1>7. /\ Waits(af_call[c], r) /\ ~Posts(af_call[c], r) /\ ~Completes(af_call[c], r)
      /\ \A x : x # r => ~Uses(af_call[c], x)
  BY <1>1 DEF Waits, Uses, Posts, Completes
<1>8. af_own[r] \in OwnTypes
  BY <1>0, <1>4 DEF AfTypes
<1>9. o \in OwnTypes /\ o.refs = af_own[r].refs - 1 /\ o.done = af_own[r].done /\ o.stop = af_own[r].stop
  BY <1>8 DEF OwnTypes
<1>10. af_own' = [af_own EXCEPT ![r] = o]
  BY <1>1
<1> HIDE DEF k, o
<1>11. /\ af_own' \in [Requesters -> OwnTypes] /\ af_own'[r] = o
       /\ \A x \in Requesters \ {r} : af_own'[x] = af_own[x]
  BY <1>0, <1>4, <1>9, <1>10, OwnChange DEF AfTypes
<1>12. af_call'[c] = k /\ \A d \in AfCalls : d # c => af_call'[d] = af_call[d]
  BY <1>0, <1>4, <1>6, SameForOthers DEF AfTypes
<1>13. af_work' = [af_work EXCEPT ![r] = af_work[r]] /\ af_work[r] \in AfCpu \cup {0}
       /\ af_p' \in PTypes /\ af_pending' \in Requesters \cup {NoRequest} /\ af_comp' \in SUBSET Requesters
  BY <1>0, <1>3 DEF AfTypes
<1>14. RequestOk(r)'
  <2>1. ~Unfinished(r)
    BY <1>4 DEF RequestOk, CompletedOnce
  <2>2. ~Unfinished(r)'
    BY <1>3, <1>5, <1>12, <2>1 DEF Unfinished
  <2>3. CompletedOnce(r)'
    BY <2>2 DEF CompletedOnce, Unfinished
  <2>4. PostedOnce(r)'
    BY <1>3, <1>4, <1>5, <1>7, <1>9, <1>11, <1>12 DEF RequestOk, PostedOnce
  <2>5. Waiters(r)' = Waiters(r) \ {c} /\ c \in Waiters(r)
    BY <1>0, <1>5, <1>7, <1>12 DEF Waiters
  <2>6. Cardinality(Waiters(r)') = Cardinality(Waiters(r)) - 1
    BY <2>5, WaitersFinite, FS_RemoveElement
  <2>7. af_own'[r].refs = Cardinality(Waiters(r)')
    BY <1>4, <1>9, <1>11, <2>6 DEF RequestOk, ReferencesCounted
  <2>8. (Waits(af_call[r], r) \/ af_call[r].pc = "drain")'
    <3>1. CASE r = c
      BY <1>5, <1>12, <3>1
    <3>2. CASE r # c
      BY <1>0, <1>4, <1>7, <1>12, <3>2 DEF RequestOk, ReferencesCounted
    <3> QED BY <3>1, <3>2
  <2>9. ReferencesCounted(r)'
    BY <1>4, <1>9, <1>11, <2>7, <2>8 DEF ReferencesCounted
  <2> QED BY <2>3, <2>4, <2>9 DEF RequestOk
<1>15. AfTypes' /\ Requests'
  BY <1>3, <1>4, <1>5, <1>6, <1>7, <1>9, <1>10, <1>13, <1>14, StepKeeps
<1>16. af_call'[Enable] = af_call[Enable]
  BY <1>12, CallersAre DEF AfCalls
<1>17. af_accident = {} => PinnedInv'
  BY <1>3, <1>16 DEF AffinityInv, PinnedInv
<1>18. af_accident = {} => ServedInv'
  <2>1. \A x \in Requesters : \A d \in AfCalls : Posts(af_call[d], x) => Posts(af_call'[d], x)
    BY <1>4, <1>12 DEF Posts
  <2>2. \A x \in Requesters : af_own'[x].stop = af_own[x].stop
    BY <1>9, <1>11
  <2> QED BY <1>0, <1>3, <1>16, <2>1, <2>2 DEF AffinityInv, ServedInv, AfTypes
<1> QED BY <1>3, <1>15, <1>17, <1>18 DEF AffinityInv

LEMMA DrainKeeps == ASSUME AffinityInv, wait_var_event PROVE AffinityInv'
<1>0. AfTypes /\ Requests /\ Requesters \subseteq AfCalls
  BY DEF AffinityInv, AfCalls
<1>1. PICK c \in Requesters : /\ af_call[c].pc = "drain" /\ af_own[c].refs = 0
                              /\ af_call' = [af_call EXCEPT ![c] = NotCalling]
  BY DEF wait_var_event, Steps
<1>2. UNCHANGED <<af_p, af_pending, af_own, stop_vars, rest_vars>>
  BY DEF wait_var_event
<1>3. UNCHANGED <<af_p, af_pending, af_own, af_work, af_comp, af_accident>>
  BY <1>2 DEF stop_vars, rest_vars
<1>4. NotCalling \in CallRecs /\ CallOk(c, NotCalling) /\ NotCalling.pc = "idle" /\ RequestOk(c) /\ c \in AfCalls
  BY <1>0, NotCallings, CallersAre DEF CallRecs, CallOk, Requests
<1>5. \A x : ~Uses(NotCalling, x) /\ ~Waits(NotCalling, x) /\ ~Posts(NotCalling, x) /\ ~Completes(NotCalling, x)
  BY <1>4, NotUsing
<1>6. \A x : ~Uses(af_call[c], x) /\ ~Waits(af_call[c], x) /\ ~Posts(af_call[c], x) /\ ~Completes(af_call[c], x)
  BY <1>1, NotUsing
<1>7. af_call'[c] = NotCalling /\ \A d \in AfCalls : d # c => af_call'[d] = af_call[d]
  BY <1>0, <1>1, SameForOthers DEF AfTypes
<1>8. af_own' = [af_own EXCEPT ![c] = af_own[c]] /\ af_own[c] \in OwnTypes
      /\ af_work' = [af_work EXCEPT ![c] = af_work[c]] /\ af_work[c] \in AfCpu \cup {0}
      /\ af_p' \in PTypes /\ af_pending' \in Requesters \cup {NoRequest} /\ af_comp' \in SUBSET Requesters
  BY <1>0, <1>3 DEF AfTypes
<1>9. RequestOk(c)'
  <2>1. Waiters(c) = {}
    BY <1>1, <1>4, WaitersFinite, FS_EmptySet DEF RequestOk, ReferencesCounted
  <2>2. \A d \in AfCalls : /\ Waits(af_call'[d], c) <=> Waits(af_call[d], c)
                           /\ Posts(af_call'[d], c) <=> Posts(af_call[d], c)
                           /\ Completes(af_call'[d], c) <=> Completes(af_call[d], c)
    BY <1>5, <1>6, <1>7
  <2>3. ~Unfinished(c)
    BY <1>4, <1>6 DEF RequestOk, CompletedOnce
  <2>4. ~Unfinished(c)'
    BY <1>3, <2>2, <2>3 DEF Unfinished
  <2>5. CompletedOnce(c)'
    BY <2>4 DEF CompletedOnce, Unfinished
  <2>6. PostedOnce(c)'
    BY <1>3, <1>4, <2>2 DEF RequestOk, PostedOnce
  <2>7. Waiters(c)' = {} /\ \A d \in Requesters : ~Waits(af_call'[d], c)
    BY <1>0, <2>1, <2>2 DEF Waiters
  <2>8. ReferencesCounted(c)'
    BY <1>1, <1>3, <2>7, FS_EmptySet DEF ReferencesCounted
  <2> QED BY <2>5, <2>6, <2>8 DEF RequestOk
<1>10. AfTypes' /\ Requests'
  BY <1>1, <1>3, <1>4, <1>5, <1>6, <1>8, <1>9, StepKeeps
<1>11. af_call'[Enable] = af_call[Enable]
  BY <1>7, CallersAre DEF AfCalls
<1>12. af_accident = {} => PinnedInv'
  BY <1>3, <1>11 DEF AffinityInv, PinnedInv
<1>13. af_accident = {} => ServedInv'
  <2>1. \A x \in Requesters : \A d \in AfCalls : Posts(af_call[d], x) => Posts(af_call'[d], x)
    BY <1>6, <1>7
  <2> QED BY <1>0, <1>3, <1>11, <2>1 DEF AffinityInv, ServedInv, AfTypes
<1> QED BY <1>3, <1>10, <1>12, <1>13 DEF AffinityInv

LEMMA CompleteKeeps == ASSUME AffinityInv, complete_all PROVE AffinityInv'
<1>0. AfTypes /\ Requests /\ Requesters \subseteq AfCalls
  BY DEF AffinityInv, AfCalls
<1>1. PICK c \in AfCalls, r \in Requesters :
         /\ r = af_call[c].pending /\ af_call[c].pc = "complete"
         /\ af_own' = [af_own EXCEPT ![r].done = TRUE]
         /\ af_call' = IF af_call[c].next = "wait" THEN [af_call EXCEPT ![c].pc = "wait"] ELSE ReturnFrom(c)
  BY <1>0 DEF complete_all, Steps, Requests, CallOk, AfCalls
<1>2. UNCHANGED <<af_p, af_pending, stop_vars, rest_vars>>
  BY DEF complete_all
<1>3. UNCHANGED <<af_p, af_pending, af_work, af_comp, af_accident>>
  BY <1>2 DEF stop_vars, rest_vars
<1>4. af_call[c] \in CallRecs /\ CallOk(c, af_call[c]) /\ RequestOk(r) /\ af_own[r] \in OwnTypes
  BY <1>0 DEF AfTypes, Requests
<1>5. \E k \in CallRecs : /\ af_call' = [af_call EXCEPT ![c] = k] /\ CallOk(c, k)
                          /\ ~Posts(k, r) /\ ~Completes(k, r) /\ (Waits(k, r) <=> Waits(af_call[c], r))
                          /\ \A x : x # r => ~Uses(k, x)
                          /\ c = Enable => k.pc = "clear"
  <2>1. CASE af_call[c].next = "wait"
    <3> DEFINE k == [af_call[c] EXCEPT !.pc = "wait"]
    <3>1. k \in CallRecs /\ k.pc = "wait" /\ k.pending = r
      BY <1>1, <1>4 DEF CallRecs
    <3>2. CallOk(c, k) /\ c # Enable
      BY <1>1, <1>4, <2>1, <3>1, CallersAre DEF CallOk
    <3>3. af_call' = [af_call EXCEPT ![c] = k]
      BY <1>0, <1>1, <2>1 DEF AfTypes
    <3> HIDE DEF k
    <3>4. ~Posts(k, r) /\ ~Completes(k, r) /\ Waits(k, r) /\ Waits(af_call[c], r) /\ \A x : x # r => ~Uses(k, x)
      BY <1>1, <2>1, <3>1 DEF Posts, Completes, Waits, Uses
    <3> QED BY <3>1, <3>2, <3>3, <3>4
  <2>2. CASE af_call[c].next # "wait"
    <3>1. ~Waits(af_call[c], r)
      BY <1>1, <2>2 DEF Waits, Uses
    <3>2. CASE c = Enable
      <4> DEFINE k == [pc |-> "clear", pending |-> NoRequest, cpu |-> 0, next |-> "idle"]
      <4>1. k \in CallRecs /\ k.pc = "clear" /\ CallOk(c, k)
        BY <3>2, CallersAre DEF CallRecs, CallOk
      <4>2. af_call' = [af_call EXCEPT ![c] = k]
        BY <1>1, <2>2, <3>2, NotCallings DEF ReturnFrom
      <4> HIDE DEF k
      <4>3. \A x : ~Uses(k, x) /\ ~Waits(k, x) /\ ~Posts(k, x) /\ ~Completes(k, x)
        BY <4>1, NotUsing
      <4> QED BY <3>1, <4>1, <4>2, <4>3
    <3>3. CASE c # Enable
      <4>1. NotCalling \in CallRecs /\ NotCalling.pc = "idle" /\ CallOk(c, NotCalling)
        BY NotCallings DEF CallRecs, CallOk
      <4>2. af_call' = [af_call EXCEPT ![c] = NotCalling]
        BY <1>1, <2>2, <3>3 DEF ReturnFrom
      <4>3. \A x : ~Uses(NotCalling, x) /\ ~Waits(NotCalling, x) /\ ~Posts(NotCalling, x) /\ ~Completes(NotCalling, x)
        BY <4>1, NotUsing
      <4> QED BY <3>1, <3>3, <4>1, <4>2, <4>3
    <3> QED BY <3>2, <3>3
  <2> QED BY <2>1, <2>2
<1>6. PICK k \in CallRecs : /\ af_call' = [af_call EXCEPT ![c] = k] /\ CallOk(c, k)
                            /\ ~Posts(k, r) /\ ~Completes(k, r) /\ (Waits(k, r) <=> Waits(af_call[c], r))
                            /\ \A x : x # r => ~Uses(k, x)
                            /\ c = Enable => k.pc = "clear"
  BY <1>5
<1>7. /\ Completes(af_call[c], r) /\ ~Posts(af_call[c], r)
      /\ \A x : x # r => ~Uses(af_call[c], x)
  BY <1>1 DEF Uses, Posts, Completes
<1> DEFINE o == [af_own[r] EXCEPT !.done = TRUE]
<1>8. o \in OwnTypes /\ o.refs = af_own[r].refs /\ o.done = TRUE /\ o.stop = af_own[r].stop
  BY <1>4 DEF OwnTypes
<1>9. af_own' = [af_own EXCEPT ![r] = o]
  BY <1>1
<1> HIDE DEF o
<1>10. /\ af_own' \in [Requesters -> OwnTypes] /\ af_own'[r] = o
       /\ \A x \in Requesters \ {r} : af_own'[x] = af_own[x]
  BY <1>0, <1>8, <1>9, OwnChange DEF AfTypes
<1>11. af_call'[c] = k /\ \A d \in AfCalls : d # c => af_call'[d] = af_call[d]
  BY <1>0, <1>6, SameForOthers DEF AfTypes
<1>12. af_work' = [af_work EXCEPT ![r] = af_work[r]] /\ af_work[r] \in AfCpu \cup {0}
       /\ af_p' \in PTypes /\ af_pending' \in Requesters \cup {NoRequest} /\ af_comp' \in SUBSET Requesters
  BY <1>0, <1>3 DEF AfTypes
<1>13. RequestOk(r)'
  <2>1. af_pending # r /\ r \notin af_comp /\ \A d \in AfCalls : d # c => ~Completes(af_call[d], r)
    BY <1>4, <1>7 DEF RequestOk, CompletedOnce
  <2>2. ~Unfinished(r)'
    BY <1>3, <1>6, <1>11, <2>1 DEF Unfinished
  <2>3. CompletedOnce(r)'
    BY <2>2 DEF CompletedOnce, Unfinished
  <2>4. PostedOnce(r)'
    BY <1>3, <1>4, <1>6, <1>7, <1>8, <1>10, <1>11 DEF RequestOk, PostedOnce
  <2>5. \A d \in AfCalls : Waits(af_call'[d], r) <=> Waits(af_call[d], r)
    BY <1>6, <1>11
  <2>6. Waiters(r)' = Waiters(r)
    BY <1>0, <2>5 DEF Waiters
  <2>7. Waits(af_call[r], r)
    BY <1>4, <1>7 DEF RequestOk, CompletedOnce, Unfinished
  <2>8. ReferencesCounted(r)'
    BY <1>0, <1>4, <1>8, <1>10, <2>5, <2>6, <2>7 DEF RequestOk, ReferencesCounted
  <2> QED BY <2>3, <2>4, <2>8 DEF RequestOk
<1>14. AfTypes' /\ Requests'
  BY <1>1, <1>3, <1>6, <1>7, <1>8, <1>9, <1>12, <1>13, StepKeeps
<1>15. af_call'[Enable].pc = "idle" <=> af_call[Enable].pc = "idle"
  BY <1>1, <1>6, <1>11 DEF AfCalls
<1>16. af_accident = {} => PinnedInv'
  BY <1>3, <1>15 DEF AffinityInv, PinnedInv
<1>17. af_accident = {} => ServedInv'
  <2>1. \A x \in Requesters : \A d \in AfCalls : Posts(af_call[d], x) => Posts(af_call'[d], x)
    BY <1>1, <1>11 DEF Posts
  <2>2. \A x \in Requesters : af_own'[x].stop = af_own[x].stop
    BY <1>8, <1>10
  <2> QED BY <1>0, <1>3, <1>15, <2>1, <2>2 DEF AffinityInv, ServedInv, AfTypes
<1> QED BY <1>3, <1>14, <1>16, <1>17 DEF AffinityInv

LEMMA PostKeeps == ASSUME AffinityInv, stop_one_cpu_nowait PROVE AffinityInv'
<1>0. AfTypes /\ Requests /\ Requesters \subseteq AfCalls
  BY DEF AffinityInv, AfCalls
<1>1. PICK c \in AfCalls, r \in Requesters :
         /\ r = af_call[c].pending /\ af_call[c].pc = "post"
         /\ IF online(af_call[c].cpu)
            THEN af_work' = [af_work EXCEPT ![r] = af_call[c].cpu] /\ UNCHANGED af_accident
            ELSE af_accident' = af_accident \cup {"work dropped"} /\ UNCHANGED af_work
         /\ af_call' = [af_call EXCEPT ![c].pc = af_call[c].next]
  BY <1>0 DEF stop_one_cpu_nowait, Steps, Requests, CallOk, AfCalls
<1>2. UNCHANGED <<af_p, af_pending, af_own, af_comp>>
  BY DEF stop_one_cpu_nowait
<1>3. af_call[c] \in CallRecs /\ CallOk(c, af_call[c]) /\ RequestOk(r) /\ af_own[r] \in OwnTypes
      /\ af_call[c].cpu \in AfCpu
  BY <1>0, <1>1 DEF AfTypes, Requests, CallOk
<1> DEFINE k == [af_call[c] EXCEPT !.pc = af_call[c].next]
<1>4. af_call' = [af_call EXCEPT ![c] = k]
  BY <1>1
<1>5. k \in CallRecs /\ k.pc = af_call[c].next /\ k.pending = r /\ k.next = af_call[c].next
  BY <1>1, <1>3 DEF CallRecs
<1> HIDE DEF k
<1>6. (c \in Requesters => k.pc = "wait") /\ (c = Enable => k.pc = "clear")
  BY <1>1, <1>3, <1>5 DEF CallOk
<1>7. CallOk(c, k)
  BY <1>5, <1>6, CallersAre DEF CallOk, AfCalls
<1>8. /\ Posts(af_call[c], r) /\ ~Completes(af_call[c], r) /\ ~Posts(k, r) /\ ~Completes(k, r)
      /\ \A x : x # r => ~Uses(af_call[c], x)
      /\ \A x : x # r => ~Uses(k, x)
      /\ c \in Requesters => Waits(k, r) /\ Waits(af_call[c], r)
  BY <1>1, <1>3, <1>5, <1>6 DEF Uses, Posts, Completes, Waits, AfCalls, CallOk
<1>9. af_call'[c] = k /\ \A d \in AfCalls : d # c => af_call'[d] = af_call[d]
  BY <1>0, <1>4, SameForOthers DEF AfTypes
<1>10. PICK w \in AfCpu \cup {0} : /\ af_work' = [af_work EXCEPT ![r] = w]
                                   /\ af_accident' = {} => w \in AfCpu /\ af_accident = {}
  <2>1. CASE online(af_call[c].cpu)
    BY <1>1, <1>3, <2>1
  <2>2. CASE ~online(af_call[c].cpu)
    <3>1. af_work' = [af_work EXCEPT ![r] = af_work[r]] /\ af_work[r] \in AfCpu \cup {0}
      BY <1>0, <1>1, <2>2 DEF AfTypes
    <3> QED BY <1>1, <2>2, <3>1
  <2> QED BY <2>1, <2>2
<1>11. /\ af_work' \in [Requesters -> AfCpu \cup {0}] /\ af_work'[r] = w
       /\ \A x \in Requesters \ {r} : af_work'[x] = af_work[x]
  BY <1>0, <1>10 DEF AfTypes
<1>12. af_own' = [af_own EXCEPT ![r] = af_own[r]]
       /\ af_p' \in PTypes /\ af_pending' \in Requesters \cup {NoRequest} /\ af_comp' \in SUBSET Requesters
  BY <1>0, <1>2 DEF AfTypes
<1>13. RequestOk(r)'
  <2>1. af_own[r].stop /\ af_pending = r /\ \A d \in AfCalls : d # c => ~Posts(af_call[d], r)
    BY <1>3, <1>8 DEF RequestOk, PostedOnce
  <2>2. \A d \in AfCalls : ~Posts(af_call'[d], r) /\ (Completes(af_call'[d], r) <=> Completes(af_call[d], r))
    BY <1>8, <1>9, <2>1
  <2>3. \A d \in Requesters : Waits(af_call'[d], r) <=> Waits(af_call[d], r)
    BY <1>0, <1>8, <1>9
  <2>4. Unfinished(r)' <=> Unfinished(r)
    BY <1>2, <2>2 DEF Unfinished
  <2>5. CompletedOnce(r)'
    BY <1>2, <1>3, <2>2, <2>3, <2>4 DEF RequestOk, CompletedOnce
  <2>6. PostedOnce(r)'
    BY <1>2, <2>1, <2>2 DEF PostedOnce
  <2>7. Waiters(r)' = Waiters(r)
    BY <2>3 DEF Waiters
  <2>8. Waits(af_call[r], r)
    BY <1>3, <2>1 DEF RequestOk, CompletedOnce, Unfinished
  <2>9. ReferencesCounted(r)'
    BY <1>2, <1>3, <2>3, <2>4, <2>7, <2>8 DEF RequestOk, ReferencesCounted
  <2> QED BY <2>5, <2>6, <2>9 DEF RequestOk
<1>14. AfTypes' /\ Requests'
  BY <1>1, <1>2, <1>3, <1>4, <1>5, <1>7, <1>8, <1>10, <1>12, <1>13, StepKeeps
<1>15. af_call'[Enable].pc = "idle" <=> af_call[Enable].pc = "idle"
  BY <1>1, <1>6, <1>9 DEF AfCalls
<1>16. af_accident' = {} => PinnedInv'
  BY <1>2, <1>10, <1>15 DEF AffinityInv, PinnedInv
<1>17. af_accident' = {} => ServedInv'
  <2> SUFFICES ASSUME af_accident' = {} PROVE ServedInv'
    OBVIOUS
  <2>1. \A x \in Requesters \ {r} : \A d \in AfCalls : Posts(af_call[d], x) => Posts(af_call'[d], x)
    BY <1>1, <1>9 DEF Posts
  <2>2. af_work'[r] # 0
    BY <1>10, <1>11, CallersAre
  <2>3. ServedInv
    BY <1>10 DEF AffinityInv
  <2>4. \A x \in Requesters : af_own'[x].stop => af_work'[x] # 0 \/ \E d \in AfCalls : Posts(af_call'[d], x)
    BY <1>2, <1>11, <2>1, <2>2, <2>3 DEF ServedInv
  <2> QED BY <1>2, <1>15, <2>3, <2>4 DEF ServedInv
<1> QED BY <1>14, <1>16, <1>17 DEF AffinityInv

(* The other calls are not in the middle of migrate_enable, or not now. *)
LEMMA EnabledKeeps == ASSUME AffinityInv, migrate_enabled PROVE AffinityInv'
<1>0. AfTypes /\ Requests /\ Requesters \subseteq AfCalls /\ Enable \in AfCalls
  BY DEF AffinityInv, AfCalls
<1>1. /\ af_call[Enable].pc = "clear" /\ af_p' = [af_p EXCEPT !.disabled = 0]
      /\ af_call' = [af_call EXCEPT ![Enable] = NotCalling]
  BY DEF migrate_enabled
<1>2. UNCHANGED <<af_pending, af_own, af_work, af_comp, af_accident>>
  BY DEF migrate_enabled, stop_vars, rest_vars
<1>3. NotCalling \in CallRecs /\ CallOk(Enable, NotCalling) /\ NotCalling.pc = "idle"
  BY <1>0, NotCallings, CallersAre DEF CallRecs, CallOk
<1>4. \A x : ~Uses(NotCalling, x) /\ ~Waits(NotCalling, x) /\ ~Posts(NotCalling, x) /\ ~Completes(NotCalling, x)
  BY <1>3, NotUsing
<1>5. \A x : ~Uses(af_call[Enable], x) /\ ~Waits(af_call[Enable], x) /\ ~Posts(af_call[Enable], x) /\ ~Completes(af_call[Enable], x)
  BY <1>1, NotUsing
<1>6. af_call'[Enable] = NotCalling /\ \A d \in AfCalls : d # Enable => af_call'[d] = af_call[d]
  BY <1>0, <1>1, SameForOthers DEF AfTypes
<1>7. PICK q \in PTypes : /\ af_p' = q /\ q.disabled = 0 /\ q.st = af_p.st /\ q.cpu = af_p.cpu
                          /\ q.mask = af_p.mask /\ q.pinned = af_p.pinned
  <2>1. af_p \in PTypes
    BY <1>0 DEF AfTypes
  <2> DEFINE q == [af_p EXCEPT !.disabled = 0]
  <2>2. q \in PTypes /\ q.disabled = 0 /\ q.st = af_p.st /\ q.cpu = af_p.cpu
        /\ q.mask = af_p.mask /\ q.pinned = af_p.pinned
    BY <2>1 DEF PTypes
  <2> QED BY <1>1, <2>2
<1>8. AfTypes'
  BY <1>0, <1>1, <1>2, <1>3, <1>7 DEF AfTypes
<1>9. Requests'
  <2>1. \A x \in Requesters : /\ af_own'[x] = af_own[x] /\ af_work'[x] = af_work[x]
                              /\ af_pending' = x <=> af_pending = x
                              /\ x \in af_comp' <=> x \in af_comp
    BY <1>2
  <2>2. \A d \in Requesters : af_call'[d] = af_call[d]
    BY <1>0, <1>6, CallersAre
  <2>3. \A x \in Requesters : RequestOk(x)'
    <3> SUFFICES ASSUME NEW x \in Requesters PROVE RequestOk(x)'
      OBVIOUS
    <3>1. RequestOk(x)
      BY <1>0 DEF Requests
    <3>2. \A d \in AfCalls : /\ Posts(af_call'[d], x) <=> Posts(af_call[d], x)
                             /\ Completes(af_call'[d], x) <=> Completes(af_call[d], x)
      BY <1>4, <1>5, <1>6
    <3>3. Unfinished(x)' <=> Unfinished(x)
      BY <1>2, <3>2 DEF Unfinished
    <3>4. Waiters(x)' = Waiters(x)
      BY <2>2 DEF Waiters
    <3>5. CompletedOnce(x)'
      BY <1>2, <2>2, <3>1, <3>2, <3>3 DEF RequestOk, CompletedOnce
    <3>6. PostedOnce(x)'
      BY <1>2, <3>1, <3>2 DEF RequestOk, PostedOnce
    <3>7. ReferencesCounted(x)'
      BY <1>2, <2>2, <3>1, <3>3, <3>4 DEF RequestOk, ReferencesCounted
    <3> QED BY <3>5, <3>6, <3>7 DEF RequestOk
  <2>4. \A d \in AfCalls : CallOk(d, af_call'[d])
    BY <1>0, <1>3, <1>6 DEF Requests
  <2> QED BY <2>3, <2>4 DEF Requests
<1>10. af_accident' = {} => PinnedInv' /\ ServedInv'
  <2> SUFFICES ASSUME af_accident' = {} PROVE PinnedInv' /\ ServedInv'
    OBVIOUS
  <2>1. PinnedInv /\ ServedInv
    BY <1>2 DEF AffinityInv
  <2>2. PinnedInv'
    BY <1>1, <1>3, <1>6, <1>7, <2>1 DEF PinnedInv
  <2>3. \A x \in Requesters : \A d \in AfCalls : Posts(af_call[d], x) => Posts(af_call'[d], x)
    BY <1>5, <1>6
  <2>4. ServedInv'
    BY <1>1, <1>2, <1>7, <2>1, <2>3 DEF ServedInv
  <2> QED BY <2>2, <2>4
<1> QED BY <1>8, <1>9, <1>10 DEF AffinityInv

(* What migration_cpu_stop leaves of the task: one on another CPU is left   *)
(* alone, one that cannot move is only taken off the wakelist, and one that *)
(* was waiting here is moved, or there is an accident to report.            *)
LEMMA StopTask ==
    ASSUME AfTypes, NEW c \in AfCpu, Stopper(c), af_p.cpu = c, NEW d \in AfCpu \cup {0},
           NEW p, p = flushed(af_p, c), NEW m,
           m = IF p.cpu \in p.mask THEN p ELSE IF p.st = "queued" THEN __migrate_task(p, d) ELSE p
    PROVE  /\ p \in PTypes /\ p.st \in {"queued", "blocked"} /\ p.cpu = af_p.cpu /\ p.mask = af_p.mask
           /\ p.disabled = af_p.disabled /\ p.pinned = af_p.pinned
           /\ p.st = "blocked" <=> af_p.st = "blocked"
           /\ m \in PTypes /\ m.st = p.st /\ m.mask = p.mask /\ m.disabled = p.disabled
           /\ m.pinned = p.pinned
<1>1. af_p \in PTypes /\ af_p.st # "running"
  BY DEF AfTypes, Stopper, Runs
<1>2. /\ p \in PTypes /\ p.st \in {"queued", "blocked"} /\ p.cpu = af_p.cpu /\ p.mask = af_p.mask
      /\ p.disabled = af_p.disabled /\ p.pinned = af_p.pinned
      /\ p.st = "blocked" <=> af_p.st = "blocked"
  <2>1. CASE af_p.st = "waking"
    <3>1. p = [af_p EXCEPT !.st = "queued"]
      BY <2>1 DEF flushed
    <3> QED BY <1>1, <2>1, <3>1 DEF PTypes
  <2>2. CASE af_p.st # "waking"
    <3>1. p = af_p
      BY <2>2 DEF flushed
    <3> QED BY <1>1, <2>2, <3>1 DEF PTypes
  <2> QED BY <2>1, <2>2
<1>3. CASE m = p
  BY <1>2, <1>3
<1>4. CASE m # p
  <2>1. is_cpu_allowed(p, d) /\ m = [p EXCEPT !.cpu = d]
    BY <1>4 DEF __migrate_task, move_queued_task, set_task_cpu
  <2>2. d \in AfCpu
    BY <1>2, <2>1 DEF is_cpu_allowed, cpus_ptr, PTypes
  <2> QED BY <1>2, <2>1, <2>2 DEF PTypes
<1> QED BY <1>2, <1>3, <1>4

LEMMA StopKeeps == ASSUME AffinityInv, migration_cpu_stop PROVE AffinityInv'
<1>0. AfTypes /\ Requests /\ Requesters \subseteq AfCalls
  BY DEF AffinityInv, AfCalls
<1>1. PICK r \in Requesters, c \in AfCpu :
         /\ af_work[r] = c /\ Stopper(c)
         /\ IF af_p.cpu = c THEN stop_task_here(r, flushed(af_p, c)) ELSE stop_task_gone(r, af_p)
  BY DEF migration_cpu_stop
<1>2. af_call' = af_call
  BY DEF migration_cpu_stop
<1>3. RequestOk(r) /\ af_own[r] \in OwnTypes /\ af_work[r] # 0 /\ af_call[r] \in CallRecs /\ r \in AfCalls
      /\ CallOk(r, af_call[r]) /\ af_p \in PTypes
  BY <1>0, <1>1, CallersAre DEF AfTypes, Requests
<1>4. /\ af_own[r].stop /\ af_pending = r /\ Unfinished(r) /\ Waits(af_call[r], r)
      /\ \A d \in AfCalls : ~Posts(af_call[d], r)
  BY <1>3 DEF RequestOk, PostedOnce, CompletedOnce, Unfinished
<1>5. \A x : x # r => ~Uses(af_call[r], x)
  BY <1>4 DEF Waits, Uses
<1>6. af_call' = [af_call EXCEPT ![r] = af_call[r]] /\ af_call[r].pc # "drain"
  BY <1>0, <1>2, <1>4 DEF AfTypes, Waits, Uses
<1> DEFINE o == [af_own[r] EXCEPT !.stop = FALSE]
           SameTask(q) == /\ q.mask = af_p.mask /\ q.pinned = af_p.pinned /\ q.disabled = af_p.disabled
<1>7. o \in OwnTypes /\ o.refs = af_own[r].refs /\ o.done = af_own[r].done /\ o.stop = FALSE
  BY <1>3 DEF OwnTypes
<1>8. PICK q \in PTypes : /\ af_p' = q /\ SameTask(q)
                          /\ q.st = "blocked" <=> af_p.st = "blocked"
                          /\ af_call[Enable].pc # "idle" /\ af_accident = {} => q = af_p
                          /\ af_p.st = "running" => q = af_p
                          /\ af_accident' = {} => af_accident = {}
                          /\ \/ /\ af_own' = af_own /\ af_pending' = af_pending /\ af_comp' = af_comp
                                /\ af_work' = [af_work EXCEPT ![r] = af_p.cpu] /\ q = af_p
                             \/ /\ af_own' = [af_own EXCEPT ![r] = o] /\ af_pending' = af_pending
                                /\ af_comp' = af_comp /\ af_work' = [af_work EXCEPT ![r] = 0]
                                /\ af_p.disabled > 0 /\ af_p.st # "running"
                             \/ /\ af_own' = [af_own EXCEPT ![r] = o] /\ af_pending' = NoRequest
                                /\ af_comp' = af_comp \cup {r} /\ af_work' = [af_work EXCEPT ![r] = 0]
                                /\ (af_accident' = {} /\ (q.st # "blocked" \/ q.pinned) => q.cpu \in q.mask)
  <2>1. CASE af_p.cpu = c
    <3> DEFINE p == flushed(af_p, c)
               m == IF p.cpu \in p.mask THEN p
                    ELSE IF p.st = "queued" THEN __migrate_task(p, af_own[r].dest) ELSE p
    <3>1. af_own[r].dest \in AfCpu \cup {0}
      BY <1>3 DEF OwnTypes
    <3>2. /\ p \in PTypes /\ p.st \in {"queued", "blocked"} /\ p.cpu = af_p.cpu /\ p.mask = af_p.mask
          /\ p.disabled = af_p.disabled /\ p.pinned = af_p.pinned
          /\ p.st = "blocked" <=> af_p.st = "blocked"
          /\ m \in PTypes /\ m.st = p.st /\ m.mask = p.mask /\ m.disabled = p.disabled
          /\ m.pinned = p.pinned
      BY <1>0, <1>1, <2>1, <3>1, StopTask
    <3>3. stop_task_here(r, p)
      BY <1>1, <2>1
    <3>4. af_p.st # "running"
      BY <1>1, <2>1 DEF Stopper, Runs
    <3>5. af_accident = {} => af_call[Enable].pc = "idle" /\ (af_p.pinned => af_p.disabled > 0)
      BY <3>4 DEF AffinityInv, PinnedInv
    <3>6. CASE p.disabled > 0
      <4>1. /\ af_own' = [af_own EXCEPT ![r] = o] /\ af_work' = [af_work EXCEPT ![r] = 0]
            /\ af_p' = p /\ UNCHANGED <<af_pending, af_comp, af_accident>>
        BY <3>3, <3>6 DEF stop_task_here
      <4> HIDE DEF p, o
      <4> QED BY <3>2, <3>4, <3>5, <3>6, <4>1
    <3>7. CASE ~(p.disabled > 0)
      <4>1. /\ af_own' = [af_own EXCEPT ![r] = o] /\ af_work' = [af_work EXCEPT ![r] = 0]
            /\ af_p' = m /\ af_pending' = NoRequest /\ af_comp' = af_comp \cup {r}
            /\ af_accident' = IF p.st = "queued" /\ m.cpu \notin p.mask
                              THEN af_accident \cup {"not moved"} ELSE af_accident
        BY <3>3, <3>7 DEF stop_task_here
      <4> HIDE DEF p, m, o
      <4>2. af_accident' = {} => af_accident = {} /\ ~(p.st = "queued" /\ m.cpu \notin p.mask)
        BY <4>1
      <4> QED BY <3>2, <3>4, <3>5, <3>7, <4>1, <4>2
    <3> QED BY <3>6, <3>7
  <2>2. CASE af_p.cpu # c
    <3>1. stop_task_gone(r, af_p)
      BY <1>1, <2>2
    <3>2. CASE af_p.cpu \in cpus_ptr(af_p)
      <4>1. /\ af_own' = [af_own EXCEPT ![r] = o] /\ af_work' = [af_work EXCEPT ![r] = 0]
            /\ af_p' = af_p /\ af_pending' = NoRequest /\ af_comp' = af_comp \cup {r}
            /\ af_accident' = IF af_p.cpu \in af_p.mask THEN af_accident
                              ELSE af_accident \cup {"completed early"}
        BY <3>1, <3>2 DEF stop_task_gone
      <4> HIDE DEF o
      <4> QED BY <1>3, <4>1
    <3>3. CASE af_p.cpu \notin cpus_ptr(af_p)
      BY <1>3, <3>1, <3>3 DEF stop_task_gone
    <3> QED BY <3>2, <3>3
  <2> QED BY <2>1, <2>2
<1> HIDE DEF o
<1>9. PICK n \in OwnTypes, w \in AfCpu \cup {0} :
         /\ af_own' = [af_own EXCEPT ![r] = n] /\ af_work' = [af_work EXCEPT ![r] = w]
         /\ n.refs = af_own[r].refs /\ n.done = af_own[r].done
         /\ n.stop => n = af_own[r] /\ w # 0 /\ af_pending' = r /\ af_comp' = af_comp
         /\ ~n.stop => w = 0
  <2>1. af_p.cpu \in AfCpu /\ af_p.cpu # 0
    BY <1>3, CallersAre DEF PTypes
  <2>2. CASE af_own' = af_own /\ af_pending' = af_pending /\ af_comp' = af_comp
             /\ af_work' = [af_work EXCEPT ![r] = af_p.cpu]
    <3>1. af_own' = [af_own EXCEPT ![r] = af_own[r]]
      BY <1>0, <2>2 DEF AfTypes
    <3> QED BY <1>3, <1>4, <2>1, <2>2, <3>1
  <2>3. CASE af_own' = [af_own EXCEPT ![r] = o] /\ af_work' = [af_work EXCEPT ![r] = 0]
    BY <1>7, <2>3
  <2> QED BY <1>8, <2>2, <2>3
<1>10. /\ af_pending' = r /\ af_comp' = af_comp
       \/ /\ af_pending' = NoRequest /\ af_comp' = af_comp \cup {r} /\ ~n.stop
  BY <1>4, <1>8, <1>9
<1>11. af_own'[r] = n /\ af_work'[r] = w /\ \A x \in Requesters \ {r} : af_own'[x] = af_own[x] /\ af_work'[x] = af_work[x]
  BY <1>0, <1>9 DEF AfTypes
<1>12. af_pending' \in Requesters \cup {NoRequest} /\ af_comp' \in SUBSET Requesters
       /\ \A x \in Requesters \ {r} : (af_pending' = x <=> af_pending = x) /\ (x \in af_comp' <=> x \in af_comp)
  BY <1>0, <1>4, <1>10, CallersAre DEF AfTypes, AfCalls
<1>13. RequestOk(r)'
  <2>1. r \notin af_comp /\ \A d \in AfCalls : ~Completes(af_call[d], r)
    BY <1>3, <1>4 DEF RequestOk, CompletedOnce
  <2>2. Unfinished(r)' /\ (af_pending' = r => r \notin af_comp')
    BY <1>10, <2>1, CallersAre DEF Unfinished, AfCalls
  <2>3. CompletedOnce(r)'
    BY <1>2, <1>3, <1>4, <1>9, <1>11, <2>1, <2>2 DEF RequestOk, CompletedOnce
  <2>4. PostedOnce(r)'
    BY <1>2, <1>4, <1>9, <1>11 DEF PostedOnce
  <2>5. Waiters(r)' = Waiters(r)
    BY <1>2 DEF Waiters
  <2>6. ReferencesCounted(r)'
    BY <1>2, <1>3, <1>4, <1>9, <1>11, <2>2, <2>5 DEF RequestOk, ReferencesCounted
  <2> QED BY <2>3, <2>4, <2>6 DEF RequestOk
<1>14. AfTypes' /\ Requests'
  BY <1>3, <1>5, <1>6, <1>8, <1>9, <1>12, <1>13, StepKeeps
<1>15. af_accident' = {} => PinnedInv' /\ ServedInv'
  <2> SUFFICES ASSUME af_accident' = {} PROVE PinnedInv' /\ ServedInv'
    OBVIOUS
  <2>1. PinnedInv /\ ServedInv
    BY <1>8 DEF AffinityInv
  <2>2. PinnedInv'
    BY <1>2, <1>8, <2>1 DEF PinnedInv
  <2>3. \A x \in Requesters : af_own'[x].stop => af_work'[x] # 0 \/ \E d \in AfCalls : Posts(af_call'[d], x)
    BY <1>2, <1>9, <1>11, <2>1 DEF ServedInv
  <2>4. af_pending' # NoRequest => af_own'[af_pending'].stop \/ (af_p'.pinned /\ af_call'[Enable].pc = "idle")
    <3>1. CASE n.stop
      BY <1>9, <1>11, <3>1
    <3>2. CASE ~n.stop
      <4>1. af_pending' # NoRequest => af_p.disabled > 0 /\ af_p.st # "running"
        BY <1>7, <1>8, <1>4, <1>9, <1>11, <3>2
      <4> QED BY <1>2, <1>8, <2>1, <4>1 DEF PinnedInv
    <3> QED BY <3>1, <3>2
  <2>5. (af_p'.st # "blocked" \/ af_p'.pinned) /\ af_p'.cpu \notin af_p'.mask => af_pending' # NoRequest
    BY <1>4, <1>8, CallersAre DEF AfCalls
  <2> QED BY <2>2, <2>3, <2>4, <2>5 DEF ServedInv
<1> QED BY <1>14, <1>15 DEF AffinityInv

LEMMA StopCompleteKeeps == ASSUME AffinityInv, migration_cpu_stop_complete PROVE AffinityInv'
<1>0. AfTypes /\ Requests /\ Requesters \subseteq AfCalls
  BY DEF AffinityInv, AfCalls
<1>1. PICK r \in af_comp : /\ af_own' = [af_own EXCEPT ![r].done = TRUE]
                           /\ af_comp' = af_comp \ {r}
  BY DEF migration_cpu_stop_complete
<1>2. UNCHANGED <<af_p, af_pending, af_call, af_work, af_accident>>
  BY DEF migration_cpu_stop_complete, rest_vars
<1>3. r \in Requesters /\ RequestOk(r) /\ af_own[r] \in OwnTypes /\ af_call[r] \in CallRecs /\ r \in AfCalls
      /\ CallOk(r, af_call[r]) /\ Unfinished(r)
  BY <1>0, <1>1 DEF AfTypes, Requests, Unfinished
<1>4. Waits(af_call[r], r) /\ af_pending # r /\ \A d \in AfCalls : ~Completes(af_call[d], r)
  BY <1>1, <1>3 DEF RequestOk, CompletedOnce
<1>5. \A x : x # r => ~Uses(af_call[r], x)
  BY <1>4 DEF Waits, Uses
<1>6. af_call' = [af_call EXCEPT ![r] = af_call[r]] /\ af_call[r].pc # "drain"
  BY <1>0, <1>2, <1>4 DEF AfTypes, Waits, Uses
<1> DEFINE o == [af_own[r] EXCEPT !.done = TRUE]
<1>7. o \in OwnTypes /\ o.refs = af_own[r].refs /\ o.done = TRUE /\ o.stop = af_own[r].stop
  BY <1>3 DEF OwnTypes
<1>8. af_own' = [af_own EXCEPT ![r] = o]
  BY <1>1
<1> HIDE DEF o
<1>9. /\ af_own' \in [Requesters -> OwnTypes] /\ af_own'[r] = o
      /\ \A x \in Requesters \ {r} : af_own'[x] = af_own[x]
  BY <1>0, <1>3, <1>7, <1>8, OwnChange DEF AfTypes
<1>10. af_work' = [af_work EXCEPT ![r] = af_work[r]] /\ af_work[r] \in AfCpu \cup {0}
       /\ af_p' \in PTypes /\ af_pending' \in Requesters \cup {NoRequest} /\ af_comp' \in SUBSET Requesters
  BY <1>0, <1>1, <1>2, <1>3 DEF AfTypes
<1>11. RequestOk(r)'
  <2>1. ~Unfinished(r)'
    BY <1>1, <1>2, <1>4 DEF Unfinished
  <2>2. CompletedOnce(r)'
    BY <2>1 DEF CompletedOnce, Unfinished
  <2>3. PostedOnce(r)'
    BY <1>2, <1>3, <1>7, <1>9 DEF RequestOk, PostedOnce
  <2>4. Waiters(r)' = Waiters(r)
    BY <1>2 DEF Waiters
  <2>5. ReferencesCounted(r)'
    BY <1>2, <1>3, <1>4, <1>7, <1>9, <2>4 DEF RequestOk, ReferencesCounted
  <2> QED BY <2>2, <2>3, <2>5 DEF RequestOk
<1>12. \A x \in Requesters \ {r} : (af_pending' = x <=> af_pending = x) /\ (x \in af_comp' <=> x \in af_comp)
  BY <1>1, <1>2
<1>13. AfTypes' /\ Requests'
  BY <1>3, <1>5, <1>6, <1>7, <1>8, <1>10, <1>11, <1>12, StepKeeps
<1>14. \A x \in Requesters : af_own'[x].stop = af_own[x].stop
  BY <1>7, <1>9
<1>15. af_accident' = {} => PinnedInv' /\ ServedInv'
  BY <1>0, <1>2, <1>14 DEF AffinityInv, PinnedInv, ServedInv, AfTypes
<1> QED BY <1>13, <1>15 DEF AffinityInv

(* Steps that leave the requests alone. *)
LEMMA RequestsKept ==
    ASSUME AffinityInv, UNCHANGED <<af_pending, af_own, af_call, af_work, af_comp>>, af_p' \in PTypes
    PROVE  AfTypes' /\ Requests'
<1>1. AfTypes /\ Requests
  BY DEF AffinityInv
<1>2. AfTypes'
  BY <1>1 DEF AfTypes
<1>3. ASSUME NEW x \in Requesters PROVE RequestOk(x)'
  <2>1. RequestOk(x)
    BY <1>1 DEF Requests
  <2>2. Waiters(x)' = Waiters(x)
    BY DEF Waiters
  <2>3. Unfinished(x)' <=> Unfinished(x)
    BY DEF Unfinished
  <2>4. CompletedOnce(x)'
    BY <2>1, <2>3 DEF RequestOk, CompletedOnce
  <2>5. PostedOnce(x)'
    BY <2>1 DEF RequestOk, PostedOnce
  <2>6. ReferencesCounted(x)'
    BY <2>1, <2>2, <2>3 DEF RequestOk, ReferencesCounted
  <2> QED BY <2>4, <2>5, <2>6 DEF RequestOk
<1> QED BY <1>1, <1>2, <1>3 DEF Requests

(* The task q may follow af_p in such a step. *)
MayBecome(q) ==
    /\ q.pinned => q.disabled > 0
    /\ q.disabled > 0 /\ q.st # "running" => q.pinned
    /\ af_call[Enable].pc # "idle" => q.st = "running" /\ q.disabled = 1 /\ ~q.pinned
    /\ af_p.pinned => q.pinned
    /\ (q.st # "blocked" \/ q.pinned) /\ q.cpu \notin q.mask => af_pending # NoRequest

LEMMA TaskKeeps ==
    ASSUME AffinityInv, UNCHANGED <<af_pending, af_own, af_call, af_work, af_comp, af_accident>>,
           NEW q \in PTypes, af_p' = q, af_accident = {} => MayBecome(q)
    PROVE  AffinityInv'
<1>1. AfTypes' /\ Requests'
  BY RequestsKept
<1>2. ASSUME af_accident = {} PROVE PinnedInv' /\ ServedInv'
  <2>1. PinnedInv /\ ServedInv /\ MayBecome(q)
    BY <1>2 DEF AffinityInv
  <2>2. PinnedInv'
    BY <2>1 DEF PinnedInv, MayBecome
  <2>3. ServedInv'
    BY <2>1 DEF ServedInv, MayBecome
  <2> QED BY <2>2, <2>3
<1> QED BY <1>1, <1>2 DEF AffinityInv

(* A placement is in the mask, or where the task is pinned. *)
LEMMA Fallback ==
    ASSUME NEW p \in PTypes, NEW q \in select_fallback_rq(p)
    PROVE  /\ q \in PTypes /\ q.st = p.st /\ q.disabled = p.disabled /\ q.pinned = p.pinned
           /\ ~p.pinned => q.cpu \in q.mask
           /\ p.pinned /\ p.disabled > 0 => q.cpu = p.cpu /\ q.mask = p.mask
<1> DEFINE wide == [p EXCEPT !.mask = task_cpu_possible_mask(p)]
<1>1. task_cpu_possible_mask(p) \in SUBSET AfCpu
  BY AffinityAssumption DEF task_cpu_possible_mask
<1>2. wide \in PTypes /\ wide.st = p.st /\ wide.disabled = p.disabled /\ wide.pinned = p.pinned
      /\ wide.cpu = p.cpu /\ wide.compat = p.compat
  BY <1>1 DEF PTypes
<1>3. PICK t \in {p, wide} : \E d \in AfCpu : /\ is_cpu_allowed(t, d) /\ q = [t EXCEPT !.cpu = d]
                                              /\ t = p \/ ~\E e \in AfCpu : is_cpu_allowed(p, e)
  <2> DEFINE t == IF \E c \in AfCpu : is_cpu_allowed(p, c) THEN p ELSE wide
  <2>1. select_fallback_rq(p) = {set_task_cpu(t, c) : c \in {d \in AfCpu : is_cpu_allowed(t, d)}}
    BY DEF select_fallback_rq, __do_set_cpus_allowed
  <2>2. t \in {p, wide} /\ (t = p \/ ~\E e \in AfCpu : is_cpu_allowed(p, e))
    OBVIOUS
  <2> HIDE DEF t, wide
  <2>3. PICK d \in AfCpu : is_cpu_allowed(t, d) /\ q = [t EXCEPT !.cpu = d]
    BY <2>1 DEF set_task_cpu
  <2> QED BY <2>2, <2>3
<1> HIDE DEF wide
<1>4. t \in PTypes /\ t.st = p.st /\ t.disabled = p.disabled /\ t.pinned = p.pinned /\ t.cpu = p.cpu
  BY <1>2, <1>3
<1>5. PICK d \in AfCpu : /\ is_cpu_allowed(t, d) /\ q = [t EXCEPT !.cpu = d]
                         /\ t = p \/ ~\E e \in AfCpu : is_cpu_allowed(p, e)
  BY <1>3
<1>6. q \in PTypes /\ q.st = p.st /\ q.disabled = p.disabled /\ q.pinned = p.pinned /\ q.mask = t.mask /\ q.cpu = d
  BY <1>4, <1>5 DEF PTypes
<1>7. d \in cpus_ptr(t)
  BY <1>5 DEF is_cpu_allowed
<1>8. ~p.pinned => q.cpu \in q.mask
  BY <1>4, <1>6, <1>7 DEF cpus_ptr
<1>9. ASSUME p.pinned, p.disabled > 0 PROVE q.cpu = p.cpu /\ q.mask = p.mask
  <2>1. d = p.cpu /\ is_cpu_allowed(p, d)
    BY <1>4, <1>5, <1>7, <1>9 DEF cpus_ptr, is_cpu_allowed
  <2> QED BY <1>3, <1>5, <1>6, <2>1
<1> QED BY <1>6, <1>8, <1>9

(* p is scheduled, placed, pushed or pulled. *)
LEMMA ScheduleKeeps ==
    ASSUME AffinityInv,
           \/ pick_next_task \/ preempt_schedule \/ block \/ try_to_wake_up \/ sched_ttwu_pending
           \/ load_balance \/ migrate_disable \/ push_rt_task \/ push_cpu_stop
           \/ balance_push \/ __balance_push_cpu_stop
    PROVE  AffinityInv'
<1>1. af_p \in PTypes
  BY DEF AffinityInv, AfTypes
<1>2. UNCHANGED <<af_pending, af_own, af_call, af_work, af_comp, af_accident>>
  BY DEF pick_next_task, preempt_schedule, block, try_to_wake_up, sched_ttwu_pending, load_balance,
         migrate_disable, push_rt_task, push_cpu_stop, balance_push, __balance_push_cpu_stop,
         Reschedule, stop_vars, rest_vars
<1>3. ASSUME af_accident = {}
      PROVE  /\ af_p.pinned => af_p.disabled > 0
             /\ af_p.disabled > 0 /\ af_p.st # "running" => af_p.pinned
             /\ af_call[Enable].pc # "idle" => af_p.st = "running" /\ af_p.disabled = 1 /\ ~af_p.pinned
             /\ (af_p.st # "blocked" \/ af_p.pinned) /\ af_p.cpu \notin af_p.mask => af_pending # NoRequest
  BY <1>3 DEF AffinityInv, PinnedInv, ServedInv
<1>4. CASE pick_next_task
  <2> DEFINE q == [af_p EXCEPT !.st = "running"]
  <2>1. af_p' = q /\ af_p.st = "queued"
    BY <1>4 DEF pick_next_task, Reschedule
  <2>2. q \in PTypes /\ q.st = "running" /\ q.cpu = af_p.cpu /\ q.mask = af_p.mask /\ q.disabled = af_p.disabled
        /\ q.pinned = af_p.pinned
    BY <1>1 DEF PTypes
  <2> HIDE DEF q
  <2>3. af_accident = {} => MayBecome(q)
    BY <1>3, <2>1, <2>2 DEF MayBecome
  <2> QED BY <1>2, <2>1, <2>2, <2>3, TaskKeeps
<1>5. CASE preempt_schedule \/ block
  <2>1. PICK s \in {"queued", "blocked"} : af_p' = migrate_disable_switch([af_p EXCEPT !.st = s])
    BY <1>5 DEF preempt_schedule, block, Reschedule
  <2>2. af_p.st = "running" /\ af_call[Enable].pc = "idle"
    BY <1>5 DEF preempt_schedule, block, Preemptible, Runs
  <2> DEFINE q0 == [af_p EXCEPT !.st = s]
  <2>3. PICK b \in BOOLEAN : b = (q0.disabled > 0)
    <3> DEFINE b == q0.disabled > 0
    <3>1. b \in BOOLEAN
      OBVIOUS
    <3> QED BY <3>1, Zenon
  <2> DEFINE q == [q0 EXCEPT !.pinned = b]
  <2>4. af_p' = q /\ (b <=> q0.disabled > 0)
    BY <2>1, <2>3 DEF migrate_disable_switch
  <2>5. q0 \in PTypes /\ q0.st = s /\ q0.cpu = af_p.cpu /\ q0.mask = af_p.mask /\ q0.disabled = af_p.disabled
    BY <1>1 DEF PTypes
  <2> HIDE DEF q0
  <2>6. q \in PTypes /\ q.st = s /\ q.cpu = af_p.cpu /\ q.mask = af_p.mask /\ q.disabled = af_p.disabled
        /\ q.pinned = b
    BY <2>5 DEF PTypes
  <2> HIDE DEF q
  <2>7. af_accident = {} => MayBecome(q)
    BY <1>3, <2>2, <2>4, <2>5, <2>6 DEF MayBecome
  <2> QED BY <1>2, <2>4, <2>6, <2>7, TaskKeeps
<1>6. CASE try_to_wake_up
  <2>1. PICK p \in select_fallback_rq(af_p), s \in {"queued", "waking"} :
           af_p' = [p EXCEPT !.st = s] /\ af_p.st = "blocked"
    BY <1>6 DEF try_to_wake_up, select_task_rq, Reschedule
  <2>2. /\ p \in PTypes /\ p.st = af_p.st /\ p.disabled = af_p.disabled /\ p.pinned = af_p.pinned
        /\ ~af_p.pinned => p.cpu \in p.mask
        /\ af_p.pinned /\ af_p.disabled > 0 => p.cpu = af_p.cpu /\ p.mask = af_p.mask
    BY <1>1, <2>1, Fallback
  <2> DEFINE q == [p EXCEPT !.st = s]
  <2>3. q \in PTypes /\ q.st = s /\ q.cpu = p.cpu /\ q.mask = p.mask /\ q.disabled = p.disabled /\ q.pinned = p.pinned
    BY <2>2 DEF PTypes
  <2>4. af_p' = q
    BY <2>1
  <2> HIDE DEF q
  <2>5. af_accident = {} => MayBecome(q)
    BY <1>3, <2>1, <2>2, <2>3 DEF MayBecome
  <2> QED BY <1>2, <2>3, <2>4, <2>5, TaskKeeps
<1>7. CASE sched_ttwu_pending
  <2> DEFINE q == [af_p EXCEPT !.st = "queued"]
  <2>1. af_p' = q /\ af_p.st = "waking"
    BY <1>7 DEF sched_ttwu_pending, Reschedule
  <2>2. q \in PTypes /\ q.st = "queued" /\ q.cpu = af_p.cpu /\ q.mask = af_p.mask /\ q.disabled = af_p.disabled
        /\ q.pinned = af_p.pinned
    BY <1>1 DEF PTypes
  <2> HIDE DEF q
  <2>3. af_accident = {} => MayBecome(q)
    BY <1>3, <2>1, <2>2 DEF MayBecome
  <2> QED BY <1>2, <2>1, <2>2, <2>3, TaskKeeps
<1>8. CASE load_balance
  <2>1. PICK d \in AfCpu : is_cpu_allowed(af_p, d) /\ af_p' = [af_p EXCEPT !.cpu = d]
                           /\ af_p.st = "queued" /\ af_p.disabled = 0
    BY <1>8 DEF load_balance, Reschedule, move_queued_task, set_task_cpu
  <2> DEFINE q == [af_p EXCEPT !.cpu = d]
  <2>2. q \in PTypes /\ q.st = "queued" /\ q.cpu = d /\ q.mask = af_p.mask /\ q.disabled = 0
        /\ q.pinned = af_p.pinned
    BY <1>1, <2>1 DEF PTypes
  <2>3. af_p' = q
    BY <2>1
  <2> HIDE DEF q
  <2>4. ~af_p.pinned => d \in af_p.mask
    BY <2>1 DEF is_cpu_allowed, cpus_ptr
  <2>5. af_accident = {} => MayBecome(q)
    BY <1>3, <2>1, <2>2, <2>4 DEF MayBecome
  <2> QED BY <1>2, <2>2, <2>3, <2>5, TaskKeeps
<1>9. CASE migrate_disable
  <2> DEFINE q == [af_p EXCEPT !.disabled = @ + 1]
  <2>1. af_p' = q /\ af_p.st = "running" /\ af_call[Enable].pc = "idle" /\ af_p.disabled < 2
    BY <1>9 DEF migrate_disable, Reschedule, Preemptible, Runs
  <2>2. q \in PTypes /\ q.st = "running" /\ q.cpu = af_p.cpu /\ q.mask = af_p.mask /\ q.disabled = af_p.disabled + 1
        /\ q.pinned = af_p.pinned /\ af_p.disabled \in 0 .. 2
    BY <1>1, <2>1 DEF PTypes
  <2> HIDE DEF q
  <2>3. af_accident = {} => MayBecome(q)
    BY <1>3, <2>1, <2>2 DEF MayBecome
  <2> QED BY <1>2, <2>1, <2>2, <2>3, TaskKeeps
<1>10. CASE push_rt_task
  <2>1. af_p' = af_p
    BY <1>10 DEF push_rt_task
  <2>2. af_accident = {} => MayBecome(af_p)
    BY <1>3 DEF MayBecome
  <2> QED BY <1>1, <1>2, <2>1, <2>2, TaskKeeps
<1>11. CASE push_cpu_stop
  <2>1. PICK q \in PTypes : /\ af_p' = q /\ q.st = af_p.st /\ q.mask = af_p.mask /\ q.disabled = af_p.disabled
                            /\ q.pinned = af_p.pinned /\ (q.cpu = af_p.cpu \/ q.cpu \in af_p.mask)
    <3>1. \/ af_p' = af_p
          \/ af_p' = [af_p EXCEPT !.push = TRUE]
          \/ \E d \in AfCpu : (d = af_p.cpu \/ d \in af_p.mask) /\ af_p' = [af_p EXCEPT !.push = FALSE, !.cpu = d]
      BY <1>11 DEF push_cpu_stop
    <3>2. CASE af_p' = af_p
      BY <1>1, <3>2
    <3>3. CASE af_p' = [af_p EXCEPT !.push = TRUE]
      <4> DEFINE q0 == [af_p EXCEPT !.push = TRUE]
      <4>1. q0 \in PTypes /\ q0.st = af_p.st /\ q0.mask = af_p.mask /\ q0.disabled = af_p.disabled
            /\ q0.pinned = af_p.pinned /\ q0.cpu = af_p.cpu
        BY <1>1 DEF PTypes
      <4> QED BY <3>3, <4>1
    <3>4. CASE \E d \in AfCpu : (d = af_p.cpu \/ d \in af_p.mask) /\ af_p' = [af_p EXCEPT !.push = FALSE, !.cpu = d]
      <4>1. PICK d \in AfCpu : (d = af_p.cpu \/ d \in af_p.mask) /\ af_p' = [af_p EXCEPT !.push = FALSE, !.cpu = d]
        BY <3>4
      <4> DEFINE q0 == [af_p EXCEPT !.push = FALSE, !.cpu = d]
      <4>2. q0 \in PTypes /\ q0.st = af_p.st /\ q0.mask = af_p.mask /\ q0.disabled = af_p.disabled
            /\ q0.pinned = af_p.pinned /\ q0.cpu = d
        BY <1>1 DEF PTypes
      <4> QED BY <4>1, <4>2
    <3> QED BY <3>1, <3>2, <3>3, <3>4
  <2>2. af_accident = {} => MayBecome(q)
    BY <1>3, <2>1 DEF MayBecome
  <2> QED BY <1>2, <2>1, <2>2, TaskKeeps
<1>12. CASE balance_push
  <2> DEFINE q == [af_p EXCEPT !.st = "queued"]
  <2>1. af_p' = q /\ af_p.st = "running" /\ af_call[Enable].pc = "idle" /\ af_p.disabled = 0
    BY <1>12 DEF balance_push, Preemptible, Runs
  <2>2. q \in PTypes /\ q.st = "queued" /\ q.cpu = af_p.cpu /\ q.mask = af_p.mask /\ q.disabled = af_p.disabled
        /\ q.pinned = af_p.pinned
    BY <1>1 DEF PTypes
  <2> HIDE DEF q
  <2>3. af_accident = {} => MayBecome(q)
    BY <1>3, <2>1, <2>2 DEF MayBecome
  <2> QED BY <1>2, <2>1, <2>2, <2>3, TaskKeeps
<1>13. CASE __balance_push_cpu_stop
  <2>1. CASE af_p' = af_p
    <3>1. af_accident = {} => MayBecome(af_p)
      BY <1>3 DEF MayBecome
    <3> QED BY <1>1, <1>2, <2>1, <3>1, TaskKeeps
  <2>2. CASE af_p' # af_p
    <3>1. PICK q \in select_fallback_rq(af_p) : af_p' = q /\ af_p.st = "queued"
      BY <1>13, <2>2 DEF __balance_push_cpu_stop
    <3>2. /\ q \in PTypes /\ q.st = af_p.st /\ q.disabled = af_p.disabled /\ q.pinned = af_p.pinned
          /\ ~af_p.pinned => q.cpu \in q.mask
          /\ af_p.pinned /\ af_p.disabled > 0 => q.cpu = af_p.cpu /\ q.mask = af_p.mask
      BY <1>1, <3>1, Fallback
    <3>3. af_accident = {} => MayBecome(q)
      BY <1>3, <3>1, <3>2 DEF MayBecome
    <3> QED BY <1>2, <3>1, <3>2, <3>3, TaskKeeps
  <2> QED BY <2>1, <2>2
<1> QED BY <1>4, <1>5, <1>6, <1>7, <1>8, <1>9, <1>10, <1>11, <1>12, <1>13

(* CPU hotplug touches neither the task nor the requests. *)
LEMMA HotplugKeeps ==
    ASSUME AffinityInv, sched_cpu_deactivate \/ sched_cpu_wait_empty \/ sched_cpu_activate
    PROVE  AffinityInv'
<1>1. UNCHANGED <<af_pending, af_own, af_call, af_work, af_comp, af_accident>> /\ af_p' = af_p
  BY DEF sched_cpu_deactivate, sched_cpu_wait_empty, sched_cpu_activate, SetCpu, stop_vars
<1>2. af_p \in PTypes
  BY DEF AffinityInv, AfTypes
<1>3. af_accident = {} => MayBecome(af_p)
  BY DEF AffinityInv, PinnedInv, ServedInv, MayBecome
<1> QED BY <1>1, <1>2, <1>3, TaskKeeps

(* A call that asks for nothing: it was idle and is idle again, or in the   *)
(* last part of migrate_enable.                                             *)
LEMMA NothingAsked ==
    ASSUME AffinityInv, NEW c \in AfCalls, af_call[c].pc = "idle", af_call' = ReturnFrom(c),
           UNCHANGED <<af_pending, af_own, af_work, af_comp>>, af_p' \in PTypes
    PROVE  /\ AfTypes' /\ Requests'
           /\ \A d \in AfCalls : d # c => af_call'[d] = af_call[d]
           /\ c = Enable => af_call'[Enable].pc = "clear"
           /\ \A x \in Requesters, d \in AfCalls : Posts(af_call[d], x) => Posts(af_call'[d], x)
<1>0. AfTypes /\ Requests /\ Requesters \subseteq AfCalls
  BY DEF AffinityInv, AfCalls
<1>1. PICK k \in CallRecs : /\ af_call' = [af_call EXCEPT ![c] = k] /\ CallOk(c, k)
                            /\ k.pc = IF c = Enable THEN "clear" ELSE "idle"
  <2>1. CASE c = Enable
    <3> DEFINE k == [pc |-> "clear", pending |-> NoRequest, cpu |-> 0, next |-> "idle"]
    <3>1. k \in CallRecs /\ k.pc = "clear" /\ CallOk(c, k)
      BY <2>1, CallersAre DEF CallRecs, CallOk
    <3>2. af_call' = [af_call EXCEPT ![c] = k]
      BY <2>1, NotCallings DEF ReturnFrom
    <3> HIDE DEF k
    <3> QED BY <2>1, <3>1, <3>2
  <2>2. CASE c # Enable
    <3>1. NotCalling \in CallRecs /\ NotCalling.pc = "idle" /\ CallOk(c, NotCalling)
      BY NotCallings DEF CallRecs, CallOk
    <3>2. af_call' = [af_call EXCEPT ![c] = NotCalling]
      BY <2>2 DEF ReturnFrom
    <3> QED BY <2>2, <3>1, <3>2
  <2> QED BY <2>1, <2>2
<1>2. k.pc \in {"idle", "drain", "clear"} /\ af_call[c].pc \in {"idle", "drain", "clear"}
  BY <1>1
<1>3. \A x : /\ ~Uses(k, x) /\ ~Waits(k, x) /\ ~Posts(k, x) /\ ~Completes(k, x)
             /\ ~Waits(af_call[c], x) /\ ~Posts(af_call[c], x) /\ ~Completes(af_call[c], x)
  BY <1>2, NotUsing
<1>4. af_call'[c] = k /\ \A d \in AfCalls : d # c => af_call'[d] = af_call[d]
  BY <1>0, <1>1, SameForOthers DEF AfTypes
<1>5. AfTypes'
  BY <1>0, <1>1 DEF AfTypes
<1>6. ASSUME NEW x \in Requesters PROVE RequestOk(x)'
  <2>1. RequestOk(x) /\ x \in AfCalls
    BY <1>0 DEF Requests
  <2>2. \A d \in AfCalls : /\ Waits(af_call'[d], x) <=> Waits(af_call[d], x)
                           /\ Posts(af_call'[d], x) <=> Posts(af_call[d], x)
                           /\ Completes(af_call'[d], x) <=> Completes(af_call[d], x)
    BY <1>3, <1>4
  <2>3. Unfinished(x)' <=> Unfinished(x)
    BY <2>2 DEF Unfinished
  <2>4. Waiters(x)' = Waiters(x)
    BY <1>0, <2>2 DEF Waiters
  <2>5. CompletedOnce(x)'
    BY <2>1, <2>2, <2>3 DEF RequestOk, CompletedOnce
  <2>6. PostedOnce(x)'
    BY <2>1, <2>2 DEF RequestOk, PostedOnce
  <2>7. af_call[x].pc = "drain" => af_call'[x].pc = "drain"
    BY <1>4, <2>1
  <2>8. ReferencesCounted(x)'
    BY <1>0, <2>1, <2>2, <2>3, <2>4, <2>7 DEF RequestOk, ReferencesCounted
  <2> QED BY <2>5, <2>6, <2>8 DEF RequestOk
<1>7. \A d \in AfCalls : CallOk(d, af_call'[d])
  BY <1>0, <1>1, <1>4 DEF Requests
<1>8. Requests'
  BY <1>6, <1>7 DEF Requests
<1> QED BY <1>1, <1>3, <1>4, <1>5, <1>8

(* A call c that was idle takes up the request r: the one that is           *)
(* installed, or its own.  It is then at k, and the request is n.           *)
Takes(c, r, k, n) ==
    /\ af_pending = r \/ (af_pending = NoRequest /\ r = c)
    /\ CallOk(c, k) /\ k.pending = r /\ af_call' = [af_call EXCEPT ![c] = k]
    /\ ~n.done /\ af_own' = [af_own EXCEPT ![r] = n]
    /\ Waits(k, r) => c \in Requesters /\ n.refs = af_own[r].refs + 1
    /\ ~Waits(k, r) => af_pending = r /\ n.refs = af_own[r].refs
    /\ \/ Posts(k, r) /\ ~af_own[r].stop /\ n.stop
       \/ ~Posts(k, r) /\ n.stop = af_own[r].stop
    /\ Completes(k, r) => ~n.stop /\ af_pending' = NoRequest
    /\ ~Completes(k, r) => af_pending' = r

LEMMA RequestAsked ==
    ASSUME AffinityInv, NEW c \in AfCalls, af_call[c].pc = "idle",
           NEW r \in Requesters, NEW k \in CallRecs, NEW n \in OwnTypes, Takes(c, r, k, n),
           UNCHANGED <<af_work, af_comp>>, af_p' \in PTypes
    PROVE  /\ AfTypes' /\ Requests' /\ af_own'[r] = n
           /\ \A x \in Requesters \ {r} : af_own'[x] = af_own[x]
           /\ af_call'[c] = k /\ \A d \in AfCalls : d # c => af_call'[d] = af_call[d]
           /\ \A x \in Requesters, d \in AfCalls : Posts(af_call[d], x) => Posts(af_call'[d], x)
<1> USE DEF Takes
<1>0. AfTypes /\ Requests /\ Requesters \subseteq AfCalls
  BY DEF AffinityInv, AfCalls
<1>1. af_call'[c] = k /\ \A d \in AfCalls : d # c => af_call'[d] = af_call[d]
  BY <1>0, SameForOthers DEF AfTypes
<1>2. \A x : ~Uses(af_call[c], x) /\ ~Waits(af_call[c], x) /\ ~Posts(af_call[c], x) /\ ~Completes(af_call[c], x)
  BY NotUsing
<1>3. \A x : x # r => ~Uses(k, x)
  BY DEF Uses
<1>4. af_own'[r] = n /\ \A x \in Requesters \ {r} : af_own'[x] = af_own[x]
  BY <1>0, OwnChange DEF AfTypes
<1>5. RequestOk(r)
  BY <1>0 DEF Requests
<1>6. r \notin af_comp /\ \A d \in AfCalls : ~Completes(af_call[d], r)
  <2>1. CASE af_pending = r
    BY <1>5, <2>1 DEF RequestOk, CompletedOnce
  <2>2. CASE r = c
    <3>1. ~Unfinished(r)
      BY <1>0, <2>2, IdleUnused
    <3> QED BY <3>1 DEF Unfinished
  <2> QED BY <2>1, <2>2
<1>7. Waits(af_call'[r], r)
  <2>1. CASE af_pending = r
    <3>1. Waits(af_call[r], r)
      BY <1>5, <2>1 DEF RequestOk, CompletedOnce, Unfinished
    <3> QED BY <1>0, <1>1, <1>2, <3>1
  <2>2. CASE af_pending # r
    BY <1>1, <2>2
  <2> QED BY <2>1, <2>2
<1>8. \A d \in AfCalls : Completes(af_call'[d], r) <=> (d = c /\ Completes(k, r))
  BY <1>1, <1>6
<1>9. CompletedOnce(r)'
  <2>1. af_pending' = r => ~Completes(k, r)
    BY CallersAre DEF AfCalls
  <2> QED BY <1>4, <1>6, <1>7, <1>8, <2>1 DEF CompletedOnce
<1>10. PostedOnce(r)'
  <2>1. af_own[r].stop => af_pending = r
    BY <1>5 DEF RequestOk, PostedOnce
  <2>2. n.stop => af_pending' = r
    BY DEF Posts, Completes
  <2>3. CASE Posts(k, r) /\ ~af_own[r].stop /\ n.stop
    <3>1. af_work[r] = 0 /\ \A d \in AfCalls : ~Posts(af_call[d], r)
      BY <1>5, <2>3 DEF RequestOk, PostedOnce
    <3>2. \A d \in AfCalls : Posts(af_call'[d], r) => d = c
      BY <1>1, <3>1
    <3> QED BY <1>4, <2>2, <2>3, <3>1, <3>2 DEF PostedOnce
  <2>4. CASE ~Posts(k, r) /\ n.stop = af_own[r].stop
    <3>1. \A d \in AfCalls : Posts(af_call'[d], r) <=> Posts(af_call[d], r)
      BY <1>1, <1>2, <2>4
    <3> QED BY <1>4, <1>5, <2>2, <2>4, <3>1 DEF RequestOk, PostedOnce
  <2> QED BY <2>3, <2>4
<1>11. af_own'[r].refs = Cardinality(Waiters(r)')
  <2>1. c \notin Waiters(r)
    BY <1>2 DEF Waiters
  <2>2. af_own[r].refs = Cardinality(Waiters(r))
    BY <1>5 DEF RequestOk, ReferencesCounted
  <2>3. CASE Waits(k, r)
    <3>1. Waiters(r)' = Waiters(r) \cup {c}
      BY <1>0, <1>1, <2>3 DEF Waiters
    <3>2. Cardinality(Waiters(r)') = Cardinality(Waiters(r)) + 1
      <4> HIDE DEF Takes
      <4>1. IsFiniteSet(Waiters(r))
        BY WaitersFinite
      <4>2. Cardinality(Waiters(r) \cup {c}) = Cardinality(Waiters(r)) + 1
        BY <2>1, <4>1, FS_AddElement
      <4> QED BY <3>1, <4>2
    <3> QED BY <1>4, <2>2, <2>3, <3>2
  <2>4. CASE ~Waits(k, r)
    <3>1. Waiters(r)' = Waiters(r)
      BY <1>0, <1>1, <1>2, <2>4 DEF Waiters
    <3> QED BY <1>4, <2>2, <2>4, <3>1
  <2> QED BY <2>3, <2>4
<1>12. ReferencesCounted(r)'
  <2>1. Unfinished(r)'
    <3>1. CASE Completes(k, r)
      BY <1>1, <3>1 DEF Unfinished
    <3>2. CASE ~Completes(k, r)
      BY <3>2 DEF Unfinished
    <3> QED BY <3>1, <3>2
  <2> QED BY <1>7, <1>11, <2>1 DEF ReferencesCounted
<1>13. RequestOk(r)'
  BY <1>9, <1>10, <1>12 DEF RequestOk
<1>14. /\ af_work' = [af_work EXCEPT ![r] = af_work[r]] /\ af_work[r] \in AfCpu \cup {0}
       /\ af_pending' \in Requesters \cup {NoRequest} /\ af_comp' \in SUBSET Requesters
       /\ \A x \in Requesters \ {r} : /\ af_pending' = x <=> af_pending = x
                                      /\ x \in af_comp' <=> x \in af_comp
  BY <1>0, CallersAre DEF AfTypes, AfCalls
<1>15. AfTypes' /\ Requests'
  BY <1>2, <1>3, <1>13, <1>14, StepKeeps
<1> QED BY <1>1, <1>2, <1>4, <1>15

(* The request that affine_move_task works on, with c's reference. *)
LEMMA RequestInstalled ==
    ASSUME AffinityInv, NEW c \in AfCalls, af_call[c].pc = "idle", NEW dest \in AfCpu \cup {0},
           NEW r \in Requesters, r = IF af_pending = NoRequest THEN c ELSE af_pending
    PROVE  \E m \in OwnTypes : /\ install(c, dest) = [af_own EXCEPT ![r] = m]
                               /\ m.refs = IF c = Enable THEN af_own[r].refs ELSE af_own[r].refs + 1
                               /\ m.stop = af_own[r].stop /\ ~m.done
<1>0. AfTypes /\ Requests
  BY DEF AffinityInv
<1>1. RequestOk(r) /\ af_own[r] \in OwnTypes /\ af_own \in [Requesters -> OwnTypes]
  BY <1>0 DEF AfTypes, Requests
<1>2. CASE af_pending = NoRequest
  <2>1. r = c /\ c # Enable
    BY <1>2, CallersAre
  <2>2. af_own[r].refs = 0 /\ ~af_own[r].stop
    BY <1>0, <2>1, IdleUnused
  <2> DEFINE m0 == [NoPending EXCEPT !.refs = 1]
             m == [m0 EXCEPT !.dest = dest]
  <2>3. m0 \in OwnTypes /\ m0.refs = 1 /\ ~m0.stop /\ ~m0.done
    <3>1. NoPending \in OwnTypes /\ ~NoPending.stop /\ ~NoPending.done
      BY DEF NoPending, OwnTypes
    <3> QED BY <3>1 DEF OwnTypes
  <2>4. install(c, dest) = [af_own EXCEPT ![r] = m]
    <3>1. install(c, dest) = [af_own EXCEPT ![r] = [NoPending EXCEPT !.refs = 1, !.dest = dest]]
      BY <1>2, <2>1 DEF install
    <3> QED BY <3>1
  <2> HIDE DEF m0
  <2>5. m \in OwnTypes /\ m.refs = 1 /\ m.stop = m0.stop /\ m.done = m0.done
    BY <2>3 DEF OwnTypes
  <2> HIDE DEF m
  <2>6. af_own[r].stop \in BOOLEAN /\ m0.stop \in BOOLEAN
    BY <1>1, <2>3 DEF OwnTypes
  <2>7. m.stop = af_own[r].stop /\ ~m.done /\ m.refs = af_own[r].refs + 1
    BY <2>2, <2>3, <2>5, <2>6
  <2> QED BY <2>1, <2>4, <2>5, <2>7
<1>3. CASE af_pending # NoRequest
  <2>1. af_pending = r /\ ~af_own[r].done
    BY <1>1, <1>3 DEF RequestOk, CompletedOnce, Unfinished
  <2>2. CASE c = Enable
    <3>1. install(c, dest) = [af_own EXCEPT ![r] = af_own[r]]
      BY <1>1, <2>2 DEF install
    <3> QED BY <1>1, <2>1, <2>2, <3>1
  <2>3. CASE c # Enable
    <3> DEFINE m0 == [af_own[r] EXCEPT !.refs = @ + 1]
               m == [m0 EXCEPT !.dest = dest]
    <3>1. m0 \in OwnTypes /\ m0.refs = af_own[r].refs + 1 /\ m0.stop = af_own[r].stop /\ m0.done = af_own[r].done
      BY <1>1 DEF OwnTypes
    <3>2. install(c, dest) = [af_own EXCEPT ![r] = m]
      <4>1. install(c, dest) = [af_own EXCEPT ![r].refs = @ + 1, ![r].dest = dest]
        BY <1>3, <2>1, <2>3 DEF install
      <4>2. install(c, dest) = [[af_own EXCEPT ![r].refs = @ + 1] EXCEPT ![r].dest = dest]
        BY <4>1
      <4>3. [af_own EXCEPT ![r].refs = @ + 1] = [af_own EXCEPT ![r] = m0]
        OBVIOUS
      <4> HIDE DEF m0
      <4>4. [[af_own EXCEPT ![r] = m0] EXCEPT ![r].dest = dest] = [af_own EXCEPT ![r] = m]
        BY <1>1, <3>1
      <4> QED BY <4>2, <4>3, <4>4
    <3> HIDE DEF m0
    <3>3. m \in OwnTypes /\ m.refs = m0.refs /\ m.stop = m0.stop /\ m.done = m0.done
      BY <3>1 DEF OwnTypes
    <3> HIDE DEF m
    <3> QED BY <2>1, <2>3, <3>1, <3>2, <3>3
  <2> QED BY <2>2, <2>3
<1> QED BY <1>2, <1>3

(* What a call may find: p is the task with the mask that c asks for and    *)
(* dest a CPU of it; migrate_enable finds it running and no longer pinned.  *)
MayAsk(c, p, dest) ==
    /\ p \in PTypes /\ p.st = af_p.st /\ p.cpu = af_p.cpu /\ p.disabled = af_p.disabled
    /\ dest \in AfCpu \cup {0}
    /\ c # Enable => p.pinned = af_p.pinned /\ dest \in p.mask
    /\ c = Enable => p.st = "running" /\ p.disabled = 1 /\ ~p.pinned /\ p.mask = af_p.mask

(* The outcomes of affine_move_task: nothing is asked for, *)
Returned(c, p) ==
    /\ af_p' = p /\ af_call' = ReturnFrom(c) /\ af_pending' = af_pending /\ af_own' = af_own
    /\ \/ p.cpu \in p.mask /\ (af_pending = NoRequest \/ af_own[af_pending].stop)
       \/ p.cpu \notin p.mask /\ af_pending = NoRequest /\ c = Enable

(* or c is at k with the request r, now n, and the task is q. *)
Asked(c, p, r, k, n, q) ==
    /\ Takes(c, r, k, n) /\ k.pc # "idle"
    /\ af_p' = q /\ q.st = p.st /\ q.mask = p.mask /\ q.disabled = p.disabled /\ q.pinned = p.pinned
    /\ Completes(k, r) => \/ q.cpu \in q.mask
                          \/ p.disabled = 0 /\ p.st = "blocked"
    /\ ~Completes(k, r) => n.stop \/ (p.disabled > 0 /\ p.st # "running" /\ c # Enable)

LEMMA DoneOutcome ==
    ASSUME AffinityInv, NEW c \in AfCalls, af_call[c].pc = "idle", NEW p, NEW dest, MayAsk(c, p, dest),
           affine_done(c, p)
    PROVE  \/ Returned(c, p)
           \/ \E r \in Requesters, k \in CallRecs, n \in OwnTypes, q \in PTypes : Asked(c, p, r, k, n, q)
<1>0. AfTypes /\ Requests /\ af_pending \in Requesters \cup {NoRequest} /\ p \in PTypes
  BY DEF AffinityInv, AfTypes, MayAsk
<1>1. p.cpu \in p.mask /\ af_p' = p /\ af_own' = af_own
  BY DEF affine_done
<1>2. CASE ~(af_pending # NoRequest /\ ~af_own[af_pending].stop)
  <2>1. af_pending' = af_pending /\ af_call' = ReturnFrom(c)
    BY <1>2 DEF affine_done
  <2> QED BY <1>1, <1>2, <2>1 DEF Returned
<1>3. CASE af_pending # NoRequest /\ ~af_own[af_pending].stop
  <2>1. PICK r \in Requesters : r = af_pending
    BY <1>0, <1>3
  <2>2. RequestOk(r) /\ af_own[r] \in OwnTypes /\ af_own \in [Requesters -> OwnTypes]
    BY <1>0 DEF AfTypes, Requests
  <2>3. ~af_own[r].done
    BY <2>1, <2>2 DEF RequestOk, CompletedOnce, Unfinished
  <2>4. PICK s \in {"clear", "idle"} : s = (IF c = Enable THEN "clear" ELSE "idle")
    OBVIOUS
  <2> DEFINE k == [pc |-> "complete", pending |-> r, cpu |-> 0, next |-> s]
  <2>5. af_pending' = NoRequest /\ af_call' = [af_call EXCEPT ![c] = k]
    BY <1>3, <2>1, <2>4 DEF affine_done, At
  <2>6. k \in CallRecs /\ k.pc = "complete" /\ k.pending = r /\ k.next = s
    BY DEF CallRecs
  <2> HIDE DEF k
  <2>7. CallOk(c, k)
    BY <2>4, <2>6, CallersAre DEF CallOk, AfCalls
  <2>8. ~Waits(k, r) /\ ~Posts(k, r) /\ Completes(k, r)
    BY <2>6 DEF Waits, Uses, Posts, Completes
  <2>9. af_own' = [af_own EXCEPT ![r] = af_own[r]]
    BY <1>1, <2>2
  <2>10. Asked(c, p, r, k, af_own[r], p)
    BY <1>1, <1>3, <2>1, <2>3, <2>5, <2>6, <2>7, <2>8, <2>9 DEF Asked, Takes
  <2> QED BY <1>0, <2>2, <2>6, <2>10
<1> QED BY <1>2, <1>3

LEMMA MoveOutcome ==
    ASSUME AffinityInv, NEW c \in AfCalls, af_call[c].pc = "idle", NEW p, NEW dest, MayAsk(c, p, dest),
           affine_move_task(c, p, dest)
    PROVE  /\ af_work' = af_work /\ af_comp' = af_comp
           /\ \/ Returned(c, p)
              \/ \E r \in Requesters, k \in CallRecs, n \in OwnTypes, q \in PTypes : Asked(c, p, r, k, n, q)
<1>0. /\ AfTypes /\ Requests /\ af_pending \in Requesters \cup {NoRequest} /\ p \in PTypes
      /\ dest \in AfCpu \cup {0} /\ p.cpu \in AfCpu
  BY DEF AffinityInv, AfTypes, MayAsk, PTypes
<1>1. CASE affine_done(c, p)
  <2>1. af_work' = af_work /\ af_comp' = af_comp
    BY <1>1 DEF affine_done
  <2> QED BY <1>1, <2>1, DoneOutcome
<1>2. CASE ~affine_done(c, p)
  <2>1. PICK r : r = IF af_pending = NoRequest THEN c ELSE af_pending
    OBVIOUS
  <2>2. /\ p.cpu \notin p.mask
        /\ IF r = Enable THEN af_p' = p /\ af_call' = ReturnFrom(c) /\ UNCHANGED <<af_own, af_pending>>
           ELSE affine_stop(c, p, install(c, dest), r) \/ affine_here(c, p, install(c, dest), r, dest)
        /\ UNCHANGED stop_vars
    BY <1>2, <2>1 DEF affine_move_task
  <2>3. af_work' = af_work /\ af_comp' = af_comp
    BY <2>2 DEF stop_vars
  <2>4. CASE r = Enable
    <3>1. af_pending = NoRequest /\ c = Enable
      BY <1>0, <2>1, <2>4, CallersAre DEF AfCalls
    <3> QED BY <2>2, <2>3, <2>4, <3>1 DEF Returned
  <2>5. CASE r # Enable
    <3>1. r \in Requesters /\ (af_pending = r \/ (af_pending = NoRequest /\ r = c)) /\ (c = Enable => af_pending = r)
      BY <1>0, <2>1, <2>5 DEF AfCalls
    <3>2. PICK m \in OwnTypes : /\ install(c, dest) = [af_own EXCEPT ![r] = m]
                                /\ m.refs = IF c = Enable THEN af_own[r].refs ELSE af_own[r].refs + 1
                                /\ m.stop = af_own[r].stop /\ ~m.done
      BY <1>0, <2>1, <3>1, RequestInstalled
    <3>3. af_own \in [Requesters -> OwnTypes] /\ install(c, dest)[r] = m
      BY <1>0, <3>1, <3>2 DEF AfTypes
    <3>4. CASE affine_stop(c, p, install(c, dest), r)
      <4>1. PICK q \in PTypes : /\ af_p' = q /\ q.st = p.st /\ q.mask = p.mask /\ q.disabled = p.disabled
                                /\ q.pinned = p.pinned
        <5> DEFINE q == [p EXCEPT !.push = FALSE]
        <5>1. q \in PTypes /\ q.st = p.st /\ q.mask = p.mask /\ q.disabled = p.disabled /\ q.pinned = p.pinned
          BY <1>0 DEF PTypes
        <5>2. af_p' = q \/ af_p' = p
          BY <3>4 DEF affine_stop
        <5> HIDE DEF q
        <5> QED BY <1>0, <5>1, <5>2
      <4>2. PICK s \in {"clear", "wait"} : s = (IF c = Enable THEN "clear" ELSE "wait")
        OBVIOUS
      <4>3. /\ af_own' = [install(c, dest) EXCEPT ![r].stop = TRUE] /\ af_pending' = r
            /\ af_call' = IF m.stop THEN At(c, s, r, 0, "idle") ELSE At(c, "post", r, p.cpu, s)
        BY <3>3, <3>4, <4>2 DEF affine_stop
      <4> DEFINE n == [m EXCEPT !.stop = TRUE]
      <4>4. n \in OwnTypes /\ n.refs = m.refs /\ n.stop = TRUE /\ n.done = m.done
        BY <3>2 DEF OwnTypes
      <4>5. af_own' = [af_own EXCEPT ![r] = n]
        BY <3>1, <3>2, <3>3, <4>3
      <4> HIDE DEF n
      <4>6. CASE m.stop
        <5> DEFINE k == [pc |-> s, pending |-> r, cpu |-> 0, next |-> "idle"]
        <5>1. af_call' = [af_call EXCEPT ![c] = k]
          BY <4>3, <4>6 DEF At
        <5>2. k \in CallRecs /\ k.pc = s /\ k.pending = r /\ k.next = "idle"
          BY <3>1 DEF CallRecs
        <5> HIDE DEF k
        <5>3. CallOk(c, k)
          BY <3>1, <4>2, <5>2, CallersAre DEF CallOk, AfCalls
        <5>4. ~Posts(k, r) /\ ~Completes(k, r) /\ (Waits(k, r) <=> c # Enable)
          BY <4>2, <5>2 DEF Waits, Uses, Posts, Completes
        <5>5. n.stop = af_own[r].stop
          BY <3>1, <3>2, <3>3, <4>4, <4>6 DEF OwnTypes
        <5>6. Asked(c, p, r, k, n, q)
          <6>1. CASE c = Enable
            BY <3>1, <3>2, <4>1, <4>2, <4>3, <4>4, <4>5, <5>1, <5>2, <5>3, <5>4, <5>5, <6>1 DEF Asked, Takes
          <6>2. CASE c # Enable
            BY <3>1, <3>2, <4>1, <4>2, <4>3, <4>4, <4>5, <5>1, <5>2, <5>3, <5>4, <5>5, <6>2 DEF Asked, Takes, AfCalls
          <6> QED BY <6>1, <6>2
        <5> QED BY <2>3, <3>1, <4>1, <4>4, <5>2, <5>6
      <4>7. CASE ~m.stop
        <5> DEFINE k == [pc |-> "post", pending |-> r, cpu |-> p.cpu, next |-> s]
        <5>1. af_call' = [af_call EXCEPT ![c] = k]
          BY <4>3, <4>7 DEF At
        <5>2. k \in CallRecs /\ k.pc = "post" /\ k.pending = r /\ k.next = s /\ k.cpu = p.cpu
          BY <1>0, <3>1 DEF CallRecs
        <5> HIDE DEF k
        <5>3. CallOk(c, k)
          BY <1>0, <3>1, <4>2, <5>2, CallersAre DEF CallOk, AfCalls
        <5>4. Posts(k, r) /\ ~Completes(k, r) /\ (Waits(k, r) <=> c # Enable)
          BY <4>2, <5>2 DEF Waits, Uses, Posts, Completes
        <5>5. ~af_own[r].stop
          BY <3>2, <4>7
        <5>6. Asked(c, p, r, k, n, q)
          <6>1. CASE c = Enable
            BY <3>1, <3>2, <4>1, <4>3, <4>4, <4>5, <5>1, <5>2, <5>3, <5>4, <5>5, <6>1 DEF Asked, Takes
          <6>2. CASE c # Enable
            BY <3>1, <3>2, <4>1, <4>3, <4>4, <4>5, <5>1, <5>2, <5>3, <5>4, <5>5, <6>2 DEF Asked, Takes, AfCalls
          <6> QED BY <6>1, <6>2
        <5> QED BY <2>3, <3>1, <4>1, <4>4, <5>2, <5>6
      <4> QED BY <4>6, <4>7
    <3>5. CASE affine_here(c, p, install(c, dest), r, dest)
      <4>1. /\ p.st \in {"queued", "blocked"} /\ af_own' = [af_own EXCEPT ![r] = m]
            /\ af_p' = IF p.disabled = 0 /\ p.st = "queued" THEN [p EXCEPT !.cpu = dest] ELSE p
        BY <3>2, <3>5 DEF affine_here, move_queued_task, set_task_cpu
      <4>2. c # Enable /\ c \in Requesters /\ dest \in p.mask /\ dest \in AfCpu
        BY <1>0, <4>1 DEF MayAsk, AfCalls, PTypes
      <4>3. PICK q \in PTypes : /\ af_p' = q /\ q.st = p.st /\ q.mask = p.mask /\ q.disabled = p.disabled
                                /\ q.pinned = p.pinned
                                /\ p.disabled = 0 /\ p.st = "queued" => q.cpu \in q.mask
        <5> DEFINE q == [p EXCEPT !.cpu = dest]
        <5>1. /\ q \in PTypes /\ q.st = p.st /\ q.mask = p.mask /\ q.disabled = p.disabled /\ q.pinned = p.pinned
              /\ q.cpu = dest
          BY <1>0, <4>2 DEF PTypes
        <5> HIDE DEF q
        <5>2. af_p' = IF p.disabled = 0 /\ p.st = "queued" THEN q ELSE p
          BY <4>1 DEF q
        <5> QED BY <1>0, <4>2, <5>1, <5>2
      <4>4. CASE p.disabled = 0 /\ ~m.stop
        <5> DEFINE k == [pc |-> "complete", pending |-> r, cpu |-> 0, next |-> "wait"]
        <5>1. af_call' = [af_call EXCEPT ![c] = k] /\ af_pending' = NoRequest
          BY <3>3, <3>5, <4>4 DEF affine_here, At
        <5>2. k \in CallRecs /\ k.pc = "complete" /\ k.pending = r /\ k.next = "wait"
          BY <3>1 DEF CallRecs
        <5> HIDE DEF k
        <5>3. CallOk(c, k)
          BY <3>1, <4>2, <5>2, CallersAre DEF CallOk
        <5>4. ~Posts(k, r) /\ Completes(k, r) /\ Waits(k, r)
          BY <5>2 DEF Waits, Uses, Posts, Completes
        <5>5. Asked(c, p, r, k, m, q)
          BY <3>1, <3>2, <4>1, <4>2, <4>3, <4>4, <5>1, <5>2, <5>3, <5>4 DEF Asked, Takes
        <5> QED BY <2>3, <3>1, <3>2, <4>3, <5>2, <5>5
      <4>5. CASE ~(p.disabled = 0 /\ ~m.stop)
        <5> DEFINE k == [pc |-> "wait", pending |-> r, cpu |-> 0, next |-> "idle"]
        <5>1. af_call' = [af_call EXCEPT ![c] = k] /\ af_pending' = r
          BY <3>3, <3>5, <4>5 DEF affine_here, At
        <5>2. k \in CallRecs /\ k.pc = "wait" /\ k.pending = r /\ k.next = "idle"
          BY <3>1 DEF CallRecs
        <5> HIDE DEF k
        <5>3. CallOk(c, k)
          BY <3>1, <4>2, <5>2, CallersAre DEF CallOk
        <5>4. ~Posts(k, r) /\ ~Completes(k, r) /\ Waits(k, r)
          BY <5>2 DEF Waits, Uses, Posts, Completes
        <5>5. m.stop \/ (p.disabled > 0 /\ p.st # "running")
          BY <1>0, <4>1, <4>5 DEF PTypes
        <5>6. Asked(c, p, r, k, m, q)
          BY <3>1, <3>2, <4>1, <4>2, <4>3, <5>1, <5>2, <5>3, <5>4, <5>5 DEF Asked, Takes
        <5> QED BY <2>3, <3>1, <3>2, <4>3, <5>2, <5>6
      <4> QED BY <4>4, <4>5
    <3> QED BY <2>2, <2>5, <3>4, <3>5
  <2> QED BY <2>4, <2>5
<1> QED BY <1>1, <1>2

LEMMA MoveKeeps ==
    ASSUME AffinityInv, NEW c \in AfCalls, af_call[c].pc = "idle", NEW p, NEW dest, MayAsk(c, p, dest),
           affine_move_task(c, p, dest), af_accident' = {} => af_accident = {}
    PROVE  AffinityInv'
<1>0. p \in PTypes /\ Requesters \subseteq AfCalls
  BY DEF MayAsk, AfCalls
<1>1. /\ af_work' = af_work /\ af_comp' = af_comp
      /\ \/ Returned(c, p)
         \/ \E r \in Requesters, k \in CallRecs, n \in OwnTypes, q \in PTypes : Asked(c, p, r, k, n, q)
  BY MoveOutcome
<1>2. CASE Returned(c, p)
  <2>1. af_call' = ReturnFrom(c) /\ UNCHANGED <<af_pending, af_own, af_work, af_comp>> /\ af_p' \in PTypes
    BY <1>0, <1>1, <1>2 DEF Returned
  <2>2. /\ AfTypes' /\ Requests'
        /\ \A d \in AfCalls : d # c => af_call'[d] = af_call[d]
        /\ c = Enable => af_call'[Enable].pc = "clear"
        /\ \A x \in Requesters, d \in AfCalls : Posts(af_call[d], x) => Posts(af_call'[d], x)
    BY <2>1, NothingAsked
  <2>3. ASSUME af_accident' = {} PROVE PinnedInv' /\ ServedInv'
    <3>1. PinnedInv /\ ServedInv
      BY <2>3 DEF AffinityInv
    <3>2. c = Enable /\ p.cpu \notin p.mask => af_pending # NoRequest
      BY <3>1 DEF MayAsk, ServedInv
    <3>3. p.cpu \in p.mask /\ (af_pending = NoRequest \/ af_own[af_pending].stop) /\ af_p' = p
      BY <1>2, <3>2 DEF Returned
    <3>4. PinnedInv'
      <4>1. CASE c = Enable
        BY <2>2, <3>3, <4>1 DEF MayAsk, PinnedInv
      <4>2. CASE c # Enable
        BY <2>2, <3>1, <3>3, <4>2 DEF MayAsk, PinnedInv, AfCalls
      <4> QED BY <4>1, <4>2
    <3>5. ServedInv'
      BY <2>1, <2>2, <3>1, <3>3 DEF ServedInv
    <3> QED BY <3>4, <3>5
  <2> QED BY <2>2, <2>3 DEF AffinityInv
<1>3. CASE \E r \in Requesters, k \in CallRecs, n \in OwnTypes, q \in PTypes : Asked(c, p, r, k, n, q)
  <2>1. PICK r \in Requesters, k \in CallRecs, n \in OwnTypes, q \in PTypes : Asked(c, p, r, k, n, q)
    BY <1>3
  <2>2. /\ Takes(c, r, k, n) /\ af_p' \in PTypes
        /\ Posts(k, r) \/ n.stop = af_own[r].stop
        /\ Completes(k, r) => ~n.stop /\ af_pending' = NoRequest
        /\ ~Completes(k, r) => af_pending' = r
    BY <2>1 DEF Asked, Takes
  <2>3. UNCHANGED <<af_work, af_comp>>
    BY <1>1
  <2>4. /\ AfTypes' /\ Requests' /\ af_own'[r] = n
        /\ \A x \in Requesters \ {r} : af_own'[x] = af_own[x]
        /\ af_call'[c] = k /\ \A d \in AfCalls : d # c => af_call'[d] = af_call[d]
        /\ \A x \in Requesters, d \in AfCalls : Posts(af_call[d], x) => Posts(af_call'[d], x)
    BY <2>2, <2>3, RequestAsked
  <2>5. /\ af_p' = q /\ q.st = p.st /\ q.mask = p.mask /\ q.disabled = p.disabled /\ q.pinned = p.pinned
        /\ k.pc # "idle"
        /\ Completes(k, r) => q.cpu \in q.mask \/ (p.disabled = 0 /\ p.st = "blocked")
        /\ ~Completes(k, r) => n.stop \/ (p.disabled > 0 /\ p.st # "running" /\ c # Enable)
    BY <2>1 DEF Asked, Takes
  <2>6. ASSUME af_accident' = {} PROVE PinnedInv' /\ ServedInv'
    <3>1. PinnedInv /\ ServedInv
      BY <2>6 DEF AffinityInv
    <3>2. PinnedInv'
      <4>1. CASE c = Enable
        BY <2>4, <2>5, <4>1 DEF MayAsk, PinnedInv
      <4>2. CASE c # Enable
        BY <2>4, <2>5, <3>1, <4>2 DEF MayAsk, PinnedInv, AfCalls
      <4> QED BY <4>1, <4>2
    <3>3. af_pending' # NoRequest => af_own'[af_pending'].stop \/ (af_p'.pinned /\ af_call'[Enable].pc = "idle")
      <4> SUFFICES ASSUME af_pending' # NoRequest, ~n.stop
                   PROVE  af_p'.pinned /\ af_call'[Enable].pc = "idle"
        BY <2>2, <2>4
      <4>1. p.disabled > 0 /\ p.st # "running" /\ c # Enable
        BY <2>2, <2>5
      <4>2. p.pinned = af_p.pinned /\ p.st = af_p.st /\ p.disabled = af_p.disabled
        BY <4>1 DEF MayAsk
      <4> QED BY <2>4, <2>5, <3>1, <4>1, <4>2 DEF PinnedInv, AfCalls
    <3>4. \A x \in Requesters : af_own'[x].stop => af_work'[x] # 0 \/ \E d \in AfCalls : Posts(af_call'[d], x)
      <4>1. ASSUME NEW x \in Requesters, x # r, af_own'[x].stop
            PROVE  af_work'[x] # 0 \/ \E d \in AfCalls : Posts(af_call'[d], x)
        BY <1>1, <2>4, <3>1, <4>1 DEF ServedInv
      <4>2. ASSUME af_own'[r].stop
            PROVE  af_work'[r] # 0 \/ \E d \in AfCalls : Posts(af_call'[d], r)
        <5>1. CASE Posts(k, r)
          BY <2>4, <5>1
        <5>2. CASE ~Posts(k, r)
          BY <1>1, <2>2, <2>4, <3>1, <4>2, <5>2 DEF ServedInv
        <5> QED BY <5>1, <5>2
      <4> QED BY <4>1, <4>2
    <3>5. (af_p'.st # "blocked" \/ af_p'.pinned) /\ af_p'.cpu \notin af_p'.mask => af_pending' # NoRequest
      <4> SUFFICES ASSUME af_p'.st # "blocked" \/ af_p'.pinned, af_p'.cpu \notin af_p'.mask
                   PROVE  ~Completes(k, r)
        BY <2>2, CallersAre DEF AfCalls
      <4>1. Completes(k, r) => q.disabled = 0 /\ q.st = "blocked"
        BY <2>5
      <4>2. q.disabled = 0 => ~q.pinned
        BY <2>5, <3>2 DEF PinnedInv
      <4> QED BY <2>5, <4>1, <4>2
    <3> QED BY <3>2, <3>3, <3>4, <3>5 DEF ServedInv
  <2> QED BY <2>4, <2>6 DEF AffinityInv
<1> QED BY <1>1, <1>2, <1>3

(* __set_cpus_allowed_ptr_locked on the task q, which is p but for its masks. *)
LEMMA LockedKeeps ==
    ASSUME AffinityInv, NEW c \in Requesters, af_call[c].pc = "idle",
           NEW q \in PTypes, q.st = af_p.st, q.cpu = af_p.cpu, q.disabled = af_p.disabled, q.pinned = af_p.pinned,
           NEW new \in SUBSET AfCpu, NEW user, set_cpus_allowed_locked(c, q, new, user),
           af_accident' = {} => af_accident = {}
    PROVE  AffinityInv'
<1> DEFINE q1 == [q EXCEPT !.mask = new]
           u == IF user THEN {} ELSE q1.user
           p == [q1 EXCEPT !.user = u]
<1>1. PICK dest \in new : affine_move_task(c, p, dest)
  BY DEF set_cpus_allowed_locked, __do_set_cpus_allowed
<1>2. q1 \in PTypes /\ q1.st = q.st /\ q1.cpu = q.cpu /\ q1.disabled = q.disabled /\ q1.pinned = q.pinned /\ q1.mask = new
  BY DEF PTypes
<1> HIDE DEF q1
<1>3. u \in SUBSET AfCpu
  BY <1>2 DEF PTypes
<1> HIDE DEF u
<1>4. p \in PTypes /\ p.st = q.st /\ p.cpu = q.cpu /\ p.disabled = q.disabled /\ p.pinned = q.pinned /\ p.mask = new
  BY <1>2, <1>3 DEF PTypes
<1> HIDE DEF p
<1>5. c # Enable /\ c \in AfCalls
  BY CallersAre DEF AfCalls
<1>6. MayAsk(c, p, dest)
  BY <1>4, <1>5 DEF MayAsk
<1> QED BY <1>1, <1>5, <1>6, MoveKeeps

(* The task after an exec: only what is remembered of its masks changes. *)
LEMMA RememberKeeps ==
    ASSUME AffinityInv, UNCHANGED <<af_pending, af_own, af_call, af_work, af_comp, af_accident>>,
           NEW q \in PTypes, af_p' = q, q.st = af_p.st, q.cpu = af_p.cpu, q.disabled = af_p.disabled,
           q.pinned = af_p.pinned, q.mask = af_p.mask
    PROVE  AffinityInv'
<1>1. af_accident = {} => MayBecome(q)
  BY DEF AffinityInv, PinnedInv, ServedInv, MayBecome
<1> QED BY <1>1, TaskKeeps

LEMMA AskKeeps ==
    ASSUME AffinityInv,
           sched_setaffinity \/ force_compatible_cpus_allowed_ptr \/ relax_compatible_cpus_allowed_ptr
    PROVE  AffinityInv'
<1>0. af_p \in PTypes /\ Self \in Requesters
  BY CallersAre DEF AffinityInv, AfTypes
<1>1. af_accident' = af_accident
  BY DEF sched_setaffinity, force_compatible_cpus_allowed_ptr, relax_compatible_cpus_allowed_ptr
<1>2. CASE sched_setaffinity
  <2>1. PICK c \in NextCallers, new \in SUBSET AfCpu \ {{}}, user \in BOOLEAN :
           af_call[c].pc = "idle" /\ set_cpus_allowed_locked(c, af_p, new, user)
    BY <1>2 DEF sched_setaffinity, CanCall
  <2>2. c \in Requesters
    BY <2>1 DEF NextCallers, IdleCallers, Requesters
  <2> QED BY <1>0, <1>1, <2>1, <2>2, LockedKeeps
<1>3. CASE force_compatible_cpus_allowed_ptr
  <2> DEFINE p == [af_p EXCEPT !.compat = TRUE]
             new == p.mask \cap Compat
             narrow == new # {} /\ new \cap valid_mask(p) # {}
             q == IF new # {} THEN restrict(af_p) ELSE p
  <2>1. af_call[Self].pc = "idle"
    BY <1>3 DEF force_compatible_cpus_allowed_ptr, CanCall
  <2>2. \/ set_cpus_allowed_locked(Self, q, new, FALSE)
        \/ set_cpus_allowed_locked(Self, q, Compat, FALSE)
        \/ af_p' = q /\ UNCHANGED <<af_pending, af_own, af_call, stop_vars>>
    BY <1>3 DEF force_compatible_cpus_allowed_ptr
  <2>3. p \in PTypes /\ p.st = af_p.st /\ p.cpu = af_p.cpu /\ p.disabled = af_p.disabled /\ p.pinned = af_p.pinned
        /\ p.mask = af_p.mask
    BY <1>0 DEF PTypes
  <2>4. new \in SUBSET AfCpu /\ Compat \in SUBSET AfCpu
    BY AffinityAssumption
  <2>5. q \in PTypes /\ q.st = af_p.st /\ q.cpu = af_p.cpu /\ q.disabled = af_p.disabled /\ q.pinned = af_p.pinned
        /\ q.mask = af_p.mask
    <3> DEFINE u == IF p.user = {} THEN cpus_ptr(af_p) ELSE p.user
               t == [p EXCEPT !.user = u]
    <3>1. restrict(af_p) = t
      BY <1>0 DEF restrict, PTypes
    <3>2. u \in SUBSET AfCpu
      BY <1>0, <2>3 DEF cpus_ptr, PTypes
    <3> HIDE DEF u, p
    <3>3. t \in PTypes /\ t.st = p.st /\ t.cpu = p.cpu /\ t.disabled = p.disabled /\ t.pinned = p.pinned
          /\ t.mask = p.mask
      BY <2>3, <3>2 DEF PTypes
    <3> QED BY <2>3, <3>1, <3>3
  <2> HIDE DEF p, new, q
  <2>6. CASE set_cpus_allowed_locked(Self, q, new, FALSE)
    BY <1>0, <1>1, <2>1, <2>4, <2>5, <2>6, LockedKeeps
  <2>7. CASE set_cpus_allowed_locked(Self, q, Compat, FALSE)
    BY <1>0, <1>1, <2>1, <2>4, <2>5, <2>7, LockedKeeps
  <2>8. CASE af_p' = q /\ UNCHANGED <<af_pending, af_own, af_call, stop_vars>>
    <3>1. UNCHANGED <<af_pending, af_own, af_call, af_work, af_comp, af_accident>>
      BY <1>1, <2>8 DEF stop_vars
    <3> QED BY <2>5, <2>8, <3>1, RememberKeeps
  <2> QED BY <2>2, <2>6, <2>7, <2>8
<1>4. CASE relax_compatible_cpus_allowed_ptr
  <2> DEFINE p == [af_p EXCEPT !.compat = FALSE]
             q == [p EXCEPT !.user = {}]
  <2>1. /\ af_call[Self].pc = "idle"
        /\ \/ af_p' = q /\ UNCHANGED <<af_pending, af_own, af_call, stop_vars>>
           \/ set_cpus_allowed_locked(Self, p, p.user, TRUE)
    BY <1>4 DEF relax_compatible_cpus_allowed_ptr
  <2>2. p \in PTypes /\ p.st = af_p.st /\ p.cpu = af_p.cpu /\ p.disabled = af_p.disabled /\ p.pinned = af_p.pinned
        /\ p.mask = af_p.mask /\ p.user \in SUBSET AfCpu
    BY <1>0 DEF PTypes
  <2> HIDE DEF p
  <2>3. q \in PTypes /\ q.st = af_p.st /\ q.cpu = af_p.cpu /\ q.disabled = af_p.disabled /\ q.pinned = af_p.pinned
        /\ q.mask = af_p.mask
    BY <2>2 DEF PTypes
  <2> HIDE DEF q
  <2>4. CASE set_cpus_allowed_locked(Self, p, p.user, TRUE)
    BY <1>0, <1>1, <2>1, <2>2, <2>4, LockedKeeps
  <2>5. CASE af_p' = q /\ UNCHANGED <<af_pending, af_own, af_call, stop_vars>>
    <3>1. UNCHANGED <<af_pending, af_own, af_call, af_work, af_comp, af_accident>>
      BY <1>1, <2>5 DEF stop_vars
    <3> QED BY <2>3, <2>5, <3>1, RememberKeeps
  <2> QED BY <2>1, <2>4, <2>5
<1> QED BY <1>2, <1>3, <1>4

LEMMA EnableKeeps == ASSUME AffinityInv, migrate_enable PROVE AffinityInv'
<1>0. af_p \in PTypes /\ Enable \in AfCalls
  BY DEF AffinityInv, AfTypes, AfCalls
<1> DEFINE none == af_p.pinned /\ af_p.mask \cap valid_mask(af_p) = {}
<1> HIDE DEF none
<1>1. af_p.st = "running" /\ af_call[Enable].pc = "idle" /\ af_p.disabled \in 1 .. 2
  <2>1. af_p.st = "running" /\ af_call[Enable].pc = "idle" /\ af_p.disabled > 0
    BY DEF migrate_enable, Preemptible, Runs
  <2>2. af_p.disabled \in 0 .. 2
    BY <1>0 DEF PTypes
  <2> QED BY <2>1, <2>2
<1>2. af_accident' = IF af_p.disabled = 1 /\ none THEN af_accident \cup {"stays pinned"} ELSE af_accident
  BY DEF migrate_enable, none
<1>3. af_accident' = {} => af_accident = {} /\ ~(af_p.disabled = 1 /\ none)
  BY <1>2
<1>4. CASE af_p.disabled > 1
  <2> DEFINE q == [af_p EXCEPT !.disabled = @ - 1]
  <2>1. q \in PTypes /\ q.st = af_p.st /\ q.cpu = af_p.cpu /\ q.disabled = 1 /\ q.pinned = af_p.pinned
        /\ q.mask = af_p.mask
    BY <1>0, <1>1, <1>4 DEF PTypes
  <2>2. af_p' = q /\ UNCHANGED <<af_pending, af_own, af_call, stop_vars>>
    BY <1>4 DEF migrate_enable
  <2>3. UNCHANGED <<af_pending, af_own, af_call, af_work, af_comp, af_accident>>
    <3>1. af_p.disabled # 1
      BY <1>1, <1>4
    <3>2. af_accident' = af_accident
      BY <1>2, <3>1
    <3> QED BY <2>2, <3>2 DEF stop_vars
  <2> HIDE DEF q
  <2>4. af_accident = {} => MayBecome(q)
    BY <1>1, <2>1 DEF AffinityInv, PinnedInv, ServedInv, MayBecome
  <2> QED BY <2>1, <2>2, <2>3, <2>4, TaskKeeps
<1>5. CASE ~(af_p.disabled > 1) /\ af_p.pinned /\ ~none
  <2> DEFINE p == [af_p EXCEPT !.pinned = FALSE]
  <2>1. p \in PTypes /\ p.st = af_p.st /\ p.cpu = af_p.cpu /\ p.disabled = af_p.disabled /\ ~p.pinned
        /\ p.mask = af_p.mask
    BY <1>0 DEF PTypes
  <2>2. affine_move_task(Enable, p, 0)
    BY <1>5 DEF migrate_enable, none
  <2> HIDE DEF p
  <2>3. MayAsk(Enable, p, 0)
    BY <1>1, <1>5, <2>1 DEF MayAsk
  <2> QED BY <1>0, <1>1, <1>3, <2>2, <2>3, MoveKeeps
<1>6. CASE ~(af_p.disabled > 1) /\ ~(af_p.pinned /\ ~none)
  <2>1. af_p' = af_p /\ af_call' = ReturnFrom(Enable) /\ UNCHANGED <<af_pending, af_own, af_work, af_comp>>
    BY <1>6 DEF migrate_enable, none, stop_vars
  <2>2. /\ AfTypes' /\ Requests'
        /\ \A d \in AfCalls : d # Enable => af_call'[d] = af_call[d]
        /\ af_call'[Enable].pc = "clear"
        /\ \A x \in Requesters, d \in AfCalls : Posts(af_call[d], x) => Posts(af_call'[d], x)
    BY <1>0, <1>1, <2>1, NothingAsked
  <2>3. ASSUME af_accident' = {} PROVE PinnedInv' /\ ServedInv'
    <3>1. PinnedInv /\ ServedInv /\ ~af_p.pinned /\ af_p.disabled = 1
      BY <1>1, <1>3, <1>6, <2>3 DEF AffinityInv
    <3>2. PinnedInv'
      BY <1>1, <2>1, <3>1 DEF PinnedInv
    <3>3. ServedInv'
      BY <1>1, <2>1, <2>2, <3>1 DEF ServedInv
    <3> QED BY <3>2, <3>3
  <2> QED BY <2>2, <2>3 DEF AffinityInv
<1> QED BY <1>4, <1>5, <1>6

LEMMA AffinityStart == AffinityInit => AffinityInv
<1> SUFFICES ASSUME AffinityInit PROVE AffinityInv
  OBVIOUS
<1>0. /\ af_p = InitP /\ af_pending = NoRequest
      /\ af_own = [c \in Requesters |-> NoPending]
      /\ af_call = [c \in AfCalls |-> NotCalling]
      /\ af_work = [c \in Requesters |-> 0]
      /\ af_comp = {}
  BY DEF AffinityInit, AfCalls
<1>1. PICK d \in AfCpu : d = CHOOSE c \in Compat \ HotCpu : TRUE
  BY AffinityAssumption
<1>2. InitP \in PTypes /\ InitP.st = "blocked" /\ InitP.disabled = 0 /\ ~InitP.pinned
  BY <1>1 DEF InitP, PTypes
<1>3. NoPending \in OwnTypes /\ ~NoPending.stop /\ ~NoPending.done /\ NoPending.refs = 0
  BY DEF NoPending, OwnTypes
<1>4. NotCalling \in CallRecs /\ NotCalling.pc = "idle" /\ \A c \in AfCalls : CallOk(c, NotCalling)
  BY NotCallings, CallersAre DEF CallRecs, CallOk
<1>5. \A x : ~Uses(NotCalling, x) /\ ~Waits(NotCalling, x) /\ ~Posts(NotCalling, x) /\ ~Completes(NotCalling, x)
  BY <1>4, NotUsing
<1>6. AfTypes
  BY <1>0, <1>2, <1>3, <1>4 DEF AfTypes
<1>7. Requests
  <2>1. \A c \in AfCalls : CallOk(c, af_call[c])
    BY <1>0, <1>4
  <2>2. ASSUME NEW r \in Requesters PROVE RequestOk(r)
    <3>1. /\ \A c \in AfCalls : ~Waits(af_call[c], r) /\ ~Posts(af_call[c], r) /\ ~Completes(af_call[c], r)
          /\ af_own[r] = NoPending /\ af_work[r] = 0 /\ af_pending # r
      BY <1>0, <1>5, CallersAre DEF AfCalls
    <3>2. ~Unfinished(r)
      BY <1>0, <3>1 DEF Unfinished
    <3>3. Waiters(r) = {}
      BY <3>1 DEF Waiters, AfCalls
    <3>4. CompletedOnce(r)
      BY <3>2 DEF CompletedOnce, Unfinished
    <3>5. PostedOnce(r)
      BY <1>3, <3>1 DEF PostedOnce
    <3>6. ReferencesCounted(r)
      BY <1>3, <3>1, <3>3, FS_EmptySet DEF ReferencesCounted, AfCalls
    <3> QED BY <3>4, <3>5, <3>6 DEF RequestOk
  <2> QED BY <2>1, <2>2 DEF Requests
<1>8. PinnedInv
  BY <1>0, <1>2, <1>4 DEF PinnedInv, AfCalls
<1>9. ServedInv
  BY <1>0, <1>2, <1>3 DEF ServedInv
<1> QED BY <1>6, <1>7, <1>8, <1>9 DEF AffinityInv

LEMMA AffinityStep == ASSUME AffinityInv, AffinityNext PROVE AffinityInv'
BY WaitKeeps, DrainKeeps, CompleteKeeps, PostKeeps, EnabledKeeps, StopKeeps, StopCompleteKeeps,
   ScheduleKeeps, HotplugKeeps, AskKeeps, EnableKeeps DEF AffinityNext

LEMMA AffinityImplied == AffinityInv => AffinitySound
<1> SUFFICES ASSUME AffinityInv PROVE AffinitySound
  OBVIOUS
<1>0. AfTypes /\ Requests /\ Requesters \subseteq AfCalls
  BY DEF AffinityInv, AfCalls
<1>1. \A r \in Requesters : af_call[r].pc = "idle" => ~InUse(r)
  <2> SUFFICES ASSUME NEW r \in Requesters, af_call[r].pc = "idle" PROVE ~InUse(r)
    OBVIOUS
  <2>1. /\ ~Unfinished(r) /\ ~af_own[r].stop /\ af_work[r] = 0
        /\ \A c \in AfCalls : ~Posts(af_call[c], r) /\ ~Completes(af_call[c], r)
        /\ \A c \in Requesters : ~Waits(af_call[c], r)
    BY <1>0, IdleUnused
  <2>2. ASSUME NEW c \in AfCalls, af_call[c].pending = r, af_call[c].pc \notin {"idle", "clear"} PROVE FALSE
    <3>1. CallOk(c, af_call[c]) /\ af_call[c] \in CallRecs
      BY <1>0 DEF Requests, AfTypes
    <3>2. af_call[c].pc \in {"wait", "drain"}
      BY <2>1, <2>2, <3>1 DEF Posts, Completes, CallRecs
    <3>3. c \in Requesters
      BY <3>1, <3>2 DEF CallOk, AfCalls
    <3>4. af_call[c].pc = "drain"
      BY <2>1, <2>2, <3>2, <3>3 DEF Waits, Uses
    <3> QED BY <2>2, <3>1, <3>4, CallersAre DEF CallOk, AfCalls
  <2> QED BY <2>1, <2>2 DEF InUse, Unfinished, AfCalls
<1>2. \A r \in Requesters : af_work[r] \in AfCpu => af_pending = r /\ af_own[r].stop
  BY <1>0, CallersAre DEF Requests, RequestOk, PostedOnce
<1>3. ASSUME af_accident = {}
      PROVE  /\ af_pending # NoRequest => af_p.disabled > 0 \/ af_own[af_pending].stop
             /\ \A r \in Requesters : af_own[r].stop =>
                   \/ af_work[r] # 0
                   \/ \E c \in AfCalls : af_call[c].pc = "post" /\ af_call[c].pending = r
             /\ MovesPending
             /\ af_p.pinned => af_p.disabled > 0
  BY <1>3 DEF AffinityInv, PinnedInv, ServedInv, MovesPending, Posts
<1>4. ASSUME NEW c \in Requesters, af_call[c].pc = "wait"
      PROVE  LET r == af_call[c].pending IN
             \/ af_own[r].done \/ af_pending = r \/ r \in af_comp
             \/ \E d \in AfCalls : af_call[d].pc = "complete" /\ af_call[d].pending = r
  <2>1. PICK r \in Requesters : r = af_call[c].pending
    BY <1>0, <1>4 DEF Requests, CallOk
  <2>2. Waits(af_call[c], r)
    BY <1>4, <2>1 DEF Waits, Uses
  <2>3. Unfinished(r) \/ af_own[r].done
    BY <1>0, <2>2 DEF Requests, RequestOk, ReferencesCounted
  <2> QED BY <2>1, <2>3 DEF Unfinished, Completes
<1> QED BY <1>1, <1>2, <1>3, <1>4 DEF AffinitySound, AfCalls

LEMMA AffinityTurn ==
    ASSUME [KernelNext]_kernel_vars, part' = "affinity"
    PROVE  part = "affinity" /\ [AffinityNext]_affinity_vars
BY DEF KernelNext, kernel_vars, Turn

LEMMA AffinityStutter == ASSUME AffinityInv, UNCHANGED affinity_vars PROVE AffinityInv'
<1>1. UNCHANGED <<af_pending, af_own, af_call, af_work, af_comp, af_accident>> /\ af_p' = af_p
  BY DEF affinity_vars
<1>2. af_p \in PTypes
  BY DEF AffinityInv, AfTypes
<1> QED BY <1>1, <1>2, RememberKeeps

(* set_cpus_allowed_ptr, migrate_disable, the stoppers and CPU hotplug: for *)
(* every set of callers and CPUs, a request on a stack is not used after    *)
(* its call returned, and unless hotplug dropped a work, left a task pinned *)
(* or made a stopper complete without a move, somebody will complete each   *)
(* request that is waited for and move a task that is outside its mask.     *)
THEOREM MovesSafe == KernelSpec => []Moves
<1> DEFINE I == part = "affinity" => AffinityInv
<1>1. KernelInit => I
  BY AffinityStart DEF KernelInit
<1>2. I /\ [KernelNext]_kernel_vars => I'
  BY AffinityTurn, AffinityStep, AffinityStutter
<1>3. I => Moves
  BY AffinityImplied DEF Moves, While
<1> QED BY <1>1, <1>2, <1>3, PTL DEF KernelSpec

------------------------------------------------------------------------------
(* Utilization clamps: the order of the buckets *)

UcBuckets == 0 .. BUCKETS - 1

LEMMA UcLeast ==
    ASSUME NEW S \in SUBSET Nat, S # {}
    PROVE  \E x \in S : \A y \in S : x <= y
<1>1. PICK x \in S : \A y \in S : ~ (<<y, x>> \in OpToRel(<, Nat))
  BY NatLessThanWellFounded, WFMin
<1>2. ASSUME NEW y \in S PROVE x <= y
  <2>1. x \in Nat /\ y \in Nat
    BY <1>1
  <2>2. ~ (y < x)
    BY <1>1, <2>1 DEF OpToRel
  <2> QED BY <2>1, <2>2
<1> QED BY <1>2

LEMMA UcTopmost ==
    ASSUME NEW S \in SUBSET UcBuckets, S # {}
    PROVE  Max(S) \in S /\ \A y \in S : y <= Max(S)
<1>b. BUCKETS \in Nat
  BY UclampAssumption
<1>1. PICK T : T = {n \in Nat : BUCKETS - 1 - n \in S}
  OBVIOUS
<1>2. \A y \in S : y \in Nat /\ BUCKETS - 1 - y \in Nat /\ BUCKETS - 1 - (BUCKETS - 1 - y) = y
  BY <1>b DEF UcBuckets
<1>3. T \in SUBSET Nat /\ T # {}
  BY <1>1, <1>2
<1>4. PICK n \in T : \A m \in T : n <= m
  BY <1>3, UcLeast
<1>5. PICK x \in S : x = BUCKETS - 1 - n
  BY <1>1, <1>4
<1>6. ASSUME NEW y \in S PROVE x >= y
  <2>1. BUCKETS - 1 - y \in T
    BY <1>1, <1>2
  <2>2. n <= BUCKETS - 1 - y
    BY <1>4, <2>1
  <2>3. n \in Nat /\ y \in Nat
    BY <1>1, <1>2, <1>4
  <2> QED BY <1>b, <1>5, <2>2, <2>3
<1>7. Max(S) \in S /\ \A y \in S : Max(S) >= y
  BY <1>5, <1>6 DEF Max
<1> QED BY <1>2, <1>7

LEMMA UcMax ==
    ASSUME NEW a \in Nat, NEW b \in Nat
    PROVE  Max({a, b}) = IF a >= b THEN a ELSE b
<1>1. \E x \in {a, b} : \A y \in {a, b} : x >= y
  OBVIOUS
<1>2. PICK m : m = Max({a, b})
  OBVIOUS
<1>3. m \in {a, b} /\ \A y \in {a, b} : m >= y
  BY <1>1, <1>2 DEF Max
<1> QED BY <1>2, <1>3

LEMMA UcMin ==
    ASSUME NEW a \in Nat, NEW b \in Nat
    PROVE  Min({a, b}) = IF a <= b THEN a ELSE b
<1>1. \E x \in {a, b} : \A y \in {a, b} : x <= y
  OBVIOUS
<1>2. PICK m : m = Min({a, b})
  OBVIOUS
<1>3. m \in {a, b} /\ \A y \in {a, b} : m <= y
  BY <1>1, <1>2 DEF Min
<1> QED BY <1>2, <1>3

LEMMA UcQuotient ==
    ASSUME NEW v \in Nat, NEW d \in Nat, d > 0
    PROVE  v \div d \in Nat /\ d * (v \div d) <= v /\ v < d * (v \div d) + d
<1>1. v \div d \in Nat
  OBVIOUS
<1>2. d * (v \div d) <= v
  OBVIOUS
<1>3. v < d * (v \div d) + d
  OBVIOUS
<1> QED BY <1>1, <1>2, <1>3

LEMMA UcDelta == BUCKET_DELTA \in Nat /\ BUCKET_DELTA > 0
<1>1. SCALE \in Nat /\ BUCKETS \in Nat /\ BUCKETS > 0 /\ BUCKETS <= SCALE
  BY UclampAssumption
<1>2. BUCKETS \div 2 \in Nat
  BY <1>1
<1>3. PICK n \in Nat : n = SCALE + BUCKETS \div 2
  BY <1>1, <1>2
<1>4. PICK q \in Nat : q = n \div BUCKETS /\ n < BUCKETS * q + BUCKETS
  BY <1>1, <1>3, UcQuotient
<1>5. BUCKETS <= n
  BY <1>1, <1>2, <1>3
<1>6. q # 0
  BY <1>1, <1>4, <1>5
<1> QED BY <1>3, <1>4, <1>6 DEF BUCKET_DELTA

(* uclamp_bucket_id: a bucket, and a higher one only for a higher value.    *)
LEMMA UcBucketId ==
    /\ \A v \in Nat : uclamp_bucket_id(v) \in UcBuckets
    /\ \A v, w \in Nat : uclamp_bucket_id(v) < uclamp_bucket_id(w) => v < w
<1>1. BUCKETS \in Nat /\ BUCKETS > 0 /\ BUCKETS - 1 \in Nat
  BY UclampAssumption
<1>2. PICK d \in Nat : d = BUCKET_DELTA /\ d > 0
  BY UcDelta
<1>3. \A v \in Nat : /\ v \div d \in Nat
                     /\ uclamp_bucket_id(v) = IF v \div d <= BUCKETS - 1 THEN v \div d ELSE BUCKETS - 1
  <2>1. ASSUME NEW v \in Nat
        PROVE  /\ v \div d \in Nat
               /\ uclamp_bucket_id(v) = IF v \div d <= BUCKETS - 1 THEN v \div d ELSE BUCKETS - 1
    <3>1. v \div d \in Nat
      BY <1>2, UcQuotient
    <3>2. Min({v \div d, BUCKETS - 1}) = IF v \div d <= BUCKETS - 1 THEN v \div d ELSE BUCKETS - 1
      BY <1>1, <3>1, UcMin
    <3> QED BY <1>2, <3>1, <3>2 DEF uclamp_bucket_id
  <2> QED BY <2>1
<1>4. \A v \in Nat : uclamp_bucket_id(v) \in UcBuckets
  BY <1>1, <1>3 DEF UcBuckets
<1>5. ASSUME NEW v \in Nat, NEW w \in Nat, w <= v PROVE uclamp_bucket_id(w) <= uclamp_bucket_id(v)
  <2>1. PICK a \in Nat : a = v \div d /\ d * a <= v /\ v < d * a + d
    BY <1>2, UcQuotient
  <2>2. PICK b \in Nat : b = w \div d /\ d * b <= w /\ w < d * b + d
    BY <1>2, UcQuotient
  <2>3. d * b < d * a + d
    BY <1>2, <1>5, <2>1, <2>2
  <2>4. b <= a
    <3>1. SUFFICES ASSUME a + 1 <= b PROVE FALSE
      BY <2>1, <2>2
    <3>2. d * (a + 1) <= d * b
      BY <1>2, <2>1, <2>2, <3>1
    <3>3. d * (a + 1) = d * a + d
      BY <1>2, <2>1
    <3> QED BY <1>2, <2>1, <2>2, <2>3, <3>2, <3>3
  <2> QED BY <1>1, <1>3, <2>1, <2>2, <2>4
<1>6. \A v, w \in Nat : uclamp_bucket_id(v) < uclamp_bucket_id(w) => v < w
  <2>1. ASSUME NEW v \in Nat, NEW w \in Nat, uclamp_bucket_id(v) < uclamp_bucket_id(w) PROVE v < w
    <3>1. uclamp_bucket_id(v) \in Int /\ uclamp_bucket_id(w) \in Int
      BY <1>4 DEF UcBuckets
    <3>2. ~ (w <= v)
      BY <1>5, <2>1, <3>1
    <3> QED BY <3>2
  <2> QED BY <2>1
<1> QED BY <1>4, <1>6

------------------------------------------------------------------------------
(* Utilization clamps: what the buckets count *)

UcBucketRec == [tasks : Nat, value : Value]

(* The tasks of A whose value, by v, belongs in bucket b.                   *)
UcInside(A, v, b) == {t \in A : uclamp_bucket_id(v[t]) = b}
UcTop(A, v, b) == UcInside(A, v, b) # {} /\ \A c \in UcBuckets : UcInside(A, v, c) # {} => c <= b

(* The buckets of a run queue, for one clamp and the tasks A that are       *)
(* counted: each counts its own, is no lower than they are and no higher    *)
(* than its place, and the topmost in use has the clamp to apply.  That it  *)
(* is no higher than its place is what makes the topmost the highest.       *)
UcHolds(bucket, value, A, v) ==
    \A b \in UcBuckets :
       /\ bucket[b].tasks = Cardinality(UcInside(A, v, b))
       /\ \A t \in UcInside(A, v, b) : v[t] <= bucket[b].value
       /\ UcInside(A, v, b) # {} => uclamp_bucket_id(bucket[b].value) = b
       /\ UcTop(A, v, b) => value = bucket[b].value

LEMMA UcFinite ==
    ASSUME NEW A \in SUBSET UcTask, NEW v, NEW b
    PROVE  /\ IsFiniteSet(UcInside(A, v, b)) /\ Cardinality(UcInside(A, v, b)) \in Nat
           /\ Cardinality(UcInside(A, v, b)) = 0 <=> UcInside(A, v, b) = {}
<1>1. UcInside(A, v, b) \in SUBSET UcTask
  BY DEF UcInside
<1>2. IsFiniteSet(UcInside(A, v, b))
  BY <1>1, FS_Subset, UclampAssumption
<1> QED BY <1>2, FS_CardinalityType, FS_EmptySet

LEMMA UcHasTop ==
    ASSUME NEW A \in SUBSET UcTask, NEW v \in [UcTask -> Value], A # {}
    PROVE  \E b \in UcBuckets : UcTop(A, v, b)
<1>1. PICK S : S = {b \in UcBuckets : UcInside(A, v, b) # {}}
  OBVIOUS
<1>2. PICK t \in A : TRUE
  OBVIOUS
<1>3. v[t] \in Nat
  BY <1>2 DEF Value
<1>4. uclamp_bucket_id(v[t]) \in S
  BY <1>1, <1>2, <1>3, UcBucketId DEF UcInside
<1>5. Max(S) \in S /\ \A y \in S : y <= Max(S)
  BY <1>1, <1>4, UcTopmost
<1> QED BY <1>1, <1>5 DEF UcTop

LEMMA UcSame ==
    ASSUME NEW A, NEW v, NEW w, \A t \in A : v[t] = w[t], NEW bucket, NEW value, UcHolds(bucket, value, A, v)
    PROVE  UcHolds(bucket, value, A, w)
<1>1. \A b : UcInside(A, v, b) = UcInside(A, w, b)
  BY DEF UcInside
<1>2. \A b : UcTop(A, v, b) <=> UcTop(A, w, b)
  BY <1>1 DEF UcTop
<1>3. \A b : \A t \in UcInside(A, w, b) : v[t] = w[t]
  BY DEF UcInside
<1> QED BY <1>1, <1>2, <1>3 DEF UcHolds

(* uclamp_rq_inc_id on the buckets of one clamp.                            *)
UcAdded(bucket2, value2, bucket, base, eff) ==
    LET b == uclamp_bucket_id(eff)
        old == bucket[b]
        new == [tasks |-> old.tasks + 1,
                value |-> IF old.tasks = 0 \/ eff > old.value THEN eff ELSE old.value]
    IN  bucket2 = [bucket EXCEPT ![b] = new] /\ value2 = Max({base, eff})

LEMMA UcIncHolds ==
    ASSUME NEW bucket \in [UcBuckets -> UcBucketRec], NEW value \in Value,
           NEW A \in SUBSET UcTask, NEW v \in [UcTask -> Value], UcHolds(bucket, value, A, v),
           NEW t \in UcTask, t \notin A, NEW eff \in Value, NEW base \in Value,
           A # {} => base = value, A = {} => base <= eff,
           NEW bucket2, NEW value2, UcAdded(bucket2, value2, bucket, base, eff)
    PROVE  /\ bucket2 \in [UcBuckets -> UcBucketRec] /\ value2 \in Value
           /\ UcHolds(bucket2, value2, A \cup {t}, [v EXCEPT ![t] = eff])
<1>0. PICK b : b = uclamp_bucket_id(eff)
  OBVIOUS
<1>1. eff \in Nat /\ base \in Nat /\ value \in Nat /\ b \in UcBuckets /\ SCALE \in Nat
  BY <1>0, UcBucketId, UclampAssumption DEF Value
<1>2. PICK old : old = bucket[b]
  OBVIOUS
<1>3. old.tasks \in Nat /\ old.value \in Value /\ old.value \in Nat
  BY <1>1, <1>2 DEF UcBucketRec, Value
<1>4. PICK top : top = IF old.tasks = 0 \/ eff > old.value THEN eff ELSE old.value
  OBVIOUS
<1>5. top \in Value /\ top \in Nat
  BY <1>1, <1>3, <1>4
<1>6. PICK new : new = [tasks |-> old.tasks + 1, value |-> top]
  OBVIOUS
<1>7. new \in UcBucketRec /\ new.tasks = old.tasks + 1 /\ new.value = top
  BY <1>3, <1>5, <1>6 DEF UcBucketRec
<1>8. bucket2 = [bucket EXCEPT ![b] = new] /\ value2 = Max({base, eff})
  BY <1>0, <1>2, <1>4, <1>6 DEF UcAdded
<1>9. /\ bucket2 \in [UcBuckets -> UcBucketRec] /\ bucket2[b] = new
      /\ \A c \in UcBuckets : c # b => bucket2[c] = bucket[c]
  BY <1>1, <1>7, <1>8
<1>10. value2 = (IF base >= eff THEN base ELSE eff) /\ value2 \in Value
  BY <1>1, <1>8, UcMax
<1>11. PICK w : w = [v EXCEPT ![t] = eff]
  OBVIOUS
<1>12. w[t] = eff /\ \A u \in UcTask : u # t => w[u] = v[u]
  BY <1>11
<1>13. PICK B : B = A \cup {t}
  OBVIOUS
<1>14. UcInside(B, w, b) = UcInside(A, v, b) \cup {t}
  BY <1>0, <1>12, <1>13 DEF UcInside
<1>15. \A c \in UcBuckets : c # b => UcInside(B, w, c) = UcInside(A, v, c)
  BY <1>0, <1>12, <1>13 DEF UcInside
<1>16. t \notin UcInside(A, v, b)
  BY DEF UcInside
<1>17. old.tasks = Cardinality(UcInside(A, v, b)) /\ (old.tasks = 0 <=> UcInside(A, v, b) = {})
  BY <1>1, <1>2, UcFinite DEF UcHolds
<1>18. new.tasks = Cardinality(UcInside(B, w, b))
  <2>1. PICK I : I = UcInside(A, v, b)
    OBVIOUS
  <2>2. IsFiniteSet(I) /\ t \notin I
    BY <1>16, <2>1, UcFinite
  <2>3. Cardinality(I \cup {t}) = Cardinality(I) + 1
    BY <2>2, FS_AddElement
  <2> QED BY <1>7, <1>14, <1>17, <2>1, <2>3
<1>19. \A u \in UcInside(A, v, b) : v[u] <= old.value /\ v[u] \in Nat /\ u \in UcTask /\ u # t
  <2>1. \A u \in UcInside(A, v, b) : v[u] <= old.value
    BY <1>1, <1>2 DEF UcHolds
  <2>2. \A u \in UcInside(A, v, b) : u \in UcTask /\ u # t
    BY DEF UcInside
  <2>3. \A u \in UcTask : v[u] \in Nat
    BY DEF Value
  <2> QED BY <2>1, <2>2, <2>3
<1>20. \A u \in UcInside(B, w, b) : w[u] <= new.value
  <2>1. ASSUME NEW u \in UcInside(B, w, b) PROVE w[u] <= new.value
    <3>1. CASE u = t
      BY <1>1, <1>3, <1>4, <1>7, <1>12, <3>1
    <3>2. CASE u # t
      <4>1. u \in UcInside(A, v, b)
        BY <1>14, <2>1, <3>2
      <4>2. old.tasks # 0 /\ w[u] = v[u] /\ v[u] <= old.value /\ v[u] \in Nat
        BY <1>12, <1>17, <1>19, <4>1
      <4> QED BY <1>1, <1>3, <1>4, <1>7, <4>2
    <3> QED BY <3>1, <3>2
  <2> QED BY <2>1
<1>21. uclamp_bucket_id(new.value) = b
  <2>1. CASE old.tasks = 0 \/ eff > old.value
    BY <1>0, <1>4, <1>7, <2>1
  <2>2. CASE ~(old.tasks = 0 \/ eff > old.value)
    <3>1. UcInside(A, v, b) # {}
      BY <1>17, <2>2
    <3> QED BY <1>1, <1>2, <1>4, <1>7, <2>2, <3>1 DEF UcHolds
  <2> QED BY <2>1, <2>2
<1>22. ASSUME NEW c \in UcBuckets, UcTop(B, w, c) PROVE value2 = bucket2[c].value
  <2>0. \A x \in UcBuckets : x \in Int
    BY DEF UcBuckets
  <2>1. \A x \in UcBuckets : UcInside(A, v, x) # {} => x <= c
    <3>1. \A x \in UcBuckets : UcInside(A, v, x) \subseteq UcInside(B, w, x)
      BY <1>14, <1>15
    <3> QED BY <1>22, <3>1 DEF UcTop
  <2>2. CASE c # b
    <3>1. UcTop(A, v, c)
      BY <1>15, <1>22, <2>1, <2>2 DEF UcTop
    <3>2. A # {} /\ UcInside(A, v, c) # {}
      BY <3>1 DEF UcTop, UcInside
    <3>3. value = bucket[c].value /\ uclamp_bucket_id(value) = c
      BY <3>1, <3>2 DEF UcHolds
    <3>4. b <= c
      BY <1>1, <1>14, <1>22 DEF UcTop
    <3>5. b < c
      BY <1>1, <2>0, <2>2, <3>4
    <3>6. eff < value
      BY <1>0, <1>1, <3>3, <3>5, UcBucketId
    <3>7. value2 = value
      BY <1>1, <1>10, <3>2, <3>6
    <3> QED BY <1>9, <2>2, <3>3, <3>7
  <2>3. CASE c = b /\ A = {}
    <3>1. old.tasks = 0
      BY <1>17, <2>3 DEF UcInside
    <3>2. new.value = eff
      BY <1>4, <1>7, <3>1
    <3>3. value2 = eff
      BY <1>1, <1>10, <2>3
    <3> QED BY <1>9, <2>3, <3>2, <3>3
  <2>4. CASE c = b /\ A # {} /\ UcInside(A, v, b) # {}
    <3>1. UcTop(A, v, b)
      BY <2>1, <2>4 DEF UcTop
    <3>2. value = old.value /\ base = value
      BY <1>1, <1>2, <2>4, <3>1 DEF UcHolds
    <3>3. old.tasks # 0
      BY <1>17, <2>4
    <3>4. new.value = IF eff > old.value THEN eff ELSE old.value
      BY <1>4, <1>7, <3>3
    <3>5. value2 = IF eff > old.value THEN eff ELSE old.value
      BY <1>1, <1>3, <1>10, <3>2
    <3> QED BY <1>9, <2>4, <3>4, <3>5
  <2>5. CASE c = b /\ A # {} /\ UcInside(A, v, b) = {}
    <3>1. PICK x \in UcBuckets : UcTop(A, v, x)
      BY <2>5, UcHasTop
    <3>2. UcInside(A, v, x) # {} /\ x # b
      BY <2>5, <3>1 DEF UcTop
    <3>3. x < b
      BY <1>1, <2>0, <2>1, <2>5, <3>2
    <3>4. value = bucket[x].value /\ uclamp_bucket_id(value) = x
      BY <3>1, <3>2 DEF UcHolds
    <3>5. value < eff
      BY <1>0, <1>1, <3>3, <3>4, UcBucketId
    <3>6. old.tasks = 0
      BY <1>17, <2>5
    <3>7. new.value = eff
      BY <1>4, <1>7, <3>6
    <3>8. value2 = eff
      BY <1>1, <1>10, <2>5, <3>5
    <3> QED BY <1>9, <2>5, <3>7, <3>8
  <2> QED BY <2>2, <2>3, <2>4, <2>5
<1>23. UcHolds(bucket2, value2, B, w)
  <2>1. ASSUME NEW c \in UcBuckets
        PROVE  /\ bucket2[c].tasks = Cardinality(UcInside(B, w, c))
               /\ \A u \in UcInside(B, w, c) : w[u] <= bucket2[c].value
               /\ UcInside(B, w, c) # {} => uclamp_bucket_id(bucket2[c].value) = c
    <3>1. CASE c = b
      BY <1>9, <1>18, <1>20, <1>21, <3>1
    <3>2. CASE c # b
      <4>1. bucket2[c] = bucket[c] /\ UcInside(B, w, c) = UcInside(A, v, c)
        BY <1>9, <1>15, <3>2
      <4>2. \A u \in UcInside(A, v, c) : w[u] = v[u]
        BY <1>12 DEF UcInside
      <4> QED BY <4>1, <4>2 DEF UcHolds
    <3> QED BY <3>1, <3>2
  <2> QED BY <1>22, <2>1 DEF UcHolds
<1> QED BY <1>9, <1>10, <1>11, <1>13, <1>23

(* uclamp_rq_dec_id on them; last is the value of the task that leaves.     *)
UcRemoved(bucket2, value2, bucket, value, id, last) ==
    LET b == uclamp_bucket_id(last)
        old == bucket[b]
        left == IF old.tasks > 0 THEN old.tasks - 1 ELSE 0
    IN  /\ bucket2 = [bucket EXCEPT ![b] = [tasks |-> left, value |-> old.value]]
        /\ value2 = IF left > 0 \/ old.value < value THEN value ELSE uclamp_rq_max_value(bucket2, id, last)

UcWithout(bucket2, value2, bucket, value, id, A, v, t) ==
    /\ bucket2 \in [UcBuckets -> UcBucketRec] /\ value2 \in Value
    /\ UcHolds(bucket2, value2, A \ {t}, v)
    /\ (\A c \in UcBuckets : bucket2[c].tasks = 0) <=> A \ {t} = {}
    /\ A \ {t} = {} =>
         LET b == uclamp_bucket_id(v[t])
             left == IF bucket[b].tasks > 0 THEN bucket[b].tasks - 1 ELSE 0
         IN  ~(left > 0 \/ bucket[b].value < value)
    /\ A \ {t} = {} /\ id = "MIN" => value2 = 0

LEMMA UcDecHolds ==
    ASSUME NEW bucket \in [UcBuckets -> UcBucketRec], NEW value \in Value, NEW id \in ClampId,
           NEW A \in SUBSET UcTask, NEW v \in [UcTask -> Value], UcHolds(bucket, value, A, v),
           NEW t \in A, NEW bucket2, NEW value2, UcRemoved(bucket2, value2, bucket, value, id, v[t])
    PROVE  UcWithout(bucket2, value2, bucket, value, id, A, v, t)
<1>0. PICK b : b = uclamp_bucket_id(v[t])
  OBVIOUS
<1>1. v[t] \in Nat /\ v[t] \in Value /\ value \in Nat /\ b \in UcBuckets /\ SCALE \in Nat /\ t \in UcTask
  BY <1>0, UcBucketId, UclampAssumption DEF Value
<1>2. PICK old : old = bucket[b]
  OBVIOUS
<1>3. old.tasks \in Nat /\ old.value \in Value /\ old.value \in Nat
  BY <1>1, <1>2 DEF UcBucketRec, Value
<1>4. PICK left : left = IF old.tasks > 0 THEN old.tasks - 1 ELSE 0
  OBVIOUS
<1>5. left \in Nat
  BY <1>3, <1>4
<1>6. PICK new : new = [tasks |-> left, value |-> old.value]
  OBVIOUS
<1>7. new \in UcBucketRec /\ new.tasks = left /\ new.value = old.value
  BY <1>3, <1>5, <1>6 DEF UcBucketRec
<1>8. /\ bucket2 = [bucket EXCEPT ![b] = new]
      /\ value2 = IF left > 0 \/ old.value < value THEN value ELSE uclamp_rq_max_value(bucket2, id, v[t])
  BY <1>0, <1>2, <1>4, <1>6 DEF UcRemoved
<1>9. /\ bucket2 \in [UcBuckets -> UcBucketRec] /\ bucket2[b] = new
      /\ \A c \in UcBuckets : c # b => bucket2[c] = bucket[c]
  BY <1>1, <1>7, <1>8
<1>10. \A c \in UcBuckets : bucket2[c].value = bucket[c].value /\ bucket2[c].value \in Value
  <2>1. ASSUME NEW c \in UcBuckets PROVE bucket2[c].value = bucket[c].value /\ bucket2[c].value \in Value
    <3>1. bucket2[c] \in UcBucketRec
      BY <1>9
    <3>2. bucket2[c].value \in Value
      BY <3>1 DEF UcBucketRec
    <3>3. bucket2[c].value = bucket[c].value
      BY <1>2, <1>7, <1>9
    <3> QED BY <3>2, <3>3
  <2> QED BY <2>1
<1>13. PICK B : B = A \ {t}
  OBVIOUS
<1>b. B \in SUBSET UcTask
  BY <1>13
<1>14. UcInside(B, v, b) = UcInside(A, v, b) \ {t}
  BY <1>13 DEF UcInside
<1>15. \A c \in UcBuckets : c # b => UcInside(B, v, c) = UcInside(A, v, c)
  BY <1>0, <1>13 DEF UcInside
<1>16. t \in UcInside(A, v, b)
  BY <1>0 DEF UcInside
<1>17. old.tasks = Cardinality(UcInside(A, v, b)) /\ old.tasks # 0
  BY <1>1, <1>2, <1>16, UcFinite DEF UcHolds
<1>18. left = Cardinality(UcInside(B, v, b))
  <2>1. PICK I : I = UcInside(A, v, b)
    OBVIOUS
  <2>2. IsFiniteSet(I) /\ t \in I
    BY <1>16, <2>1, UcFinite
  <2>3. Cardinality(I \ {t}) = Cardinality(I) - 1
    BY <2>2, FS_RemoveElement
  <2>4. left = old.tasks - 1
    BY <1>3, <1>4, <1>17
  <2> QED BY <1>14, <1>17, <2>1, <2>3, <2>4
<1>19. \A c \in UcBuckets : bucket2[c].tasks = Cardinality(UcInside(B, v, c))
  <2>1. \A c \in UcBuckets : bucket[c].tasks = Cardinality(UcInside(A, v, c))
    BY DEF UcHolds
  <2> QED BY <1>7, <1>9, <1>15, <1>18, <2>1
<1>20. \A c \in UcBuckets : /\ bucket2[c].tasks \in Nat
                            /\ bucket2[c].tasks = 0 <=> UcInside(B, v, c) = {}
  <2>1. ASSUME NEW c \in UcBuckets
        PROVE  bucket2[c].tasks \in Nat /\ (bucket2[c].tasks = 0 <=> UcInside(B, v, c) = {})
    <3>1. /\ Cardinality(UcInside(B, v, c)) \in Nat
          /\ Cardinality(UcInside(B, v, c)) = 0 <=> UcInside(B, v, c) = {}
      BY <1>b, UcFinite
    <3> QED BY <1>19, <3>1
  <2> QED BY <2>1
<1>21. \A c \in UcBuckets : UcInside(B, v, c) \subseteq UcInside(A, v, c)
  BY <1>13 DEF UcInside
<1>22. (\A c \in UcBuckets : bucket2[c].tasks = 0) <=> B = {}
  <2>1. ASSUME B = {} PROVE \A c \in UcBuckets : bucket2[c].tasks = 0
    BY <1>20, <2>1 DEF UcInside
  <2>2. ASSUME B # {} PROVE ~ \A c \in UcBuckets : bucket2[c].tasks = 0
    <3>1. PICK c \in UcBuckets : UcTop(B, v, c)
      BY <1>b, <2>2, UcHasTop
    <3> QED BY <1>20, <3>1 DEF UcTop
  <2> QED BY <2>1, <2>2
<1>23. PICK x \in UcBuckets : UcTop(A, v, x)
  BY UcHasTop
<1>24. value = bucket[x].value /\ UcInside(A, v, x) # {} /\ \A c \in UcBuckets : UcInside(A, v, c) # {} => c <= x
  BY <1>23 DEF UcHolds, UcTop
<1>25. left > 0 <=> UcInside(B, v, b) # {}
  BY <1>1, <1>5, <1>7, <1>9, <1>20
<1>26. PICK used : used = {c \in UcBuckets : bucket2[c].tasks > 0}
  OBVIOUS
<1>27. uclamp_rq_max_value(bucket2, id, v[t]) =
         IF used # {} THEN bucket2[Max(used)].value ELSE IF id = "MAX" THEN v[t] ELSE 0
  BY <1>26 DEF uclamp_rq_max_value, uclamp_none, UcBuckets
<1>28. \A c \in UcBuckets : c \in used <=> UcInside(B, v, c) # {}
  BY <1>20, <1>26
<1>29. value2 \in Value
  <2>1. CASE left > 0 \/ old.value < value
    BY <1>8, <2>1
  <2>2. CASE ~(left > 0 \/ old.value < value) /\ used # {}
    <3>1. Max(used) \in UcBuckets
      BY <1>26, <2>2, UcTopmost
    <3> QED BY <1>8, <1>10, <1>27, <2>2, <3>1
  <2>3. CASE ~(left > 0 \/ old.value < value) /\ used = {}
    <3>1. 0 \in Value
      BY <1>1 DEF Value
    <3> QED BY <1>1, <1>8, <1>27, <2>3, <3>1
  <2> QED BY <2>1, <2>2, <2>3
<1>i. \A c \in UcBuckets : c \in Int
  BY DEF UcBuckets
<1>30. ASSUME NEW c \in UcBuckets, UcTop(B, v, c) PROVE value2 = bucket2[c].value
  <2>1. UcInside(B, v, c) # {} /\ \A y \in UcBuckets : UcInside(B, v, y) # {} => y <= c
    BY <1>30 DEF UcTop
  <2>2. c <= x
    BY <1>21, <1>24, <2>1
  <2>3. CASE UcInside(B, v, x) # {} /\ (left > 0 \/ old.value < value)
    <3>1. x <= c
      BY <2>1, <2>3
    <3>2. c = x
      BY <1>i, <2>2, <3>1
    <3> QED BY <1>8, <1>10, <1>24, <2>3, <3>2
  <2>4. CASE UcInside(B, v, x) = {} /\ (left > 0 \/ old.value < value)
    <3>1. x = b
      BY <1>15, <1>24, <2>4
    <3>2. ~(left > 0)
      BY <1>25, <2>4, <3>1
    <3>3. value = old.value
      BY <1>2, <1>24, <3>1
    <3> QED BY <1>1, <2>4, <3>2, <3>3
  <2>5. CASE ~(left > 0 \/ old.value < value)
    <3>1. c \in used /\ used \in SUBSET UcBuckets
      BY <1>26, <1>28, <2>1
    <3>2. Max(used) \in used /\ \A y \in used : y <= Max(used)
      BY <3>1, UcTopmost
    <3>3. Max(used) <= c /\ c <= Max(used) /\ Max(used) \in UcBuckets
      BY <1>28, <2>1, <3>1, <3>2
    <3>4. Max(used) = c
      BY <1>i, <3>3
    <3> QED BY <1>8, <1>27, <2>5, <3>1, <3>4
  <2> QED BY <2>3, <2>4, <2>5
<1>31. UcHolds(bucket2, value2, B, v)
  <2>1. ASSUME NEW c \in UcBuckets
        PROVE  /\ \A u \in UcInside(B, v, c) : v[u] <= bucket2[c].value
               /\ UcInside(B, v, c) # {} => uclamp_bucket_id(bucket2[c].value) = c
    <3>1. /\ \A u \in UcInside(A, v, c) : v[u] <= bucket[c].value
          /\ UcInside(A, v, c) # {} => uclamp_bucket_id(bucket[c].value) = c
      BY DEF UcHolds
    <3>2. bucket2[c].value = bucket[c].value /\ UcInside(B, v, c) \subseteq UcInside(A, v, c)
      BY <1>10, <1>21
    <3> QED BY <3>1, <3>2
  <2> QED BY <1>19, <1>30, <2>1 DEF UcHolds
<1>32. ASSUME B = {} PROVE ~(left > 0 \/ old.value < value) /\ used = {}
  <2>1. UcInside(B, v, b) = {} /\ UcInside(B, v, x) = {}
    BY <1>32 DEF UcInside
  <2>2. x = b
    BY <1>15, <1>24, <2>1
  <2>3. value = old.value
    BY <1>2, <1>24, <2>2
  <2>4. ~(old.value < value)
    BY <1>1, <2>3
  <2>5. ~(left > 0)
    BY <1>25, <2>1
  <2>6. used = {}
    BY <1>22, <1>26, <1>32
  <2> QED BY <2>4, <2>5, <2>6
<1>33. B = {} /\ id = "MIN" => value2 = 0
  BY <1>8, <1>27, <1>32
<1> QED BY <1>0, <1>2, <1>4, <1>9, <1>13, <1>22, <1>29, <1>31, <1>32, <1>33 DEF UcWithout

UcRqRec == [value : [ClampId -> Value], idle : BOOLEAN, bucket : [ClampId -> [UcBuckets -> UcBucketRec]]]
UcSe == [ClampId -> [value : Value, active : BOOLEAN]]
UcSt == [rq : UcRqRec, se : UcSe]
UcPer(st, id, A, v) == UcHolds(st.rq.bucket[id], st.rq.value[id], A, v)

(* What a step on clamp id leaves of the other clamp.                       *)
UcOther(r, st, id) ==
    \A j \in ClampId : j # id => /\ r.se[j] = st.se[j]
                                 /\ r.rq.bucket[j] = st.rq.bucket[j] /\ r.rq.value[j] = st.rq.value[j]

(* The task t has come into clamp id with value eff.                        *)
UcCame(r, st, id, A, v, t, eff) ==
    /\ r \in UcSt /\ UcPer(r, id, A \cup {t}, [v EXCEPT ![t] = eff])
    /\ r.se[id] = [value |-> eff, active |-> TRUE] /\ r.rq.idle = st.rq.idle
    /\ UcOther(r, st, id)

(* The task t has gone from clamp id.                                       *)
UcGone(r, st, id, A, v, t) ==
    /\ r \in UcSt /\ UcPer(r, id, A \ {t}, v)
    /\ r.se[id] = [value |-> st.se[id].value, active |-> FALSE]
    /\ r.rq.idle <=> st.rq.idle \/ (id = "MAX" /\ A \ {t} = {})
    /\ A \ {t} = {} /\ id = "MIN" => r.rq.value[id] = 0
    /\ UcOther(r, st, id)

LEMMA UcIncId ==
    ASSUME NEW st \in UcSt, NEW id \in ClampId, NEW eff \in Value,
           NEW A \in SUBSET UcTask, NEW v \in [UcTask -> Value], UcPer(st, id, A, v),
           NEW t \in UcTask, t \notin A,
           A # {} => ~st.rq.idle, A = {} => st.rq.idle \/ st.rq.value[id] = 0,
           NEW r, r = uclamp_rq_inc_id(st, id, eff)
    PROVE  UcCame(r, st, id, A, v, t, eff)
<1>1. PICK rq : rq = st.rq
  OBVIOUS
<1>2. PICK se : se = st.se
  OBVIOUS
<1>3. /\ rq.value \in [ClampId -> Value] /\ rq.idle \in BOOLEAN
      /\ rq.bucket \in [ClampId -> [UcBuckets -> UcBucketRec]] /\ se \in UcSe
  BY <1>1, <1>2 DEF UcSt, UcRqRec
<1>4. PICK base : base = IF rq.idle THEN eff ELSE rq.value[id]
  OBVIOUS
<1>5. base \in Value /\ (A # {} => base = rq.value[id]) /\ (A = {} => base <= eff)
  <2>1. base \in Value
    BY <1>3, <1>4
  <2>2. A # {} => base = rq.value[id]
    BY <1>1, <1>4
  <2>3. A = {} => base <= eff
    <3>1. eff \in Nat
      BY DEF Value
    <3>2. CASE rq.idle
      BY <1>4, <3>1, <3>2
    <3>3. CASE ~rq.idle
      BY <1>1, <1>4, <3>1, <3>3
    <3> QED BY <3>2, <3>3
  <2> QED BY <2>1, <2>2, <2>3
<1>6. PICK b : b = uclamp_bucket_id(eff)
  OBVIOUS
<1>7. PICK old : old = rq.bucket[id][b]
  OBVIOUS
<1>8. PICK new : new = [tasks |-> old.tasks + 1,
                        value |-> IF old.tasks = 0 \/ eff > old.value THEN eff ELSE old.value]
  OBVIOUS
<1>9. PICK bucket2 : bucket2 = [rq.bucket[id] EXCEPT ![b] = new]
  OBVIOUS
<1>10. PICK value2 : value2 = Max({base, eff})
  OBVIOUS
<1>11. PICK m : m = [value |-> eff, active |-> TRUE]
  OBVIOUS
<1>12. r = [rq |-> [value |-> [rq.value EXCEPT ![id] = value2], idle |-> rq.idle,
                    bucket |-> [rq.bucket EXCEPT ![id] = bucket2]],
            se |-> [se EXCEPT ![id] = m]]
  BY <1>1, <1>2, <1>4, <1>6, <1>7, <1>8, <1>9, <1>10, <1>11 DEF uclamp_rq_inc_id
<1>13. UcAdded(bucket2, value2, rq.bucket[id], base, eff)
  BY <1>6, <1>7, <1>8, <1>9, <1>10 DEF UcAdded
<1>14. UcHolds(rq.bucket[id], rq.value[id], A, v)
  BY <1>1 DEF UcPer
<1>15. rq.bucket[id] \in [UcBuckets -> UcBucketRec] /\ rq.value[id] \in Value
  BY <1>3
<1>16. /\ bucket2 \in [UcBuckets -> UcBucketRec] /\ value2 \in Value
       /\ UcHolds(bucket2, value2, A \cup {t}, [v EXCEPT ![t] = eff])
  BY <1>5, <1>13, <1>14, <1>15, UcIncHolds
<1>17. /\ r.rq.value = [rq.value EXCEPT ![id] = value2] /\ r.rq.idle = rq.idle
       /\ r.rq.bucket = [rq.bucket EXCEPT ![id] = bucket2] /\ r.se = [se EXCEPT ![id] = m]
  BY <1>12
<1>18. m \in [value : Value, active : BOOLEAN]
  BY <1>11
<1>19. /\ r.se \in UcSe /\ r.se[id] = m /\ \A j \in ClampId : j # id => r.se[j] = se[j]
  BY <1>3, <1>17, <1>18 DEF UcSe
<1>20. /\ r.rq.value \in [ClampId -> Value] /\ r.rq.value[id] = value2
       /\ \A j \in ClampId : j # id => r.rq.value[j] = rq.value[j]
  BY <1>3, <1>16, <1>17
<1>21. /\ r.rq.bucket \in [ClampId -> [UcBuckets -> UcBucketRec]] /\ r.rq.bucket[id] = bucket2
       /\ \A j \in ClampId : j # id => r.rq.bucket[j] = rq.bucket[j]
  BY <1>3, <1>16, <1>17
<1>22. r \in UcSt
  <2>1. r = [rq |-> [value |-> r.rq.value, idle |-> r.rq.idle, bucket |-> r.rq.bucket], se |-> r.se]
    BY <1>12, <1>17
  <2>2. [value |-> r.rq.value, idle |-> r.rq.idle, bucket |-> r.rq.bucket] \in UcRqRec
    BY <1>3, <1>17, <1>20, <1>21 DEF UcRqRec
  <2> QED BY <1>19, <2>1, <2>2 DEF UcSt
<1>23. UcPer(r, id, A \cup {t}, [v EXCEPT ![t] = eff])
  BY <1>16, <1>20, <1>21 DEF UcPer
<1>24. UcOther(r, st, id)
  BY <1>1, <1>2, <1>19, <1>20, <1>21 DEF UcOther
<1> QED BY <1>1, <1>11, <1>17, <1>19, <1>22, <1>23, <1>24 DEF UcCame

LEMMA UcTakeOut ==
    ASSUME NEW st \in UcSt, NEW id \in ClampId,
           NEW A \in SUBSET UcTask, NEW v \in [UcTask -> Value], UcPer(st, id, A, v),
           NEW t \in A, v[t] = st.se[id].value,
           NEW r, r = TakeOut(st, id)
    PROVE  UcGone(r, st, id, A, v, t)
<1>1. PICK rq : rq = st.rq
  OBVIOUS
<1>2. PICK se : se = st.se
  OBVIOUS
<1>3. /\ rq.value \in [ClampId -> Value] /\ rq.idle \in BOOLEAN
      /\ rq.bucket \in [ClampId -> [UcBuckets -> UcBucketRec]] /\ se \in UcSe
  BY <1>1, <1>2 DEF UcSt, UcRqRec
<1>4. PICK b : b = uclamp_bucket_id(v[t])
  OBVIOUS
<1>5. PICK old : old = rq.bucket[id][b]
  OBVIOUS
<1>6. PICK left : left = IF old.tasks > 0 THEN old.tasks - 1 ELSE 0
  OBVIOUS
<1>7. PICK bucket2 : bucket2 = [rq.bucket[id] EXCEPT ![b] = [tasks |-> left, value |-> old.value]]
  OBVIOUS
<1>8. PICK stays \in BOOLEAN : stays <=> (left > 0 \/ old.value < rq.value[id])
  OBVIOUS
<1>9. PICK empty \in BOOLEAN : empty <=> \A c \in UcBuckets : bucket2[c].tasks = 0
  OBVIOUS
<1>10. PICK m : m = [value |-> v[t], active |-> FALSE]
  OBVIOUS
<1>11. PICK value2 : value2 = IF stays THEN rq.value[id] ELSE uclamp_rq_max_value(bucket2, id, v[t])
  OBVIOUS
<1>12. r.rq.value = IF stays THEN rq.value ELSE [rq.value EXCEPT ![id] = uclamp_rq_max_value(bucket2, id, v[t])]
  BY <1>1, <1>4, <1>5, <1>6, <1>7, <1>8 DEF TakeOut
<1>13. r.rq.idle = (rq.idle \/ (~stays /\ id = "MAX" /\ empty))
  BY <1>1, <1>4, <1>5, <1>6, <1>7, <1>8, <1>9 DEF TakeOut, UcBuckets
<1>14. r.rq.bucket = [rq.bucket EXCEPT ![id] = bucket2] /\ r.se = [se EXCEPT ![id] = m]
  BY <1>1, <1>2, <1>4, <1>5, <1>6, <1>7, <1>10 DEF TakeOut
<1>15. r = [rq |-> [value |-> r.rq.value, idle |-> r.rq.idle, bucket |-> r.rq.bucket], se |-> r.se]
  BY DEF TakeOut
<1>16. UcRemoved(bucket2, value2, rq.bucket[id], rq.value[id], id, v[t])
  BY <1>4, <1>5, <1>6, <1>7, <1>8, <1>11 DEF UcRemoved
<1>17. UcHolds(rq.bucket[id], rq.value[id], A, v)
  BY <1>1 DEF UcPer
<1>18. rq.bucket[id] \in [UcBuckets -> UcBucketRec] /\ rq.value[id] \in Value
  BY <1>3
<1>19. /\ bucket2 \in [UcBuckets -> UcBucketRec] /\ value2 \in Value
       /\ UcHolds(bucket2, value2, A \ {t}, v)
       /\ (\A c \in UcBuckets : bucket2[c].tasks = 0) <=> A \ {t} = {}
       /\ A \ {t} = {} => ~(left > 0 \/ old.value < rq.value[id])
       /\ A \ {t} = {} /\ id = "MIN" => value2 = 0
  <2>1. UcWithout(bucket2, value2, rq.bucket[id], rq.value[id], id, A, v, t)
    BY <1>16, <1>17, <1>18, UcDecHolds
  <2> QED BY <1>4, <1>5, <1>6, <2>1 DEF UcWithout
<1>20. m \in [value : Value, active : BOOLEAN]
  BY <1>10
<1>21. /\ r.se \in UcSe /\ r.se[id] = m /\ \A j \in ClampId : j # id => r.se[j] = se[j]
  BY <1>3, <1>14, <1>20 DEF UcSe
<1>22. /\ r.rq.value \in [ClampId -> Value] /\ r.rq.value[id] = value2
       /\ \A j \in ClampId : j # id => r.rq.value[j] = rq.value[j]
  <2>1. CASE stays
    BY <1>3, <1>11, <1>12, <2>1
  <2>2. CASE ~stays
    <3>1. r.rq.value = [rq.value EXCEPT ![id] = value2]
      BY <1>11, <1>12, <2>2
    <3> QED BY <1>3, <1>19, <3>1
  <2> QED BY <2>1, <2>2
<1>23. /\ r.rq.bucket \in [ClampId -> [UcBuckets -> UcBucketRec]] /\ r.rq.bucket[id] = bucket2
       /\ \A j \in ClampId : j # id => r.rq.bucket[j] = rq.bucket[j]
  BY <1>3, <1>14, <1>19
<1>24. r.rq.idle \in BOOLEAN /\ (r.rq.idle <=> rq.idle \/ (~stays /\ id = "MAX" /\ empty))
  BY <1>3, <1>13
<1>25. empty <=> A \ {t} = {}
  BY <1>9, <1>19
<1>26. A \ {t} = {} => ~stays
  BY <1>8, <1>19
<1>27. r \in UcSt
  <2>1. [value |-> r.rq.value, idle |-> r.rq.idle, bucket |-> r.rq.bucket] \in UcRqRec
    BY <1>22, <1>23, <1>24 DEF UcRqRec
  <2> QED BY <1>15, <1>21, <2>1 DEF UcSt
<1>28. UcPer(r, id, A \ {t}, v)
  BY <1>19, <1>22, <1>23 DEF UcPer
<1>29. UcOther(r, st, id)
  BY <1>1, <1>2, <1>21, <1>22, <1>23 DEF UcOther
<1> QED BY <1>1, <1>10, <1>19, <1>21, <1>22, <1>24, <1>25, <1>26, <1>27, <1>28, <1>29 DEF UcGone

------------------------------------------------------------------------------
(* Utilization clamps: a task and a run queue *)

(* A run queue that counts the tasks A for both clamps.                     *)
UcFit(rq, A, v) ==
    /\ rq \in UcRqRec /\ (rq.idle <=> A = {})
    /\ \A id \in ClampId : UcHolds(rq.bucket[id], rq.value[id], A, v[id])

UcValues == [ClampId -> [UcTask -> Value]]

(* The clamps of t, as run queue and task st have them, among those of A.   *)
UcAgree(st, A, v, t) ==
    \A id \in ClampId : (st.se[id].active <=> t \in A) /\ v[id][t] = st.se[id].value

UcLeft(r, B, v) == r \in UcSt /\ UcFit(r.rq, B, v) /\ \A id \in ClampId : ~r.se[id].active

(* uclamp_rq_dec: the task is counted no longer.                            *)
LEMMA UcLeaves ==
    ASSUME NEW st \in UcSt, NEW A \in SUBSET UcTask, NEW v \in UcValues, UcFit(st.rq, A, v),
           NEW t \in UcTask, UcAgree(st, A, v, t),
           NEW p, NEW used \in BOOLEAN, t \in A => used /\ uclamp_enabled(p.class),
           NEW r, r = uclamp_rq_dec(st, p, used)
    PROVE  UcLeft(r, A \ {t}, v)
<1>0. "MIN" \in ClampId /\ "MAX" \in ClampId /\ \A id \in ClampId : id = "MIN" \/ id = "MAX"
  BY DEF ClampId
<1>a. /\ \A id \in ClampId : st.se[id].active <=> t \in A
      /\ \A id \in ClampId : v[id][t] = st.se[id].value
  BY DEF UcAgree
<1>1. CASE t \notin A
  <2>1. uclamp_rq_dec_id(st, "MIN") = st /\ uclamp_rq_dec_id(st, "MAX") = st
    BY <1>0, <1>1, <1>a DEF uclamp_rq_dec_id
  <2>2. r = st
    BY <2>1 DEF uclamp_rq_dec
  <2>3. A \ {t} = A
    BY <1>1
  <2> QED BY <1>1, <1>a, <2>2, <2>3 DEF UcLeft
<1>2. CASE t \in A
  <2>1. PICK a : a = TakeOut(st, "MIN")
    OBVIOUS
  <2>2. PICK b : b = TakeOut(a, "MAX")
    OBVIOUS
  <2>3. v["MIN"] \in [UcTask -> Value] /\ v["MAX"] \in [UcTask -> Value]
    BY <1>0 DEF UcValues
  <2>4. UcPer(st, "MIN", A, v["MIN"]) /\ UcPer(st, "MAX", A, v["MAX"])
    BY <1>0 DEF UcFit, UcPer
  <2>5. v["MIN"][t] = st.se["MIN"].value /\ v["MAX"][t] = st.se["MAX"].value
    BY <1>0, <1>a
  <2>6. /\ a \in UcSt /\ UcPer(a, "MIN", A \ {t}, v["MIN"])
        /\ a.se["MIN"] = [value |-> st.se["MIN"].value, active |-> FALSE]
        /\ a.rq.idle <=> st.rq.idle \/ ("MIN" = "MAX" /\ A \ {t} = {})
        /\ UcOther(a, st, "MIN")
    <3>1. UcGone(a, st, "MIN", A, v["MIN"], t)
      BY <1>0, <1>2, <2>1, <2>3, <2>4, <2>5, UcTakeOut
    <3> QED BY <3>1 DEF UcGone
  <2>7. /\ a.se["MAX"] = st.se["MAX"] /\ a.rq.bucket["MAX"] = st.rq.bucket["MAX"]
        /\ a.rq.value["MAX"] = st.rq.value["MAX"] /\ (a.rq.idle <=> st.rq.idle)
    BY <1>0, <2>6 DEF UcOther
  <2>8. UcPer(a, "MAX", A, v["MAX"]) /\ v["MAX"][t] = a.se["MAX"].value
    BY <2>4, <2>5, <2>7 DEF UcPer
  <2>9. /\ b \in UcSt /\ UcPer(b, "MAX", A \ {t}, v["MAX"])
        /\ b.se["MAX"] = [value |-> a.se["MAX"].value, active |-> FALSE]
        /\ b.rq.idle <=> a.rq.idle \/ ("MAX" = "MAX" /\ A \ {t} = {})
        /\ UcOther(b, a, "MAX")
    <3>1. UcGone(b, a, "MAX", A, v["MAX"], t)
      BY <1>0, <1>2, <2>2, <2>3, <2>6, <2>8, UcTakeOut
    <3> QED BY <3>1 DEF UcGone
  <2>10. /\ b.se["MIN"] = a.se["MIN"] /\ b.rq.bucket["MIN"] = a.rq.bucket["MIN"]
         /\ b.rq.value["MIN"] = a.rq.value["MIN"]
    BY <1>0, <2>9 DEF UcOther
  <2>11. UcPer(b, "MIN", A \ {t}, v["MIN"])
    BY <2>6, <2>10 DEF UcPer
  <2>12. ~st.rq.idle
    BY <1>2 DEF UcFit
  <2>13. b.rq.idle <=> A \ {t} = {}
    BY <2>7, <2>9, <2>12
  <2>14. b.rq \in UcRqRec
    BY <2>9 DEF UcSt
  <2>15. UcFit(b.rq, A \ {t}, v)
    BY <1>0, <2>9, <2>11, <2>13, <2>14 DEF UcFit, UcPer
  <2>16. \A id \in ClampId : ~b.se[id].active
    BY <1>0, <2>6, <2>9, <2>10
  <2>17. r = b
    <3>1. uclamp_rq_dec_id(st, "MIN") = a
      BY <1>0, <1>2, <1>a, <2>1 DEF uclamp_rq_dec_id
    <3>2. uclamp_rq_dec_id(a, "MAX") = b
      BY <1>0, <1>2, <1>a, <2>2, <2>7 DEF uclamp_rq_dec_id
    <3> QED BY <1>2, <3>1, <3>2 DEF uclamp_rq_dec
  <2> QED BY <2>9, <2>15, <2>16, <2>17 DEF UcLeft
<1> QED BY <1>1, <1>2

(* The values when task t gets those of eff.                                *)
UcWith(v, t, eff) == [id \in ClampId |-> [v[id] EXCEPT ![t] = eff[id]]]

LEMMA UcNotIdle ==
    ASSUME NEW st \in UcSt, NEW r, r = NotIdle(st)
    PROVE  /\ r \in UcSt /\ ~r.rq.idle /\ r.rq.idle \in BOOLEAN /\ r.se = st.se
           /\ r.rq.value = st.rq.value /\ r.rq.bucket = st.rq.bucket
<1>1. /\ r.rq = [value |-> st.rq.value, idle |-> FALSE, bucket |-> st.rq.bucket] /\ r.se = st.se
      /\ r = [rq |-> r.rq, se |-> r.se]
  BY DEF NotIdle
<1>2. st.rq.value \in [ClampId -> Value] /\ st.rq.bucket \in [ClampId -> [UcBuckets -> UcBucketRec]] /\ st.se \in UcSe
  BY DEF UcSt, UcRqRec
<1>3. r.rq.value = st.rq.value /\ r.rq.bucket = st.rq.bucket /\ r.rq.idle = FALSE
  BY <1>1
<1>4. r.rq \in UcRqRec
  BY <1>1, <1>2 DEF UcRqRec
<1>5. r \in UcSt
  BY <1>1, <1>2, <1>4 DEF UcSt
<1> QED BY <1>1, <1>3, <1>5

(* eff is what uclamp_eff_get says of p.                                    *)
UcEffOf(eff, p) == eff \in [ClampId -> Value] /\ \A id \in ClampId : eff[id] = uclamp_eff_get(p, id)

(* Run queue and task r, that counts B with t among them, at the clamps eff. *)
UcEntered(r, B, v, t, eff) ==
    /\ r \in UcSt /\ UcFit(r.rq, B, UcWith(v, t, eff))
    /\ \A id \in ClampId : r.se[id].active /\ r.se[id].value = eff[id]

(* uclamp_rq_inc: the task is counted with the clamps eff.                  *)
LEMMA UcEnters ==
    ASSUME NEW st \in UcSt, NEW A \in SUBSET UcTask, NEW v \in UcValues, UcFit(st.rq, A, v),
           NEW t \in UcTask, t \notin A, NEW p, NEW eff, UcEffOf(eff, p), uclamp_enabled(p.class),
           NEW r, r = uclamp_rq_inc(st, p, TRUE)
    PROVE  UcEntered(r, A \cup {t}, v, t, eff)
<1>0. "MIN" \in ClampId /\ "MAX" \in ClampId /\ \A id \in ClampId : id = "MIN" \/ id = "MAX"
  BY DEF ClampId
<1>e. eff \in [ClampId -> Value] /\ \A id \in ClampId : eff[id] = uclamp_eff_get(p, id)
  BY DEF UcEffOf
<1>1. PICK a : a = uclamp_rq_inc_id(st, "MIN", eff["MIN"])
  OBVIOUS
<1>2. PICK b : b = uclamp_rq_inc_id(a, "MAX", eff["MAX"])
  OBVIOUS
<1>3. v["MIN"] \in [UcTask -> Value] /\ v["MAX"] \in [UcTask -> Value]
  BY <1>0 DEF UcValues
<1>4. UcPer(st, "MIN", A, v["MIN"]) /\ UcPer(st, "MAX", A, v["MAX"])
  BY <1>0 DEF UcFit, UcPer
<1>5. (A # {} => ~st.rq.idle) /\ (A = {} => st.rq.idle)
  BY DEF UcFit
<1>6. eff["MIN"] \in Value /\ eff["MAX"] \in Value
  BY <1>0, <1>e
<1>7. /\ a \in UcSt /\ UcPer(a, "MIN", A \cup {t}, [v["MIN"] EXCEPT ![t] = eff["MIN"]])
      /\ a.se["MIN"] = [value |-> eff["MIN"], active |-> TRUE] /\ a.rq.idle = st.rq.idle
      /\ UcOther(a, st, "MIN")
  <2>1. UcCame(a, st, "MIN", A, v["MIN"], t, eff["MIN"])
    BY <1>0, <1>1, <1>3, <1>4, <1>5, <1>6, UcIncId
  <2> QED BY <2>1 DEF UcCame
<1>8. /\ a.rq.bucket["MAX"] = st.rq.bucket["MAX"] /\ a.rq.value["MAX"] = st.rq.value["MAX"]
  BY <1>0, <1>7 DEF UcOther
<1>9. UcPer(a, "MAX", A, v["MAX"]) /\ (A # {} => ~a.rq.idle) /\ (A = {} => a.rq.idle)
  BY <1>4, <1>5, <1>7, <1>8 DEF UcPer
<1>10. /\ b \in UcSt /\ UcPer(b, "MAX", A \cup {t}, [v["MAX"] EXCEPT ![t] = eff["MAX"]])
       /\ b.se["MAX"] = [value |-> eff["MAX"], active |-> TRUE]
       /\ UcOther(b, a, "MAX")
  <2>1. UcCame(b, a, "MAX", A, v["MAX"], t, eff["MAX"])
    BY <1>0, <1>2, <1>3, <1>6, <1>7, <1>9, UcIncId
  <2> QED BY <2>1 DEF UcCame
<1>11. /\ b.se["MIN"] = a.se["MIN"] /\ b.rq.bucket["MIN"] = a.rq.bucket["MIN"]
       /\ b.rq.value["MIN"] = a.rq.value["MIN"]
  BY <1>0, <1>10 DEF UcOther
<1>12. UcPer(b, "MIN", A \cup {t}, [v["MIN"] EXCEPT ![t] = eff["MIN"]])
  BY <1>7, <1>11 DEF UcPer
<1>13. r = NotIdle(b)
  BY <1>0, <1>e, <1>1, <1>2 DEF uclamp_rq_inc
<1>14. /\ r \in UcSt /\ ~r.rq.idle /\ r.se = b.se /\ r.rq.value = b.rq.value /\ r.rq.bucket = b.rq.bucket
  BY <1>10, <1>13, UcNotIdle
<1>15. UcWith(v, t, eff)["MIN"] = [v["MIN"] EXCEPT ![t] = eff["MIN"]]
       /\ UcWith(v, t, eff)["MAX"] = [v["MAX"] EXCEPT ![t] = eff["MAX"]]
  BY <1>0 DEF UcWith
<1>16. UcPer(r, "MIN", A \cup {t}, UcWith(v, t, eff)["MIN"]) /\ UcPer(r, "MAX", A \cup {t}, UcWith(v, t, eff)["MAX"])
  BY <1>10, <1>12, <1>14, <1>15 DEF UcPer
<1>17. r.rq \in UcRqRec
  BY <1>14 DEF UcSt
<1>18. UcFit(r.rq, A \cup {t}, UcWith(v, t, eff))
  BY <1>0, <1>14, <1>16, <1>17 DEF UcFit, UcPer
<1>19. \A id \in ClampId : r.se[id].active /\ r.se[id].value = eff[id]
  <2>1. r.se["MIN"] = [value |-> eff["MIN"], active |-> TRUE] /\ r.se["MAX"] = [value |-> eff["MAX"], active |-> TRUE]
    BY <1>7, <1>10, <1>11, <1>14
  <2>2. ASSUME NEW e PROVE [value |-> e, active |-> TRUE].active /\ [value |-> e, active |-> TRUE].value = e
    OBVIOUS
  <2>3. r.se["MIN"].active /\ r.se["MIN"].value = eff["MIN"]
    BY <2>1, <2>2
  <2>4. r.se["MAX"].active /\ r.se["MAX"].value = eff["MAX"]
    BY <2>1, <2>2
  <2> QED BY <1>0, <2>3, <2>4
<1> QED BY <1>14, <1>18, <1>19 DEF UcEntered

(* uclamp_update_active: a counted task is counted with its new clamps.     *)
LEMMA UcRefits ==
    ASSUME NEW st \in UcSt, NEW A \in SUBSET UcTask, NEW v \in UcValues, UcFit(st.rq, A, v),
           NEW t \in A, \A id \in ClampId : st.se[id].active,
           \A id \in ClampId : v[id][t] = st.se[id].value,
           NEW p, NEW eff, UcEffOf(eff, p),
           NEW r, r = uclamp_rq_reinc_id(uclamp_rq_reinc_id(st, p, "MIN"), p, "MAX")
    PROVE  UcEntered(r, A, v, t, eff)
<1>0. "MIN" \in ClampId /\ "MAX" \in ClampId /\ \A id \in ClampId : id = "MIN" \/ id = "MAX"
  BY DEF ClampId
<1>e. eff \in [ClampId -> Value] /\ \A id \in ClampId : eff[id] = uclamp_eff_get(p, id)
  BY DEF UcEffOf
<1>1. PICK a : a = TakeOut(st, "MIN")
  OBVIOUS
<1>2. PICK b : b = uclamp_rq_inc_id(a, "MIN", eff["MIN"])
  OBVIOUS
<1>3. PICK c : c = TakeOut(b, "MAX")
  OBVIOUS
<1>4. PICK d : d = uclamp_rq_inc_id(c, "MAX", eff["MAX"])
  OBVIOUS
<1>5. v["MIN"] \in [UcTask -> Value] /\ v["MAX"] \in [UcTask -> Value]
  BY <1>0 DEF UcValues
<1>6. UcPer(st, "MIN", A, v["MIN"]) /\ UcPer(st, "MAX", A, v["MAX"])
  BY <1>0 DEF UcFit, UcPer
<1>7. v["MIN"][t] = st.se["MIN"].value /\ v["MAX"][t] = st.se["MAX"].value
  BY <1>0
<1>8. eff["MIN"] \in Value /\ eff["MAX"] \in Value
  BY <1>0, <1>e
<1>9. PICK B \in SUBSET UcTask : B = A \ {t}
  OBVIOUS
<1>10. t \in UcTask /\ t \notin B /\ B \cup {t} = A
  BY <1>9
<1>11. /\ a \in UcSt /\ UcPer(a, "MIN", B, v["MIN"]) /\ (a.rq.idle <=> st.rq.idle)
       /\ (B = {} => a.rq.value["MIN"] = 0) /\ UcOther(a, st, "MIN")
  <2>1. UcGone(a, st, "MIN", A, v["MIN"], t)
    BY <1>0, <1>1, <1>5, <1>6, <1>7, UcTakeOut
  <2> QED BY <1>9, <2>1 DEF UcGone
<1>12. ~a.rq.idle
  BY <1>11 DEF UcFit
<1>13. /\ b \in UcSt /\ UcPer(b, "MIN", A, [v["MIN"] EXCEPT ![t] = eff["MIN"]])
       /\ b.se["MIN"] = [value |-> eff["MIN"], active |-> TRUE] /\ ~b.rq.idle
       /\ UcOther(b, a, "MIN")
  <2>1. (B # {} => ~a.rq.idle) /\ (B = {} => a.rq.idle \/ a.rq.value["MIN"] = 0)
    BY <1>11, <1>12
  <2>2. UcCame(b, a, "MIN", B, v["MIN"], t, eff["MIN"])
    BY <1>0, <1>2, <1>5, <1>8, <1>10, <1>11, <2>1, UcIncId
  <2> QED BY <1>10, <1>12, <2>2 DEF UcCame
<1>14. /\ b.se["MAX"] = st.se["MAX"] /\ b.rq.bucket["MAX"] = st.rq.bucket["MAX"]
       /\ b.rq.value["MAX"] = st.rq.value["MAX"]
  BY <1>0, <1>11, <1>13 DEF UcOther
<1>15. UcPer(b, "MAX", A, v["MAX"]) /\ v["MAX"][t] = b.se["MAX"].value
  BY <1>6, <1>7, <1>14 DEF UcPer
<1>16. /\ c \in UcSt /\ UcPer(c, "MAX", B, v["MAX"]) /\ (c.rq.idle <=> B = {}) /\ UcOther(c, b, "MAX")
  <2>1. UcGone(c, b, "MAX", A, v["MAX"], t)
    BY <1>0, <1>3, <1>5, <1>13, <1>15, UcTakeOut
  <2> QED BY <1>9, <1>13, <2>1 DEF UcGone
<1>17. /\ d \in UcSt /\ UcPer(d, "MAX", A, [v["MAX"] EXCEPT ![t] = eff["MAX"]])
       /\ d.se["MAX"] = [value |-> eff["MAX"], active |-> TRUE] /\ UcOther(d, c, "MAX")
  <2>1. (B # {} => ~c.rq.idle) /\ (B = {} => c.rq.idle \/ c.rq.value["MAX"] = 0)
    BY <1>16
  <2>2. UcCame(d, c, "MAX", B, v["MAX"], t, eff["MAX"])
    BY <1>0, <1>4, <1>5, <1>8, <1>10, <1>16, <2>1, UcIncId
  <2> QED BY <1>10, <2>2 DEF UcCame
<1>18. /\ d.se["MIN"] = b.se["MIN"] /\ d.rq.bucket["MIN"] = b.rq.bucket["MIN"]
       /\ d.rq.value["MIN"] = b.rq.value["MIN"]
  BY <1>0, <1>16, <1>17 DEF UcOther
<1>19. UcPer(d, "MIN", A, [v["MIN"] EXCEPT ![t] = eff["MIN"]])
  BY <1>13, <1>18 DEF UcPer
<1>20. r = NotIdle(d)
  <2>1. uclamp_rq_reinc_id(st, p, "MIN") = b
    BY <1>0, <1>e, <1>1, <1>2 DEF uclamp_rq_reinc_id, uclamp_rq_dec_id
  <2>2. b.se["MAX"].active
    BY <1>0, <1>14
  <2> QED BY <1>0, <1>e, <1>3, <1>4, <2>1, <2>2 DEF uclamp_rq_reinc_id, uclamp_rq_dec_id
<1>21. /\ r \in UcSt /\ ~r.rq.idle /\ r.se = d.se /\ r.rq.value = d.rq.value /\ r.rq.bucket = d.rq.bucket
  BY <1>17, <1>20, UcNotIdle
<1>22. UcWith(v, t, eff)["MIN"] = [v["MIN"] EXCEPT ![t] = eff["MIN"]]
       /\ UcWith(v, t, eff)["MAX"] = [v["MAX"] EXCEPT ![t] = eff["MAX"]]
  BY <1>0 DEF UcWith
<1>23. UcPer(r, "MIN", A, UcWith(v, t, eff)["MIN"]) /\ UcPer(r, "MAX", A, UcWith(v, t, eff)["MAX"])
  BY <1>17, <1>19, <1>21, <1>22 DEF UcPer
<1>24. r.rq \in UcRqRec
  BY <1>21 DEF UcSt
<1>25. UcFit(r.rq, A, UcWith(v, t, eff))
  BY <1>0, <1>21, <1>23, <1>24 DEF UcFit, UcPer
<1>26. \A id \in ClampId : r.se[id].active /\ r.se[id].value = eff[id]
  BY <1>0, <1>13, <1>17, <1>18, <1>21
<1> QED BY <1>21, <1>25, <1>26 DEF UcEntered

------------------------------------------------------------------------------
(* Utilization clamps: the inductive invariant *)

UcTaskRec == [alive : BOOLEAN, cpu : UcCpu \cup {0}, class : {"fair", "rt", "dl"}, css : Level, tg : Level,
              req : [ClampId -> [value : Value, user : BOOLEAN]], se : UcSe]

UcTypes ==
    /\ uc_used \in BOOLEAN /\ uc_default \in [ClampId \cup {"min_rt"} -> Value]
    /\ uc_tg \in [Level -> [req : [ClampId -> Value], eff : [ClampId -> Value]]]
    /\ uc_task \in [UcTask -> UcTaskRec] /\ uc_rq \in [UcCpu -> UcRqRec]
    /\ uc_walk \in [groups : SUBSET Level, tasks : SUBSET UcTask, rt : SUBSET UcTask]

(* The clamps of a task are counted together, and only on a run queue, with *)
(* the mechanism enabled and in a class that uses it: what the guards of    *)
(* uclamp_rq_dec need so that no counted task leaves uncounted.             *)
UcActiveOne(p, used) ==
    /\ p.se["MIN"].active <=> p.se["MAX"].active
    /\ p.se["MIN"].active => p.cpu # 0 /\ used /\ uclamp_enabled(p.class)
    /\ p.cpu # 0 => p.alive
UcActive == \A t \in UcTask : UcActiveOne(uc_task[t], uc_used)

UcSeats(task, c) == {t \in UcTask : task[t].cpu = c /\ task[t].se["MIN"].active}
UcVals(task) == [id \in ClampId |-> [t \in UcTask |-> task[t].se[id].value]]
UcFits == \A c \in UcCpu : UcFit(uc_rq[c], UcSeats(uc_task, c), UcVals(uc_task))

(* A task whose group is settled exceeds the group's limit only while it is *)
(* among those the walk has still to visit.                                 *)
UcLimitOne(p, tg) ==
    p.css = p.tg /\ p.tg # 1 => \A id \in ClampId : p.se[id].active => p.se[id].value <= tg[p.tg].eff["MAX"]
UcLimits == \A t \in UcTask : t \notin uc_walk.tasks => UcLimitOne(uc_task[t], uc_tg)

UcInv == UcTypes /\ UcActive /\ UcFits /\ UcLimits

(* uclamp_eff_get: a clamp, within the limit of the task's group.           *)
LEMMA UcEff ==
    ASSUME UcTypes, NEW p \in UcTaskRec, NEW id \in ClampId
    PROVE  /\ uclamp_eff_get(p, id) \in Value
           /\ p.tg # 1 => uclamp_eff_get(p, id) <= uc_tg[p.tg].eff["MAX"]
<1>0. \A x \in Value : x \in Nat
  BY UclampAssumption DEF Value
<1>1. PICK v \in Value : v = p.req[id].value
  BY DEF UcTaskRec
<1>2. p.tg \in Level /\ uc_tg[p.tg].eff \in [ClampId -> Value]
  BY DEF UcTypes, UcTaskRec
<1>3. PICK lo \in Value : lo = uc_tg[p.tg].eff["MIN"]
  BY <1>2 DEF ClampId
<1>4. PICK hi \in Value : hi = uc_tg[p.tg].eff["MAX"]
  BY <1>2 DEF ClampId
<1>5. PICK d \in Value : d = uc_default[id]
  BY DEF UcTypes
<1>6. PICK m : m = Max({v, lo})
  OBVIOUS
<1>7. m \in Value
  BY <1>0, <1>6, UcMax
<1>8. PICK n : n = Min({m, hi})
  OBVIOUS
<1>9. n \in Value /\ n <= hi
  <2>1. n = IF m <= hi THEN m ELSE hi
    BY <1>0, <1>7, <1>8, UcMin
  <2> QED BY <1>0, <1>7, <2>1
<1>10. PICK w : w = uclamp_tg_restrict(p, id)
  OBVIOUS
<1>11. w = IF p.tg = 1 THEN v ELSE n
  BY <1>1, <1>3, <1>4, <1>6, <1>8, <1>10 DEF uclamp_tg_restrict, clamp
<1>12. w \in Value /\ (p.tg # 1 => w <= hi)
  BY <1>9, <1>11
<1>13. PICK e : e = Min({w, d})
  OBVIOUS
<1>14. e = uclamp_eff_get(p, id)
  BY <1>5, <1>10, <1>13 DEF uclamp_eff_get
<1>15. e = IF w <= d THEN w ELSE d
  BY <1>0, <1>12, <1>13, UcMin
<1>16. e \in Value /\ e <= w
  BY <1>0, <1>12, <1>15
<1>17. p.tg # 1 => e <= hi
  BY <1>0, <1>12, <1>16
<1> QED BY <1>4, <1>14, <1>16, <1>17

------------------------------------------------------------------------------
(* Utilization clamps: steps that change one task *)

LEMMA UcFitSame ==
    ASSUME NEW rq, NEW A, NEW v, NEW w, UcFit(rq, A, v), \A id \in ClampId : \A u \in A : v[id][u] = w[id][u]
    PROVE  UcFit(rq, A, w)
<1>1. ASSUME NEW id \in ClampId PROVE UcHolds(rq.bucket[id], rq.value[id], A, w[id])
  <2>1. UcHolds(rq.bucket[id], rq.value[id], A, v[id])
    BY DEF UcFit
  <2>2. \A u \in A : v[id][u] = w[id][u]
    OBVIOUS
  <2> QED BY <2>1, <2>2, UcSame
<1> QED BY <1>1 DEF UcFit

LEMMA UcValsType ==
    ASSUME NEW task \in [UcTask -> UcTaskRec]
    PROVE  /\ UcVals(task) \in UcValues
           /\ \A id \in ClampId : \A u \in UcTask : UcVals(task)[id][u] = task[u].se[id].value
<1>1. \A id \in ClampId : \A u \in UcTask : task[u].se[id].value \in Value
  BY DEF UcTaskRec, UcSe
<1> QED BY <1>1 DEF UcVals, UcValues

LEMMA UcActiveKept ==
    ASSUME UcTypes, UcActive, NEW t \in UcTask, NEW p, uc_task' = [uc_task EXCEPT ![t] = p],
           uc_used => uc_used', UcActiveOne(p, uc_used')
    PROVE  UcActive'
<1>1. ASSUME NEW u \in UcTask PROVE UcActiveOne(uc_task'[u], uc_used')
  <2>1. CASE u = t
    <3>1. uc_task'[u] = p
      BY <2>1 DEF UcTypes
    <3> QED BY <3>1
  <2>2. CASE u # t
    <3>1. uc_task'[u] = uc_task[u]
      BY <2>2 DEF UcTypes
    <3>2. UcActiveOne(uc_task[u], uc_used)
      BY DEF UcActive
    <3>3. UcActiveOne(uc_task[u], uc_used')
      BY <3>2 DEF UcActiveOne
    <3> QED BY <3>1, <3>3
  <2> QED BY <2>1, <2>2
<1> QED BY <1>1 DEF UcActive

LEMMA UcLimitsKept ==
    ASSUME UcTypes, UcLimits, NEW t \in UcTask, NEW p, uc_task' = [uc_task EXCEPT ![t] = p],
           uc_tg' = uc_tg, uc_walk.tasks \ {t} \subseteq uc_walk'.tasks, UcLimitOne(p, uc_tg)
    PROVE  UcLimits'
<1>1. ASSUME NEW u \in UcTask, u \notin uc_walk'.tasks PROVE UcLimitOne(uc_task'[u], uc_tg')
  <2>1. CASE u = t
    <3>1. uc_task'[u] = p
      BY <2>1 DEF UcTypes
    <3> QED BY <3>1
  <2>2. CASE u # t
    <3>1. uc_task'[u] = uc_task[u]
      BY <2>2 DEF UcTypes
    <3>2. u \notin uc_walk.tasks
      BY <1>1, <2>2
    <3> QED BY <3>1, <3>2 DEF UcLimits
  <2> QED BY <2>1, <2>2
<1> QED BY <1>1 DEF UcLimits

(* No run queue changes, and the task's seat does not.                      *)
LEMMA UcFitsStill ==
    ASSUME UcTypes, UcFits, NEW t \in UcTask, NEW p \in UcTaskRec, uc_task' = [uc_task EXCEPT ![t] = p],
           uc_rq' = uc_rq, p.cpu = uc_task[t].cpu, p.cpu = 0 \/ p.se = uc_task[t].se
    PROVE  UcFits'
<1>1. PICK q : q = uc_task'
  OBVIOUS
<1>2. uc_task \in [UcTask -> UcTaskRec]
  BY DEF UcTypes
<1>3. q \in [UcTask -> UcTaskRec] /\ q[t] = p /\ \A u \in UcTask : u # t => q[u] = uc_task[u]
  BY <1>1, <1>2
<1>4. ASSUME NEW c \in UcCpu PROVE UcFit(uc_rq[c], UcSeats(q, c), UcVals(q))
  <2>1. c # 0
    BY UclampAssumption
  <2>2. UcSeats(q, c) = UcSeats(uc_task, c)
    BY <1>3, <2>1 DEF UcSeats
  <2>3. \A id \in ClampId : \A u \in UcSeats(q, c) : UcVals(uc_task)[id][u] = UcVals(q)[id][u]
    <3>1. ASSUME NEW id \in ClampId, NEW u \in UcSeats(q, c) PROVE uc_task[u].se[id].value = q[u].se[id].value
      <4>1. u \in UcTask /\ q[u].cpu = c
        BY DEF UcSeats
      <4>2. CASE u # t
        BY <1>3, <4>1, <4>2
      <4>3. CASE u = t
        BY <1>3, <2>1, <4>1, <4>3
      <4> QED BY <4>2, <4>3
    <3>2. UcSeats(q, c) \subseteq UcTask
      BY DEF UcSeats
    <3> QED BY <1>2, <1>3, <3>1, <3>2, UcValsType
  <2>4. UcFit(uc_rq[c], UcSeats(q, c), UcVals(uc_task))
    BY <2>2 DEF UcFits
  <2> QED BY <2>3, <2>4, UcFitSame
<1> QED BY <1>1, <1>4 DEF UcFits

(* Run queue rq counts B with the values w: the tasks of run queue c as     *)
(* they were, and t as it is in p.                                          *)
UcSeated(rq, c, t, p) ==
    \E B \in SUBSET UcTask, w \in UcValues :
       /\ UcFit(rq, B, w) /\ B \ {t} = UcSeats(uc_task, c) \ {t} /\ (t \in B <=> p.cpu = c /\ p.se["MIN"].active)
       /\ \A id \in ClampId : \A u \in B \ {t} : w[id][u] = UcVals(uc_task)[id][u]
       /\ t \in B => \A id \in ClampId : w[id][t] = p.se[id].value

(* One run queue changes, and the task's seat on it.                        *)
LEMMA UcFitsMoved ==
    ASSUME UcTypes, UcFits, NEW t \in UcTask, NEW p \in UcTaskRec, uc_task' = [uc_task EXCEPT ![t] = p],
           NEW c \in UcCpu, NEW rq, uc_rq' = [uc_rq EXCEPT ![c] = rq],
           uc_task[t].cpu \in {0, c}, p.cpu \in {0, c}, UcSeated(rq, c, t, p)
    PROVE  UcFits'
<1>0. PICK A \in SUBSET UcTask, w \in UcValues :
         /\ UcFit(rq, A, w) /\ A \ {t} = UcSeats(uc_task, c) \ {t} /\ (t \in A <=> p.cpu = c /\ p.se["MIN"].active)
         /\ \A id \in ClampId : \A u \in A \ {t} : w[id][u] = UcVals(uc_task)[id][u]
         /\ t \in A => \A id \in ClampId : w[id][t] = p.se[id].value
  BY DEF UcSeated
<1>1. PICK q : q = uc_task'
  OBVIOUS
<1>2. uc_task \in [UcTask -> UcTaskRec] /\ uc_rq \in [UcCpu -> UcRqRec]
  BY DEF UcTypes
<1>3. q \in [UcTask -> UcTaskRec] /\ q[t] = p /\ \A u \in UcTask : u # t => q[u] = uc_task[u]
  BY <1>1, <1>2
<1>4. UcSeats(q, c) = A
  BY <1>0, <1>3 DEF UcSeats
<1>5. \A id \in ClampId : \A u \in A : w[id][u] = UcVals(q)[id][u]
  <2>1. ASSUME NEW id \in ClampId, NEW u \in A PROVE w[id][u] = UcVals(q)[id][u]
    <3>1. UcVals(q)[id][u] = q[u].se[id].value /\ UcVals(uc_task)[id][u] = uc_task[u].se[id].value
      BY <1>2, <1>3, UcValsType
    <3>2. CASE u = t
      BY <1>0, <1>3, <3>1, <3>2
    <3>3. CASE u # t
      <4>1. u \in A \ {t}
        BY <3>3
      <4> QED BY <1>0, <1>3, <3>1, <3>3, <4>1
    <3> QED BY <3>2, <3>3
  <2> QED BY <2>1
<1>6. UcFit(rq, UcSeats(q, c), UcVals(q))
  BY <1>0, <1>4, <1>5, UcFitSame
<1>7. ASSUME NEW e \in UcCpu, e # c PROVE UcFit(uc_rq[e], UcSeats(q, e), UcVals(q))
  <2>1. e # 0
    BY UclampAssumption
  <2>2. UcSeats(q, e) = UcSeats(uc_task, e) /\ t \notin UcSeats(q, e)
    BY <1>3, <1>7, <2>1 DEF UcSeats
  <2>3. \A id \in ClampId : \A u \in UcSeats(q, e) : UcVals(uc_task)[id][u] = UcVals(q)[id][u]
    <3>1. \A u \in UcSeats(q, e) : u \in UcTask /\ q[u] = uc_task[u]
      BY <1>3, <2>2 DEF UcSeats
    <3> QED BY <1>2, <1>3, <3>1, UcValsType
  <2>4. UcFit(uc_rq[e], UcSeats(q, e), UcVals(uc_task))
    BY <2>2 DEF UcFits
  <2> QED BY <2>3, <2>4, UcFitSame
<1>8. ASSUME NEW e \in UcCpu PROVE UcFit(uc_rq'[e], UcSeats(q, e), UcVals(q))
  <2>1. CASE e = c
    <3>1. uc_rq'[e] = rq
      BY <1>2, <2>1
    <3> QED BY <1>6, <2>1, <3>1
  <2>2. CASE e # c
    <3>1. uc_rq'[e] = uc_rq[e]
      BY <1>2, <2>2
    <3> QED BY <1>7, <2>2, <3>1
  <2> QED BY <2>1, <2>2
<1> QED BY <1>1, <1>8 DEF UcFits

(* A run queue and task r after the task came, or was not to be counted.    *)
UcJoined(r, A, v, t, p, used) ==
    /\ r \in UcSt /\ (r.se["MIN"].active <=> r.se["MAX"].active)
    /\ r.se["MIN"].active => used /\ uclamp_enabled(p.class)
    /\ p.tg # 1 => \A id \in ClampId : r.se[id].active => r.se[id].value <= uc_tg[p.tg].eff["MAX"]
    /\ \E B \in SUBSET UcTask, w \in UcValues :
          /\ UcFit(r.rq, B, w) /\ B \ {t} = A \ {t} /\ (t \in B <=> r.se["MIN"].active)
          /\ \A id \in ClampId : \A u \in B \ {t} : w[id][u] = v[id][u]
          /\ t \in B => \A id \in ClampId : w[id][t] = r.se[id].value

LEMMA UcWithType ==
    ASSUME NEW v \in UcValues, NEW t \in UcTask, NEW eff \in [ClampId -> Value]
    PROVE  /\ UcWith(v, t, eff) \in UcValues
           /\ \A id \in ClampId : UcWith(v, t, eff)[id][t] = eff[id]
           /\ \A id \in ClampId : \A u \in UcTask : u # t => UcWith(v, t, eff)[id][u] = v[id][u]
<1>1. ASSUME NEW id \in ClampId
      PROVE  /\ UcWith(v, t, eff)[id] = [v[id] EXCEPT ![t] = eff[id]]
             /\ v[id] \in [UcTask -> Value] /\ eff[id] \in Value
  BY DEF UcWith, UcValues
<1>2. UcWith(v, t, eff) = [id \in ClampId |-> [v[id] EXCEPT ![t] = eff[id]]]
  BY DEF UcWith
<1>3. ASSUME NEW id \in ClampId
      PROVE  /\ [v[id] EXCEPT ![t] = eff[id]] \in [UcTask -> Value]
             /\ UcWith(v, t, eff)[id][t] = eff[id]
             /\ \A u \in UcTask : u # t => UcWith(v, t, eff)[id][u] = v[id][u]
  BY <1>1
<1>4. UcWith(v, t, eff) \in UcValues
  BY <1>2, <1>3 DEF UcValues
<1> QED BY <1>3, <1>4

LEMMA UcJoins ==
    ASSUME UcTypes, NEW st \in UcSt, NEW A \in SUBSET UcTask, NEW v \in UcValues, UcFit(st.rq, A, v),
           NEW t \in UcTask, t \notin A, \A id \in ClampId : ~st.se[id].active,
           NEW p \in UcTaskRec, NEW used \in BOOLEAN,
           NEW r, r = uclamp_rq_inc(st, p, used)
    PROVE  UcJoined(r, A, v, t, p, used)
<1>0. "MIN" \in ClampId /\ "MAX" \in ClampId
  BY DEF ClampId
<1>1. CASE used /\ uclamp_enabled(p.class)
  <2>1. PICK eff : eff = [id \in ClampId |-> uclamp_eff_get(p, id)]
    OBVIOUS
  <2>2. ASSUME NEW id \in ClampId
        PROVE  /\ eff[id] = uclamp_eff_get(p, id) /\ uclamp_eff_get(p, id) \in Value
               /\ p.tg # 1 => eff[id] <= uc_tg[p.tg].eff["MAX"]
    BY <2>1, UcEff
  <2>3. UcEffOf(eff, p) /\ eff \in [ClampId -> Value]
    BY <2>1, <2>2 DEF UcEffOf
  <2>4. r = uclamp_rq_inc(st, p, TRUE)
    BY <1>1
  <2>5. UcEntered(r, A \cup {t}, v, t, eff)
    BY <1>1, <2>3, <2>4, UcEnters
  <2>6. /\ r \in UcSt /\ UcFit(r.rq, A \cup {t}, UcWith(v, t, eff))
        /\ \A id \in ClampId : r.se[id].active /\ r.se[id].value = eff[id]
    BY <2>5 DEF UcEntered
  <2>7. PICK w \in UcValues : w = UcWith(v, t, eff)
    BY <2>3, UcWithType
  <2>8. /\ \A id \in ClampId : w[id][t] = eff[id]
        /\ \A id \in ClampId : \A u \in UcTask : u # t => w[id][u] = v[id][u]
    BY <2>3, <2>7, UcWithType
  <2>9. PICK B \in SUBSET UcTask : B = A \cup {t}
    OBVIOUS
  <2>10. /\ UcFit(r.rq, B, w) /\ B \ {t} = A \ {t} /\ (t \in B <=> r.se["MIN"].active)
         /\ \A id \in ClampId : \A u \in B \ {t} : w[id][u] = v[id][u]
         /\ t \in B => \A id \in ClampId : w[id][t] = r.se[id].value
    BY <1>0, <2>6, <2>7, <2>8, <2>9
  <2>11. p.tg # 1 => \A id \in ClampId : r.se[id].active => r.se[id].value <= uc_tg[p.tg].eff["MAX"]
    BY <2>2, <2>6
  <2>12. (r.se["MIN"].active <=> r.se["MAX"].active) /\ r \in UcSt
    BY <1>0, <2>6
  <2> QED BY <1>1, <2>10, <2>11, <2>12 DEF UcJoined
<1>2. CASE ~(used /\ uclamp_enabled(p.class))
  <2>1. r = st
    BY <1>2 DEF uclamp_rq_inc
  <2>2. \A id \in ClampId : ~r.se[id].active
    BY <2>1
  <2>3. /\ UcFit(r.rq, A, v) /\ A \ {t} = A \ {t} /\ (t \in A <=> r.se["MIN"].active)
        /\ \A id \in ClampId : \A u \in A \ {t} : v[id][u] = v[id][u]
        /\ t \in A => \A id \in ClampId : v[id][t] = r.se[id].value
    BY <1>0, <2>1, <2>2
  <2> QED BY <1>0, <2>1, <2>2, <2>3 DEF UcJoined
<1> QED BY <1>1, <1>2

(* On(t, c) before the step.                                                *)
LEMMA UcOn ==
    ASSUME UcInv, NEW t \in UcTask, NEW c \in UcCpu, NEW st, st = On(t, c)
    PROVE  /\ st \in UcSt /\ st.rq = uc_rq[c] /\ st.se = uc_task[t].se
           /\ UcFit(st.rq, UcSeats(uc_task, c), UcVals(uc_task))
           /\ UcSeats(uc_task, c) \in SUBSET UcTask /\ UcVals(uc_task) \in UcValues
           /\ \A id \in ClampId : UcVals(uc_task)[id][t] = st.se[id].value
           /\ \A id \in ClampId : st.se[id].active \in BOOLEAN
           /\ uc_task[t].cpu = c => \A id \in ClampId : st.se[id].active <=> t \in UcSeats(uc_task, c)
           /\ uc_task[t].cpu = 0 => t \notin UcSeats(uc_task, c) /\ \A id \in ClampId : ~st.se[id].active
<1>1. uc_task \in [UcTask -> UcTaskRec] /\ uc_rq[c] \in UcRqRec /\ uc_task[t].se \in UcSe
  BY DEF UcInv, UcTypes, UcTaskRec
<1>2. st.rq = uc_rq[c] /\ st.se = uc_task[t].se /\ st \in UcSt
  BY <1>1 DEF On, UcSt
<1>3. UcFit(st.rq, UcSeats(uc_task, c), UcVals(uc_task))
  BY <1>2 DEF UcInv, UcFits
<1>4. UcSeats(uc_task, c) \in SUBSET UcTask
  BY DEF UcSeats
<1>5. UcVals(uc_task) \in UcValues /\ \A id \in ClampId : UcVals(uc_task)[id][t] = st.se[id].value
  BY <1>1, <1>2, UcValsType
<1>6. \A id \in ClampId : st.se[id].active \in BOOLEAN
  BY <1>1, <1>2 DEF UcSe
<1>7. /\ uc_task[t].se["MIN"].active <=> uc_task[t].se["MAX"].active
      /\ uc_task[t].cpu = 0 => ~uc_task[t].se["MIN"].active
  BY DEF UcInv, UcActive, UcActiveOne
<1>8. uc_task[t].cpu = c => \A id \in ClampId : st.se[id].active <=> t \in UcSeats(uc_task, c)
  BY <1>2, <1>7 DEF UcSeats, ClampId
<1>9. uc_task[t].cpu = 0 => t \notin UcSeats(uc_task, c) /\ \A id \in ClampId : ~st.se[id].active
  BY <1>2, <1>7 DEF UcSeats, ClampId
<1> QED BY <1>2, <1>3, <1>4, <1>5, <1>6, <1>8, <1>9

(* A task t is put on run queue c, as new with the clamps of r.             *)
LEMMA UcSettles ==
    ASSUME UcInv, NEW t \in UcTask, NEW c \in UcCpu, uc_task[t].cpu \in {0, c},
           NEW new \in UcTaskRec, new.alive, NEW used \in BOOLEAN, uc_used => used, uc_used' = used,
           NEW r, UcJoined(r, UcSeats(uc_task, c) \ {t}, UcVals(uc_task), t, new, used),
           uc_task' = [uc_task EXCEPT ![t] = Placed(new, c, r.se)], uc_rq' = [uc_rq EXCEPT ![c] = r.rq],
           uc_default' = uc_default, uc_tg' = uc_tg,
           uc_walk' \in [groups : SUBSET Level, tasks : SUBSET UcTask, rt : SUBSET UcTask],
           uc_walk.tasks \ {t} \subseteq uc_walk'.tasks
    PROVE  UcInv'
<1>0. "MIN" \in ClampId /\ "MAX" \in ClampId /\ \A id \in ClampId : id = "MIN" \/ id = "MAX"
  BY DEF ClampId
<1>1. r \in UcSt /\ r.rq \in UcRqRec /\ r.se \in UcSe
  BY DEF UcJoined, UcSt
<1>2. PICK p : p = Placed(new, c, r.se)
  OBVIOUS
<1>3. /\ p \in UcTaskRec /\ p.alive = new.alive /\ p.cpu = c /\ p.class = new.class
      /\ p.css = new.css /\ p.tg = new.tg /\ p.se = r.se
  BY <1>1, <1>2 DEF Placed, UcTaskRec
<1>4. uc_task' = [uc_task EXCEPT ![t] = p]
  BY <1>2
<1>5. c # 0
  BY UclampAssumption
<1>6. UcTypes'
  BY <1>1, <1>3, <1>4 DEF UcInv, UcTypes
<1>7. UcActiveOne(p, uc_used')
  BY <1>3, <1>5 DEF UcActiveOne, UcJoined
<1>8. UcActive'
  BY <1>4, <1>7, UcActiveKept DEF UcInv
<1>9. UcLimitOne(p, uc_tg)
  BY <1>3 DEF UcLimitOne, UcJoined
<1>10. UcLimits'
  BY <1>4, <1>9, UcLimitsKept DEF UcInv
<1>11. PICK B \in SUBSET UcTask, w \in UcValues :
          /\ UcFit(r.rq, B, w) /\ B \ {t} = (UcSeats(uc_task, c) \ {t}) \ {t} /\ (t \in B <=> r.se["MIN"].active)
          /\ \A id \in ClampId : \A u \in B \ {t} : w[id][u] = UcVals(uc_task)[id][u]
          /\ t \in B => \A id \in ClampId : w[id][t] = r.se[id].value
  BY DEF UcJoined
<1>12. /\ B \ {t} = UcSeats(uc_task, c) \ {t} /\ (t \in B <=> p.cpu = c /\ p.se["MIN"].active)
       /\ t \in B => \A id \in ClampId : w[id][t] = p.se[id].value
       /\ \A id \in ClampId : \A u \in B \ {t} : w[id][u] = UcVals(uc_task)[id][u]
  BY <1>3, <1>11
<1>13. PICK rq : rq = r.rq
  OBVIOUS
<1>14. UcSeated(rq, c, t, p)
  BY <1>11, <1>12, <1>13 DEF UcSeated
<1>15. p.cpu \in {0, c} /\ uc_rq' = [uc_rq EXCEPT ![c] = rq]
  BY <1>3, <1>13
<1>16. UcFits'
  BY <1>3, <1>4, <1>14, <1>15, UcFitsMoved DEF UcInv
<1> QED BY <1>6, <1>8, <1>10, <1>16 DEF UcInv

------------------------------------------------------------------------------
(* Utilization clamps: the actions *)

LEMMA UcIdle ==
    ASSUME UcActive, NEW t \in UcTask, uc_task[t].cpu = 0
    PROVE  \A id \in ClampId : ~uc_task[t].se[id].active
BY DEF UcActive, UcActiveOne, ClampId

(* A task changes, and no run queue does.                                   *)
LEMMA UcAside ==
    ASSUME UcInv, NEW t \in UcTask, NEW p \in UcTaskRec, uc_task' = [uc_task EXCEPT ![t] = p],
           p.cpu = uc_task[t].cpu, p.cpu = 0 \/ p.se = uc_task[t].se,
           uc_used => uc_used', uc_used' \in BOOLEAN, UcActiveOne(p, uc_used'), UcLimitOne(p, uc_tg),
           uc_rq' = uc_rq, uc_default' = uc_default, uc_tg' = uc_tg,
           uc_walk' \in [groups : SUBSET Level, tasks : SUBSET UcTask, rt : SUBSET UcTask],
           uc_walk.tasks \ {t} \subseteq uc_walk'.tasks
    PROVE  UcInv'
<1>1. UcTypes'
  BY DEF UcInv, UcTypes
<1>2. UcActive'
  BY UcActiveKept DEF UcInv
<1>3. UcLimits'
  BY UcLimitsKept DEF UcInv
<1>4. UcFits'
  BY UcFitsStill DEF UcInv
<1> QED BY <1>1, <1>2, <1>3, <1>4 DEF UcInv

LEMMA UcEnqueue == ASSUME UcInv, enqueue_task PROVE UcInv'
<1>1. PICK t \in UcTask, c \in UcCpu :
         /\ uc_task[t].alive /\ uc_task[t].cpu = 0
         /\ uc_rq' = [uc_rq EXCEPT ![c] = uclamp_rq_inc(On(t, c), uc_task[t], uc_used).rq]
         /\ uc_task' = [uc_task EXCEPT ![t] = Placed(uc_task[t], c, uclamp_rq_inc(On(t, c), uc_task[t], uc_used).se)]
         /\ uc_used' = uc_used /\ uc_default' = uc_default /\ uc_tg' = uc_tg /\ uc_walk' = uc_walk
  BY DEF enqueue_task, UcInv, UcTypes
<1>2. PICK st : st = On(t, c)
  OBVIOUS
<1>3. PICK r : r = uclamp_rq_inc(st, uc_task[t], uc_used)
  OBVIOUS
<1>4. PICK A \in SUBSET UcTask : A = UcSeats(uc_task, c)
  BY DEF UcSeats
<1>5. /\ st \in UcSt /\ UcFit(st.rq, A, UcVals(uc_task)) /\ UcVals(uc_task) \in UcValues
      /\ t \notin A /\ \A id \in ClampId : ~st.se[id].active
  BY <1>1, <1>2, <1>4, UcOn
<1>6. uc_task[t] \in UcTaskRec /\ uc_used \in BOOLEAN /\ UcTypes
  BY DEF UcInv, UcTypes
<1>7. UcJoined(r, A, UcVals(uc_task), t, uc_task[t], uc_used)
  BY <1>3, <1>5, <1>6, UcJoins
<1>8. UcJoined(r, UcSeats(uc_task, c) \ {t}, UcVals(uc_task), t, uc_task[t], uc_used)
  <2>1. A = UcSeats(uc_task, c) \ {t}
    BY <1>4, <1>5
  <2> QED BY <1>7, <2>1
<1>9. uc_task' = [uc_task EXCEPT ![t] = Placed(uc_task[t], c, r.se)] /\ uc_rq' = [uc_rq EXCEPT ![c] = r.rq]
  BY <1>1, <1>2, <1>3
<1>10. /\ uc_walk' \in [groups : SUBSET Level, tasks : SUBSET UcTask, rt : SUBSET UcTask]
       /\ uc_walk.tasks \ {t} \subseteq uc_walk'.tasks /\ uc_task[t].cpu \in {0, c}
  BY <1>1 DEF UcInv, UcTypes
<1>11. /\ uc_task[t] \in UcTaskRec /\ uc_task[t].alive /\ uc_used \in BOOLEAN /\ (uc_used => uc_used) /\ uc_used' = uc_used
       /\ uc_default' = uc_default /\ uc_tg' = uc_tg
  BY <1>1, <1>6
<1> QED BY <1>8, <1>9, <1>10, <1>11, UcSettles

LEMMA UcDequeue == ASSUME UcInv, dequeue_task PROVE UcInv'
<1>1. PICK t \in UcTask :
         /\ uc_task[t].cpu # 0
         /\ LET st == uclamp_rq_dec(On(t, uc_task[t].cpu), uc_task[t], uc_used) IN
            /\ uc_rq' = [uc_rq EXCEPT ![uc_task[t].cpu] = st.rq]
            /\ uc_task' = [uc_task EXCEPT ![t] = Placed(uc_task[t], 0, st.se)]
         /\ uc_used' = uc_used /\ uc_default' = uc_default /\ uc_tg' = uc_tg /\ uc_walk' = uc_walk
  BY DEF dequeue_task, UcInv, UcTypes
<1>2. PICK c \in UcCpu : c = uc_task[t].cpu
  BY <1>1 DEF UcInv, UcTypes, UcTaskRec
<1>3. PICK st : st = On(t, c)
  OBVIOUS
<1>4. PICK r : r = uclamp_rq_dec(st, uc_task[t], uc_used)
  OBVIOUS
<1>5. uc_task' = [uc_task EXCEPT ![t] = Placed(uc_task[t], 0, r.se)] /\ uc_rq' = [uc_rq EXCEPT ![c] = r.rq]
  BY <1>1, <1>2, <1>3, <1>4
<1>6. PICK A \in SUBSET UcTask : A = UcSeats(uc_task, c)
  BY DEF UcSeats
<1>7. PICK v \in UcValues : v = UcVals(uc_task)
  BY <1>3, UcOn
<1>8. st \in UcSt /\ UcFit(st.rq, A, v) /\ UcAgree(st, A, v, t)
  BY <1>2, <1>3, <1>6, <1>7, UcOn DEF UcAgree
<1>9. uc_task[t] \in UcTaskRec /\ uc_used \in BOOLEAN /\ UcTypes
  BY DEF UcInv, UcTypes
<1>10. t \in A => uc_used /\ uclamp_enabled(uc_task[t].class)
  BY <1>6 DEF UcInv, UcActive, UcActiveOne, UcSeats
<1>11. r \in UcSt /\ UcFit(r.rq, A \ {t}, v) /\ \A id \in ClampId : ~r.se[id].active
  <2>1. UcLeft(r, A \ {t}, v)
    BY <1>4, <1>8, <1>9, <1>10, UcLeaves
  <2> QED BY <2>1 DEF UcLeft
<1>12. r.rq \in UcRqRec /\ r.se \in UcSe
  BY <1>11 DEF UcSt
<1>13. PICK p : p = Placed(uc_task[t], 0, r.se)
  OBVIOUS
<1>14. p \in UcTaskRec /\ p.cpu = 0 /\ p.se = r.se
  BY <1>9, <1>12, <1>13 DEF Placed, UcTaskRec
<1>15. uc_task' = [uc_task EXCEPT ![t] = p]
  BY <1>5, <1>13
<1>16. \A id \in ClampId : ~p.se[id].active
  BY <1>11, <1>14
<1>17. UcTypes'
  <2>1. uc_task' \in [UcTask -> UcTaskRec] /\ uc_rq' \in [UcCpu -> UcRqRec]
    BY <1>5, <1>9, <1>12, <1>14, <1>15 DEF UcTypes
  <2> QED BY <1>1, <1>9, <2>1 DEF UcTypes
<1>18. UcActiveOne(p, uc_used')
  BY <1>14, <1>16 DEF UcActiveOne, ClampId
<1>19. UcLimitOne(p, uc_tg)
  BY <1>16 DEF UcLimitOne
<1>20. UcActive'
  BY <1>1, <1>15, <1>18, UcActiveKept DEF UcInv
<1>21. UcLimits'
  <2>1. uc_walk.tasks \ {t} \subseteq uc_walk'.tasks
    BY <1>1
  <2> QED BY <1>1, <1>15, <1>19, <2>1, UcLimitsKept DEF UcInv
<1>22. PICK rq : rq = r.rq
  OBVIOUS
<1>23. UcSeated(rq, c, t, p)
  <2>1. PICK B \in SUBSET UcTask : B = A \ {t}
    OBVIOUS
  <2>2. c # 0
    BY UclampAssumption
  <2>3. t \notin B /\ B \ {t} = UcSeats(uc_task, c) \ {t}
    BY <1>6, <2>1
  <2>4. UcFit(rq, B, v) /\ \A id \in ClampId : \A u \in B \ {t} : v[id][u] = UcVals(uc_task)[id][u]
    BY <1>7, <1>11, <1>22, <2>1
  <2> QED BY <1>14, <2>2, <2>3, <2>4 DEF UcSeated
<1>24. uc_task[t].cpu \in {0, c} /\ p.cpu \in {0, c} /\ uc_rq' = [uc_rq EXCEPT ![c] = rq]
  BY <1>2, <1>5, <1>14, <1>22
<1>25. UcFits'
  BY <1>9, <1>14, <1>15, <1>23, <1>24, UcFitsMoved DEF UcInv
<1> QED BY <1>17, <1>20, <1>21, <1>25 DEF UcInv

LEMMA UcRequeue ==
    ASSUME UcInv, NEW t \in UcTask, NEW new \in UcTaskRec,
           new.cpu = uc_task[t].cpu, new.se = uc_task[t].se, new.alive = uc_task[t].alive,
           NEW used \in BOOLEAN, uc_used => used, uc_used' = used, requeue(t, new, used),
           uc_default' = uc_default, uc_tg' = uc_tg, uc_walk' = uc_walk
    PROVE  UcInv'
<1>1. uc_task[t] \in UcTaskRec /\ uc_used \in BOOLEAN /\ UcTypes /\ UcActive
  BY DEF UcInv, UcTypes
<1>2. /\ uc_walk' \in [groups : SUBSET Level, tasks : SUBSET UcTask, rt : SUBSET UcTask]
      /\ uc_walk.tasks \ {t} \subseteq uc_walk'.tasks
  BY DEF UcInv, UcTypes
<1>3. CASE uc_task[t].cpu = 0
  <2>1. uc_task' = [uc_task EXCEPT ![t] = new] /\ uc_rq' = uc_rq
    BY <1>3 DEF requeue
  <2>2. \A id \in ClampId : ~new.se[id].active
    BY <1>1, <1>3, UcIdle
  <2>3. UcActiveOne(new, uc_used')
    BY <1>3, <2>2 DEF UcActiveOne, ClampId
  <2>4. UcLimitOne(new, uc_tg)
    BY <2>2 DEF UcLimitOne
  <2> QED BY <1>2, <2>1, <2>3, <2>4, UcAside
<1>4. CASE uc_task[t].cpu # 0
  <2>1. PICK c \in UcCpu : c = uc_task[t].cpu
    BY <1>1, <1>4 DEF UcTaskRec
  <2>2. PICK st : st = On(t, c)
    OBVIOUS
  <2>3. PICK s : s = uclamp_rq_dec(st, uc_task[t], used)
    OBVIOUS
  <2>4. PICK r : r = uclamp_rq_inc(s, new, used)
    OBVIOUS
  <2>5. uc_task' = [uc_task EXCEPT ![t] = Placed(new, c, r.se)] /\ uc_rq' = [uc_rq EXCEPT ![c] = r.rq]
    BY <1>4, <2>1, <2>2, <2>3, <2>4 DEF requeue
  <2>6. PICK A \in SUBSET UcTask : A = UcSeats(uc_task, c)
    BY DEF UcSeats
  <2>7. PICK v \in UcValues : v = UcVals(uc_task)
    BY <2>2, UcOn
  <2>8. st \in UcSt /\ UcFit(st.rq, A, v) /\ UcAgree(st, A, v, t)
    BY <2>1, <2>2, <2>6, <2>7, UcOn DEF UcAgree
  <2>9. t \in A => used /\ uclamp_enabled(uc_task[t].class)
    BY <2>6 DEF UcInv, UcActive, UcActiveOne, UcSeats
  <2>10. s \in UcSt /\ UcFit(s.rq, A \ {t}, v) /\ \A id \in ClampId : ~s.se[id].active
    <3>1. UcLeft(s, A \ {t}, v)
      BY <2>3, <2>8, <2>9, UcLeaves
    <3> QED BY <3>1 DEF UcLeft
  <2>11. PICK B \in SUBSET UcTask : B = A \ {t}
    OBVIOUS
  <2>12. UcFit(s.rq, B, v) /\ t \notin B
    BY <2>10, <2>11
  <2>13. UcJoined(r, B, v, t, new, used)
    BY <1>1, <2>4, <2>10, <2>12, UcJoins
  <2>14. UcJoined(r, UcSeats(uc_task, c) \ {t}, UcVals(uc_task), t, new, used)
    BY <2>6, <2>7, <2>11, <2>13
  <2>15. uc_task[t].cpu \in {0, c} /\ new.alive
    BY <1>4, <2>1 DEF UcInv, UcActive, UcActiveOne
  <2> QED BY <1>2, <2>5, <2>14, <2>15, UcSettles
<1> QED BY <1>3, <1>4

LEMMA UcNone == ASSUME NEW id \in ClampId PROVE uclamp_none(id) \in Value
BY UclampAssumption DEF uclamp_none, Value

(* __uclamp_update_util_min_rt_default changes the request only.            *)
LEMMA UcMinRt ==
    ASSUME UcTypes, NEW p \in UcTaskRec, NEW q, q = update_util_min_rt_default(p, uc_default["min_rt"])
    PROVE  /\ q \in UcTaskRec /\ q.alive = p.alive /\ q.cpu = p.cpu /\ q.class = p.class
           /\ q.css = p.css /\ q.tg = p.tg /\ q.se = p.se
<1>1. CASE p.class # "rt" \/ p.req["MIN"].user
  BY <1>1 DEF update_util_min_rt_default
<1>2. CASE ~(p.class # "rt" \/ p.req["MIN"].user)
  <2>1. uc_default["min_rt"] \in Value
    BY DEF UcTypes
  <2>2. PICK m : m = [value |-> uc_default["min_rt"], user |-> FALSE]
    OBVIOUS
  <2>3. m \in [value : Value, user : BOOLEAN]
    BY <2>1, <2>2
  <2>4. PICK e : e = [p.req EXCEPT !["MIN"] = m]
    OBVIOUS
  <2>5. p.req \in [ClampId -> [value : Value, user : BOOLEAN]]
    BY DEF UcTaskRec
  <2>6. e \in [ClampId -> [value : Value, user : BOOLEAN]]
    BY <2>3, <2>4, <2>5
  <2>7. q = [p EXCEPT !.req = e]
    BY <1>2, <2>2, <2>4 DEF update_util_min_rt_default
  <2> QED BY <2>6, <2>7 DEF UcTaskRec
<1> QED BY <1>1, <1>2

LEMMA UcFork == ASSUME UcInv, sched_fork PROVE UcInv'
<1>1. PICK p \in UcTask, t \in UcTask, reset \in BOOLEAN :
         /\ uc_task[p].alive /\ ~uc_task[t].alive
         /\ LET clamps == uclamp_fork(uc_task[p], reset)
                child == [alive |-> TRUE, cpu |-> 0, class |-> IF reset THEN "fair" ELSE uc_task[p].class,
                          css |-> uc_task[p].css, tg |-> uc_task[p].css, req |-> clamps.req, se |-> clamps.se]
            IN  uc_task' = [uc_task EXCEPT ![t] = update_util_min_rt_default(child, uc_default["min_rt"])]
         /\ uc_used' = uc_used /\ uc_default' = uc_default /\ uc_tg' = uc_tg /\ uc_walk' = uc_walk /\ uc_rq' = uc_rq
  BY DEF sched_fork
<1>2. UcTypes /\ uc_task[p] \in UcTaskRec /\ uc_used \in BOOLEAN
  BY DEF UcInv, UcTypes
<1>3. PICK clamps : clamps = uclamp_fork(uc_task[p], reset)
  OBVIOUS
<1>4. clamps.se \in UcSe /\ \A id \in ClampId : ~clamps.se[id].active
  <2>1. clamps.se = [id \in ClampId |-> [value |-> uc_task[p].se[id].value, active |-> FALSE]]
    BY <1>3 DEF uclamp_fork
  <2>2. ASSUME NEW id \in ClampId PROVE uc_task[p].se[id].value \in Value
    BY <1>2 DEF UcTaskRec, UcSe
  <2>3. ASSUME NEW id \in ClampId PROVE clamps.se[id] = [value |-> uc_task[p].se[id].value, active |-> FALSE]
    BY <2>1
  <2>4. ASSUME NEW id \in ClampId PROVE ~clamps.se[id].active
    <3>1. ASSUME NEW e PROVE ~[value |-> e, active |-> FALSE].active
      OBVIOUS
    <3> QED BY <2>3, <3>1
  <2> QED BY <2>1, <2>2, <2>4 DEF UcSe
<1>5. clamps.req \in [ClampId -> [value : Value, user : BOOLEAN]]
  <2>1. clamps.req = IF reset THEN [id \in ClampId |-> [value |-> uclamp_none(id), user |-> FALSE]] ELSE uc_task[p].req
    BY <1>3 DEF uclamp_fork
  <2>2. uc_task[p].req \in [ClampId -> [value : Value, user : BOOLEAN]]
    BY <1>2 DEF UcTaskRec
  <2>3. [id \in ClampId |-> [value |-> uclamp_none(id), user |-> FALSE]] \in [ClampId -> [value : Value, user : BOOLEAN]]
    BY UcNone
  <2> QED BY <2>1, <2>2, <2>3
<1>6. PICK class \in {"fair", "rt", "dl"} : class = IF reset THEN "fair" ELSE uc_task[p].class
  BY <1>2 DEF UcTaskRec
<1>7. PICK child : child = [alive |-> TRUE, cpu |-> 0, class |-> class, css |-> uc_task[p].css, tg |-> uc_task[p].css,
                            req |-> clamps.req, se |-> clamps.se]
  OBVIOUS
<1>8. child \in UcTaskRec /\ child.cpu = 0 /\ child.se = clamps.se
  BY <1>2, <1>4, <1>5, <1>7 DEF UcTaskRec
<1>9. PICK q : q = update_util_min_rt_default(child, uc_default["min_rt"])
  OBVIOUS
<1>10. q \in UcTaskRec /\ q.cpu = 0 /\ q.se = clamps.se
  <2>1. /\ q \in UcTaskRec /\ q.alive = child.alive /\ q.cpu = child.cpu /\ q.class = child.class
        /\ q.css = child.css /\ q.tg = child.tg /\ q.se = child.se
    BY <1>2, <1>8, <1>9, UcMinRt
  <2> QED BY <1>8, <2>1
<1>11. uc_task' = [uc_task EXCEPT ![t] = q]
  BY <1>1, <1>3, <1>6, <1>7, <1>9
<1>12. uc_task[t].cpu = 0
  BY <1>1 DEF UcInv, UcActive, UcActiveOne
<1>13. UcActiveOne(q, uc_used') /\ UcLimitOne(q, uc_tg)
  BY <1>4, <1>10 DEF UcActiveOne, UcLimitOne, ClampId
<1>14. /\ uc_walk' \in [groups : SUBSET Level, tasks : SUBSET UcTask, rt : SUBSET UcTask]
       /\ uc_walk.tasks \ {t} \subseteq uc_walk'.tasks
  BY <1>1, <1>2 DEF UcTypes
<1>15. q.cpu = uc_task[t].cpu /\ (q.cpu = 0 \/ q.se = uc_task[t].se) /\ (uc_used => uc_used') /\ uc_used' \in BOOLEAN
  BY <1>1, <1>2, <1>10, <1>12
<1> QED BY <1>1, <1>10, <1>11, <1>13, <1>14, <1>15, UcAside

LEMMA UcAsked ==
    ASSUME UcTypes, NEW t \in UcTask, NEW class, NEW ask
    PROVE  __setscheduler_uclamp(t, class, ask) \in [ClampId -> [value : Value, user : BOOLEAN]]
<1>1. ASSUME NEW id \in ClampId
      PROVE  (IF ask[id] \in Value THEN [value |-> ask[id], user |-> TRUE]
              ELSE IF uclamp_reset(t, id, ask)
                   THEN [value |-> IF class = "rt" /\ id = "MIN" THEN uc_default["min_rt"] ELSE uclamp_none(id),
                         user |-> FALSE]
              ELSE uc_task[t].req[id]) \in [value : Value, user : BOOLEAN]
  <2>1. uc_task[t].req[id] \in [value : Value, user : BOOLEAN]
    BY DEF UcTypes, UcTaskRec
  <2>2. uc_default["min_rt"] \in Value /\ uclamp_none(id) \in Value
    BY UcNone DEF UcTypes
  <2>3. CASE ask[id] \in Value
    BY <2>3
  <2>4. CASE ask[id] \notin Value /\ uclamp_reset(t, id, ask)
    <3>1. PICK v \in Value : v = IF class = "rt" /\ id = "MIN" THEN uc_default["min_rt"] ELSE uclamp_none(id)
      BY <2>2
    <3>2. [value |-> v, user |-> FALSE] \in [value : Value, user : BOOLEAN]
      BY <3>1
    <3> QED BY <2>4, <3>1, <3>2
  <2>5. CASE ask[id] \notin Value /\ ~uclamp_reset(t, id, ask)
    BY <2>1, <2>5
  <2> QED BY <2>3, <2>4, <2>5
<1> QED BY <1>1 DEF __setscheduler_uclamp

LEMMA UcSetattr == ASSUME UcInv, sched_setattr PROVE UcInv'
<1>1. PICK t \in UcTask, class \in {"fair", "rt", "dl"}, one \in ClampId, a \in Ask :
         LET ask == [id \in ClampId |-> IF id = one THEN a ELSE no]
             asks == \E id \in ClampId : ask[id] # no IN
         /\ uc_used' = (uc_used \/ asks)
         /\ requeue(t, Attributed(uc_task[t], class, __setscheduler_uclamp(t, class, ask)), uc_used')
         /\ UNCHANGED <<uc_default, uc_tg, uc_walk>>
  BY DEF sched_setattr
<1>2. PICK ask : ask = [id \in ClampId |-> IF id = one THEN a ELSE no]
  OBVIOUS
<1>3. PICK asks \in BOOLEAN : asks <=> \E id \in ClampId : ask[id] # no
  OBVIOUS
<1>4. UcTypes /\ uc_task[t] \in UcTaskRec /\ uc_used \in BOOLEAN
  BY DEF UcInv, UcTypes
<1>5. PICK req : req = __setscheduler_uclamp(t, class, ask)
  OBVIOUS
<1>6. req \in [ClampId -> [value : Value, user : BOOLEAN]]
  BY <1>4, <1>5, UcAsked
<1>7. PICK new : new = Attributed(uc_task[t], class, req)
  OBVIOUS
<1>8. /\ new \in UcTaskRec /\ new.cpu = uc_task[t].cpu /\ new.se = uc_task[t].se /\ new.alive = uc_task[t].alive
  BY <1>1, <1>4, <1>6, <1>7 DEF Attributed, UcTaskRec
<1>9. PICK used \in BOOLEAN : used <=> uc_used \/ asks
  OBVIOUS
<1>10. uc_used' = used
  <2>1. uc_used' = (uc_used \/ \E id \in ClampId : ask[id] # no)
    BY <1>1, <1>2
  <2> QED BY <1>3, <1>4, <1>9, <2>1
<1>11. requeue(t, new, used)
  <2>1. requeue(t, new, uc_used')
    BY <1>1, <1>2, <1>5, <1>7
  <2> QED BY <1>10, <2>1
<1>12. uc_used => used
  BY <1>9
<1>13. uc_default' = uc_default /\ uc_tg' = uc_tg /\ uc_walk' = uc_walk
  BY <1>1
<1> QED BY <1>8, <1>10, <1>11, <1>12, <1>13, UcRequeue

LEMMA UcMove == ASSUME UcInv, sched_move_task PROVE UcInv'
<1>1. PICK t \in UcTask :
         /\ requeue(t, [uc_task[t] EXCEPT !.tg = uc_task[t].css], uc_used)
         /\ UNCHANGED <<uc_used, uc_default, uc_tg, uc_walk, uc_requests>>
  BY DEF sched_move_task
<1>2. UcTypes /\ uc_task[t] \in UcTaskRec /\ uc_used \in BOOLEAN
  BY DEF UcInv, UcTypes
<1>3. PICK new : new = [uc_task[t] EXCEPT !.tg = uc_task[t].css]
  OBVIOUS
<1>4. /\ new \in UcTaskRec /\ new.cpu = uc_task[t].cpu /\ new.se = uc_task[t].se /\ new.alive = uc_task[t].alive
  BY <1>2, <1>3 DEF UcTaskRec
<1>5. PICK used \in BOOLEAN : used = uc_used
  BY <1>2
<1>6. requeue(t, new, used) /\ uc_used' = used /\ (uc_used => used)
  BY <1>1, <1>3, <1>5
<1>7. uc_default' = uc_default /\ uc_tg' = uc_tg /\ uc_walk' = uc_walk
  BY <1>1
<1> QED BY <1>4, <1>6, <1>7, UcRequeue

(* What stays when only the requests of groups and the system change.       *)
LEMMA UcSetting ==
    ASSUME UcInv, uc_used' \in BOOLEAN, uc_used => uc_used',
           uc_default' \in [ClampId \cup {"min_rt"} -> Value],
           uc_tg' \in [Level -> [req : [ClampId -> Value], eff : [ClampId -> Value]]],
           uc_walk' \in [groups : SUBSET Level, tasks : SUBSET UcTask, rt : SUBSET UcTask],
           uc_task' = uc_task, uc_rq' = uc_rq, UcLimits'
    PROVE  UcInv'
<1>1. UcTypes'
  BY DEF UcInv, UcTypes
<1>2. UcActive'
  BY DEF UcInv, UcActive, UcActiveOne
<1>3. UcFits'
  <2>1. ASSUME NEW c \in UcCpu PROVE UcFit(uc_rq'[c], UcSeats(uc_task', c), UcVals(uc_task'))
    BY DEF UcInv, UcFits
  <2> QED BY <2>1 DEF UcFits
<1> QED BY <1>1, <1>2, <1>3 DEF UcInv

(* The limits stay when no effective clamp changes and no task is visited.  *)
LEMMA UcLimitsSame ==
    ASSUME UcInv, uc_task' = uc_task, uc_walk.tasks = {}, \A g \in Level : uc_tg'[g].eff = uc_tg[g].eff
    PROVE  UcLimits'
<1>1. ASSUME NEW t \in UcTask PROVE UcLimitOne(uc_task'[t], uc_tg')
  <2>1. UcLimitOne(uc_task[t], uc_tg)
    BY DEF UcInv, UcLimits
  <2>2. uc_task[t].tg \in Level
    BY DEF UcInv, UcTypes, UcTaskRec
  <2>3. uc_tg'[uc_task[t].tg].eff = uc_tg[uc_task[t].tg].eff
    BY <2>2
  <2>4. UcLimitOne(uc_task[t], uc_tg')
    BY <2>1, <2>3 DEF UcLimitOne
  <2> QED BY <2>4
<1> QED BY <1>1 DEF UcLimits

LEMMA UcWrite == ASSUME UcInv, cpu_uclamp_write PROVE UcInv'
<1>1. PICK g \in Level \ {1}, id \in ClampId, v \in Value :
         /\ uc_walk = NoWalk /\ uc_used' = TRUE /\ uc_tg' = [uc_tg EXCEPT ![g].req[id] = v]
         /\ uc_walk' = [NoWalk EXCEPT !.groups = g .. UcDepth]
         /\ UNCHANGED <<uc_default, uc_task, uc_rq>>
  BY DEF cpu_uclamp_write
<1>2. uc_tg \in [Level -> [req : [ClampId -> Value], eff : [ClampId -> Value]]]
  BY DEF UcInv, UcTypes
<1>3. PICK n : n = [uc_tg[g] EXCEPT !.req = [uc_tg[g].req EXCEPT ![id] = v]]
  OBVIOUS
<1>4. uc_tg' = [uc_tg EXCEPT ![g] = n]
  BY <1>1, <1>2, <1>3
<1>5. [uc_tg[g].req EXCEPT ![id] = v] \in [ClampId -> Value]
  BY <1>1, <1>2
<1>6. n \in [req : [ClampId -> Value], eff : [ClampId -> Value]] /\ n.eff = uc_tg[g].eff
  BY <1>1, <1>2, <1>3, <1>5
<1>7. /\ uc_tg' \in [Level -> [req : [ClampId -> Value], eff : [ClampId -> Value]]]
      /\ \A e \in Level : uc_tg'[e].eff = uc_tg[e].eff
  BY <1>1, <1>2, <1>4, <1>6
<1>8. uc_walk' \in [groups : SUBSET Level, tasks : SUBSET UcTask, rt : SUBSET UcTask]
  <2>1. g .. UcDepth \subseteq Level
    BY <1>1, UclampAssumption DEF Level
  <2> QED BY <1>1, <2>1 DEF NoWalk
<1>9. uc_walk.tasks = {} /\ uc_task' = uc_task /\ uc_rq' = uc_rq
  BY <1>1 DEF NoWalk
<1>10. UcLimits'
  BY <1>7, <1>9, UcLimitsSame
<1>11. uc_default' \in [ClampId \cup {"min_rt"} -> Value] /\ uc_used' \in BOOLEAN /\ (uc_used => uc_used')
  BY <1>1 DEF UcInv, UcTypes
<1> QED BY <1>7, <1>8, <1>9, <1>10, <1>11, UcSetting

LEMMA UcSysctl == ASSUME UcInv, sysctl_sched_uclamp_handler PROVE UcInv'
<1>1. PICK knob \in ClampId \cup {"min_rt"}, v \in Value :
         LET d == [uc_default EXCEPT ![knob] = v] IN
         /\ uc_walk = NoWalk /\ uc_used' = TRUE /\ uc_default' = d
         /\ IF knob = "min_rt"
            THEN uc_walk' = [NoWalk EXCEPT !.rt = {t \in UcTask : uc_task[t].alive}] /\ UNCHANGED uc_tg
            ELSE /\ uc_walk' = [NoWalk EXCEPT !.groups = Level]
                 /\ uc_tg' = [uc_tg EXCEPT ![1].req = [id \in ClampId |-> d[id]]]
         /\ UNCHANGED <<uc_task, uc_rq>>
  BY DEF sysctl_sched_uclamp_handler
<1>2. /\ uc_tg \in [Level -> [req : [ClampId -> Value], eff : [ClampId -> Value]]]
      /\ uc_default \in [ClampId \cup {"min_rt"} -> Value]
  BY DEF UcInv, UcTypes
<1>3. PICK d \in [ClampId \cup {"min_rt"} -> Value] : d = [uc_default EXCEPT ![knob] = v]
  BY <1>1, <1>2
<1>4. uc_default' \in [ClampId \cup {"min_rt"} -> Value] /\ uc_used' \in BOOLEAN /\ (uc_used => uc_used')
  BY <1>1, <1>3
<1>5. /\ uc_tg' \in [Level -> [req : [ClampId -> Value], eff : [ClampId -> Value]]]
      /\ \A e \in Level : uc_tg'[e].eff = uc_tg[e].eff
  <2>1. CASE knob = "min_rt"
    BY <1>1, <1>2, <2>1
  <2>2. CASE knob # "min_rt"
    <3>1. PICK q \in [ClampId -> Value] : q = [id \in ClampId |-> d[id]]
      BY <1>3
    <3>2. PICK n : n = [uc_tg[1] EXCEPT !.req = q]
      OBVIOUS
    <3>3. 1 \in Level
      BY UclampAssumption DEF Level
    <3>4. uc_tg' = [uc_tg EXCEPT ![1] = n]
      BY <1>1, <1>2, <1>3, <2>2, <3>1, <3>2, <3>3
    <3>5. n \in [req : [ClampId -> Value], eff : [ClampId -> Value]] /\ n.eff = uc_tg[1].eff
      BY <1>2, <3>1, <3>2, <3>3
    <3> QED BY <1>2, <3>3, <3>4, <3>5
  <2> QED BY <2>1, <2>2
<1>6. uc_walk' \in [groups : SUBSET Level, tasks : SUBSET UcTask, rt : SUBSET UcTask]
  BY <1>1 DEF NoWalk
<1>7. uc_walk.tasks = {} /\ uc_task' = uc_task /\ uc_rq' = uc_rq
  BY <1>1 DEF NoWalk
<1>8. UcLimits'
  BY <1>5, <1>7, UcLimitsSame
<1> QED BY <1>4, <1>5, <1>6, <1>7, <1>8, UcSetting

LEMMA UcUpdateEff == ASSUME UcInv, cpu_util_update_eff PROVE UcInv'
<1>1. PICK g : g = Min(uc_walk.groups)
  OBVIOUS
<1>2. uc_walk.groups # {} /\ uc_walk.groups \in SUBSET Level /\ uc_walk.tasks = {}
  BY DEF cpu_util_update_eff, UcInv, UcTypes
<1>3. g \in Level
  <2>1. uc_walk.groups \in SUBSET Nat
    BY <1>2 DEF Level
  <2>2. \E x \in uc_walk.groups : \A y \in uc_walk.groups : x <= y
    BY <1>2, <2>1, UcLeast
  <2>3. g \in uc_walk.groups
    BY <1>1, <2>2 DEF Min
  <2> QED BY <1>2, <2>3
<1>4. /\ uc_tg \in [Level -> [req : [ClampId -> Value], eff : [ClampId -> Value]]]
      /\ uc_task \in [UcTask -> UcTaskRec]
  BY DEF UcInv, UcTypes
<1>5. PICK up : up = [id \in ClampId |-> IF g = 1 THEN uc_tg[g].req[id] ELSE Min({uc_tg[g].req[id], uc_tg[g - 1].eff[id]})]
  OBVIOUS
<1>6. up \in [ClampId -> Value]
  <2>0. \A x \in Value : x \in Nat
    BY UclampAssumption DEF Value
  <2>1. ASSUME NEW id \in ClampId
        PROVE  (IF g = 1 THEN uc_tg[g].req[id] ELSE Min({uc_tg[g].req[id], uc_tg[g - 1].eff[id]})) \in Value
    <3>1. PICK x \in Value : x = uc_tg[g].req[id]
      BY <1>3, <1>4
    <3>2. CASE g = 1
      BY <3>1, <3>2
    <3>3. CASE g # 1
      <4>1. g - 1 \in Level
        BY <1>3, <3>3, UclampAssumption DEF Level
      <4>2. PICK y \in Value : y = uc_tg[g - 1].eff[id]
        BY <1>4, <4>1
      <4>3. Min({x, y}) = IF x <= y THEN x ELSE y
        BY <2>0, UcMin
      <4>4. Min({x, y}) \in Value
        BY <4>3
      <4> QED BY <3>1, <3>3, <4>2, <4>4
    <3> QED BY <3>2, <3>3
  <2> QED BY <1>5, <2>1
<1>7. PICK eff : eff = [id \in ClampId |-> IF id = "MIN" THEN Min({up["MIN"], up["MAX"]}) ELSE up["MAX"]]
  OBVIOUS
<1>8. eff \in [ClampId -> Value]
  <2>0. \A x \in Value : x \in Nat
    BY UclampAssumption DEF Value
  <2>1. PICK x \in Value : x = up["MIN"]
    BY <1>6 DEF ClampId
  <2>2. PICK y \in Value : y = up["MAX"]
    BY <1>6 DEF ClampId
  <2>3. Min({x, y}) = IF x <= y THEN x ELSE y
    BY <2>0, UcMin
  <2>4. Min({x, y}) \in Value
    BY <2>3
  <2> QED BY <1>7, <2>1, <2>2, <2>4
<1>9. PICK same \in BOOLEAN : same <=> eff = uc_tg[g].eff
  OBVIOUS
<1>10. /\ uc_tg' = [uc_tg EXCEPT ![g].eff = eff]
       /\ uc_walk' = IF eff = uc_tg[g].eff THEN NoWalk
                     ELSE [uc_walk EXCEPT !.groups = @ \ {g},
                                          !.tasks = {t \in UcTask : uc_task[t].alive /\ uc_task[t].css = g}]
  <2>1. "MIN" \in ClampId /\ "MAX" \in ClampId
    BY DEF ClampId
  <2>2. /\ up["MIN"] = IF g = 1 THEN uc_tg[g].req["MIN"] ELSE Min({uc_tg[g].req["MIN"], uc_tg[g - 1].eff["MIN"]})
        /\ up["MAX"] = IF g = 1 THEN uc_tg[g].req["MAX"] ELSE Min({uc_tg[g].req["MAX"], uc_tg[g - 1].eff["MAX"]})
    BY <1>5, <2>1
  <2> QED BY <1>1, <1>7, <2>2 DEF cpu_util_update_eff
<1>11. PICK n : n = [uc_tg[g] EXCEPT !.eff = eff]
  OBVIOUS
<1>12. uc_tg' = [uc_tg EXCEPT ![g] = n]
  BY <1>3, <1>4, <1>10, <1>11
<1>13. n \in [req : [ClampId -> Value], eff : [ClampId -> Value]] /\ n.eff = eff
  BY <1>3, <1>4, <1>8, <1>11
<1>14. /\ uc_tg' \in [Level -> [req : [ClampId -> Value], eff : [ClampId -> Value]]]
       /\ uc_tg'[g].eff = eff /\ \A e \in Level : e # g => uc_tg'[e] = uc_tg[e]
  BY <1>3, <1>4, <1>12, <1>13
<1>15. PICK walk : walk = [uc_walk EXCEPT !.groups = @ \ {g},
                                          !.tasks = {t \in UcTask : uc_task[t].alive /\ uc_task[t].css = g}]
  OBVIOUS
<1>16. /\ walk \in [groups : SUBSET Level, tasks : SUBSET UcTask, rt : SUBSET UcTask]
       /\ walk.tasks = {t \in UcTask : uc_task[t].alive /\ uc_task[t].css = g}
  <2>1. uc_walk \in [groups : SUBSET Level, tasks : SUBSET UcTask, rt : SUBSET UcTask]
    BY DEF UcInv, UcTypes
  <2> QED BY <1>15, <2>1
<1>17. uc_walk' = IF same THEN NoWalk ELSE walk
  BY <1>9, <1>10, <1>15
<1>18. uc_walk' \in [groups : SUBSET Level, tasks : SUBSET UcTask, rt : SUBSET UcTask]
  BY <1>16, <1>17 DEF NoWalk
<1>19. uc_used' = uc_used /\ uc_default' = uc_default /\ uc_task' = uc_task /\ uc_rq' = uc_rq
  BY DEF cpu_util_update_eff
<1>20. UcLimits'
  <2>1. CASE same
    <3>1. \A e \in Level : uc_tg'[e].eff = uc_tg[e].eff
      BY <1>9, <1>14, <2>1
    <3> QED BY <1>2, <1>19, <3>1, UcLimitsSame
  <2>2. CASE ~same
    <3>1. ASSUME NEW t \in UcTask, t \notin walk.tasks PROVE UcLimitOne(uc_task[t], uc_tg')
      <4>1. UcLimitOne(uc_task[t], uc_tg) /\ UcActiveOne(uc_task[t], uc_used)
        BY <1>2 DEF UcInv, UcLimits, UcActive
      <4>2. uc_task[t].tg \in Level
        BY <1>4 DEF UcTaskRec
      <4>3. CASE uc_task[t].css = g /\ uc_task[t].tg = g
        <5>1. uc_task[t].cpu = 0
          BY <1>16, <3>1, <4>1, <4>3 DEF UcActiveOne
        <5>2. \A id \in ClampId : ~uc_task[t].se[id].active
          BY <4>1, <5>1 DEF UcActiveOne, ClampId
        <5> QED BY <5>2 DEF UcLimitOne
      <4>4. CASE ~(uc_task[t].css = g /\ uc_task[t].tg = g)
        <5>1. CASE uc_task[t].css # uc_task[t].tg
          BY <5>1 DEF UcLimitOne
        <5>2. CASE uc_task[t].css = uc_task[t].tg
          <6>1. uc_tg'[uc_task[t].tg] = uc_tg[uc_task[t].tg]
            BY <1>14, <4>2, <4>4, <5>2
          <6> QED BY <4>1, <6>1 DEF UcLimitOne
        <5> QED BY <5>1, <5>2
      <4> QED BY <4>3, <4>4
    <3> QED BY <1>17, <1>19, <2>2, <3>1 DEF UcLimits
  <2> QED BY <2>1, <2>2
<1>21. uc_default' \in [ClampId \cup {"min_rt"} -> Value] /\ uc_used' \in BOOLEAN /\ (uc_used => uc_used')
  BY <1>19 DEF UcInv, UcTypes
<1> QED BY <1>14, <1>18, <1>19, <1>20, <1>21, UcSetting

LEMMA UcUpdateActive == ASSUME UcInv, uclamp_update_active PROVE UcInv'
<1>0. "MIN" \in ClampId /\ "MAX" \in ClampId
  BY DEF ClampId
<1>1. PICK t \in uc_walk.tasks :
         /\ IF uc_task[t].cpu = 0 THEN UNCHANGED <<uc_task, uc_rq>>
            ELSE LET c == uc_task[t].cpu
                     st == uclamp_rq_reinc_id(uclamp_rq_reinc_id(On(t, c), uc_task[t], "MIN"),
                                              uc_task[t], "MAX")
                 IN  /\ uc_rq' = [uc_rq EXCEPT ![c] = st.rq]
                     /\ uc_task' = [uc_task EXCEPT ![t] = Placed(uc_task[t], c, st.se)]
         /\ uc_walk' = [uc_walk EXCEPT !.tasks = uc_walk.tasks \ {t}]
         /\ uc_used' = uc_used /\ uc_default' = uc_default /\ uc_tg' = uc_tg
  BY DEF uclamp_update_active, UcInv, UcTypes
<1>2. t \in UcTask /\ uc_walk \in [groups : SUBSET Level, tasks : SUBSET UcTask, rt : SUBSET UcTask]
  BY <1>1 DEF UcInv, UcTypes
<1>3. uc_task[t] \in UcTaskRec /\ uc_used \in BOOLEAN /\ UcTypes /\ UcActive
  BY <1>2 DEF UcInv, UcTypes
<1>4. /\ uc_walk' \in [groups : SUBSET Level, tasks : SUBSET UcTask, rt : SUBSET UcTask]
      /\ uc_walk.tasks \ {t} \subseteq uc_walk'.tasks
  BY <1>1, <1>2
<1>5. CASE uc_task[t].cpu = 0
  <2>1. uc_task' = [uc_task EXCEPT ![t] = uc_task[t]] /\ uc_rq' = uc_rq
    BY <1>1, <1>3, <1>5 DEF UcTypes
  <2>2. \A id \in ClampId : ~uc_task[t].se[id].active
    BY <1>2, <1>3, <1>5, UcIdle
  <2>3. UcActiveOne(uc_task[t], uc_used') /\ UcLimitOne(uc_task[t], uc_tg)
    BY <1>5, <2>2 DEF UcActiveOne, UcLimitOne, ClampId
  <2>4. /\ uc_task[t].cpu = uc_task[t].cpu /\ (uc_task[t].cpu = 0 \/ uc_task[t].se = uc_task[t].se)
        /\ (uc_used => uc_used') /\ uc_used' \in BOOLEAN /\ uc_default' = uc_default /\ uc_tg' = uc_tg
    BY <1>1, <1>3
  <2> QED BY <1>2, <1>3, <1>4, <2>1, <2>3, <2>4, UcAside
<1>6. CASE uc_task[t].cpu # 0
  <2>1. PICK c \in UcCpu : c = uc_task[t].cpu
    BY <1>3, <1>6 DEF UcTaskRec
  <2>2. PICK st : st = On(t, c)
    OBVIOUS
  <2>3. PICK p \in UcTaskRec : p = uc_task[t]
    BY <1>3
  <2>4. PICK r : r = uclamp_rq_reinc_id(uclamp_rq_reinc_id(st, p, "MIN"), p, "MAX")
    OBVIOUS
  <2>5. uc_task' = [uc_task EXCEPT ![t] = Placed(p, c, r.se)] /\ uc_rq' = [uc_rq EXCEPT ![c] = r.rq]
    BY <1>1, <1>6, <2>1, <2>2, <2>3, <2>4
  <2>6. PICK A \in SUBSET UcTask : A = UcSeats(uc_task, c)
    BY DEF UcSeats
  <2>7. PICK v \in UcValues : v = UcVals(uc_task)
    BY <1>2, <2>2, UcOn
  <2>8. /\ st \in UcSt /\ UcFit(st.rq, A, v)
        /\ \A id \in ClampId : v[id][t] = st.se[id].value
        /\ \A id \in ClampId : st.se[id].active <=> t \in A
    BY <1>2, <2>1, <2>2, <2>6, <2>7, UcOn
  <2>9. t \in A => uc_used /\ uclamp_enabled(p.class)
    BY <1>2, <2>3, <2>6 DEF UcInv, UcActive, UcActiveOne, UcSeats
  <2>10. CASE t \in A
    <3>1. PICK eff : eff = [id \in ClampId |-> uclamp_eff_get(p, id)]
      OBVIOUS
    <3>2. ASSUME NEW id \in ClampId
          PROVE  /\ eff[id] = uclamp_eff_get(p, id) /\ uclamp_eff_get(p, id) \in Value
                 /\ p.tg # 1 => eff[id] <= uc_tg[p.tg].eff["MAX"]
      BY <1>3, <3>1, UcEff
    <3>3. UcEffOf(eff, p) /\ eff \in [ClampId -> Value]
      BY <3>1, <3>2 DEF UcEffOf
    <3>4. \A id \in ClampId : st.se[id].active
      BY <2>8, <2>10
    <3>5. UcEntered(r, A, v, t, eff)
      BY <2>4, <2>8, <2>10, <3>3, <3>4, UcRefits
    <3>6. /\ r \in UcSt /\ UcFit(r.rq, A, UcWith(v, t, eff))
          /\ \A id \in ClampId : r.se[id].active /\ r.se[id].value = eff[id]
      BY <3>5 DEF UcEntered
    <3>7. PICK w \in UcValues : w = UcWith(v, t, eff)
      BY <1>2, <3>3, UcWithType
    <3>8. /\ \A id \in ClampId : w[id][t] = eff[id]
          /\ \A id \in ClampId : \A u \in UcTask : u # t => w[id][u] = v[id][u]
      BY <1>2, <3>3, <3>7, UcWithType
    <3>9. /\ UcFit(r.rq, A, w) /\ A \ {t} = (A \ {t}) \ {t} /\ (t \in A <=> r.se["MIN"].active)
          /\ \A id \in ClampId : \A u \in A \ {t} : w[id][u] = v[id][u]
          /\ t \in A => \A id \in ClampId : w[id][t] = r.se[id].value
      BY <1>0, <2>10, <3>6, <3>7, <3>8
    <3>10. p.tg # 1 => \A id \in ClampId : r.se[id].active => r.se[id].value <= uc_tg[p.tg].eff["MAX"]
      BY <3>2, <3>6
    <3>11. (r.se["MIN"].active <=> r.se["MAX"].active) /\ r \in UcSt
      BY <1>0, <3>6
    <3>12. UcJoined(r, A \ {t}, v, t, p, uc_used)
      BY <2>9, <2>10, <3>9, <3>10, <3>11 DEF UcJoined
    <3>13. UcJoined(r, UcSeats(uc_task, c) \ {t}, UcVals(uc_task), t, p, uc_used)
      BY <2>6, <2>7, <3>12
    <3>14. /\ uc_task[t].cpu \in {0, c} /\ p.alive /\ (uc_used => uc_used) /\ uc_used \in BOOLEAN /\ uc_used' = uc_used
           /\ uc_default' = uc_default /\ uc_tg' = uc_tg
      BY <1>1, <1>2, <1>3, <1>6, <2>1, <2>3 DEF UcActive, UcActiveOne
    <3> QED BY <1>2, <1>4, <2>5, <3>13, <3>14, UcSettles
  <2>11. CASE t \notin A
    <3>1. \A id \in ClampId : ~st.se[id].active
      BY <2>8, <2>11
    <3>2. r = st
      BY <1>0, <2>4, <3>1 DEF uclamp_rq_reinc_id
    <3>3. st.rq = uc_rq[c] /\ st.se = uc_task[t].se
      BY <2>2 DEF On
    <3>4. uc_rq' = uc_rq
      BY <1>3, <2>5, <3>2, <3>3 DEF UcTypes
    <3>5. PICK q : q = Placed(p, c, st.se)
      OBVIOUS
    <3>6. st.se \in UcSe
      BY <2>8 DEF UcSt
    <3>7. /\ q \in UcTaskRec /\ q.alive = p.alive /\ q.cpu = c /\ q.se = st.se
      BY <3>5, <3>6 DEF Placed, UcTaskRec
    <3>8. uc_task' = [uc_task EXCEPT ![t] = q]
      BY <2>5, <3>2, <3>5
    <3>9. p.alive
      BY <1>2, <1>3, <1>6, <2>3 DEF UcActive, UcActiveOne
    <3>10. UcActiveOne(q, uc_used') /\ UcLimitOne(q, uc_tg)
      BY <3>1, <3>7, <3>9 DEF UcActiveOne, UcLimitOne, ClampId
    <3>11. /\ q.cpu = uc_task[t].cpu /\ (q.cpu = 0 \/ q.se = uc_task[t].se)
           /\ (uc_used => uc_used') /\ uc_used' \in BOOLEAN /\ uc_default' = uc_default /\ uc_tg' = uc_tg
      BY <1>1, <1>3, <2>1, <3>3, <3>7
    <3> QED BY <1>2, <1>4, <3>4, <3>7, <3>8, <3>10, <3>11, UcAside
  <2> QED BY <2>10, <2>11
<1> QED BY <1>5, <1>6

(* The seat, class and group of a task stay, and with them what holds of it. *)
LEMMA UcSyncMinRt == ASSUME UcInv, uclamp_sync_util_min_rt_default PROVE UcInv'
<1>1. PICK t \in uc_walk.rt :
         /\ uc_task' = [uc_task EXCEPT ![t] = update_util_min_rt_default(uc_task[t], uc_default["min_rt"])]
         /\ uc_walk' = [uc_walk EXCEPT !.rt = uc_walk.rt \ {t}]
         /\ UNCHANGED <<uc_used, uc_default, uc_tg, uc_rq, uc_requests>>
  BY DEF uclamp_sync_util_min_rt_default, UcInv, UcTypes
<1>2. t \in UcTask /\ uc_walk \in [groups : SUBSET Level, tasks : SUBSET UcTask, rt : SUBSET UcTask]
  BY <1>1 DEF UcInv, UcTypes
<1>3. uc_task[t] \in UcTaskRec /\ uc_used \in BOOLEAN /\ UcTypes /\ UcActive
  BY <1>2 DEF UcInv, UcTypes
<1>4. /\ uc_walk' \in [groups : SUBSET Level, tasks : SUBSET UcTask, rt : SUBSET UcTask]
      /\ uc_walk'.tasks = uc_walk.tasks
  BY <1>1, <1>2
<1>5. PICK q : q = update_util_min_rt_default(uc_task[t], uc_default["min_rt"])
  OBVIOUS
<1>6. /\ q \in UcTaskRec /\ q.alive = uc_task[t].alive /\ q.cpu = uc_task[t].cpu /\ q.class = uc_task[t].class
      /\ q.css = uc_task[t].css /\ q.tg = uc_task[t].tg /\ q.se = uc_task[t].se
  BY <1>3, <1>5, UcMinRt
<1>7. UcActiveOne(q, uc_used')
  BY <1>1, <1>2, <1>3, <1>6 DEF UcActive, UcActiveOne
<1>8. uc_task' = [uc_task EXCEPT ![t] = q]
  BY <1>1, <1>5
<1>9. UcActive'
  BY <1>1, <1>2, <1>3, <1>7, <1>8, UcActiveKept
<1>10. UcFits'
  BY <1>1, <1>2, <1>3, <1>6, <1>8, UcFitsStill DEF UcInv
<1>11. UcTypes'
  BY <1>1, <1>2, <1>3, <1>4, <1>6, <1>8 DEF UcTypes
<1>12. UcLimits'
  <2>1. ASSUME NEW u \in UcTask, u \notin uc_walk'.tasks PROVE UcLimitOne(uc_task'[u], uc_tg')
    <3>1. UcLimitOne(uc_task[u], uc_tg)
      BY <1>4, <2>1 DEF UcInv, UcLimits
    <3>2. /\ uc_task'[u].css = uc_task[u].css /\ uc_task'[u].tg = uc_task[u].tg /\ uc_task'[u].se = uc_task[u].se
          /\ uc_tg' = uc_tg
      BY <1>1, <1>3, <1>6, <1>8 DEF UcTypes
    <3> QED BY <3>1, <3>2 DEF UcLimitOne
  <2> QED BY <2>1 DEF UcLimits
<1> QED BY <1>9, <1>10, <1>11, <1>12 DEF UcInv

LEMMA UcMigrate == ASSUME UcInv, cgroup_migrate PROVE UcInv'
<1>1. PICK t \in UcTask, g \in Level :
         /\ uc_task[t].css = uc_task[t].tg /\ g # uc_task[t].css
         /\ uc_task' = [uc_task EXCEPT ![t].css = g]
         /\ UNCHANGED <<uc_used, uc_default, uc_tg, uc_rq, uc_walk, uc_requests>>
  BY DEF cgroup_migrate
<1>2. uc_task[t] \in UcTaskRec /\ uc_used \in BOOLEAN /\ UcTypes /\ UcActive
  BY DEF UcInv, UcTypes
<1>3. PICK q : q = [uc_task[t] EXCEPT !.css = g]
  OBVIOUS
<1>4. /\ q \in UcTaskRec /\ q.alive = uc_task[t].alive /\ q.cpu = uc_task[t].cpu /\ q.class = uc_task[t].class
      /\ q.css = g /\ q.tg = uc_task[t].tg /\ q.se = uc_task[t].se
  BY <1>2, <1>3 DEF UcTaskRec
<1>5. uc_task' = [uc_task EXCEPT ![t] = q]
  BY <1>1, <1>2, <1>3 DEF UcTypes
<1>6. UcActiveOne(q, uc_used')
  BY <1>1, <1>2, <1>4 DEF UcActive, UcActiveOne
<1>7. UcLimitOne(q, uc_tg)
  BY <1>1, <1>4 DEF UcLimitOne
<1>8. /\ uc_walk' \in [groups : SUBSET Level, tasks : SUBSET UcTask, rt : SUBSET UcTask]
      /\ uc_walk.tasks \ {t} \subseteq uc_walk'.tasks
  BY <1>1, <1>2 DEF UcTypes
<1>9. /\ q.cpu = uc_task[t].cpu /\ (q.cpu = 0 \/ q.se = uc_task[t].se) /\ uc_rq' = uc_rq
      /\ (uc_used => uc_used') /\ uc_used' \in BOOLEAN /\ uc_default' = uc_default /\ uc_tg' = uc_tg
  BY <1>1, <1>2, <1>4
<1> QED BY <1>4, <1>5, <1>6, <1>7, <1>8, <1>9, UcAside

LEMMA UcStutter == ASSUME UcInv, UNCHANGED uclamp_vars PROVE UcInv'
<1>1. /\ uc_used' = uc_used /\ uc_default' = uc_default /\ uc_tg' = uc_tg /\ uc_task' = uc_task
      /\ uc_rq' = uc_rq /\ uc_walk' = uc_walk
  BY DEF uclamp_vars
<1>2. UcTypes' /\ UcActive' /\ UcFits' /\ UcLimits'
  BY <1>1 DEF UcInv, UcTypes, UcActive, UcFits, UcLimits
<1> QED BY <1>2 DEF UcInv

LEMMA UcStep == ASSUME UcInv, [UclampNext]_uclamp_vars PROVE UcInv'
BY UcEnqueue, UcDequeue, UcFork, UcSetattr, UcWrite, UcSysctl, UcUpdateEff, UcUpdateActive, UcSyncMinRt,
   UcMigrate, UcMove, UcStutter DEF UclampNext

LEMMA UcBegin == ASSUME UclampInit PROVE UcInv
<1>1. PICK z : z = [id \in ClampId |-> [value |-> 0, active |-> FALSE]]
  OBVIOUS
<1>2. 0 \in Value /\ SCALE \in Value /\ 1 \in Level
  BY UclampAssumption DEF Value, Level
<1>3. z \in UcSe /\ \A id \in ClampId : z[id] = [value |-> 0, active |-> FALSE]
  BY <1>1, <1>2 DEF UcSe
<1>4. \A id \in ClampId : ~z[id].active
  <2>1. ASSUME NEW e PROVE ~[value |-> e, active |-> FALSE].active
    OBVIOUS
  <2> QED BY <1>3, <2>1
<1>5. PICK q : q = [id \in ClampId |-> [value |-> uclamp_none(id), user |-> FALSE]]
  OBVIOUS
<1>6. q \in [ClampId -> [value : Value, user : BOOLEAN]]
  BY <1>5, UcNone
<1>7. ASSUME NEW t \in UcTask
      PROVE  uc_task[t] \in UcTaskRec /\ uc_task[t].cpu = 0 /\ uc_task[t].se = z
  <2>1. PICK i : i = InitTask
    OBVIOUS
  <2>2. i = [alive |-> FALSE, cpu |-> 0, class |-> "fair", css |-> 1, tg |-> 1, req |-> q, se |-> z]
    BY <1>1, <1>5, <2>1 DEF InitTask
  <2>3. i \in UcTaskRec /\ i.cpu = 0 /\ i.se = z
    BY <1>2, <1>3, <1>6, <2>2 DEF UcTaskRec
  <2>4. PICK a \in BOOLEAN : a = (t = CHOOSE p \in UcTask : TRUE)
    OBVIOUS
  <2>5. uc_task[t] = [i EXCEPT !.alive = a]
    BY <2>1, <2>4 DEF UclampInit
  <2> QED BY <2>3, <2>5 DEF UcTaskRec
<1>8. uc_task \in [UcTask -> UcTaskRec]
  BY <1>7 DEF UclampInit
<1>9. ASSUME NEW c \in UcCpu
      PROVE  /\ uc_rq[c] \in UcRqRec /\ uc_rq[c].idle
             /\ \A id \in ClampId : \A b \in UcBuckets : uc_rq[c].bucket[id][b].tasks = 0
  <2>1. PICK i : i = InitRq
    OBVIOUS
  <2>2. PICK e : e = [tasks |-> 0, value |-> 0]
    OBVIOUS
  <2>3. e \in UcBucketRec /\ e.tasks = 0
    BY <1>2, <2>2 DEF UcBucketRec
  <2>4. PICK k : k = [id \in ClampId |-> [b \in UcBuckets |-> e]]
    OBVIOUS
  <2>5. k \in [ClampId -> [UcBuckets -> UcBucketRec]] /\ \A id \in ClampId : \A b \in UcBuckets : k[id][b] = e
    BY <2>3, <2>4
  <2>6. PICK n : n = [id \in ClampId |-> uclamp_none(id)]
    OBVIOUS
  <2>7. n \in [ClampId -> Value]
    BY <2>6, UcNone
  <2>8. i = [value |-> n, idle |-> TRUE, bucket |-> k]
    BY <2>1, <2>2, <2>4, <2>6 DEF InitRq, UcBuckets
  <2>9. i \in UcRqRec /\ i.bucket = k
    BY <2>5, <2>7, <2>8 DEF UcRqRec
  <2>10. i.idle
    BY <2>8
  <2>11. uc_rq[c] = i
    BY <2>1 DEF UclampInit
  <2> QED BY <2>3, <2>5, <2>9, <2>10, <2>11
<1>10. UcTypes
  <2>1. uc_rq \in [UcCpu -> UcRqRec]
    BY <1>9 DEF UclampInit
  <2>2. uc_walk \in [groups : SUBSET Level, tasks : SUBSET UcTask, rt : SUBSET UcTask]
    BY DEF UclampInit, NoWalk
  <2>3. ASSUME NEW g \in Level
        PROVE  uc_tg[g] \in [req : [ClampId -> Value], eff : [ClampId -> Value]]
    <3>1. PICK e : e = [id \in ClampId |-> IF g = 1 THEN SCALE ELSE uclamp_none(id)]
      OBVIOUS
    <3>2. e \in [ClampId -> Value]
      BY <1>2, <3>1, UcNone
    <3>3. uc_tg[g] = [req |-> e, eff |-> e]
      BY <3>1 DEF UclampInit
    <3> QED BY <3>2, <3>3
  <2>4. uc_tg \in [Level -> [req : [ClampId -> Value], eff : [ClampId -> Value]]]
    BY <2>3 DEF UclampInit
  <2>5. uc_used \in BOOLEAN /\ uc_default \in [ClampId \cup {"min_rt"} -> Value]
    BY <1>2 DEF UclampInit
  <2> QED BY <1>8, <2>1, <2>2, <2>4, <2>5 DEF UcTypes
<1>11. UcActive
  BY <1>4, <1>7 DEF UcActive, UcActiveOne, ClampId
<1>12. UcLimits
  BY <1>4, <1>7 DEF UcLimits, UcLimitOne
<1>13. UcFits
  <2>1. ASSUME NEW c \in UcCpu PROVE UcFit(uc_rq[c], UcSeats(uc_task, c), UcVals(uc_task))
    <3>1. UcSeats(uc_task, c) = {}
      BY <1>7, UclampAssumption DEF UcSeats
    <3>2. \A v, b : UcInside({}, v, b) = {}
      BY DEF UcInside
    <3>3. \A v, b : ~UcTop({}, v, b)
      BY <3>2 DEF UcTop
    <3>4. ASSUME NEW id \in ClampId PROVE UcHolds(uc_rq[c].bucket[id], uc_rq[c].value[id], {}, UcVals(uc_task)[id])
      BY <1>9, <3>2, <3>3, FS_EmptySet DEF UcHolds
    <3> QED BY <1>9, <3>1, <3>4 DEF UcFit
  <2> QED BY <2>1 DEF UcFits
<1> QED BY <1>10, <1>11, <1>12, <1>13 DEF UcInv

LEMMA UcSound == ASSUME UcInv PROVE UclampTypeOK /\ UclampSound
<1>0. "MIN" \in ClampId /\ "MAX" \in ClampId /\ \A id \in ClampId : id = "MIN" \/ id = "MAX"
  BY DEF ClampId
<1>1. UclampTypeOK
  BY DEF UcInv, UcTypes, UclampTypeOK, UcTaskRec, UcSe
<1>2. \A t \in UcTask : \A id \in ClampId : uc_task[t].se[id].active <=> uc_task[t].se["MIN"].active
  BY <1>0 DEF UcInv, UcActive, UcActiveOne
<1>3. \A t \in UcTask, id \in ClampId : uc_task[t].se[id].active => uc_task[t].cpu # 0
  BY <1>2 DEF UcInv, UcActive, UcActiveOne
<1>4. ASSUME NEW c \in UcCpu, NEW id \in ClampId
      PROVE  LET bucket == uc_rq[c].bucket[id]
                 used == {b \in 0 .. BUCKETS - 1 : Counted(c, id, b) # {}} IN
             /\ \A b \in 0 .. BUCKETS - 1 :
                   /\ bucket[b].tasks = Cardinality(Counted(c, id, b))
                   /\ \A t \in Counted(c, id, b) : uc_task[t].se[id].value <= bucket[b].value
             /\ IF used = {} THEN uc_rq[c].idle
                ELSE ~uc_rq[c].idle /\ uc_rq[c].value[id] = bucket[Max(used)].value
  <2>1. PICK A \in SUBSET UcTask : A = UcSeats(uc_task, c)
    BY DEF UcSeats
  <2>2. PICK v \in [UcTask -> Value] : v = UcVals(uc_task)[id]
    <3>1. UcVals(uc_task) \in UcValues
      BY UcValsType DEF UcInv, UcTypes
    <3> QED BY <3>1 DEF UcValues
  <2>3. \A t \in UcTask : v[t] = uc_task[t].se[id].value
    BY <2>2, UcValsType DEF UcInv, UcTypes
  <2>4. (uc_rq[c].idle <=> A = {}) /\ UcHolds(uc_rq[c].bucket[id], uc_rq[c].value[id], A, v)
    BY <2>1, <2>2 DEF UcInv, UcFits, UcFit
  <2>5. ASSUME NEW b PROVE Counted(c, id, b) = UcInside(A, v, b)
    BY <1>2, <2>1, <2>3 DEF Counted, UcInside, UcSeats
  <2>6. PICK used \in SUBSET UcBuckets : used = {b \in UcBuckets : UcInside(A, v, b) # {}}
    OBVIOUS
  <2>7. \A b \in UcBuckets :
           /\ uc_rq[c].bucket[id][b].tasks = Cardinality(UcInside(A, v, b))
           /\ \A t \in UcInside(A, v, b) : uc_task[t].se[id].value <= uc_rq[c].bucket[id][b].value
    <3>1. \A b \in UcBuckets : \A t \in UcInside(A, v, b) : v[t] = uc_task[t].se[id].value
      BY <2>3 DEF UcInside
    <3> QED BY <2>4, <3>1 DEF UcHolds
  <2>8. IF used = {} THEN uc_rq[c].idle
        ELSE ~uc_rq[c].idle /\ uc_rq[c].value[id] = uc_rq[c].bucket[id][Max(used)].value
    <3>1. CASE used = {}
      <4>1. A = {}
        <5>1. SUFFICES ASSUME A # {} PROVE FALSE
          OBVIOUS
        <5>2. PICK b \in UcBuckets : UcTop(A, v, b)
          BY <5>1, UcHasTop
        <5> QED BY <2>6, <3>1, <5>2 DEF UcTop
      <4> QED BY <2>4, <3>1, <4>1
    <3>2. CASE used # {}
      <4>1. Max(used) \in used /\ \A y \in used : y <= Max(used)
        BY <3>2, UcTopmost
      <4>2. UcTop(A, v, Max(used)) /\ Max(used) \in UcBuckets
        BY <2>6, <4>1 DEF UcTop
      <4>3. A # {}
        BY <4>2 DEF UcTop, UcInside
      <4>4. uc_rq[c].value[id] = uc_rq[c].bucket[id][Max(used)].value
        BY <2>4, <4>2 DEF UcHolds
      <4> QED BY <2>4, <3>2, <4>3, <4>4
    <3> QED BY <3>1, <3>2
  <2>9. used = {b \in 0 .. BUCKETS - 1 : Counted(c, id, b) # {}}
    BY <2>5, <2>6 DEF UcBuckets
  <2>10. \A b \in 0 .. BUCKETS - 1 :
            /\ uc_rq[c].bucket[id][b].tasks = Cardinality(Counted(c, id, b))
            /\ \A t \in Counted(c, id, b) : uc_task[t].se[id].value <= uc_rq[c].bucket[id][b].value
    BY <2>5, <2>7 DEF UcBuckets
  <2> QED BY <2>8, <2>9, <2>10
<1>5. ASSUME uc_walk = NoWalk, NEW t \in UcTask, NEW id \in ClampId,
             uc_task[t].se[id].active /\ uc_task[t].css = uc_task[t].tg /\ uc_task[t].tg # 1
      PROVE  uc_task[t].se[id].value <= uc_tg[uc_task[t].tg].eff["MAX"]
  <2>1. t \notin uc_walk.tasks
    BY <1>5 DEF NoWalk
  <2> QED BY <1>5, <2>1 DEF UcInv, UcLimits, UcLimitOne
<1>6. UclampSound
  BY <1>3, <1>4, <1>5 DEF UclampSound
<1> QED BY <1>1, <1>6

LEMMA UcTurn ==
    ASSUME [KernelNext]_kernel_vars, part' = "uclamp"
    PROVE  part = "uclamp" /\ [UclampNext]_uclamp_vars
BY DEF KernelNext, kernel_vars, Turn

(* uclamp_rq_inc_id and uclamp_rq_dec_id, for every set of tasks and CPUs,  *)
(* every number of buckets and every depth of groups: a bucket of a run     *)
(* queue counts exactly the tasks that were put in it and is no lower than  *)
(* any of them, the clamp of the run queue is that of its topmost bucket,   *)
(* and once no change is on its way down the groups no counted task exceeds *)
(* the limit of its group, whatever requests, class changes, moves, forks   *)
(* and late enabling of the mechanism came in between.                      *)
THEOREM ClampsCounted == KernelSpec => []Clamps
<1> DEFINE I == part = "uclamp" => UcInv
<1>1. KernelInit => I
  BY UcBegin DEF KernelInit
<1>2. I /\ [KernelNext]_kernel_vars => I'
  BY UcTurn, UcStep
<1>3. I => Clamps
  BY UcSound DEF Clamps, While
<1> QED BY <1>1, <1>2, <1>3, PTL DEF KernelSpec

==============================================================================
