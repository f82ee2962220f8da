-------------------------- MODULE ComponentsProofs --------------------------
(***************************************************************************)
(* What MCComponents checks of the parts of the kernel, for every set of   *)
(* callers, keys, instances, devices, notifiers and tasks: the priority    *)
(* identifier, the ids of NAPI instances, the registry of network devices  *)
(* and the scheduling policies with priority inheritance.                  *)
(***************************************************************************)
EXTENDS MCComponents, FiniteSetTheorems, FunctionTheorems, SequenceTheorems,
        WellFoundedInduction, TLAPS

(* A set of naturals that is not empty has a least element. *)
LEMMA LeastElement ==
    ASSUME NEW S, S \subseteq Nat, S # {}
    PROVE  \E i \in S : \A j \in S : i <= j
<1>1. PICK x \in S : \A y \in S : ~ (<<y, x>> \in OpToRel(<, Nat))
  BY NatLessThanWellFounded, WFMin
<1>2. ASSUME NEW y \in S PROVE x <= y
  <2>1. x \in Nat /\ y \in Nat
    BY <1>1
  <2>2. ~ (y < x)
    BY <1>1, <2>1 DEF OpToRel
  <2> QED BY <2>1, <2>2
<1> QED BY <1>2

------------------------------------------------------------------------------
(* The tables of the priority identifier *)

(* find() answers the place of the first entry of the key, or 0. *)
LEMMA FindFirst ==
    ASSUME NEW s \in Seq(Entries), NEW k
    PROVE  \/ find(s, k) = 0 /\ \A j \in 1 .. Len(s) : s[j].key # k
           \/ /\ find(s, k) \in 1 .. Len(s) /\ s[find(s, k)].key = k
              /\ \A j \in 1 .. Len(s) : s[j].key = k => find(s, k) <= j
<1> DEFINE at == {i \in 1 .. Len(s) : s[i].key = k}
           first == CHOOSE i \in at : \A j \in at : i <= j
<1>1. CASE at = {}
  BY <1>1 DEF find
<1>2. CASE at # {}
  <2>1. at \subseteq Nat
    OBVIOUS
  <2>2. \E i \in at : \A j \in at : i <= j
    BY <1>2, <2>1, LeastElement
  <2>3. first \in at /\ \A j \in at : first <= j
    BY <2>2
  <2>4. find(s, k) = first
    BY <1>2 DEF find
  <2> HIDE DEF first
  <2> QED BY <2>3, <2>4
<1> QED BY <1>1, <1>2

(* ... and there is only one such place. *)
LEMMA FindUnique ==
    ASSUME NEW s \in Seq(Entries), NEW k, NEW i \in 1 .. Len(s), s[i].key = k,
           \A j \in 1 .. Len(s) : s[j].key = k => i <= j
    PROVE  find(s, k) = i
<1>1. find(s, k) \in 1 .. Len(s) /\ s[find(s, k)].key = k /\ find(s, k) <= i
  BY FindFirst
<1> QED BY <1>1

LEMMA FindNone ==
    ASSUME NEW s \in Seq(Entries), NEW k, \A j \in 1 .. Len(s) : s[j].key # k
    PROVE  find(s, k) = 0
BY FindFirst

(* A list with an entry in front. *)
LEMMA Pushed ==
    ASSUME NEW s \in Seq(Entries), NEW e \in Entries
    PROVE  /\ <<e>> \o s \in Seq(Entries)
           /\ Len(<<e>> \o s) = Len(s) + 1
           /\ (<<e>> \o s)[1] = e
           /\ \A j \in 1 .. Len(s) : (<<e>> \o s)[j + 1] = s[j]
           /\ \A j \in 2 .. Len(s) + 1 : (<<e>> \o s)[j] = s[j - 1]
<1>1. <<e>> \in Seq(Entries) /\ Len(<<e>>) = 1 /\ <<e>>[1] = e
  OBVIOUS
<1> HIDE DEF Entries
<1> QED BY <1>1

(* A list without its i-th entry. *)
Unlinked(s, i) == SubSeq(s, 1, i - 1) \o SubSeq(s, i + 1, Len(s))

LEMMA Removed ==
    ASSUME NEW s \in Seq(Entries), NEW i \in 1 .. Len(s)
    PROVE  /\ Unlinked(s, i) \in Seq(Entries)
           /\ Len(Unlinked(s, i)) = Len(s) - 1
           /\ \A j \in 1 .. i - 1 : Unlinked(s, i)[j] = s[j]
           /\ \A j \in i .. Len(s) - 1 : Unlinked(s, i)[j] = s[j + 1]
<1> DEFINE a == SubSeq(s, 1, i - 1)
           b == SubSeq(s, i + 1, Len(s))
<1>1. a \in Seq(Entries) /\ Len(a) = i - 1 /\ \A j \in 1 .. i - 1 : a[j] = s[j]
  OBVIOUS
<1>2. b \in Seq(Entries) /\ Len(b) = Len(s) - i /\ \A j \in 1 .. Len(s) - i : b[j] = s[j + i]
  OBVIOUS
<1>3. Unlinked(s, i) = a \o b
  BY DEF Unlinked
<1> HIDE DEF a, b
<1>4. ASSUME NEW j \in i .. Len(s) - 1 PROVE (a \o b)[j] = s[j + 1]
  <2>1. j - Len(a) \in 1 .. Len(s) - i /\ (a \o b)[j] = b[j - Len(a)]
    BY <1>1, <1>2
  <2> QED BY <1>1, <1>2, <2>1
<1> QED BY <1>1, <1>2, <1>3, <1>4

(* The types, of the calls in progress too. *)
CallRecords == [pc : {"idle", "head", "link", "mark", "unlink"}, key : Keys \cup {0},
                priority : Priorities \cup {0}, first : Seq(Entries)]

TableTypes ==
    /\ chain \in [Tables -> Seq(Entries)]
    /\ in_use \in SUBSET (0 .. MaxPriority - 1)
    /\ call \in [Callers -> CallRecords]
    /\ latest \in [Keys -> Priorities \cup {0}]
    /\ \A c \in Callers :
        /\ Idle(c) \/ call[c].key \in Keys
        /\ call[c].pc \in {"head", "link", "mark"} => call[c].priority \in Priorities
        /\ call[c].pc = "mark" => call[c].key \in Ports

LEMMA TableTypesInit == Init => TableTypes
<1> SUFFICES ASSUME Init PROVE TableTypes
  OBVIOUS
<1>1. NoCall \in CallRecords /\ NoCall.pc = "idle"
  BY DEF NoCall, CallRecords
<1>2. chain \in [Tables -> Seq(Entries)] /\ in_use \in SUBSET (0 .. MaxPriority - 1)
  BY DEF Init
<1>3. call \in [Callers -> CallRecords] /\ \A c \in Callers : call[c].pc = "idle"
  BY <1>1 DEF Init
<1>4. latest \in [Keys -> Priorities \cup {0}]
  BY DEF Init
<1> QED BY <1>2, <1>3, <1>4 DEF TableTypes, Idle

LEMMA TableOfKey == \A k : TableOf(k) \in Tables
BY DEF TableOf, Tables

LEMMA PriorityFound ==
    ASSUME TableTypes, NEW k \in Keys
    PROVE  get_priority(k) \in Priorities \cup {0}
<1> DEFINE s == chain[TableOf(k)]
<1>1. s \in Seq(Entries)
  BY TableOfKey DEF TableTypes
<1>2. CASE find(s, k) = 0
  BY <1>2 DEF get_priority
<1>3. CASE find(s, k) # 0
  <2>1. find(s, k) \in 1 .. Len(s)
    BY <1>1, <1>3, FindFirst
  <2>2. s[find(s, k)] \in Entries
    BY <1>1, <2>1
  <2> QED BY <1>3, <2>2 DEF get_priority, Entries
<1> QED BY <1>2, <1>3

(* A step of a caller c keeps the types: the record of its call is replaced *)
(* by r, which has them.                                                    *)
LEMMA CallStep ==
    ASSUME TableTypes, NEW c \in Callers, NEW r \in CallRecords,
           call' = [call EXCEPT ![c] = r],
           r.pc = "idle" \/ r.key \in Keys,
           r.pc \in {"head", "link", "mark"} => r.priority \in Priorities,
           r.pc = "mark" => r.key \in Ports,
           chain' \in [Tables -> Seq(Entries)], in_use' \in SUBSET (0 .. MaxPriority - 1),
           latest' \in [Keys -> Priorities \cup {0}]
    PROVE  TableTypes'
<1>1. call' \in [Callers -> CallRecords]
  BY DEF TableTypes
<1>2. \A d \in Callers : call'[d] = IF d = c THEN r ELSE call[d]
  BY DEF TableTypes
<1> QED BY <1>1, <1>2 DEF TableTypes, Idle

LEMMA ReturnStep ==
    ASSUME TableTypes, NEW c \in Callers, NEW k \in Keys, NEW p \in Priorities \cup {0},
           Return(c, k, p),
           chain' \in [Tables -> Seq(Entries)], in_use' \in SUBSET (0 .. MaxPriority - 1)
    PROVE  TableTypes'
<1>1. NoCall \in CallRecords /\ NoCall.pc = "idle"
  BY DEF NoCall, CallRecords
<1>2. latest' \in [Keys -> Priorities \cup {0}]
  BY DEF Return, TableTypes
<1>3. call' = [call EXCEPT ![c] = NoCall]
  BY DEF Return
<1> HIDE DEF NoCall
<1> QED BY <1>1, <1>2, <1>3, CallStep

LEMMA TableTypesStep == TableTypes /\ [Next]_vars => TableTypes'
<1> SUFFICES ASSUME TableTypes, [Next]_vars PROVE TableTypes'
  OBVIOUS
<1> USE TableOfKey
<1>1. CASE UNCHANGED vars
  BY <1>1 DEF TableTypes, vars, Idle
<1>2. ASSUME NEW c \in Callers, NEW k \in Keys, NEW p \in Priorities, register(c, k, p)
      PROVE  TableTypes'
  <2> DEFINE r == [pc |-> "head", key |-> k, priority |-> p, first |-> <<>>]
  <2>1. r \in CallRecords /\ r.pc = "head" /\ r.key = k /\ r.priority = p
    BY DEF CallRecords
  <2>2. call' = [call EXCEPT ![c] = r] /\ UNCHANGED <<chain, in_use, latest>>
    BY <1>2 DEF register
  <2> HIDE DEF r
  <2> QED BY <2>1, <2>2, CallStep DEF TableTypes
<1>3. ASSUME NEW c \in Callers, hash_add_head(c) PROVE TableTypes'
  <2> DEFINE r == [call[c] EXCEPT !.pc = "link", !.first = chain[TableOf(call[c].key)]]
  <2>1. call[c] \in CallRecords /\ call[c].pc = "head" /\ chain[TableOf(call[c].key)] \in Seq(Entries)
    BY <1>3 DEF hash_add_head, TableTypes
  <2>2. r \in CallRecords /\ r.pc = "link" /\ r.key = call[c].key /\ r.priority = call[c].priority
    BY <2>1 DEF CallRecords
  <2>3. call' = [call EXCEPT ![c] = r] /\ UNCHANGED <<chain, in_use, latest>>
    BY <1>3, <2>1 DEF hash_add_head, TableTypes
  <2> HIDE DEF r
  <2> QED BY <2>1, <2>2, <2>3, CallStep DEF TableTypes, Idle
<1>4. ASSUME NEW c \in Callers, hash_add_link(c) PROVE TableTypes'
  <2> DEFINE k == call[c].key
             r == [call[c] EXCEPT !.pc = "mark"]
             e == [key |-> k, priority |-> call[c].priority]
  <2>1. call[c] \in CallRecords /\ call[c].pc = "link" /\ k \in Keys /\ call[c].priority \in Priorities
    BY <1>4 DEF hash_add_link, TableTypes, Idle
  <2>2. e \in Entries /\ call[c].first \in Seq(Entries)
    BY <2>1 DEF Entries, CallRecords
  <2>3. <<e>> \o call[c].first \in Seq(Entries)
    BY <2>2, Pushed
  <2>4. chain' = [chain EXCEPT ![TableOf(k)] = <<e>> \o call[c].first] /\ UNCHANGED in_use
    BY <1>4 DEF hash_add_link
  <2>5. chain' \in [Tables -> Seq(Entries)] /\ in_use' \in SUBSET (0 .. MaxPriority - 1)
    BY <2>3, <2>4 DEF TableTypes
  <2>6. CASE k \in Ports
    <3>1. r \in CallRecords /\ r.pc = "mark" /\ r.key = k /\ r.priority = call[c].priority
      BY <2>1 DEF CallRecords
    <3>2. call' = [call EXCEPT ![c] = r] /\ UNCHANGED latest
      BY <1>4, <2>1, <2>6 DEF hash_add_link, TableTypes
    <3> HIDE DEF r, e
    <3> QED BY <2>1, <2>5, <2>6, <3>1, <3>2, CallStep DEF TableTypes
  <2>7. CASE k \notin Ports
    BY <1>4, <2>1, <2>5, <2>7, ReturnStep DEF hash_add_link
  <2> QED BY <2>6, <2>7
<1>5. ASSUME NEW c \in Callers, mark_in_use(c) PROVE TableTypes'
  <2>1. call[c].key \in Keys /\ call[c].priority \in Priorities
    BY <1>5 DEF mark_in_use, TableTypes, Idle
  <2>2. in_use' \in SUBSET (0 .. MaxPriority - 1)
    <3>1. CASE call[c].priority < MaxPriority
      <4>1. call[c].priority \in Nat
        BY <2>1, PriorityAssumption
      <4>2. call[c].priority \in 0 .. MaxPriority - 1
        BY <3>1, <4>1 DEF MaxPriority
      <4> QED BY <1>5, <3>1, <4>2 DEF mark_in_use, TableTypes
    <3>2. CASE ~ (call[c].priority < MaxPriority)
      BY <1>5, <3>2 DEF mark_in_use, TableTypes
    <3> QED BY <3>1, <3>2
  <2> QED BY <1>5, <2>1, <2>2, ReturnStep DEF mark_in_use, TableTypes
<1>6. ASSUME NEW c \in Callers, NEW k \in Keys, remove(c, k) PROVE TableTypes'
  <2> DEFINE r == [pc |-> "unlink", key |-> k, priority |-> get_priority(k), first |-> <<>>]
  <2>1. r \in CallRecords /\ r.pc = "unlink" /\ r.key = k
    BY PriorityFound DEF CallRecords
  <2>2. call' = [call EXCEPT ![c] = r] /\ UNCHANGED <<chain, in_use, latest>>
    BY <1>6 DEF remove
  <2> HIDE DEF r
  <2> QED BY <2>1, <2>2, CallStep DEF TableTypes
<1>7. ASSUME NEW c \in Callers, hash_del(c) PROVE TableTypes'
  <2> DEFINE k == call[c].key
             s == chain[TableOf(k)]
  <2>1. k \in Keys /\ s \in Seq(Entries) /\ Return(c, k, 0)
    BY <1>7 DEF hash_del, TableTypes, Idle
  <2>2. find(s, k) # 0 => Unlinked(s, find(s, k)) \in Seq(Entries)
    BY <2>1, FindFirst, Removed
  <2>3. chain' \in [Tables -> Seq(Entries)]
    BY <1>7, <2>2 DEF hash_del, TableTypes, Unlinked
  <2>4. in_use' \in SUBSET (0 .. MaxPriority - 1)
    BY <1>7 DEF hash_del, TableTypes
  <2> QED BY <2>1, <2>3, <2>4, ReturnStep
<1> QED BY <1>1, <1>2, <1>3, <1>4, <1>5, <1>6, <1>7 DEF Next

(* When the calls come one after the other there is one at a time, and the  *)
(* head of the chain it read is still the head when it links its entry.     *)
OneAtATime ==
    /\ \A c, d \in Callers : Idle(c) \/ Idle(d) \/ c = d
    /\ \A c \in Callers : call[c].pc = "link" => call[c].first = chain[TableOf(call[c].key)]

(* What changes of the calls: c's own, which starts only if there is none.  *)
LEMMA OneAtATimeStep ==
    ASSUME Serialised, TableTypes, OneAtATime, [Next]_vars
    PROVE  OneAtATime'
<1> USE TableOfKey
<1>1. CASE UNCHANGED vars
  BY <1>1 DEF OneAtATime, vars, Idle
<1>2. ASSUME NEW c \in Callers, NEW r, call' = [call EXCEPT ![c] = r],
             ~Idle(c) \/ (\A d \in Callers : Idle(d)),
             r.pc = "link" => r.first = chain'[TableOf(r.key)]
      PROVE  OneAtATime'
  <2>1. \A d \in Callers : call'[d] = IF d = c THEN r ELSE call[d]
    BY <1>2 DEF TableTypes
  <2>2. \A d \in Callers : d # c => call[d].pc = "idle"
    BY <1>2 DEF OneAtATime, Idle
  <2> QED BY <1>2, <2>1, <2>2 DEF OneAtATime, Idle
<1>3. ASSUME NEW c \in Callers, NEW k \in Keys, NEW p \in Priorities, register(c, k, p)
      PROVE  OneAtATime'
  <2> DEFINE r == [pc |-> "head", key |-> k, priority |-> p, first |-> <<>>]
  <2>1. r.pc = "head"
    OBVIOUS
  <2>2. call' = [call EXCEPT ![c] = r] /\ \A d \in Callers : Idle(d)
    BY <1>3 DEF register, MayStart, Quiescent
  <2> HIDE DEF r
  <2> QED BY <1>2, <2>1, <2>2
<1>4. ASSUME NEW c \in Callers, hash_add_head(c) PROVE OneAtATime'
  <2> DEFINE r == [call[c] EXCEPT !.pc = "link", !.first = chain[TableOf(call[c].key)]]
  <2>1. call[c] \in CallRecords /\ call[c].pc = "head"
    BY <1>4 DEF hash_add_head, TableTypes
  <2>2. r.pc = "link" /\ r.key = call[c].key /\ r.first = chain[TableOf(r.key)]
    BY <2>1 DEF CallRecords
  <2>3. call' = [call EXCEPT ![c] = r] /\ chain' = chain
    BY <1>4, <2>1 DEF hash_add_head, TableTypes
  <2> HIDE DEF r
  <2> QED BY <1>2, <2>1, <2>2, <2>3 DEF Idle
<1>5. ASSUME NEW c \in Callers, hash_add_link(c) PROVE OneAtATime'
  <2> DEFINE r == IF call[c].key \in Ports THEN [call[c] EXCEPT !.pc = "mark"] ELSE NoCall
  <2>1. call[c] \in CallRecords /\ call[c].pc = "link"
    BY <1>5 DEF hash_add_link, TableTypes
  <2>2. r.pc # "link"
    BY <2>1 DEF CallRecords, NoCall
  <2>3. call' = [call EXCEPT ![c] = r]
    BY <1>5, <2>1 DEF hash_add_link, TableTypes, Return
  <2> HIDE DEF r
  <2> QED BY <1>2, <2>1, <2>2, <2>3 DEF Idle
<1>6. ASSUME NEW c \in Callers, mark_in_use(c) PROVE OneAtATime'
  BY <1>2, <1>6 DEF mark_in_use, Return, NoCall, Idle
<1>7. ASSUME NEW c \in Callers, NEW k \in Keys, remove(c, k) PROVE OneAtATime'
  <2> DEFINE r == [pc |-> "unlink", key |-> k, priority |-> get_priority(k), first |-> <<>>]
  <2>1. r.pc = "unlink"
    OBVIOUS
  <2>2. call' = [call EXCEPT ![c] = r] /\ \A d \in Callers : Idle(d)
    BY <1>7 DEF remove, MayStart, Quiescent
  <2> HIDE DEF r
  <2> QED BY <1>2, <2>1, <2>2
<1>8. ASSUME NEW c \in Callers, hash_del(c) PROVE OneAtATime'
  BY <1>2, <1>8 DEF hash_del, Return, NoCall, Idle
<1> QED BY <1>1, <1>3, <1>4, <1>5, <1>6, <1>7, <1>8 DEF Next

(* What a lookup of another key finds in a chain that gets an entry in      *)
(* front or loses one.                                                      *)
Answer(s, k) == IF find(s, k) = 0 THEN 0 ELSE s[find(s, k)].priority

LEMMA AnswerPushed ==
    ASSUME NEW s \in Seq(Entries), NEW e \in Entries, NEW k
    PROVE  Answer(<<e>> \o s, k) = IF e.key = k THEN e.priority ELSE Answer(s, k)
<1> DEFINE t == <<e>> \o s
<1>1. /\ t \in Seq(Entries) /\ Len(t) = Len(s) + 1 /\ t[1] = e
      /\ \A j \in 1 .. Len(s) : t[j + 1] = s[j]
      /\ \A j \in 2 .. Len(s) + 1 : t[j] = s[j - 1]
  BY Pushed
<1> HIDE DEF t
<1>2. CASE e.key = k
  <2>1. find(t, k) = 1
    BY <1>1, <1>2, FindUnique
  <2> QED BY <1>1, <1>2, <2>1 DEF Answer, t
<1>3. CASE e.key # k /\ find(s, k) = 0
  <2>1. \A j \in 1 .. Len(s) : s[j].key # k
    BY <1>3, FindFirst
  <2>2. ASSUME NEW j \in 1 .. Len(t) PROVE t[j].key # k
    <3>1. CASE j = 1
      BY <1>1, <1>3, <3>1
    <3>2. CASE j # 1
      <4>1. j \in 2 .. Len(s) + 1 /\ j - 1 \in 1 .. Len(s)
        BY <1>1, <3>2
      <4> QED BY <1>1, <2>1, <4>1
    <3> QED BY <3>1, <3>2
  <2>3. find(t, k) = 0
    BY <1>1, <2>2, FindNone
  <2> QED BY <1>3, <2>3 DEF Answer, t
<1>4. CASE e.key # k /\ find(s, k) # 0
  <2> DEFINE f == find(s, k)
  <2>1. /\ f \in 1 .. Len(s) /\ s[f].key = k
        /\ \A j \in 1 .. Len(s) : s[j].key = k => f <= j
    BY <1>4, FindFirst
  <2> HIDE DEF f
  <2>2. ASSUME NEW j \in 1 .. Len(t), t[j].key = k PROVE f + 1 <= j
    <3>1. j # 1
      BY <1>1, <1>4, <2>2
    <3>2. j \in 2 .. Len(s) + 1 /\ j - 1 \in 1 .. Len(s)
      BY <1>1, <3>1
    <3>3. s[j - 1].key = k
      BY <1>1, <2>2, <3>2
    <3> QED BY <2>1, <3>2, <3>3
  <2>3. f + 1 \in 1 .. Len(t) /\ t[f + 1] = s[f]
    BY <1>1, <2>1
  <2>4. find(t, k) = f + 1
    <3>1. t[f + 1].key = k
      BY <2>1, <2>3
    <3>2. \A j \in 1 .. Len(t) : t[j].key = k => f + 1 <= j
      BY <2>2
    <3>3. find(t, k) \in 1 .. Len(t) /\ t[find(t, k)].key = k /\ find(t, k) <= f + 1
      BY <1>1, <2>3, <3>1, FindFirst
    <3> QED BY <2>3, <3>2, <3>3
  <2>5. f + 1 # 0
    BY <2>1
  <2> QED BY <1>4, <2>3, <2>4, <2>5 DEF Answer, t, f
<1> QED BY <1>2, <1>3, <1>4

LEMMA AnswerRemoved ==
    ASSUME NEW s \in Seq(Entries), NEW i \in 1 .. Len(s), NEW k, s[i].key # k
    PROVE  Answer(Unlinked(s, i), k) = Answer(s, k)
<1> DEFINE t == Unlinked(s, i)
<1>1. /\ t \in Seq(Entries) /\ Len(t) = Len(s) - 1
      /\ \A j \in 1 .. i - 1 : t[j] = s[j]
      /\ \A j \in i .. Len(s) - 1 : t[j] = s[j + 1]
  BY Removed
<1> HIDE DEF t
<1>2. CASE find(s, k) = 0
  <2>1. \A j \in 1 .. Len(s) : s[j].key # k
    BY <1>2, FindFirst
  <2>2. ASSUME NEW j \in 1 .. Len(t) PROVE t[j].key # k
    <3>1. CASE j < i
      BY <1>1, <2>1, <3>1
    <3>2. CASE ~ (j < i)
      <4>1. j \in i .. Len(s) - 1 /\ j + 1 \in 1 .. Len(s)
        BY <1>1, <3>2
      <4> QED BY <1>1, <2>1, <4>1
    <3> QED BY <3>1, <3>2
  <2>3. find(t, k) = 0
    BY <1>1, <2>2, FindNone
  <2> QED BY <1>2, <2>3 DEF Answer, t
<1>3. CASE find(s, k) # 0
  <2> DEFINE f == find(s, k)
             g == IF f < i THEN f ELSE f - 1
  <2>1. /\ f \in 1 .. Len(s) /\ s[f].key = k /\ f # i
        /\ \A j \in 1 .. Len(s) : s[j].key = k => f <= j
    BY <1>3, FindFirst
  <2> HIDE DEF f
  <2>2. g \in 1 .. Len(t) /\ t[g] = s[f] /\ g # 0
    BY <1>1, <2>1
  <2>3. ASSUME NEW j \in 1 .. Len(t), t[j].key = k PROVE g <= j
    <3>1. CASE j < i
      <4>1. j \in 1 .. Len(s) /\ s[j].key = k
        BY <1>1, <2>3, <3>1
      <4> QED BY <2>1, <4>1
    <3>2. CASE ~ (j < i)
      <4>1. j \in i .. Len(s) - 1 /\ j + 1 \in 1 .. Len(s)
        BY <1>1, <3>2
      <4>2. s[j + 1].key = k
        BY <1>1, <2>3, <4>1
      <4>3. f <= j + 1
        BY <2>1, <4>1, <4>2
      <4> QED BY <2>1, <3>2, <4>3
    <3> QED BY <3>1, <3>2
  <2> HIDE DEF g
  <2>4. find(t, k) = g
    <3>1. t[g].key = k
      BY <2>1, <2>2
    <3>2. \A j \in 1 .. Len(t) : t[j].key = k => g <= j
      BY <2>3
    <3>3. find(t, k) \in 1 .. Len(t) /\ t[find(t, k)].key = k /\ find(t, k) <= g
      BY <1>1, <2>2, <3>1, FindFirst
    <3> QED BY <2>2, <3>2, <3>3
  <2> QED BY <1>3, <2>2, <2>4 DEF Answer, t, f
<1> QED BY <1>2, <1>3

LEMMA PriorityAnswer == \A k : get_priority(k) = Answer(chain[TableOf(k)], k)
BY DEF get_priority, Answer

DistinctKeys(s) == \A i, j \in 1 .. Len(s) : s[i].key = s[j].key => i = j

(* No key has two entries; a lookup finds what the calls registered, or     *)
(* what a call in progress has just linked; a call that removes remembers   *)
(* what the lookup found; and what is in the table is marked, or about to   *)
(* be by the call in progress.                                              *)
TableContent ==
    /\ \A t \in Tables : DistinctKeys(chain[t])
    /\ \A k \in Keys : (\A c \in Callers : ~(call[c].pc = "mark" /\ call[c].key = k))
                         => Answer(chain[TableOf(k)], k) = latest[k]
    /\ \A c \in Callers :
        /\ call[c].pc = "mark" => Answer(chain[TableOf(call[c].key)], call[c].key) = call[c].priority
        /\ call[c].pc \in {"head", "link"} => latest[call[c].key] = 0
        /\ call[c].pc = "unlink" => call[c].priority = Answer(chain[TableOf(call[c].key)], call[c].key)
    /\ \A i \in 1 .. Len(chain["port"]) :
        LET p == chain["port"][i].priority IN
        p < MaxPriority => p \in in_use \/ \E c \in Callers : call[c].pc = "mark" /\ call[c].priority = p

(* Keys stay distinct when an entry of a new key is put in   *)
(* front, or when one is unlinked; then its key is gone.                    *)
LEMMA DistinctPushed ==
    ASSUME NEW s \in Seq(Entries), NEW e \in Entries, DistinctKeys(s),
           \A j \in 1 .. Len(s) : s[j].key # e.key
    PROVE  DistinctKeys(<<e>> \o s)
<1> DEFINE t == <<e>> \o s
<1>1. /\ Len(t) = Len(s) + 1 /\ t[1] = e
      /\ \A j \in 2 .. Len(s) + 1 : t[j] = s[j - 1]
  BY Pushed
<1> HIDE DEF t
<1>2. \A j \in 1 .. Len(t) : j = 1 \/ (j \in 2 .. Len(s) + 1 /\ j - 1 \in 1 .. Len(s))
  BY <1>1
<1>3. ASSUME NEW i \in 1 .. Len(t), NEW j \in 1 .. Len(t), t[i].key = t[j].key PROVE i = j
  <2>1. CASE i = 1 /\ j = 1
    BY <2>1
  <2>2. CASE i = 1 /\ j # 1
    BY <1>1, <1>2, <1>3, <2>2
  <2>3. CASE i # 1 /\ j = 1
    BY <1>1, <1>2, <1>3, <2>3
  <2>4. CASE i # 1 /\ j # 1
    <3>1. i - 1 \in 1 .. Len(s) /\ j - 1 \in 1 .. Len(s) /\ s[i - 1].key = s[j - 1].key
      BY <1>1, <1>2, <1>3, <2>4
    <3>2. i - 1 = j - 1
      BY <3>1 DEF DistinctKeys
    <3> QED BY <3>2
  <2> QED BY <2>1, <2>2, <2>3, <2>4
<1> QED BY <1>3 DEF DistinctKeys, t

LEMMA DistinctUnlinked ==
    ASSUME NEW s \in Seq(Entries), DistinctKeys(s), NEW i \in 1 .. Len(s)
    PROVE  /\ DistinctKeys(Unlinked(s, i))
           /\ \A j \in 1 .. Len(Unlinked(s, i)) :
                 \E l \in 1 .. Len(s) : l # i /\ Unlinked(s, i)[j] = s[l]
           /\ Answer(Unlinked(s, i), s[i].key) = 0
<1> DEFINE t == Unlinked(s, i)
           was(j) == IF j < i THEN j ELSE j + 1
<1>1. /\ t \in Seq(Entries) /\ Len(t) = Len(s) - 1
      /\ \A j \in 1 .. i - 1 : t[j] = s[j]
      /\ \A j \in i .. Len(s) - 1 : t[j] = s[j + 1]
  BY Removed
<1> HIDE DEF t
<1>2. ASSUME NEW j \in 1 .. Len(t)
      PROVE  was(j) \in 1 .. Len(s) /\ was(j) # i /\ t[j] = s[was(j)]
  BY <1>1
<1>3. ASSUME NEW j \in 1 .. Len(t), NEW l \in 1 .. Len(t), t[j].key = t[l].key PROVE j = l
  <2>1. s[was(j)].key = s[was(l)].key /\ was(j) \in 1 .. Len(s) /\ was(l) \in 1 .. Len(s)
    BY <1>2, <1>3
  <2>2. was(j) = was(l)
    BY <2>1 DEF DistinctKeys
  <2> QED BY <2>2, <1>1
<1>4. \A j \in 1 .. Len(t) : t[j].key # s[i].key
  BY <1>2 DEF DistinctKeys
<1>5. find(t, s[i].key) = 0
  BY <1>1, <1>4, FindNone
<1>6. \A j \in 1 .. Len(t) : \E l \in 1 .. Len(s) : l # i /\ t[j] = s[l]
  BY <1>2
<1> QED BY <1>3, <1>5, <1>6 DEF DistinctKeys, Answer, t

(* A lookup that finds a registered entry finds a priority that is not 0. *)
LEMMA AnswerZero ==
    ASSUME NEW s \in Seq(Entries), NEW k, 0 \notin Priorities, Answer(s, k) = 0
    PROVE  find(s, k) = 0 /\ \A j \in 1 .. Len(s) : s[j].key # k
<1>1. find(s, k) = 0
  <2> SUFFICES ASSUME find(s, k) # 0 PROVE FALSE
    OBVIOUS
  <2>1. find(s, k) \in 1 .. Len(s)
    BY FindFirst
  <2>2. s[find(s, k)] \in Entries
    BY <2>1
  <2> QED BY <2>2 DEF Answer, Entries
<1> QED BY <1>1, FindFirst

(* The same, said of the one caller whose call is in progress. *)
ContentWith(c) ==
    /\ \A t \in Tables : DistinctKeys(chain[t])
    /\ \A k \in Keys : ~(call[c].pc = "mark" /\ call[c].key = k)
                         => Answer(chain[TableOf(k)], k) = latest[k]
    /\ call[c].pc = "mark" => Answer(chain[TableOf(call[c].key)], call[c].key) = call[c].priority
    /\ call[c].pc \in {"head", "link"} => latest[call[c].key] = 0
    /\ call[c].pc = "unlink" => call[c].priority = Answer(chain[TableOf(call[c].key)], call[c].key)
    /\ \A i \in 1 .. Len(chain["port"]) :
        \/ chain["port"][i].priority \in in_use
        \/ ~(chain["port"][i].priority < MaxPriority)
        \/ call[c].pc = "mark" /\ call[c].priority = chain["port"][i].priority

LEMMA ContentOfOne ==
    ASSUME NEW c \in Callers, \A d \in Callers : d # c => call[d].pc = "idle"
    PROVE  TableContent <=> ContentWith(c)
BY DEF TableContent, ContentWith

LEMMA LinkStep ==
    ASSUME 0 \notin Priorities, TableTypes, OneAtATime, NEW c \in Callers, ContentWith(c),
           hash_add_link(c)
    PROVE  ContentWith(c)'
<1> DEFINE k == call[c].key
           T == TableOf(k)
           s == chain[T]
           e == [key |-> k, priority |-> call[c].priority]
<1>1. /\ call[c].pc = "link" /\ k \in Keys /\ call[c].priority \in Priorities
      /\ call[c] \in CallRecords /\ T \in Tables
  BY TableOfKey DEF hash_add_link, TableTypes, Idle
<1>2. e \in Entries /\ e.key = k /\ e.priority = call[c].priority /\ s \in Seq(Entries)
  BY <1>1 DEF Entries, TableTypes
<1>3. chain' = [chain EXCEPT ![T] = <<e>> \o s] /\ in_use' = in_use
  BY <1>1 DEF hash_add_link, OneAtATime
<1>4. chain'[T] = <<e>> \o s /\ \A t \in Tables : t # T => chain'[t] = chain[t]
  BY <1>1, <1>3 DEF TableTypes
<1> HIDE DEF e
<1>5. latest[k] = 0 /\ Answer(s, k) = 0
  BY <1>1 DEF ContentWith
<1>6. \A j \in 1 .. Len(s) : s[j].key # k
  BY <1>2, <1>5, AnswerZero
<1>7. \A t \in Tables : DistinctKeys(chain'[t])
  <2>1. DistinctKeys(s)
    BY <1>1 DEF ContentWith
  <2>2. DistinctKeys(<<e>> \o s)
    BY <1>2, <1>6, <2>1, DistinctPushed
  <2> QED BY <1>4, <2>2 DEF ContentWith
<1>8. \A l \in Keys : Answer(chain'[TableOf(l)], l) = IF l = k THEN call[c].priority ELSE latest[l]
  <2> TAKE l \in Keys
  <2>1. CASE TableOf(l) = T
    <3>1. Answer(<<e>> \o s, l) = IF e.key = l THEN e.priority ELSE Answer(s, l)
      BY <1>2, AnswerPushed
    <3>2. Answer(s, l) = latest[l]
      BY <1>1, <2>1 DEF ContentWith
    <3> QED BY <1>2, <1>4, <2>1, <3>1, <3>2
  <2>2. CASE TableOf(l) # T
    BY <1>1, <1>4, <2>2, TableOfKey DEF ContentWith
  <2> QED BY <2>1, <2>2
<1>9. \A i \in 1 .. Len(chain["port"]) :
         chain["port"][i].priority \in in_use \/ ~(chain["port"][i].priority < MaxPriority)
  BY <1>1 DEF ContentWith
<1>10. CASE k \in Ports
  <2>1. call'[c].pc = "mark" /\ call'[c].key = k /\ call'[c].priority = call[c].priority
    BY <1>1, <1>10 DEF hash_add_link, TableTypes, CallRecords
  <2>2. latest' = latest /\ T = "port"
    BY <1>10 DEF hash_add_link, TableOf
  <2>3. ASSUME NEW i \in 1 .. Len(chain'["port"])
        PROVE  \/ chain'["port"][i].priority \in in_use'
               \/ ~(chain'["port"][i].priority < MaxPriority)
               \/ call[c].priority = chain'["port"][i].priority
    <3>1. /\ Len(<<e>> \o s) = Len(s) + 1 /\ (<<e>> \o s)[1] = e
          /\ \A j \in 2 .. Len(s) + 1 : (<<e>> \o s)[j] = s[j - 1]
      BY <1>2, Pushed
    <3>2. CASE i = 1
      BY <1>2, <1>4, <2>2, <3>1, <3>2
    <3>3. CASE i # 1
      <4>1. i - 1 \in 1 .. Len(s) /\ chain'["port"][i] = s[i - 1]
        BY <1>2, <1>4, <2>2, <3>1, <3>3
      <4> QED BY <1>3, <1>9, <2>2, <4>1
    <3> QED BY <3>2, <3>3
  <2>4. \A l \in Keys : l # k => Answer(chain'[TableOf(l)], l) = latest'[l]
    BY <1>8, <2>2
  <2>5. Answer(chain'[TableOf(k)], k) = call[c].priority
    BY <1>1, <1>8
  <2> QED BY <1>7, <2>1, <2>3, <2>4, <2>5 DEF ContentWith
<1>11. CASE k \notin Ports
  <2>1. call'[c].pc = "idle"
    BY <1>11 DEF hash_add_link, Return, NoCall, TableTypes
  <2>2. \A l \in Keys : latest'[l] = IF l = k THEN call[c].priority ELSE latest[l]
    BY <1>1, <1>11 DEF hash_add_link, Return, TableTypes
  <2>3. chain'["port"] = chain["port"]
    BY <1>4, <1>11 DEF TableOf, Tables
  <2>4. \A l \in Keys : Answer(chain'[TableOf(l)], l) = latest'[l]
    BY <1>8, <2>2
  <2>5. \A i \in 1 .. Len(chain'["port"]) :
           chain'["port"][i].priority \in in_use' \/ ~(chain'["port"][i].priority < MaxPriority)
    <3>1. in_use' = in_use
      BY <1>3
    <3> QED BY <1>9, <2>3, <3>1
  <2> QED BY <1>7, <2>1, <2>4, <2>5 DEF ContentWith
<1> QED BY <1>10, <1>11

LEMMA UnlinkStep ==
    ASSUME 0 \notin Priorities, TableTypes, NEW c \in Callers, ContentWith(c), hash_del(c)
    PROVE  ContentWith(c)'
<1> DEFINE k == call[c].key
           T == TableOf(k)
           s == chain[T]
           i == find(s, k)
<1>1. call[c].pc = "unlink" /\ k \in Keys /\ T \in Tables /\ s \in Seq(Entries)
  BY TableOfKey DEF hash_del, TableTypes, Idle
<1>2. call'[c].pc = "idle"
  BY DEF hash_del, Return, NoCall, TableTypes
<1>3. \A l \in Keys : latest'[l] = IF l = k THEN 0 ELSE latest[l]
  BY <1>1 DEF hash_del, Return, TableTypes
<1>4. \A j \in 1 .. Len(chain["port"]) :
         chain["port"][j].priority \in in_use \/ ~(chain["port"][j].priority < MaxPriority)
  BY <1>1 DEF ContentWith
<1>5. CASE i = 0
  <2>1. chain' = chain /\ (in_use' = in_use \/ in_use' = in_use \ {call[c].priority})
    BY <1>5 DEF hash_del
  <2>2. Answer(s, k) = 0 /\ call[c].priority = 0
    BY <1>1, <1>5 DEF ContentWith, Answer
  <2>3. \A j \in 1 .. Len(chain["port"]) : chain["port"][j].priority # 0
    <3>1. chain["port"] \in Seq(Entries)
      BY DEF TableTypes, Tables
    <3>2. \A j \in 1 .. Len(chain["port"]) : chain["port"][j] \in Entries
      BY <3>1
    <3> QED BY <3>2 DEF Entries
  <2>4. \A l \in Keys : Answer(chain'[TableOf(l)], l) = latest'[l]
    BY <1>1, <1>3, <2>1, <2>2 DEF ContentWith
  <2>5. \A j \in 1 .. Len(chain'["port"]) :
           chain'["port"][j].priority \in in_use' \/ ~(chain'["port"][j].priority < MaxPriority)
    BY <1>4, <2>1, <2>2, <2>3
  <2> QED BY <1>2, <2>1, <2>4, <2>5 DEF ContentWith
<1>6. CASE i # 0
  <2>1. i \in 1 .. Len(s) /\ s[i].key = k
    BY <1>1, <1>6, FindFirst
  <2>2. chain' = [chain EXCEPT ![T] = Unlinked(s, i)] /\ in_use' = in_use
    BY <1>6 DEF hash_del, Unlinked
  <2>3. chain'[T] = Unlinked(s, i) /\ \A t \in Tables : t # T => chain'[t] = chain[t]
    BY <1>1, <2>2 DEF TableTypes
  <2>4. DistinctKeys(s)
    BY <1>1 DEF ContentWith
  <2> HIDE DEF i
  <2>5. /\ DistinctKeys(Unlinked(s, i)) /\ Answer(Unlinked(s, i), k) = 0
        /\ \A j \in 1 .. Len(Unlinked(s, i)) : \E l \in 1 .. Len(s) : l # i /\ Unlinked(s, i)[j] = s[l]
    <3>1. Answer(Unlinked(s, i), s[i].key) = 0
      BY <1>1, <2>1, <2>4, DistinctUnlinked
    <3> QED BY <1>1, <2>1, <2>4, <3>1, DistinctUnlinked
  <2>6. \A t \in Tables : DistinctKeys(chain'[t])
    BY <2>3, <2>5 DEF ContentWith
  <2>7. ASSUME NEW l \in Keys PROVE Answer(chain'[TableOf(l)], l) = latest'[l]
    <3>1. CASE l = k
      BY <1>3, <2>3, <2>5, <3>1
    <3>2. CASE l # k /\ TableOf(l) = T
      <4>1. Answer(Unlinked(s, i), l) = Answer(s, l)
        BY <1>1, <2>1, <3>2, AnswerRemoved
      <4> QED BY <1>1, <1>3, <2>3, <3>2, <4>1 DEF ContentWith
    <3>3. CASE l # k /\ TableOf(l) # T
      BY <1>1, <1>3, <2>3, <3>3, TableOfKey DEF ContentWith
    <3> QED BY <3>1, <3>2, <3>3
  <2>8. ASSUME NEW j \in 1 .. Len(chain'["port"])
        PROVE  chain'["port"][j].priority \in in_use' \/ ~(chain'["port"][j].priority < MaxPriority)
    <3>1. CASE T = "port"
      BY <1>4, <2>2, <2>3, <2>5, <3>1
    <3>2. CASE T # "port"
      BY <1>4, <2>2, <2>3, <3>2 DEF Tables
    <3> QED BY <3>1, <3>2
  <2> QED BY <1>2, <2>6, <2>7, <2>8 DEF ContentWith
<1> QED BY <1>5, <1>6

LEMMA TableContentStep ==
    ASSUME Serialised, Once, 0 \notin Priorities, TableTypes, OneAtATime, OneAtATime', TableContent,
           [Next]_vars
    PROVE  TableContent'
<1>1. CASE UNCHANGED vars
  BY <1>1 DEF TableContent, vars
<1>2. ASSUME NEW c \in Callers, NEW r, call' = [call EXCEPT ![c] = r], ~Idle(c) \/ Quiescent,
             ContentWith(c) => ContentWith(c)'
      PROVE  TableContent'
  <2>1. \A d \in Callers : d # c => call[d].pc = "idle" /\ call'[d].pc = "idle"
    BY <1>2 DEF OneAtATime, Idle, TableTypes, Quiescent
  <2>2. TableContent <=> ContentWith(c)
    BY <2>1, ContentOfOne
  <2>3. TableContent' <=> ContentWith(c)'
    BY <2>1 DEF TableContent, ContentWith
  <2> QED BY <1>2, <2>2, <2>3
<1>3. ASSUME NEW c \in Callers, NEW k \in Keys, NEW p \in Priorities, register(c, k, p)
      PROVE  TableContent'
  <2> DEFINE r == [pc |-> "head", key |-> k, priority |-> p, first |-> <<>>]
  <2>1. r.pc = "head" /\ r.key = k
    OBVIOUS
  <2>2. /\ call' = [call EXCEPT ![c] = r] /\ UNCHANGED <<chain, in_use, latest>>
        /\ latest[k] = 0 /\ Idle(c) /\ Quiescent
    BY <1>3 DEF register, MayStart
  <2> HIDE DEF r
  <2>3. call'[c] = r
    BY <2>2 DEF TableTypes
  <2>4. ContentWith(c) => ContentWith(c)'
    BY <2>1, <2>2, <2>3 DEF ContentWith, Idle
  <2> QED BY <1>2, <2>2, <2>4
<1>4. ASSUME NEW c \in Callers, hash_add_head(c) PROVE TableContent'
  <2> DEFINE r == [call[c] EXCEPT !.pc = "link", !.first = chain[TableOf(call[c].key)]]
  <2>1. call[c] \in CallRecords /\ call[c].pc = "head"
    BY <1>4 DEF hash_add_head, TableTypes
  <2>2. r.pc = "link" /\ r.key = call[c].key
    BY <2>1 DEF CallRecords
  <2>3. call' = [call EXCEPT ![c] = r] /\ UNCHANGED <<chain, in_use, latest>>
    BY <1>4, <2>1 DEF hash_add_head, TableTypes
  <2> HIDE DEF r
  <2>4. call'[c] = r
    BY <2>3 DEF TableTypes
  <2>5. ContentWith(c) => ContentWith(c)'
    BY <2>1, <2>2, <2>3, <2>4 DEF ContentWith
  <2> QED BY <1>2, <2>1, <2>3, <2>5 DEF Idle
<1>5. ASSUME NEW c \in Callers, hash_add_link(c) PROVE TableContent'
  <2> DEFINE r == IF call[c].key \in Ports THEN [call[c] EXCEPT !.pc = "mark"] ELSE NoCall
  <2>1. call' = [call EXCEPT ![c] = r] /\ ~Idle(c)
    BY <1>5 DEF hash_add_link, TableTypes, Return, Idle
  <2> QED BY <1>2, <1>5, <2>1, LinkStep
<1>6. ASSUME NEW c \in Callers, mark_in_use(c) PROVE TableContent'
  <2>1. /\ call' = [call EXCEPT ![c] = NoCall] /\ ~Idle(c) /\ call[c].pc = "mark"
        /\ chain' = chain /\ call[c].key \in Keys
    BY <1>6 DEF mark_in_use, TableTypes, Return, Idle
  <2>2. call'[c].pc = "idle"
    BY <2>1 DEF TableTypes, NoCall
  <2>3. /\ \A l \in Keys : latest'[l] = IF l = call[c].key THEN call[c].priority ELSE latest[l]
        /\ in_use \subseteq in_use' /\ (call[c].priority < MaxPriority => call[c].priority \in in_use')
    BY <1>6, <2>1 DEF mark_in_use, TableTypes, Return
  <2>4. ContentWith(c) => ContentWith(c)'
    BY <2>1, <2>2, <2>3 DEF ContentWith
  <2> QED BY <1>2, <2>1, <2>4
<1>7. ASSUME NEW c \in Callers, NEW k \in Keys, remove(c, k) PROVE TableContent'
  <2> DEFINE r == [pc |-> "unlink", key |-> k, priority |-> get_priority(k), first |-> <<>>]
  <2>1. r.pc = "unlink" /\ r.key = k /\ r.priority = Answer(chain[TableOf(k)], k)
    BY PriorityAnswer
  <2>2. call' = [call EXCEPT ![c] = r] /\ UNCHANGED <<chain, in_use, latest>> /\ Idle(c) /\ Quiescent
    BY <1>7 DEF remove, MayStart
  <2> HIDE DEF r
  <2>3. call'[c] = r
    BY <2>2 DEF TableTypes
  <2>4. ContentWith(c) => ContentWith(c)'
    BY <2>1, <2>2, <2>3 DEF ContentWith, Idle
  <2> QED BY <1>2, <2>2, <2>4
<1>8. ASSUME NEW c \in Callers, hash_del(c) PROVE TableContent'
  <2>1. call' = [call EXCEPT ![c] = NoCall] /\ ~Idle(c)
    BY <1>8 DEF hash_del, Return, Idle
  <2> QED BY <1>2, <1>8, <2>1, UnlinkStep
<1> QED BY <1>1, <1>3, <1>4, <1>5, <1>6, <1>7, <1>8 DEF Next

(* The state of the tables while they are the component that runs. *)
TableInv == TableTypes /\ OneAtATime /\ TableContent

LEMMA TableStart == Init => TableTypes /\ OneAtATime /\ TableContent
<1> SUFFICES ASSUME Init PROVE OneAtATime /\ TableContent
  BY TableTypesInit
<1>1. \A c \in Callers : call[c].pc = "idle"
  BY DEF Init, NoCall
<1>2. \A t \in Tables : chain[t] = <<>> /\ Len(chain[t]) = 0
  BY DEF Init
<1>3. OneAtATime
  BY <1>1 DEF OneAtATime, Idle
<1>4. ASSUME NEW k \in Keys PROVE Answer(chain[TableOf(k)], k) = latest[k]
  <2>1. chain[TableOf(k)] = <<>>
    BY <1>2, TableOfKey
  <2>2. find(<<>>, k) = 0
    <3>1. <<>> \in Seq(Entries) /\ \A j \in 1 .. Len(<<>>) : <<>>[j].key # k
      OBVIOUS
    <3> QED BY <3>1, FindNone
  <2> QED BY <2>1, <2>2 DEF Answer, Init
<1>5. \A t \in Tables : DistinctKeys(chain[t])
  BY <1>2 DEF DistinctKeys
<1>6. TableContent
  <2>1. "port" \in Tables
    BY DEF Tables
  <2> QED BY <1>1, <1>2, <1>4, <1>5, <2>1 DEF TableContent
<1> QED BY <1>3, <1>6

(* While the tables run, a step of the composition is a step of theirs. *)
LEMMA TableTurn ==
    ASSUME [ComponentsNext]_components_vars, part' = "tables"
    PROVE  part = "tables" /\ [Next]_vars
BY DEF ComponentsNext, components_vars, Turn

(* A call of the identifier changes what lookups find for its own key only. *)
LEMMA CallKeepsOthers ==
    ASSUME TableTypes, OneAtATime, [Next]_vars
    PROVE  OthersKept
<1> SUFFICES ASSUME NEW k \in Keys, \A c \in Callers : call[c].key # k
             PROVE  get_priority(k)' = get_priority(k)
  BY DEF OthersKept
<1> DEFINE T == TableOf(k)
<1>1. get_priority(k) = Answer(chain[T], k) /\ get_priority(k)' = Answer(chain'[T], k)
  BY DEF get_priority, Answer
<1>2. CASE chain' = chain
  BY <1>1, <1>2
<1>3. ASSUME NEW c \in Callers, hash_add_link(c) PROVE get_priority(k)' = get_priority(k)
  <2> DEFINE C == TableOf(call[c].key)
             e == [key |-> call[c].key, priority |-> call[c].priority]
  <2>1. e \in Entries /\ e.key # k /\ chain[C] \in Seq(Entries)
    BY <1>3, TableOfKey DEF hash_add_link, TableTypes, Entries, Idle
  <2>2. chain' = [chain EXCEPT ![C] = <<e>> \o chain[C]]
    BY <1>3 DEF hash_add_link, OneAtATime
  <2> HIDE DEF e
  <2>3. CASE T = C
    <3>1. chain'[T] = <<e>> \o chain[T]
      BY <2>2, <2>3, TableOfKey DEF TableTypes
    <3> QED BY <1>1, <2>1, <2>3, <3>1, AnswerPushed
  <2>4. CASE T # C
    BY <1>1, <2>2, <2>4, TableOfKey DEF TableTypes
  <2> QED BY <2>3, <2>4
<1>4. ASSUME NEW c \in Callers, hash_del(c), chain' # chain PROVE get_priority(k)' = get_priority(k)
  <2> DEFINE C == TableOf(call[c].key)
             i == find(chain[C], call[c].key)
  <2>1. i # 0 /\ chain' = [chain EXCEPT ![C] = Unlinked(chain[C], i)] /\ chain[C] \in Seq(Entries)
    BY <1>4, TableOfKey DEF hash_del, Unlinked, TableTypes
  <2>2. i \in 1 .. Len(chain[C]) /\ chain[C][i].key # k
    BY <2>1, FindFirst
  <2> HIDE DEF i
  <2>3. CASE T = C
    <3>1. chain'[T] = Unlinked(chain[T], i)
      BY <2>1, <2>3, TableOfKey DEF TableTypes
    <3> QED BY <1>1, <2>1, <2>2, <2>3, <3>1, AnswerRemoved
  <2>4. CASE T # C
    BY <1>1, <2>1, <2>4, TableOfKey DEF TableTypes
  <2> QED BY <2>3, <2>4
<1> QED BY <1>2, <1>3, <1>4 DEF Next, vars, register, hash_add_head, mark_in_use, remove

(* hash_add and hash_del: when the system calls of the priority identifier  *)
(* come one after the other, a step of a call changes what a lookup finds   *)
(* for the key of that call only, whatever shares its chain.                *)
THEOREM LookupsKept ==
    ASSUME Serialised PROVE ComponentsSpec => EntriesKept
<1> DEFINE I == part = "tables" => TableTypes /\ OneAtATime
<1>1. ComponentsInit => I
  BY TableStart DEF ComponentsInit
<1>2. I /\ [ComponentsNext]_components_vars => I'
  <2> SUFFICES ASSUME I, [ComponentsNext]_components_vars, part' = "tables"
               PROVE  (TableTypes /\ OneAtATime)'
    OBVIOUS
  <2>1. TableTypes /\ OneAtATime /\ [Next]_vars
    BY TableTurn
  <2> QED BY <2>1, TableTypesStep, OneAtATimeStep
<1>3. I /\ I' /\ [ComponentsNext]_components_vars => [While("tables", OthersKept)]_components_vars
  <2> SUFFICES ASSUME I, [ComponentsNext]_components_vars, part = "tables" PROVE OthersKept
    BY DEF While
  <2>1. part' = "tables"
    BY DEF ComponentsNext, components_vars
  <2> QED BY <2>1, TableTurn, CallKeepsOthers
<1> QED BY <1>1, <1>2, <1>3, PTL DEF ComponentsSpec, EntriesKept

------------------------------------------------------------------------------
(* The ids of the NAPI instances *)

(* One lap around M: the remainder of what is less than two times M. *)
LEMMA OneLap ==
    ASSUME NEW M \in Nat \ {0}, NEW x \in 0 .. 2 * M - 1
    PROVE  x % M = IF x < M THEN x ELSE x - M
OBVIOUS

NapiRecords == [st : {"free", "hashed", "deleted"}, id : 0 .. MaxNapiId, calls : BOOLEAN]

LEMMA FreeRecord == FreeNapi \in NapiRecords /\ FreeNapi.st = "free"
<1>1. 0 \in 0 .. MaxNapiId
  BY NapiHashAssumption
<1> QED BY <1>1 DEF FreeNapi, NapiRecords

(* The ids that napi_hash_add tries, in their order. *)
NextId(k) == ((nh_gen + k - 1) % MaxNapiId) + 1

LEMMA NextIds ==
    ASSUME NapiHashTypeOK, MaxNapiId # 0
    PROVE  /\ \A k \in 1 .. MaxNapiId : NextId(k) \in 1 .. MaxNapiId
           /\ \A j, k \in 1 .. MaxNapiId : NextId(j) = NextId(k) => j = k
<1>1. MaxNapiId \in Nat \ {0} /\ nh_gen \in 0 .. MaxNapiId
  BY NapiHashAssumption DEF NapiHashTypeOK
<1>2. ASSUME NEW k \in 1 .. MaxNapiId
      PROVE  NextId(k) = IF nh_gen + k - 1 < MaxNapiId THEN nh_gen + k ELSE nh_gen + k - MaxNapiId
  <2> DEFINE x == nh_gen + k - 1
  <2>1. x \in 0 .. 2 * MaxNapiId - 1
    BY <1>1
  <2> HIDE DEF x
  <2>2. x % MaxNapiId = IF x < MaxNapiId THEN x ELSE x - MaxNapiId
    BY <1>1, <2>1, OneLap
  <2>3. NextId(k) = (x % MaxNapiId) + 1
    BY DEF NextId, x
  <2> QED BY <1>1, <2>1, <2>2, <2>3 DEF x
<1> QED BY <1>1, <1>2

(* With no more instances than ids, napi_hash_add finds one that is free:   *)
(* otherwise the ids would be told apart by fewer instances.                *)
LEMMA FreeId ==
    ASSUME NapiHashTypeOK, NEW n \in Napi, nh_napi[n].st = "free"
    PROVE  next_free_id \in 1 .. MaxNapiId /\ napi_by_id(next_free_id) = {}
<1> DEFINE Others == Napi \ {n}
           Free == {k \in 1 .. MaxNapiId : napi_by_id(NextId(k)) = {}}
           first == CHOOSE k \in Free : \A j \in Free : k <= j
<1>1. IsFiniteSet(Others) /\ Cardinality(Others) = Cardinality(Napi) - 1
  BY NapiHashAssumption, FS_RemoveElement
<1>2. Cardinality(Napi) \in Nat /\ Cardinality(Others) \in Nat
  BY <1>1, NapiHashAssumption, FS_CardinalityType
<1>3. MaxNapiId \in Nat \ {0} /\ Cardinality(Others) < MaxNapiId
  BY <1>1, <1>2, NapiHashAssumption
<1>4. IsFiniteSet(1 .. MaxNapiId) /\ Cardinality(1 .. MaxNapiId) = MaxNapiId
  BY <1>3, FS_Interval
<1>5. Free # {}
  <2> SUFFICES ASSUME Free = {} PROVE FALSE
    OBVIOUS
  <2> DEFINE holder == [k \in 1 .. MaxNapiId |-> CHOOSE m \in Napi : m \in napi_by_id(NextId(k))]
  <2>1. ASSUME NEW k \in 1 .. MaxNapiId
        PROVE  /\ holder[k] \in Others /\ nh_napi[holder[k]].id = NextId(k)
    <3>1. napi_by_id(NextId(k)) # {}
      OBVIOUS
    <3>2. \E m \in Napi : m \in napi_by_id(NextId(k))
      BY <3>1 DEF napi_by_id
    <3>3. holder[k] \in Napi /\ holder[k] \in napi_by_id(NextId(k))
      BY <3>2
    <3> QED BY <3>3 DEF napi_by_id
  <2>2. holder \in [1 .. MaxNapiId -> Others]
    BY <2>1
  <2> HIDE DEF holder
  <2>3. PICK j, k \in 1 .. MaxNapiId : j # k /\ holder[j] = holder[k]
    BY <1>1, <1>3, <1>4, <2>2, FS_PigeonHole
  <2> QED BY <1>3, <2>1, <2>3, NextIds
<1>6. \E k \in Free : \A j \in Free : k <= j
  <2>1. Free \subseteq Nat
    OBVIOUS
  <2> QED BY <1>5, <2>1, LeastElement
<1>7. first \in Free
  BY <1>6
<1>8. next_free_id = NextId(first)
  BY DEF next_free_id, NextId
<1> QED BY <1>3, <1>7, <1>8, NextIds

NapiInv == NapiHashTypeOK /\ NapiHashSound

LEMMA NapiStep == NapiInv /\ [NapiHashNext]_napihash_vars => NapiInv'
<1> SUFFICES ASSUME NapiInv, [NapiHashNext]_napihash_vars PROVE NapiInv'
  OBVIOUS
<1> USE DEF NapiInv, NapiHashTypeOK, NapiHashSound
<1>1. CASE UNCHANGED napihash_vars
  BY <1>1 DEF napihash_vars
<1>2. ASSUME NEW n \in Napi, netif_napi_add(n) PROVE NapiInv'
  <2> DEFINE id == next_free_id
             r == [FreeNapi EXCEPT !.st = "hashed", !.id = id]
  <2>1. id \in 1 .. MaxNapiId /\ napi_by_id(id) = {}
    BY <1>2, FreeId DEF netif_napi_add
  <2>2. nh_gen' = id /\ nh_napi' = [nh_napi EXCEPT ![n] = r] /\ UNCHANGED <<nh_reader, nh_call>>
    BY <1>2 DEF netif_napi_add, napi_hash_add
  <2> HIDE DEF id
  <2>3. r.st = "hashed" /\ r.id = id /\ r \in NapiRecords
    <3>1. id \in 0 .. MaxNapiId
      BY <2>1, NapiHashAssumption
    <3> QED BY <3>1, FreeRecord DEF NapiRecords
  <2> HIDE DEF r
  <2>4. \A m \in Napi : nh_napi'[m] = IF m = n THEN r ELSE nh_napi[m]
    BY <2>2
  <2>5. NapiHashTypeOK'
    BY <2>1, <2>2, <2>3, NapiHashAssumption DEF NapiRecords
  <2>6. \A m \in Napi : nh_napi[m].st = "hashed" => nh_napi[m].id # id
    BY <2>1 DEF napi_by_id
  <2>7. NapiHashSound'
    BY <2>2, <2>3, <2>4, <2>6
  <2> QED BY <2>5, <2>7
<1>3. ASSUME NEW n \in Napi, netif_napi_add_calls(n) PROVE NapiInv'
  BY <1>3 DEF netif_napi_add_calls
<1>4. ASSUME NEW n \in Napi, __netif_napi_del(n) PROVE NapiInv'
  BY <1>4 DEF __netif_napi_del
<1>5. ASSUME NEW n \in Napi, netif_napi_del(n) PROVE NapiInv'
  BY <1>5, FreeRecord DEF netif_napi_del, NapiRecords
<1>6. ASSUME NEW id \in 1 .. MaxNapiId, dev_get_by_napi_id(id) PROVE NapiInv'
  BY <1>6 DEF dev_get_by_napi_id, napi_by_id
<1>7. CASE reader_unlock
  BY <1>7 DEF reader_unlock
<1>8. ASSUME NEW c \in NapiCaller, lookup_fixed_id(c) PROVE NapiInv'
  BY <1>8 DEF lookup_fixed_id, napi_by_id
<1>9. ASSUME NEW c \in NapiCaller, call_returns(c) PROVE NapiInv'
  BY <1>9 DEF call_returns
<1> QED BY <1>1, <1>2, <1>3, <1>4, <1>5, <1>6, <1>7, <1>8, <1>9 DEF NapiHashNext

LEMMA NapiTurn ==
    ASSUME [ComponentsNext]_components_vars, part' = "napihash"
    PROVE  part = "napihash" /\ [NapiHashNext]_napihash_vars
BY DEF ComponentsNext, components_vars, Turn

LEMMA NapiStart == NapiHashInit => NapiInv
BY NapiHashAssumption DEF NapiHashInit, NapiInv, NapiHashTypeOK, NapiHashSound, FreeNapi

(* napi_hash_add and the readers: an id names one NAPI instance, through    *)
(* removals and the wrap-around of napi_gen_id, and what a reader found     *)
(* under the RCU lock stays allocated as long as it holds the lock, for any *)
(* number of instances up to the number of ids.                             *)
THEOREM IdsNameOneNapi == ComponentsSpec => [](part = "napihash" => NapiHashSound)
<1> DEFINE I == part = "napihash" => NapiInv
<1>1. ComponentsInit => I
  BY NapiStart DEF ComponentsInit
<1>2. I /\ [ComponentsNext]_components_vars => I'
  BY NapiTurn, NapiStep
<1>3. I => (part = "napihash" => NapiHashSound)
  BY DEF NapiInv
<1> QED BY <1>1, <1>2, <1>3, PTL DEF ComponentsSpec

(* When the system calls come one after the other and a key is registered   *)
(* again only after it was removed, the tables answer like a map between    *)
(* the calls and every priority that a port has is marked; and the ids of   *)
(* NAPI instances are sound.  Priority 0 is what a lookup answers for an    *)
(* unknown key, so that it cannot be the priority of one: the removal of an *)
(* unknown port takes its mark away.                                        *)
THEOREM IdentifierSound ==
    ASSUME Serialised, Once, 0 \notin Priorities PROVE ComponentsSpec => []Identifier
<1> DEFINE I == part = "tables" => TableInv
<1>1. ComponentsInit => I
  BY TableStart DEF ComponentsInit, TableInv
<1>2. I /\ [ComponentsNext]_components_vars => I'
  <2> SUFFICES ASSUME I, [ComponentsNext]_components_vars, part' = "tables" PROVE TableInv'
    OBVIOUS
  <2>1. TableInv /\ [Next]_vars
    BY TableTurn
  <2>2. TableTypes' /\ OneAtATime'
    BY <2>1, TableTypesStep, OneAtATimeStep DEF TableInv
  <2> QED BY <2>1, <2>2, TableContentStep DEF TableInv
<1>3. I /\ (part = "napihash" => NapiHashSound) => Identifier
  <2> SUFFICES ASSUME part = "tables", TableInv PROVE TableIsMap /\ RegisteredMarked
    BY DEF Identifier, While
  <2>1. TableIsMap
    <3> SUFFICES ASSUME Quiescent, NEW k \in Keys PROVE get_priority(k) = latest[k]
      BY DEF TableIsMap
    <3>1. Answer(chain[TableOf(k)], k) = latest[k]
      BY DEF TableInv, TableContent, Quiescent, Idle
    <3> QED BY <3>1, PriorityAnswer
  <2>2. RegisteredMarked
    BY DEF RegisteredMarked, TableInv, TableContent, Quiescent, Idle
  <2> QED BY <2>1, <2>2
<1> QED BY <1>1, <1>2, <1>3, IdsNameOneNapi, PTL DEF ComponentsSpec

------------------------------------------------------------------------------
(* The registry of network devices *)

RegStates == {"none", "UNINITIALIZED", "REGISTERED", "UNREGISTERING", "UNREGISTERED"}

(* The values of the variables of the registry.                             *)
RegTypes ==
    /\ reg_state \in [RDev -> RegStates]
    /\ net \in [RDev -> Netns] /\ dname \in [RDev -> Name]
    /\ ifindex \in [RDev -> IfIndex \cup {0}] /\ refcnt \in [RDev -> Nat]
    /\ altnames \subseteq Netns \X Name \X RDev
    /\ scope \in [Notifier -> {"off", "all"} \cup Netns]
    /\ follows \in [Notifier -> RDev \cup {NoDev}]
    /\ view \in [Notifier -> SUBSET RDev] /\ up_view \in [Notifier -> SUBSET RDev]
    /\ misnamed \in BOOLEAN /\ refused \in BOOLEAN

(* The registered devices in the scope of a notifier.                       *)
Known(b) == {d \in listed : InScope(b, net[d])}

(* What a notifier was told never exceeds what is there, and is all of it as*)
(* long as no notifier refused a registration.                              *)
RegViews ==
    \A b \in Notifier :
       /\ view[b] \subseteq Known(b) /\ up_view[b] \subseteq iff_up \cap Known(b)
       /\ ~refused => view[b] = Known(b) /\ up_view[b] = iff_up \cap Known(b)

(* A notifier that follows a device is in the namespace of that device, and *)
(* the device is registered.                                                *)
RegFollows ==
    \A b \in Notifier : follows[b] # NoDev =>
       reg_state[follows[b]] = "REGISTERED" /\ scope[b] = net[follows[b]]

(* The tables list the registered devices, and their entries are told apart.*)
RegTables ==
    /\ listed = {d \in RDev : reg_state[d] = "REGISTERED"} /\ iff_up \subseteq listed
    /\ \A a \in altnames : a[3] \in listed
    /\ \A d, e \in listed : d # e /\ net[d] = net[e] =>
         /\ ifindex[d] # ifindex[e]
         /\ ~misnamed => dname[d] # dname[e]

(* The references to a device: that of its allocation, that of its          *)
(* registration and that of a lookup.                                       *)
RegRefs ==
    /\ held \subseteq RDev /\ todo \subseteq RDev
    /\ \A d \in RDev :
         /\ d \in todo => reg_state[d] \in {"UNREGISTERING", "UNREGISTERED"}
         /\ reg_state[d] = "UNREGISTERING" => d \in todo
         /\ reg_state[d] \in {"none", "UNINITIALIZED"} => d \notin held
         /\ reg_state[d] = "UNREGISTERED" /\ d \notin todo => d \notin held
         /\ refcnt[d] = IF reg_state[d] = "none" THEN 0
                        ELSE 1 + (IF reg_state[d] = "REGISTERED" THEN 1 ELSE 0)
                               + (IF d \in held THEN 1 ELSE 0)

(* The inductive invariant of the registry.                                 *)
RegInv == RegTypes /\ RegViews /\ RegFollows /\ RegTables /\ RegRefs

(* A finite set as a sequence: each element, and nothing else.              *)
LEMMA SetAsSeq ==
    ASSUME NEW S, IsFiniteSet(S)
    PROVE  SetToSeq(S) \in Seq(S) /\ ToSet(SetToSeq(S)) = S
<1> DEFINE n == Cardinality(S)
           f == SetToSeq(S)
<1>1. n \in Nat /\ ExistsBijection(1 .. n, S)
  BY FS_CardinalityType
<1>2. \E g \in [1 .. n -> S] : IsInjective(g)
  BY <1>1 DEF ExistsBijection, Bijection, Injection
<1>3. f \in [1 .. n -> S] /\ IsInjective(f)
  BY <1>2 DEF SetToSeq
<1> HIDE DEF f
<1>4. f \in Injection(1 .. n, S)
  BY <1>3 DEF Injection
<1>5. f \in Bijection(1 .. n, Range(f))
  BY <1>4, Fun_InjMeansBijImage
<1>6. ExistsBijection(1 .. n, Range(f))
  BY <1>5 DEF ExistsBijection
<1>7. Cardinality(Range(f)) = n
  BY <1>1, <1>6, FS_CountingElements
<1>8. Range(f) = ToSet(f)
  BY DEF Range, ToSet
<1>9. Range(f) \in SUBSET S
  BY <1>3 DEF Range
<1>10. Range(f) = S
  BY <1>7, <1>9, FS_Subset
<1>11. f \in Seq(S)
  BY <1>1, <1>3, SeqDef
<1> QED BY <1>8, <1>10, <1>11 DEF f

(* The chains of a namespace hold the notifiers in scope, and a part of a   *)
(* chain holds none that the chain does not.                                *)
LEMMA ChainMembers ==
    ASSUME NEW sc, NEW n
    PROVE  /\ ToSet(ChainOf(sc, n)) = {b \in Notifier : sc[b] \in {n, "all"}}
           /\ Len(ChainOf(sc, n)) \in Nat
           /\ \A k \in 0 .. Len(ChainOf(sc, n)) :
                 /\ ToSet(SubSeq(ChainOf(sc, n), 1, k)) \subseteq ToSet(ChainOf(sc, n))
                 /\ k = Len(ChainOf(sc, n)) => SubSeq(ChainOf(sc, n), 1, k) = ChainOf(sc, n)
<1> DEFINE A == {b \in Notifier : sc[b] = n}
           B == {b \in Notifier : sc[b] = "all"}
           s == SetToSeq(A)
           t == SetToSeq(B)
           c == ChainOf(sc, n)
<1>1. IsFiniteSet(A) /\ IsFiniteSet(B)
  BY NetdevRegistryAssumption, FS_Subset
<1>2. s \in Seq(Notifier) /\ t \in Seq(Notifier) /\ ToSet(s) = A /\ ToSet(t) = B
  <2>1. s \in Seq(A) /\ ToSet(s) = A
    BY <1>1, SetAsSeq
  <2>2. t \in Seq(B) /\ ToSet(t) = B
    BY <1>1, SetAsSeq
  <2> HIDE DEF s, t
  <2> QED BY <2>1, <2>2, SeqMonotonic
<1>3. c = s \o t
  BY DEF ChainOf
<1> HIDE DEF s, t, c
<1>4. c \in Seq(Notifier) /\ Range(c) = Range(s) \cup Range(t)
  BY <1>2, <1>3, ConcatProperties, RangeConcatenation
<1>5. ToSet(c) = A \cup B
  BY <1>2, <1>4 DEF Range, ToSet
<1>6. Len(c) \in Nat /\ DOMAIN c = 1 .. Len(c)
  BY <1>4, LenProperties
<1>7. ASSUME NEW k \in 0 .. Len(c)
      PROVE  ToSet(SubSeq(c, 1, k)) \subseteq ToSet(c)
  <2>1. \A i \in 1 .. k : c[i] \in Notifier
    BY <1>4, <1>6
  <2>2. /\ SubSeq(c, 1, k) \in Seq(Notifier) /\ Len(SubSeq(c, 1, k)) = k
        /\ \A i \in 1 .. k : SubSeq(c, 1, k)[i] = c[i]
    <3>1. k \in Int /\ 1 \in Int
      BY <1>6
    <3>2. /\ SubSeq(c, 1, k) \in Seq(Notifier)
          /\ Len(SubSeq(c, 1, k)) = (IF 1 <= k THEN k - 1 + 1 ELSE 0)
          /\ \A i \in 1 .. k - 1 + 1 : SubSeq(c, 1, k)[i] = c[1 + i - 1]
      BY <2>1, <3>1, SubSeqProperties
    <3> QED BY <1>6, <3>2
  <2>3. DOMAIN SubSeq(c, 1, k) = 1 .. k
    BY <2>2, LenProperties
  <2> QED BY <1>6, <2>2, <2>3 DEF ToSet
<1>8. SubSeq(c, 1, Len(c)) = c
  BY <1>4, SubSeqFull
<1> QED BY <1>5, <1>6, <1>7, <1>8 DEF c, A, B

(* Whom a chain call reaches.                                               *)
LEMMA AllInScope ==
    /\ \A n : All(n) = {b \in Notifier : InScope(b, n)}
    /\ \A n : \A k \in 0 .. Len(Chain(n)) : Reached(n, k) \subseteq All(n)
<1>1. ASSUME NEW n PROVE All(n) = {b \in Notifier : InScope(b, n)}
  BY ChainMembers DEF All, Chain, InScope
<1>2. ASSUME NEW n, NEW k \in 0 .. Len(Chain(n)) PROVE Reached(n, k) \subseteq All(n)
  BY ChainMembers DEF All, Chain, Reached
<1> QED BY <1>1, <1>2

(* A lookup finds devices that are registered. *)
LEMMA LookupListed ==
    ASSUME RegTypes, RegTables
    PROVE  /\ \A n \in Netns, x \in Name : name_lookup(n, x) \subseteq listed
           /\ \A n \in Netns, i \in IfIndex : index_lookup(n, i) \subseteq listed
           /\ \A n \in Netns : \A x \in ValidNames(n), e \in listed : net[e] = n => dname[e] # x
           /\ \A n \in Netns : \A i \in FreeIndexes(n), e \in listed : net[e] = n => ifindex[e] # i
BY DEF RegTypes, RegTables, name_lookup, index_lookup, In, ValidNames, FreeIndexes

(* The registry starts with the invariant,                                  *)
LEMMA RegStart == NetdevRegistryInit => RegInv
<1> SUFFICES ASSUME NetdevRegistryInit PROVE RegInv
  OBVIOUS
<1>1. init_net \in Netns /\ no_name \in Name
  BY NetdevRegistryAssumption DEF init_net, no_name
<1> QED BY <1>1 DEF NetdevRegistryInit, RegInv, RegTypes, RegStates, RegViews, RegFollows, RegTables,
             RegRefs, Known

(* which implies the property the run checks,                               *)
LEMMA RegSoundFrom == RegInv => RegistrySound
BY DEF RegInv, RegViews, RegTables, RegRefs, RegistrySound, RegTypes, Known

(* and each operation keeps it: registration, also refused or failed, the   *)
(* two halves of removal, moves between namespaces and the notifiers        *)
(* themselves.                                                              *)
LEMMA RegStep ==
    ASSUME RegInv, NetdevRegistryNext
    PROVE  RegInv'
<1> USE NetdevRegistryAssumption DEF RegInv, table_vars, notifier_vars, ghost_vars, NoDev
<1>0. /\ init_net \in Netns /\ no_name \in Name
      /\ \A n : All(n) = {b \in Notifier : InScope(b, n)}
      /\ \A n \in Netns : \A x \in ValidNames(n), e \in listed : net[e] = n => dname[e] # x
      /\ \A n \in Netns : \A i \in FreeIndexes(n), e \in listed : net[e] = n => ifindex[e] # i
      /\ \A n \in Netns : ValidNames(n) \subseteq Name /\ FreeIndexes(n) \subseteq IfIndex
  BY AllInScope, LookupListed DEF init_net, no_name, ValidNames, FreeIndexes
<1>1. ASSUME NEW d \in RDev, alloc_netdev_mqs(d) PROVE RegInv'
  <2>1. RegTypes'
    BY <1>0, <1>1 DEF alloc_netdev_mqs, RegTypes, RegStates, Learn, Forget
  <2>2. RegViews'
    BY <1>0, <1>1 DEF alloc_netdev_mqs, RegViews, Known, RegTypes, RegTables, Learn, Forget, InScope
  <2>3. RegFollows'
    BY <1>0, <1>1 DEF alloc_netdev_mqs, RegFollows, RegTypes, RegTables
  <2>4. RegTables'
    BY <1>0, <1>1 DEF alloc_netdev_mqs, RegTables, RegTypes
  <2>5. RegRefs'
    BY <1>0, <1>1 DEF alloc_netdev_mqs, RegRefs, RegTypes, RegStates, RegTables
  <2> QED BY <2>1, <2>2, <2>3, <2>4, <2>5
<1>2. ASSUME NEW d \in RDev, register_netdevice(d) PROVE RegInv'
  <2>1. RegTypes'
    BY <1>0, <1>2 DEF register_netdevice, RegTypes, RegStates, Learn, Forget
  <2>2. RegViews'
    BY <1>0, <1>2 DEF register_netdevice, RegViews, Known, RegTypes, RegTables, Learn, Forget, InScope
  <2>3. RegFollows'
    BY <1>0, <1>2 DEF register_netdevice, RegFollows, RegTypes, RegTables
  <2>4. RegTables'
    BY <1>0, <1>2 DEF register_netdevice, RegTables, RegTypes
  <2>5. RegRefs'
    BY <1>0, <1>2 DEF register_netdevice, RegRefs, RegTypes, RegStates, RegTables
  <2> QED BY <2>1, <2>2, <2>3, <2>4, <2>5
<1>3. ASSUME NEW d \in RDev, register_refused(d) PROVE RegInv'
  <2>1. RegTypes'
    BY <1>0, <1>3 DEF register_refused, RegTypes, RegStates, Learn, Forget
  <2>2. RegViews'
    <3>1. PICK k \in 0 .. Len(Chain(net[d])) :
             view' = Forget(Learn(view, Reached(net[d], k), d), All(net[d]), d)
      <4>1. Len(Chain(net[d])) \in Nat
        BY ChainMembers DEF Chain
      <4> QED BY <1>3, <4>1 DEF register_refused
    <3>2. Reached(net[d], k) \subseteq All(net[d])
      BY AllInScope
    <3>3. \A b \in Notifier : d \notin view[b]
      BY <1>3 DEF register_refused, RegViews, Known, RegTables
    <3>4. view' = view
      BY <3>1, <3>2, <3>3 DEF Learn, Forget, RegTypes
    <3> QED BY <1>3, <3>4 DEF register_refused, RegViews, Known, InScope
  <2>3. RegFollows'
    BY <1>0, <1>3 DEF register_refused, RegFollows, RegTypes, RegTables
  <2>4. RegTables'
    BY <1>0, <1>3 DEF register_refused, RegTables, RegTypes
  <2>5. RegRefs'
    BY <1>0, <1>3 DEF register_refused, RegRefs, RegTypes, RegStates, RegTables
  <2> QED BY <2>1, <2>2, <2>3, <2>4, <2>5
<1>4. ASSUME NEW d \in RDev, unregister_netdevice(d) PROVE RegInv'
  <2>1. RegTypes'
    BY <1>0, <1>4 DEF unregister_netdevice, RegTypes, RegStates, RegRefs, Forget
  <2>2. RegViews'
    BY <1>0, <1>4 DEF unregister_netdevice, RegViews, Known, RegTypes, RegTables, Learn, Forget, InScope
  <2>3. RegFollows'
    BY <1>0, <1>4 DEF unregister_netdevice, RegFollows, RegTypes, RegTables
  <2>4. RegTables'
    BY <1>0, <1>4 DEF unregister_netdevice, RegTables, RegTypes
  <2>5. RegRefs'
    BY <1>0, <1>4 DEF unregister_netdevice, RegRefs, RegTypes, RegStates, RegTables
  <2> QED BY <2>1, <2>2, <2>3, <2>4, <2>5
<1>5. ASSUME NEW d \in RDev, todo_unregistered(d) PROVE RegInv'
  <2>1. RegTypes'
    BY <1>0, <1>5 DEF todo_unregistered, RegTypes, RegStates, Learn, Forget
  <2>2. RegViews'
    BY <1>0, <1>5 DEF todo_unregistered, RegViews, Known, RegTypes, RegTables, Learn, Forget, InScope
  <2>3. RegFollows'
    BY <1>0, <1>5 DEF todo_unregistered, RegFollows, RegTypes, RegTables
  <2>4. RegTables'
    BY <1>0, <1>5 DEF todo_unregistered, RegTables, RegTypes
  <2>5. RegRefs'
    BY <1>0, <1>5 DEF todo_unregistered, RegRefs, RegTypes, RegStates, RegTables
  <2> QED BY <2>1, <2>2, <2>3, <2>4, <2>5
<1>6. ASSUME NEW d \in RDev, rebroadcast(d) PROVE RegInv'
  <2>1. RegTypes'
    BY <1>0, <1>6 DEF rebroadcast, RegTypes, RegStates, Learn, Forget
  <2>2. RegViews'
    BY <1>0, <1>6 DEF rebroadcast, RegViews, Known, RegTypes, RegTables, Learn, Forget, InScope
  <2>3. RegFollows'
    BY <1>0, <1>6 DEF rebroadcast, RegFollows, RegTypes, RegTables
  <2>4. RegTables'
    BY <1>0, <1>6 DEF rebroadcast, RegTables, RegTypes
  <2>5. RegRefs'
    BY <1>0, <1>6 DEF rebroadcast, RegRefs, RegTypes, RegStates, RegTables
  <2> QED BY <2>1, <2>2, <2>3, <2>4, <2>5
<1>7. ASSUME NEW d \in RDev, todo_done(d) PROVE RegInv'
  <2>1. RegTypes'
    BY <1>0, <1>7 DEF todo_done, wait_allrefs, RegTypes, RegStates, Learn, Forget
  <2>2. RegViews'
    BY <1>0, <1>7 DEF todo_done, wait_allrefs, RegViews, Known, RegTypes, RegTables, Learn, Forget, InScope
  <2>3. RegFollows'
    BY <1>0, <1>7 DEF todo_done, wait_allrefs, RegFollows, RegTypes, RegTables
  <2>4. RegTables'
    BY <1>0, <1>7 DEF todo_done, wait_allrefs, RegTables, RegTypes
  <2>5. RegRefs'
    BY <1>0, <1>7 DEF todo_done, wait_allrefs, RegRefs, RegTypes, RegStates, RegTables
  <2> QED BY <2>1, <2>2, <2>3, <2>4, <2>5
<1>8. ASSUME NEW d \in RDev, free_netdev(d) PROVE RegInv'
  <2>1. RegTypes'
    BY <1>0, <1>8 DEF free_netdev, RegTypes, RegStates, Learn, Forget
  <2>2. RegViews'
    BY <1>0, <1>8 DEF free_netdev, RegViews, Known, RegTypes, RegTables, Learn, Forget, InScope
  <2>3. RegFollows'
    BY <1>0, <1>8 DEF free_netdev, RegFollows, RegTypes, RegTables
  <2>4. RegTables'
    BY <1>0, <1>8 DEF free_netdev, RegTables, RegTypes
  <2>5. RegRefs'
    BY <1>0, <1>8 DEF free_netdev, RegRefs, RegTypes, RegStates, RegTables
  <2> QED BY <2>1, <2>2, <2>3, <2>4, <2>5
<1>9. ASSUME NEW d \in RDev, dev_put(d) PROVE RegInv'
  <2>1. RegTypes'
    BY <1>9 DEF dev_put, RegTypes, RegStates, RegRefs
  <2>2. RegViews'
    BY <1>0, <1>9 DEF dev_put, RegViews, Known, RegTypes, RegTables, Learn, Forget, InScope
  <2>3. RegFollows'
    BY <1>0, <1>9 DEF dev_put, RegFollows, RegTypes, RegTables
  <2>4. RegTables'
    BY <1>0, <1>9 DEF dev_put, RegTables, RegTypes
  <2>5. RegRefs'
    BY <1>0, <1>9 DEF dev_put, RegRefs, RegTypes, RegStates, RegTables
  <2> QED BY <2>1, <2>2, <2>3, <2>4, <2>5
<1>10. ASSUME NEW d \in RDev, dev_open(d) PROVE RegInv'
  <2>1. RegTypes'
    BY <1>0, <1>10 DEF dev_open, RegTypes, RegStates, Learn, Forget
  <2>2. RegViews'
    BY <1>0, <1>10 DEF dev_open, RegViews, Known, RegTypes, RegTables, Learn, Forget, InScope
  <2>3. RegFollows'
    BY <1>0, <1>10 DEF dev_open, RegFollows, RegTypes, RegTables
  <2>4. RegTables'
    BY <1>0, <1>10 DEF dev_open, RegTables, RegTypes
  <2>5. RegRefs'
    BY <1>0, <1>10 DEF dev_open, RegRefs, RegTypes, RegStates, RegTables
  <2> QED BY <2>1, <2>2, <2>3, <2>4, <2>5
<1>11. ASSUME NEW d \in RDev, dev_close(d) PROVE RegInv'
  <2>1. RegTypes'
    BY <1>0, <1>11 DEF dev_close, RegTypes, RegStates, Learn, Forget
  <2>2. RegViews'
    BY <1>0, <1>11 DEF dev_close, RegViews, Known, RegTypes, RegTables, Learn, Forget, InScope
  <2>3. RegFollows'
    BY <1>0, <1>11 DEF dev_close, RegFollows, RegTypes, RegTables
  <2>4. RegTables'
    BY <1>0, <1>11 DEF dev_close, RegTables, RegTypes
  <2>5. RegRefs'
    BY <1>0, <1>11 DEF dev_close, RegRefs, RegTypes, RegStates, RegTables
  <2> QED BY <2>1, <2>2, <2>3, <2>4, <2>5
<1>12. ASSUME NEW d \in RDev, dev_change_name(d) PROVE RegInv'
  <2>1. RegTypes'
    BY <1>0, <1>12 DEF dev_change_name, RegTypes, RegStates, Learn, Forget
  <2>2. RegViews'
    BY <1>0, <1>12 DEF dev_change_name, RegViews, Known, RegTypes, RegTables, Learn, Forget, InScope
  <2>3. RegFollows'
    BY <1>0, <1>12 DEF dev_change_name, RegFollows, RegTypes, RegTables
  <2>4. RegTables'
    BY <1>0, <1>12 DEF dev_change_name, RegTables, RegTypes
  <2>5. RegRefs'
    BY <1>0, <1>12 DEF dev_change_name, RegRefs, RegTypes, RegStates, RegTables
  <2> QED BY <2>1, <2>2, <2>3, <2>4, <2>5
<1>13. ASSUME NEW d \in RDev, netdev_name_node_alt_create(d) PROVE RegInv'
  <2>1. RegTypes'
    BY <1>0, <1>13 DEF netdev_name_node_alt_create, RegTypes, RegStates, Learn, Forget
  <2>2. RegViews'
    BY <1>0, <1>13 DEF netdev_name_node_alt_create, RegViews, Known, RegTypes, RegTables, Learn, Forget, InScope
  <2>3. RegFollows'
    BY <1>0, <1>13 DEF netdev_name_node_alt_create, RegFollows, RegTypes, RegTables
  <2>4. RegTables'
    BY <1>0, <1>13 DEF netdev_name_node_alt_create, RegTables, RegTypes
  <2>5. RegRefs'
    BY <1>0, <1>13 DEF netdev_name_node_alt_create, RegRefs, RegTypes, RegStates, RegTables
  <2> QED BY <2>1, <2>2, <2>3, <2>4, <2>5
<1>14. ASSUME NEW d \in RDev, netdev_name_node_alt_destroy(d) PROVE RegInv'
  <2>1. RegTypes'
    BY <1>0, <1>14 DEF netdev_name_node_alt_destroy, RegTypes, RegStates, Learn, Forget
  <2>2. RegViews'
    BY <1>0, <1>14 DEF netdev_name_node_alt_destroy, RegViews, Known, RegTypes, RegTables, Learn, Forget, InScope
  <2>3. RegFollows'
    BY <1>0, <1>14 DEF netdev_name_node_alt_destroy, RegFollows, RegTypes, RegTables
  <2>4. RegTables'
    BY <1>0, <1>14 DEF netdev_name_node_alt_destroy, RegTables, RegTypes
  <2>5. RegRefs'
    BY <1>0, <1>14 DEF netdev_name_node_alt_destroy, RegRefs, RegTypes, RegStates, RegTables
  <2> QED BY <2>1, <2>2, <2>3, <2>4, <2>5
<1>15. ASSUME NEW d \in RDev, NEW n \in Netns, __dev_change_net_namespace(d, n) PROVE RegInv'
  <2> DEFINE order == ChainOf(scope', n)
             gone == Forget(view, All(net[d]), d)
             down == Forget(up_view, All(net[d]), d)
             moved == [b \in Notifier |-> IF follows[b] = d THEN In(n) ELSE gone[b]]
  <2>1. /\ reg_state[d] = "REGISTERED" /\ net[d] # n /\ d \in listed
        /\ net' = [net EXCEPT ![d] = n] /\ iff_up' = iff_up \ {d}
        /\ scope' = [b \in Notifier |-> IF follows[b] = d THEN n ELSE scope[b]]
        /\ UNCHANGED <<reg_state, listed, altnames, held, refcnt, todo, follows, misnamed>>
    BY <1>15 DEF __dev_change_net_namespace, RegTables
  <2>2. PICK x \in Name, i \in IfIndex :
           /\ IF name_lookup(n, dname[d]) = {} THEN x = dname[d] ELSE x \in ValidNames(n)
           /\ index_lookup(n, i) = {}
           /\ dname' = [dname EXCEPT ![d] = x] /\ ifindex' = [ifindex EXCEPT ![d] = i]
    BY <1>15 DEF __dev_change_net_namespace
  <2>3. PICK k \in 0 .. Len(order) :
           /\ view' = Learn(moved, ToSet(SubSeq(order, 1, k)), d)
           /\ up_view' = [b \in Notifier |-> IF follows[b] = d THEN In(n) \cap iff_up ELSE down[b]]
           /\ refused' = (refused \/ k < Len(order))
    BY <1>15 DEF __dev_change_net_namespace
  <2>4. /\ ToSet(SubSeq(order, 1, k)) \subseteq {b \in Notifier : scope'[b] \in {n, "all"}}
        /\ ~refused' => /\ ~refused
                        /\ ToSet(SubSeq(order, 1, k)) = {b \in Notifier : scope'[b] \in {n, "all"}}
    <3>1. Len(order) \in Nat
      BY ChainMembers
    <3>2. ToSet(order) = {b \in Notifier : scope'[b] \in {n, "all"}}
      BY ChainMembers
    <3>3. /\ ToSet(SubSeq(order, 1, k)) \subseteq ToSet(order)
          /\ k = Len(order) => SubSeq(order, 1, k) = order
      BY ChainMembers
    <3> HIDE DEF order
    <3>4. ~refused' => ~refused /\ k = Len(order)
      <4>1. k < Len(order) \/ k = Len(order)
        BY <3>1
      <4> QED BY <2>3, <4>1, Zenon
    <3> QED BY <3>2, <3>3, <3>4
  <2> HIDE DEF order
  <2>5. RegTypes'
    <3>1. In(n) \subseteq RDev
      BY DEF In, RegTables
    <3>2. moved \in [Notifier -> SUBSET RDev] /\ down \in [Notifier -> SUBSET RDev]
      BY <3>1 DEF Forget, RegTypes
    <3> HIDE DEF moved, down
    <3>3. view' \in [Notifier -> SUBSET RDev]
      BY <2>3, <3>2 DEF Learn
    <3>4. up_view' \in [Notifier -> SUBSET RDev]
      BY <2>3, <3>1, <3>2
    <3>5. refused' \in BOOLEAN
      BY <2>3
    <3>6. scope' \in [Notifier -> {"off", "all"} \cup Netns]
      BY <2>1 DEF RegTypes
    <3> QED BY <2>1, <2>2, <3>3, <3>4, <3>5, <3>6 DEF RegTypes
  <2>6. RegViews'
    <3> SUFFICES ASSUME NEW b \in Notifier
                 PROVE  /\ view'[b] \subseteq Known(b)' /\ up_view'[b] \subseteq iff_up' \cap Known(b)'
                        /\ ~refused' => view'[b] = Known(b)' /\ up_view'[b] = iff_up' \cap Known(b)'
      BY DEF RegViews
    <3> DEFINE K == {e \in listed : InScope(b, net[e])}
    <3>1. Known(b)' = {e \in listed : scope'[b] \in {net'[e], "all"}}
      BY <2>1 DEF Known, InScope
    <3>2. /\ view[b] \subseteq K /\ up_view[b] \subseteq iff_up \cap K
          /\ ~refused => view[b] = K /\ up_view[b] = iff_up \cap K
      BY DEF RegViews, Known
    <3>3. /\ gone[b] = view[b] \ {d} /\ down[b] = up_view[b] \ {d}
      <4>1. CASE b \in All(net[d])
        BY <4>1 DEF Forget
      <4>2. CASE b \notin All(net[d])
        <5>1. d \notin K
          BY <1>0, <4>2
        <5> QED BY <3>2, <4>2, <5>1 DEF Forget
      <4> QED BY <4>1, <4>2
    <3>4. CASE follows[b] = d
      <4>1. scope'[b] = n /\ Known(b)' = In(n) \cup {d}
        BY <2>1, <3>1, <3>4 DEF In, RegTypes
      <4>2. view'[b] = (IF b \in ToSet(SubSeq(order, 1, k)) THEN In(n) \cup {d} ELSE In(n))
        BY <2>3, <3>4 DEF Learn
      <4>3. up_view'[b] = In(n) \cap iff_up /\ d \notin In(n)
        BY <2>1, <2>3, <3>4 DEF In
      <4> QED BY <2>1, <2>4, <4>1, <4>2, <4>3
    <3>5. CASE follows[b] # d
      <4>1. scope'[b] = scope[b]
        BY <2>1, <3>5
      <4>2. Known(b)' = (K \ {d}) \cup (IF scope[b] \in {n, "all"} THEN {d} ELSE {})
        BY <2>1, <3>1, <4>1 DEF InScope, RegTypes
      <4>3. view'[b] = (IF b \in ToSet(SubSeq(order, 1, k)) THEN gone[b] \cup {d} ELSE gone[b])
        BY <2>3, <3>5 DEF Learn
      <4>4. up_view'[b] = down[b]
        BY <2>3, <3>5
      <4> HIDE DEF K, gone, down
      <4> QED BY <2>1, <2>4, <3>2, <3>3, <4>1, <4>2, <4>3, <4>4
    <3> QED BY <3>4, <3>5
  <2>7. RegFollows'
    BY <2>1 DEF RegFollows, RegTypes
  <2>8. RegTables'
    <3>1. \A e \in listed : net[e] = n => dname[e] # x /\ ifindex[e] # i
      BY <1>0, <2>2 DEF name_lookup, index_lookup, In
    <3>2. listed \subseteq RDev
      BY DEF RegTables
    <3>3. ASSUME NEW e \in listed, NEW g \in listed, e # g, net'[e] = net'[g]
          PROVE  ifindex'[e] # ifindex'[g] /\ (~misnamed' => dname'[e] # dname'[g])
      <4>1. CASE e = d
        BY <2>1, <2>2, <3>1, <3>2, <3>3, <4>1 DEF RegTypes
      <4>2. CASE g = d
        BY <2>1, <2>2, <3>1, <3>2, <3>3, <4>2 DEF RegTypes
      <4>3. CASE e # d /\ g # d
        BY <2>1, <2>2, <3>2, <3>3, <4>3 DEF RegTypes, RegTables
      <4> QED BY <4>1, <4>2, <4>3
    <3> QED BY <2>1, <3>3 DEF RegTables
  <2>9. RegRefs'
    BY <2>1 DEF RegRefs
  <2> QED BY <2>5, <2>6, <2>7, <2>8, <2>9
<1>16. ASSUME NEW d \in RDev, NEW n \in Netns, __dev_change_net_namespace_busy(d, n) PROVE RegInv'
  <2>1. RegTypes'
    BY <1>0, <1>16 DEF __dev_change_net_namespace_busy, RegTypes, RegStates, Learn, Forget
  <2>2. RegViews'
    BY <1>0, <1>16 DEF __dev_change_net_namespace_busy, RegViews, Known, RegTypes, RegTables, Learn, Forget, InScope
  <2>3. RegFollows'
    BY <1>0, <1>16 DEF __dev_change_net_namespace_busy, RegFollows, RegTypes, RegTables
  <2>4. RegTables'
    BY <1>0, <1>16 DEF __dev_change_net_namespace_busy, RegTables, RegTypes
  <2>5. RegRefs'
    BY <1>0, <1>16 DEF __dev_change_net_namespace_busy, RegRefs, RegTypes, RegStates, RegTables
  <2> QED BY <2>1, <2>2, <2>3, <2>4, <2>5
<1>17. ASSUME NEW b \in Notifier, NEW d \in RDev, register_netdevice_notifier_dev_net(b, d) PROVE RegInv'
  <2>1. RegTypes'
    BY <1>17 DEF register_netdevice_notifier_dev_net, Replay, In, RegTypes, RegTables
  <2>2. RegViews'
    BY <1>0, <1>17 DEF register_netdevice_notifier_dev_net, Replay, In, RegViews, Known, RegTypes, RegTables, Learn, Forget, InScope
  <2>3. RegFollows'
    BY <1>0, <1>17 DEF register_netdevice_notifier_dev_net, Replay, In, RegFollows, RegTypes, RegTables
  <2>4. RegTables'
    BY <1>0, <1>17 DEF register_netdevice_notifier_dev_net, Replay, In, RegTables, RegTypes
  <2>5. RegRefs'
    BY <1>0, <1>17 DEF register_netdevice_notifier_dev_net, Replay, In, RegRefs, RegTypes, RegStates, RegTables
  <2> QED BY <2>1, <2>2, <2>3, <2>4, <2>5
<1>18. ASSUME NEW n \in Netns, dev_get(n) PROVE RegInv'
  <2>1. PICK d \in listed : /\ d \notin held /\ held' = held \cup {d}
                            /\ refcnt' = [refcnt EXCEPT ![d] = @ + 1]
    <3> DEFINE found == UNION ({name_lookup(n, x) : x \in Name} \cup {index_lookup(n, i) : i \in IfIndex})
    <3>1. PICK d \in found : /\ d \notin held /\ held' = held \cup {d}
                             /\ refcnt' = [refcnt EXCEPT ![d] = @ + 1]
      BY <1>18 DEF dev_get
    <3>2. /\ \A x \in Name : name_lookup(n, x) \subseteq listed
          /\ \A i \in IfIndex : index_lookup(n, i) \subseteq listed
      BY LookupListed
    <3>3. d \in listed
      BY <3>2
    <3> HIDE DEF found
    <3> QED BY <3>1, <3>3
  <2>2. d \in RDev /\ reg_state[d] = "REGISTERED"
    BY DEF RegTables
  <2>3. UNCHANGED <<reg_state, net, table_vars, iff_up, todo, notifier_vars, ghost_vars>>
    BY <1>18 DEF dev_get
  <2>4. RegTypes'
    BY <2>1, <2>2, <2>3 DEF RegTypes
  <2>5. RegRefs'
    BY <2>1, <2>2, <2>3 DEF RegRefs, RegTypes
  <2>6. RegViews' /\ RegFollows' /\ RegTables'
    BY <2>3 DEF RegViews, RegFollows, RegTables, Known, InScope
  <2> QED BY <2>4, <2>5, <2>6
<1>19. ASSUME NEW b \in Notifier, register_netdevice_notifier(b) PROVE RegInv'
  <2>1. RegTypes'
    BY <1>19 DEF register_netdevice_notifier, Replay, In, RegTypes, RegTables
  <2>2. RegViews'
    BY <1>0, <1>19 DEF register_netdevice_notifier, Replay, In, RegViews, Known, RegTypes, RegTables, Learn, Forget, InScope
  <2>3. RegFollows'
    BY <1>0, <1>19 DEF register_netdevice_notifier, Replay, In, RegFollows, RegTypes, RegTables
  <2>4. RegTables'
    BY <1>0, <1>19 DEF register_netdevice_notifier, Replay, In, RegTables, RegTypes
  <2>5. RegRefs'
    BY <1>0, <1>19 DEF register_netdevice_notifier, Replay, In, RegRefs, RegTypes, RegStates, RegTables
  <2> QED BY <2>1, <2>2, <2>3, <2>4, <2>5
<1>20. ASSUME NEW b \in Notifier, unregister_netdevice_notifier(b) PROVE RegInv'
  <2>1. RegTypes'
    BY <1>0, <1>20 DEF unregister_netdevice_notifier, Replay, In, RegTypes, RegStates, Learn, Forget
  <2>2. RegViews'
    BY <1>0, <1>20 DEF unregister_netdevice_notifier, Replay, In, RegViews, Known, RegTypes, RegTables, Learn, Forget, InScope
  <2>3. RegFollows'
    BY <1>0, <1>20 DEF unregister_netdevice_notifier, Replay, In, RegFollows, RegTypes, RegTables
  <2>4. RegTables'
    BY <1>0, <1>20 DEF unregister_netdevice_notifier, Replay, In, RegTables, RegTypes
  <2>5. RegRefs'
    BY <1>0, <1>20 DEF unregister_netdevice_notifier, Replay, In, RegRefs, RegTypes, RegStates, RegTables
  <2> QED BY <2>1, <2>2, <2>3, <2>4, <2>5
<1>21. ASSUME NEW b \in Notifier, NEW n \in Netns, register_netdevice_notifier_net(b, n) PROVE RegInv'
  <2>1. RegTypes'
    BY <1>21 DEF register_netdevice_notifier_net, Replay, In, RegTypes, RegTables
  <2>2. RegViews'
    BY <1>0, <1>21 DEF register_netdevice_notifier_net, Replay, In, RegViews, Known, RegTypes, RegTables, Learn, Forget, InScope
  <2>3. RegFollows'
    BY <1>0, <1>21 DEF register_netdevice_notifier_net, Replay, In, RegFollows, RegTypes, RegTables
  <2>4. RegTables'
    BY <1>0, <1>21 DEF register_netdevice_notifier_net, Replay, In, RegTables, RegTypes
  <2>5. RegRefs'
    BY <1>0, <1>21 DEF register_netdevice_notifier_net, Replay, In, RegRefs, RegTypes, RegStates, RegTables
  <2> QED BY <2>1, <2>2, <2>3, <2>4, <2>5
<1> QED BY <1>1, <1>2, <1>3, <1>4, <1>5, <1>6, <1>7, <1>8, <1>9, <1>10, <1>11, <1>12, <1>13, <1>14, <1>15, <1>16, <1>17, <1>18, <1>19, <1>20, <1>21 DEF NetdevRegistryNext

LEMMA RegTurn ==
    ASSUME [ComponentsNext]_components_vars, part' = "registry"
    PROVE  part = "registry" /\ [NetdevRegistryNext]_registry_vars
BY DEF ComponentsNext, components_vars, Turn

LEMMA RegRests == RegInv /\ UNCHANGED registry_vars => RegInv'
<1> SUFFICES ASSUME RegInv, UNCHANGED registry_vars PROVE RegInv'
  OBVIOUS
<1>1. RegTypes' /\ RegFollows' /\ RegTables' /\ RegRefs'
  BY DEF RegInv, RegTypes, RegFollows, RegTables, RegRefs, registry_vars, table_vars, notifier_vars, ghost_vars
<1>2. RegViews'
  BY DEF RegInv, RegViews, Known, InScope, registry_vars, table_vars, notifier_vars, ghost_vars
<1> QED BY <1>1, <1>2 DEF RegInv

(* The registry of network devices, for any devices, namespaces, names and  *)
(* finite set of notifiers: through registrations that are refused half way *)
(* down a chain, removals in two halves, moves between namespaces and       *)
(* notifiers that come and go, each notifier knows the devices in its       *)
(* scope, indexes and names stay unique, and a device is freed only when    *)
(* nobody holds it.                                                         *)
THEOREM RegistryAgrees == ComponentsSpec => []Registry
<1> DEFINE I == part = "registry" => RegInv
<1>1. ComponentsInit => I
  BY RegStart DEF ComponentsInit
<1>2. I /\ [ComponentsNext]_components_vars => I'
  BY RegTurn, RegStep, RegRests
<1>3. I => Registry
  BY RegSoundFrom DEF Registry, While
<1> QED BY <1>1, <1>2, <1>3, PTL DEF ComponentsSpec

------------------------------------------------------------------------------
(* Scheduling policies and priority inheritance *)

(* The record that the model keeps of a task.                               *)
SpRecord == [policy : Policy, priority : 0 .. SpRtPrio, nice : SpNice, prio : Nat, on_rq : BOOLEAN]

(* The values of the variables of the scheduling policies.                  *)
SpTypes ==
    /\ sp_task \in [SpTask -> SpRecord]
    /\ sp_queue \in [0 .. SpRtPrio -> Seq(SpTask)]
    /\ sp_curr \in SpTask \cup {NoTask} /\ sp_resched \in BOOLEAN
    /\ sp_wait \in [SpTask -> SpTask \cup {NoTask}]
    /\ sp_wprio \in [SpTask -> Nat]
    /\ sp_top \in [SpTask -> SpTask \cup {NoTask}]
    /\ sp_adjust \subseteq SpTask
    /\ sp_call \in [t : SpTask \cup {NoTask}, policy : Policy, prio : 0 .. SpRtPrio, nice : SpNice]

(* Policy and priority agree, in a task and in a call on its way.           *)
SpPolicies ==
    /\ \A t \in SpTask : rt_policy(sp_task[t].policy) <=> sp_task[t].priority # 0
    /\ sp_call # NoSpCall => sp_call.t \in SpTask /\ (rt_policy(sp_call.policy) <=> sp_call.prio # 0)

Distinct(s) == \A i, j \in DOMAIN s : i # j => s[i] # s[j]

(* The run queue lists the runnable real-time tasks by priority.            *)
SpLists ==
    \A p \in 0 .. SpRtPrio :
       /\ Distinct(sp_queue[p])
       /\ ToSet(sp_queue[p]) = {t \in SpTask : sp_task[t].on_rq /\ sp_task[t].prio = p}

(* The task that runs is runnable, and none has a higher real-time priority *)
(* without a reschedule being asked for.                                    *)
SpRuns ==
    /\ sp_curr # NoTask => sp_task[sp_curr].on_rq
    /\ \A t \in SpTask :
          (sp_task[t].on_rq /\ rt_prio(sp_task[t].prio) /\ ~sp_resched)
             => sp_curr # NoTask /\ sp_task[sp_curr].prio <= sp_task[t].prio

(* w is a first waiter of o.                                                *)
IsTop(wait, wprio, o, w) ==
    IF Waiters(wait, o) = {} THEN w = NoTask
    ELSE w \in Waiters(wait, o) /\ \A u \in Waiters(wait, o) : wprio[w] <= wprio[u]

(* The priority a task should have: its own or that of its donor.           *)
Effective(t) == IF sp_top[t] = NoTask THEN Normal(t) ELSE Less(Normal(t), sp_task[sp_top[t]].prio)

(* pi_top_task is a first waiter, and nobody waits for itself.              *)
SpTops == \A t \in SpTask : sp_wait[t] # t /\ IsTop(sp_wait, sp_wprio, t, sp_top[t])

(* A waiter is in the tree with its priority, unless a chain walk that will *)
(* put it there is under way.                                               *)
SpWaits == \A t \in SpTask : sp_wait[t] # NoTask /\ t \notin sp_adjust => sp_wprio[t] = waiter_prio(t)

(* A task has its effective priority as far as real-time priorities go,     *)
(* unless a walk for its donor is under way.                                *)
SpBoosts ==
    \A t \in SpTask :
       sp_top[t] \notin sp_adjust /\ (rt_prio(sp_task[t].prio) \/ rt_prio(Effective(t)))
          => sp_task[t].prio = Effective(t)

(* The inductive invariant of the scheduling policies.                      *)
SpInv == SpTypes /\ SpPolicies /\ SpLists /\ SpRuns /\ SpTops /\ SpWaits /\ SpBoosts

(* What is left when one place of a sequence is removed.                    *)
LEMMA PlaceRemoved ==
    ASSUME NEW S, NEW s \in Seq(S), NEW k \in 1 .. Len(s)
    PROVE  /\ RemoveAt(s, k) \in Seq(S) /\ DOMAIN RemoveAt(s, k) = 1 .. Len(s) - 1
           /\ \A i \in 1 .. Len(s) - 1 : RemoveAt(s, k)[i] = IF i < k THEN s[i] ELSE s[i + 1]
<1>1. PICK n \in Nat : n = Len(s)
  BY LenProperties
<1>2. DOMAIN s = 1 .. n /\ \A i \in 1 .. n : s[i] \in S
  BY <1>1, LenProperties
<1>3. PICK a : a = SubSeq(s, 1, k - 1)
  OBVIOUS
<1>4. PICK b : b = SubSeq(s, k + 1, n)
  OBVIOUS
<1>k. k \in Nat /\ 1 <= k /\ k <= n
  BY <1>1
<1>5. a \in Seq(S) /\ Len(a) = k - 1 /\ \A i \in 1 .. k - 1 : a[i] = s[i]
  <2>1. \A i \in 1 .. k - 1 : s[i] \in S
    BY <1>2, <1>k
  <2>2. 1 \in Int /\ k - 1 \in Int
    BY <1>k
  <2>3. /\ a \in Seq(S) /\ Len(a) = (IF 1 <= k - 1 THEN k - 1 - 1 + 1 ELSE 0)
        /\ \A i \in 1 .. k - 1 - 1 + 1 : a[i] = s[1 + i - 1]
    BY <1>3, <2>1, <2>2, SubSeqProperties
  <2>4. ASSUME NEW i \in 1 .. k - 1 PROVE a[i] = s[i]
    <3>1. i \in 1 .. k - 1 - 1 + 1 /\ 1 + i - 1 = i
      BY <1>k
    <3> QED BY <2>3, <3>1
  <2>5. Len(a) = k - 1
    BY <1>k, <2>3
  <2> QED BY <2>3, <2>4, <2>5
<1>6. b \in Seq(S) /\ Len(b) = n - k /\ \A i \in 1 .. n - k : b[i] = s[k + i]
  <2>1. \A i \in k + 1 .. n : s[i] \in S
    BY <1>2, <1>k
  <2>2. k + 1 \in Int /\ n \in Int
    BY <1>1, <1>k
  <2>3. /\ b \in Seq(S) /\ Len(b) = (IF k + 1 <= n THEN n - (k + 1) + 1 ELSE 0)
        /\ \A i \in 1 .. n - (k + 1) + 1 : b[i] = s[k + 1 + i - 1]
    BY <1>4, <2>1, <2>2, SubSeqProperties
  <2>4. ASSUME NEW i \in 1 .. n - k PROVE b[i] = s[k + i]
    <3>1. i \in 1 .. n - (k + 1) + 1 /\ k + 1 + i - 1 = k + i
      BY <1>1, <1>k
    <3> QED BY <2>3, <3>1
  <2>5. Len(b) = n - k
    BY <1>1, <1>k, <2>3
  <2> QED BY <2>3, <2>4, <2>5
<1>7. PICK r : r = a \o b
  OBVIOUS
<1>8. /\ r \in Seq(S) /\ Len(r) = Len(a) + Len(b)
      /\ \A i \in 1 .. Len(a) + Len(b) : r[i] = IF i <= Len(a) THEN a[i] ELSE b[i - Len(a)]
  BY <1>5, <1>6, <1>7, ConcatProperties
<1>9. Len(r) = n - 1 /\ DOMAIN r = 1 .. n - 1
  <2>1. Len(r) = n - 1
    BY <1>1, <1>k, <1>5, <1>6, <1>8
  <2> QED BY <1>8, <2>1, LenProperties
<1>10. ASSUME NEW i \in 1 .. n - 1 PROVE r[i] = IF i < k THEN s[i] ELSE s[i + 1]
  <2>0. i \in Int /\ i \in 1 .. Len(a) + Len(b)
    BY <1>1, <1>k, <1>5, <1>6
  <2>1. CASE i < k
    <3>1. i <= Len(a) /\ i \in 1 .. k - 1
      BY <1>k, <1>5, <2>0, <2>1
    <3> QED BY <1>5, <1>8, <2>0, <2>1, <3>1
  <2>2. CASE ~(i < k)
    <3>1. ~(i <= Len(a)) /\ i - Len(a) = i - k + 1 /\ i - k + 1 \in 1 .. n - k /\ k + (i - k + 1) = i + 1
      BY <1>1, <1>k, <1>5, <2>0, <2>2
    <3>2. r[i] = b[i - k + 1]
      BY <1>8, <2>0, <3>1
    <3>3. b[i - k + 1] = s[k + (i - k + 1)]
      BY <1>6, <3>1
    <3> QED BY <2>2, <3>1, <3>2, <3>3
  <2> QED BY <2>1, <2>2
<1>11. RemoveAt(s, k) = r
  BY <1>1, <1>3, <1>4, <1>7 DEF RemoveAt
<1> QED BY <1>1, <1>8, <1>9, <1>10, <1>11

(* The first occurrence that RemoveFirst removes exists.                    *)
LEMMA FirstFound ==
    ASSUME NEW S, NEW s \in Seq(S), NEW e, \E i \in 1 .. Len(s) : s[i] = e
    PROVE  \E k \in 1 .. Len(s) : s[k] = e /\ RemoveFirst(s, e) = RemoveAt(s, k)
<1>1. PICK I : I = {i \in 1 .. Len(s) : s[i] = e}
  OBVIOUS
<1>2. I \subseteq Nat /\ I # {}
  BY <1>1
<1>3. \E i \in I : \A j \in I : i <= j
  BY <1>2, LeastElement
<1>4. Min(I) \in I
  BY <1>3 DEF Min
<1>5. SelectInSeq(s, LAMBDA v : v = e) = Min(I)
  BY <1>1, <1>2 DEF SelectInSeq
<1>6. RemoveFirst(s, e) = RemoveAt(s, Min(I))
  BY <1>5 DEF RemoveFirst
<1> QED BY <1>1, <1>4, <1>6

(* list_del: a list without repetition loses that element.                  *)
LEMMA FirstRemoved ==
    ASSUME NEW S, NEW s \in Seq(S), Distinct(s), NEW e
    PROVE  /\ RemoveFirst(s, e) \in Seq(S) /\ Distinct(RemoveFirst(s, e))
           /\ ToSet(RemoveFirst(s, e)) = ToSet(s) \ {e}
<1>1. PICK n \in Nat : n = Len(s) /\ DOMAIN s = 1 .. n
  BY LenProperties
<1>2. CASE ~ \E i \in 1 .. Len(s) : s[i] = e
  BY <1>1, <1>2 DEF RemoveFirst, ToSet
<1>3. CASE \E i \in 1 .. Len(s) : s[i] = e
  <2>1. PICK k \in 1 .. Len(s) : s[k] = e /\ RemoveFirst(s, e) = RemoveAt(s, k)
    BY <1>3, FirstFound
  <2>2. PICK r : r = RemoveFirst(s, e)
    OBVIOUS
  <2>3. /\ r \in Seq(S) /\ DOMAIN r = 1 .. n - 1
        /\ \A i \in 1 .. n - 1 : r[i] = IF i < k THEN s[i] ELSE s[i + 1]
    BY <1>1, <2>1, <2>2, PlaceRemoved
  <2>k. k \in Nat /\ 1 <= k /\ k <= n
    BY <1>1, <2>1
  <2>d. \A i, j \in 1 .. n : i # j => s[i] # s[j]
    BY <1>1 DEF Distinct
  <2>4. \A i \in 1 .. n - 1 : \E m \in 1 .. n : r[i] = s[m] /\ m # k /\ m = IF i < k THEN i ELSE i + 1
    BY <1>1, <2>k, <2>3
  <2>5. ASSUME NEW i \in 1 .. n - 1, NEW j \in 1 .. n - 1, i # j PROVE r[i] # r[j]
    <3>1. PICK mi \in 1 .. n : r[i] = s[mi] /\ mi = IF i < k THEN i ELSE i + 1
      BY <2>4
    <3>2. PICK mj \in 1 .. n : r[j] = s[mj] /\ mj = IF j < k THEN j ELSE j + 1
      BY <2>4
    <3>3. mi # mj
      BY <2>k, <2>5, <3>1, <3>2
    <3> QED BY <2>d, <3>1, <3>2, <3>3
  <2>6. Distinct(r)
    BY <2>3, <2>5 DEF Distinct
  <2>7. ToSet(r) = ToSet(s) \ {e}
    <3>1. ASSUME NEW i \in 1 .. n - 1 PROVE r[i] \in ToSet(s) \ {e}
      <4>1. PICK m \in 1 .. n : r[i] = s[m] /\ m # k
        BY <2>4
      <4>2. s[m] # e
        BY <1>1, <2>1, <2>d, <4>1
      <4> QED BY <1>1, <4>1, <4>2 DEF ToSet
    <3>2. ASSUME NEW i \in 1 .. n, s[i] # e PROVE \E j \in 1 .. n - 1 : r[j] = s[i]
      <4>1. CASE i < k
        <5>1. i \in 1 .. n - 1
          BY <2>k, <4>1
        <5> QED BY <2>3, <4>1, <5>1
      <4>2. CASE ~(i < k)
        <5>1. i # k
          BY <2>1, <3>2
        <5>2. i - 1 \in 1 .. n - 1 /\ ~(i - 1 < k) /\ (i - 1) + 1 = i
          BY <1>1, <2>k, <4>2, <5>1
        <5>3. r[i - 1] = s[(i - 1) + 1]
          BY <2>3, <5>2
        <5> QED BY <5>2, <5>3
      <4> QED BY <4>1, <4>2
    <3>3. ToSet(r) = {r[i] : i \in 1 .. n - 1} /\ ToSet(s) = {s[i] : i \in 1 .. n}
      BY <1>1, <2>3 DEF ToSet
    <3>4. ToSet(r) \subseteq ToSet(s) \ {e}
      BY <3>1, <3>3
    <3>5. ToSet(s) \ {e} \subseteq ToSet(r)
      BY <3>2, <3>3
    <3> QED BY <3>4, <3>5
  <2> QED BY <2>2, <2>3, <2>6, <2>7
<1> QED BY <1>2, <1>3

(* list_add_tail: an element that was not there is added once,              *)
LEMMA LastAdded ==
    ASSUME NEW S, NEW s \in Seq(S), Distinct(s), NEW e \in S, e \notin ToSet(s)
    PROVE  /\ Append(s, e) \in Seq(S) /\ Distinct(Append(s, e))
           /\ ToSet(Append(s, e)) = ToSet(s) \cup {e}
<1> DEFINE r == Append(s, e)
<1>1. Len(s) \in Nat /\ DOMAIN s = 1 .. Len(s)
  BY LenProperties
<1>2. /\ r \in Seq(S) /\ Len(r) = Len(s) + 1
      /\ \A i \in 1 .. Len(s) : r[i] = s[i]
      /\ r[Len(s) + 1] = e
  BY AppendProperties
<1>3. DOMAIN r = 1 .. Len(s) + 1
  BY <1>2, LenProperties
<1> HIDE DEF r
<1>4. \A i \in 1 .. Len(s) : s[i] \in ToSet(s)
  BY <1>1 DEF ToSet
<1>5. Distinct(r)
  BY <1>1, <1>2, <1>3, <1>4 DEF Distinct
<1>6. ToSet(r) = ToSet(s) \cup {e}
  BY <1>1, <1>2, <1>3 DEF ToSet
<1> QED BY <1>2, <1>5, <1>6 DEF r

(* and so for list_add, at the head.                                        *)
LEMMA FirstAdded ==
    ASSUME NEW S, NEW s \in Seq(S), Distinct(s), NEW e \in S, e \notin ToSet(s)
    PROVE  /\ <<e>> \o s \in Seq(S) /\ Distinct(<<e>> \o s)
           /\ ToSet(<<e>> \o s) = ToSet(s) \cup {e}
<1> DEFINE r == <<e>> \o s
<1>1. Len(s) \in Nat /\ DOMAIN s = 1 .. Len(s)
  BY LenProperties
<1>2. /\ r \in Seq(S) /\ Len(r) = Len(s) + 1
      /\ \A i \in 1 .. Len(s) : r[i + 1] = s[i]
      /\ r[1] = e
  <2>1. <<e>> \in Seq(S) /\ Len(<<e>>) = 1 /\ <<e>>[1] = e
    OBVIOUS
  <2>2. /\ r \in Seq(S) /\ Len(r) = 1 + Len(s)
        /\ \A i \in 1 .. 1 + Len(s) : r[i] = IF i <= 1 THEN <<e>>[i] ELSE s[i - 1]
    BY <2>1, ConcatProperties
  <2> HIDE DEF r
  <2>3. \A i \in 1 .. Len(s) : r[i + 1] = s[i]
    BY <1>1, <2>2
  <2> QED BY <1>1, <2>1, <2>2, <2>3
<1>3. DOMAIN r = 1 .. Len(s) + 1
  BY <1>2, LenProperties
<1> HIDE DEF r
<1>4. \A i \in 1 .. Len(s) : s[i] \in ToSet(s)
  BY <1>1 DEF ToSet
<1>7. \A i \in 2 .. Len(s) + 1 : i - 1 \in 1 .. Len(s) /\ r[i] = s[i - 1]
  BY <1>1, <1>2
<1>5. Distinct(r)
  <2>1. ASSUME NEW i \in 1 .. Len(s) + 1, NEW j \in 1 .. Len(s) + 1, i < j PROVE r[i] # r[j]
    <3>1. j \in 2 .. Len(s) + 1 /\ (i = 1 \/ i \in 2 .. Len(s) + 1)
      BY <1>1, <2>1
    <3>2. CASE i = 1
      BY <1>2, <1>4, <1>7, <3>1, <3>2
    <3>3. CASE i \in 2 .. Len(s) + 1
      <4>1. i - 1 \in 1 .. Len(s) /\ j - 1 \in 1 .. Len(s) /\ i - 1 # j - 1
        BY <1>1, <2>1, <3>1, <3>3
      <4>2. s[i - 1] # s[j - 1]
        BY <1>1, <4>1 DEF Distinct
      <4> QED BY <1>7, <3>1, <3>3, <4>2
    <3> QED BY <3>1, <3>2, <3>3
  <2>2. ASSUME NEW i \in 1 .. Len(s) + 1, NEW j \in 1 .. Len(s) + 1, i # j PROVE i < j \/ j < i
    BY <1>1, <2>2
  <2> QED BY <1>3, <2>1, <2>2 DEF Distinct
<1>6. ToSet(r) = ToSet(s) \cup {e}
  <2>1. ASSUME NEW i \in 1 .. Len(s) + 1 PROVE r[i] \in ToSet(s) \cup {e}
    <3>1. i = 1 \/ i \in 2 .. Len(s) + 1
      BY <1>1
    <3> QED BY <1>2, <1>4, <1>7, <3>1
  <2>2. ASSUME NEW i \in 1 .. Len(s) PROVE s[i] \in ToSet(r)
    <3>1. i + 1 \in DOMAIN r /\ r[i + 1] = s[i]
      BY <1>1, <1>2, <1>3
    <3> QED BY <3>1 DEF ToSet
  <2>3. e \in ToSet(r)
    BY <1>1, <1>2, <1>3 DEF ToSet
  <2> QED BY <1>1, <1>3, <2>1, <2>2, <2>3 DEF ToSet
<1> QED BY <1>2, <1>5, <1>6 DEF r
(* The lists of the run queue, none with a repetition.                      *)
Queues(q) == q \in [0 .. SpRtPrio -> Seq(SpTask)] /\ \A p \in 0 .. SpRtPrio : Distinct(q[p])

IsUnlisted(l, q, t, prio) == l = Unlist(q, t, prio)

(* dequeue_task changes the list of one priority.                           *)
LEMMA Unlisted ==
    ASSUME NEW q, Queues(q), NEW t \in SpTask, NEW prio \in Nat,
           NEW l, IsUnlisted(l, q, t, prio)
    PROVE  /\ Queues(l)
           /\ \A p \in 0 .. SpRtPrio :
                 ToSet(l[p]) = IF p = prio THEN ToSet(q[p]) \ {t} ELSE ToSet(q[p])
<1>1. CASE ~rt_prio(prio)
  <2>1. \A p \in 0 .. SpRtPrio : p # prio
    BY <1>1, SchedPolicyAssumption DEF rt_prio
  <2> QED BY <1>1, <2>1 DEF IsUnlisted, Unlist
<1>2. CASE rt_prio(prio)
  <2>1. prio \in 0 .. SpRtPrio
    BY <1>2, SchedPolicyAssumption DEF rt_prio
  <2>2. PICK r : r = RemoveFirst(q[prio], t)
    OBVIOUS
  <2>3. q[prio] \in Seq(SpTask) /\ Distinct(q[prio])
    BY <2>1 DEF Queues
  <2>4. r \in Seq(SpTask) /\ Distinct(r) /\ ToSet(r) = ToSet(q[prio]) \ {t}
    BY <2>2, <2>3, FirstRemoved
  <2>5. l = [q EXCEPT ![prio] = r]
    BY <1>2, <2>2 DEF IsUnlisted, Unlist
  <2> QED BY <2>1, <2>4, <2>5 DEF Queues
<1> QED BY <1>1, <1>2

IsListed(l, q, t, prio) ==
    IF rt_prio(prio)
    THEN l = [q EXCEPT ![prio] = <<t>> \o @] \/ l = [q EXCEPT ![prio] = Append(@, t)]
    ELSE l = q

(* enqueue_task changes the list of one priority.                           *)
LEMMA Listed ==
    ASSUME NEW q, Queues(q), NEW t \in SpTask, NEW prio \in Nat,
           \A p \in 0 .. SpRtPrio : t \notin ToSet(q[p]),
           NEW l, IsListed(l, q, t, prio)
    PROVE  /\ Queues(l)
           /\ \A p \in 0 .. SpRtPrio :
                 ToSet(l[p]) = IF p = prio THEN ToSet(q[p]) \cup {t} ELSE ToSet(q[p])
<1>1. CASE ~rt_prio(prio)
  <2>1. \A p \in 0 .. SpRtPrio : p # prio
    BY <1>1, SchedPolicyAssumption DEF rt_prio
  <2>2. l = q
    BY <1>1 DEF IsListed
  <2> QED BY <2>1, <2>2
<1>2. CASE rt_prio(prio)
  <2>1. prio \in 0 .. SpRtPrio
    BY <1>2, SchedPolicyAssumption DEF rt_prio
  <2>2. PICK r : l = [q EXCEPT ![prio] = r] /\ (r = <<t>> \o q[prio] \/ r = Append(q[prio], t))
    BY <1>2 DEF IsListed
  <2>3. q[prio] \in Seq(SpTask) /\ Distinct(q[prio]) /\ t \notin ToSet(q[prio])
    BY <2>1 DEF Queues
  <2>4. r \in Seq(SpTask) /\ Distinct(r) /\ ToSet(r) = ToSet(q[prio]) \cup {t}
    <3>1. CASE r = <<t>> \o q[prio]
      BY <3>1, <2>3, FirstAdded
    <3>2. CASE r = Append(q[prio], t)
      BY <3>2, <2>3, LastAdded
    <3> QED BY <2>2, <3>1, <3>2
  <2> QED BY <2>1, <2>2, <2>4 DEF Queues
<1> QED BY <1>1, <1>2

(* A list is empty when nothing is on it.                                   *)
LEMMA Queued ==
    ASSUME NEW s \in Seq(SpTask)
    PROVE  s # <<>> <=> ToSet(s) # {}
<1>1. Len(s) \in Nat /\ DOMAIN s = 1 .. Len(s)
  BY LenProperties
<1>2. s = <<>> <=> Len(s) = 0
  BY EmptySeq
<1>3. Len(s) # 0 => 1 \in DOMAIN s
  BY <1>1
<1> QED BY <1>1, <1>2, <1>3 DEF ToSet

(* The priorities after t got the priority new.                             *)
PrioAfter(t, new, u) == IF u = t THEN new ELSE sp_task[u].prio

(* A change of priority keeps every runnable real-time task on the list of  *)
(* its priority.                                                            *)
LEMMA Requeued ==
    ASSUME SpTypes, SpLists, NEW t \in SpTask, NEW new \in Nat
    PROVE  LET q == Requeue(sp_queue, t, sp_task[t].prio, new) IN
           /\ Queues(q)
           /\ \A p \in 0 .. SpRtPrio :
                 ToSet(q[p]) = {u \in SpTask : sp_task[u].on_rq /\ PrioAfter(t, new, u) = p}
<1>1. PICK q : q = Requeue(sp_queue, t, sp_task[t].prio, new)
  OBVIOUS
<1>2. Queues(sp_queue) /\ sp_task[t].prio \in Nat
  BY DEF SpRecord, SpTypes, SpLists, Queues
<1>3. \A p \in 0 .. SpRtPrio : ToSet(sp_queue[p]) = {u \in SpTask : sp_task[u].on_rq /\ sp_task[u].prio = p}
  BY DEF SpLists
<1>4. CASE ~sp_task[t].on_rq \/ sp_task[t].prio = new
  <2>1. q = sp_queue
    BY <1>1, <1>4 DEF Requeue
  <2>2. \A u \in SpTask : sp_task[u].on_rq => PrioAfter(t, new, u) = sp_task[u].prio
    BY <1>4 DEF PrioAfter
  <2>3. \A p \in 0 .. SpRtPrio :
          ToSet(q[p]) = {u \in SpTask : sp_task[u].on_rq /\ PrioAfter(t, new, u) = p}
    BY <1>3, <2>1, <2>2
  <2> QED BY <1>1, <1>2, <2>1, <2>3
<1>5. CASE sp_task[t].on_rq /\ sp_task[t].prio # new
  <2>1. PICK old \in Nat : old = sp_task[t].prio
    BY <1>2
  <2>2. PICK r : r = Unlist(sp_queue, t, old)
    OBVIOUS
  <2>3. Queues(r) /\ \A p \in 0 .. SpRtPrio :
          ToSet(r[p]) = IF p = old THEN ToSet(sp_queue[p]) \ {t} ELSE ToSet(sp_queue[p])
    <3>1. Queues(sp_queue) /\ old \in Nat
      BY <1>2, <2>1
    <3>2. IsUnlisted(r, sp_queue, t, old)
      BY <2>2 DEF IsUnlisted
    <3> QED BY <3>1, <3>2, Unlisted
  <2>4. ASSUME NEW p \in 0 .. SpRtPrio PROVE t \notin ToSet(r[p])
    <3>1. ToSet(r[p]) = IF p = old THEN ToSet(sp_queue[p]) \ {t} ELSE ToSet(sp_queue[p])
      BY <2>3
    <3>2. p # old => t \notin ToSet(sp_queue[p])
      BY <1>3, <2>1
    <3> QED BY <3>1, <3>2
  <2>5. IsListed(q, r, t, new)
    <3>1. q = List(r, t, new, old < new)
      BY <1>1, <1>5, <2>1, <2>2 DEF Requeue
    <3> QED BY <3>1 DEF List, IsListed
  <2>6. \A p \in 0 .. SpRtPrio : t \notin ToSet(r[p])
    BY <2>4
  <2>7. Queues(q) /\ \A p \in 0 .. SpRtPrio : ToSet(q[p]) = IF p = new THEN ToSet(r[p]) \cup {t} ELSE ToSet(r[p])
    <3>1. Queues(r)
      BY <2>3
    <3> QED BY <3>1, <2>5, <2>6, Listed
  <2>8. ASSUME NEW p \in 0 .. SpRtPrio
        PROVE  ToSet(q[p]) = {u \in SpTask : sp_task[u].on_rq /\ PrioAfter(t, new, u) = p}
    <3>1. ToSet(q[p]) = IF p = new THEN ToSet(r[p]) \cup {t} ELSE ToSet(r[p])
      BY <2>7
    <3>3. ToSet(r[p]) = IF p = old THEN ToSet(sp_queue[p]) \ {t} ELSE ToSet(sp_queue[p])
      BY <2>3
    <3>2. ToSet(sp_queue[p]) = {u \in SpTask : sp_task[u].on_rq /\ sp_task[u].prio = p}
      BY <1>3
    <3> QED BY <1>5, <2>1, <3>1, <3>2, <3>3 DEF PrioAfter
  <2> QED BY <1>1, <2>7, <2>8
<1> QED BY <1>4, <1>5

(* check_class_changed: if it asks for no reschedule after the change, the  *)
(* current task still has the highest priority.                             *)
LEMMA Preempted ==
    ASSUME SpTypes, SpLists, SpRuns, NEW t \in SpTask, NEW new \in Nat, NEW u \in SpTask,
           sp_task[u].on_rq, rt_prio(PrioAfter(t, new, u)), ~sp_resched,
           ~check_class_changed(Requeue(sp_queue, t, sp_task[t].prio, new), t, sp_task[t].prio, new)
    PROVE  sp_curr # NoTask /\ PrioAfter(t, new, sp_curr) <= PrioAfter(t, new, u)
<1>1. PICK q : q = Requeue(sp_queue, t, sp_task[t].prio, new)
  OBVIOUS
<1>2. Queues(q) /\ \A p \in 0 .. SpRtPrio :
         ToSet(q[p]) = {v \in SpTask : sp_task[v].on_rq /\ PrioAfter(t, new, v) = p}
  BY <1>1, Requeued
<1>3. \A v \in SpTask : sp_task[v].prio \in Nat
  BY DEF SpRecord, SpTypes
<1>4. sp_curr \in SpTask \cup {NoTask} /\ (sp_curr # NoTask => sp_curr \in SpTask /\ sp_task[sp_curr].on_rq)
  BY DEF SpRecord, SpTypes, SpRuns
<1>5. rt_prio(sp_task[u].prio) => sp_curr # NoTask /\ sp_task[sp_curr].prio <= sp_task[u].prio
  BY DEF SpRuns
<1>6. CASE sp_task[t].prio = new
  BY <1>5, <1>6 DEF PrioAfter
<1>7. CASE ~sp_task[t].on_rq
  BY <1>4, <1>5, <1>7 DEF PrioAfter
<1>8. CASE sp_task[t].on_rq /\ sp_task[t].prio # new /\ sp_curr = t
  <2>1. ~HigherQueued(q, new) /\ sp_curr # NoTask
    BY <1>1, <1>8, SchedPolicyAssumption DEF check_class_changed, NoTask
  <2>2. CASE u = t
    BY <1>8, <2>1, <2>2 DEF PrioAfter
  <2>3. CASE u # t
    <3>1. PICK p \in Nat : p = sp_task[u].prio /\ p = PrioAfter(t, new, u)
      BY <1>3, <2>3 DEF PrioAfter
    <3>2. p \in 0 .. SpRtPrio
      BY <3>1, SchedPolicyAssumption DEF rt_prio
    <3>3. u \in ToSet(q[p])
      BY <1>2, <3>1, <3>2
    <3>4. q[p] # <<>>
      BY <1>2, <3>2, <3>3, Queued DEF Queues
    <3>5. ~(p < new)
      BY <2>1, <3>2, <3>4 DEF HigherQueued
    <3>6. new <= p
      BY <3>1, <3>5
    <3> QED BY <1>8, <2>1, <3>1, <3>6 DEF PrioAfter
  <2> QED BY <2>2, <2>3
<1>9. CASE sp_task[t].on_rq /\ sp_task[t].prio # new /\ sp_curr # t
  <2>1. sp_curr # NoTask /\ ~(new < sp_task[sp_curr].prio)
    BY <1>1, <1>9 DEF check_class_changed
  <2>2. sp_task[sp_curr].prio \in Nat /\ PrioAfter(t, new, sp_curr) = sp_task[sp_curr].prio
    BY <1>3, <1>4, <1>9, <2>1 DEF PrioAfter
  <2>3. sp_task[sp_curr].prio <= new
    BY <2>1, <2>2
  <2> QED BY <1>5, <2>1, <2>2, <2>3 DEF PrioAfter
<1> QED BY <1>6, <1>7, <1>8, <1>9

(* normal_prio is a natural number.                                         *)
LEMMA NormalIsNat ==
    ASSUME NEW policy, NEW priority \in 0 .. SpRtPrio, NEW nice \in SpNice
    PROVE  normal_prio(policy, priority, nice) \in Nat
<1>1. nice \in Nat /\ SpRtPrio \in Nat
  BY SchedPolicyAssumption
<1>2. SpRtPrio - priority \in Nat /\ SpRtPrio + 1 + nice \in Nat
  BY <1>1
<1> QED BY <1>2 DEF normal_prio, DEFAULT_PRIO

LEMMA OwnIsNat ==
    ASSUME SpTypes, NEW t \in SpTask
    PROVE  Normal(t) \in Nat
<1>1. sp_task[t].priority \in 0 .. SpRtPrio /\ sp_task[t].nice \in SpNice
  BY DEF SpRecord, SpTypes
<1> QED BY <1>1, NormalIsNat DEF Normal

(* TopWaiter finds a first waiter if there is a waiter.                     *)
LEMMA TopFound ==
    ASSUME NEW wait, NEW wprio \in [SpTask -> Nat], NEW o \in SpTask
    PROVE  IsTop(wait, wprio, o, TopWaiter(wait, wprio, o))
<1>1. CASE Waiters(wait, o) = {}
  BY <1>1 DEF IsTop, TopWaiter
<1>2. CASE Waiters(wait, o) # {}
  <2>1. PICK W : W = Waiters(wait, o) /\ W \subseteq SpTask
    BY DEF Waiters
  <2>2. {wprio[w] : w \in W} \subseteq Nat /\ {wprio[w] : w \in W} # {}
    BY <1>2, <2>1
  <2>3. \E w \in W : \A u \in W : wprio[w] <= wprio[u]
    <3>1. PICK i \in {wprio[w] : w \in W} : \A j \in {wprio[w] : w \in W} : i <= j
      BY <2>2, LeastElement
    <3> QED BY <3>1
  <2>4. TopWaiter(wait, wprio, o) = CHOOSE w \in W : \A u \in W : wprio[w] <= wprio[u]
    BY <1>2, <2>1 DEF TopWaiter
  <2> QED BY <1>2, <2>1, <2>3, <2>4 DEF IsTop
<1> QED BY <1>1, <1>2

(* A first waiter waits.                                                    *)
LEMMA TopWaits ==
    ASSUME NEW wait, NEW wprio, NEW o \in SpTask, NEW w, IsTop(wait, wprio, o, w), w # NoTask
    PROVE  w \in SpTask /\ wait[w] = o
BY DEF IsTop, Waiters

(* The invariant implies the property the run checks: with no walk under way*)
(* the tree is in the order of the priorities, so the first waiter has the  *)
(* highest of them.                                                         *)
LEMMA SpSoundFrom == SpInv => SchedPolicySound
<1> SUFFICES ASSUME SpInv PROVE SchedPolicySound
  OBVIOUS
<1>1. /\ \A t \in SpTask : rt_policy(sp_task[t].policy) <=> sp_task[t].priority # 0
      /\ \A p \in 0 .. SpRtPrio :
            /\ \A i, j \in DOMAIN sp_queue[p] : i # j => sp_queue[p][i] # sp_queue[p][j]
            /\ ToSet(sp_queue[p]) = {t \in SpTask : sp_task[t].on_rq /\ sp_task[t].prio = p}
      /\ \A t \in SpTask :
            (sp_task[t].on_rq /\ rt_prio(sp_task[t].prio) /\ ~sp_resched)
               => sp_curr # NoTask /\ sp_task[sp_curr].prio <= sp_task[t].prio
  BY DEF SpInv, SpPolicies, SpLists, SpRuns, Distinct
<1>2. ASSUME sp_adjust = {}, NEW t \in SpTask
      PROVE  LET rt == {w \in Waiters(sp_wait, t) : rt_prio(sp_task[w].prio)} IN
             IF rt = {} THEN rt_prio(sp_task[t].prio) => sp_task[t].prio = Normal(t)
             ELSE /\ sp_task[t].prio <= Normal(t)
                  /\ \A w \in rt : sp_task[t].prio <= sp_task[w].prio
                  /\ sp_task[t].prio = Normal(t) \/ \E w \in rt : sp_task[t].prio = sp_task[w].prio
  <2>1. PICK W : W = {w \in SpTask : sp_wait[w] = t} /\ W = Waiters(sp_wait, t)
    BY DEF Waiters
  <2>2. PICK rt : rt = {w \in W : rt_prio(sp_task[w].prio)}
    OBVIOUS
  <2>3. PICK x : x = sp_top[t]
    OBVIOUS
  <2>4. IF W = {} THEN x = NoTask ELSE x \in W /\ \A u \in W : sp_wprio[x] <= sp_wprio[u]
    <3>1. IsTop(sp_wait, sp_wprio, t, x)
      BY <2>3 DEF SpInv, SpTops
    <3> QED BY <2>1, <3>1 DEF IsTop
  <2>5. /\ Normal(t) \in Nat /\ SpRtPrio \in Nat /\ t # NoTask /\ \A u \in SpTask : sp_task[u].prio \in Nat
        /\ NoTask \notin SpTask
    BY OwnIsNat, SchedPolicyAssumption DEF SpInv, SpRecord, SpTypes, NoTask
  <2>6. \A u \in W : sp_wprio[u] = IF rt_prio(sp_task[u].prio) THEN sp_task[u].prio ELSE DEFAULT_PRIO
    BY <1>2, <2>1, <2>5 DEF SpInv, SpWaits, waiter_prio
  <2>7. rt_prio(sp_task[t].prio) \/ rt_prio(Effective(t)) => sp_task[t].prio = Effective(t)
    <3>1. sp_top[t] \notin sp_adjust
      BY <1>2
    <3> QED BY <3>1 DEF SpInv, SpBoosts
  <2>8. Effective(t) = IF x = NoTask THEN Normal(t) ELSE Less(Normal(t), sp_task[x].prio)
    BY <2>3 DEF Effective
  <2>9. CASE rt = {}
    <3>1. x # NoTask => x \in W /\ ~rt_prio(sp_task[x].prio)
      BY <2>2, <2>4, <2>9
    <3>2. rt_prio(sp_task[t].prio) => sp_task[t].prio = Normal(t)
      BY <2>1, <2>5, <2>7, <2>8, <3>1 DEF rt_prio, Less
    <3> QED BY <2>1, <2>2, <2>9, <3>2
  <2>10. CASE rt # {}
    <3>1. PICK v \in rt : TRUE
      BY <2>10
    <3>2. x \in W /\ sp_wprio[x] <= sp_wprio[v] /\ x # NoTask /\ v \in W /\ x \in SpTask
      BY <2>1, <2>2, <2>4, <2>5, <3>1
    <3>3. sp_wprio[v] = sp_task[v].prio /\ rt_prio(sp_task[v].prio)
      BY <2>2, <2>6, <3>1, <3>2
    <3>4. rt_prio(sp_task[x].prio) /\ x \in rt
      <4>1. sp_wprio[x] # DEFAULT_PRIO
        BY <2>1, <2>5, <2>6, <3>2, <3>3 DEF rt_prio, DEFAULT_PRIO
      <4> QED BY <2>2, <2>6, <3>2, <4>1
    <3>5. \A w \in rt : sp_task[x].prio <= sp_task[w].prio
      <4>1. ASSUME NEW w \in rt PROVE sp_task[x].prio <= sp_task[w].prio
        <5>1. sp_wprio[x] <= sp_wprio[w] /\ w \in W /\ rt_prio(sp_task[w].prio)
          BY <2>2, <2>4, <3>2
        <5> QED BY <2>6, <3>2, <3>4, <5>1
      <4> QED BY <4>1
    <3>6. sp_task[t].prio = Less(Normal(t), sp_task[x].prio)
      <4>1. rt_prio(Less(Normal(t), sp_task[x].prio))
        BY <2>5, <3>2, <3>4 DEF Less, rt_prio
      <4> QED BY <2>7, <2>8, <3>2, <4>1
    <3>7. sp_task[t].prio <= Normal(t) /\ sp_task[t].prio <= sp_task[x].prio
          /\ (sp_task[t].prio = Normal(t) \/ sp_task[t].prio = sp_task[x].prio)
      BY <2>5, <3>2, <3>6 DEF Less
    <3>8. \A w \in rt : sp_task[t].prio <= sp_task[w].prio
      BY <2>1, <2>2, <2>5, <3>2, <3>5, <3>7
    <3> QED BY <2>1, <2>2, <2>10, <3>4, <3>7, <3>8
  <2> QED BY <2>9, <2>10
<1> QED BY <1>1, <1>2 DEF SchedPolicySound
(* A task with another priority is the same task otherwise,                 *)
LEMMA PrioStored ==
    ASSUME NEW r \in SpRecord, NEW new \in Nat, NEW n, n = [r EXCEPT !.prio = new]
    PROVE  /\ n.policy = r.policy /\ n.priority = r.priority /\ n.nice = r.nice
           /\ n.prio = new /\ n.on_rq = r.on_rq /\ n \in SpRecord
BY DEF SpRecord

(* and so is one that is put on the run queue or taken from it.             *)
LEMMA Enqueued ==
    ASSUME NEW r \in SpRecord, NEW on \in BOOLEAN, NEW n, n = [r EXCEPT !.on_rq = on]
    PROVE  /\ n.policy = r.policy /\ n.priority = r.priority /\ n.nice = r.nice
           /\ n.prio = r.prio /\ n.on_rq = on /\ n \in SpRecord
BY DEF SpRecord

(* A change of priority with requeueing and check_class_changed keeps the   *)
(* lists and what runs.                                                     *)
LEMMA PrioMoved ==
    ASSUME SpTypes, SpLists, SpRuns, NEW t \in SpTask, NEW new \in Nat,
           \A u \in SpTask : /\ sp_task'[u].on_rq = sp_task[u].on_rq
                              /\ sp_task'[u].prio = PrioAfter(t, new, u),
           sp_queue' = Requeue(sp_queue, t, sp_task[t].prio, new),
           sp_resched' = (sp_resched \/ check_class_changed(Requeue(sp_queue, t, sp_task[t].prio, new),
                                                            t, sp_task[t].prio, new)),
           sp_curr' = sp_curr
    PROVE  /\ sp_queue' \in [0 .. SpRtPrio -> Seq(SpTask)] /\ sp_resched' \in BOOLEAN
           /\ SpLists' /\ SpRuns'
<1>1. Queues(sp_queue') /\ \A p \in 0 .. SpRtPrio :
        ToSet(sp_queue'[p]) = {u \in SpTask : sp_task[u].on_rq /\ PrioAfter(t, new, u) = p}
  <2>1. PICK q : q = Requeue(sp_queue, t, sp_task[t].prio, new)
    OBVIOUS
  <2>2. Queues(q) /\ \A p \in 0 .. SpRtPrio :
          ToSet(q[p]) = {u \in SpTask : sp_task[u].on_rq /\ PrioAfter(t, new, u) = p}
    BY <2>1, Requeued
  <2>3. q = sp_queue'
    BY <2>1
  <2> QED BY <2>2, <2>3
<1>2. SpLists'
  <2>1. ASSUME NEW p \in 0 .. SpRtPrio
        PROVE  ToSet(sp_queue'[p]) = {u \in SpTask : sp_task'[u].on_rq /\ sp_task'[u].prio = p}
    <3>1. ToSet(sp_queue'[p]) = {u \in SpTask : sp_task[u].on_rq /\ PrioAfter(t, new, u) = p}
      BY <1>1
    <3> QED BY <3>1
  <2> QED BY <1>1, <2>1 DEF SpLists, Queues
<1>3. sp_resched' \in BOOLEAN
  OBVIOUS
<1>4. sp_curr \in SpTask \cup {NoTask} /\ (sp_curr # NoTask => sp_curr \in SpTask /\ sp_task[sp_curr].on_rq)
  BY DEF SpRecord, SpTypes, SpRuns
<1>5. ASSUME NEW u \in SpTask, sp_task'[u].on_rq, rt_prio(sp_task'[u].prio), ~sp_resched'
      PROVE  sp_curr' # NoTask /\ sp_task'[sp_curr'].prio <= sp_task'[u].prio
  <2>1. /\ sp_task[u].on_rq /\ rt_prio(PrioAfter(t, new, u)) /\ ~sp_resched
        /\ ~check_class_changed(Requeue(sp_queue, t, sp_task[t].prio, new), t, sp_task[t].prio, new)
    BY <1>5
  <2>2. sp_curr # NoTask /\ PrioAfter(t, new, sp_curr) <= PrioAfter(t, new, u)
    BY <2>1, Preempted
  <2>3. sp_task'[sp_curr].prio = PrioAfter(t, new, sp_curr) /\ sp_task'[u].prio = PrioAfter(t, new, u)
    BY <1>4, <2>2
  <2> QED BY <2>2, <2>3
<1>6. sp_curr' # NoTask => sp_task'[sp_curr'].on_rq
  BY <1>4
<1>7. SpRuns'
  BY <1>5, <1>6 DEF SpRuns, rt_prio
<1> QED BY <1>1, <1>2, <1>3, <1>7 DEF Queues

(* When the priority of o is set to its effective one, and a walk starts if *)
(* o waits itself, the other boosts stay as they were.                      *)
LEMMA BoostMoved ==
    ASSUME SpInv, SpTops', NEW o \in SpTask,
           \A u \in SpTask : u # o => /\ Normal(u)' = Normal(u) /\ sp_task'[u].prio = sp_task[u].prio
                                      /\ sp_top'[u] = sp_top[u],
           sp_task'[o].prio = Effective(o)',
           sp_wait[o] # NoTask /\ sp_task'[o].prio # sp_task[o].prio => o \in sp_adjust',
           \A u \in SpTask : u # o /\ sp_top[u] \notin sp_adjust' => sp_top[u] \notin sp_adjust
    PROVE  SpBoosts'
<1> SUFFICES ASSUME NEW u \in SpTask, sp_top'[u] \notin sp_adjust',
                    rt_prio(sp_task'[u].prio) \/ rt_prio(Effective(u)')
             PROVE  sp_task'[u].prio = Effective(u)'
  BY DEF SpBoosts, rt_prio
<1>1. CASE u = o
  BY <1>1
<1>2. CASE u # o
  <2>1. sp_top[u] \notin sp_adjust' /\ sp_top[u] \notin sp_adjust
    BY <1>2
  <2>2. sp_top[u] # NoTask => sp_top[u] \in SpTask /\ sp_wait[sp_top[u]] = u /\ u # NoTask
    BY TopWaits, SchedPolicyAssumption DEF SpInv, SpTops, NoTask
  <2>3. sp_top[u] # NoTask => sp_task'[sp_top[u]].prio = sp_task[sp_top[u]].prio
    <3>1. CASE sp_top[u] = o
      BY <2>1, <2>2, <3>1
    <3>2. CASE sp_top[u] # o
      BY <2>2, <3>2
    <3> QED BY <3>1, <3>2
  <2>4. Effective(u)' = Effective(u)
    BY <1>2, <2>3 DEF Effective
  <2>5. rt_prio(sp_task[u].prio) \/ rt_prio(Effective(u)) => sp_task[u].prio = Effective(u)
    BY <2>1 DEF SpInv, SpBoosts
  <2> QED BY <1>2, <2>4, <2>5
<1> QED BY <1>1, <1>2

(* A step that changes no priority changes no boost.                        *)
LEMMA BoostsStay ==
    ASSUME SpInv, UNCHANGED <<sp_top, sp_adjust>>,
           \A t \in SpTask : sp_task'[t].prio = sp_task[t].prio /\ Normal(t)' = Normal(t)
    PROVE  SpBoosts'
<1>1. \A t \in SpTask : sp_top[t] \in SpTask \cup {NoTask}
  BY DEF SpInv, SpTypes
<1>2. \A t \in SpTask : Effective(t)' = Effective(t)
  BY <1>1 DEF Effective
<1> QED BY <1>2 DEF SpInv, SpBoosts, rt_prio

(* The order of the waiters, when the priority of o changes.                *)
LEMMA WaitsMoved ==
    ASSUME NEW o \in SpTask,
           \A u \in SpTask : u # o => sp_task'[u].prio = sp_task[u].prio,
           sp_wait[o] # NoTask /\ sp_task'[o].prio # sp_task[o].prio => o \in sp_adjust',
           sp_wait'[o] = sp_wait[o],
           \A u \in SpTask : sp_wait'[u] # NoTask /\ u \notin sp_adjust' => sp_wprio'[u] = waiter_prio(u)
    PROVE  SpWaits'
BY DEF SpWaits, waiter_prio

(* The start.                                                               *)
LEMMA SpStart == SchedPolicyInit => SpInv
<1> SUFFICES ASSUME SchedPolicyInit PROVE SpInv
  OBVIOUS
<1>1. PICK r \in [SpTask -> 0 .. SpRtPrio] :
        sp_task = [t \in SpTask |->
             LET policy == IF r[t] = 0 THEN "SCHED_NORMAL" ELSE "SCHED_FIFO" IN
             [policy |-> policy, priority |-> r[t], nice |-> 0, prio |-> normal_prio(policy, r[t], 0),
              on_rq |-> FALSE]]
  BY DEF SchedPolicyInit
<1>2. /\ sp_queue = [p \in 0 .. SpRtPrio |-> <<>>] /\ sp_curr = NoTask /\ sp_resched = FALSE
      /\ sp_wait = [t \in SpTask |-> NoTask] /\ sp_wprio = [t \in SpTask |-> 0]
      /\ sp_top = [t \in SpTask |-> NoTask] /\ sp_adjust = {} /\ sp_call = NoSpCall
  BY DEF SchedPolicyInit
<1>3. \A t \in SpTask :
        /\ sp_task[t].policy = IF r[t] = 0 THEN "SCHED_NORMAL" ELSE "SCHED_FIFO"
        /\ sp_task[t].priority = r[t] /\ sp_task[t].nice = 0
        /\ sp_task[t].prio = normal_prio(IF r[t] = 0 THEN "SCHED_NORMAL" ELSE "SCHED_FIFO", r[t], 0)
        /\ sp_task[t].on_rq = FALSE
  BY <1>1
<1>4. \A t \in SpTask : sp_task[t].prio \in Nat
  BY <1>1, <1>3, NormalIsNat, SchedPolicyAssumption
<1>5. sp_task \in [SpTask -> SpRecord]
  <2>1. ASSUME NEW t \in SpTask
        PROVE  sp_task[t] \in SpRecord
    <3>1. sp_task[t] = [policy |-> sp_task[t].policy, priority |-> r[t], nice |-> 0,
                        prio |-> sp_task[t].prio, on_rq |-> FALSE]
      BY <1>1, <1>3
    <3>2. sp_task[t].policy \in Policy
      BY <1>3 DEF Policy
    <3> QED BY <1>1, <1>4, <3>1, <3>2, SchedPolicyAssumption DEF SpRecord
  <2>2. sp_task = [t \in SpTask |-> sp_task[t]]
    BY <1>1
  <2> QED BY <2>1, <2>2
<1>6. SpTypes
  <2>1. sp_call \in [t : SpTask \cup {NoTask}, policy : Policy, prio : 0 .. SpRtPrio, nice : SpNice]
    BY <1>2, SchedPolicyAssumption DEF NoSpCall, Policy
  <2>2. sp_queue \in [0 .. SpRtPrio -> Seq(SpTask)]
    BY <1>2
  <2>3. sp_curr \in SpTask \cup {NoTask} /\ sp_resched \in BOOLEAN /\ sp_adjust \subseteq SpTask
    BY <1>2
  <2>4. /\ sp_wait \in [SpTask -> SpTask \cup {NoTask}] /\ sp_wprio \in [SpTask -> Nat]
        /\ sp_top \in [SpTask -> SpTask \cup {NoTask}]
    BY <1>2
  <2> QED BY <1>5, <2>1, <2>2, <2>3, <2>4 DEF SpRecord, SpTypes
<1>7. SpPolicies
  BY <1>2, <1>3 DEF SpPolicies, rt_policy
<1>8. SpLists
  <2>1. ToSet(<<>>) = {} /\ Distinct(<<>>)
    BY DEF ToSet, Distinct
  <2> QED BY <1>2, <1>3, <2>1 DEF SpLists
<1>9. SpRuns
  BY <1>2, <1>3 DEF SpRuns
<1>10. SpTops
  <2>1. NoTask \notin SpTask
    BY SchedPolicyAssumption DEF NoTask
  <2> QED BY <1>2, <2>1 DEF SpTops, IsTop, Waiters
<1>11. SpWaits
  BY <1>2 DEF SpWaits
<1>12. SpBoosts
  <2>1. ASSUME NEW t \in SpTask PROVE sp_task[t].prio = Effective(t)
    <3>1. Normal(t) = sp_task[t].prio
      BY <1>3 DEF Normal
    <3> QED BY <1>2, <3>1 DEF Effective
  <2> QED BY <2>1 DEF SpBoosts
<1> QED BY <1>6, <1>7, <1>8, <1>9, <1>10, <1>11, <1>12 DEF SpInv

(* __sched_setscheduler keeps the invariant, whoever calls it.              *)
LEMMA SetSchedulerKeeps ==
    ASSUME SpInv, NEW t \in SpTask, NEW pol \in Policy, NEW prio \in 0 .. SpRtPrio, NEW nice \in SpNice,
           rt_policy(pol) <=> prio # 0, __sched_setscheduler(t, pol, prio, nice),
           sp_call' = sp_call \/ sp_call' = NoSpCall
    PROVE  SpInv'
<1> USE DEF SpInv
<1>0. NoTask \notin SpTask
  BY SchedPolicyAssumption DEF NoTask
<1>1. PICK x : x = sp_top[t] /\ x \in SpTask \cup {NoTask}
  BY DEF SpRecord, SpTypes
<1>2. x # NoTask => x \in SpTask /\ sp_wait[x] = t
  BY <1>1, TopWaits DEF SpTops
<1>3. PICK own \in Nat : own = normal_prio(pol, prio, nice)
  BY NormalIsNat
<1>4. PICK new \in Nat : new = rt_effective_prio(x, own)
  <2>1. x # NoTask => sp_task[x].prio \in Nat
    BY <1>1 DEF SpRecord, SpTypes
  <2> QED BY <1>3, <2>1 DEF rt_effective_prio, Less
<1>5. /\ sp_task' = [sp_task EXCEPT ![t] = [__setscheduler_params(@, pol, prio, nice) EXCEPT !.prio = new]]
      /\ sp_queue' = Requeue(sp_queue, t, sp_task[t].prio, new)
      /\ sp_resched' = (sp_resched \/ check_class_changed(Requeue(sp_queue, t, sp_task[t].prio, new),
                                                           t, sp_task[t].prio, new))
      /\ sp_adjust' = IF sp_wait[t] # NoTask THEN sp_adjust \cup {t} ELSE sp_adjust
      /\ UNCHANGED <<sp_curr, sp_wait, sp_wprio, sp_top>>
  BY <1>1, <1>3, <1>4 DEF __sched_setscheduler
<1>6. PICK n \in SpNice : n = IF rt_policy(pol) THEN sp_task[t].nice ELSE nice
  BY DEF SpRecord, SpTypes
<1>7. sp_task' = [sp_task EXCEPT ![t] = [policy |-> pol, priority |-> prio, nice |-> n, prio |-> new,
                                         on_rq |-> sp_task[t].on_rq]]
  <2>2. [__setscheduler_params(sp_task[t], pol, prio, nice) EXCEPT !.prio = new]
          = [policy |-> pol, priority |-> prio, nice |-> n, prio |-> new, on_rq |-> sp_task[t].on_rq]
    BY <1>6 DEF __setscheduler_params
  <2> QED BY <1>5, <2>2
<1>8. /\ \A u \in SpTask : u # t => sp_task'[u] = sp_task[u]
      /\ sp_task'[t] = [policy |-> pol, priority |-> prio, nice |-> n, prio |-> new, on_rq |-> sp_task[t].on_rq]
  BY <1>7 DEF SpRecord, SpTypes
<1>9. \A u \in SpTask : sp_task'[u].on_rq = sp_task[u].on_rq /\ sp_task'[u].prio = PrioAfter(t, new, u)
  BY <1>8 DEF PrioAfter
<1>10. /\ sp_queue' \in [0 .. SpRtPrio -> Seq(SpTask)] /\ sp_resched' \in BOOLEAN
       /\ SpLists' /\ SpRuns'
  BY <1>5, <1>9, PrioMoved
<1>11. SpTypes'
  <2>1. sp_task' \in [SpTask -> SpRecord]
    BY <1>7 DEF SpRecord, SpTypes
  <2>2. sp_call' \in [t : SpTask \cup {NoTask}, policy : Policy, prio : 0 .. SpRtPrio, nice : SpNice]
    BY SchedPolicyAssumption DEF SpRecord, SpTypes, NoSpCall, Policy
  <2> QED BY <1>5, <1>10, <2>1, <2>2 DEF SpRecord, SpTypes
<1>12. SpPolicies'
  <2>1. \A u \in SpTask : rt_policy(sp_task'[u].policy) <=> sp_task'[u].priority # 0
    BY <1>8 DEF SpPolicies
  <2>2. sp_call' # NoSpCall => sp_call' = sp_call
    OBVIOUS
  <2> QED BY <2>1, <2>2 DEF SpPolicies, rt_policy
<1>13. SpTops'
  BY <1>5 DEF SpTops
<1>14. SpWaits'
  <2>1. \A u \in SpTask : sp_wait'[u] # NoTask /\ u \notin sp_adjust' => sp_wprio'[u] = waiter_prio(u)
    BY <1>5 DEF SpWaits
  <2>2. \A u \in SpTask : u # t => sp_task'[u].prio = sp_task[u].prio
    BY <1>8
  <2>3. sp_wait[t] # NoTask /\ sp_task'[t].prio # sp_task[t].prio => t \in sp_adjust'
    BY <1>5
  <2>4. sp_wait'[t] = sp_wait[t]
    BY <1>5
  <2> QED BY <2>1, <2>2, <2>3, <2>4, WaitsMoved
<1>15. SpBoosts'
  <2>1. Normal(t)' = own
    BY <1>3, <1>6, <1>8 DEF Normal, normal_prio
  <2>2. x # NoTask => sp_task'[x].prio = sp_task[x].prio
    BY <1>2, <1>8 DEF SpTops
  <2>3. sp_task'[t].prio = Effective(t)'
    BY <1>1, <1>4, <1>5, <1>8, <2>1, <2>2 DEF Effective, rt_effective_prio
  <2>4. \A u \in SpTask : u # t => /\ Normal(u)' = Normal(u) /\ sp_task'[u].prio = sp_task[u].prio
                                   /\ sp_top'[u] = sp_top[u]
    BY <1>5, <1>8 DEF Normal
  <2>5. sp_wait[t] # NoTask /\ sp_task'[t].prio # sp_task[t].prio => t \in sp_adjust'
    BY <1>5
  <2>6. \A u \in SpTask : u # t /\ sp_top[u] \notin sp_adjust' => sp_top[u] \notin sp_adjust
    BY <1>5
  <2> QED BY <1>13, <2>3, <2>4, <2>5, <2>6, BoostMoved
<1> QED BY <1>10, <1>11, <1>12, <1>13, <1>14, <1>15

(* So do the checks of sched_setparam, which change only the call.          *)
LEMMA CallKeeps ==
    ASSUME SpInv, UNCHANGED <<sp_task, sp_queue, sp_curr, sp_resched, pi_vars>>,
           sp_call' \in [t : SpTask \cup {NoTask}, policy : Policy, prio : 0 .. SpRtPrio, nice : SpNice],
           sp_call' # NoSpCall => sp_call'.t \in SpTask /\ (rt_policy(sp_call'.policy) <=> sp_call'.prio # 0)
    PROVE  SpInv'
<1> USE DEF SpInv, pi_vars
<1>1. SpTypes'
  BY DEF SpRecord, SpTypes
<1>2. SpPolicies'
  BY DEF SpPolicies, rt_policy
<1>3. SpLists' /\ SpRuns' /\ SpTops'
  BY DEF SpLists, SpRuns, SpTops
<1>4. SpWaits'
  BY DEF SpWaits, waiter_prio
<1>5. SpBoosts'
  BY DEF SpBoosts, Effective, Normal
<1> QED BY <1>1, <1>2, <1>3, <1>4, <1>5

(* set_user_nice moves a fair task among the fair priorities only.          *)
LEMMA NiceKeeps ==
    ASSUME SpInv, NEW t \in SpTask, NEW nice \in SpNice, set_user_nice(t, nice)
    PROVE  SpInv'
<1> USE DEF SpInv
<1>0. NoTask \notin SpTask /\ SpRtPrio \in Nat /\ nice \in Nat /\ \A u \in SpTask : sp_task[u].nice \in Nat
  BY SchedPolicyAssumption DEF NoTask, SpRecord, SpTypes
<1>1. UNCHANGED <<sp_queue, sp_curr, sp_resched, sp_wait, sp_wprio, sp_top, sp_adjust, sp_call>>
  BY DEF set_user_nice, pi_vars
<1>2. PICK new \in Nat :
        /\ new = IF rt_policy(sp_task[t].policy) THEN sp_task[t].prio ELSE effective_prio(t, nice)
        /\ new = sp_task[t].prio \/ (~rt_prio(sp_task[t].prio) /\ ~rt_prio(new))
        /\ rt_policy(sp_task[t].policy) \/ rt_prio(sp_task[t].prio) => new = sp_task[t].prio
        /\ ~rt_policy(sp_task[t].policy) /\ ~rt_prio(sp_task[t].prio) => new = DEFAULT_PRIO + nice
  <2>1. sp_task[t].prio \in Nat
    BY DEF SpRecord, SpTypes
  <2>2. CASE rt_policy(sp_task[t].policy) \/ rt_prio(sp_task[t].prio)
    BY <2>1, <2>2 DEF effective_prio
  <2>3. CASE ~rt_policy(sp_task[t].policy) /\ ~rt_prio(sp_task[t].prio)
    <3>1. effective_prio(t, nice) = DEFAULT_PRIO + nice
      BY <2>3 DEF effective_prio, normal_prio
    <3>2. DEFAULT_PRIO + nice \in Nat /\ ~rt_prio(DEFAULT_PRIO + nice)
      BY <1>0 DEF DEFAULT_PRIO, rt_prio
    <3> QED BY <2>3, <3>1, <3>2
  <2> QED BY <2>2, <2>3
<1>3. /\ \A u \in SpTask : u # t => sp_task'[u] = sp_task[u]
      /\ sp_task'[t].policy = sp_task[t].policy /\ sp_task'[t].priority = sp_task[t].priority
      /\ sp_task'[t].nice = nice /\ sp_task'[t].prio = new /\ sp_task'[t].on_rq = sp_task[t].on_rq
      /\ sp_task' \in [SpTask -> SpRecord]
  <2>1. sp_task' = [sp_task EXCEPT ![t] = [[@ EXCEPT !.nice = nice] EXCEPT !.prio = new]]
    <3>1. PICK r : r = [sp_task[t] EXCEPT !.nice = nice, !.prio = new]
      OBVIOUS
    <3>2. r = [[sp_task[t] EXCEPT !.nice = nice] EXCEPT !.prio = new]
      BY <3>1
    <3>3. sp_task' = [sp_task EXCEPT ![t] = r]
      BY <1>2, <3>1 DEF set_user_nice
    <3> QED BY <3>2, <3>3
  <2> QED BY <2>1 DEF SpRecord, SpTypes
<1>4. SpTypes'
  BY <1>1, <1>3 DEF SpRecord, SpTypes
<1>5. SpPolicies'
  BY <1>1, <1>3 DEF SpPolicies, rt_policy
<1>6. \A u \in SpTask : /\ sp_task[u].prio \in Nat /\ sp_task'[u].prio \in Nat
                        /\ u # t => sp_task'[u].prio = sp_task[u].prio
  BY <1>3 DEF SpRecord, SpTypes
<1>14. \A u \in SpTask : sp_task[u].prio \in Nat /\ sp_task'[u].prio \in Nat
  BY <1>6
<1>13. \A u \in SpTask : sp_task'[u].on_rq = sp_task[u].on_rq
  BY <1>3
<1>7. \A u \in SpTask : (rt_prio(sp_task'[u].prio) <=> rt_prio(sp_task[u].prio))
                         /\ (rt_prio(sp_task[u].prio) => sp_task'[u].prio = sp_task[u].prio)
  BY <1>2, <1>3, <1>6
<1>8. SpLists'
  <2>1. ASSUME NEW p \in 0 .. SpRtPrio, NEW u \in SpTask PROVE sp_task'[u].prio = p <=> sp_task[u].prio = p
    <3>1. rt_prio(p)
      BY <1>0 DEF rt_prio
    <3> QED BY <1>7, <3>1
  <2>2. ASSUME NEW p \in 0 .. SpRtPrio
        PROVE  {u \in SpTask : sp_task'[u].on_rq /\ sp_task'[u].prio = p}
                 = {u \in SpTask : sp_task[u].on_rq /\ sp_task[u].prio = p}
    BY <1>13, <2>1
  <2> QED BY <1>1, <2>2 DEF SpLists
<1>9. SpRuns'
  <2>1. sp_curr # NoTask => sp_curr \in SpTask
    BY DEF SpRecord, SpTypes
  <2>2. sp_curr' # NoTask => sp_task'[sp_curr'].on_rq
    BY <1>1, <1>13, <2>1 DEF SpRuns
  <2>3. ASSUME NEW u \in SpTask, sp_task'[u].on_rq, rt_prio(sp_task'[u].prio), ~sp_resched'
        PROVE  sp_curr' # NoTask /\ sp_task'[sp_curr'].prio <= sp_task'[u].prio
    <3>1. sp_task'[u].prio = sp_task[u].prio /\ rt_prio(sp_task[u].prio)
      BY <1>7, <2>3
    <3>2. sp_curr # NoTask /\ sp_task[sp_curr].prio <= sp_task[u].prio
      BY <1>1, <1>13, <2>3, <3>1 DEF SpRuns
    <3>3. rt_prio(sp_task[sp_curr].prio)
      <4>1. sp_task[sp_curr].prio \in Nat /\ sp_task[u].prio \in Nat
        BY <1>14, <2>1, <3>2
      <4> QED BY <1>0, <3>1, <3>2, <4>1 DEF rt_prio
    <3> QED BY <1>1, <1>7, <2>1, <3>1, <3>2, <3>3
  <2> QED BY <2>2, <2>3 DEF SpRuns, rt_prio
<1>10. SpTops'
  BY <1>1 DEF SpTops
<1>11. SpWaits'
  <2>1. \A u \in SpTask : waiter_prio(u)' = waiter_prio(u)
    BY <1>7 DEF waiter_prio, rt_prio
  <2> QED BY <1>1, <2>1 DEF SpWaits
<1>12. SpBoosts'
  <2>1. \A u \in SpTask : Normal(u) \in Nat
    BY OwnIsNat
  <2>2. \A u \in SpTask : u # t => Normal(u)' = Normal(u)
    BY <1>3 DEF Normal
  <2>3. \/ Normal(t)' = Normal(t)
        \/ ~rt_prio(Normal(t)) /\ ~rt_prio(Normal(t)')
    <3>1. CASE rt_policy(sp_task[t].policy)
      BY <1>3, <3>1 DEF Normal, normal_prio
    <3>2. CASE ~rt_policy(sp_task[t].policy)
      <4>1. Normal(t) = SpRtPrio + 1 + sp_task[t].nice /\ Normal(t)' = SpRtPrio + 1 + nice
        BY <1>3, <3>2 DEF Normal, normal_prio, rt_policy, DEFAULT_PRIO
      <4> QED BY <1>0, <4>1 DEF rt_prio
    <3> QED BY <3>1, <3>2
  <2>4. Normal(t)' \in Nat
    BY <1>3, NormalIsNat DEF Normal, SpRecord, SpTypes
  <2>5. \A u \in SpTask : Normal(u)' \in Nat
                          /\ (Normal(u)' = Normal(u) \/ (~rt_prio(Normal(u)) /\ ~rt_prio(Normal(u)')))
    BY <2>1, <2>2, <2>3, <2>4
  <2>6. SUFFICES ASSUME NEW u \in SpTask, sp_top'[u] \notin sp_adjust',
                      rt_prio(sp_task'[u].prio) \/ rt_prio(Effective(u)')
               PROVE  sp_task'[u].prio = Effective(u)'
    BY DEF SpBoosts, rt_prio
  <2>7. PICK x : x = sp_top[u] /\ x = sp_top'[u] /\ x \in SpTask \cup {NoTask}
    BY <1>1 DEF SpRecord, SpTypes
  <2>8. rt_prio(sp_task[u].prio) \/ rt_prio(Effective(u)) => sp_task[u].prio = Effective(u)
    BY <1>1, <2>6 DEF SpBoosts
  <2>9. CASE x = NoTask
    <3>1. Effective(u) = Normal(u) /\ Effective(u)' = Normal(u)'
      BY <2>7, <2>9 DEF Effective
    <3> QED BY <1>7, <2>5, <2>6, <2>8, <3>1
  <2>10. CASE x # NoTask
    <3>1. /\ Effective(u) = Less(Normal(u), sp_task[x].prio)
          /\ Effective(u)' = Less(Normal(u)', sp_task'[x].prio)
      BY <2>7, <2>10 DEF Effective
    <3>2. PICK n1 \in Nat, n2 \in Nat, x1 \in Nat, x2 \in Nat :
            n1 = Normal(u) /\ n2 = Normal(u)' /\ x1 = sp_task[x].prio /\ x2 = sp_task'[x].prio
      <4>1. x \in SpTask
        BY <2>7, <2>10
      <4>2. Normal(u) \in Nat /\ Normal(u)' \in Nat
        BY <2>1, <2>5
      <4>3. sp_task[x].prio \in Nat /\ sp_task'[x].prio \in Nat
        BY <1>14, <4>1
      <4> QED BY <4>2, <4>3
    <3>3. /\ n1 = n2 \/ (~rt_prio(n1) /\ ~rt_prio(n2))
          /\ (rt_prio(x1) <=> rt_prio(x2)) /\ (rt_prio(x1) => x1 = x2)
      BY <1>7, <2>5, <2>7, <2>10, <3>2
    <3>4. /\ rt_prio(Less(n1, x1)) <=> rt_prio(Less(n2, x2))
          /\ rt_prio(Less(n1, x1)) => Less(n1, x1) = Less(n2, x2)
      BY <1>0, <3>3 DEF rt_prio, Less
    <3> QED BY <1>7, <2>6, <2>8, <3>1, <3>2, <3>4
  <2> QED BY <2>9, <2>10
<1> QED BY <1>4, <1>5, <1>8, <1>9, <1>10, <1>11, <1>12

(* rt_mutex_setprio on the owner of a mutex, with its new first waiter x, in*)
(* rt_mutex_lock and in a step of the chain walk.                           *)
LEMMA OwnerBoosted ==
    ASSUME SpInv, NEW o \in SpTask, NEW x,
           sp_wait' \in [SpTask -> SpTask \cup {NoTask}], sp_wprio' \in [SpTask -> Nat],
           sp_top' = [sp_top EXCEPT ![o] = x], sp_wait'[o] = sp_wait[o],
           SpTops', sp_adjust' \subseteq SpTask,
           sp_task' = [sp_task EXCEPT ![o].prio = rt_mutex_setprio(sp_queue, o, x).prio],
           sp_queue' = rt_mutex_setprio(sp_queue, o, x).queue,
           sp_resched' = (sp_resched \/ rt_mutex_setprio(sp_queue, o, x).resched),
           UNCHANGED <<sp_curr, sp_call>>,
           sp_wait[o] # NoTask /\ rt_mutex_setprio(sp_queue, o, x).prio # sp_task[o].prio => o \in sp_adjust',
           \A u \in SpTask : u # o /\ sp_top[u] \notin sp_adjust' => sp_top[u] \notin sp_adjust,
           \A u \in SpTask : sp_wait'[u] # NoTask /\ u \notin sp_adjust' => sp_wprio'[u] = waiter_prio(u)
    PROVE  SpInv'
<1> USE DEF SpInv
<1>0. NoTask \notin SpTask
  BY SchedPolicyAssumption DEF NoTask
<1>1. sp_top'[o] = x /\ \A u \in SpTask : u # o => sp_top'[u] = sp_top[u]
  BY DEF SpTypes
<1>2. x # NoTask => x \in SpTask /\ x # o
  <2>1. x # NoTask => x \in SpTask /\ sp_wait'[x] = o
    <3>1. IsTop(sp_wait', sp_wprio', o, x)
      BY <1>1 DEF SpTops
    <3> QED BY <3>1, TopWaits
  <2> QED BY <2>1 DEF SpTops
<1>3. PICK new \in Nat : new = rt_effective_prio(x, Normal(o))
  <2>1. x # NoTask => sp_task[x].prio \in Nat
    BY <1>2 DEF SpRecord, SpTypes
  <2> QED BY <2>1, OwnIsNat DEF rt_effective_prio, Less
<1>4. PICK q : q = Requeue(sp_queue, o, sp_task[o].prio, new)
  OBVIOUS
<1>5. rt_mutex_setprio(sp_queue, o, x)
        = [prio |-> new, queue |-> q, resched |-> check_class_changed(q, o, sp_task[o].prio, new)]
  BY <1>3, <1>4 DEF rt_mutex_setprio
<1>6. sp_task' = [sp_task EXCEPT ![o].prio = new] /\ sp_queue' = Requeue(sp_queue, o, sp_task[o].prio, new)
  BY <1>4, <1>5
<1>7. sp_resched' = (sp_resched \/ check_class_changed(Requeue(sp_queue, o, sp_task[o].prio, new),
                                                       o, sp_task[o].prio, new))
  BY <1>4, <1>5
<1>8. /\ \A u \in SpTask : u # o => sp_task'[u] = sp_task[u]
      /\ sp_task'[o].policy = sp_task[o].policy /\ sp_task'[o].priority = sp_task[o].priority
      /\ sp_task'[o].nice = sp_task[o].nice /\ sp_task'[o].prio = new /\ sp_task'[o].on_rq = sp_task[o].on_rq
      /\ sp_task' \in [SpTask -> SpRecord]
  <2>1. sp_task' = [sp_task EXCEPT ![o] = [sp_task[o] EXCEPT !.prio = new]]
    BY <1>6
  <2>2. PICK r : r = [sp_task[o] EXCEPT !.prio = new]
    OBVIOUS
  <2>3. sp_task[o] \in SpRecord
    BY DEF SpTypes
  <2>4. /\ r.policy = sp_task[o].policy /\ r.priority = sp_task[o].priority /\ r.nice = sp_task[o].nice
        /\ r.prio = new /\ r.on_rq = sp_task[o].on_rq /\ r \in SpRecord
    BY <1>3, <2>2, <2>3, PrioStored
  <2>5. sp_task' = [sp_task EXCEPT ![o] = r]
    BY <2>1, <2>2
  <2> QED BY <2>4, <2>5 DEF SpTypes
<1>9. \A u \in SpTask : sp_task'[u].on_rq = sp_task[u].on_rq /\ sp_task'[u].prio = PrioAfter(o, new, u)
  BY <1>8 DEF PrioAfter
<1>10. /\ sp_queue' \in [0 .. SpRtPrio -> Seq(SpTask)] /\ sp_resched' \in BOOLEAN
       /\ SpLists' /\ SpRuns'
  BY <1>6, <1>7, <1>9, PrioMoved
<1>11. SpTypes'
  <2>1. sp_top' \in [SpTask -> SpTask \cup {NoTask}]
    BY <1>2 DEF SpTypes
  <2> QED BY <1>8, <1>10, <2>1 DEF SpTypes
<1>12. SpPolicies'
  BY <1>8 DEF SpPolicies, rt_policy
<1>13. \A u \in SpTask : u # o => sp_task'[u].prio = sp_task[u].prio
  BY <1>8
<1>14. sp_wait[o] # NoTask /\ sp_task'[o].prio # sp_task[o].prio => o \in sp_adjust'
  BY <1>5, <1>8
<1>15. SpWaits'
  BY <1>13, <1>14, WaitsMoved
<1>16. SpBoosts'
  <2>1. \A u \in SpTask : Normal(u)' = Normal(u)
    BY <1>8 DEF Normal
  <2>2. x # NoTask => sp_task'[x].prio = sp_task[x].prio
    BY <1>2, <1>8
  <2>3. sp_task'[o].prio = Effective(o)'
    BY <1>1, <1>3, <1>8, <2>1, <2>2 DEF Effective, rt_effective_prio
  <2>4. \A u \in SpTask : u # o => /\ Normal(u)' = Normal(u) /\ sp_task'[u].prio = sp_task[u].prio
                                   /\ sp_top'[u] = sp_top[u]
    BY <1>1, <1>13, <2>1
  <2> QED BY <1>14, <2>3, <2>4, BoostMoved
<1> QED BY <1>10, <1>11, <1>12, <1>15, <1>16

(* rt_mutex_lock adds a waiter to the tree of o.                            *)
LEMMA LockKeeps ==
    ASSUME SpInv, NEW o \in SpTask, rt_mutex_lock(o)
    PROVE  SpInv'
<1> USE DEF SpInv
<1>0. NoTask \notin SpTask
  BY SchedPolicyAssumption DEF NoTask
<1>1. PICK w : w = sp_curr
  OBVIOUS
<1>2. w \in SpTask /\ sp_wait[w] = NoTask /\ w # o /\ w # sp_wait[o]
  BY <1>1 DEF rt_mutex_lock, OwnersOf, SpTypes
<1>3. PICK wait : wait = [sp_wait EXCEPT ![w] = o]
  OBVIOUS
<1>4. PICK wprio : wprio = [sp_wprio EXCEPT ![w] = waiter_prio(w)]
  OBVIOUS
<1>5. PICK x : x = TopWaiter(wait, wprio, o)
  OBVIOUS
<1>6. /\ sp_wait' = wait /\ sp_wprio' = wprio /\ sp_top' = [sp_top EXCEPT ![o] = x]
      /\ sp_task' = [sp_task EXCEPT ![o].prio = rt_mutex_setprio(sp_queue, o, x).prio]
      /\ sp_queue' = rt_mutex_setprio(sp_queue, o, x).queue
      /\ sp_resched' = (sp_resched \/ rt_mutex_setprio(sp_queue, o, x).resched)
      /\ sp_adjust' = IF rt_mutex_setprio(sp_queue, o, x).prio # sp_task[o].prio /\ sp_wait[o] # NoTask
                      THEN sp_adjust \cup {o} ELSE sp_adjust
      /\ UNCHANGED <<sp_curr, sp_call>>
  BY <1>1, <1>3, <1>4, <1>5 DEF rt_mutex_lock
<1>7. wait \in [SpTask -> SpTask \cup {NoTask}] /\ wprio \in [SpTask -> Nat]
  <2>1. waiter_prio(w) \in Nat
    BY <1>2, SchedPolicyAssumption DEF waiter_prio, SpRecord, SpTypes, DEFAULT_PRIO
  <2> QED BY <1>2, <1>3, <1>4, <2>1 DEF SpTypes
<1>8. /\ wait[w] = o /\ wprio[w] = waiter_prio(w)
      /\ \A u \in SpTask : u # w => wait[u] = sp_wait[u] /\ wprio[u] = sp_wprio[u]
  BY <1>2, <1>3, <1>4 DEF SpTypes
<1>9. SpTops'
  <2>1. ASSUME NEW u \in SpTask PROVE sp_wait'[u] # u /\ IsTop(sp_wait', sp_wprio', u, sp_top'[u])
    <3>1. wait[u] # u
      BY <1>2, <1>8 DEF SpTops
    <3>2. CASE u = o
      <4>1. sp_top'[u] = x
        BY <1>6, <3>2 DEF SpTypes
      <4> QED BY <1>5, <1>6, <1>7, <3>1, <3>2, <4>1, TopFound
    <3>3. CASE u # o
      <4>1. Waiters(wait, u) = Waiters(sp_wait, u) /\ w \notin Waiters(wait, u) /\ Waiters(wait, u) \subseteq SpTask
        BY <1>0, <1>2, <1>8, <3>3 DEF Waiters
      <4>2. sp_top'[u] = sp_top[u]
        BY <1>6, <3>3 DEF SpTypes
      <4>3. IsTop(wait, wprio, u, sp_top[u])
        <5>1. IsTop(sp_wait, sp_wprio, u, sp_top[u])
          BY DEF SpTops
        <5>2. \A v \in Waiters(wait, u) : wprio[v] = sp_wprio[v]
          BY <1>8, <4>1
        <5> QED BY <4>1, <5>1, <5>2 DEF IsTop
      <4> QED BY <1>6, <3>1, <4>2, <4>3
    <3> QED BY <3>2, <3>3
  <2> QED BY <2>1 DEF SpTops
<1>10. sp_adjust' \subseteq SpTask /\ sp_adjust \subseteq sp_adjust'
  BY <1>6 DEF SpTypes
<1>11. sp_wait[o] # NoTask /\ rt_mutex_setprio(sp_queue, o, x).prio # sp_task[o].prio => o \in sp_adjust'
  BY <1>6
<1>12. \A u \in SpTask : u # o /\ sp_top[u] \notin sp_adjust' => sp_top[u] \notin sp_adjust
  BY <1>10
<1>13. \A u \in SpTask : sp_wait'[u] # NoTask /\ u \notin sp_adjust' => sp_wprio'[u] = waiter_prio(u)
  BY <1>6, <1>8, <1>10 DEF SpWaits
<1>14. sp_wait'[o] = sp_wait[o] /\ sp_wait' \in [SpTask -> SpTask \cup {NoTask}] /\ sp_wprio' \in [SpTask -> Nat]
  BY <1>2, <1>6, <1>7, <1>8
<1> QED BY <1>6, <1>9, <1>10, <1>11, <1>12, <1>13, <1>14, OwnerBoosted

(* A step of the chain walk puts the waiter of t in its place; if the       *)
(* priority of the owner changes and it waits too, the walk goes on.        *)
LEMMA AdjustKeeps ==
    ASSUME SpInv, NEW t \in SpTask, rt_mutex_adjust_pi(t)
    PROVE  SpInv'
<1> USE DEF SpInv
<1>0. NoTask \notin SpTask
  BY SchedPolicyAssumption DEF NoTask
<1>1. CASE sp_wait[t] = NoTask
  <2>1. /\ sp_adjust' = sp_adjust \ {t}
        /\ UNCHANGED <<sp_task, sp_queue, sp_resched, sp_wprio, sp_top, sp_curr, sp_wait, sp_call>>
    BY <1>1 DEF rt_mutex_adjust_pi
  <2>2. SpTypes' /\ SpPolicies' /\ SpLists' /\ SpRuns' /\ SpTops'
    BY <2>1 DEF SpTypes, SpPolicies, SpLists, SpRuns, SpTops
  <2>3. SpWaits'
    BY <1>1, <2>1 DEF SpWaits, waiter_prio
  <2>4. SpBoosts'
    <3>1. ASSUME NEW u \in SpTask PROVE sp_top[u] # t
      <4>1. IsTop(sp_wait, sp_wprio, u, sp_top[u])
        BY DEF SpTops
      <4>2. sp_top[u] # NoTask => sp_wait[sp_top[u]] = u
        BY <4>1, TopWaits
      <4> QED BY <1>0, <1>1, <4>2
    <3>2. \A u \in SpTask : Effective(u)' = Effective(u)
      BY <2>1 DEF Effective, Normal
    <3> QED BY <2>1, <3>1, <3>2 DEF SpBoosts
  <2> QED BY <2>2, <2>3, <2>4
<1>2. CASE sp_wait[t] # NoTask
  <2>1. PICK o \in SpTask : o = sp_wait[t] /\ o # t
    BY <1>2 DEF SpTypes, SpTops
  <2>2. PICK wprio : wprio = [sp_wprio EXCEPT ![t] = waiter_prio(t)]
    OBVIOUS
  <2>3. PICK x : x = TopWaiter(sp_wait, wprio, o)
    OBVIOUS
  <2>4. /\ sp_wprio' = wprio /\ sp_top' = [sp_top EXCEPT ![o] = x]
        /\ sp_task' = [sp_task EXCEPT ![o].prio = rt_mutex_setprio(sp_queue, o, x).prio]
        /\ sp_queue' = rt_mutex_setprio(sp_queue, o, x).queue
        /\ sp_resched' = (sp_resched \/ rt_mutex_setprio(sp_queue, o, x).resched)
        /\ sp_adjust' = (sp_adjust \ {t})
             \cup (IF rt_mutex_setprio(sp_queue, o, x).prio # sp_task[o].prio /\ sp_wait[o] # NoTask THEN {o} ELSE {})
        /\ UNCHANGED <<sp_curr, sp_wait, sp_call>>
    BY <1>2, <2>1, <2>2, <2>3 DEF rt_mutex_adjust_pi
  <2>5. wprio \in [SpTask -> Nat] /\ wprio[t] = waiter_prio(t) /\ \A u \in SpTask : u # t => wprio[u] = sp_wprio[u]
    <3>1. waiter_prio(t) \in Nat
      BY SchedPolicyAssumption DEF waiter_prio, SpRecord, SpTypes, DEFAULT_PRIO
    <3> QED BY <2>2, <3>1 DEF SpTypes
  <2>6. SpTops'
    <3>1. ASSUME NEW u \in SpTask PROVE sp_wait'[u] # u /\ IsTop(sp_wait', sp_wprio', u, sp_top'[u])
      <4>1. sp_wait'[u] # u
        BY <2>4 DEF SpTops
      <4>2. CASE u = o
        <5>1. sp_top'[u] = x
          BY <2>4, <4>2 DEF SpTypes
        <5> QED BY <2>3, <2>4, <2>5, <4>1, <4>2, <5>1, TopFound
      <4>3. CASE u # o
        <5>1. t \notin Waiters(sp_wait, u) /\ Waiters(sp_wait, u) \subseteq SpTask
          BY <2>1, <4>3 DEF Waiters
        <5>2. sp_top'[u] = sp_top[u]
          BY <2>4, <4>3 DEF SpTypes
        <5>3. IsTop(sp_wait, sp_wprio, u, sp_top[u])
          BY DEF SpTops
        <5>4. \A v \in Waiters(sp_wait, u) : wprio[v] = sp_wprio[v]
          BY <2>5, <5>1
        <5>5. IsTop(sp_wait, wprio, u, sp_top[u])
          BY <5>3, <5>4 DEF IsTop
        <5> QED BY <2>4, <4>1, <5>2, <5>5
      <4> QED BY <4>2, <4>3
    <3> QED BY <3>1 DEF SpTops
  <2>7. sp_adjust' \subseteq SpTask /\ \A u : u # t /\ u \notin sp_adjust' => u \notin sp_adjust
    <3>1. sp_adjust' = sp_adjust \ {t} \/ sp_adjust' = (sp_adjust \ {t}) \cup {o}
      BY <2>4
    <3> QED BY <2>1, <3>1 DEF SpTypes
  <2>8. sp_wait[o] # NoTask /\ rt_mutex_setprio(sp_queue, o, x).prio # sp_task[o].prio => o \in sp_adjust'
    BY <2>4
  <2>9. ASSUME NEW u \in SpTask, u # o PROVE sp_top[u] # t
    <3>1. IsTop(sp_wait, sp_wprio, u, sp_top[u])
      BY DEF SpTops
    <3>2. sp_top[u] # NoTask => sp_wait[sp_top[u]] = u
      BY <3>1, TopWaits
    <3> QED BY <1>0, <2>1, <2>9, <3>2
  <2>10. \A u \in SpTask : u # o /\ sp_top[u] \notin sp_adjust' => sp_top[u] \notin sp_adjust
    BY <2>7, <2>9
  <2>11. \A u \in SpTask : sp_wait'[u] # NoTask /\ u \notin sp_adjust' => sp_wprio'[u] = waiter_prio(u)
    BY <2>4, <2>5, <2>7 DEF SpWaits
  <2>12. sp_wait'[o] = sp_wait[o] /\ sp_wait' \in [SpTask -> SpTask \cup {NoTask}] /\ sp_wprio' \in [SpTask -> Nat]
    BY <2>4, <2>5 DEF SpTypes
  <2> QED BY <2>4, <2>6, <2>7, <2>8, <2>10, <2>11, <2>12, OwnerBoosted
<1> QED BY <1>1, <1>2

(* rt_mutex_unlock takes the boost from the owner, and hands the mutex and  *)
(* the other waiters to the first one, which becomes runnable.              *)
LEMMA UnlockKeeps ==
    ASSUME SpInv, rt_mutex_unlock
    PROVE  SpInv'
<1> USE DEF SpInv
<1>0. NoTask \notin SpTask
  BY SchedPolicyAssumption DEF NoTask
<1>1. PICK o : o = sp_curr
  OBVIOUS
<1>2. o \in SpTask /\ sp_wait[o] = NoTask /\ sp_task[o].on_rq
  BY <1>1 DEF rt_mutex_unlock, SpTypes, SpRuns
<1>3. PICK w : w = sp_top[o]
  OBVIOUS
<1>4. w \in SpTask /\ sp_wait[w] = o /\ w # o /\ ~sp_task[w].on_rq
  <2>1. w # NoTask /\ ~sp_task[w].on_rq
    BY <1>1, <1>3 DEF rt_mutex_unlock
  <2>2. IsTop(sp_wait, sp_wprio, o, w)
    BY <1>2, <1>3 DEF SpTops
  <2>3. w \in SpTask /\ sp_wait[w] = o
    BY <1>2, <2>1, <2>2, TopWaits
  <2> QED BY <1>0, <1>2, <2>1, <2>3
<1>5. PICK wait : wait = [u \in SpTask |-> IF u = w THEN NoTask ELSE IF sp_wait[u] = o THEN w ELSE sp_wait[u]]
  OBVIOUS
<1>6. PICK x : x = TopWaiter(wait, sp_wprio, w)
  OBVIOUS
<1>7. /\ wait \in [SpTask -> SpTask \cup {NoTask}] /\ wait[w] = NoTask /\ wait[o] = NoTask
      /\ \A u \in SpTask : u # w => wait[u] = IF sp_wait[u] = o THEN w ELSE sp_wait[u]
  BY <1>0, <1>2, <1>4, <1>5 DEF SpTypes
<1>8. IsTop(wait, sp_wprio, w, x)
  BY <1>4, <1>6, TopFound DEF SpTypes
<1>9. x # NoTask => x \in SpTask /\ x # w /\ x # o
  BY <1>0, <1>4, <1>7, <1>8, TopWaits
<1>10. PICK old \in Nat : old = Normal(o)
  BY <1>2, OwnIsNat
<1>11. PICK new \in Nat : new = rt_effective_prio(x, Normal(w))
  <2>1. x # NoTask => sp_task[x].prio \in Nat
    BY <1>9 DEF SpRecord, SpTypes
  <2> QED BY <1>4, <2>1, OwnIsNat DEF rt_effective_prio, Less
<1>12. PICK q : q = Requeue(sp_queue, o, sp_task[o].prio, old)
  OBVIOUS
<1>13. rt_mutex_setprio(sp_queue, o, NoTask)
         = [prio |-> old, queue |-> q, resched |-> check_class_changed(q, o, sp_task[o].prio, old)]
  BY <1>10, <1>12 DEF rt_mutex_setprio, rt_effective_prio
<1>14. /\ sp_wait' = wait /\ sp_wprio' = [sp_wprio EXCEPT ![w] = 0]
       /\ sp_top' = [sp_top EXCEPT ![o] = NoTask, ![w] = x]
       /\ sp_queue' = List(q, w, new, FALSE)
       /\ sp_resched' = (sp_resched \/ check_class_changed(q, o, sp_task[o].prio, old) \/ new < old)
       /\ UNCHANGED <<sp_curr, sp_adjust, sp_call>>
  BY <1>1, <1>3, <1>5, <1>6, <1>11, <1>13 DEF rt_mutex_unlock
<1>15. /\ \A u \in SpTask : u # o /\ u # w => sp_task'[u] = sp_task[u]
       /\ sp_task'[o] = [sp_task[o] EXCEPT !.prio = old]
       /\ sp_task'[w] = [[sp_task[w] EXCEPT !.prio = new] EXCEPT !.on_rq = TRUE]
       /\ sp_task' = [u \in SpTask |-> sp_task'[u]]
  <2>1. sp_task' = [sp_task EXCEPT ![o].prio = old, ![w].prio = new, ![w].on_rq = TRUE]
    BY <1>1, <1>3, <1>5, <1>6, <1>11, <1>13 DEF rt_mutex_unlock
  <2>2. PICK f : f = [sp_task EXCEPT ![o].prio = old]
    OBVIOUS
  <2>3. PICK g : g = [f EXCEPT ![w].prio = new]
    OBVIOUS
  <2>4. sp_task' = [g EXCEPT ![w].on_rq = TRUE]
    BY <2>1, <2>2, <2>3
  <2>5. /\ f = [u \in SpTask |-> f[u]] /\ f[o] = [sp_task[o] EXCEPT !.prio = old]
        /\ \A u \in SpTask : u # o => f[u] = sp_task[u]
    BY <1>2, <2>2 DEF SpTypes
  <2>6. /\ g = [u \in SpTask |-> g[u]] /\ g[w] = [f[w] EXCEPT !.prio = new]
        /\ \A u \in SpTask : u # w => g[u] = f[u]
    BY <1>4, <2>3, <2>5
  <2>7. /\ sp_task' = [u \in SpTask |-> sp_task'[u]] /\ sp_task'[w] = [g[w] EXCEPT !.on_rq = TRUE]
        /\ \A u \in SpTask : u # w => sp_task'[u] = g[u]
    BY <1>4, <2>4, <2>6
  <2> QED BY <1>2, <1>4, <2>5, <2>6, <2>7
<1>16. /\ sp_task'[o].policy = sp_task[o].policy /\ sp_task'[o].priority = sp_task[o].priority
       /\ sp_task'[o].nice = sp_task[o].nice /\ sp_task'[o].prio = old /\ sp_task'[o].on_rq = sp_task[o].on_rq
       /\ sp_task'[o] \in SpRecord
  <2>1. sp_task[o] \in SpRecord
    BY <1>2 DEF SpTypes
  <2> QED BY <1>10, <1>15, <2>1, PrioStored
<1>17. /\ sp_task'[w].policy = sp_task[w].policy /\ sp_task'[w].priority = sp_task[w].priority
       /\ sp_task'[w].nice = sp_task[w].nice /\ sp_task'[w].prio = new /\ sp_task'[w].on_rq = TRUE
       /\ sp_task'[w] \in SpRecord
  <2>1. sp_task[w] \in SpRecord
    BY <1>4 DEF SpTypes
  <2>2. PICK r : r = [sp_task[w] EXCEPT !.prio = new]
    OBVIOUS
  <2>3. /\ r.policy = sp_task[w].policy /\ r.priority = sp_task[w].priority /\ r.nice = sp_task[w].nice
        /\ r.prio = new /\ r \in SpRecord
    BY <1>11, <2>1, <2>2, PrioStored
  <2>4. sp_task'[w] = [r EXCEPT !.on_rq = TRUE]
    BY <1>15, <2>2
  <2>5. /\ sp_task'[w].policy = r.policy /\ sp_task'[w].priority = r.priority /\ sp_task'[w].nice = r.nice
        /\ sp_task'[w].prio = r.prio /\ sp_task'[w].on_rq = TRUE /\ sp_task'[w] \in SpRecord
    BY <2>3, <2>4, Enqueued
  <2> QED BY <2>3, <2>5
<1>18. sp_task' \in [SpTask -> SpRecord]
  BY <1>15, <1>16, <1>17 DEF SpTypes
<1>19. Queues(q) /\ \A p \in 0 .. SpRtPrio :
         ToSet(q[p]) = {u \in SpTask : sp_task[u].on_rq /\ PrioAfter(o, old, u) = p}
  BY <1>2, <1>12, Requeued
<1>20. Queues(sp_queue') /\ \A p \in 0 .. SpRtPrio :
         ToSet(sp_queue'[p]) = IF p = new THEN ToSet(q[p]) \cup {w} ELSE ToSet(q[p])
  <2>1. \A p \in 0 .. SpRtPrio : w \notin ToSet(q[p])
    BY <1>4, <1>19
  <2>2. PICK l : l = List(q, w, new, FALSE)
    OBVIOUS
  <2>3. IsListed(l, q, w, new)
    BY <2>2 DEF List, IsListed
  <2>4. Queues(q)
    BY <1>19
  <2>5. Queues(l) /\ \A p \in 0 .. SpRtPrio :
          ToSet(l[p]) = IF p = new THEN ToSet(q[p]) \cup {w} ELSE ToSet(q[p])
    <3>1. w \in SpTask /\ new \in Nat
      BY <1>4, <1>11
    <3> QED BY <2>1, <2>3, <2>4, <3>1, Listed
  <2>6. l = sp_queue'
    BY <1>14, <2>2
  <2> QED BY <2>5, <2>6
<1>21. \A u \in SpTask : /\ u # w => sp_task'[u].on_rq = sp_task[u].on_rq
                         /\ u # w => sp_task'[u].prio = PrioAfter(o, old, u)
  BY <1>15, <1>16 DEF PrioAfter
<1>22. SpLists'
  <2>1. ASSUME NEW p \in 0 .. SpRtPrio
        PROVE  ToSet(sp_queue'[p]) = {u \in SpTask : sp_task'[u].on_rq /\ sp_task'[u].prio = p}
    <3>1. ToSet(sp_queue'[p]) = IF p = new THEN ToSet(q[p]) \cup {w} ELSE ToSet(q[p])
      BY <1>20
    <3>2. ToSet(q[p]) = {u \in SpTask : sp_task[u].on_rq /\ PrioAfter(o, old, u) = p}
      BY <1>19
    <3>3. \A u \in SpTask : u # w => (u \in ToSet(q[p]) <=> sp_task'[u].on_rq /\ sp_task'[u].prio = p)
      BY <1>21, <3>2
    <3>4. w \notin ToSet(q[p]) /\ ToSet(q[p]) \subseteq SpTask
      BY <1>4, <3>2
    <3>5. sp_task'[w].on_rq /\ sp_task'[w].prio = new
      BY <1>17
    <3>6. \A u \in SpTask : u \in ToSet(sp_queue'[p]) <=> sp_task'[u].on_rq /\ sp_task'[u].prio = p
      BY <3>1, <3>3, <3>4, <3>5
    <3>7. ToSet(sp_queue'[p]) \subseteq SpTask
      BY <1>4, <3>1, <3>4
    <3> QED BY <3>6, <3>7
  <2> QED BY <1>20, <2>1 DEF SpLists, Queues
<1>23. SpRuns'
  <2>1. sp_curr' = o /\ o # NoTask /\ sp_task'[o].on_rq
    BY <1>0, <1>1, <1>2, <1>14, <1>16
  <2>2. ASSUME NEW u \in SpTask, sp_task'[u].on_rq, rt_prio(sp_task'[u].prio), ~sp_resched'
        PROVE  sp_task'[o].prio <= sp_task'[u].prio
    <3>1. ~sp_resched /\ ~check_class_changed(q, o, sp_task[o].prio, old) /\ ~(new < old)
      BY <1>14, <2>2
    <3>2. CASE u = w
      BY <1>16, <1>17, <3>1, <3>2
    <3>3. CASE u # w
      <4>1. sp_task[u].on_rq /\ rt_prio(PrioAfter(o, old, u))
        BY <1>21, <2>2, <3>3
      <4>2. PrioAfter(o, old, sp_curr) <= PrioAfter(o, old, u)
        BY <1>2, <1>12, <3>1, <4>1, Preempted
      <4>3. PrioAfter(o, old, sp_curr) = old
        BY <1>1 DEF PrioAfter
      <4> QED BY <1>16, <1>21, <3>3, <4>2, <4>3
    <3> QED BY <3>2, <3>3
  <2> QED BY <2>1, <2>2 DEF SpRuns, rt_prio
<1>24. SpTypes'
  <2>1. sp_wprio' \in [SpTask -> Nat] /\ sp_top' \in [SpTask -> SpTask \cup {NoTask}]
    BY <1>9, <1>14 DEF SpTypes
  <2>2. sp_resched' \in BOOLEAN
    BY <1>14
  <2> QED BY <1>7, <1>14, <1>18, <1>20, <2>1, <2>2 DEF SpTypes, Queues
<1>25. SpPolicies'
  <2>1. \A u \in SpTask : sp_task'[u].policy = sp_task[u].policy /\ sp_task'[u].priority = sp_task[u].priority
    BY <1>15, <1>16, <1>17
  <2> QED BY <1>14, <2>1 DEF SpPolicies, rt_policy
<1>26. /\ sp_top'[o] = NoTask /\ sp_top'[w] = x
       /\ \A u \in SpTask : u # o /\ u # w => sp_top'[u] = sp_top[u]
  BY <1>2, <1>4, <1>14 DEF SpTypes
<1>27. \A u \in SpTask : u # w => sp_wprio'[u] = sp_wprio[u]
  BY <1>14 DEF SpTypes
<1>28. SpTops'
  <2>1. ASSUME NEW u \in SpTask PROVE sp_wait'[u] # u /\ IsTop(sp_wait', sp_wprio', u, sp_top'[u])
    <3>1. sp_wait'[u] # u
      BY <1>0, <1>4, <1>7, <1>14 DEF SpTops
    <3>2. w \notin Waiters(wait, u) /\ Waiters(wait, u) \subseteq SpTask
      BY <1>0, <1>7 DEF Waiters
    <3>3. \A v \in Waiters(wait, u) : sp_wprio'[v] = sp_wprio[v]
      BY <1>27, <3>2
    <3>4. CASE u = o
      <4>1. Waiters(wait, o) = {}
        BY <1>0, <1>2, <1>4, <1>7 DEF Waiters
      <4> QED BY <1>14, <1>26, <3>1, <3>4, <4>1 DEF IsTop
    <3>5. CASE u = w
      <4>1. IsTop(sp_wait', sp_wprio', w, x)
        BY <1>8, <1>14, <3>3, <3>5 DEF IsTop
      <4> QED BY <1>26, <3>1, <3>5, <4>1
    <3>6. CASE u # o /\ u # w
      <4>1. Waiters(wait, u) = Waiters(sp_wait, u)
        BY <1>0, <1>4, <1>7, <3>6 DEF Waiters
      <4>2. IsTop(sp_wait, sp_wprio, u, sp_top[u])
        BY DEF SpTops
      <4>3. IsTop(sp_wait', sp_wprio', u, sp_top[u])
        BY <1>14, <3>3, <4>1, <4>2 DEF IsTop
      <4> QED BY <1>26, <3>1, <3>6, <4>3
    <3> QED BY <3>4, <3>5, <3>6
  <2> QED BY <2>1 DEF SpTops
<1>29. SpWaits'
  <2>1. ASSUME NEW u \in SpTask, sp_wait'[u] # NoTask, u \notin sp_adjust'
        PROVE  sp_wprio'[u] = waiter_prio(u)'
    <3>1. u # w /\ u # o /\ sp_wait[u] # NoTask
      BY <1>0, <1>2, <1>7, <1>14, <2>1
    <3>2. sp_wprio[u] = waiter_prio(u)
      BY <1>14, <2>1, <3>1 DEF SpWaits
    <3> QED BY <1>15, <1>27, <3>1, <3>2 DEF waiter_prio
  <2> QED BY <2>1 DEF SpWaits, waiter_prio
<1>30. SpBoosts'
  <2>1. \A u \in SpTask : Normal(u)' = Normal(u)
    BY <1>15, <1>16, <1>17 DEF Normal
  <2>2. sp_task'[o].prio = Effective(o)'
    BY <1>2, <1>10, <1>16, <1>26, <2>1 DEF Effective
  <2>3. sp_task'[w].prio = Effective(w)'
    <3>1. x # NoTask => sp_task'[x].prio = sp_task[x].prio
      BY <1>9, <1>15
    <3> QED BY <1>4, <1>11, <1>17, <1>26, <2>1, <3>1 DEF Effective, rt_effective_prio
  <2>4. ASSUME NEW u \in SpTask, u # o, u # w
        PROVE  Effective(u)' = Effective(u) /\ sp_task'[u].prio = sp_task[u].prio /\ sp_top'[u] = sp_top[u]
    <3>1. IsTop(sp_wait, sp_wprio, u, sp_top[u])
      BY DEF SpTops
    <3>2. sp_top[u] # NoTask => sp_top[u] \in SpTask /\ sp_wait[sp_top[u]] = u
      BY <3>1, TopWaits
    <3>3. sp_top[u] # NoTask => sp_task'[sp_top[u]] = sp_task[sp_top[u]]
      BY <1>0, <1>2, <1>4, <1>15, <2>4, <3>2
    <3> QED BY <1>15, <1>26, <2>1, <2>4, <3>3 DEF Effective
  <2>5. ASSUME NEW u \in SpTask, sp_top'[u] \notin sp_adjust',
               rt_prio(sp_task'[u].prio) \/ rt_prio(Effective(u)')
        PROVE  sp_task'[u].prio = Effective(u)'
    <3>1. CASE u = o \/ u = w
      BY <2>2, <2>3, <3>1
    <3>2. CASE u # o /\ u # w
      BY <1>14, <2>4, <2>5, <3>2 DEF SpBoosts
    <3> QED BY <3>1, <3>2
  <2> QED BY <2>5 DEF SpBoosts, rt_prio
<1> QED BY <1>22, <1>23, <1>24, <1>25, <1>28, <1>29, <1>30

(* schedule() picks the first task of the highest list.                     *)
LEMMA ScheduleKeeps ==
    ASSUME SpInv, NEW sleeps \in BOOLEAN, schedule(sleeps)
    PROVE  SpInv'
<1> USE DEF SpInv
<1>0. NoTask \notin SpTask
  BY SchedPolicyAssumption DEF NoTask
<1>1. PICK off : off = IF sp_curr # NoTask /\ (sleeps \/ sp_wait[sp_curr] # NoTask) THEN {sp_curr} ELSE {}
  OBVIOUS
<1>2. PICK q : q = IF off = {} THEN sp_queue ELSE Unlist(sp_queue, sp_curr, sp_task[sp_curr].prio)
  OBVIOUS
<1>3. /\ sp_task' = [t \in SpTask |-> IF t \in off THEN [sp_task[t] EXCEPT !.on_rq = FALSE] ELSE sp_task[t]]
      /\ sp_queue' = q /\ sp_curr' \in pick_highest(q, off) /\ sp_resched' = FALSE
      /\ UNCHANGED <<sp_wait, sp_wprio, sp_top, sp_adjust, sp_call>>
  BY <1>1, <1>2 DEF schedule, pi_vars
<1>4. off = {} \/ (off = {sp_curr} /\ sp_curr \in SpTask)
  BY <1>1 DEF SpTypes
<1>5. \A t \in SpTask :
        /\ sp_task'[t].policy = sp_task[t].policy /\ sp_task'[t].priority = sp_task[t].priority
        /\ sp_task'[t].nice = sp_task[t].nice /\ sp_task'[t].prio = sp_task[t].prio
        /\ sp_task'[t] \in SpRecord
  <2>1. ASSUME NEW t \in SpTask
        PROVE  /\ sp_task'[t].policy = sp_task[t].policy /\ sp_task'[t].priority = sp_task[t].priority
               /\ sp_task'[t].nice = sp_task[t].nice /\ sp_task'[t].prio = sp_task[t].prio
               /\ sp_task'[t] \in SpRecord
    <3>1. sp_task[t] \in SpRecord
      BY DEF SpTypes
    <3>2. CASE t \in off
      <4>1. sp_task'[t] = [sp_task[t] EXCEPT !.on_rq = FALSE]
        BY <1>3, <3>2
      <4> QED BY <3>1, <4>1, Enqueued
    <3>3. CASE t \notin off
      BY <1>3, <3>1, <3>3
    <3> QED BY <3>2, <3>3
  <2> QED BY <2>1
<1>6. ASSUME NEW t \in SpTask PROVE sp_task'[t].on_rq <=> sp_task[t].on_rq /\ t \notin off
  <2>1. sp_task[t] \in SpRecord
    BY DEF SpTypes
  <2>2. CASE t \in off
    <3>1. sp_task'[t] = [sp_task[t] EXCEPT !.on_rq = FALSE]
      BY <1>3, <2>2
    <3>2. sp_task'[t].on_rq = FALSE
      BY <2>1, <3>1, Enqueued
    <3> QED BY <2>2, <3>2
  <2>3. CASE t \notin off
    BY <1>3, <2>3
  <2> QED BY <2>2, <2>3
<1>7. Queues(q) /\ \A p \in 0 .. SpRtPrio :
        ToSet(q[p]) = {t \in SpTask : (sp_task[t].on_rq /\ t \notin off) /\ sp_task[t].prio = p}
  <2>1. Queues(sp_queue)
    BY DEF SpTypes, SpLists, Queues
  <2>2. CASE off = {}
    BY <1>2, <2>1, <2>2 DEF SpLists
  <2>3. CASE off = {sp_curr} /\ sp_curr \in SpTask
    <3>1. PICK c \in SpTask : c = sp_curr
      BY <2>3
    <3>2. PICK old \in Nat : old = sp_task[c].prio
      BY DEF SpTypes, SpRecord
    <3>3. q = Unlist(sp_queue, c, old)
      BY <1>2, <2>3, <3>1, <3>2
    <3>4. Queues(q) /\ \A p \in 0 .. SpRtPrio :
            ToSet(q[p]) = IF p = old THEN ToSet(sp_queue[p]) \ {c} ELSE ToSet(sp_queue[p])
      <4>1. c \in SpTask /\ old \in Nat
        BY <3>1, <3>2
      <4>2. IsUnlisted(q, sp_queue, c, old)
        BY <3>3 DEF IsUnlisted
      <4> QED BY <2>1, <4>1, <4>2, Unlisted
    <3>5. ASSUME NEW p \in 0 .. SpRtPrio
          PROVE  ToSet(q[p]) = {t \in SpTask : (sp_task[t].on_rq /\ t \notin off) /\ sp_task[t].prio = p}
      <4>1. ToSet(q[p]) = IF p = old THEN ToSet(sp_queue[p]) \ {c} ELSE ToSet(sp_queue[p])
        BY <3>4
      <4>2. ToSet(sp_queue[p]) = {t \in SpTask : sp_task[t].on_rq /\ sp_task[t].prio = p}
        BY DEF SpLists
      <4> QED BY <2>3, <3>1, <3>2, <4>1, <4>2
    <3> QED BY <3>3, <3>4, <3>5
  <2> QED BY <1>4, <2>2, <2>3
<1>8. SpLists'
  <2>1. ASSUME NEW p \in 0 .. SpRtPrio
        PROVE  ToSet(sp_queue'[p]) = {t \in SpTask : sp_task'[t].on_rq /\ sp_task'[t].prio = p}
    <3>1. ToSet(q[p]) = {t \in SpTask : (sp_task[t].on_rq /\ t \notin off) /\ sp_task[t].prio = p}
      BY <1>7
    <3>2. \A t \in SpTask : sp_task'[t].prio = sp_task[t].prio
      BY <1>5
    <3> QED BY <1>3, <1>6, <3>1, <3>2
  <2> QED BY <1>3, <1>7, <2>1 DEF SpLists, Queues
<1>9. PICK rt : rt = {p \in 0 .. SpRtPrio : q[p] # <<>>}
  OBVIOUS
<1>10. ASSUME NEW u \in SpTask, sp_task'[u].on_rq, rt_prio(sp_task'[u].prio)
       PROVE  sp_task'[u].prio \in rt
  <2>1. PICK p \in Nat : p = sp_task[u].prio /\ p = sp_task'[u].prio
    BY <1>5 DEF SpTypes, SpRecord
  <2>2. p \in 0 .. SpRtPrio
    BY <1>10, <2>1, SchedPolicyAssumption DEF rt_prio
  <2>3. u \in ToSet(q[p])
    BY <1>6, <1>7, <1>10, <2>1, <2>2
  <2>4. q[p] # <<>>
    BY <1>7, <2>2, <2>3, Queued DEF Queues
  <2> QED BY <1>9, <2>1, <2>2, <2>4
<1>11. ASSUME rt # {}
       PROVE  /\ sp_curr' \in SpTask /\ sp_curr' # NoTask /\ sp_task'[sp_curr'].on_rq
              /\ \A u \in SpTask : sp_task'[u].on_rq /\ rt_prio(sp_task'[u].prio)
                   => sp_task'[sp_curr'].prio <= sp_task'[u].prio
  <2>1. PICK m \in rt : m = (CHOOSE p \in rt : \A r \in rt : p <= r) /\ \A r \in rt : m <= r
    <3>1. \E p \in rt : \A r \in rt : p <= r
      <4>1. rt \subseteq Nat
        BY <1>9
      <4> QED BY <1>11, <4>1, LeastElement
    <3> QED BY <3>1
  <2>2. sp_curr' = Head(q[m])
    BY <1>3, <1>9, <1>11, <2>1 DEF pick_highest
  <2>3. m \in 0 .. SpRtPrio /\ q[m] # <<>> /\ q[m] \in Seq(SpTask)
    BY <1>7, <1>9, <2>1 DEF Queues
  <2>4. Head(q[m]) \in ToSet(q[m])
    <3>1. Len(q[m]) \in Nat /\ DOMAIN q[m] = 1 .. Len(q[m]) /\ Len(q[m]) # 0
      BY <2>3, LenProperties, EmptySeq
    <3>2. Head(q[m]) = q[m][1]
      BY <2>3, HeadTailProperties
    <3> QED BY <3>1, <3>2 DEF ToSet
  <2>5. sp_curr' \in SpTask /\ sp_task[sp_curr'].on_rq /\ sp_curr' \notin off /\ sp_task[sp_curr'].prio = m
    BY <1>7, <2>2, <2>3, <2>4
  <2>6. sp_curr' # NoTask /\ sp_task'[sp_curr'].on_rq /\ sp_task'[sp_curr'].prio = m
    BY <1>0, <1>5, <1>6, <2>5
  <2>7. \A u \in SpTask : sp_task'[u].on_rq /\ rt_prio(sp_task'[u].prio) => sp_task'[sp_curr'].prio <= sp_task'[u].prio
    BY <1>10, <2>1, <2>6
  <2> QED BY <2>5, <2>6, <2>7
<1>12. ASSUME rt = {}
       PROVE  /\ sp_curr' # NoTask => sp_curr' \in SpTask /\ sp_task'[sp_curr'].on_rq
              /\ \A u \in SpTask : ~(sp_task'[u].on_rq /\ rt_prio(sp_task'[u].prio))
  <2>1. PICK fair : fair = {t \in SpTask \ off : sp_task[t].on_rq /\ ~rt_prio(sp_task[t].prio)}
    OBVIOUS
  <2>2. sp_curr' \in fair \/ sp_curr' = NoTask
    BY <1>3, <1>9, <1>12, <2>1 DEF pick_highest
  <2>3. sp_curr' # NoTask => sp_curr' \in SpTask /\ sp_task'[sp_curr'].on_rq
    BY <1>6, <2>1, <2>2
  <2>4. \A u \in SpTask : ~(sp_task'[u].on_rq /\ rt_prio(sp_task'[u].prio))
    BY <1>10, <1>12
  <2> QED BY <2>3, <2>4
<1>13. SpRuns'
  <2>1. sp_curr' # NoTask => sp_task'[sp_curr'].on_rq
    BY <1>11, <1>12
  <2>2. \A u \in SpTask : sp_task'[u].on_rq /\ rt_prio(sp_task'[u].prio)
          => sp_curr' # NoTask /\ sp_task'[sp_curr'].prio <= sp_task'[u].prio
    BY <1>11, <1>12
  <2> QED BY <2>1, <2>2 DEF SpRuns, rt_prio
<1>14. SpTypes'
  <2>1. sp_task' \in [SpTask -> SpRecord]
    BY <1>3, <1>5
  <2>2. sp_curr' \in SpTask \cup {NoTask}
    BY <1>11, <1>12
  <2> QED BY <1>3, <1>7, <2>1, <2>2 DEF SpTypes, Queues
<1>15. SpPolicies'
  BY <1>3, <1>5 DEF SpPolicies, rt_policy
<1>16. SpTops'
  BY <1>3 DEF SpTops
<1>17. \A t \in SpTask : sp_task'[t].prio = sp_task[t].prio /\ Normal(t)' = Normal(t)
  BY <1>5 DEF Normal
<1>18. SpWaits'
  BY <1>3, <1>17 DEF SpWaits, waiter_prio
<1>19. SpBoosts'
  BY <1>3, <1>17, BoostsStay
<1> QED BY <1>8, <1>13, <1>14, <1>15, <1>16, <1>18, <1>19

(* A wakeup asks for a reschedule if the task is to preempt.                *)
LEMMA WakeKeeps ==
    ASSUME SpInv, NEW t \in SpTask, ttwu_do_activate(t)
    PROVE  SpInv'
<1> USE DEF SpInv
<1>0. NoTask \notin SpTask
  BY SchedPolicyAssumption DEF NoTask
<1>1. PICK prio \in Nat : prio = sp_task[t].prio
  BY DEF SpTypes, SpRecord
<1>2. /\ ~sp_task[t].on_rq
      /\ sp_task' = [sp_task EXCEPT ![t] = [sp_task[t] EXCEPT !.on_rq = TRUE]]
      /\ sp_queue' = List(sp_queue, t, prio, FALSE)
      /\ sp_resched' = (sp_resched \/ sp_curr = NoTask \/ prio < sp_task[sp_curr].prio)
      /\ UNCHANGED <<sp_curr, sp_wait, sp_wprio, sp_top, sp_adjust, sp_call>>
  BY <1>1 DEF ttwu_do_activate, pi_vars
<1>3. /\ \A u \in SpTask : u # t => sp_task'[u] = sp_task[u]
      /\ sp_task'[t].policy = sp_task[t].policy /\ sp_task'[t].priority = sp_task[t].priority
      /\ sp_task'[t].nice = sp_task[t].nice /\ sp_task'[t].prio = sp_task[t].prio
      /\ sp_task'[t].on_rq = TRUE /\ sp_task' \in [SpTask -> SpRecord]
  <2>1. PICK r : r = [sp_task[t] EXCEPT !.on_rq = TRUE]
    OBVIOUS
  <2>2. sp_task[t] \in SpRecord
    BY DEF SpTypes
  <2>3. /\ r.policy = sp_task[t].policy /\ r.priority = sp_task[t].priority /\ r.nice = sp_task[t].nice
        /\ r.prio = sp_task[t].prio /\ r.on_rq = TRUE /\ r \in SpRecord
    BY <2>1, <2>2 DEF SpRecord
  <2>4. sp_task' = [sp_task EXCEPT ![t] = r]
    BY <1>2, <2>1
  <2> QED BY <2>3, <2>4 DEF SpTypes
<1>4. Queues(sp_queue') /\ \A p \in 0 .. SpRtPrio :
        ToSet(sp_queue'[p]) = IF p = prio THEN ToSet(sp_queue[p]) \cup {t} ELSE ToSet(sp_queue[p])
  <2>1. Queues(sp_queue)
    BY DEF SpTypes, SpLists, Queues
  <2>2. \A p \in 0 .. SpRtPrio : t \notin ToSet(sp_queue[p])
    BY <1>2 DEF SpLists
  <2>3. PICK l : l = sp_queue'
    OBVIOUS
  <2>4. IsListed(l, sp_queue, t, prio)
    BY <1>2, <2>3 DEF List, IsListed
  <2>5. Queues(l) /\ \A p \in 0 .. SpRtPrio :
          ToSet(l[p]) = IF p = prio THEN ToSet(sp_queue[p]) \cup {t} ELSE ToSet(sp_queue[p])
    BY <1>1, <2>1, <2>2, <2>4, Listed
  <2> QED BY <2>3, <2>5
<1>5. SpLists'
  <2>1. ASSUME NEW p \in 0 .. SpRtPrio
        PROVE  ToSet(sp_queue'[p]) = {u \in SpTask : sp_task'[u].on_rq /\ sp_task'[u].prio = p}
    <3>1. ToSet(sp_queue'[p]) = IF p = prio THEN ToSet(sp_queue[p]) \cup {t} ELSE ToSet(sp_queue[p])
      BY <1>4
    <3>2. ToSet(sp_queue[p]) = {u \in SpTask : sp_task[u].on_rq /\ sp_task[u].prio = p}
      BY DEF SpLists
    <3>3. \A u \in SpTask : u # t => (u \in ToSet(sp_queue[p]) <=> sp_task'[u].on_rq /\ sp_task'[u].prio = p)
      BY <1>3, <3>2
    <3>4. t \notin ToSet(sp_queue[p]) /\ ToSet(sp_queue[p]) \subseteq SpTask
      BY <1>2, <3>2
    <3>5. sp_task'[t].on_rq /\ sp_task'[t].prio = prio
      BY <1>1, <1>3
    <3>6. \A u \in SpTask : u \in ToSet(sp_queue'[p]) <=> sp_task'[u].on_rq /\ sp_task'[u].prio = p
      BY <3>1, <3>3, <3>4, <3>5
    <3>7. ToSet(sp_queue'[p]) \subseteq SpTask
      BY <3>1, <3>4
    <3> QED BY <3>6, <3>7
  <2> QED BY <1>4, <2>1 DEF SpLists, Queues
<1>6. sp_curr # NoTask => sp_curr \in SpTask /\ sp_curr # t /\ sp_task'[sp_curr] = sp_task[sp_curr]
  BY <1>2, <1>3 DEF SpTypes, SpRuns
<1>7. SpRuns'
  <2>1. sp_curr' # NoTask => sp_task'[sp_curr'].on_rq
    BY <1>2, <1>6 DEF SpRuns
  <2>2. ASSUME NEW u \in SpTask, sp_task'[u].on_rq, rt_prio(sp_task'[u].prio), ~sp_resched'
        PROVE  sp_curr' # NoTask /\ sp_task'[sp_curr'].prio <= sp_task'[u].prio
    <3>1. ~sp_resched /\ sp_curr # NoTask /\ ~(prio < sp_task[sp_curr].prio)
      BY <1>2, <2>2
    <3>2. sp_task[sp_curr].prio <= prio
      <4>1. sp_task[sp_curr].prio \in Nat
        BY <1>6, <3>1 DEF SpTypes, SpRecord
      <4> QED BY <1>1, <3>1, <4>1
    <3>3. CASE u = t
      BY <1>1, <1>2, <1>3, <1>6, <3>1, <3>2, <3>3
    <3>4. CASE u # t
      BY <1>2, <1>3, <1>6, <2>2, <3>1, <3>4 DEF SpRuns
    <3> QED BY <3>3, <3>4
  <2> QED BY <2>1, <2>2 DEF SpRuns, rt_prio
<1>8. SpTypes'
  <2>1. sp_resched' \in BOOLEAN
    BY <1>2
  <2> QED BY <1>2, <1>3, <1>4, <2>1 DEF SpTypes, Queues
<1>9. SpPolicies'
  BY <1>2, <1>3 DEF SpPolicies, rt_policy
<1>10. SpTops'
  BY <1>2 DEF SpTops
<1>11. \A u \in SpTask : sp_task'[u].prio = sp_task[u].prio /\ Normal(u)' = Normal(u)
  BY <1>3 DEF Normal
<1>12. SpWaits'
  BY <1>2, <1>11 DEF SpWaits, waiter_prio
<1>13. SpBoosts'
  BY <1>2, <1>11, BoostsStay
<1> QED BY <1>5, <1>7, <1>8, <1>9, <1>10, <1>12, <1>13

(* Each step keeps the invariant.                                           *)
LEMMA SpStep == SpInv /\ SchedPolicyNext => SpInv'
<1> SUFFICES ASSUME SpInv, SchedPolicyNext PROVE SpInv'
  OBVIOUS
<1>1. ASSUME NEW t \in SpTask, NEW r \in 0 .. SpRtPrio, setparam_check(t, r) PROVE SpInv'
  <2>1. sp_task[t].policy \in Policy /\ sp_task[t].nice \in SpNice
    BY DEF SpInv, SpTypes, SpRecord
  <2>2. PICK c : c = [t |-> t, policy |-> sp_task[t].policy, prio |-> r, nice |-> sp_task[t].nice]
    OBVIOUS
  <2>3. sp_call' = c /\ UNCHANGED <<sp_task, sp_queue, sp_curr, sp_resched, pi_vars>>
        /\ (rt_policy(sp_task[t].policy) <=> r # 0)
    BY <1>1, <2>2 DEF setparam_check
  <2>4. /\ c \in [t : SpTask \cup {NoTask}, policy : Policy, prio : 0 .. SpRtPrio, nice : SpNice]
        /\ c.t \in SpTask /\ c.policy = sp_task[t].policy /\ c.prio = r
    BY <2>1, <2>2
  <2> QED BY <2>3, <2>4, CallKeeps
<1>2. ASSUME NEW t \in SpTask, NEW r \in 0 .. SpRtPrio, NEW p \in Policy, sched_setscheduler(t, p, r) PROVE SpInv'
  <2>1. sp_task[t].nice \in SpNice
    BY DEF SpInv, SpTypes, SpRecord
  <2>2. (rt_policy(p) <=> r # 0) /\ __sched_setscheduler(t, p, r, sp_task[t].nice) /\ sp_call' = sp_call
    BY <1>2 DEF sched_setscheduler
  <2> QED BY <2>1, <2>2, SetSchedulerKeeps
<1>3. CASE setparam_recheck
  <2>1. PICK c, pol : c = sp_call /\ pol = sp_task[c.t].policy
    OBVIOUS
  <2>2. c \in [t : SpTask \cup {NoTask}, policy : Policy, prio : 0 .. SpRtPrio, nice : SpNice]
        /\ c # NoSpCall /\ c.t \in SpTask
    BY <1>3, <2>1 DEF setparam_recheck, SpInv, SpTypes, SpPolicies
  <2>3. pol \in Policy
    BY <2>1, <2>2 DEF SpInv, SpTypes, SpRecord
  <2>4. /\ sp_call' = IF rt_policy(pol) = (c.prio # 0) THEN [c EXCEPT !.policy = pol] ELSE NoSpCall
        /\ UNCHANGED <<sp_task, sp_queue, sp_curr, sp_resched, pi_vars>>
    BY <1>3, <2>1 DEF setparam_recheck
  <2>5. CASE rt_policy(pol) <=> c.prio # 0
    <3>1. PICK d : d = [c EXCEPT !.policy = pol]
      OBVIOUS
    <3>2. /\ d \in [t : SpTask \cup {NoTask}, policy : Policy, prio : 0 .. SpRtPrio, nice : SpNice]
          /\ d.t = c.t /\ d.policy = pol /\ d.prio = c.prio
      BY <2>2, <2>3, <3>1
    <3>3. sp_call' = d
      BY <2>4, <2>5, <3>1 DEF rt_policy
    <3> QED BY <2>2, <2>4, <2>5, <3>2, <3>3, CallKeeps
  <2>6. CASE ~(rt_policy(pol) <=> c.prio # 0)
    <3>1. sp_call' = NoSpCall
      BY <2>4, <2>6 DEF rt_policy
    <3>2. NoSpCall \in [t : SpTask \cup {NoTask}, policy : Policy, prio : 0 .. SpRtPrio, nice : SpNice]
      BY SchedPolicyAssumption DEF NoSpCall, Policy
    <3> QED BY <2>4, <3>1, <3>2, CallKeeps
  <2> QED BY <2>5, <2>6
<1>4. CASE sched_setparam
  <2>1. PICK c, pol : c = sp_call /\ pol = sp_task[c.t].policy
    OBVIOUS
  <2>2. c \in [t : SpTask \cup {NoTask}, policy : Policy, prio : 0 .. SpRtPrio, nice : SpNice]
        /\ c.t \in SpTask /\ (rt_policy(c.policy) <=> c.prio # 0) /\ pol = c.policy
    BY <1>4, <2>1 DEF sched_setparam, policy_stale, SpInv, SpTypes, SpPolicies
  <2>3. /\ __sched_setscheduler(c.t, pol, c.prio, c.nice) /\ sp_call' = NoSpCall
        /\ pol \in Policy /\ c.prio \in 0 .. SpRtPrio /\ c.nice \in SpNice /\ (rt_policy(pol) <=> c.prio # 0)
    BY <1>4, <2>1, <2>2 DEF sched_setparam
  <2> QED BY <2>2, <2>3, SetSchedulerKeeps
<1>5. ASSUME NEW t \in SpTask, NEW n \in SpNice, set_user_nice(t, n) PROVE SpInv'
  BY <1>5, NiceKeeps
<1>6. ASSUME NEW o \in SpTask, rt_mutex_lock(o) PROVE SpInv'
  BY <1>6, LockKeeps
<1>7. ASSUME NEW t \in SpTask, rt_mutex_adjust_pi(t) PROVE SpInv'
  BY <1>7, AdjustKeeps
<1>8. ASSUME NEW t \in SpTask, ttwu_do_activate(t) PROVE SpInv'
  BY <1>8, WakeKeeps
<1>9. CASE rt_mutex_unlock
  BY <1>9, UnlockKeeps
<1>10. ASSUME NEW sleeps \in BOOLEAN, schedule(sleeps) PROVE SpInv'
  BY <1>10, ScheduleKeeps
<1> QED BY <1>1, <1>2, <1>3, <1>4, <1>5, <1>6, <1>7, <1>8, <1>9, <1>10 DEF SchedPolicyNext

LEMMA SpTurn ==
    ASSUME [ComponentsNext]_components_vars, part' = "policy"
    PROVE  part = "policy" /\ [SchedPolicyNext]_schedpolicy_vars
BY DEF ComponentsNext, components_vars, Turn

LEMMA SpRests == SpInv /\ UNCHANGED schedpolicy_vars => SpInv'
<1> SUFFICES ASSUME SpInv, UNCHANGED schedpolicy_vars PROVE SpInv'
  OBVIOUS
<1>1. /\ UNCHANGED <<sp_task, sp_queue, sp_curr, sp_resched, pi_vars>> /\ sp_call' = sp_call
  BY DEF schedpolicy_vars, pi_vars
<1>2. /\ sp_call \in [t : SpTask \cup {NoTask}, policy : Policy, prio : 0 .. SpRtPrio, nice : SpNice]
      /\ sp_call # NoSpCall => sp_call.t \in SpTask /\ (rt_policy(sp_call.policy) <=> sp_call.prio # 0)
  BY DEF SpInv, SpTypes, SpPolicies
<1> QED BY <1>1, <1>2, CallKeeps

(* __sched_setscheduler, set_user_nice and rt_mutex_setprio on one CPU, for *)
(* any tasks and any number of priorities: policy and priority agree,       *)
(* although the policy may change between the checks of a call and its      *)
(* effect; a runnable real-time task is on the list of its priority, once;  *)
(* the task that runs has the highest priority or is about to be preempted; *)
(* and between chain walks a task has the priority of the highest real-time *)
(* task that waits for it, or its own.                                      *)
THEOREM PrioritiesKept == ComponentsSpec => []Priority
<1> DEFINE I == part = "policy" => SpInv
<1>1. ComponentsInit => I
  BY SpStart DEF ComponentsInit
<1>2. I /\ [ComponentsNext]_components_vars => I'
  BY SpTurn, SpStep, SpRests
<1>3. I => Priority
  BY SpSoundFrom DEF Priority, While
<1> QED BY <1>1, <1>2, <1>3, PTL DEF ComponentsSpec
==============================================================================
