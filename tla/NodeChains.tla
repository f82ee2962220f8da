---------------------------- MODULE NodeChains -----------------------------
(***************************************************************************)
(* The evaluation workloads: timer driven nodes that number their messages   *)
(* and publish them, and chain nodes that take a message of their topic,     *)
(* mark the start and the end of the work on it (system call 456, and the    *)
(* printed lines the analysis scripts pair up) and pass it on.  Every node   *)
(* is a process with a single threaded executor; every subscription keeps    *)
(* the last Depth messages.                                                 *)
(*                                                                          *)
(* The delivery of a published message to the subscriptions (rclcpp, DDS and *)
(* the network) is external: in order for one subscription, at any time.     *)
(***************************************************************************)
EXTENDS Integers, FiniteSets, Sequences, SequencesExt

CONSTANTS Node,    \* the nodes that are started
          Depth,   \* history of a subscription, 10 in the nodes
          MaxCount \* messages of a timer driven node

Wire(name, from, to) == [node |-> name, takes |-> from, gives |-> to]

\* What the program of each file wires up: the topic a node takes, "none" for
\* one driven by its timer, and the one it passes messages on to, "None" for
\* the last of a chain.  The command line names the topic a node takes.
Lidar == {Wire("talker_lidar", "none", "topic_lidar"),
          Wire("talker_camera1", "none", "topic_camera1"),
          Wire("talker_camera2", "none", "topic_camera2"),
          Wire("talker_TF", "none", "topic_TF"), Wire("talker_goal", "none", "topic_goal")}
local == {Wire("local", "topic_lidar", "topic_pos"),
          Wire("local_pos", "topic_pos", "topic_local_costmap"),
          Wire("local_costmap", "topic_local_costmap", "None")}
global == {Wire("global", "topic_lidar", "None")}
TF_path == {Wire("TF", "topic_TF", "topic_joint"), Wire("TF_joint", "topic_joint", "topic_URDF"),
            Wire("TF_URDF", "topic_URDF", "None")}
camera1_path == {Wire("camera1", "topic_camera1", "topic_processing"),
                 Wire("camera1_processing", "topic_processing", "topic_detection"),
                 Wire("camera1_detection", "topic_detection", "None")}
camera2_path == {Wire("camera2", "topic_camera2", "topic_estimation"),
                 Wire("camera2_estimation", "topic_estimation", "None")}
goal == {Wire("goal", "topic_goal", "None")}
motivation_talker == {Wire("talker", "none", "chatter")}
motivation_listener == {Wire("listener", "chatter", "None")}
\* The random DAGs: topics are free, here a chain of two; -st none is a timer.
uunifast == {Wire("uunifast", "none", "random_topic")}
msg_uunifast == {Wire("msg_uunifast", "random_topic", "None")}

Wires == Lidar \cup local \cup global \cup TF_path \cup camera1_path \cup camera2_path \cup goal
         \cup motivation_talker \cup motivation_listener \cup uunifast \cup msg_uunifast

ASSUME NodeChainsAssumption ==
    /\ Node \subseteq {w.node : w \in Wires}
    /\ Depth \in Nat \ {0} /\ MaxCount \in Nat

WireOf(n) == CHOOSE w \in Wires : w.node = n
subscribes(n) == WireOf(n).takes
publishes(n) == WireOf(n).gives

Timed == {n \in Node : subscribes(n) = "none"}
Chained == Node \ Timed
Subscribers(n) == {m \in Chained : subscribes(m) = publishes(n)}
Sources(m) == {n \in Node : m \in Subscribers(n)}

VARIABLES count,     \* count_ of the timer driven nodes
          history,   \* messages a subscription holds, oldest first
          transit,   \* messages published and not yet at the subscription
          callback,  \* "idle", "work" or "publish"
          message,   \* the message the callback works on
          started, ended  \* last message marked 456,1 and 456,2

chains_vars == <<count, history, transit, callback, message, started, ended>>

NodeChainsInit ==
    /\ count = [n \in Timed |-> 1]
    /\ history = [n \in Chained |-> << >>]
    /\ transit = [n \in Chained |-> << >>]
    /\ callback = [n \in Node |-> "idle"]
    /\ message = [n \in Node |-> 0]
    /\ started = [n \in Node |-> 0] /\ ended = [n \in Node |-> 0]

Publish(n, m) ==
    transit' = [s \in Chained |-> IF s \in Subscribers(n) THEN Append(transit[s], m)
                                                          ELSE transit[s]]

\* The timer callback: take a number, print, work, publish.
publish_message(n) ==
    /\ count[n] <= MaxCount
    /\ count' = [count EXCEPT ![n] = @ + 1]
    /\ started' = [started EXCEPT ![n] = count[n]]
    /\ ended' = [ended EXCEPT ![n] = count[n]]
    /\ Publish(n, count[n])
    /\ UNCHANGED <<history, callback, message>>

\* KEEP_LAST: the oldest message gives way.
Keep(s, m) == IF Len(s) < Depth THEN Append(s, m) ELSE Append(Tail(s), m)

deliver(n) ==
    /\ transit[n] # << >>
    /\ history' = [history EXCEPT ![n] = Keep(@, Head(transit[n]))]
    /\ transit' = [transit EXCEPT ![n] = Tail(@)]
    /\ UNCHANGED <<count, callback, message, started, ended>>

\* unifiedCallback: mark the start, then the dummy load.
callback_start(n) ==
    /\ callback[n] = "idle" /\ history[n] # << >>
    /\ message' = [message EXCEPT ![n] = Head(history[n])]
    /\ history' = [history EXCEPT ![n] = Tail(@)]
    /\ started' = [started EXCEPT ![n] = Head(history[n])]
    /\ callback' = [callback EXCEPT ![n] = "work"]
    /\ UNCHANGED <<count, transit, ended>>

\* Faulty variant: the message is passed on before the end is marked.
callback_end_late(n) ==
    /\ callback[n] = "work"
    /\ Publish(n, message[n])
    /\ callback' = [callback EXCEPT ![n] = "publish"]
    /\ UNCHANGED <<count, history, message, started, ended>>

callback_end(n) ==
    /\ callback[n] = "work"
    /\ ended' = [ended EXCEPT ![n] = message[n]]
    /\ callback' = [callback EXCEPT ![n] = "publish"]
    /\ UNCHANGED <<count, history, transit, message, started>>

\* Pass the message on if there is a publisher, and return to the executor.
callback_publish(n) ==
    /\ callback[n] = "publish"
    /\ IF publishes(n) # "None" THEN Publish(n, message[n]) ELSE UNCHANGED transit
    /\ callback' = [callback EXCEPT ![n] = "idle"]
    /\ UNCHANGED <<count, history, message, started, ended>>

NodeChainsNext ==
    \/ \E n \in Timed : publish_message(n)
    \/ \E n \in Chained : deliver(n) \/ callback_start(n) \/ callback_end(n)
                          \/ callback_publish(n)

-----------------------------------------------------------------------------
(* Properties *)

Numbers == 0..(MaxCount + 1)

NodeChainsTypeOK ==
    /\ count \in [Timed -> Numbers] /\ message \in [Node -> Numbers]
    /\ started \in [Node -> Numbers] /\ ended \in [Node -> Numbers]
    /\ \A n \in Chained : history[n] \in Seq(Numbers) /\ transit[n] \in Seq(Numbers)
    /\ callback \in [Node -> {"idle", "work", "publish"}]

\* What the end to end analysis takes for granted: a node marks the start of
\* a message only after the node before it has marked its end, and each node
\* works on the messages in the order of their numbers, whatever was
\* overwritten in between.
ChainOrdered ==
    \A n \in Chained :
        /\ \A p \in Sources(n) : started[n] <= ended[p]
        /\ ended[n] <= started[n]
        /\ LET waiting == <<started[n]>> \o history[n] \o transit[n]
           IN \A i, j \in 1..Len(waiting) : i < j => waiting[i] < waiting[j]
=============================================================================
