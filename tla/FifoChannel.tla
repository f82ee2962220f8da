----------------------------- MODULE FifoChannel -----------------------------
(***************************************************************************)
(* What a software receive queue of the driver promises to the protocol    *)
(* stack above it.  A frame is named by its arrival number.  The channel   *)
(* accepts frames in arrival order, passes up a prefix of what it holds,   *)
(* and may discard everything it holds at once; it never invents, repeats  *)
(* or overtakes a frame.  No source file is translated here: the modules   *)
(* of the queues are shown to implement it.                                *)
(***************************************************************************)
EXTENDS Naturals, Sequences

VARIABLES
    arrived,   \* number of the last frame the device received
    pending,   \* frames accepted and not yet passed up, oldest first
    out        \* frames passed up, in that order

chan == <<arrived, pending, out>>

Init == arrived = 0 /\ pending = <<>> /\ out = <<>>

(* The device receives a frame, and the channel accepts it or leaves it *)
(* to another path.                                                     *)
Receive ==
    /\ arrived' = arrived + 1
    /\ pending' \in {pending, Append(pending, arrived + 1)}
    /\ UNCHANGED out

Deliver ==
    \E k \in 1 .. Len(pending) :
        /\ out' = out \o SubSeq(pending, 1, k)
        /\ pending' = SubSeq(pending, k + 1, Len(pending))
        /\ UNCHANGED arrived

Discard == pending' = <<>> /\ UNCHANGED <<arrived, out>>

Next == Receive \/ Deliver \/ Discard

Spec == Init /\ [][Next]_chan

------------------------------------------------------------------------------

Increasing(s) == \A i, j \in 1 .. Len(s) : i < j => s[i] < s[j]

ChanTypeOK ==
    /\ arrived \in Nat
    /\ pending \in Seq(1 .. arrived)
    /\ out \in Seq(1 .. arrived)

(* No frame is passed up twice, held twice, or overtaken by a later one:   *)
(* what was passed up followed by what is held is strictly increasing.     *)
InOrder ==
    /\ Increasing(out)
    /\ Increasing(pending)
    /\ \A i \in 1 .. Len(out), j \in 1 .. Len(pending) : out[i] < pending[j]

==============================================================================
