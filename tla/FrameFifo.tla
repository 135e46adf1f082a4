----------------------------- MODULE FrameFifo -----------------------------
(***************************************************************************)
(* What the ring of a recording channel promises its users: a queue of     *)
(* whole frames.  A frame enters at the tail in one piece or not at all,   *)
(* leaves at the head in one piece, and all of them may be thrown away at  *)
(* once.  FrameBuf.tla implements it on the byte ring.                     *)
(***************************************************************************)
EXTENDS Sequences

CONSTANT Frame
VARIABLE queue

Init == queue = << >>

Append1(f) == queue' = Append(queue, f)
RemoveHead == queue # << >> /\ queue' = Tail(queue)
Clear == queue' = << >>

Next == (\E f \in Frame : Append1(f)) \/ RemoveHead \/ Clear

Spec == Init /\ [][Next]_queue
=============================================================================
