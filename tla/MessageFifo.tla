---------------------------- MODULE MessageFifo ----------------------------
(***************************************************************************)
(* What the send queue of ModNet promises: messages come out in the order  *)
(* they were put in, and the message handed to the reader stays the same   *)
(* until the reader gives it back.  LoopBuf.tla implements it.             *)
(***************************************************************************)
EXTENDS Sequences

CONSTANTS Message, None
VARIABLES queue,   \* the messages put in and not given back, oldest first
          held     \* the message the reader looks at, or None

Init == queue = << >> /\ held = None

Put == \E m \in Message : queue' = Append(queue, m) /\ UNCHANGED held

Take == /\ held = None /\ queue # << >>
        /\ held' = Head(queue)
        /\ UNCHANGED queue

GiveBack == /\ held # None
            /\ queue' = Tail(queue)
            /\ held' = None

Next == Put \/ Take \/ GiveBack

Spec == Init /\ [][Next]_<<queue, held>>
=============================================================================
