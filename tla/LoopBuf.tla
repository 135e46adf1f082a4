------------------------------ MODULE LoopBuf ------------------------------
(***************************************************************************)
(* The message ring ifly_msgQ_t of ModNet/src/loopbuf.c (built with        *)
(* MSGQ_OPT), as the sending side of ModNet uses it: capture threads put   *)
(* frames in with GetMsgQWriteInfo ... skipWriteMsgQ (netcomm.c), the      *)
(* preview thread takes them out with GetMsgQReadInfo ... skipReadMsgQ     *)
(* (remotepreview.c), sending to its clients from the ring's own memory.   *)
(*                                                                         *)
(* A message takes a number of units; one that does not fit before the     *)
(* end of the memory jumps to its start.  A unit of memory holds the       *)
(* number of the message last written there.                               *)
(***************************************************************************)
EXTENDS Integers, Sequences, FiniteSets

CONSTANTS UnitNum,     \* unitNum: the units of memory
          MsgNum,      \* msgnum: the most messages in the ring
          Writers,     \* the capture threads
          Sizes,       \* the units a message takes
          Kinds,       \* "video", "audio"
          MaxMsgs,     \* bound: messages offered in a run
          None

ASSUME LoopAssumption == /\ UnitNum \in Nat \ {0}
                         /\ MsgNum \in Nat \ {0}
                         /\ Sizes \subseteq Nat \ {0}
                         /\ MaxMsgs \in Nat
                         /\ IsFiniteSet(Writers) /\ None \notin Writers /\ None \notin Nat

VARIABLES slot,                        \* buf_start, buf_num, buf_jump
          rpos, wpos,                  \* the slots to read and to fill next
          freePos, usedPos, freeNum,   \* free_pos, used_pos, free_num
          rsem, wsem,                  \* the two semaphores
          lock,                        \* the mutex: its owner or None
          mem,                         \* the memory
          wpc, msg,                    \* each writer: where it is, with what
          rpc,                         \* where the reader is
          offered                      \* messages offered so far

ring == <<slot, rpos, wpos, freePos, usedPos, freeNum>>
vars == <<ring, rsem, wsem, lock, mem, wpc, msg, rpc, offered>>

Slot == 0 .. MsgNum - 1
Unit == 0 .. UnitNum - 1
Next1(s) == (s + 1) % MsgNum

(* Where the bytes of a slot begin, and how much ring it takes. *)
Begin(s) == IF slot[s].jump = 0 THEN slot[s].start ELSE 0
Extent(s) == slot[s].jump + slot[s].num

-----------------------------------------------------------------------------
Init == /\ slot = [s \in Slot |-> [start |-> 0, num |-> 0, jump |-> 0]]
        /\ rpos = 0 /\ wpos = 0
        /\ freePos = 0 /\ usedPos = 0 /\ freeNum = UnitNum
        /\ rsem = 0 /\ wsem = MsgNum
        /\ lock = None
        /\ mem = [u \in Unit |-> 0]
        /\ wpc = [w \in Writers |-> "idle"]
        /\ msg = [w \in Writers |-> None]
        /\ rpc = "idle"
        /\ offered = 0

WGoto(w, where) == wpc' = [wpc EXCEPT ![w] = where]

(* GetMsgQWriteInfo: sem_trywait, or the frame is lost. *)
TryWait(w) ==
    /\ wpc[w] = "idle" /\ offered < MaxMsgs
    /\ offered' = offered + 1
    /\ \/ /\ wsem > 0
          /\ wsem' = wsem - 1
          /\ \E n \in Sizes, k \in Kinds :
                msg' = [msg EXCEPT ![w] = [no |-> offered + 1, num |-> n, kind |-> k]]
          /\ WGoto(w, "gotSem")
       \/ wsem = 0 /\ UNCHANGED <<wsem, wpc, msg>>
    /\ UNCHANGED <<ring, rsem, lock, mem, rpc>>

(* The units skipped at the end of the memory. *)
Jump(num) == IF freePos + num > UnitNum THEN UnitNum - freePos ELSE 0

\* Mutant: a message is let in although there is no room for it after its jump.
ReserveIgnoringJump(w) ==
    LET num == msg[w].num
        jump == Jump(num)
        at == IF jump = 0 THEN freePos ELSE 0
    IN  /\ wpc[w] = "gotSem" /\ lock = None
        /\ num <= freeNum
        /\ lock' = w
        /\ slot' = [slot EXCEPT ![wpos] = [start |-> freePos, num |-> num, jump |-> jump]]
        /\ mem' = [mem EXCEPT ![at] = msg[w].no]
        /\ WGoto(w, "copy")
        /\ UNCHANGED <<rpos, wpos, freePos, usedPos, freeNum, rsem, wsem, msg, rpc, offered>>

(* Room for it: reserve the slot, keep the mutex, write the length. *)
Reserve(w) ==
    LET num == msg[w].num
        jump == Jump(num)
        at == IF jump = 0 THEN freePos ELSE 0
    IN  /\ wpc[w] = "gotSem" /\ lock = None
        /\ jump + num <= freeNum
        /\ lock' = w
        /\ slot' = [slot EXCEPT ![wpos] = [start |-> freePos, num |-> num, jump |-> jump]]
        /\ mem' = [mem EXCEPT ![at] = msg[w].no]
        /\ WGoto(w, "copy")
        /\ UNCHANGED <<rpos, wpos, freePos, usedPos, freeNum, rsem, wsem, msg, rpc, offered>>

(* No room: give the semaphore back. *)
Refuse(w) ==
    /\ wpc[w] = "gotSem" /\ lock = None
    /\ Jump(msg[w].num) + msg[w].num > freeNum
    /\ WGoto(w, "refused")
    /\ UNCHANGED <<ring, rsem, wsem, lock, mem, msg, rpc, offered>>

PostRefused(w) ==
    /\ wpc[w] = "refused"
    /\ wsem' = wsem + 1
    /\ WGoto(w, "idle") /\ msg' = [msg EXCEPT ![w] = None]
    /\ UNCHANGED <<ring, rsem, lock, mem, rpc, offered>>

(***************************************************************************)
(* The caller copies its frame to the place it was given.  For an audio    *)
(* frame netcomm.c copies the length of the frame and its header behind    *)
(* the header, one header more than was reserved: it may spill into the    *)
(* unit behind, and past the end of the memory, unless the last unit has   *)
(* that much to spare.                                                     *)
(***************************************************************************)
Spill(m) == IF m.kind = "audio" THEN {0, 1} ELSE {0}

Copy(w) ==
    /\ wpc[w] = "copy"
    /\ \E over \in Spill(msg[w]) :
          mem' = [u \in Unit |-> IF u - Begin(wpos) \in 0 .. msg[w].num + over - 1
                                 THEN msg[w].no ELSE mem[u]]
    /\ WGoto(w, "copied")
    /\ UNCHANGED <<ring, rsem, wsem, lock, msg, rpc, offered>>

\* Mutant: the position may stay at the end of the memory.
CommitNoWrap(w) ==
    LET extent == Jump(slot[wpos].num) + slot[wpos].num
    IN  /\ wpc[w] = "copied"
        /\ freePos' = freePos + extent
        /\ freeNum' = freeNum - extent
        /\ wpos' = Next1(wpos)
        /\ lock' = None
        /\ WGoto(w, "committed")
        /\ UNCHANGED <<slot, rpos, usedPos, rsem, wsem, mem, msg, rpc, offered>>

\* Mutant: the units of a jump are not counted.
CommitMessageOnly(w) ==
    LET extent == Jump(slot[wpos].num) + slot[wpos].num
    IN  /\ wpc[w] = "copied"
        /\ freePos' = (freePos + extent) % UnitNum
        /\ freeNum' = freeNum - slot[wpos].num
        /\ wpos' = Next1(wpos)
        /\ lock' = None
        /\ WGoto(w, "committed")
        /\ UNCHANGED <<slot, rpos, usedPos, rsem, wsem, mem, msg, rpc, offered>>

(* skipWriteMsgQ: the jump is computed again, from the same free_pos. *)
Commit(w) ==
    LET extent == Jump(slot[wpos].num) + slot[wpos].num
    IN  /\ wpc[w] = "copied"
        /\ freePos' = (freePos + extent) % UnitNum
        /\ freeNum' = freeNum - extent
        /\ wpos' = Next1(wpos)
        /\ lock' = None
        /\ WGoto(w, "committed")
        /\ UNCHANGED <<slot, rpos, usedPos, rsem, wsem, mem, msg, rpc, offered>>

\* Mutant: the reader is not woken.
NeverPost(w) ==
    /\ wpc[w] = "committed"
    /\ WGoto(w, "idle") /\ msg' = [msg EXCEPT ![w] = None]
    /\ UNCHANGED <<ring, rsem, wsem, lock, mem, rpc, offered>>

PostWritten(w) ==
    /\ wpc[w] = "committed"
    /\ rsem' = rsem + 1
    /\ WGoto(w, "idle") /\ msg' = [msg EXCEPT ![w] = None]
    /\ UNCHANGED <<ring, wsem, lock, mem, rpc, offered>>

(* GetMsgQReadInfo: the slot and the memory are read without the mutex. *)
Take == /\ rpc = "idle" /\ rsem > 0
        /\ rsem' = rsem - 1
        /\ rpc' = "reading"
        /\ UNCHANGED <<ring, wsem, lock, mem, wpc, msg, offered>>

(* skipReadMsgQ, after the message was sent. *)
GiveBack ==
    /\ rpc = "reading" /\ lock = None
    /\ usedPos' = (usedPos + Extent(rpos)) % UnitNum
    /\ freeNum' = freeNum + Extent(rpos)
    /\ rpos' = Next1(rpos)
    /\ rpc' = "given"
    /\ UNCHANGED <<slot, wpos, freePos, rsem, wsem, lock, mem, wpc, msg, offered>>

PostRead == /\ rpc = "given"
            /\ wsem' = wsem + 1
            /\ rpc' = "idle"
            /\ UNCHANGED <<ring, rsem, lock, mem, wpc, msg, offered>>

Write(w) == \/ Reserve(w) \/ Refuse(w) \/ PostRefused(w)
            \/ Copy(w) \/ Commit(w) \/ PostWritten(w)

Read == Take \/ GiveBack \/ PostRead

Next == (\E w \in Writers : TryWait(w) \/ Write(w)) \/ Read

(* The reader's thread never ends and a writer that has begun goes on. *)
Fairness == WF_vars(Read) /\ \A w \in Writers : WF_vars(Write(w))

Spec == Init /\ [][Next]_vars /\ Fairness
-----------------------------------------------------------------------------
Cardinal(pcs) == Cardinality({w \in Writers : wpc[w] \in pcs})

(* The messages put in and not given back, by what the semaphores say. *)
InFlight == MsgNum - wsem - Cardinal({"gotSem", "refused", "copy", "copied"})
              - (IF rpc = "given" THEN 1 ELSE 0)

TypeOK == /\ slot \in [Slot -> [start : Unit, num : 0 .. UnitNum, jump : 0 .. UnitNum]]
          /\ rpos \in Slot /\ wpos \in Slot
          /\ freePos \in Unit /\ usedPos \in Unit /\ freeNum \in 0 .. UnitNum
          /\ rsem \in 0 .. MsgNum /\ wsem \in 0 .. MsgNum
          /\ lock \in Writers \cup {None}
          /\ mem \in [Unit -> 0 .. MaxMsgs]
          /\ rpc \in {"idle", "reading", "given"}
          /\ \A w \in Writers : lock = w <=> wpc[w] \in {"copy", "copied"}

(***************************************************************************)
(* No slot and no unit is lost.  The two semaphores, counted by threads    *)
(* that post them after they left the mutex, always add up with the        *)
(* messages in flight, and the slot positions agree with them.  free_num,  *)
(* which the jumps at the end of the memory make differ from the message   *)
(* lengths, always is what separates free_pos from used_pos; when all      *)
(* messages were given back the whole memory is free again.                *)
(***************************************************************************)
RingAccounted ==
    /\ InFlight \in 0 .. MsgNum
    /\ rsem + Cardinal({"committed"}) + (IF rpc = "reading" THEN 1 ELSE 0) = InFlight
    /\ wpos = (rpos + InFlight) % MsgNum
    /\ freePos = (usedPos + UnitNum - freeNum) % UnitNum
    /\ InFlight = 0 <=> freeNum = UnitNum

(* The message in slot s, if its units all still hold it. *)
Corrupt == 0
MessageIn(s) ==
    LET u == Begin(s)
    IN  IF \A i \in 0 .. slot[s].num - 1 : mem[u + i] = mem[u] THEN mem[u] ELSE Corrupt

Queue == [i \in 1 .. InFlight |-> MessageIn((rpos + i - 1) % MsgNum)]
Held  == IF rpc = "reading" THEN MessageIn(rpos) ELSE None

Fifo == INSTANCE MessageFifo WITH
          Message <- 1 .. MaxMsgs, queue <- Queue, held <- Held

(***************************************************************************)
(* The copy of an audio frame into the last free units: what it has too    *)
(* much lands on the oldest message, sent at that moment or not, and       *)
(* leaves every other message and the number of them as they were.         *)
(***************************************************************************)
SpillsOver(w) ==
    /\ Copy(w) /\ msg[w].kind = "audio" /\ freeNum = Extent(wpos)
    /\ Len(Queue') = Len(Queue)
    /\ \A i \in 2 .. Len(Queue) : Queue'[i] = Queue[i]

(***************************************************************************)
(* The reader gets the messages in order and whole, and the one it is      *)
(* sending from the ring's memory is not overwritten under it, although it *)
(* reads slot and memory without the mutex.  The one exception is the      *)
(* header too many of an audio frame that takes the last free units.       *)
(***************************************************************************)
ImplementsMessageFifo ==
    /\ Fifo!Init
    /\ [][Fifo!Next \/ \E w \in Writers : SpillsOver(w)]_<<Queue, Held>>

(* Whatever was put in comes out: the wake-up of the reader is not lost. *)
EveryMessageIsSent == InFlight > 0 ~> rpc = "given"
=============================================================================
