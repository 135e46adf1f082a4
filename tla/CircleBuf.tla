----------------------------- MODULE CircleBuf -----------------------------
(***************************************************************************)
(* The byte ring of ModRecord/src/circlebuf.c (SCircleBufInfo).  Every     *)
(* function of that file works between a sem_wait and a sem_post of the    *)
(* ring's own semaphore, so each is one atomic step.                       *)
(*                                                                         *)
(* The ring is a record, so that the clients of record.c, which call       *)
(* several of these functions inside one critical section of theirs        *)
(* (FrameBuf.tla), can apply them one after the other: f(b, ...) is the    *)
(* ring after the call that found it equal to b, and fOK(b, ...) says that *)
(* the call returned EM_REC_SUCCESS.  The memory is a function from        *)
(* offsets to bytes.  malloc and sem_init are assumed to succeed.          *)
(***************************************************************************)
EXTENDS Integers, Sequences

CONSTANTS Length,   \* nLength, the size of the memory
          Byte,     \* what a cell of the memory may hold
          NoByte    \* what malloc left in a cell nothing was written to

ASSUME LengthAssumption == Length \in Nat \ {0}

Offset == 0 .. Length - 1

Ring == [mem : [Offset -> Byte \cup {NoByte}], wr : Offset, rd : Offset,
         wrPast : Offset, rdPast : Offset, used : 0 .. Length]

VARIABLE info

-----------------------------------------------------------------------------
(* The functions of circlebuf.c.                                           *)

(* off moved forward by n, at most once around. *)
Advance(off, n) == IF off + n >= Length THEN off + n - Length ELSE off + n

(* How far off is ahead of past: zero, and not Length, when they are equal. *)
Ahead(off, past) == IF off < past THEN off + Length - past ELSE off - past

(* Offsets and length zeroed; the memory keeps its bytes. *)
ResetCircleBuf(b) ==
    [b EXCEPT !.wr = 0, !.rd = 0, !.wrPast = 0, !.rdPast = 0, !.used = 0]

CreateCircleBuf ==
    [mem |-> [o \in Offset |-> NoByte],
     wr |-> 0, rd |-> 0, wrPast |-> 0, rdPast |-> 0, used |-> 0]

\* Mutant: a write may take one byte more than there is.
WriteOKOffByOne(b, data) == Len(data) > 0 /\ b.used + Len(data) <= Length + 1

WriteOK(b, data) == Len(data) > 0 /\ b.used + Len(data) <= Length

WriteDataToBuf(b, data) ==
    IF ~ WriteOK(b, data) THEN b
    ELSE [b EXCEPT
            !.mem = [o \in Offset |-> IF Ahead(o, b.wr) < Len(data)
                                      THEN data[Ahead(o, b.wr) + 1]
                                      ELSE b.mem[o]],
            !.wrPast = b.wr,
            !.wr = Advance(b.wr, Len(data)),
            !.used = b.used + Len(data)]

ReadOK(b, n) == n > 0 /\ n <= b.used

(* The bytes a successful read of n copies out. *)
BytesRead(b, n) == [i \in 1 .. n |-> b.mem[Advance(b.rd, i - 1)]]

(* A read of more than there is empties the ring. *)
ReadDataFromBuf(b, n) ==
    IF n <= 0 THEN b
    ELSE IF n > b.used THEN ResetCircleBuf(b)
    ELSE [b EXCEPT !.rdPast = b.rd, !.rd = Advance(b.rd, n),
                   !.used = b.used - n]

(* ResumeCircleBufToPast(info, 1, 0): take back the last write. *)
ResumeWrite(b) ==
    LET n == Ahead(b.wr, b.wrPast)
    IN  IF b.used < n THEN ResetCircleBuf(b)
        ELSE [b EXCEPT !.used = b.used - n, !.wr = b.wrPast]

(* ResumeCircleBufToPast(info, 0, 1): take back the last read. *)
ResumeRead(b) ==
    LET n == Ahead(b.rd, b.rdPast)
    IN  IF b.used + n > Length THEN ResetCircleBuf(b)
        ELSE [b EXCEPT !.used = b.used + n, !.rd = b.rdPast]

SkipOK(b, n) == n <= b.used

\* Mutant: the comparison that lines 285 and 308 replaced: the offset may end one past the memory.
SkipToTheEnd(b, n) ==
    IF ~ SkipOK(b, n) THEN b
    ELSE [b EXCEPT !.rdPast = b.rd,
                   !.rd = IF b.rd + n > Length THEN b.rd + n - Length ELSE b.rd + n,
                   !.used = b.used - n]

(* SkipCircleBuf(info, 0, 1, n), the only form a caller uses. *)
SkipCircleBuf(b, n) ==
    IF ~ SkipOK(b, n) THEN b
    ELSE [b EXCEPT !.rdPast = b.rd, !.rd = Advance(b.rd, n),
                   !.used = b.used - n]

-----------------------------------------------------------------------------
(* The ring on its own: any caller, any order of calls.  A call for more    *)
(* than Length + 1 bytes does what one for Length + 1 does.                *)

RingInit == info = CreateCircleBuf

RingWrite == \E n \in 1 .. Length + 1 : \E data \in [1 .. n -> Byte] :
            info' = WriteDataToBuf(info, data)

RingRead == \E n \in 1 .. Length + 1 : info' = ReadDataFromBuf(info, n)

RingSkip == \E n \in 0 .. Length : info' = SkipCircleBuf(info, n)

RingResume == info' = ResumeWrite(info) \/ info' = ResumeRead(info)

RingReset == info' = ResetCircleBuf(info)

RingNext == RingWrite \/ RingRead \/ RingSkip \/ RingResume \/ RingReset

RingSpec == RingInit /\ [][RingNext]_info

-----------------------------------------------------------------------------
(* The bytes waiting to be read, oldest first. *)
Content(b) == BytesRead(b, b.used)

(* Every offset stays inside the memory and nLenUsed never exceeds it. *)
RingTypeOK == info \in Ring

(***************************************************************************)
(* The write offset is always nLenUsed bytes ahead of the read offset,     *)
(* whatever writes, failed reads (which wipe the ring), skips and resumes  *)
(* came before: five fields that are updated separately never disagree,    *)
(* not even when a call ends exactly at the end of the memory or moves     *)
(* Length bytes at once.                                                   *)
(***************************************************************************)
Consistent == info.wr = Advance(info.rd, info.used)

IsHead(s, t) == Len(s) <= Len(t) /\ \A i \in 1 .. Len(s) : s[i] = t[i]

IsTail(s, t) == /\ Len(s) <= Len(t)
                /\ \A i \in 1 .. Len(s) : s[i] = t[Len(t) - Len(s) + i]

(***************************************************************************)
(* No call changes a byte that was waiting to be read and still is: the    *)
(* waiting bytes only grow or shrink at one of their ends.  An overrun, a  *)
(* wrong wrap-around or a resume that went too far would rewrite or shift  *)
(* them.                                                                   *)
(***************************************************************************)
OnlyTheEndsMove ==
    [][LET old == Content(info)
           new == Content(info')
       IN  IsHead(old, new) \/ IsTail(old, new) \/ IsHead(new, old) \/ IsTail(new, old)]_info
=============================================================================
