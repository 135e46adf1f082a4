----------------------------- MODULE FrameBuf ------------------------------
(***************************************************************************)
(* The frame queue that record.c keeps on top of the byte ring, one per    *)
(* channel: RecordWriteFrameToBuf and RecordUpdateBufReadOffset put a      *)
(* frame in as two writes (an SModRecRecordHeader, then the data),         *)
(* RecordReadFrameFromBuf and RecordSkipOneFrameFromBuf take one out as    *)
(* two reads whose second length comes from the first.                     *)
(*                                                                         *)
(* Several capture threads (the video and the audio of the channel) and    *)
(* the writer thread share the ring; nSemForBuffer protects the pairs of   *)
(* calls, but the tests for room are made without it.  A cell of the ring  *)
(* holds one piece of one frame: pieces 1 .. HeaderLen are its header,     *)
(* the rest its data.                                                      *)
(***************************************************************************)
EXTENDS CircleBuf, FiniteSets

CONSTANTS HeaderLen,  \* sizeof(SModRecRecordHeader), in cells
          Sizes,      \* the data lengths of frames
          Producers,  \* the threads that call ModRecordWriteOneFrame
          PreTimes,   \* the values of g_RecordPreTime
          MaxFrames,  \* bound: frames offered in a run
          None

(* No. n is captured at time n: time stamps grow. *)
Frame == [no : 1 .. MaxFrames, size : Sizes, video : BOOLEAN]

Cell == UNION {{<<f, k>> : k \in 1 .. HeaderLen + f.size} : f \in Frame}

(* A ring holds 3 MB and a header some tens of bytes: one header never     *)
(* fills the ring, where ResumeWrite would take back nothing of it.        *)
ASSUME FrameAssumption == /\ HeaderLen \in 1 .. Length - 1
                          /\ Sizes \subseteq Nat \ {0}
                          /\ PreTimes \subseteq Nat
                          /\ MaxFrames \in Nat
                          /\ None \notin Producers
                          /\ Byte = Cell

VARIABLES lock,      \* who holds nSemForBuffer[chn], or None
          pc,        \* where each producer is
          frame,     \* the frame each producer is putting in
          preTime,   \* g_RecordPreTime[chn]
          offered    \* frames offered so far

vars == <<info, lock, pc, frame, preTime, offered>>

Encoded(f) == [k \in 1 .. HeaderLen + f.size |-> <<f, k>>]
HeaderOf(f) == SubSeq(Encoded(f), 1, HeaderLen)
DataOf(f) == SubSeq(Encoded(f), HeaderLen + 1, HeaderLen + f.size)

(* The frame whose header would be read next. *)
HeadFrame(b) == b.mem[b.rd][1]

NoRoom(f) == f.size + HeaderLen > Length - info.used
UseRate == (info.used * 100) \div Length

-----------------------------------------------------------------------------
\* Mutant: a frame whose data finds no room leaves its header.
FrameWrittenNoUndo(b, f) ==
    LET one == WriteDataToBuf(b, HeaderOf(f))
    IN  WriteDataToBuf(one, DataOf(f))

(* Both writes under the lock; the first is taken back if the second       *)
(* fails.                                                                  *)
FrameWritten(b, f) ==
    LET one == WriteDataToBuf(b, HeaderOf(f))
    IN  IF ~ WriteOK(b, HeaderOf(f)) THEN b
        ELSE IF WriteOK(one, DataOf(f)) THEN WriteDataToBuf(one, DataOf(f))
        ELSE ResumeWrite(one)

(* Both reads under the lock.  A failed read has emptied the ring, and     *)
(* taking back then takes back nothing.                                    *)
FrameRead(b) ==
    LET one == ReadDataFromBuf(b, HeaderLen)
    IN  IF ~ ReadOK(b, HeaderLen) THEN one
        ELSE IF ReadOK(one, HeadFrame(b).size)
             THEN ReadDataFromBuf(one, HeadFrame(b).size)
             ELSE ResumeRead(ReadDataFromBuf(one, HeadFrame(b).size))

\* Mutant: the data of a skipped frame stays.
FrameSkippedHeaderOnly(b) == ReadDataFromBuf(b, HeaderLen)

FrameSkipOK(b) ==
    /\ ReadOK(b, HeaderLen)
    /\ SkipOK(ReadDataFromBuf(b, HeaderLen), HeadFrame(b).size)

FrameSkipped(b) ==
    LET one == ReadDataFromBuf(b, HeaderLen)
    IN  IF ~ ReadOK(b, HeaderLen) THEN one
        ELSE IF FrameSkipOK(b) THEN SkipCircleBuf(one, HeadFrame(b).size)
        ELSE ResumeRead(one)

-----------------------------------------------------------------------------
Init == /\ info = CreateCircleBuf
        /\ lock = None
        /\ pc = [p \in Producers |-> "idle"]
        /\ frame = [p \in Producers |-> None]
        /\ preTime \in PreTimes
        /\ offered = 0

Goto(p, where) == pc' = [pc EXCEPT ![p] = where]

(* A frame arrives; IsPreRecording decides whether it waits for room or    *)
(* makes room by dropping the oldest frames.                               *)
Offer(p) ==
    /\ pc[p] = "idle" /\ offered < MaxFrames
    /\ \E size \in Sizes, video \in BOOLEAN :
          frame' = [frame EXCEPT ![p] = [no |-> offered + 1, size |-> size,
                                         video |-> video]]
    /\ offered' = offered + 1
    /\ Goto(p, "wait") \/ Goto(p, "makeRoom")
    /\ UNCHANGED <<info, lock, preTime>>

(* Recording: the room is seen without the lock, the writes come later. *)
SeesRoom(p) ==
    /\ pc[p] = "wait" /\ ~ NoRoom(frame[p])
    /\ Goto(p, "write")
    /\ UNCHANGED <<info, lock, frame, preTime, offered>>

(* Five polls found no room: the frame is ignored, and after several       *)
(* ignored frames the ring is reset too.                                   *)
GivesUp(p) ==
    /\ pc[p] = "wait" /\ NoRoom(frame[p])
    /\ Goto(p, "idle") \/ Goto(p, "reset")
    /\ UNCHANGED <<info, lock, frame, preTime, offered>>

Resets(p) ==
    /\ pc[p] \in {"reset", "resetThenWrite"} /\ lock = None
    /\ info' = ResetCircleBuf(info)
    /\ Goto(p, IF pc[p] = "reset" THEN "idle" ELSE "writePre")
    /\ UNCHANGED <<lock, frame, preTime, offered>>

Write(p) ==
    /\ pc[p] = "write" /\ lock = None
    /\ info' = FrameWritten(info, frame[p])
    /\ Goto(p, "idle")
    /\ UNCHANGED <<lock, frame, preTime, offered>>

\* Mutant: without the break of line 682.
MakesRoomAgain(p) ==
    /\ pc[p] = "makeRoom" /\ lock = None
    /\ UseRate > 95 \/ NoRoom(frame[p])
    /\ info' = FrameSkipped(info)
    /\ UNCHANGED <<lock, pc, frame, preTime, offered>>

(* Pre-recording: skip the oldest frame while the ring is too full. *)
MakesRoom(p) ==
    /\ pc[p] = "makeRoom" /\ lock = None
    /\ UseRate > 95 \/ NoRoom(frame[p])
    /\ info' = FrameSkipped(info)
    /\ IF FrameSkipOK(info) THEN UNCHANGED pc ELSE Goto(p, "resetThenWrite")
    /\ UNCHANGED <<lock, frame, preTime, offered>>

HasRoom(p) ==
    /\ pc[p] = "makeRoom"
    /\ ~ (UseRate > 95 \/ NoRoom(frame[p]))
    /\ Goto(p, "writePre")
    /\ UNCHANGED <<info, lock, frame, preTime, offered>>

(* Then write, and keep the lock to drop what is too old. *)
WritePre(p) ==
    /\ pc[p] = "writePre" /\ lock = None
    /\ info' = FrameWritten(info, frame[p])
    /\ IF info'.used > info.used /\ frame[p].video
       THEN Goto(p, "trim") /\ lock' = p
       ELSE Goto(p, "idle") /\ UNCHANGED lock
    /\ UNCHANGED <<frame, preTime, offered>>

(* The head is peeked at: line 728 restores the ring it was read from. *)
StillWanted(f, newest) == f.video /\ f.no + preTime > newest.no

\* Mutant: one way out of the loop keeps the lock.
TrimDoneKeepsLock(p) ==
    /\ pc[p] = "trim"
    /\ info.used > 0 => StillWanted(HeadFrame(info), frame[p])
    /\ Goto(p, "idle")
    /\ UNCHANGED <<info, lock, frame, preTime, offered>>

Trim(p) ==
    /\ pc[p] = "trim" /\ info.used > 0
    /\ ~ StillWanted(HeadFrame(info), frame[p])
    /\ info' = FrameSkipped(info)
    /\ IF FrameSkipOK(info) THEN UNCHANGED <<pc, lock>>
                            ELSE Goto(p, "idle") /\ lock' = None
    /\ UNCHANGED <<frame, preTime, offered>>

TrimDone(p) ==
    /\ pc[p] = "trim"
    /\ info.used > 0 => StillWanted(HeadFrame(info), frame[p])
    /\ Goto(p, "idle") /\ lock' = None
    /\ UNCHANGED <<info, frame, preTime, offered>>

(* The writer thread drains a frame; it, the hot-plug path of              *)
(* ModRecordWriteOneFrame and the end of a recording reset the ring.       *)
Read == /\ lock = None
        /\ info' = FrameRead(info)
        /\ UNCHANGED <<lock, pc, frame, preTime, offered>>

ResetBuf == /\ lock = None
            /\ info' = ResetCircleBuf(info)
            /\ UNCHANGED <<lock, pc, frame, preTime, offered>>

(* The status manager takes over a new g_RecordPreTime at any moment. *)
SetPreTime == /\ preTime' \in PreTimes
              /\ UNCHANGED <<info, lock, pc, frame, offered>>

Produce(p) == \/ SeesRoom(p) \/ GivesUp(p) \/ Resets(p) \/ Write(p)
              \/ MakesRoom(p) \/ HasRoom(p) \/ WritePre(p) \/ Trim(p) \/ TrimDone(p)

Next == \/ \E p \in Producers : Offer(p) \/ Produce(p)
        \/ Read \/ ResetBuf \/ SetPreTime

(* A capture thread that was given a frame runs on. *)
Fairness == \A p \in Producers : WF_vars(Produce(p))

Spec == Init /\ [][Next]_vars /\ Fairness

-----------------------------------------------------------------------------
Places == {"idle", "wait", "write", "reset", "makeRoom", "resetThenWrite",
           "writePre", "trim"}

(* Types, and nSemForBuffer is held across steps by a trimming producer    *)
(* only, so that no path of the trim loop keeps or frees it by mistake.    *)
TypeOK == /\ info \in Ring
          /\ lock \in Producers \cup {None}
          /\ pc \in [Producers -> Places]
          /\ frame \in [Producers -> Frame \cup {None}]
          /\ preTime \in PreTimes
          /\ \A p \in Producers : pc[p] = "trim" <=> lock = p

(* A content in which every piece follows the piece before it and is       *)
(* followed by the one after it.                                           *)
Whole(c) ==
    \A i \in 1 .. Len(c) :
      LET f == c[i][1]
          k == c[i][2]
      IN  /\ k = 1 \/ (i > 1 /\ c[i - 1] = <<f, k - 1>>)
          /\ k = HeaderLen + f.size \/ (i < Len(c) /\ c[i + 1] = <<f, k + 1>>)

(***************************************************************************)
(* The bytes in the ring are always a sequence of whole frames, a header   *)
(* at the read offset: whatever failed half-way, a reader never takes      *)
(* data for a header, whose length field would then be garbage.            *)
(***************************************************************************)
Framed == Whole(Content(info))

Heads(c) == {i \in 1 .. Len(c) : c[i][2] = 1}

Nth(S, i) == CHOOSE p \in S : Cardinality({q \in S : q <= p}) = i

(* The frames in a content, oldest first; a torn one is no queue of frames. *)
FramesOf(c) == IF Whole(c) THEN [i \in 1 .. Cardinality(Heads(c)) |-> c[Nth(Heads(c), i)][1]]
                           ELSE <<None>>

Fifo == INSTANCE FrameFifo WITH queue <- FramesOf(Content(info))

(***************************************************************************)
(* The two-part writes, reads and skips implement a queue of whole frames: *)
(* no interleaving of producers, writer thread and resets makes a frame    *)
(* appear twice, out of turn, or in part.                                  *)
(***************************************************************************)
ImplementsFrameFifo == Fifo!Spec

(***************************************************************************)
(* Every frame a producer brings is stored or given up: making room ends   *)
(* even for a frame larger than the ring.                                  *)
(***************************************************************************)
EveryFrameIsDealtWith ==
    \A p \in Producers : pc[p] # "idle" ~> pc[p] = "idle"
=============================================================================
