-------------------------- MODULE FrameBufProofs ---------------------------
(***************************************************************************)
(* The byte ring: for any length, whatever calls of circlebuf.c are made   *)
(* in whatever order, the offsets and nLenUsed stay in range and agree     *)
(* with one another, and no call changes a byte that waits to be read.     *)
(* Sound, the inductive invariant, is for both.  Given it, what waits in   *)
(* the ring is a function on 1 .. used (ContentAt), of which each call     *)
(* adds or removes one end (EndsMove).                                     *)
(*                                                                         *)
(* The frame queue on it: for any frames and any number of producers what  *)
(* waits is a sequence of whole frames, and the ring with its threads      *)
(* implements FrameFifo.  Holds(b, q), the inductive invariant, says that  *)
(* the frames of q lie end to end in what waits in b (Chain); then         *)
(* FramesOf finds q (ChainFrames), and each call of record.c makes a step  *)
(* of the queue (CallMovesQueue).                                          *)
(***************************************************************************)
EXTENDS FrameBuf, FiniteSetTheorems, SequenceTheorems, WellFoundedInduction, TLAPS

Sound(b) == b \in Ring /\ b.wr = Advance(b.rd, b.used)

(* One move inside the memory stays inside it. *)
LEMMA AdvanceInRange ==
    ASSUME NEW off \in Offset, NEW n \in 0 .. Length
    PROVE  Advance(off, n) \in Offset
  BY LengthAssumption DEF Advance, Offset

(* Two moves of at most Length bytes in all are one move. *)
LEMMA AdvanceTwice ==
    ASSUME NEW off \in Offset, NEW m \in 0 .. Length, NEW n \in 0 .. Length,
           m + n <= Length
    PROVE  Advance(Advance(off, m), n) = Advance(off, m + n)
  BY LengthAssumption DEF Advance, Offset

(* The distance between two offsets is less than Length, and moving by it  *)
(* leads from the one to the other.                                        *)
LEMMA AheadIsTheDistance ==
    ASSUME NEW off \in Offset, NEW past \in Offset
    PROVE  /\ Ahead(off, past) \in 0 .. Length - 1
           /\ Advance(past, Ahead(off, past)) = off
  BY LengthAssumption DEF Ahead, Advance, Offset

(* If past + n is off and off + used is wr then past + (n + used) is wr;   *)
(* and conversely for what is left after the last n bytes are taken back.  *)
LEMMA TakeBack ==
    ASSUME NEW rd \in Offset, NEW wr \in Offset, NEW past \in Offset,
           NEW used \in 0 .. Length, wr = Advance(rd, used),
           Ahead(wr, past) <= used
    PROVE  past = Advance(rd, used - Ahead(wr, past))
  BY LengthAssumption DEF Ahead, Advance, Offset

LEMMA SoundCreate == Sound(CreateCircleBuf)
  BY LengthAssumption, SMT DEF Sound, CreateCircleBuf, Ring, Offset, Advance

LEMMA SoundReset == ASSUME NEW b, Sound(b) PROVE Sound(ResetCircleBuf(b))
<1>1. 0 \in Offset /\ 0 \in 0 .. Length /\ Advance(0, 0) = 0
  BY LengthAssumption DEF Offset, Advance
<1>2. ResetCircleBuf(b) \in Ring
  BY <1>1 DEF Sound, ResetCircleBuf, Ring
<1>3. ResetCircleBuf(b).wr = 0 /\ ResetCircleBuf(b).rd = 0 /\ ResetCircleBuf(b).used = 0
  BY DEF Sound, ResetCircleBuf, Ring
<1> QED
  BY <1>1, <1>2, <1>3 DEF Sound

LEMMA SoundWrite ==
    ASSUME NEW b, Sound(b), NEW n \in Nat \ {0}, NEW data \in [1 .. n -> Byte]
    PROVE  Sound(WriteDataToBuf(b, data))
<1>1. CASE ~ WriteOK(b, data)
  BY <1>1 DEF WriteDataToBuf
<1>2. CASE WriteOK(b, data)
  <2>1. /\ Len(data) = n
        /\ b.used + n <= Length
        /\ n \in 0 .. Length
        /\ b.used + n \in 0 .. Length
    BY <1>2, LengthAssumption DEF WriteOK, Sound, Ring
  <2> DEFINE mem == [o \in Offset |-> IF Ahead(o, b.wr) < Len(data)
                                      THEN data[Ahead(o, b.wr) + 1]
                                      ELSE b.mem[o]]
             c == WriteDataToBuf(b, data)
  <2>2. mem \in [Offset -> Byte \cup {NoByte}]
    <3> SUFFICES ASSUME NEW o \in Offset
                 PROVE  (IF Ahead(o, b.wr) < Len(data)
                         THEN data[Ahead(o, b.wr) + 1] ELSE b.mem[o])
                            \in Byte \cup {NoByte}
      OBVIOUS
    <3>1. Ahead(o, b.wr) \in 0 .. Length - 1
      BY AheadIsTheDistance DEF Sound, Ring
    <3>2. b.mem[o] \in Byte \cup {NoByte}
      BY DEF Sound, Ring
    <3> QED
      BY <2>1, <3>1, <3>2, LengthAssumption
  <2>3. Advance(b.wr, n) \in Offset
    BY <2>1, AdvanceInRange DEF Sound, Ring
  <2>4. Advance(b.wr, n) = Advance(b.rd, b.used + n)
    BY <2>1, AdvanceTwice, LengthAssumption DEF Sound, Ring
  <2>5. c = [b EXCEPT !.mem = mem, !.wrPast = b.wr,
                      !.wr = Advance(b.wr, n), !.used = b.used + n]
    BY <1>2, <2>1 DEF WriteDataToBuf
  <2> HIDE DEF mem, c
  <2>6. c \in Ring
    BY <2>1, <2>2, <2>3, <2>5 DEF Sound, Ring
  <2>7. c.wr = Advance(c.rd, c.used)
    BY <2>4, <2>5 DEF Sound, Ring
  <2> QED
    BY <2>6, <2>7 DEF Sound, c
<1> QED
  BY <1>1, <1>2

LEMMA SoundTake ==
    ASSUME NEW b, Sound(b), NEW n \in Nat, n <= b.used
    PROVE  Sound([b EXCEPT !.rdPast = b.rd, !.rd = Advance(b.rd, n),
                           !.used = b.used - n])
<1>1. n \in 0 .. Length /\ b.used - n \in 0 .. Length /\ n + (b.used - n) = b.used
  BY LengthAssumption DEF Sound, Ring
<1>2. Advance(b.rd, n) \in Offset
  BY <1>1, AdvanceInRange DEF Sound, Ring
<1>3. Advance(Advance(b.rd, n), b.used - n) = Advance(b.rd, b.used)
  BY <1>1, AdvanceTwice, LengthAssumption DEF Sound, Ring
<1> QED
  BY <1>1, <1>2, <1>3 DEF Sound, Ring

LEMMA SoundRead ==
    ASSUME NEW b, Sound(b), NEW n \in Nat
    PROVE  Sound(ReadDataFromBuf(b, n))
<1>1. CASE n <= 0
  BY <1>1 DEF ReadDataFromBuf
<1>2. CASE n > 0 /\ n > b.used
  BY <1>2, SoundReset DEF ReadDataFromBuf
<1>3. CASE n > 0 /\ ~ (n > b.used)
  <2>1. n <= b.used
    BY <1>3 DEF Sound, Ring
  <2> QED
    BY <1>3, <2>1, SoundTake DEF ReadDataFromBuf
<1> QED
  BY <1>1, <1>2, <1>3

LEMMA SoundSkip ==
    ASSUME NEW b, Sound(b), NEW n \in Nat
    PROVE  Sound(SkipCircleBuf(b, n))
  BY SoundTake DEF SkipCircleBuf, SkipOK

LEMMA SoundResumeWrite == ASSUME NEW b, Sound(b) PROVE Sound(ResumeWrite(b))
<1> DEFINE n == Ahead(b.wr, b.wrPast)
<1>1. n \in 0 .. Length - 1
  BY AheadIsTheDistance DEF Sound, Ring
<1>2. CASE b.used < n
  BY <1>2, SoundReset DEF ResumeWrite
<1>3. CASE ~ (b.used < n)
  <2>1. n <= b.used /\ b.used - n \in 0 .. Length
    BY <1>1, <1>3, LengthAssumption DEF Sound, Ring
  <2>2. b.wrPast = Advance(b.rd, b.used - n)
    BY <2>1, TakeBack DEF Sound, Ring
  <2>3. ResumeWrite(b) = [b EXCEPT !.used = b.used - n, !.wr = b.wrPast]
    BY <1>3 DEF ResumeWrite
  <2> QED
    BY <2>1, <2>2, <2>3 DEF Sound, Ring
<1> QED
  BY <1>2, <1>3

LEMMA SoundResumeRead == ASSUME NEW b, Sound(b) PROVE Sound(ResumeRead(b))
<1> DEFINE n == Ahead(b.rd, b.rdPast)
<1>1. n \in 0 .. Length - 1 /\ Advance(b.rdPast, n) = b.rd
  BY AheadIsTheDistance DEF Sound, Ring
<1>2. CASE b.used + n > Length
  BY <1>2, SoundReset DEF ResumeRead
<1>3. CASE ~ (b.used + n > Length)
  <2>1. n + b.used = b.used + n /\ n + b.used <= Length
        /\ b.used + n \in 0 .. Length /\ n \in 0 .. Length
    BY <1>1, <1>3, LengthAssumption DEF Sound, Ring
  <2>2. b.wr = Advance(b.rdPast, b.used + n)
    BY <1>1, <2>1, AdvanceTwice DEF Sound, Ring
  <2>3. ResumeRead(b) = [b EXCEPT !.used = b.used + n, !.rd = b.rdPast]
    BY <1>3 DEF ResumeRead
  <2> QED
    BY <2>1, <2>2, <2>3 DEF Sound, Ring
<1> QED
  BY <1>2, <1>3

LEMMA SoundNext == Sound(info) /\ [RingNext]_info => Sound(info)'
<1> SUFFICES ASSUME Sound(info), [RingNext]_info
             PROVE  Sound(info')
  BY DEF Sound
<1>1. CASE RingWrite
  <2>1. PICK n \in 1 .. Length + 1 :
           \E data \in [1 .. n -> Byte] : info' = WriteDataToBuf(info, data)
    BY <1>1 DEF RingWrite
  <2>2. PICK data \in [1 .. n -> Byte] : info' = WriteDataToBuf(info, data)
    BY <2>1
  <2> QED
    BY <2>1, <2>2, SoundWrite
<1>2. CASE RingRead
  BY <1>2, SoundRead DEF RingRead
<1>3. CASE RingSkip
  BY <1>3, SoundSkip, LengthAssumption DEF RingSkip
<1>4. CASE RingResume
  BY <1>4, SoundResumeWrite, SoundResumeRead DEF RingResume
<1>5. CASE RingReset
  BY <1>5, SoundReset DEF RingReset
<1>6. CASE UNCHANGED info
  BY <1>6
<1> QED
  BY <1>1, <1>2, <1>3, <1>4, <1>5, <1>6 DEF RingNext

(***************************************************************************)
(* Type correctness and agreement of the offsets, for every Length: the    *)
(* two are one inductive invariant, since a resume stays in range only     *)
(* when the offsets agree with nLenUsed.                                   *)
(***************************************************************************)
THEOREM RingSound == RingSpec => [](RingTypeOK /\ Consistent)
<1>1. RingInit => Sound(info)
  BY SoundCreate DEF RingInit
<1>2. Sound(info) /\ [RingNext]_info => Sound(info)'
  BY SoundNext
<1>3. Sound(info) => RingTypeOK /\ Consistent
  BY DEF Sound, RingTypeOK, Consistent
<1> QED
  BY <1>1, <1>2, <1>3, PTL DEF RingSpec
-----------------------------------------------------------------------------
(* What is waiting to be read.                                             *)

Waits(b, i) == b.mem[Advance(b.rd, i - 1)]

LEMMA ContentAt ==
    ASSUME NEW b, Sound(b)
    PROVE  /\ Len(Content(b)) = b.used /\ b.used \in 0 .. Length
           /\ \A i \in 1 .. b.used : Content(b)[i] = Waits(b, i)
<1>1. b.used \in Nat /\ b.used \in 0 .. Length
  BY LengthAssumption DEF Sound, Ring
<1>2. Content(b) = [i \in 1 .. b.used |-> Waits(b, i)]
  BY Zenon DEF Content, BytesRead, Waits
<1>3. Content(b) \in [1 .. b.used -> {Waits(b, i) : i \in 1 .. b.used}]
  BY <1>2
<1>4. Len(Content(b)) = b.used
  BY <1>1, <1>3
<1> QED
  BY <1>1, <1>2, <1>4

(* One ring holds the oldest bytes of another, or the newest.              *)
LEMMA Older ==
    ASSUME NEW b, Sound(b), NEW c, Sound(c), b.used <= c.used,
           \A i \in 1 .. b.used : Waits(b, i) = Waits(c, i)
    PROVE  IsHead(Content(b), Content(c))
<1>1. \A i \in 1 .. b.used : i \in 1 .. c.used
  BY ContentAt, LengthAssumption
<1> QED
  BY <1>1, ContentAt DEF IsHead

LEMMA Newer ==
    ASSUME NEW b, Sound(b), NEW c, Sound(c), b.used <= c.used,
           \A i \in 1 .. b.used : Waits(b, i) = Waits(c, c.used - b.used + i)
    PROVE  IsTail(Content(b), Content(c))
<1>1. \A i \in 1 .. b.used : c.used - b.used + i \in 1 .. c.used
  BY ContentAt, LengthAssumption
<1> QED
  BY <1>1, ContentAt DEF IsTail

EndsMove(b, c) == \/ IsHead(Content(b), Content(c)) \/ IsTail(Content(b), Content(c))
                  \/ IsHead(Content(c), Content(b)) \/ IsTail(Content(c), Content(b))

LEMMA NothingMoves == ASSUME NEW b, Sound(b) PROVE EndsMove(b, b)
<1>1. b.used <= b.used
  BY ContentAt, LengthAssumption
<1> QED
  BY <1>1, Older DEF EndsMove

LEMMA ResetMoves == ASSUME NEW b, Sound(b) PROVE EndsMove(b, ResetCircleBuf(b))
<1> DEFINE c == ResetCircleBuf(b)
<1>1. Sound(c)
  BY SoundReset
<1>2. c.used = 0
  BY DEF Sound, Ring, ResetCircleBuf
<1> HIDE DEF c
<1>3. IsHead(Content(c), Content(b))
  BY <1>1, <1>2, Older, ContentAt, LengthAssumption
<1> QED
  BY <1>3 DEF EndsMove, c

(* The cells that a write fills are not those that are waiting.            *)
LEMMA WaitingIsBehind ==
    ASSUME NEW rd \in Offset, NEW used \in 0 .. Length, NEW n \in Nat, used + n <= Length,
           NEW i \in 1 .. used
    PROVE  /\ Advance(rd, i - 1) \in Offset
           /\ ~ (Ahead(Advance(rd, i - 1), Advance(rd, used)) < n)
  BY LengthAssumption DEF Ahead, Advance, Offset

LEMMA WriteMoves ==
    ASSUME NEW b, Sound(b), NEW n \in Nat \ {0}, NEW data \in [1 .. n -> Byte]
    PROVE  EndsMove(b, WriteDataToBuf(b, data))
<1> DEFINE c == WriteDataToBuf(b, data)
<1>1. CASE ~ WriteOK(b, data)
  BY <1>1, NothingMoves DEF WriteDataToBuf
<1>2. CASE WriteOK(b, data)
  <2>1. /\ Len(data) = n /\ b.used + n <= Length
        /\ b.rd \in Offset /\ b.used \in 0 .. Length /\ b.wr = Advance(b.rd, b.used)
    BY <1>2 DEF WriteOK, Sound, Ring
  <2> DEFINE mem == [o \in Offset |-> IF Ahead(o, b.wr) < Len(data)
                                      THEN data[Ahead(o, b.wr) + 1]
                                      ELSE b.mem[o]]
  <2>2. c = [b EXCEPT !.mem = mem, !.wrPast = b.wr,
                      !.wr = Advance(b.wr, n), !.used = b.used + n]
    BY <1>2, <2>1 DEF WriteDataToBuf
  <2>3. Sound(c)
    BY SoundWrite
  <2> HIDE DEF mem, c
  <2>4. c.mem = mem /\ c.rd = b.rd /\ c.used = b.used + n
    BY <2>2 DEF Sound, Ring
  <2>5. \A i \in 1 .. b.used : Waits(b, i) = Waits(c, i)
    <3> SUFFICES ASSUME NEW i \in 1 .. b.used
                 PROVE  mem[Advance(b.rd, i - 1)] = b.mem[Advance(b.rd, i - 1)]
      BY <2>4 DEF Waits
    <3>1. /\ Advance(b.rd, i - 1) \in Offset
          /\ ~ (Ahead(Advance(b.rd, i - 1), b.wr) < Len(data))
      BY <2>1, WaitingIsBehind
    <3> QED
      BY <3>1, Zenon DEF mem
  <2>6. b.used <= c.used
    BY <2>1, <2>4, LengthAssumption
  <2>7. IsHead(Content(b), Content(c))
    BY <2>3, <2>5, <2>6, Older
  <2> QED
    BY <2>7 DEF EndsMove, c
<1> QED
  BY <1>1, <1>2

LEMMA TakeMoves ==
    ASSUME NEW b, Sound(b), NEW n \in Nat, n <= b.used
    PROVE  EndsMove(b, [b EXCEPT !.rdPast = b.rd, !.rd = Advance(b.rd, n),
                                 !.used = b.used - n])
<1> DEFINE c == [b EXCEPT !.rdPast = b.rd, !.rd = Advance(b.rd, n),
                          !.used = b.used - n]
<1>1. Sound(c)
  BY SoundTake
<1>2. c.mem = b.mem /\ c.rd = Advance(b.rd, n) /\ c.used = b.used - n
  BY DEF Sound, Ring
<1>3. b.rd \in Offset /\ b.used \in 0 .. Length
  BY DEF Sound, Ring
<1> HIDE DEF c
<1>4. \A i \in 1 .. c.used : Waits(c, i) = Waits(b, b.used - c.used + i)
  <2> SUFFICES ASSUME NEW i \in 1 .. c.used
               PROVE  Waits(c, i) = Waits(b, b.used - c.used + i)
    OBVIOUS
  <2>1. n \in 0 .. Length /\ i - 1 \in 0 .. Length /\ n + (i - 1) <= Length
        /\ (b.used - c.used + i) - 1 = n + (i - 1)
    BY <1>2, <1>3, LengthAssumption
  <2>2. Advance(Advance(b.rd, n), i - 1) = Advance(b.rd, n + (i - 1))
    BY <1>3, <2>1, AdvanceTwice
  <2>3. Waits(c, i) = b.mem[Advance(b.rd, n + (i - 1))]
    BY <1>2, <2>2 DEF Waits
  <2>4. Waits(b, b.used - c.used + i) = b.mem[Advance(b.rd, (b.used - c.used + i) - 1)]
    BY Zenon DEF Waits
  <2> QED
    BY <2>1, <2>3, <2>4, Zenon
<1>5. c.used <= b.used
  BY <1>2, <1>3, LengthAssumption
<1>6. IsTail(Content(c), Content(b))
  BY <1>1, <1>4, <1>5, Newer
<1> QED
  BY <1>6 DEF EndsMove, c

LEMMA ReadMoves ==
    ASSUME NEW b, Sound(b), NEW n \in Nat
    PROVE  EndsMove(b, ReadDataFromBuf(b, n))
<1>1. CASE n <= 0
  BY <1>1, NothingMoves DEF ReadDataFromBuf
<1>2. CASE n > 0 /\ n > b.used
  BY <1>2, ResetMoves DEF ReadDataFromBuf
<1>3. CASE n > 0 /\ ~ (n > b.used)
  <2>1. n <= b.used
    BY <1>3 DEF Sound, Ring
  <2>2. ReadDataFromBuf(b, n) = [b EXCEPT !.rdPast = b.rd, !.rd = Advance(b.rd, n),
                                          !.used = b.used - n]
    <3>1. ~ (n <= 0) /\ ~ (n > b.used)
      BY <1>3
    <3> QED
      BY <3>1, Zenon DEF ReadDataFromBuf
  <2>3. EndsMove(b, [b EXCEPT !.rdPast = b.rd, !.rd = Advance(b.rd, n), !.used = b.used - n])
    BY <2>1, TakeMoves
  <2> QED
    BY <2>2, <2>3
<1> QED
  BY <1>1, <1>2, <1>3

LEMMA SkipMoves ==
    ASSUME NEW b, Sound(b), NEW n \in Nat
    PROVE  EndsMove(b, SkipCircleBuf(b, n))
  BY TakeMoves, NothingMoves DEF SkipCircleBuf, SkipOK

LEMMA ResumeWriteMoves == ASSUME NEW b, Sound(b) PROVE EndsMove(b, ResumeWrite(b))
<1> DEFINE n == Ahead(b.wr, b.wrPast)
           c == ResumeWrite(b)
<1>1. n \in 0 .. Length - 1 /\ b.used \in 0 .. Length
  BY AheadIsTheDistance DEF Sound, Ring
<1>2. CASE b.used < n
  BY <1>2, ResetMoves DEF ResumeWrite
<1>3. CASE ~ (b.used < n)
  <2>1. Sound(c)
    BY SoundResumeWrite
  <2>2. c = [b EXCEPT !.used = b.used - n, !.wr = b.wrPast]
    BY <1>3 DEF ResumeWrite
  <2> HIDE DEF c, n
  <2>3. c.mem = b.mem /\ c.rd = b.rd /\ c.used = b.used - n
    BY <2>2 DEF Sound, Ring
  <2>4. c.used <= b.used /\ \A i \in 1 .. c.used : Waits(c, i) = Waits(b, i)
    BY <1>1, <2>3, LengthAssumption DEF Waits
  <2>5. IsHead(Content(c), Content(b))
    BY <2>1, <2>4, Older
  <2> QED
    BY <2>5 DEF EndsMove, c
<1> QED
  BY <1>2, <1>3

LEMMA ResumeReadMoves == ASSUME NEW b, Sound(b) PROVE EndsMove(b, ResumeRead(b))
<1> DEFINE n == Ahead(b.rd, b.rdPast)
           c == ResumeRead(b)
<1>1. /\ n \in 0 .. Length - 1 /\ Advance(b.rdPast, n) = b.rd
      /\ b.used \in 0 .. Length /\ b.rdPast \in Offset
  BY AheadIsTheDistance DEF Sound, Ring
<1>2. CASE b.used + n > Length
  BY <1>2, ResetMoves DEF ResumeRead
<1>3. CASE ~ (b.used + n > Length)
  <2>1. Sound(c)
    BY SoundResumeRead
  <2>2. c = [b EXCEPT !.used = b.used + n, !.rd = b.rdPast]
    BY <1>3 DEF ResumeRead
  <2> HIDE DEF c, n
  <2>3. c.mem = b.mem /\ c.rd = b.rdPast /\ c.used = b.used + n
    BY <2>2 DEF Sound, Ring
  <2>4. \A i \in 1 .. b.used : Waits(b, i) = Waits(c, c.used - b.used + i)
    <3> SUFFICES ASSUME NEW i \in 1 .. b.used
                 PROVE  Waits(b, i) = Waits(c, c.used - b.used + i)
      OBVIOUS
    <3>1. n \in 0 .. Length /\ i - 1 \in 0 .. Length /\ n + (i - 1) <= Length
          /\ (c.used - b.used + i) - 1 = n + (i - 1)
      BY <1>1, <1>3, <2>3, LengthAssumption
    <3>2. Advance(Advance(b.rdPast, n), i - 1) = Advance(b.rdPast, n + (i - 1))
      BY <1>1, <3>1, AdvanceTwice
    <3>3. Waits(b, i) = c.mem[Advance(c.rd, n + (i - 1))]
      BY <1>1, <2>3, <3>2 DEF Waits
    <3>4. Waits(c, c.used - b.used + i) = c.mem[Advance(c.rd, (c.used - b.used + i) - 1)]
      BY Zenon DEF Waits
    <3> QED
      BY <3>1, <3>3, <3>4, Zenon
  <2>5. b.used <= c.used
    BY <1>1, <2>3, LengthAssumption
  <2>6. IsTail(Content(b), Content(c))
    BY <2>1, <2>4, <2>5, Newer
  <2> QED
    BY <2>6 DEF EndsMove, c
<1> QED
  BY <1>2, <1>3

(***************************************************************************)
(* No call changes a byte that was waiting to be read and still is, for    *)
(* every Length: a write fills cells that nothing waits in, and each of    *)
(* the other calls moves one end of what is waiting.                       *)
(***************************************************************************)
THEOREM EndsMoveOnly == RingSpec => OnlyTheEndsMove
<1>1. RingInit => Sound(info)
  BY SoundCreate DEF RingInit
<1>2. Sound(info) /\ [RingNext]_info => Sound(info)'
  BY SoundNext
<1>3. Sound(info) /\ [RingNext]_info =>
        [LET old == Content(info)
             new == Content(info')
         IN  IsHead(old, new) \/ IsTail(old, new) \/ IsHead(new, old) \/ IsTail(new, old)]_info
  <2> SUFFICES ASSUME Sound(info), RingNext
               PROVE  EndsMove(info, info')
    BY DEF EndsMove
  <2>1. CASE RingWrite
    <3>1. PICK n \in 1 .. Length + 1 :
             \E data \in [1 .. n -> Byte] : info' = WriteDataToBuf(info, data)
      BY <2>1 DEF RingWrite
    <3>2. PICK data \in [1 .. n -> Byte] : info' = WriteDataToBuf(info, data)
      BY <3>1
    <3> QED
      BY <3>1, <3>2, WriteMoves
  <2>2. CASE RingRead
    BY <2>2, ReadMoves DEF RingRead
  <2>3. CASE RingSkip
    BY <2>3, SkipMoves, LengthAssumption DEF RingSkip
  <2>4. CASE RingResume
    BY <2>4, ResumeWriteMoves, ResumeReadMoves DEF RingResume
  <2>5. CASE RingReset
    BY <2>5, ResetMoves DEF RingReset
  <2> QED
    BY <2>1, <2>2, <2>3, <2>4, <2>5 DEF RingNext
<1> QED
  BY <1>1, <1>2, <1>3, PTL DEF RingSpec, OnlyTheEndsMove
-----------------------------------------------------------------------------
(* What the calls that FrameBuf makes do to what is waiting.               *)

LEMMA FilledIsAhead ==
    ASSUME NEW rd \in Offset, NEW used \in 0 .. Length, NEW n \in Nat, used + n <= Length,
           NEW i \in 1 .. n
    PROVE  /\ Advance(rd, (used + i) - 1) \in Offset
           /\ Ahead(Advance(rd, (used + i) - 1), Advance(rd, used)) = i - 1
  BY LengthAssumption DEF Ahead, Advance, Offset

LEMMA WriteWaits ==
    ASSUME NEW b, Sound(b), NEW n \in Nat \ {0}, NEW data \in [1 .. n -> Byte],
           WriteOK(b, data), NEW c, c = WriteDataToBuf(b, data)
    PROVE  /\ Sound(c) /\ c.rd = b.rd /\ c.used = b.used + n
           /\ c.wrPast = b.wr /\ c.wr = Advance(b.wr, n)
           /\ \A i \in 1 .. b.used : Waits(c, i) = Waits(b, i)
           /\ \A i \in 1 .. n : Waits(c, b.used + i) = data[i]
<1>1. /\ Len(data) = n /\ b.used + n <= Length
      /\ b.rd \in Offset /\ b.used \in 0 .. Length /\ b.wr = Advance(b.rd, b.used)
  BY DEF WriteOK, Sound, Ring
<1> DEFINE mem == [o \in Offset |-> IF Ahead(o, b.wr) < Len(data)
                                    THEN data[Ahead(o, b.wr) + 1]
                                    ELSE b.mem[o]]
<1>2. c = [b EXCEPT !.mem = mem, !.wrPast = b.wr,
                    !.wr = Advance(b.wr, n), !.used = b.used + n]
  BY <1>1 DEF WriteDataToBuf
<1>3. Sound(c)
  BY SoundWrite
<1> HIDE DEF mem
<1>4. /\ c.mem = mem /\ c.rd = b.rd /\ c.used = b.used + n
      /\ c.wrPast = b.wr /\ c.wr = Advance(b.wr, n)
  BY <1>2 DEF Sound, Ring
<1>5. ASSUME NEW i \in 1 .. b.used PROVE Waits(c, i) = Waits(b, i)
  <2>1. /\ Advance(b.rd, i - 1) \in Offset
        /\ ~ (Ahead(Advance(b.rd, i - 1), b.wr) < Len(data))
    BY <1>1, WaitingIsBehind
  <2>2. mem[Advance(b.rd, i - 1)] = b.mem[Advance(b.rd, i - 1)]
    BY <2>1, Zenon DEF mem
  <2> QED
    BY <1>4, <2>2 DEF Waits
<1>6. ASSUME NEW i \in 1 .. n PROVE Waits(c, b.used + i) = data[i]
  <2> DEFINE o == Advance(b.rd, (b.used + i) - 1)
  <2>1. o \in Offset /\ Ahead(o, b.wr) = i - 1
    BY <1>1, FilledIsAhead
  <2>2. Waits(c, b.used + i) = mem[o]
    BY <1>4, Zenon DEF Waits
  <2> HIDE DEF o
  <2>3. mem[o] = data[i]
    BY <1>1, <2>1 DEF mem
  <2> QED
    BY <2>2, <2>3
<1> QED
  BY <1>3, <1>4, <1>5, <1>6

Taken(b, n) == [b EXCEPT !.rdPast = b.rd, !.rd = Advance(b.rd, n), !.used = b.used - n]

LEMMA TakeWaits ==
    ASSUME NEW b, Sound(b), NEW n \in Nat, n <= b.used, NEW c, c = Taken(b, n)
    PROVE  /\ Sound(c) /\ c.used = b.used - n
           /\ \A i \in 1 .. c.used : Waits(c, i) = Waits(b, n + i)
<1>1. Sound(c) /\ c.mem = b.mem /\ c.rd = Advance(b.rd, n) /\ c.used = b.used - n
  BY SoundTake DEF Sound, Ring, Taken
<1>2. b.rd \in Offset /\ b.used \in 0 .. Length
  BY DEF Sound, Ring
<1>3. ASSUME NEW i \in 1 .. c.used PROVE Waits(c, i) = Waits(b, n + i)
  <2>1. n \in 0 .. Length /\ i - 1 \in 0 .. Length /\ n + (i - 1) <= Length
        /\ (n + i) - 1 = n + (i - 1)
    BY <1>1, <1>2, LengthAssumption
  <2>2. Advance(Advance(b.rd, n), i - 1) = Advance(b.rd, (n + i) - 1)
    BY <1>2, <2>1, AdvanceTwice
  <2> QED
    BY <1>1, <2>2 DEF Waits
<1> QED
  BY <1>1, <1>3

(* A header taken back leaves the ring as it was to a reader.              *)
LEMMA UndoWaits ==
    ASSUME NEW b, Sound(b), NEW n \in 1 .. Length - 1, NEW data \in [1 .. n -> Byte],
           WriteOK(b, data), NEW c, c = ResumeWrite(WriteDataToBuf(b, data))
    PROVE  /\ Sound(c) /\ c.used = b.used
           /\ \A i \in 1 .. b.used : Waits(c, i) = Waits(b, i)
<1> DEFINE one == WriteDataToBuf(b, data)
<1>1. n \in Nat \ {0}
  BY LengthAssumption
<1>2. /\ Sound(one) /\ one.rd = b.rd /\ one.used = b.used + n
      /\ one.wrPast = b.wr /\ one.wr = Advance(b.wr, n)
      /\ \A i \in 1 .. b.used : Waits(one, i) = Waits(b, i)
  BY <1>1, WriteWaits
<1> HIDE DEF one
<1>3. b.wr \in Offset /\ b.used \in 0 .. Length
  BY DEF Sound, Ring
<1>4. Ahead(one.wr, one.wrPast) = n
  BY <1>2, <1>3, LengthAssumption DEF Ahead, Advance, Offset
<1>5. ~ (one.used < n) /\ one.used - n = b.used
  BY <1>2, <1>3, LengthAssumption
<1>6. c = [one EXCEPT !.used = one.used - n, !.wr = one.wrPast]
  BY <1>4, <1>5 DEF ResumeWrite, one
<1>7. Sound(c)
  BY <1>2, SoundResumeWrite DEF one
<1>8. c.mem = one.mem /\ c.rd = one.rd /\ c.used = b.used
  BY <1>2, <1>5, <1>6 DEF Sound, Ring
<1>9. \A i : Waits(c, i) = Waits(one, i)
  BY <1>8 DEF Waits
<1> QED
  BY <1>2, <1>7, <1>8, <1>9
-----------------------------------------------------------------------------
(* Frames end to end.  pos[i] is where the ith frame of q ends in what     *)
(* waits in b, and the (i+1)st begins.                                     *)

Size(f) == HeaderLen + f.size

Lies(q, pos) ==
    /\ pos \in [0 .. Len(q) -> Nat] /\ pos[0] = 0
    /\ \A i \in 1 .. Len(q) : pos[i] = pos[i - 1] + Size(q[i])
    /\ \A i, j \in 0 .. Len(q) : i < j => pos[i] < pos[j]

Chain(b, q, pos) ==
    /\ Lies(q, pos) /\ pos[Len(q)] = b.used
    /\ \A i \in 1 .. Len(q) : \A k \in 1 .. Size(q[i]) : Waits(b, pos[i - 1] + k) = <<q[i], k>>

Holds(b, q) == /\ Sound(b) /\ q \in Seq(Frame)
               /\ \E pos \in [0 .. Len(q) -> Nat] : Chain(b, q, pos)

LEMMA FrameSize ==
    ASSUME NEW f \in Frame
    PROVE  /\ f.size \in Nat \ {0} /\ Size(f) \in Nat \ {0} /\ HeaderLen \in Nat \ {0}
           /\ HeaderLen < Length /\ HeaderLen \in 1 .. Length - 1
           /\ HeaderLen < Size(f) /\ Size(f) - HeaderLen = f.size
<1>1. f.size \in Nat \ {0}
  BY FrameAssumption DEF Frame
<1> QED
  BY <1>1, FrameAssumption, LengthAssumption DEF Size

LEMMA FrameAt ==
    ASSUME NEW q \in Seq(Frame), NEW i \in 1 .. Len(q)
    PROVE  q[i] \in Frame /\ i - 1 \in 0 .. Len(q) /\ i \in 0 .. Len(q)
  OBVIOUS

(* Every place before the end is a piece of one of the frames.             *)
LEMMA Located ==
    ASSUME NEW q \in Seq(Frame), NEW pos, Lies(q, pos), NEW j \in 1 .. pos[Len(q)]
    PROVE  \E i \in 1 .. Len(q) : \E k \in 1 .. Size(q[i]) : j = pos[i - 1] + k
<1> DEFINE S == {i \in 0 .. Len(q) : j <= pos[i]}
           Below == {p \in Nat \X Nat : p[1] < p[2]}
<1>1. Len(q) \in Nat /\ pos \in [0 .. Len(q) -> Nat] /\ pos[0] = 0
  BY DEF Lies
<1>2. pos[Len(q)] \in Nat
  BY <1>1
<1>3. j \in Nat /\ 0 < j /\ j <= pos[Len(q)]
  BY <1>2
<1>4. Len(q) \in S
  BY <1>1, <1>3
<1>5. IsWellFoundedOn(Below, Nat)
  BY NatLessThanWellFounded, Zenon DEF OpToRel
<1>6. S \subseteq Nat /\ S # {}
  BY <1>1, <1>4
<1>7. PICK i \in S : \A y \in S : ~(<<y, i>> \in Below)
  <2> HIDE DEF S, Below
  <2> QED
    BY <1>5, <1>6, WFMin
<1>8. i \in 0 .. Len(q) /\ j <= pos[i] /\ i # 0
  BY <1>1, <1>3
<1>9. i \in 1 .. Len(q) /\ i - 1 \in 0 .. Len(q) /\ i - 1 \in Nat /\ i \in Nat /\ i - 1 < i
  BY <1>1, <1>8
<1>10. ~(j <= pos[i - 1])
  <2>1. <<i - 1, i>> \in Below
    BY <1>9
  <2> QED
    BY <1>7, <1>9, <2>1
<1>11. pos[i] = pos[i - 1] + Size(q[i]) /\ pos[i - 1] \in Nat
  BY <1>1, <1>9 DEF Lies
<1>12. Size(q[i]) \in Nat
  BY <1>9, FrameSize, FrameAt
<1>13. j - pos[i - 1] \in 1 .. Size(q[i]) /\ j = pos[i - 1] + (j - pos[i - 1])
  BY <1>3, <1>8, <1>10, <1>11, <1>12
<1> QED
  BY <1>9, <1>13

(* Where the frames lie inside what waits.                                 *)
LEMMA Inside ==
    ASSUME NEW b, NEW q \in Seq(Frame), NEW pos, Chain(b, q, pos),
           NEW i \in 1 .. Len(q), NEW k \in 1 .. Size(q[i])
    PROVE  /\ pos[i - 1] + k \in 1 .. b.used /\ pos[i - 1] \in Nat
           /\ pos[i - 1] + Size(q[i]) <= b.used
<1>1. Len(q) \in Nat /\ pos \in [0 .. Len(q) -> Nat] /\ pos[Len(q)] = b.used
  BY DEF Chain, Lies
<1>2. i - 1 \in 0 .. Len(q) /\ i \in 0 .. Len(q) /\ Len(q) \in 0 .. Len(q)
      /\ (i = Len(q) \/ i < Len(q))
  BY <1>1
<1>3. pos[i] = pos[i - 1] + Size(q[i]) /\ (i < Len(q) => pos[i] < pos[Len(q)])
  BY <1>2 DEF Chain, Lies
<1>4. pos[i - 1] \in Nat /\ pos[i] \in Nat /\ b.used \in Nat
  BY <1>1, <1>2
<1>5. Size(q[i]) \in Nat
  BY FrameSize, FrameAt
<1>6. pos[i] <= b.used
  BY <1>1, <1>2, <1>3, <1>4
<1> QED
  BY <1>3, <1>4, <1>5, <1>6

LEMMA ChainWhole ==
    ASSUME NEW b, Sound(b), NEW q \in Seq(Frame), NEW pos, Chain(b, q, pos)
    PROVE  Whole(Content(b))
<1> DEFINE c == Content(b)
<1>1. Len(c) = b.used /\ b.used \in Nat /\ \A i \in 1 .. b.used : c[i] = Waits(b, i)
  BY ContentAt, LengthAssumption
<1>2. Lies(q, pos) /\ pos[Len(q)] = b.used
  BY DEF Chain
<1> HIDE DEF c
<1>3. SUFFICES ASSUME NEW j \in 1 .. b.used
               PROVE  /\ c[j][2] = 1 \/ (j > 1 /\ c[j - 1] = <<c[j][1], c[j][2] - 1>>)
                      /\ \/ c[j][2] = HeaderLen + c[j][1].size
                         \/ (j < Len(c) /\ c[j + 1] = <<c[j][1], c[j][2] + 1>>)
  BY <1>1 DEF Whole, c
<1> PICK i \in 1 .. Len(q) : \E k \in 1 .. Size(q[i]) : j = pos[i - 1] + k
  BY <1>2, Located
<1>4. PICK k \in 1 .. Size(q[i]) : j = pos[i - 1] + k
  OBVIOUS
<1> DEFINE f == q[i]
<1>5. Size(f) = HeaderLen + f.size /\ Size(f) \in Nat
  BY FrameSize, FrameAt DEF Size
<1>6. \A m \in 1 .. Size(f) : /\ pos[i - 1] + m \in 1 .. b.used
                              /\ c[pos[i - 1] + m] = <<f, m>>
  BY <1>1, Inside DEF Chain
<1>7. pos[i - 1] \in Nat
  BY <1>4, Inside
<1> HIDE DEF f
<1>8. c[j] = <<f, k>> /\ c[j][1] = f /\ c[j][2] = k /\ k \in Nat /\ k \in 1 .. Size(f)
  <2>1. k \in 1 .. Size(f)
    BY DEF f
  <2>2. c[pos[i - 1] + k] = <<f, k>>
    BY <1>6, <2>1
  <2>3. k \in Nat
    BY <1>5, <2>1
  <2> QED
    BY <1>4, <2>1, <2>2, <2>3
<1>9. k = 1 \/ (j > 1 /\ c[j - 1] = <<f, k - 1>>)
  <2>1. CASE k > 1
    <3>1. k - 1 \in 1 .. Size(f) /\ pos[i - 1] + (k - 1) = j - 1 /\ j > 1
      BY <1>4, <1>5, <1>7, <2>1 DEF f
    <3> QED
      BY <1>6, <3>1
  <2> QED
    BY <1>4, <1>8, <2>1
<1>10. k = Size(f) \/ (j < b.used /\ c[j + 1] = <<f, k + 1>>)
  <2>1. CASE k < Size(f)
    <3>1. k + 1 \in 1 .. Size(f)
      BY <1>5, <1>8, <2>1
    <3>2. pos[i - 1] + (k + 1) = j + 1
      <4>1. \A x, y \in Nat : x + (y + 1) = (x + y) + 1
        OBVIOUS
      <4> QED
        BY <1>4, <1>7, <1>8, <4>1
    <3>3. j + 1 \in 1 .. b.used /\ c[j + 1] = <<f, k + 1>>
      BY <1>6, <3>1, <3>2
    <3> QED
      BY <1>1, <3>3
  <2> QED
    BY <1>4, <1>5, <1>8, <2>1 DEF f
<1> QED
  BY <1>1, <1>5, <1>8, <1>9, <1>10
(* The pieces numbered 1 are the beginnings of the frames, in order.       *)
LEMMA HeadsAre ==
    ASSUME NEW b, Sound(b), NEW q \in Seq(Frame), NEW pos, Chain(b, q, pos)
    PROVE  Heads(Content(b)) = {pos[i - 1] + 1 : i \in 1 .. Len(q)}
<1> DEFINE c == Content(b)
<1>1. Len(c) = b.used /\ b.used \in Nat /\ \A i \in 1 .. b.used : c[i] = Waits(b, i)
  BY ContentAt, LengthAssumption
<1>2. Lies(q, pos) /\ pos[Len(q)] = b.used
  BY DEF Chain
<1> HIDE DEF c
<1>3. ASSUME NEW j \in Heads(c) PROVE j \in {pos[i - 1] + 1 : i \in 1 .. Len(q)}
  <2>1. j \in 1 .. b.used /\ c[j][2] = 1
    BY <1>1, <1>3 DEF Heads
  <2> PICK i \in 1 .. Len(q) : \E k \in 1 .. Size(q[i]) : j = pos[i - 1] + k
    BY <1>2, <2>1, Located
  <2>2. PICK k \in 1 .. Size(q[i]) : j = pos[i - 1] + k
    OBVIOUS
  <2>3. c[j] = <<q[i], k>>
    BY <1>1, <2>1, <2>2 DEF Chain
  <2>4. k = 1
    BY <2>1, <2>3
  <2> QED
    BY <2>2, <2>4
<1>4. ASSUME NEW i \in 1 .. Len(q) PROVE pos[i - 1] + 1 \in Heads(c)
  <2>1. 1 \in 1 .. Size(q[i])
    BY FrameAt, FrameSize
  <2>2. pos[i - 1] + 1 \in 1 .. b.used
    BY <2>1, Inside
  <2>3. c[pos[i - 1] + 1] = <<q[i], 1>>
    BY <1>1, <2>1, <2>2 DEF Chain
  <2> QED
    BY <1>1, <2>2, <2>3 DEF Heads
<1> QED
  BY <1>3, <1>4 DEF c

(* The ith of them is where the ith frame begins.                          *)
LEMMA HeadsCount ==
    ASSUME NEW q \in Seq(Frame), NEW pos, Lies(q, pos), NEW n \in 0 .. Len(q)
    PROVE  Cardinality({pos[i - 1] + 1 : i \in 1 .. n}) = n
<1> DEFINE S == {pos[i - 1] + 1 : i \in 1 .. n}
           g == [i \in 1 .. n |-> pos[i - 1] + 1]
<1>1. n \in Nat /\ Len(q) \in Nat
  OBVIOUS
<1>2. g \in [1 .. n -> S] /\ \A s \in S : \E i \in 1 .. n : g[i] = s
  OBVIOUS
<1>3. ASSUME NEW i \in 1 .. n, NEW j \in 1 .. n, g[i] = g[j] PROVE i = j
  <2>1. i - 1 \in 0 .. Len(q) /\ j - 1 \in 0 .. Len(q)
    BY <1>1
  <2>2. pos[i - 1] \in Nat /\ pos[j - 1] \in Nat
    BY <2>1 DEF Lies
  <2>3. pos[i - 1] = pos[j - 1]
    BY <1>3, <2>2
  <2>4. ~(i - 1 < j - 1) /\ ~(j - 1 < i - 1)
    BY <2>1, <2>2, <2>3 DEF Lies
  <2> QED
    BY <1>1, <2>4
<1>4. g \in Bijection(1 .. n, S)
  <2> HIDE DEF g, S
  <2> QED
    BY <1>2, <1>3 DEF Bijection, Injection, Surjection, IsInjective
<1> QED
  BY <1>1, <1>4, FS_CountingElements DEF ExistsBijection

LEMMA NthHead ==
    ASSUME NEW q \in Seq(Frame), NEW pos, Lies(q, pos), NEW n \in 1 .. Len(q),
           NEW S, S = {pos[i - 1] + 1 : i \in 1 .. Len(q)}
    PROVE  Nth(S, n) = pos[n - 1] + 1
<1>1. ASSUME NEW m \in 1 .. Len(q)
      PROVE  Cardinality({p \in S : p <= pos[m - 1] + 1}) = m
  <2>1. {p \in S : p <= pos[m - 1] + 1} = {pos[i - 1] + 1 : i \in 1 .. m}
    <3>1. ASSUME NEW i \in 1 .. Len(q)
          PROVE  pos[i - 1] + 1 <= pos[m - 1] + 1 <=> i <= m
      <4>1. i - 1 \in 0 .. Len(q) /\ m - 1 \in 0 .. Len(q) /\ i \in Nat /\ m \in Nat
        OBVIOUS
      <4>2. pos[i - 1] \in Nat /\ pos[m - 1] \in Nat
        BY <4>1 DEF Lies
      <4>3. /\ i - 1 < m - 1 => pos[i - 1] < pos[m - 1]
            /\ m - 1 < i - 1 => pos[m - 1] < pos[i - 1]
        BY <4>1 DEF Lies
      <4> QED
        BY <4>1, <4>2, <4>3
    <3>2. \A i : i \in 1 .. m <=> i \in 1 .. Len(q) /\ i <= m
      OBVIOUS
    <3> QED
      BY <3>1, <3>2
  <2>2. m \in 0 .. Len(q)
    OBVIOUS
  <2> QED
    BY <2>1, <2>2, HeadsCount
<1>2. pos[n - 1] + 1 \in S
  OBVIOUS
<1>3. \A p \in S : Cardinality({r \in S : r <= p}) = n => p = pos[n - 1] + 1
  <2> SUFFICES ASSUME NEW m \in 1 .. Len(q),
                      Cardinality({r \in S : r <= pos[m - 1] + 1}) = n
               PROVE  m = n
    OBVIOUS
  <2> QED
    BY <1>1
<1> QED
  BY <1>1, <1>2, <1>3, Zenon DEF Nth

LEMMA ChainFrames ==
    ASSUME NEW b, Sound(b), NEW q \in Seq(Frame), NEW pos, Chain(b, q, pos)
    PROVE  FramesOf(Content(b)) = q
<1> DEFINE c == Content(b)
           S == Heads(c)
<1>1. Len(c) = b.used /\ b.used \in Nat /\ \A i \in 1 .. b.used : c[i] = Waits(b, i)
  BY ContentAt, LengthAssumption
<1>2. Whole(c) /\ S = {pos[i - 1] + 1 : i \in 1 .. Len(q)} /\ Lies(q, pos)
  BY ChainWhole, HeadsAre DEF Chain
<1>3. Len(q) \in Nat /\ Len(q) \in 0 .. Len(q)
  OBVIOUS
<1> HIDE DEF c, S
<1>4. Cardinality(S) = Len(q)
  BY <1>2, <1>3, HeadsCount
<1>5. ASSUME NEW n \in 1 .. Len(q) PROVE c[Nth(S, n)][1] = q[n]
  <2>1. Nth(S, n) = pos[n - 1] + 1
    BY <1>2, NthHead
  <2>2. 1 \in 1 .. Size(q[n])
    BY FrameAt, FrameSize
  <2>3. c[pos[n - 1] + 1] = <<q[n], 1>>
    BY <1>1, <2>2, Inside DEF Chain
  <2> QED
    BY <2>1, <2>3
<1>6. FramesOf(c) = [n \in 1 .. Len(q) |-> c[Nth(S, n)][1]]
  BY <1>2, <1>4 DEF FramesOf, S
<1>7. q = [n \in 1 .. Len(q) |-> q[n]]
  OBVIOUS
<1> QED
  BY <1>5, <1>6, <1>7 DEF c
(* A ring that holds q is whole, and is read as q.                         *)
LEMMA Reads ==
    ASSUME NEW b, NEW q, Holds(b, q)
    PROVE  Whole(Content(b)) /\ FramesOf(Content(b)) = q /\ q \in Seq(Frame)
  BY ChainWhole, ChainFrames DEF Holds

LEMMA HoldsNothing ==
    ASSUME NEW b, Sound(b), b.used = 0
    PROVE  Holds(b, << >>)
<1> DEFINE pos == [i \in 0 .. 0 |-> 0]
<1>1. << >> \in Seq(Frame) /\ Len(<< >>) = 0
  OBVIOUS
<1>2. pos \in [0 .. Len(<< >>) -> Nat] /\ pos[0] = 0
  BY <1>1
<1>3. Chain(b, << >>, pos)
  BY <1>1, <1>2 DEF Chain, Lies
<1> HIDE DEF pos
<1> QED
  BY <1>1, <1>2, <1>3 DEF Holds

LEMMA ResetHolds == ASSUME NEW b, Sound(b) PROVE Holds(ResetCircleBuf(b), << >>)
<1>1. ResetCircleBuf(b).used = 0
  BY DEF Sound, Ring, ResetCircleBuf
<1> QED
  BY <1>1, SoundReset, HoldsNothing

(* What is read as q depends on what is waiting only.                      *)
LEMMA SameWaiting ==
    ASSUME NEW b, NEW q, Holds(b, q), NEW c, Sound(c), c.used = b.used,
           \A i \in 1 .. b.used : Waits(c, i) = Waits(b, i)
    PROVE  Holds(c, q)
<1>1. PICK pos \in [0 .. Len(q) -> Nat] : Chain(b, q, pos)
  BY DEF Holds
<1>2. q \in Seq(Frame)
  BY DEF Holds
<1>3. \A i \in 1 .. Len(q) : \A k \in 1 .. Size(q[i]) : pos[i - 1] + k \in 1 .. b.used
  BY <1>1, <1>2, Inside
<1>4. Chain(c, q, pos)
  BY <1>1, <1>3 DEF Chain
<1> QED
  BY <1>2, <1>4 DEF Holds

LEMMA Pieces ==
    ASSUME NEW f \in Frame
    PROVE  /\ HeaderOf(f) \in [1 .. HeaderLen -> Byte] /\ Len(HeaderOf(f)) = HeaderLen
           /\ DataOf(f) \in [1 .. f.size -> Byte] /\ Len(DataOf(f)) = f.size
           /\ \A k \in 1 .. HeaderLen : HeaderOf(f)[k] = <<f, k>>
           /\ \A k \in 1 .. f.size : DataOf(f)[k] = <<f, HeaderLen + k>>
<1>1. /\ f.size \in Nat \ {0} /\ HeaderLen \in Nat \ {0}
      /\ HeaderLen \in Int /\ HeaderLen + f.size \in Int /\ HeaderLen + 1 \in Int /\ 1 \in Int
  BY FrameSize
<1>2. \A k \in 1 .. HeaderLen + f.size : Encoded(f)[k] = <<f, k>> /\ <<f, k>> \in Byte
  BY FrameAssumption DEF Encoded, Cell
<1>3. /\ HeaderOf(f) \in Seq(Byte) /\ Len(HeaderOf(f)) = HeaderLen
      /\ \A k \in 1 .. HeaderLen : HeaderOf(f)[k] = <<f, k>>
  <2>1. /\ \A k \in 1 .. HeaderLen : k \in 1 .. HeaderLen + f.size /\ 1 + k - 1 = k
        /\ (IF 1 <= HeaderLen THEN HeaderLen - 1 + 1 ELSE 0) = HeaderLen
        /\ HeaderLen - 1 + 1 = HeaderLen
    BY <1>1
  <2>2. \A k \in 1 .. HeaderLen : Encoded(f)[k] \in Byte
    BY <1>2, <2>1
  <2>3. /\ SubSeq(Encoded(f), 1, HeaderLen) \in Seq(Byte)
        /\ Len(SubSeq(Encoded(f), 1, HeaderLen)) = HeaderLen
        /\ \A k \in 1 .. HeaderLen : SubSeq(Encoded(f), 1, HeaderLen)[k] = Encoded(f)[k]
    BY <1>1, <2>1, <2>2, SubSeqProperties
  <2> QED
    BY <1>2, <2>1, <2>3 DEF HeaderOf
<1>4. /\ DataOf(f) \in Seq(Byte) /\ Len(DataOf(f)) = f.size
      /\ \A k \in 1 .. f.size : DataOf(f)[k] = <<f, HeaderLen + k>>
  <2> DEFINE lo == HeaderLen + 1
             hi == HeaderLen + f.size
  <2>1. /\ lo \in Int /\ hi \in Int /\ lo <= hi /\ hi - lo + 1 = f.size
        /\ \A k \in 1 .. f.size : lo + k - 1 = HeaderLen + k /\ HeaderLen + k \in 1 .. hi
        /\ \A k \in lo .. hi : k \in 1 .. hi
    BY <1>1
  <2> HIDE DEF lo, hi
  <2>2. \A k \in lo .. hi : Encoded(f)[k] \in Byte
    BY <1>2, <2>1 DEF hi
  <2>3. /\ SubSeq(Encoded(f), lo, hi) \in Seq(Byte)
        /\ Len(SubSeq(Encoded(f), lo, hi)) = f.size
        /\ \A k \in 1 .. f.size : SubSeq(Encoded(f), lo, hi)[k] = Encoded(f)[HeaderLen + k]
    BY <2>1, <2>2, SubSeqProperties
  <2> QED
    BY <1>2, <2>1, <2>3 DEF DataOf, lo, hi
<1> QED
  BY <1>3, <1>4
-----------------------------------------------------------------------------
(* The calls of record.c on a ring that holds q.                           *)

LEMMA AppendHolds ==
    ASSUME NEW b, NEW q, Holds(b, q), NEW f \in Frame, NEW c, Sound(c),
           c.used = b.used + Size(f),
           \A i \in 1 .. b.used : Waits(c, i) = Waits(b, i),
           \A k \in 1 .. Size(f) : Waits(c, b.used + k) = <<f, k>>
    PROVE  Holds(c, Append(q, f))
<1> DEFINE n == Len(q)
           r == Append(q, f)
<1>1. PICK pos \in [0 .. n -> Nat] : Chain(b, q, pos)
  BY DEF Holds
<1> DEFINE pos2 == [i \in 0 .. n + 1 |-> IF i = n + 1 THEN c.used ELSE pos[i]]
<1>2. /\ q \in Seq(Frame) /\ n \in Nat
      /\ r \in Seq(Frame) /\ Len(r) = n + 1 /\ r[n + 1] = f
      /\ \A i \in 1 .. n : r[i] = q[i]
  BY AppendProperties DEF Holds
<1>3. b.used \in Nat /\ c.used \in Nat /\ pos[n] = b.used /\ pos[0] = 0 /\ Size(f) \in Nat \ {0}
  BY <1>1, FrameSize, LengthAssumption DEF Holds, Chain, Lies, Sound, Ring
<1> HIDE DEF n, r
<1>4. /\ pos2 \in [0 .. n + 1 -> Nat] /\ pos2[0] = 0 /\ pos2[n + 1] = c.used
      /\ \A i \in 0 .. n : pos2[i] = pos[i]
  BY <1>2, <1>3
<1> HIDE DEF pos2
<1>5. ASSUME NEW i \in 1 .. n + 1
      PROVE  /\ pos2[i] = pos2[i - 1] + Size(r[i])
             /\ \A k \in 1 .. Size(r[i]) : Waits(c, pos2[i - 1] + k) = <<r[i], k>>
  <2>1. CASE i = n + 1
    <3>1. i - 1 = n /\ pos2[i - 1] = b.used /\ pos2[i] = b.used + Size(f) /\ r[i] = f
      BY <1>2, <1>3, <1>4, <2>1
    <3> QED
      BY <3>1
  <2>2. CASE i # n + 1
    <3>1. i \in 1 .. n /\ i - 1 \in 0 .. n /\ i \in 0 .. n
      BY <1>2, <2>2
    <3>2. pos2[i] = pos[i] /\ pos2[i - 1] = pos[i - 1] /\ r[i] = q[i] /\ i \in 1 .. Len(q)
      BY <1>2, <1>4, <3>1 DEF n
    <3>3. pos[i] = pos[i - 1] + Size(q[i])
      BY <1>1, <3>2 DEF Chain, Lies
    <3>4. ASSUME NEW k \in 1 .. Size(q[i]) PROVE Waits(c, pos[i - 1] + k) = <<q[i], k>>
      <4>1. pos[i - 1] + k \in 1 .. b.used
        BY <1>1, <1>2, <3>2, Inside
      <4> QED
        BY <1>1, <3>2, <4>1 DEF Chain
    <3> QED
      BY <3>2, <3>3, <3>4
  <2> QED
    BY <2>1, <2>2
<1>6. ASSUME NEW i \in 0 .. n + 1, NEW j \in 0 .. n + 1, i < j
      PROVE  pos2[i] < pos2[j]
  <2>1. i \in 0 .. n /\ pos[i] \in Nat /\ pos2[i] = pos[i]
    BY <1>1, <1>2, <1>4, <1>6
  <2>2. CASE j = n + 1
    <3>1. i = n \/ (i < n /\ n \in 0 .. n)
      BY <1>2, <2>1
    <3>2. i < n => pos[i] < pos[n]
      BY <1>1, <1>2, <2>1, <3>1 DEF Chain, Lies, n
    <3> QED
      BY <1>3, <1>4, <2>1, <2>2, <3>1, <3>2
  <2>3. CASE j # n + 1
    <3>1. j \in 0 .. n /\ pos2[j] = pos[j]
      BY <1>2, <1>4, <2>3
    <3> QED
      BY <1>1, <1>6, <2>1, <3>1 DEF Chain, Lies, n
  <2> QED
    BY <2>2, <2>3
<1>7. Chain(c, r, pos2)
  BY <1>2, <1>4, <1>5, <1>6 DEF Chain, Lies
<1> QED
  BY <1>2, <1>4, <1>7 DEF Holds, r

LEMMA TailHolds ==
    ASSUME NEW b, NEW q, Holds(b, q), q # << >>, NEW c, Sound(c),
           c.used = b.used - Size(q[1]),
           \A i \in 1 .. c.used : Waits(c, i) = Waits(b, Size(q[1]) + i)
    PROVE  Holds(c, Tail(q))
<1> DEFINE n == Len(q)
           r == Tail(q)
           s == Size(q[1])
<1>1. PICK pos \in [0 .. n -> Nat] : Chain(b, q, pos)
  BY DEF Holds
<1> DEFINE pos2 == [i \in 0 .. n - 1 |-> pos[i + 1] - s]
<1>2. /\ q \in Seq(Frame) /\ n \in Nat \ {0}
      /\ r \in Seq(Frame) /\ Len(r) = n - 1
      /\ \A i \in 1 .. n - 1 : r[i] = q[i + 1]
  BY HeadTailProperties DEF Holds
<1>3. /\ b.used \in Nat /\ c.used \in Nat /\ pos[n] = b.used /\ pos[0] = 0
      /\ s \in Nat \ {0} /\ pos[1] = s
  <2>1. 1 \in 1 .. Len(q) /\ q[1] \in Frame
    BY <1>2
  <2>2. s \in Nat \ {0}
    BY <2>1, FrameSize
  <2>3. pos[0] = 0 /\ pos[1] = pos[1 - 1] + s /\ pos[n] = b.used
    BY <1>1, <2>1 DEF Chain, Lies
  <2>4. b.used \in Nat /\ c.used \in Nat
    BY LengthAssumption DEF Holds, Sound, Ring
  <2> QED
    BY <2>2, <2>3, <2>4
<1> HIDE DEF n, r, s
<1>4. ASSUME NEW i \in 0 .. n - 1
      PROVE  i + 1 \in 0 .. n /\ pos[i + 1] \in Nat /\ pos[i + 1] >= s
  <2>1. i + 1 \in 0 .. n /\ 1 \in 0 .. n /\ (i + 1 = 1 \/ 1 < i + 1)
    BY <1>2
  <2>2. pos[i + 1] \in Nat /\ (1 < i + 1 => pos[1] < pos[i + 1])
    BY <1>1, <2>1 DEF Chain, Lies, n
  <2> QED
    BY <1>3, <2>1, <2>2
<1>5. /\ pos2 \in [0 .. n - 1 -> Nat] /\ pos2[0] = 0 /\ pos2[n - 1] = c.used
      /\ \A i \in 0 .. n - 1 : pos2[i] = pos[i + 1] - s
  <2>1. \A i \in 0 .. n - 1 : pos[i + 1] - s \in Nat
    BY <1>3, <1>4
  <2>2. 0 \in 0 .. n - 1 /\ n - 1 \in 0 .. n - 1 /\ 0 + 1 = 1 /\ (n - 1) + 1 = n
    BY <1>2
  <2>3. s - s = 0 /\ c.used = b.used - s
    BY <1>3 DEF s
  <2> QED
    BY <1>3, <2>1, <2>2, <2>3
<1> HIDE DEF pos2
<1>6. ASSUME NEW i \in 1 .. n - 1
      PROVE  /\ pos2[i] = pos2[i - 1] + Size(r[i])
             /\ \A k \in 1 .. Size(r[i]) : Waits(c, pos2[i - 1] + k) = <<r[i], k>>
  <2>1. /\ i \in 0 .. n - 1 /\ i - 1 \in 0 .. n - 1 /\ i + 1 \in 1 .. Len(q)
        /\ (i + 1) - 1 = i /\ (i - 1) + 1 = i
    BY <1>2 DEF n
  <2>2. pos2[i] = pos[i + 1] - s /\ pos2[i - 1] = pos[i] - s /\ r[i] = q[i + 1]
    BY <1>2, <1>5, <2>1
  <2>3. /\ pos[i + 1] = pos[i] + Size(q[i + 1])
        /\ \A k \in 1 .. Size(q[i + 1]) : Waits(b, pos[i] + k) = <<q[i + 1], k>>
    BY <1>1, <2>1 DEF Chain, Lies
  <2>4. pos[i] \in Nat /\ pos[i] >= s /\ Size(q[i + 1]) \in Nat
    <3>1. q[i + 1] \in Frame
      BY <1>2, <2>1
    <3> QED
      BY <1>4, <2>1, <3>1, FrameSize
  <2>5. ASSUME NEW k \in 1 .. Size(q[i + 1])
        PROVE  Waits(c, (pos[i] - s) + k) = <<q[i + 1], k>>
    <3>1. pos[i] + k <= b.used
      <4>1. pos[(i + 1) - 1] + k \in 1 .. b.used
        BY <1>1, <1>2, <2>1, Inside
      <4> QED
        BY <1>3, <2>1, <4>1
    <3>2. (pos[i] - s) + k \in 1 .. c.used /\ s + ((pos[i] - s) + k) = pos[i] + k
      BY <1>3, <2>4, <3>1 DEF s
    <3> QED
      BY <2>3, <3>2 DEF s
  <2> QED
    BY <1>3, <2>2, <2>3, <2>4, <2>5
<1>7. ASSUME NEW i \in 0 .. n - 1, NEW j \in 0 .. n - 1, i < j
      PROVE  pos2[i] < pos2[j]
  <2>1. i + 1 < j + 1
    BY <1>2, <1>7
  <2>2. pos[i + 1] < pos[j + 1]
    BY <1>1, <1>4, <2>1 DEF Chain, Lies, n
  <2> QED
    BY <1>3, <1>4, <1>5, <2>2
<1>8. Chain(c, r, pos2)
  BY <1>2, <1>5, <1>6, <1>7 DEF Chain, Lies
<1> QED
  BY <1>2, <1>5, <1>8 DEF Holds, r
(* A frame goes in whole, at the end, or leaves nothing behind.            *)
LEMMA WriteHolds ==
    ASSUME NEW b, NEW q, Holds(b, q), NEW f \in Frame
    PROVE  Holds(FrameWritten(b, f), q) \/ Holds(FrameWritten(b, f), Append(q, f))
<1> DEFINE h == HeaderOf(f)
           d == DataOf(f)
           one == WriteDataToBuf(b, h)
           two == WriteDataToBuf(one, d)
<1>1. /\ Sound(b) /\ b.used \in Nat
      /\ HeaderLen \in Nat \ {0} /\ HeaderLen \in 1 .. Length - 1 /\ f.size \in Nat \ {0}
      /\ Size(f) = HeaderLen + f.size
      /\ h \in [1 .. HeaderLen -> Byte] /\ d \in [1 .. f.size -> Byte]
      /\ \A k \in 1 .. HeaderLen : h[k] = <<f, k>>
      /\ \A k \in 1 .. f.size : d[k] = <<f, HeaderLen + k>>
  BY FrameSize, Pieces, LengthAssumption DEF Holds, Sound, Ring, Size
<1>2. CASE ~ WriteOK(b, h)
  <2>1. FrameWritten(b, f) = b
    BY <1>2, Zenon DEF FrameWritten
  <2> QED
    BY <2>1
<1>3. CASE WriteOK(b, h) /\ ~ WriteOK(one, d)
  <2>1. FrameWritten(b, f) = ResumeWrite(one)
    BY <1>3, Zenon DEF FrameWritten
  <2> HIDE DEF h
  <2>2. /\ Sound(ResumeWrite(one)) /\ ResumeWrite(one).used = b.used
        /\ \A i \in 1 .. b.used : Waits(ResumeWrite(one), i) = Waits(b, i)
    BY <1>1, <1>3, UndoWaits
  <2> QED
    BY <2>1, <2>2, SameWaiting
<1>4. CASE WriteOK(b, h) /\ WriteOK(one, d)
  <2>1. FrameWritten(b, f) = two
    BY <1>4, Zenon DEF FrameWritten
  <2> HIDE DEF h, d
  <2>2. /\ Sound(one) /\ one.used = b.used + HeaderLen
        /\ \A i \in 1 .. b.used : Waits(one, i) = Waits(b, i)
        /\ \A i \in 1 .. HeaderLen : Waits(one, b.used + i) = h[i]
    BY <1>1, <1>4, WriteWaits
  <2> HIDE DEF one
  <2>3. /\ Sound(two) /\ two.used = one.used + f.size
        /\ \A i \in 1 .. one.used : Waits(two, i) = Waits(one, i)
        /\ \A i \in 1 .. f.size : Waits(two, one.used + i) = d[i]
    <3>1. Sound(one) /\ WriteOK(one, d) /\ f.size \in Nat \ {0} /\ d \in [1 .. f.size -> Byte]
      BY <1>1, <1>4, <2>2
    <3> QED
      BY <3>1, WriteWaits
  <2> HIDE DEF two
  <2>4. two.used = b.used + Size(f)
    BY <1>1, <2>2, <2>3
  <2>5. \A i \in 1 .. b.used : Waits(two, i) = Waits(b, i)
    <3>1. \A i \in 1 .. b.used : i \in 1 .. one.used
      BY <1>1, <2>2
    <3> QED
      BY <2>2, <2>3, <3>1
  <2>6. ASSUME NEW k \in 1 .. Size(f) PROVE Waits(two, b.used + k) = <<f, k>>
    <3>1. CASE k <= HeaderLen
      <4>1. k \in 1 .. HeaderLen /\ b.used + k \in 1 .. one.used
        BY <1>1, <2>2, <3>1
      <4> QED
        BY <1>1, <2>2, <2>3, <4>1
    <3>2. CASE ~ (k <= HeaderLen)
      <4>1. /\ k - HeaderLen \in 1 .. f.size /\ HeaderLen + (k - HeaderLen) = k
            /\ one.used + (k - HeaderLen) = b.used + k
        <5>1. k \in Int /\ HeaderLen \in Int /\ b.used \in Int /\ f.size \in Int
              /\ HeaderLen < k /\ k <= HeaderLen + f.size
          BY <1>1, <3>2
        <5>2. one.used = b.used + HeaderLen
          BY <2>2
        <5> QED
          BY <5>1, <5>2
      <4>2. Waits(two, one.used + (k - HeaderLen)) = d[k - HeaderLen]
        BY <2>3, <4>1
      <4>3. d[k - HeaderLen] = <<f, HeaderLen + (k - HeaderLen)>>
        BY <1>1, <4>1
      <4> QED
        BY <4>1, <4>2, <4>3
    <3> QED
      BY <3>1, <3>2
  <2> QED
    BY <2>1, <2>3, <2>4, <2>5, <2>6, AppendHolds
<1> QED
  BY <1>2, <1>3, <1>4

LEMMA HeadIs ==
    ASSUME NEW b, NEW q, Holds(b, q), q # << >>
    PROVE  HeadFrame(b) = q[1] /\ q[1] \in Frame /\ Size(q[1]) <= b.used
<1>1. PICK pos \in [0 .. Len(q) -> Nat] : Chain(b, q, pos)
  BY DEF Holds
<1>2. q \in Seq(Frame) /\ 1 \in 1 .. Len(q) /\ q[1] \in Frame /\ Sound(b)
  BY DEF Holds
<1>3. 1 \in 1 .. Size(q[1]) /\ Size(q[1]) \in Nat
  BY <1>2, FrameSize
<1>4. pos[1 - 1] = 0 /\ 0 + 1 = 1
  BY <1>1 DEF Chain, Lies
<1>5. Waits(b, pos[1 - 1] + 1) = <<q[1], 1>> /\ pos[1 - 1] + Size(q[1]) <= b.used
  BY <1>1, <1>2, <1>3, Inside DEF Chain
<1>6. Advance(b.rd, 1 - 1) = b.rd
  BY <1>2, LengthAssumption DEF Sound, Ring, Advance, Offset
<1>7. b.mem[b.rd] = <<q[1], 1>>
  BY <1>4, <1>5, <1>6 DEF Waits
<1> QED
  BY <1>2, <1>3, <1>4, <1>5, <1>7 DEF HeadFrame

(* The oldest frame comes out whole, be it read or skipped.                *)
LEMMA TakesFrame ==
    ASSUME NEW b, NEW q, Holds(b, q), q # << >>
    PROVE  Holds(FrameRead(b), Tail(q)) /\ Holds(FrameSkipped(b), Tail(q))
<1> DEFINE f == HeadFrame(b)
           one == ReadDataFromBuf(b, HeaderLen)
           two == ReadDataFromBuf(one, f.size)
<1>1. f = q[1] /\ f \in Frame /\ Size(f) <= b.used /\ Sound(b) /\ b.used \in Nat
  BY HeadIs, LengthAssumption DEF Holds, Sound, Ring
<1> HIDE DEF f
<1>2. /\ HeaderLen \in Nat \ {0} /\ f.size \in Nat \ {0} /\ Size(f) = HeaderLen + f.size
      /\ HeaderLen <= b.used
  BY <1>1, FrameSize DEF Size
<1>3. one = Taken(b, HeaderLen) /\ ReadOK(b, HeaderLen)
  BY <1>1, <1>2 DEF ReadDataFromBuf, ReadOK, Taken
<1> HIDE DEF one
<1>4. /\ Sound(one) /\ one.used = b.used - HeaderLen
      /\ \A i \in 1 .. one.used : Waits(one, i) = Waits(b, HeaderLen + i)
  <2>1. HeaderLen \in Nat
    BY <1>2
  <2> QED
    BY <1>1, <1>2, <1>3, <2>1, TakeWaits
<1>5. one.used \in Nat /\ f.size <= one.used /\ ReadOK(one, f.size) /\ SkipOK(one, f.size)
  BY <1>1, <1>2, <1>4 DEF ReadOK, SkipOK
<1>6. two = Taken(one, f.size)
  BY <1>2, <1>5 DEF ReadDataFromBuf, Taken
<1>7. SkipCircleBuf(one, f.size) = two
  BY <1>5, <1>6 DEF SkipCircleBuf, Taken
<1> HIDE DEF two
<1>8. /\ Sound(two) /\ two.used = one.used - f.size
      /\ \A i \in 1 .. two.used : Waits(two, i) = Waits(one, f.size + i)
  <2>1. f.size \in Nat
    BY <1>2
  <2> QED
    BY <1>4, <1>5, <1>6, <2>1, TakeWaits
<1>9. two.used = b.used - Size(f)
  BY <1>1, <1>2, <1>4, <1>8
<1>10. ASSUME NEW i \in 1 .. two.used PROVE Waits(two, i) = Waits(b, Size(f) + i)
  <2>1. f.size + i \in 1 .. one.used /\ HeaderLen + (f.size + i) = Size(f) + i
    BY <1>1, <1>2, <1>5, <1>8, <1>9
  <2> QED
    BY <1>4, <1>8, <2>1
<1>11. Holds(two, Tail(q))
  BY <1>1, <1>8, <1>9, <1>10, TailHolds
<1>12. FrameRead(b) = two
  BY <1>3, <1>5, Zenon DEF FrameRead, one, two, f
<1>13. FrameSkipped(b) = two
  BY <1>3, <1>5, <1>7, Zenon DEF FrameSkipped, FrameSkipOK, one, f
<1> QED
  BY <1>11, <1>12, <1>13

LEMMA TakesNothing ==
    ASSUME NEW b, Holds(b, << >>)
    PROVE  Holds(FrameRead(b), << >>) /\ Holds(FrameSkipped(b), << >>)
<1>1. b.used = 0 /\ Sound(b) /\ HeaderLen \in Nat \ {0}
  <2>1. PICK pos : Chain(b, << >>, pos)
    BY DEF Holds
  <2>2. Len(<< >>) = 0
    OBVIOUS
  <2>3. b.used = 0
    BY <2>1, <2>2 DEF Chain, Lies
  <2> QED
    BY <2>3, FrameAssumption, LengthAssumption DEF Holds
<1>2. ~ ReadOK(b, HeaderLen) /\ ReadDataFromBuf(b, HeaderLen) = ResetCircleBuf(b)
  BY <1>1 DEF ReadOK, ReadDataFromBuf
<1>3. FrameRead(b) = ResetCircleBuf(b) /\ FrameSkipped(b) = ResetCircleBuf(b)
  BY <1>2, Zenon DEF FrameRead, FrameSkipped
<1> QED
  BY <1>1, <1>3, ResetHolds
-----------------------------------------------------------------------------
(* The threads.  A producer that is not idle has a frame, and none but the *)
(* one that trims keeps the lock from one step to the next.                *)

Threads ==
    /\ lock \in Producers \cup {None}
    /\ pc \in [Producers -> Places]
    /\ frame \in [Producers -> Frame \cup {None}]
    /\ preTime \in PreTimes
    /\ \A p \in Producers : pc[p] = "trim" <=> lock = p
    /\ offered \in Nat
    /\ \A p \in Producers : pc[p] # "idle" => frame[p] \in Frame

IInv == Threads /\ \E q \in Seq(Frame) : Holds(info, q)

LEMMA InitThreads == ASSUME Init PROVE Threads
  BY FrameAssumption DEF Init, Threads, Places

LEMMA OfferThreads ==
    ASSUME Threads, NEW p \in Producers, Offer(p)
    PROVE  Threads'
<1>1. /\ pc[p] = "idle" /\ offered < MaxFrames /\ offered \in Nat /\ MaxFrames \in Nat
      /\ offered' = offered + 1 /\ UNCHANGED <<lock, preTime>>
  BY FrameAssumption DEF Offer, Threads
<1>2. PICK size \in Sizes, video \in BOOLEAN :
         frame' = [frame EXCEPT ![p] = [no |-> offered + 1, size |-> size, video |-> video]]
  BY DEF Offer
<1>3. [no |-> offered + 1, size |-> size, video |-> video] \in Frame
  <2>1. offered + 1 \in 1 .. MaxFrames
    BY <1>1
  <2> QED
    BY <2>1 DEF Frame
<1>4. PICK w \in {"wait", "makeRoom"} : pc' = [pc EXCEPT ![p] = w]
  BY DEF Offer, Goto
<1>5. frame' \in [Producers -> Frame \cup {None}] /\ frame'[p] \in Frame
      /\ \A r \in Producers \ {p} : frame'[r] = frame[r]
  BY <1>2, <1>3 DEF Threads
<1>6. pc' \in [Producers -> Places] /\ pc'[p] = w
      /\ \A r \in Producers \ {p} : pc'[r] = pc[r]
  BY <1>4 DEF Threads, Places
<1>7. offered' \in Nat
  BY <1>1
<1>8. \A r \in Producers : pc'[r] = "trim" <=> pc[r] = "trim"
  BY <1>1, <1>6
<1> QED
  BY <1>1, <1>5, <1>6, <1>7, <1>8 DEF Threads

(* Whoever moves without a new frame, between places outside the trim loop *)
LEMMA MovesOn ==
    ASSUME Threads, NEW p \in Producers, pc[p] # "trim", pc[p] # "idle",
           NEW w \in Places \ {"trim"}, Goto(p, w), UNCHANGED <<lock, frame, preTime, offered>>
    PROVE  Threads'
<1>1. pc' \in [Producers -> Places] /\ pc'[p] = w
      /\ \A r \in Producers \ {p} : pc'[r] = pc[r]
  BY DEF Goto, Threads
<1> QED
  BY <1>1 DEF Threads

(* or into it, with the lock, or out of it, without.                       *)
LEMMA TrimsThreads ==
    ASSUME Threads, NEW p \in Producers, pc[p] # "idle",
           UNCHANGED <<frame, preTime, offered>>,
           \/ lock = None /\ Goto(p, "trim") /\ lock' = p
           \/ pc[p] = "trim" /\ Goto(p, "idle") /\ lock' = None
    PROVE  Threads'
<1>1. PICK w \in {"trim", "idle"} : /\ Goto(p, w) /\ lock' = IF w = "trim" THEN p ELSE None
                                    /\ \A r \in Producers \ {p} : pc[r] # "trim"
  <2>1. \A r \in Producers : lock = r <=> pc[r] = "trim"
    BY DEF Threads
  <2>2. CASE lock = None /\ Goto(p, "trim") /\ lock' = p
    BY <2>1, <2>2, FrameAssumption
  <2>3. CASE pc[p] = "trim" /\ Goto(p, "idle") /\ lock' = None
    BY <2>1, <2>3
  <2> QED
    BY <2>2, <2>3
<1>2. pc' \in [Producers -> Places] /\ pc'[p] = w
      /\ \A r \in Producers \ {p} : pc'[r] = pc[r]
  BY <1>1 DEF Goto, Threads, Places
<1>3. \A r \in Producers : pc'[r] = "trim" <=> lock' = r
  BY <1>1, <1>2, FrameAssumption
<1>4. frame' = frame /\ preTime' = preTime /\ offered' = offered
  OBVIOUS
<1>5. lock' \in Producers \cup {None}
  BY <1>1
<1> QED
  BY <1>2, <1>3, <1>4, <1>5 DEF Threads

LEMMA NextThreads == ASSUME Threads, [Next]_vars PROVE Threads'
<1>1. CASE UNCHANGED vars
  BY <1>1 DEF vars, Threads
<1>2. CASE Read \/ ResetBuf
  BY <1>2 DEF Read, ResetBuf, Threads
<1>3. CASE SetPreTime
  BY <1>3 DEF SetPreTime, Threads
<1>4. ASSUME NEW p \in Producers, Offer(p) PROVE Threads'
  BY <1>4, OfferThreads
<1>5. ASSUME NEW p \in Producers, Produce(p) PROVE Threads'
  <2>0. \A w \in Places \ {"trim"} :
           /\ pc[p] # "trim" /\ pc[p] # "idle" /\ Goto(p, w)
           /\ UNCHANGED <<lock, frame, preTime, offered>>
           => Threads'
    BY MovesOn
  <2>p. /\ "idle" \in Places \ {"trim"} /\ "write" \in Places \ {"trim"}
        /\ "reset" \in Places \ {"trim"} /\ "writePre" \in Places \ {"trim"}
        /\ "resetThenWrite" \in Places \ {"trim"}
    BY DEF Places
  <2>1. CASE SeesRoom(p)
    BY <2>0, <2>1, <2>p DEF SeesRoom
  <2>2. CASE GivesUp(p)
    BY <2>0, <2>2, <2>p DEF GivesUp
  <2>3. CASE Resets(p)
    BY <2>0, <2>3, <2>p DEF Resets
  <2>4. CASE Write(p)
    BY <2>0, <2>4, <2>p DEF Write
  <2>5. CASE MakesRoom(p)
    <3>1. CASE FrameSkipOK(info)
      BY <2>5, <3>1 DEF MakesRoom, Threads
    <3>2. CASE ~ FrameSkipOK(info)
      BY <2>0, <2>5, <2>p, <3>2 DEF MakesRoom
    <3> QED
      BY <3>1, <3>2
  <2>6. CASE HasRoom(p)
    BY <2>0, <2>6, <2>p DEF HasRoom
  <2>7. CASE WritePre(p)
    <3>1. CASE info'.used > info.used /\ frame[p].video
      BY <2>7, <3>1, TrimsThreads DEF WritePre
    <3>2. CASE ~ (info'.used > info.used /\ frame[p].video)
      BY <2>0, <2>7, <2>p, <3>2 DEF WritePre
    <3> QED
      BY <3>1, <3>2
  <2>8. CASE Trim(p)
    <3>1. CASE FrameSkipOK(info)
      BY <2>8, <3>1 DEF Trim, Threads
    <3>2. CASE ~ FrameSkipOK(info)
      BY <2>8, <3>2, TrimsThreads DEF Trim
    <3> QED
      BY <3>1, <3>2
  <2>9. CASE TrimDone(p)
    BY <2>9, TrimsThreads DEF TrimDone
  <2> QED
    BY <1>5, <2>1, <2>2, <2>3, <2>4, <2>5, <2>6, <2>7, <2>8, <2>9 DEF Produce
<1> QED
  BY <1>1, <1>2, <1>3, <1>4, <1>5 DEF Next
-----------------------------------------------------------------------------
(* The ring.                                                               *)

(* Every step leaves the ring alone or makes one call of record.c on it.   *)
LEMMA OneCall ==
    ASSUME Threads, [Next]_vars
    PROVE  \/ info' = info
           \/ \E f \in Frame : info' = FrameWritten(info, f)
           \/ info' = FrameRead(info)
           \/ info' = FrameSkipped(info)
           \/ info' = ResetCircleBuf(info)
<1>1. CASE UNCHANGED vars
  BY <1>1 DEF vars
<1>2. CASE Read \/ ResetBuf \/ SetPreTime
  BY <1>2 DEF Read, ResetBuf, SetPreTime
<1>3. ASSUME NEW p \in Producers, Offer(p) PROVE info' = info
  BY <1>3 DEF Offer
<1>4. CASE \E p \in Producers : Write(p) \/ WritePre(p)
  <2> PICK p \in Producers : Write(p) \/ WritePre(p)
    BY <1>4
  <2>1. pc[p] # "idle" /\ info' = FrameWritten(info, frame[p])
    BY DEF Write, WritePre
  <2>2. frame[p] \in Frame
    BY <2>1 DEF Threads
  <2> QED
    BY <2>1, <2>2
<1>5. CASE \E p \in Producers : Produce(p) /\ ~ Write(p) /\ ~ WritePre(p)
  <2> PICK p \in Producers : Produce(p) /\ ~ Write(p) /\ ~ WritePre(p)
    BY <1>5
  <2>1. CASE SeesRoom(p) \/ GivesUp(p) \/ HasRoom(p) \/ TrimDone(p)
    BY <2>1 DEF SeesRoom, GivesUp, HasRoom, TrimDone
  <2>2. CASE Resets(p)
    BY <2>2 DEF Resets
  <2>3. CASE MakesRoom(p) \/ Trim(p)
    BY <2>3 DEF MakesRoom, Trim
  <2> QED
    BY <2>1, <2>2, <2>3 DEF Produce
<1> QED
  BY <1>1, <1>2, <1>3, <1>4, <1>5 DEF Next

QueueStep(q, r) == \/ r = q \/ \E f \in Frame : r = Append(q, f)
                   \/ q # << >> /\ r = Tail(q)
                   \/ r = << >>

(* And every call makes a step of the queue, or none.                      *)
LEMMA CallMovesQueue ==
    ASSUME Threads, [Next]_vars, NEW q, Holds(info, q)
    PROVE  \E r \in Seq(Frame) : Holds(info', r) /\ QueueStep(q, r)
<1>1. ASSUME NEW r, Holds(info', r), QueueStep(q, r)
      PROVE  \E s \in Seq(Frame) : Holds(info', s) /\ QueueStep(q, s)
  BY <1>1, Reads
<1>2. CASE info' = info
  BY <1>1, <1>2 DEF QueueStep
<1>3. CASE \E f \in Frame : info' = FrameWritten(info, f)
  <2> PICK f \in Frame : info' = FrameWritten(info, f)
    BY <1>3
  <2>1. Holds(info', q) \/ Holds(info', Append(q, f))
    BY WriteHolds
  <2> QED
    BY <1>1, <2>1 DEF QueueStep
<1>4. CASE info' = FrameRead(info) \/ info' = FrameSkipped(info)
  <2>1. CASE q = << >>
    <3>1. Holds(info', << >>)
      BY <1>4, <2>1, TakesNothing
    <3> QED
      BY <1>1, <3>1 DEF QueueStep
  <2>2. CASE q # << >>
    <3>1. Holds(info', Tail(q))
      BY <1>4, <2>2, TakesFrame
    <3> QED
      BY <1>1, <2>2, <3>1 DEF QueueStep
  <2> QED
    BY <2>1, <2>2
<1>5. CASE info' = ResetCircleBuf(info)
  <2>1. Holds(info', << >>)
    BY <1>5, ResetHolds DEF Holds
  <2> QED
    BY <1>1, <2>1 DEF QueueStep
<1> QED
  BY <1>2, <1>3, <1>4, <1>5, OneCall

LEMMA InitHolds == ASSUME Init PROVE Holds(info, << >>)
<1>1. info.used = 0 /\ Sound(info)
  BY SoundCreate DEF Init, CreateCircleBuf
<1> QED
  BY <1>1, HoldsNothing

LEMMA InitInv == ASSUME Init PROVE IInv
<1>1. << >> \in Seq(Frame)
  OBVIOUS
<1> QED
  BY <1>1, InitThreads, InitHolds DEF IInv

LEMMA NextInv == ASSUME IInv, [Next]_vars PROVE IInv'
<1>1. PICK q \in Seq(Frame) : Holds(info, q)
  BY DEF IInv
<1>2. PICK r \in Seq(Frame) : Holds(info', r)
  BY <1>1, CallMovesQueue DEF IInv
<1>3. Threads'
  BY NextThreads DEF IInv
<1>4. (\E s \in Seq(Frame) : Holds(info, s))'
  BY <1>2 DEF Holds, Sound, Chain, Lies, Waits
<1> QED
  BY <1>3, <1>4 DEF IInv

(***************************************************************************)
(* Types, and the lock of the ring kept by the producer that trims only,   *)
(* for any ring, sizes of frames and number of producers: no way out of    *)
(* the loop that trims keeps nSemForBuffer or gives up that of another.    *)
(***************************************************************************)
THEOREM TypeCorrect == Spec => []TypeOK
<1>1. IInv => TypeOK
  BY DEF IInv, Holds, Sound, Threads, TypeOK
<1> QED
  BY <1>1, InitInv, NextInv, PTL DEF Spec

(***************************************************************************)
(* What waits in the ring is a sequence of whole frames, whichever of the  *)
(* paired writes and reads fails and whoever has used up the room that a   *)
(* producer saw.                                                           *)
(***************************************************************************)
THEOREM FramesStayWhole == Spec => []Framed
<1>1. IInv => Framed
  BY Reads DEF IInv, Framed
<1> QED
  BY <1>1, InitInv, NextInv, PTL DEF Spec

(***************************************************************************)
(* The ring with its threads implements the queue of whole frames: a step  *)
(* puts one frame at the end, takes the oldest, empties the queue or does  *)
(* not change it.                                                          *)
(***************************************************************************)
THEOREM ImplementsFifo == Spec => ImplementsFrameFifo
<1>1. Init => IInv /\ Fifo!Init
  <2> SUFFICES ASSUME Init PROVE IInv /\ Fifo!Init
    OBVIOUS
  <2>1. FramesOf(Content(info)) = << >>
    BY InitHolds, Reads
  <2> QED
    BY <2>1, InitInv DEF Fifo!Init
<1>2. IInv /\ [Next]_vars => [Fifo!Next]_(FramesOf(Content(info)))
  <2> SUFFICES ASSUME IInv, [Next]_vars PROVE [Fifo!Next]_(FramesOf(Content(info)))
    OBVIOUS
  <2>1. PICK q \in Seq(Frame) : Holds(info, q)
    BY DEF IInv
  <2>2. PICK r \in Seq(Frame) : Holds(info', r) /\ QueueStep(q, r)
    BY <2>1, CallMovesQueue DEF IInv
  <2>3. FramesOf(Content(info)) = q
    BY <2>1, Reads
  <2>4. FramesOf(Content(info')) = r
    BY <2>2, Reads
  <2>5. FramesOf(Content(info))' = r
    BY <2>4 DEF FramesOf, Whole, Heads, Nth, Content, BytesRead
  <2> QED
    BY <2>2, <2>3, <2>5
       DEF QueueStep, Fifo!Next, Fifo!Append1, Fifo!RemoveHead, Fifo!Clear
<1> QED
  BY <1>1, <1>2, NextInv, PTL DEF Spec, ImplementsFrameFifo, Fifo!Spec
=============================================================================
