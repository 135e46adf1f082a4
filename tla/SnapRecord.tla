----------------------------- MODULE SnapRecord -----------------------------
(***************************************************************************)
(* The snapshots of the recorder: producers put pictures into a ring        *)
(* (ModRecordSnapshotToBuf), one thread (RecordSnapFxn, record.c) takes     *)
(* them, appends them to a file container and enters them, some at a time,  *)
(* into the picture index of the partition (partitionindex.c).  Whoever     *)
(* formats a disk, plugs one or upgrades stops the thread through its       *)
(* message queue and lets it start again.                                   *)
(*                                                                          *)
(* A step of the thread is what it does up to a write of the disk.  A fault *)
(* makes it fail before or after it has had its effect; a crash loses the   *)
(* memory and any bytes not yet synced.  A crash in the middle of a write   *)
(* is a fault and then a crash.  The thread's record of its container,      *)
(* SnapFile, is not initialised: until the first container is opened the    *)
(* pointer in it is null or wild.                                           *)
(*                                                                          *)
(* Abstractions: pictures have one length, so that a position is a number   *)
(* of pictures; of the masks and times of the index the mask of channels    *)
(* is kept; the backup copy of the index only makes a write fail after it   *)
(* had its effect; there is one partition.  Bounds: MaxPics pictures,       *)
(* MaxPauses calls that stop the thread, MaxFaults faults, MaxCrashes       *)
(* crashes, and MaxTroubles of these three together.                        *)
(***************************************************************************)
EXTENDS Integers, Sequences

CONSTANTS
  Causes,      \* who stops the thread: "format", "hotplug", "update"
  NumChan,     \* g_ChnNum
  FileNums,    \* pic_header.file_nums
  PicNums,     \* PIC_NUMS_PER_FILE
  RingPics,    \* pictures the ring holds
  BufTotal,    \* PicInfoBuf.total
  MaxPics, MaxPauses, MaxFaults, MaxCrashes, MaxTroubles

ASSUME SnapAssumption ==
  /\ Causes \subseteq {"format", "hotplug", "update"}
  /\ NumChan \in Nat \ {0} /\ FileNums \in Nat \ {0}
  /\ PicNums \in Nat \ {0, 1} /\ RingPics \in Nat /\ BufTotal \in Nat \ {0}
  /\ {MaxPics, MaxPauses, MaxFaults, MaxCrashes, MaxTroubles} \subseteq Nat

Box   == 0..FileNums - 1
Place == 0..PicNums - 1
NoPic == 0
ChnOf(p) == p % NumChan

VARIABLES
  pics,        \* g_RecSnapBufInfo, with BufSnapCnt = Len(pics)
  made,        \* pictures made so far
  smsgs,       \* g_SnapMsgQueueInfo
  asked,       \* the causes that have stopped the thread and not let it start
  present,     \* is there a disk?
  pauses,      \* calls that stopped the thread
  at, how,     \* where the thread is, and what it opens a file or flushes for
  status, pre, \* status, pre_status
  flags,       \* flag_format, flag_hotplug, flag_update
  pic,         \* the picture in pSnapData, while b_RecSnap
  file, buf,   \* SnapFile, PicInfoBuf
  cur,         \* index->pic_header.file_cur_no
  dcur, info, pinfo, \* on the disk: that number, the file and the picture entries
  bytes,       \* what the containers hold
  dirty,       \* the pictures written to the open container and not synced
  faults, crashes,
  undone,      \* faults that kept an index that was used up
  leaked,      \* containers that are open and that nothing holds any more
  written      \* (for the properties) pictures written since the index was emptied

ring   == <<pics, made>>
asking == <<smsgs, asked, present, pauses>>
turn   == <<at, how, status, pre, pic>>
work   == <<flags, file, buf, cur>>
index  == <<dcur, info, pinfo>>
stored == <<bytes, dirty, written>>
limits == <<faults, crashes, undone, leaked>>
vars   == <<ring, asking, turn, work, index, stored, limits>>

Closed == [open |-> FALSE, wild |-> FALSE, box |-> 0, n |-> 0, mask |-> {}]
Wild   == [Closed EXCEPT !.wild = TRUE]
Unused == [status |-> "unused", n |-> 0, mask |-> {}]
Nowhere == [b \in Box |-> [k \in Place |-> NoPic]]

Init ==
  /\ pics = <<>> /\ made = 0 /\ smsgs = <<>> /\ asked = {} /\ present \in BOOLEAN
  /\ pauses = 0 /\ at = "take" /\ how = "none" /\ status = "willStart" /\ pre = "willStart"
  /\ pic = NoPic /\ flags = {} /\ file \in {Closed, Wild} /\ buf = <<>> /\ cur = 0
  /\ dcur = 0 /\ info = [b \in Box |-> Unused] /\ pinfo = Nowhere
  /\ bytes = Nowhere /\ dirty = {} /\ written = {}
  /\ faults = 0 /\ crashes = 0 /\ undone = 0 /\ leaked = 0

Room == pauses + faults + crashes < MaxTroubles

---------------------------------------------------------------------------
(* The producers, and those who stop the thread.                            *)

\* ModRecordSnapshotToBuf, where a full ring refuses the picture.
Put ==
  /\ present /\ "hotplug" \notin asked
  /\ Len(pics) < RingPics /\ made < MaxPics
  /\ made' = made + 1 /\ pics' = Append(pics, made')
  /\ UNCHANGED <<asking, turn, work, index, stored, limits>>

\* While a disk is plugged the ring is emptied instead.
Drop ==
  /\ present /\ "hotplug" \in asked /\ pics' = <<>>
  /\ UNCHANGED <<made, asking, turn, work, index, stored, limits>>

\* ModRecordSnapPause, ModRecordSetHotPlugFlag(1).  A reload that finds no disk leaves
\* the thread stopped, and the next one stops it again.
Pause(c) ==
  /\ pauses < MaxPauses /\ Room /\ pauses' = pauses + 1
  /\ c \notin asked \/ c = "hotplug"
  /\ asked' = asked \cup {c} /\ smsgs' = Append(smsgs, <<"stop", c>>)
  /\ UNCHANGED <<ring, present, turn, work, index, stored, limits>>

\* ModRecordSnapResume, ModRecordSetHotPlugFlag(0).
Resume(c) ==
  /\ c \in asked /\ (c = "hotplug" => present)
  /\ asked' = asked \ {c} /\ smsgs' = Append(smsgs, <<"willStart", c>>)
  /\ UNCHANGED <<ring, present, pauses, turn, work, index, stored, limits>>

\* The thread has heard of c and ended that turn.  The callers sleep, 3 seconds for a
\* format and 10 for a reload, and take it to be so.
Heard(c) ==
  /\ c \in asked /\ at \in {"take", "hear"}
  /\ \A i \in 1..Len(smsgs) : smsgs[i][2] # c

\* BizReloadHdd: the disk comes or goes, and its index is read.
Reload ==
  /\ Heard("hotplug") /\ present' = ~present /\ cur' = dcur
  /\ UNCHANGED <<ring, smsgs, asked, pauses, turn, flags, file, buf, index, stored, limits>>

\* A format ends in init_partition_pic_index.
Format ==
  /\ Heard("format") /\ present
  /\ cur' = 0 /\ dcur' = 0 /\ info' = [b \in Box |-> Unused] /\ written' = {}
  /\ UNCHANGED <<ring, asking, turn, flags, file, buf, pinfo, bytes, dirty, limits>>

---------------------------------------------------------------------------
(* A turn of the thread: a picture, a message, and what the status asks.    *)

\* To be used after status' is fixed.
EndTurn == at' = "take" /\ how' = "none" /\ pre' = status' /\ pic' = NoPic

GoOn(where, why) == at' = where /\ how' = why /\ UNCHANGED <<pre, pic>>

Take ==
  /\ at = "take" /\ at' = "hear"
  /\ IF pics = <<>> THEN UNCHANGED <<pics, pic>>
                    ELSE pic' = Head(pics) /\ pics' = Tail(pics)
  /\ UNCHANGED <<made, asking, how, status, pre, work, index, stored, limits>>

\* Mutant: a cause that lets the thread start takes the other causes' flags with it.
StartOnAny(m) == IF m[1] = "stop" THEN flags \cup {m[2]} ELSE {}

\* Mutant: the flag of the cause stays.
FlagKept(m) == IF m[1] = "stop" THEN flags \cup {m[2]} ELSE flags

Flagged(m) == IF m[1] = "stop" THEN flags \cup {m[2]} ELSE flags \ {m[2]}

Told(m) == IF m[1] = "stop" /\ status = "idle" THEN status ELSE m[1]

\* The container as it is when the pictures of d reach the disk.
Reached(d) ==
  [bytes EXCEPT ![file.box] =
     [k \in Place |-> IF \E w \in d : w[1] = k THEN (CHOOSE w \in d : w[1] = k)[2] ELSE @[k]]]

\* fclose does not sync: any of the pictures may or may not reach the disk in time, which
\* only a crash tells apart, and the entries of PicInfoBuf do not speak of any of them.
Unsynced ==
  /\ dirty' = {}
  /\ \E d \in SUBSET dirty : bytes' = IF file.open THEN Reached(d) ELSE bytes

Close == file' = Closed /\ Unsynced

Quiet == UNCHANGED <<file, bytes, dirty>>

\* What the thread does after the message, with status st and flags fl.
Dispatch(st, fl) ==
  \/ /\ st = "willStart" /\ (fl # {} \/ ~present)
     /\ status' = st /\ EndTurn /\ Quiet
  \/ /\ st = "start" \/ (st = "willStart" /\ fl = {} /\ present)
     /\ status' = "start" /\ GoOn("new", "start") /\ Quiet
  \/ /\ st = "run" /\ status' = st /\ GoOn("store", "none") /\ Quiet
  \/ /\ st \in {"stop", "rst"} /\ pre = "run"
     /\ status' = st /\ GoOn("sync", st) /\ Quiet
  \/ /\ st \in {"stop", "rst"} /\ pre # "run"
     /\ status' = (IF st = "stop" THEN "idle" ELSE "willStart")
     /\ EndTurn /\ Close       \* a wild pointer at best does no harm: see WildClose
  \/ /\ st = "idle" /\ status' = st /\ EndTurn /\ Quiet

Hear ==
  /\ at = "hear"
  /\ IF smsgs = <<>>
     THEN UNCHANGED <<smsgs, flags>> /\ Dispatch(status, flags)
     ELSE LET m == Head(smsgs) IN
          /\ smsgs' = Tail(smsgs) /\ flags' = Flagged(m)
          /\ Dispatch(Told(m), Flagged(m))
  /\ UNCHANGED <<ring, asked, present, pauses, buf, cur, index, written, limits>>

\* The recorder starts again.
GoesDown ==
  /\ file' \in {Closed, Wild} /\ Unsynced
  /\ pics' = <<>> /\ smsgs' = <<>> /\ asked' = {} /\ flags' = {} /\ buf' = <<>>
  /\ at' = "take" /\ how' = "none" /\ status' = "willStart" /\ pre' = "willStart"
  /\ pic' = NoPic /\ cur' = dcur /\ leaked' = 0
  /\ UNCHANGED <<made, present, pauses, index, written, faults, undone>>

\* A thread that is stopped before it opened its first container closes what SnapFile
\* happens to hold, and the recorder goes down with it.
WildClose ==
  /\ at = "hear" /\ smsgs # <<>> /\ Told(Head(smsgs)) = "stop" /\ file.wild
  /\ GoesDown /\ UNCHANGED crashes

---------------------------------------------------------------------------
(* GetNewSnapFile: the container that the index calls the current one, and  *)
(* where in it the next picture goes.                                       *)

Fault   == faults < MaxFaults /\ Room /\ faults' = faults + 1
NoFault == UNCHANGED faults

\* Pictures that the entries e show.
InEntries(e) == {p \in 1..MaxPics : \E b \in Box, k \in Place : k < e[b].n /\ pinfo[b][k] = p}

\* get_pic_rec_partition: every container is used up, init_partition_pic_index writes the
\* header and the entries of all of them.  The memory has the new header also when a
\* write fails, and the caller, which does not look, goes on with it.
Rollback ==
  /\ at = "new" /\ cur = FileNums /\ cur' = 0
  /\ \/ NoFault /\ dcur' = 0 /\ info' = [b \in Box |-> Unused] /\ written' = {}
        /\ UNCHANGED undone
     \/ Fault /\ undone' = undone + 1 /\ UNCHANGED <<dcur, info, written>>
     \/ Fault /\ undone' = undone + 1 /\ dcur' = 0 /\ \E m \in 0..FileNums :
          /\ info' = [b \in Box |-> IF b < m THEN Unused ELSE info[b]]
          /\ written' = InEntries(info')
  /\ UNCHANGED <<ring, asking, turn, flags, file, buf, pinfo, bytes, dirty, crashes, leaked>>

\* Mutant: a container that was begun is begun again.
FromStart(e) == [Unused EXCEPT !.status = "used"]

Begun(e) == IF e.status = "unused" THEN [e EXCEPT !.status = "used"] ELSE e

\* GetNewSnapFile empties SnapFile first, whatever it holds.
Forgotten == IF file.open THEN 1 ELSE 0

OpenNew ==
  /\ at = "new" /\ cur < FileNums /\ NoFault
  /\ LET e == Begun(info[cur]) IN
     /\ info' = [info EXCEPT ![cur] = e]
     /\ file' = [Closed EXCEPT !.open = TRUE, !.box = cur, !.n = e.n, !.mask = e.mask]
  /\ leaked' = leaked + Forgotten
  /\ buf' = (IF how = "start" THEN <<>> ELSE buf) /\ status' = "run"
  /\ GoOn(IF how = "start" THEN "store" ELSE "write", "none")
  /\ UNCHANGED <<ring, asking, flags, cur, dcur, pinfo, stored, crashes, undone>>

\* pre_record_snap_init fails; or GetNewSnapFile does, before it has opened the
\* container or closing it; or it cannot enter the container as begun, and returns
\* without closing it.
OpenFails ==
  /\ at = "new" /\ cur < FileNums /\ Fault
  /\ \/ how = "start" /\ UNCHANGED <<file, info, leaked>>
     \/ file' = Closed /\ leaked' = leaked + Forgotten /\ UNCHANGED info
     \/ /\ info[cur].status = "unused" /\ info' \in {info, [info EXCEPT ![cur] = Begun(@)]}
        /\ file' = Closed /\ leaked' = leaked + Forgotten + 1
  /\ status' = (IF how = "start" THEN "start" ELSE "rst") /\ EndTurn
  /\ UNCHANGED <<ring, asking, flags, buf, cur, dcur, pinfo, stored, crashes, undone>>

---------------------------------------------------------------------------
(* TypeRecSnapRun: the picture is appended to the container.                *)

\* Mutant: the container is left when its last entry is passed.
FullLate == file.n > PicNums

Full == file.n + 1 >= PicNums

Store ==
  /\ at = "store"
  /\ CASE pic = NoPic -> GoOn("half", "none")
       [] pic # NoPic /\ Full -> GoOn("sync", "full")
       [] OTHER -> GoOn("write", "none")
  /\ UNCHANGED <<ring, asking, status, work, index, stored, limits>>

\* Mutant: the entry numbers the picture after it was counted.
NumberedLate == [box |-> cur, place |-> file.n + 1, pic |-> pic]

PicInfo == [box |-> cur, place |-> file.n, pic |-> pic]

Write ==
  /\ at = "write" /\ NoFault /\ GoOn("half", "none")
  /\ dirty' = dirty \cup {<<file.n, pic>>} /\ written' = written \cup {pic}
  /\ buf' = Append(buf, PicInfo)
  /\ file' = [file EXCEPT !.n = @ + 1, !.mask = @ \cup {ChnOf(pic)}]
  /\ UNCHANGED <<ring, asking, status, flags, cur, index, bytes, crashes, undone, leaked>>

\* ModRecordPreSnapToFile or fwrite fails.
StoreFails ==
  /\ at \in {"store", "write"} /\ pic # NoPic /\ Fault
  /\ status' = "rst" /\ EndTurn
  /\ UNCHANGED <<ring, asking, work, index, stored, crashes, undone, leaked>>

\* PicInfoBuf is more than half full?
Half ==
  /\ at = "half"
  /\ IF (Len(buf) * 100) \div BufTotal > 50 THEN GoOn("sync", "half") ELSE GoOn("late", "none")
  /\ UNCHANGED <<ring, asking, status, work, index, stored, limits>>

\* Two seconds have passed, or not yet.
Late ==
  /\ at = "late" /\ UNCHANGED status
  /\ GoOn("sync", "late") \/ EndTurn
  /\ UNCHANGED <<ring, asking, work, index, stored, limits>>

---------------------------------------------------------------------------
(* FlushSnapIndex, one write after the other.                               *)

\* What follows: also of a flush that fails, before a stop or a reset.
Flushed ==
  /\ buf' = <<>>
  /\ file' = IF how \in {"half", "late"} THEN file ELSE Closed
  /\ status' = CASE how = "stop" -> "idle" [] how = "rst" -> "willStart" [] OTHER -> status
  /\ CASE how = "full" -> GoOn("new", how)
       [] how = "half" -> GoOn("late", "none")
       [] OTHER -> EndTurn

FlushFails ==
  IF how \in {"stop", "rst"} THEN Flushed
  ELSE buf' = <<>> /\ status' = "rst" /\ EndTurn /\ UNCHANGED file

NextWrite(where) == GoOn(where, how) /\ UNCHANGED <<buf, file, status>>

\* Mutant: the container is left to the operating system.
NotSynced == UNCHANGED <<bytes, dirty>>

Synced == bytes' = Reached(dirty) /\ dirty' = {}

\* The container first.
Sync ==
  /\ at = "sync" /\ Synced
  /\ IF buf # <<>> \/ how = "full" THEN NextWrite("pics") ELSE Flushed
  /\ UNCHANGED <<ring, asking, flags, cur, index, written, limits>>

\* get_index_pic_pos: the entries of all the containers lie one after the other.
PicPos(b, k) == b * PicNums + k

\* FlushPicInfoBufToFile_unlock: the first m entries are written.
EnterPics ==
  /\ at = "pics"
  /\ \E m \in 0..Len(buf) :
       /\ pinfo' = [b \in Box |-> [k \in Place |->
                      LET Lands(i) == PicPos(buf[i].box, buf[i].place) = PicPos(b, k)
                      IN IF \E i \in 1..m : Lands(i)
                         THEN buf[CHOOSE i \in 1..m : Lands(i)].pic ELSE pinfo[b][k]]]
       /\ \/ m = Len(buf) /\ NoFault /\ NextWrite("info")
          \/ buf # <<>> /\ Fault /\ FlushFails
  /\ UNCHANGED <<ring, asking, flags, cur, dcur, info, stored, crashes, undone, leaked>>

Entry(e) == [status |-> IF how = "full" THEN "full" ELSE "used", n |-> file.n,
             mask |-> e.mask \cup file.mask]

EnterFile ==
  /\ at = "info"
  /\ \/ NoFault /\ info' = [info EXCEPT ![cur] = Entry(@)] /\ NextWrite("head")
     \/ Fault /\ info' \in {info, [info EXCEPT ![cur] = Entry(@)]} /\ FlushFails
  /\ UNCHANGED <<ring, asking, flags, cur, dcur, pinfo, stored, crashes, undone, leaked>>

\* The header: on the disk, then in memory.
EnterHeader ==
  LET next == IF how = "full" THEN cur + 1 ELSE cur IN
  /\ at = "head"
  /\ \/ NoFault /\ dcur' = next /\ cur' = next /\ Flushed
     \/ Fault /\ dcur' \in {dcur, next} /\ UNCHANGED cur /\ FlushFails
  /\ UNCHANGED <<ring, asking, flags, info, pinfo, stored, crashes, undone, leaked>>

---------------------------------------------------------------------------
Thread == \/ Take \/ Hear \/ WildClose \/ Rollback \/ OpenNew \/ OpenFails
          \/ Store \/ Write \/ StoreFails \/ Half \/ Late
          \/ Sync \/ EnterPics \/ EnterFile \/ EnterHeader

\* The recorder goes down in the middle of anything.
Crash == crashes < MaxCrashes /\ Room /\ crashes' = crashes + 1 /\ GoesDown

Next == \/ Put \/ Drop \/ Reload \/ Format \/ Thread \/ Crash
        \/ \E c \in Causes : Pause(c) \/ Resume(c)

Spec == Init /\ [][Next]_vars /\ WF_vars(Thread)

---------------------------------------------------------------------------
(* Properties.                                                              *)

\* Among the types: PicInfoBuf never holds more than BufTotal entries, which
\* RecordSnapFxn does not look at when it appends one (record.c:3868), and no entry
\* is past the end of its container, also of one opened when full; except that each
\* time the index could not be emptied a container takes one picture more.
TypeOK ==
  /\ pics \in Seq(1..MaxPics) /\ Len(pics) <= RingPics /\ made \in 0..MaxPics
  /\ smsgs \in Seq({"stop", "willStart"} \X Causes)
  /\ asked \subseteq Causes /\ flags \subseteq Causes /\ present \in BOOLEAN
  /\ at \in {"take", "hear", "new", "store", "write", "half", "late",
             "sync", "pics", "info", "head"}
  /\ how \in {"none", "start", "full", "half", "late", "stop", "rst"}
  /\ status \in {"willStart", "start", "run", "stop", "idle", "rst"}
  /\ pic \in 0..MaxPics /\ file.n \in 0..PicNums - 1 + undone /\ Len(buf) <= BufTotal
  /\ \A i \in 1..Len(buf) :
       buf[i].box \in Box /\ buf[i].place \in 0..PicNums - 2 + undone
  /\ cur \in 0..FileNums /\ dcur \in 0..FileNums
  /\ \A b \in Box : info[b].n \in 0..PicNums - 1 + undone

\* search_rec_snap comes past entry k of container b.
Shown(b, k) == b <= cur /\ k < info[b].n

\* Every picture that a search shows is whole in its container, and the mask of the
\* container leads a search for its channel to it; also after a fault anywhere in a
\* flush, and after a crash.  An index that twice could not be emptied is overrun:
\* a container then has an entry too many, which lands on the next one's.
IndexedIsStored ==
  \A b \in Box, k \in Place :
    LET p == pinfo[b][k]
    IN undone <= 1 /\ Shown(b, k) => p # NoPic /\ bytes[b][k] = p /\ ChnOf(p) \in info[b].mask

\* A picture that a search shows stays so, under the same entry, over faults, stops,
\* crashes and new containers, until the index is emptied.
IndexedStays ==
  [][\A b \in Box, k \in Place :
       /\ undone <= 1 /\ Shown(b, k)
       /\ "format" \notin asked /\ ~(at = "new" /\ cur = FileNums)
       => Shown(b, k)' /\ pinfo'[b][k] = pinfo[b][k]]_vars

\* Unless a write fails or the recorder goes down, every picture written is in the index
\* or waits in PicInfoBuf to be entered, however the thread is stopped and started.
NothingLost ==
  faults = 0 /\ crashes = 0 =>
    \A p \in written : p \in InEntries(info) \/ \E i \in 1..Len(buf) : buf[i].pic = p

\* Whoever has stopped the thread, and whose message it has heard, finds the thread's
\* container closed, whatever others ask in the meantime; and of the containers it lost
\* hold of, which keep a disk busy for good, there is at most one for each failed write.
StoppedMeansClosed == (\E c \in Causes : Heard(c)) => ~file.open /\ leaked <= faults

\* When nobody stops the thread and there is a disk, it comes to run.
SnapshotsResume == (asked = {} /\ present) ~> (status = "run" \/ asked # {} \/ ~present)
=============================================================================
