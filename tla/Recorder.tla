------------------------------ MODULE Recorder ------------------------------
(***************************************************************************)
(* The recorder of ModRecord (src/ModRecord/src/record.c): the threads that *)
(* deliver frames (ModRecordWriteOneFrame), the status manager thread       *)
(* (RecordStatusManagerFxn, S) and the writer thread (RecordMainFxn, W),    *)
(* which meet in two message queues, one ring of frames per channel and a   *)
(* handful of unprotected flags.                                            *)
(*                                                                          *)
(* Abstractions.  A ring is the number of unit frames in it (CircleBuf and  *)
(* FrameBuf model its bytes and frames).  The causes of a recording are     *)
(* "manual" (standing for every cause up to 0x03, the timer included) and   *)
(* "alarm" (every cause above).  Queues do not overflow (they hold 4096     *)
(* messages).  The label of a file (rec_file_type) is left out.             *)
(* Bounds on the environment: MaxEvents events; a command is posted only     *)
(* while fewer than MaxCmds wait, a frame delivered only while fewer than   *)
(* MaxMsgs messages wait for the writer.                                    *)
(***************************************************************************)
EXTENDS Integers, Sequences, FiniteSets

CONSTANTS
  NumChan,     \* g_ChnNum
  Producer,    \* the threads that deliver frames to one channel
  Cap,         \* frames a ring holds
  HighMark,    \* "30 %": above it the writer is asked to read
  LowMark,     \* "5 %": down to it the writer reads
  Patience,    \* frames given up before a full ring is reset
  DelayOn,     \* is g_RecordDelayTime set?
  Events,      \* the kinds of event the environment produces
  MaxEvents, MaxCmds, MaxMsgs

EventKinds == {"manualOn", "manualOff", "alarmOn", "alarmOff", "preOn", "preOff",
               "pause", "resume", "full", "hotplug", "working", "format"}

ASSUME RecorderAssumption ==
  /\ NumChan \in Nat \ {0}
  /\ Cap \in Nat /\ HighMark \in Nat /\ LowMark \in Nat /\ Patience \in Nat
  /\ LowMark <= HighMark /\ HighMark < Cap
  /\ DelayOn \in BOOLEAN
  /\ Events \subseteq EventKinds
  /\ MaxEvents \in Nat /\ MaxCmds \in Nat /\ MaxMsgs \in Nat

ASSUME ProducerAssumption == IsFiniteSet(Producer)

Chan == 1..NumChan
Cause == {"manual", "alarm"}

VARIABLES
  cmds, msgs, sem,                       \* queue 0, queue 1, g_semMsgQueue[0]
  status, past, delay,                   \* g_RecordStatus, ...Past, ...Delay
  isPre, preStart, preTime,              \* g_IsPreRecording, pre_start, g_RecordPreTime > 0
  chnPaused, flagPause, sentPause,       \* g_ChnPaused, flag_pause, flag_sendmsg_pause
  flag, isWriting, used, giveUps,        \* g_SendMsgReadBuf, g_IsWritingFile, ring, pFlagChnBufFull
  forced, fileOpen, stopped,             \* flag_force_writefile, file != NULL, nStopRecordByDiskFull
  ppc, spc, sc, wpc, wmsg,               \* where each thread is
  out, posting,                          \* messages the manager has still to write; is
                                         \* it between the write and the sem_post of one?
  full, hotplug, working, lastWorking, formatted, left

queues   == <<cmds, msgs, sem>>
statuses == <<status, past, delay, isPre, preStart, preTime>>
pauses   == <<chnPaused, flagPause, sentPause>>
ring     == <<flag, isWriting, used, giveUps>>
writer   == <<forced, fileOpen, stopped, wpc, wmsg>>
manager  == <<spc, sc, lastWorking, formatted, out, posting>>
world    == <<full, hotplug, working, left>>
vars     == <<queues, statuses, pauses, ring, writer, manager, world, ppc>>

Init ==
  /\ cmds = <<>> /\ msgs = <<>> /\ sem = 0
  /\ status = [c \in Chan |-> {}] /\ past = [c \in Chan |-> {}] /\ delay = [c \in Chan |-> {}]
  /\ isPre = [c \in Chan |-> FALSE] /\ preStart = [c \in Chan |-> FALSE]
  /\ preTime = [c \in Chan |-> FALSE]
  /\ chnPaused = [c \in Chan |-> FALSE] /\ flagPause = [c \in Chan |-> FALSE]
  /\ sentPause = [c \in Chan |-> FALSE]
  /\ flag = [c \in Chan |-> FALSE] /\ isWriting = [c \in Chan |-> FALSE]
  /\ used = [c \in Chan |-> 0] /\ giveUps = [c \in Chan |-> 0]
  /\ forced = [c \in Chan |-> FALSE] /\ fileOpen = [c \in Chan |-> FALSE] /\ stopped = FALSE
  /\ ppc = [c \in Chan |-> [p \in Producer |-> "idle"]]
  /\ spc = "cmd" /\ sc = 1 /\ out = <<>> /\ posting = FALSE /\ wpc = "wait" /\ wmsg = <<"none", 1>>
  /\ full = FALSE /\ hotplug = FALSE /\ working = TRUE /\ lastWorking = FALSE
  /\ formatted = TRUE /\ left = MaxEvents

---------------------------------------------------------------------------
(* Messages to the writer: RecordWriteMsgQueue(1, ...), which writes the    *)
(* message into queue 1 and then posts the semaphore; in between, other     *)
(* threads go on.                                                           *)

\* Mutant: the sem_post made only when the semaphore is 0, as the lines that
\* are commented out in RecordWriteMsgQueue once did.
PostIfIdle == sem' = IF sem = 0 THEN 1 ELSE sem

SemPost == sem' = sem + 1
WriteMsg(m) == msgs' = Append(msgs, m)

\* Of the words a and b, the last one in the queue q is a.
LastWordIs(q, a, b) == \E i \in 1..Len(q) : q[i] = a /\ \A j \in (i + 1)..Len(q) : q[j] # b

\* A command to the manager (queue 0) for each of the channels C, in the order of
\* their numbers.
InOrder(C) == {o \in [1..Cardinality(C) -> C] :
                 \A i, j \in 1..Cardinality(C) : i < j => o[i] < o[j]}

CommandEach(k, C) ==
  \E o \in InOrder(C) : cmds' = cmds \o [i \in 1..Cardinality(C) |-> <<k, o[i]>>]

\* A pause that repeats the last word of the queue about its channel changes
\* nothing and is not queued again.
PauseEach(C) ==
  CommandEach("pause", {c \in C : ~LastWordIs(cmds, <<"pause", c>>, <<"resume", c>>)})

---------------------------------------------------------------------------
(* A thread delivering frames: ModRecordWriteOneFrame, RecordWriteFrameToBuf. *)

At(c, p, where)   == ppc[c][p] = where
GoTo(c, p, where) == ppc' = [ppc EXCEPT ![c][p] = where]

Wanted(c) ==
  /\ status[c] \cup delay[c] # {} \/ (preTime[c] /\ isPre[c])
  /\ ~chnPaused[c]
  /\ ~isWriting[c]

Offer(c, p) ==
  /\ At(c, p, "idle") /\ ~hotplug /\ working /\ Wanted(c) /\ Len(msgs) < MaxMsgs
  /\ GoTo(c, p, "mode")
  /\ UNCHANGED <<queues, statuses, pauses, ring, writer, manager, world>>

OfferHotPlug(c, p) ==
  /\ At(c, p, "idle") /\ hotplug
  /\ used' = [used EXCEPT ![c] = 0]
  /\ UNCHANGED <<queues, statuses, pauses, flag, isWriting, giveUps, writer, manager,
                 world, ppc>>

\* RecordUpdateBufReadOffset: the frame is appended behind a suffix of the ring.
PreRecord(c, p) ==
  /\ At(c, p, "mode") /\ isPre[c]
  /\ \E n \in 1..Cap : n <= used[c] + 1 /\ used' = [used EXCEPT ![c] = n]
  /\ GoTo(c, p, "idle")
  /\ UNCHANGED <<queues, statuses, pauses, flag, isWriting, giveUps, writer, manager, world>>

Direct(c, p) ==
  /\ At(c, p, "mode") /\ ~isPre[c]
  /\ GoTo(c, p, IF ~flag[c] /\ used[c] = Cap THEN "askFull" ELSE "room")
  /\ UNCHANGED <<queues, statuses, pauses, ring, writer, manager, world>>

\* Both places that ask the writer to read: the flag is set, then the message
\* is sent.
SetFlag(c)      == flag' = [flag EXCEPT ![c] = TRUE] /\ UNCHANGED <<msgs, sem>>
WriteReadBuf(c) == WriteMsg(<<"readBuf", c>>) /\ UNCHANGED <<flag, sem>>
PostReadBuf     == SemPost /\ UNCHANGED <<flag, msgs>>

Asks == {<<"askFull", "sendFull", "postFull", "room">>,
         <<"askHigh", "sendHigh", "postHigh", "idle">>}

\* Mutant: the message first, then the flag ("setting the flag here is a bug").
RequestReadFlagLast(c, p) ==
  \E s \in Asks :
    \/ At(c, p, s[1]) /\ WriteReadBuf(c) /\ GoTo(c, p, s[2])
    \/ At(c, p, s[2]) /\ PostReadBuf /\ GoTo(c, p, s[3])
    \/ At(c, p, s[3]) /\ SetFlag(c) /\ GoTo(c, p, s[4])

RequestRead(c, p) ==
  \E s \in Asks :
    \/ At(c, p, s[1]) /\ SetFlag(c) /\ GoTo(c, p, s[2])
    \/ At(c, p, s[2]) /\ WriteReadBuf(c) /\ GoTo(c, p, s[3])
    \/ At(c, p, s[3]) /\ PostReadBuf /\ GoTo(c, p, s[4])

Request(c, p) ==
  /\ RequestRead(c, p)
  /\ UNCHANGED <<cmds, statuses, pauses, isWriting, used, giveUps, writer, manager, world>>

SeeRoom(c, p) ==
  /\ At(c, p, "room") /\ used[c] < Cap
  /\ giveUps' = [giveUps EXCEPT ![c] = 0]
  /\ GoTo(c, p, "store")
  /\ UNCHANGED <<queues, statuses, pauses, flag, isWriting, used, writer, manager, world>>

\* Mutant: the full ring is never reset.
NeverReset(c) == FALSE

ResetIsDue(c) == giveUps[c] > Patience

GiveUp(c, p) ==
  /\ At(c, p, "room") /\ used[c] = Cap
  /\ GoTo(c, p, "idle")
  /\ IF ResetIsDue(c)
     THEN giveUps' = [giveUps EXCEPT ![c] = 0] /\ used' = [used EXCEPT ![c] = 0]
     ELSE giveUps' = [giveUps EXCEPT ![c] = @ + 1] /\ UNCHANGED used
  /\ UNCHANGED <<queues, statuses, pauses, flag, isWriting, writer, manager, world>>

Store(c, p) ==
  /\ At(c, p, "store")
  /\ IF used[c] < Cap
     THEN used' = [used EXCEPT ![c] = @ + 1] /\ GoTo(c, p, "stored")
     ELSE UNCHANGED used /\ GoTo(c, p, "idle")
  /\ UNCHANGED <<queues, statuses, pauses, flag, isWriting, giveUps, writer, manager, world>>

CheckRate(c, p) ==
  /\ At(c, p, "stored")
  /\ GoTo(c, p, IF ~flag[c] /\ used[c] > HighMark THEN "askHigh" ELSE "idle")
  /\ UNCHANGED <<queues, statuses, pauses, ring, writer, manager, world>>

\* What the thread does once it has accepted a frame.
Carry(c, p) == \/ PreRecord(c, p) \/ Direct(c, p) \/ Request(c, p)
               \/ SeeRoom(c, p) \/ GiveUp(c, p) \/ Store(c, p) \/ CheckRate(c, p)

---------------------------------------------------------------------------
(* The status manager: RecordStatusManagerFxn, RecordUpdateRecStatus.       *)

AtChn(c, where) == spc = where /\ sc = c

\* The manager sends its messages one by one, each by a write and a sem_post; an
\* action that hands messages over is followed by these before any other action of
\* the manager.
Free     == out = <<>> /\ ~posting
Hand(ms) == out' = ms

Put ==
  /\ out # <<>> /\ ~posting
  /\ WriteMsg(Head(out)) /\ out' = Tail(out) /\ posting' = TRUE
  /\ UNCHANGED <<cmds, sem, statuses, pauses, ring, writer, spc, sc, lastWorking, formatted,
                 world, ppc>>

Post ==
  /\ posting /\ posting' = FALSE
  /\ SemPost
  /\ UNCHANGED <<cmds, msgs, statuses, pauses, ring, writer, spc, sc, lastWorking, formatted,
                 out, world, ppc>>

NotWorking ==
  /\ Free /\ spc = "cmd" /\ ~working /\ lastWorking
  /\ lastWorking' = FALSE
  /\ Hand([c \in Chan |-> <<"flush", c>>])
  /\ UNCHANGED <<queues, statuses, pauses, ring, writer, spc, sc, formatted, posting, world, ppc>>

\* One command, if there is one; then the loop over the channels begins.
Obey(m) ==
  LET c == m[2]  k == m[1]
  IN  /\ status' = CASE k = "manualOn"  -> [status EXCEPT ![c] = @ \cup {"manual"}]
                     [] k = "manualOff" -> [status EXCEPT ![c] = @ \ {"manual"}]
                     [] k = "alarmOn"   -> [status EXCEPT ![c] = @ \cup {"alarm"}]
                     [] k = "alarmOff"  -> [status EXCEPT ![c] = @ \ {"alarm"}]
                     [] OTHER           -> status
      /\ preTime' = IF k \in {"preOn", "preOff"} THEN [preTime EXCEPT ![c] = k = "preOn"]
                                                 ELSE preTime
      /\ flagPause' = IF k \in {"pause", "resume"} THEN [flagPause EXCEPT ![c] = k = "pause"]
                                                   ELSE flagPause

Command ==
  /\ Free /\ spc = "cmd" /\ working
  /\ lastWorking' = TRUE
  /\ IF cmds = <<>> THEN UNCHANGED <<cmds, status, preTime, flagPause>>
                    ELSE Obey(Head(cmds)) /\ cmds' = Tail(cmds)
  /\ \/ UNCHANGED <<formatted, left>>                     \* RecordGetDiskFormated
     \/ "format" \in Events /\ left > 0 /\ formatted' = ~formatted /\ left' = left - 1
  /\ spc' = "chn" /\ sc' = 1
  /\ UNCHANGED <<msgs, sem, past, delay, isPre, preStart, chnPaused, sentPause, ring,
                 writer, full, hotplug, working, out, posting, ppc>>

MustPause(c)  == (flagPause[c] \/ ~formatted) /\ ~sentPause[c]
MustResume(c) == ~flagPause[c] /\ formatted /\ sentPause[c]

SendPause(c) ==
  /\ Free /\ AtChn(c, "chn") /\ MustPause(c)
  /\ Hand(IF status[c] \cup delay[c] # {} THEN <<<<"forceEnd", c>>>> ELSE <<>>)
  /\ spc' = "pauseSet"
  /\ UNCHANGED <<queues, statuses, pauses, ring, writer, sc, lastWorking, formatted, posting,
                 world, ppc>>

\* Mutant: RESUME_REC only to a channel whose file is open.
ResumeMsgIfFileOpen(c) == IF fileOpen[c] THEN <<<<"resume", c>>>> ELSE <<>>
ResumeMsg(c) == <<<<"resume", c>>>>

SendResume(c) ==
  /\ Free /\ AtChn(c, "chn") /\ MustResume(c)
  /\ Hand(ResumeMsg(c))
  /\ spc' = "resumeSet"
  /\ UNCHANGED <<queues, statuses, pauses, ring, writer, sc, lastWorking, formatted, posting,
                 world, ppc>>

SetPaused(c) ==
  /\ Free
  /\ \/ AtChn(c, "pauseSet")  /\ chnPaused' = [chnPaused EXCEPT ![c] = TRUE]
                              /\ sentPause' = [sentPause EXCEPT ![c] = TRUE]
     \/ AtChn(c, "resumeSet") /\ chnPaused' = [chnPaused EXCEPT ![c] = FALSE]
                              /\ sentPause' = [sentPause EXCEPT ![c] = FALSE]
  /\ spc' = "update"
  /\ UNCHANGED <<queues, statuses, flagPause, ring, writer, sc, lastWorking, formatted,
                 out, posting, world, ppc>>

\* RecordUpdateRecStatus, by cases on (past, status, delay).
Starts(c) ==
  /\ past[c] = {} /\ status[c] # {}
  /\ IF delay[c] = {}
     THEN /\ isPre' = [isPre EXCEPT ![c] = FALSE]
          /\ preStart' = [preStart EXCEPT ![c] = FALSE]
          /\ UNCHANGED delay
     ELSE delay' = [delay EXCEPT ![c] = {}] /\ UNCHANGED <<isPre, preStart>>
  /\ Hand(<<<<"run", c>>, <<"update", c>>>>)

Ends(c) ==
  /\ past[c] # {} /\ status[c] = {}
  /\ IF "alarm" \in past[c] /\ DelayOn
     THEN delay' = [delay EXCEPT ![c] = past[c]] /\ Hand(<<<<"run", c>>>>)   \* EM_REC_RUN_DELAY
     ELSE UNCHANGED delay /\ Hand(<<<<"runIdle", c>>>>)
  /\ UNCHANGED <<isPre, preStart>>

Changes(c) ==
  /\ past[c] # {} /\ status[c] # {} /\ past[c] # status[c]
  /\ Hand(<<<<"update", c>>>>)
  /\ UNCHANGED <<delay, isPre, preStart>>

Rests(c) ==      \* idle: pre-recording is switched on or off
  /\ past[c] = {} /\ status[c] = {} /\ delay[c] = {}
  /\ CASE ~preStart[c] /\ preTime[c] /\ ~isWriting[c] /\ used[c] = 0 ->
            /\ preStart' = [preStart EXCEPT ![c] = TRUE]
            /\ isPre' = [isPre EXCEPT ![c] = TRUE]
            /\ UNCHANGED out
       [] preStart[c] /\ ~preTime[c] ->
            /\ preStart' = [preStart EXCEPT ![c] = FALSE]
            /\ isPre' = [isPre EXCEPT ![c] = FALSE]
            /\ Hand(<<<<"preIdle", c>>>>)
       [] OTHER -> UNCHANGED <<preStart, isPre, out>>
  /\ UNCHANGED delay

\* Mutant: the delay ends without a word to the writer.
DelayOverUntold(c) == UNCHANGED out

\* Unlike the other cases this one changes the status behind the message.
DelayOver(c) == Hand(<<<<"delayIdle", c>>>>)

DelayRuns(c) ==     \* the delay after an alarm is not over yet
  /\ past[c] = {} /\ status[c] = {} /\ delay[c] # {}
  /\ UNCHANGED <<delay, isPre, preStart, out>>

Goes(c) ==
  /\ past[c] # {} /\ past[c] = status[c]
  /\ UNCHANGED <<delay, isPre, preStart, out>>

AtUpdate(c) == AtChn(c, "update") \/ (AtChn(c, "chn") /\ ~MustPause(c) /\ ~MustResume(c))

NextChn(c) == IF c = NumChan THEN spc' = "cmd" /\ sc' = 1 ELSE spc' = "chn" /\ sc' = c + 1

UpdateRecStatus(c) ==
  /\ Free /\ AtUpdate(c)
  /\ Starts(c) \/ Ends(c) \/ Changes(c) \/ Rests(c) \/ DelayRuns(c) \/ Goes(c)
  /\ past' = [past EXCEPT ![c] = status[c]]
  /\ NextChn(c)
  /\ UNCHANGED <<queues, status, preTime, pauses, ring, writer, lastWorking, formatted,
                 posting, world, ppc>>

DelayEnds(c) ==
  /\ Free /\ AtUpdate(c)
  /\ past[c] = {} /\ status[c] = {} /\ delay[c] # {}
  /\ DelayOver(c)
  /\ spc' = "over"
  /\ UNCHANGED <<queues, statuses, pauses, ring, writer, sc, lastWorking, formatted, posting,
                 world, ppc>>

ClearDelay(c) ==
  /\ Free /\ AtChn(c, "over")
  /\ delay' = [delay EXCEPT ![c] = {}]
  /\ past' = [past EXCEPT ![c] = status[c]]
  /\ NextChn(c)
  /\ UNCHANGED <<queues, status, isPre, preStart, preTime, pauses, ring, writer, lastWorking,
                 formatted, out, posting, world, ppc>>

Manager == \/ Put \/ Post \/ NotWorking \/ Command
           \/ \E c \in Chan : \/ SendPause(c) \/ SendResume(c) \/ SetPaused(c)
                             \/ UpdateRecStatus(c) \/ DelayEnds(c) \/ ClearDelay(c)

---------------------------------------------------------------------------
(* The writer: RecordMainFxn.                                               *)

Ender == {"forceEnd", "flush", "runIdle", "delayIdle"}

\* Mutant: a forced channel's messages are handled like any other's.
HeedsEverything(m) == TRUE
Heeds(m) == ~forced[m[2]] \/ m[1] = "resume"

\* While it is stopped by a full disk the writer polls, and the semaphore runs
\* ahead of the queue (by 1 here, MaxAhead: a bound; more only polls more).
MaxAhead == 1
Wake == IF stopped
        THEN sem' = IF msgs # <<>> /\ sem - Len(msgs) >= MaxAhead THEN sem - 1 ELSE sem
        ELSE sem > 0 /\ sem' = sem - 1

TakeNothing ==
  /\ wpc = "wait" /\ Wake /\ msgs = <<>>
  /\ wpc' = "disk"
  /\ UNCHANGED <<cmds, msgs, statuses, pauses, ring, forced, fileOpen, stopped, wmsg,
                 manager, world, ppc>>

Take ==
  /\ wpc = "wait" /\ Wake /\ msgs # <<>>
  /\ LET m == Head(msgs)  c == m[2]
     IN /\ msgs' = Tail(msgs)
        /\ wmsg' = m
        /\ IF Heeds(m)
           THEN /\ forced' = CASE m[1] = "resume"   -> [forced EXCEPT ![c] = FALSE]
                               [] m[1] = "forceEnd" -> [forced EXCEPT ![c] = TRUE]
                               [] OTHER             -> forced
                /\ isWriting' = IF m[1] \in Ender THEN [isWriting EXCEPT ![c] = TRUE]
                                                  ELSE isWriting
                /\ used' = IF m[1] = "preIdle" THEN [used EXCEPT ![c] = 0] ELSE used
                /\ wpc' = IF m[1] \in Ender \cup {"readBuf"} THEN "drain" ELSE "disk"
           ELSE wpc' = "disk" /\ UNCHANGED <<forced, isWriting, used>>
  /\ UNCHANGED <<cmds, statuses, pauses, flag, giveUps, fileOpen, stopped, manager, world, ppc>>

Drained(c) == IF wmsg[1] = "readBuf" THEN used[c] <= LowMark ELSE used[c] = 0

DrainEnds ==
  /\ wpc = "drain" /\ (hotplug \/ Drained(wmsg[2]))
  /\ used' = IF hotplug THEN [used EXCEPT ![wmsg[2]] = 0] ELSE used
  /\ wpc' = "finish"
  /\ UNCHANGED <<queues, statuses, pauses, flag, isWriting, giveUps, forced, fileOpen,
                 stopped, wmsg, manager, world, ppc>>

\* One frame is read and handled: skipped, or written into the open or a new
\* file (after the size limit closed the old one); opening or writing may fail.
DrainFrame ==
  /\ wpc = "drain" /\ ~hotplug /\ ~Drained(wmsg[2])
  /\ used' = [used EXCEPT ![wmsg[2]] = @ - 1]
  /\ \E open \in BOOLEAN : fileOpen' = [fileOpen EXCEPT ![wmsg[2]] = open]
  /\ wpc' \in {"drain", "discard"}
  /\ UNCHANGED <<queues, statuses, pauses, flag, isWriting, giveUps, forced, stopped, wmsg,
                 manager, world, ppc>>

ResetRing(from, to) ==
  /\ wpc = from /\ wpc' = to
  /\ used' = [used EXCEPT ![wmsg[2]] = 0]
  /\ UNCHANGED <<queues, statuses, pauses, flag, isWriting, giveUps, forced, fileOpen,
                 stopped, wmsg, manager, world, ppc>>

Finish ==
  /\ wpc = "finish"
  /\ IF wmsg[1] = "readBuf"
     THEN /\ flag' = [flag EXCEPT ![wmsg[2]] = FALSE]
          /\ wpc' = "clear" /\ UNCHANGED fileOpen
     ELSE /\ fileOpen' = [fileOpen EXCEPT ![wmsg[2]] = FALSE]
          /\ wpc' = "reset" /\ UNCHANGED flag
  /\ UNCHANGED <<queues, statuses, pauses, isWriting, used, giveUps, forced, stopped, wmsg,
                 manager, world, ppc>>

ClearWriting ==
  /\ wpc = "clear" /\ wpc' = "disk"
  /\ isWriting' = [isWriting EXCEPT ![wmsg[2]] = FALSE]
  /\ UNCHANGED <<queues, statuses, pauses, flag, used, giveUps, forced, fileOpen, stopped,
                 wmsg, manager, world, ppc>>

\* RecordGetDiskFull and what follows it, at the end of every round.
\* Mutants: a full disk stops the channels once and for all; space again only
\* clears the writer's own flag.
StopsOnce   == IF stopped THEN {} ELSE Chan
ResumesNone == {}

WhenFull  == IF stopped THEN {c \in Chan : ~chnPaused[c]} ELSE Chan
WhenSpace == IF stopped THEN Chan ELSE {}

CheckDisk ==
  /\ wpc = "disk" /\ wpc' = "wait"
  /\ IF full THEN PauseEach(WhenFull) ELSE CommandEach("resume", WhenSpace)
  /\ stopped' = full
  /\ UNCHANGED <<msgs, sem, statuses, pauses, ring, forced, fileOpen, wmsg, manager, world, ppc>>

Writer == \/ Take \/ TakeNothing \/ DrainEnds \/ DrainFrame
          \/ ResetRing("discard", "finish") \/ Finish \/ ResetRing("reset", "clear")
          \/ ClearWriting \/ CheckDisk

---------------------------------------------------------------------------
(* The environment: commands of the business layer, and the world.          *)

BizCommand(k, c) ==
  /\ k \in Events \cap {"manualOn", "manualOff", "alarmOn", "alarmOff", "preOn", "preOff",
                        "pause", "resume"}
  /\ left > 0 /\ Len(cmds) < MaxCmds
  /\ cmds' = Append(cmds, <<k, c>>) /\ left' = left - 1
  /\ UNCHANGED <<msgs, sem, statuses, pauses, ring, writer, manager, full, hotplug, working, ppc>>

WorldChanges ==
  /\ left > 0 /\ left' = left - 1
  /\ \/ "full" \in Events /\ full' = ~full /\ UNCHANGED <<hotplug, working>>
     \/ "hotplug" \in Events /\ hotplug' = ~hotplug /\ UNCHANGED <<full, working>>
     \/ "working" \in Events /\ working' = ~working /\ UNCHANGED <<full, hotplug>>
  /\ UNCHANGED <<queues, statuses, pauses, ring, writer, manager, ppc>>

Next ==
  \/ \E c \in Chan, p \in Producer : Offer(c, p) \/ OfferHotPlug(c, p) \/ Carry(c, p)
  \/ Manager
  \/ Writer
  \/ \E c \in Chan, k \in EventKinds : BizCommand(k, c)
  \/ WorldChanges

\* The two service threads run for ever, and a thread that has accepted a
\* frame returns; nothing makes frames or commands come.  The strong fairness
\* says that the writer, which copies frames into a file cache, is not outrun
\* for ever by a source of 25 or 30 frames a second.
Fairness == /\ WF_vars(Manager) /\ WF_vars(Writer) /\ SF_vars(DrainEnds)
            /\ \A c \in Chan, p \in Producer : WF_vars(Carry(c, p))

Spec == Init /\ [][Next]_vars /\ Fairness
---------------------------------------------------------------------------
MsgKind == {"run", "update", "preIdle", "readBuf", "resume"} \cup Ender
Msgs    == MsgKind \X Chan
Cmds    == EventKinds \X Chan

TypeOK ==
  /\ cmds \in Seq(Cmds) /\ msgs \in Seq(Msgs) /\ sem \in Nat
  /\ status \in [Chan -> SUBSET Cause] /\ past \in [Chan -> SUBSET Cause]
  /\ delay \in [Chan -> SUBSET Cause]
  /\ isPre \in [Chan -> BOOLEAN] /\ preStart \in [Chan -> BOOLEAN]
  /\ preTime \in [Chan -> BOOLEAN]
  /\ chnPaused \in [Chan -> BOOLEAN] /\ flagPause \in [Chan -> BOOLEAN]
  /\ sentPause \in [Chan -> BOOLEAN]
  /\ flag \in [Chan -> BOOLEAN] /\ isWriting \in [Chan -> BOOLEAN]
  /\ used \in [Chan -> 0..Cap] /\ giveUps \in [Chan -> 0..Patience + 1]
  /\ forced \in [Chan -> BOOLEAN] /\ fileOpen \in [Chan -> BOOLEAN]
  /\ stopped \in BOOLEAN
  /\ ppc \in [Chan -> [Producer -> {"idle", "mode", "askFull", "sendFull", "room", "store",
                                    "stored", "askHigh", "sendHigh", "postFull", "postHigh"}]]
  /\ spc \in {"cmd", "chn", "pauseSet", "resumeSet", "update", "over"} /\ sc \in Chan
  /\ out \in Seq(Msgs) /\ posting \in BOOLEAN
  /\ wpc \in {"wait", "drain", "discard", "finish", "reset", "clear", "disk"}
  /\ wmsg \in (MsgKind \cup {"none"}) \X Chan
  /\ full \in BOOLEAN /\ hotplug \in BOOLEAN /\ working \in BOOLEAN
  /\ lastWorking \in BOOLEAN /\ formatted \in BOOLEAN /\ left \in 0..MaxEvents

\* The last thing the writer has been told about pausing c, whether it has
\* come to it or not.
ToldToPause(c) ==
  \/ LastWordIs(msgs, <<"forceEnd", c>>, <<"resume", c>>)
  \/ forced[c] /\ \A i \in 1..Len(msgs) : msgs[i] # <<"resume", c>>

\* A channel whose writer is, or is about to be, forced to drop its messages
\* is one the manager knows it has paused: only then will it ever send the
\* RESUME_REC that ends this (flag_force_writefile against flag_sendmsg_pause).
PauseAgreement ==
  \A c \in Chan : ToldToPause(c) /\ ~AtChn(c, "pauseSet") => sentPause[c]

\* While FORCE_END holds for a channel its file stays closed, whatever is still
\* in the queue for it.
ForcedMeansClosed ==
  \A c \in Chan : forced[c] /\ ~(wmsg[2] = c /\ wpc \in {"drain", "discard", "finish"})
                   => ~fileOpen[c]

\* The threads between the write of a message and its sem_post.
Posters == {cp \in Chan \X Producer : ppc[cp[1]][cp[2]] \in {"postFull", "postHigh"}}
Owed    == Cardinality(Posters) + (IF posting THEN 1 ELSE 0)

\* The semaphore covers the queue, but for the messages whose writers have still to
\* post them: the writer sleeps on no message for longer than its sender takes
\* from the write to the sem_post.
MessagesAreSignalled == sem + Owed >= Len(msgs)

Serving(c) == wmsg = <<"readBuf", c>> /\ wpc \in {"drain", "discard", "finish"}

\* g_SendMsgReadBuf set means a READ_BUF is coming: about to be sent, queued, or
\* being served.  Otherwise nobody would clear it and nobody would ask again.
FlagHasMessage ==
  \A c \in Chan : flag[c] =>
    \/ \E p \in Producer : ppc[c][p] \in {"sendFull", "sendHigh"}
    \/ \E i \in 1..Len(msgs) : msgs[i] = <<"readBuf", c>>
    \/ Serving(c)

\* Above the high mark saving is started: once the writer has been asked to read
\* the ring of a channel that is not being paused, it comes to read it, unless the
\* channel is paused first ("> 50%, start saving", RecordWriteFrameToBuf).
SavingStarts ==
  \A c \in Chan : (flag[c] /\ ~ToldToPause(c) /\ ~flagPause[c]) ~> (Serving(c) \/ flagPause[c])

Active(c) == past[c] \cup delay[c] # {}

\* The manager hands over the words on every recording that begins and on every one
\* that ends, over all the ways through status, delay and restart; where the delay
\* ends, it does so before the status changes (RecordUpdateRecStatus).
TransitionsAreTold ==
  [][\A c \in Chan :
       /\ ~Active(c) /\ Active(c)' => out' = <<<<"run", c>>, <<"update", c>>>>
       /\ Active(c) /\ ~Active(c)' => out' = <<<<"runIdle", c>>>> \/ AtChn(c, "over")
       /\ ~AtChn(c, "over") /\ AtChn(c, "over")' => out' = <<<<"delayIdle", c>>>>]_vars

\* While the writer acts on a full disk, every channel is paused as long as the disk
\* is full, also one that is resumed meanwhile, and runs again when there is space
\* (the end of a round of RecordMainFxn).
DiskIsFollowed == \A c \in Chan : (stopped /\ chnPaused[c] # full) ~> (chnPaused[c] = full)
=============================================================================
