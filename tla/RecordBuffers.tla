--------------------------- MODULE RecordBuffers ---------------------------
(***************************************************************************)
(* The buffers of the recorder around an upgrade: sysComplexStopRecCB       *)
(* (biz_syscomplex.c) stops every channel and gives the rings back to the   *)
(* system (ModRecordBufRelease), sysCompleResumeRecCB takes them again when *)
(* the upgrade has failed (ModRecordBufResume) and resumes every channel.   *)
(* Nothing keeps others from pausing and resuming channels meanwhile: the   *)
(* business layer when a setting changes or a disk is plugged in or out, the*)
(* writer when the disk is full or has space again, the manager itself when *)
(* a disk is formatted.  The manager obeys the commands of its queue and    *)
(* sets g_ChnPaused.                                                        *)
(*                                                                          *)
(* Abstractions: a ring exists or does not; the ten polls of a channel that *)
(* is not paused yet are the choice of how long the loop has waited; malloc *)
(* succeeds.  What the others send are the sequences of commands the code   *)
(* sends, one command at a time.                                            *)
(* Bounds: MaxUpgrades upgrades that fail, MaxEvents events that make       *)
(* somebody else pause or resume.                                           *)
(***************************************************************************)
EXTENDS Integers, Sequences

CONSTANTS NumChan, MaxUpgrades, MaxEvents

ASSUME BuffersAssumption ==
  NumChan \in Nat \ {0} /\ MaxUpgrades \in Nat /\ MaxEvents \in Nat

Chan == 1..NumChan

\* Those who send commands beside the upgrading thread: threads of the business layer
\* and the writer.
Sender == {"settings", "hotplug", "writer"}

VARIABLES
  ring,        \* g_RecBufInfo[c].nBufAddr != NULL
  snapRing,    \* g_RecSnapBufInfo.nBufAddr != NULL
  released,    \* g_RecordChnReleased
  chnPaused,   \* g_ChnPaused
  flagPause,   \* flag_pause, of the manager
  formatted,   \* g_RecordHDDFormated
  cmds,        \* g_MsgQueueInfo[0]: the pause, stop and resume commands
  sc,          \* the manager: 0 before the next command, else the channel it looks at
  upc,         \* the upgrading thread: <<where, channel>>
  todo,        \* what each sender has still to send
  stopped,     \* nStopRecordByDiskFull, of the writer
  upgrades, events,
  others       \* no variable of the code, for a property: the channels that somebody
               \* but the upgrading thread has resumed or has begun to resume

memory  == <<ring, snapRing, released>>
manager == <<chnPaused, flagPause, formatted, sc>>
senders == <<todo, stopped, events, others>>
vars    == <<memory, manager, senders, cmds, upc, upgrades>>

Init ==
  /\ ring = [c \in Chan |-> TRUE] /\ snapRing = TRUE
  /\ released = [c \in Chan |-> FALSE]
  /\ chnPaused = [c \in Chan |-> FALSE] /\ flagPause = [c \in Chan |-> FALSE]
  /\ formatted = TRUE
  /\ cmds = <<>> /\ sc = 0 /\ upc = <<"idle", 1>>
  /\ todo = [t \in Sender |-> <<>>] /\ stopped = FALSE
  /\ upgrades = MaxUpgrades /\ events = MaxEvents /\ others = {}

---------------------------------------------------------------------------
(* The upgrading thread.                                                    *)

At(where) == upc[1] = where
c0 == upc[2]

\* The next channel of a loop, or what comes after the loop.
Onward(where, after) == upc' = IF c0 < NumChan THEN <<where, c0 + 1>> ELSE <<after, 1>>

StartUpgrade ==
  /\ At("idle") /\ upgrades > 0
  /\ upgrades' = upgrades - 1 /\ upc' = <<"stop", 1>>
  /\ UNCHANGED <<memory, manager, senders, cmds>>

StopChn ==
  /\ At("stop")
  /\ cmds' = Append(cmds, <<"stop", c0>>)
  /\ Onward("stop", "snap")
  /\ UNCHANGED <<memory, manager, senders, upgrades>>

\* ModRecordBufRelease: the ring of the snapshots comes first, and if there is none
\* the function returns.
ReleaseSnap ==
  /\ At("snap")
  /\ snapRing' = FALSE
  /\ upc' = IF snapRing THEN <<"wait", 1>> ELSE <<"upgrade", 1>>
  /\ UNCHANGED <<ring, released, manager, senders, cmds, upgrades>>

\* Mutant: a channel is released without waiting for its pause.
NoWait(c) == TRUE

MayRelease(c) == chnPaused[c]

WaitForPause ==
  /\ At("wait")
  /\ IF MayRelease(c0) THEN upc' = <<"destroy", c0>> ELSE Onward("wait", "upgrade")
  /\ UNCHANGED <<memory, manager, senders, cmds, upgrades>>

\* Mutant: a released channel is not noted.
NoteNothing(c) == UNCHANGED released

NoteReleased(c) == released' = [released EXCEPT ![c] = TRUE]

DestroyChn ==
  /\ At("destroy")
  /\ IF ring[c0]
     THEN ring' = [ring EXCEPT ![c0] = FALSE] /\ NoteReleased(c0) /\ Onward("wait", "upgrade")
     ELSE UNCHANGED <<ring, released>> /\ upc' = <<"upgrade", 1>>
  /\ UNCHANGED <<snapRing, manager, senders, cmds, upgrades>>

UpgradeFails ==
  /\ At("upgrade") /\ upc' = <<"create", 1>>
  /\ UNCHANGED <<memory, manager, senders, cmds, upgrades>>

\* ModRecordBufResume.
CreateChn ==
  /\ At("create")
  /\ ring' = [ring EXCEPT ![c0] = @ \/ released[c0]]
  /\ released' = [released EXCEPT ![c0] = FALSE]
  /\ Onward("create", "resume")
  /\ UNCHANGED <<snapRing, manager, senders, cmds, upgrades>>

ResumeChn ==
  /\ At("resume")
  /\ cmds' = Append(cmds, <<"resume", c0>>)
  /\ Onward("resume", "idle")
  /\ UNCHANGED <<memory, manager, senders, upgrades>>

Upgrader == \/ StartUpgrade \/ StopChn \/ ReleaseSnap \/ WaitForPause \/ DestroyChn
            \/ UpgradeFails \/ CreateChn \/ ResumeChn

---------------------------------------------------------------------------
(* The others.  Whoever begins to send is given the commands of one call.   *)

Each(k) == [c \in Chan |-> <<k, c>>]

Begin(t, q) ==
  /\ todo[t] = <<>> /\ events > 0
  /\ events' = events - 1 /\ todo' = [todo EXCEPT ![t] = q]
  /\ UNCHANGED <<memory, manager, cmds, upc, upgrades>>

\* ConfigSetRecPara: recording is switched off or on, or the stream changed.
SwitchOff(c)    == Begin("settings", <<<<"pause", c>>>>) /\ UNCHANGED <<stopped, others>>
SwitchOn(c)     == Begin("settings", <<<<"resume", c>>>>)
                   /\ others' = others \cup {c} /\ UNCHANGED stopped
ChangeStream(c) == Begin("settings", <<<<"pause", c>>, <<"resume", c>>>>)
                   /\ others' = others \cup {c} /\ UNCHANGED stopped

\* BizReloadHdd: every channel is paused, and resumed if there is a disk in the end.
LastDiskOut == Begin("hotplug", Each("pause")) /\ UNCHANGED <<stopped, others>>
ReloadHdd   == Begin("hotplug", Each("pause") \o Each("resume"))
               /\ others' = Chan /\ UNCHANGED stopped

\* The end of the writer's round: the disk is found full, it is still full and a
\* channel is not paused, it has space again.
DiskFull      == ~stopped /\ Begin("writer", Each("stop")) /\ stopped' = TRUE
                 /\ UNCHANGED others
StillFull(c)  == stopped /\ ~chnPaused[c] /\ Begin("writer", <<<<"pause", c>>>>)
                 /\ UNCHANGED <<stopped, others>>
SpaceAgain    == stopped /\ Begin("writer", Each("resume")) /\ stopped' = FALSE
                 /\ others' = Chan

Send(t) ==
  /\ todo[t] # <<>>
  /\ cmds' = Append(cmds, Head(todo[t])) /\ todo' = [todo EXCEPT ![t] = Tail(@)]
  /\ UNCHANGED <<memory, manager, stopped, events, others, upc, upgrades>>

Others == \/ \E c \in Chan : SwitchOff(c) \/ SwitchOn(c) \/ ChangeStream(c) \/ StillFull(c)
          \/ LastDiskOut \/ ReloadHdd \/ DiskFull \/ SpaceAgain
          \/ \E t \in Sender : Send(t)

---------------------------------------------------------------------------
(* The status manager: a command if there is one and a look at the disks,   *)
(* then every channel.                                                      *)

TakeCommand ==
  /\ sc = 0 /\ sc' = 1
  /\ IF cmds = <<>>
     THEN UNCHANGED <<cmds, flagPause>>
     ELSE /\ flagPause' = [flagPause EXCEPT ![cmds[1][2]] = cmds[1][1] # "resume"]
          /\ cmds' = Tail(cmds)
  /\ \/ UNCHANGED <<formatted, events, others>>
     \/ events > 0 /\ events' = events - 1 /\ formatted' = ~formatted /\ others' = Chan
  /\ UNCHANGED <<memory, chnPaused, todo, stopped, upc, upgrades>>

NextChn == IF sc < NumChan THEN sc + 1 ELSE 0

SetChnPaused ==
  /\ sc > 0 /\ sc' = NextChn
  /\ chnPaused' = [chnPaused EXCEPT ![sc] = flagPause[sc] \/ ~formatted]
  /\ UNCHANGED <<memory, flagPause, formatted, senders, cmds, upc, upgrades>>

Next == Upgrader \/ Others \/ TakeCommand \/ SetChnPaused

Spec == Init /\ [][Next]_vars

---------------------------------------------------------------------------
Command == {"pause", "stop", "resume"} \X Chan

TypeOK ==
  /\ ring \in [Chan -> BOOLEAN] /\ snapRing \in BOOLEAN /\ released \in [Chan -> BOOLEAN]
  /\ chnPaused \in [Chan -> BOOLEAN] /\ flagPause \in [Chan -> BOOLEAN]
  /\ formatted \in BOOLEAN
  /\ cmds \in Seq(Command) /\ todo \in [Sender -> Seq(Command)] /\ stopped \in BOOLEAN
  /\ sc \in 0..NumChan
  /\ upc \in {"idle", "stop", "snap", "wait", "destroy", "upgrade", "create", "resume"} \X Chan
  /\ upgrades \in 0..MaxUpgrades /\ events \in 0..MaxEvents /\ others \subseteq Chan

\* After a failed upgrade every channel has its ring again, whichever channels
\* ModRecordBufRelease has skipped because they were not paused in time, whoever else
\* pauses and resumes channels meanwhile, and however often the upgrade is tried.
VideoRingsReturn == At("idle") => \A c \in Chan : ring[c]

\* A channel that may record has a ring to record into, unless somebody other than
\* the upgrading thread has resumed it: the ring goes after the channel is seen paused,
\* by whomever, and is back before its resume is posted, although commands reach the
\* manager at any time.
RecordingHasRing == \A c \in Chan \ others : chnPaused[c] \/ ring[c]
=============================================================================
