------------------------ MODULE RecordBuffersProofs ------------------------
(***************************************************************************)
(* For any number of channels, upgrades and events that make others pause   *)
(* and resume: the rings come back after a failed upgrade (VideoRingsReturn),*)
(* and a channel that may record has one, unless somebody other than the    *)
(* upgrading thread has resumed it (RecordingHasRing).                      *)
(*                                                                          *)
(* The first rests on the notes: a ring that is not there is noted as       *)
(* released (Noted).  The second rests on when a resume of the channel may be*)
(* in the queue at all: not while rings may yet be freed, or are missing    *)
(* (Early), since ModRecordBufRelease frees them only while it finds the    *)
(* snapshots' ring, which never comes back.                                 *)
(***************************************************************************)
EXTENDS RecordBuffers, TLAPS

Noted ==
  /\ \A c \in Chan : ring[c] \/ released[c]
  /\ At("create") => \A c \in Chan : c < c0 => ring[c]
  /\ upc[1] \in {"idle", "stop", "snap", "resume"} => \A c \in Chan : ring[c]

\* Rings may yet be freed, or some are.
Early == snapRing \/ upc[1] \in {"wait", "destroy"} \/ \E c \in Chan : ~ring[c]

NoResume(c) == \A i \in 1..Len(cmds) : cmds[i] # <<"resume", c>>

\* A channel that nobody but the upgrading thread resumes.
Safe(c) ==
  /\ Early => NoResume(c) /\ (chnPaused[c] => flagPause[c])
  /\ upc = <<"destroy", c>> => chnPaused[c]
  /\ chnPaused[c] \/ ring[c]

\* Who else resumes.
Known ==
  /\ others # Chan => formatted
  /\ \A t \in Sender : \A i \in 1..Len(todo[t]) :
        todo[t][i][1] = "resume" => todo[t][i][2] \in others

IInv ==
  /\ TypeOK
  /\ Noted
  /\ upc[1] \in {"wait", "destroy", "upgrade", "create", "resume"} => ~snapRing
  /\ Known
  /\ \A c \in Chan \ others : Safe(c)

LEMMA ConstantFacts == /\ NumChan \in Nat /\ NumChan >= 1 /\ 1 \in Chan
                       /\ MaxUpgrades \in Nat /\ MaxEvents \in Nat
BY BuffersAssumption DEF Chan

LEMMA InitIInv == Init => IInv
<1> SUFFICES ASSUME Init PROVE IInv
  OBVIOUS
<1>1. TypeOK
  <2>1. /\ <<>> \in Seq(Command) /\ {} \subseteq Chan
        /\ <<"idle", 1>> \in {"idle", "stop", "snap", "wait", "destroy", "upgrade", "create",
                              "resume"} \X Chan
    BY ConstantFacts
  <2>2. 0 \in 0..NumChan /\ MaxUpgrades \in 0..MaxUpgrades /\ MaxEvents \in 0..MaxEvents
    BY ConstantFacts
  <2> QED BY <2>1, <2>2 DEF Init, TypeOK
<1>2. Known
  BY DEF Init, Known
<1> QED BY <1>1, <1>2 DEF Init, IInv, Noted, Safe, NoResume, At

(* What a command does to the queue it comes into or leaves. *)
LEMMA Queued ==
  ASSUME cmds \in Seq(Command), NEW x \in Command, cmds' = Append(cmds, x)
  PROVE  /\ cmds' \in Seq(Command)
         /\ \A c \in Chan : NoResume(c) /\ x # <<"resume", c>> => NoResume(c)'
<1>1. cmds' \in Seq(Command)
  OBVIOUS
<1>2. ASSUME NEW i \in 1..Len(cmds') PROVE cmds'[i] = x \/ (i \in 1..Len(cmds) /\ cmds'[i] = cmds[i])
  BY <1>2
<1> QED BY <1>1, <1>2 DEF NoResume

LEMMA Dequeued ==
  ASSUME cmds \in Seq(Command), cmds # <<>>, cmds' = Tail(cmds)
  PROVE  /\ cmds' \in Seq(Command)
         /\ cmds[1] \in Command
         /\ \A c \in Chan : NoResume(c) => NoResume(c)' /\ cmds[1] # <<"resume", c>>
BY DEF NoResume

(* A step that only moves the upgrading thread, and perhaps frees the snapshots'    *)
(* ring.                                                                            *)
LEMMA Moves ==
  ASSUME IInv, upc' \in {"idle", "stop", "snap", "wait", "destroy", "upgrade", "create",
                         "resume"} \X Chan,
         UNCHANGED <<ring, released, manager, senders, cmds>>,
         snapRing' \in BOOLEAN, snapRing' => snapRing, upgrades' \in 0..MaxUpgrades,
         Early' => Early, Noted',
         upc'[1] \in {"wait", "destroy", "upgrade", "create", "resume"} => ~snapRing',
         \A c \in Chan : upc' = <<"destroy", c>> => chnPaused[c]
  PROVE  IInv'
<1>1. TypeOK'
  BY DEF IInv, TypeOK, manager, senders
<1>2. Known'
  BY DEF IInv, Known, manager, senders
<1>3. \A c \in Chan \ others : Safe(c)'
  BY DEF IInv, Safe, NoResume, manager, senders
<1> QED BY <1>1, <1>2, <1>3 DEF IInv, senders

LEMMA StartUpgradeKeeps == IInv /\ StartUpgrade => IInv'
<1> SUFFICES ASSUME IInv, StartUpgrade PROVE IInv'
  OBVIOUS
<1>1. upc' = <<"stop", 1>> /\ 1 \in Chan /\ upgrades' \in 0..MaxUpgrades
  BY ConstantFacts DEF StartUpgrade, IInv, TypeOK
<1>2. Early' => Early
  BY <1>1 DEF StartUpgrade, Early, memory
<1>3. Noted'
  BY <1>1 DEF StartUpgrade, IInv, Noted, At, memory
<1> QED BY <1>1, <1>2, <1>3, Moves DEF StartUpgrade, IInv, TypeOK, memory

LEMMA StopChnKeeps == IInv /\ StopChn => IInv'
<1> SUFFICES ASSUME IInv, StopChn PROVE IInv'
  OBVIOUS
<1>1. c0 \in Chan /\ <<"stop", c0>> \in Command
  BY DEF IInv, TypeOK, c0, Command
<1>2. /\ cmds' \in Seq(Command)
      /\ \A c \in Chan : NoResume(c) => NoResume(c)'
  BY <1>1, Queued DEF StopChn, IInv, TypeOK
<1>3. upc' \in {<<"stop", c0 + 1>>, <<"snap", 1>>} /\ upc'[2] \in Chan
  BY <1>1, ConstantFacts DEF StopChn, Onward, Chan
<1>4. TypeOK'
  BY <1>2, <1>3 DEF StopChn, IInv, TypeOK, memory, manager, senders
<1>5. Early' => Early
  BY <1>3 DEF StopChn, Early, memory
<1>6. Known'
  BY DEF StopChn, IInv, Known, manager, senders
<1>7. \A c \in Chan \ others : Safe(c)'
  BY <1>2, <1>3, <1>5 DEF StopChn, IInv, Safe, memory, manager
<1>8. Noted'
  BY <1>3 DEF StopChn, IInv, Noted, At, memory
<1> QED BY <1>3, <1>4, <1>6, <1>7, <1>8 DEF StopChn, IInv, senders

LEMMA ReleaseSnapKeeps == IInv /\ ReleaseSnap => IInv'
<1> SUFFICES ASSUME IInv, ReleaseSnap PROVE IInv'
  OBVIOUS
<1>1. upc' \in {<<"wait", 1>>, <<"upgrade", 1>>} /\ 1 \in Chan
  BY ConstantFacts DEF ReleaseSnap
<1>2. Early' => Early
  BY DEF ReleaseSnap, IInv, Noted, Early, At
<1>3. Noted'
  BY <1>1 DEF ReleaseSnap, IInv, Noted, At
<1>4. snapRing' = FALSE /\ UNCHANGED <<ring, released, manager, senders, cmds, upgrades>>
  BY DEF ReleaseSnap
<1>5. /\ upc' \in {"idle", "stop", "snap", "wait", "destroy", "upgrade", "create", "resume"} \X Chan
      /\ upc'[1] # "destroy" /\ upgrades' \in 0..MaxUpgrades
  BY <1>1, <1>4 DEF IInv, TypeOK
<1>6. \A c \in Chan : upc' = <<"destroy", c>> => chnPaused[c]
  BY <1>5
<1> QED BY <1>2, <1>3, <1>4, <1>5, <1>6, Moves DEF IInv, TypeOK

LEMMA WaitForPauseKeeps == IInv /\ WaitForPause => IInv'
<1> SUFFICES ASSUME IInv, WaitForPause PROVE IInv'
  OBVIOUS
<1>1. c0 \in Chan /\ chnPaused[c0] \in BOOLEAN
  BY DEF IInv, TypeOK, c0
<1>2. /\ upc' \in {<<"destroy", c0>>, <<"wait", c0 + 1>>, <<"upgrade", 1>>} /\ upc'[2] \in Chan
      /\ upc'[1] = "destroy" => upc'[2] = c0 /\ chnPaused[c0]
  BY <1>1, ConstantFacts DEF WaitForPause, MayRelease, Onward, Chan
<1>3. UNCHANGED <<ring, snapRing, released, manager, senders, cmds, upgrades>>
  BY DEF WaitForPause, memory
<1>4. Early' => Early
  BY <1>2, <1>3 DEF WaitForPause, Early, At
<1>5. Noted'
  BY <1>2, <1>3 DEF IInv, Noted, At
<1>6. upc'[1] \in {"wait", "destroy", "upgrade"} /\ ~snapRing
  BY <1>2 DEF WaitForPause, IInv, At
<1>7. \A c \in Chan : upc' = <<"destroy", c>> => chnPaused[c]
  BY <1>2
<1> QED BY <1>2, <1>3, <1>4, <1>5, <1>6, <1>7, Moves DEF IInv, TypeOK

LEMMA DestroyChnKeeps == IInv /\ DestroyChn => IInv'
<1> SUFFICES ASSUME IInv, DestroyChn PROVE IInv'
  OBVIOUS
<1>1. c0 \in Chan /\ upc = <<"destroy", c0>>
  BY DEF IInv, TypeOK, DestroyChn, At, c0
<1>2. upc' \in {<<"wait", c0 + 1>>, <<"upgrade", 1>>} /\ upc'[2] \in Chan
  BY <1>1, ConstantFacts DEF DestroyChn, Onward, Chan
<1>3. /\ ring' \in [Chan -> BOOLEAN] /\ released' \in [Chan -> BOOLEAN]
      /\ \A c \in Chan : c # c0 => ring'[c] = ring[c] /\ released'[c] = released[c]
      /\ \A c \in Chan : ring'[c] \/ released'[c]
  <2>1. CASE ring[c0]
    BY <1>1, <2>1 DEF DestroyChn, NoteReleased, IInv, TypeOK, Noted
  <2>2. CASE ~ring[c0]
    BY <2>2 DEF DestroyChn, IInv, TypeOK, Noted
  <2> QED BY <2>1, <2>2
<1>4. TypeOK'
  BY <1>2, <1>3 DEF DestroyChn, IInv, TypeOK, manager, senders
<1>5. Noted'
  BY <1>2, <1>3 DEF Noted, At
<1>6. Known'
  BY DEF DestroyChn, IInv, Known, manager, senders
<1>7. \A c \in Chan \ others : Safe(c)'
  <2> SUFFICES ASSUME NEW c \in Chan \ others PROVE Safe(c)'
    OBVIOUS
  <2>1. Early /\ Safe(c)
    BY <1>1 DEF Early, IInv
  <2>2. NoResume(c)' /\ (chnPaused[c] => flagPause[c])' /\ (upc # <<"destroy", c>>)'
    BY <1>2, <2>1 DEF Safe, NoResume, DestroyChn, manager
  <2>3. (chnPaused[c] \/ ring[c])'
    BY <1>1, <1>3, <2>1 DEF Safe, DestroyChn, manager
  <2> QED BY <2>2, <2>3 DEF Safe
<1> QED BY <1>2, <1>4, <1>5, <1>6, <1>7 DEF DestroyChn, IInv, At, senders

LEMMA UpgradeFailsKeeps == IInv /\ UpgradeFails => IInv'
<1> SUFFICES ASSUME IInv, UpgradeFails PROVE IInv'
  OBVIOUS
<1>1. upc' = <<"create", 1>> /\ 1 \in Chan /\ \A c \in Chan : ~(c < 1)
  BY ConstantFacts DEF UpgradeFails, Chan
<1>2. UNCHANGED <<ring, snapRing, released, manager, senders, cmds, upgrades>> /\ ~snapRing
  BY DEF UpgradeFails, IInv, At, memory
<1>3. Early' => Early
  BY <1>1, <1>2 DEF Early
<1>4. Noted'
  BY <1>1, <1>2 DEF IInv, Noted, At, c0
<1> QED BY <1>1, <1>2, <1>3, <1>4, Moves DEF IInv, TypeOK

LEMMA CreateChnKeeps == IInv /\ CreateChn => IInv'
<1> SUFFICES ASSUME IInv, CreateChn PROVE IInv'
  OBVIOUS
<1>1. c0 \in Chan /\ c0 \in 1..NumChan /\ NumChan \in Nat
  BY ConstantFacts DEF IInv, TypeOK, c0, Chan
<1>2. IF c0 < NumChan THEN upc' = <<"create", c0 + 1>> ELSE upc' = <<"resume", 1>>
  BY DEF CreateChn, Onward
<1>3. upc' \in {<<"create", c0 + 1>>, <<"resume", 1>>} /\ upc'[2] \in Chan
  BY <1>1, <1>2 DEF Chan
<1>4. /\ ring' \in [Chan -> BOOLEAN] /\ released' \in [Chan -> BOOLEAN]
      /\ ring'[c0] /\ \A c \in Chan : ring[c] => ring'[c]
      /\ \A c \in Chan : ring'[c] \/ released'[c]
  BY <1>1 DEF CreateChn, IInv, TypeOK, Noted
<1>5. TypeOK'
  BY <1>3, <1>4 DEF CreateChn, IInv, TypeOK, manager, senders
<1>6. \A c \in Chan : c <= c0 => ring'[c]
  BY <1>1, <1>4 DEF CreateChn, IInv, Noted, At, Chan
<1>7. Noted'
  <2>1. CASE c0 < NumChan
    <3>1. upc' = <<"create", c0 + 1>> /\ \A c \in Chan : c < c0 + 1 => ring'[c]
      BY <1>1, <1>2, <1>6, <2>1 DEF Chan
    <3> QED BY <1>4, <3>1 DEF Noted, At, c0
  <2>2. CASE ~(c0 < NumChan)
    <3>1. upc' = <<"resume", 1>> /\ \A c \in Chan : ring'[c]
      BY <1>1, <1>2, <1>6, <2>2 DEF Chan
    <3> QED BY <1>4, <3>1 DEF Noted, At
  <2> QED BY <2>1, <2>2
<1>8. Known'
  BY DEF CreateChn, IInv, Known, manager, senders
<1>9. Early' => Early
  BY <1>3, <1>4 DEF CreateChn, Early
<1>10. \A c \in Chan \ others : Safe(c)'
  BY <1>3, <1>4, <1>9 DEF CreateChn, IInv, Safe, NoResume, manager
<1> QED BY <1>3, <1>5, <1>7, <1>8, <1>10 DEF CreateChn, IInv, At, senders

LEMMA ResumeChnKeeps == IInv /\ ResumeChn => IInv'
<1> SUFFICES ASSUME IInv, ResumeChn PROVE IInv'
  OBVIOUS
<1>1. c0 \in Chan /\ <<"resume", c0>> \in Command
  BY DEF IInv, TypeOK, c0, Command
<1>2. cmds' \in Seq(Command)
  BY <1>1, Queued DEF ResumeChn, IInv, TypeOK
<1>3. upc' \in {<<"resume", c0 + 1>>, <<"idle", 1>>} /\ upc'[2] \in Chan
  BY <1>1, ConstantFacts DEF ResumeChn, Onward, Chan
<1>4. TypeOK'
  BY <1>2, <1>3 DEF ResumeChn, IInv, TypeOK, memory, manager, senders
<1>5. ~Early' /\ Noted'
  BY <1>3 DEF ResumeChn, IInv, Noted, Early, At, memory
<1>6. Known'
  BY DEF ResumeChn, IInv, Known, manager, senders
<1>7. \A c \in Chan \ others : Safe(c)'
  BY <1>3, <1>5 DEF ResumeChn, IInv, Safe, manager, memory
<1> QED BY <1>3, <1>4, <1>5, <1>6, <1>7 DEF ResumeChn, IInv, memory, senders, At

(* Somebody else begins to send: the channels he resumes are among the others. *)
LEMMA BeginKeeps ==
  ASSUME IInv, NEW t \in Sender, NEW q \in Seq(Command), Begin(t, q),
         others' \subseteq Chan, others \subseteq others', stopped' \in BOOLEAN,
         \A i \in 1..Len(q) : q[i][1] = "resume" => q[i][2] \in others'
  PROVE  IInv'
<1>1. /\ todo' = [todo EXCEPT ![t] = q]
      /\ UNCHANGED <<memory, manager, cmds, upc, upgrades>>
      /\ events' \in 0..MaxEvents
  BY ConstantFacts DEF Begin, IInv, TypeOK
<1>2. TypeOK'
  BY <1>1 DEF IInv, TypeOK, memory, manager
<1>3. Known'
  <2>1. (others # Chan => formatted)'
    BY <1>1 DEF IInv, Known, TypeOK, manager
  <2>2. ASSUME NEW u \in Sender, NEW i \in 1..Len(todo'[u]), todo'[u][i][1] = "resume"
        PROVE  todo'[u][i][2] \in others'
    <3>1. CASE u = t
      BY <1>1, <2>2, <3>1 DEF IInv, TypeOK
    <3>2. CASE u # t
      BY <1>1, <2>2, <3>2 DEF IInv, TypeOK, Known
    <3> QED BY <3>1, <3>2
  <2> QED BY <2>1, <2>2 DEF Known
<1>4. \A c \in Chan \ others' : Safe(c)'
  BY <1>1 DEF IInv, Safe, NoResume, Early, memory, manager
<1> QED BY <1>1, <1>2, <1>3, <1>4 DEF IInv, Noted, At, c0, memory

LEMMA EachIs ==
  ASSUME NEW k \in {"pause", "stop", "resume"}
  PROVE  /\ Each(k) \in Seq(Command) /\ Len(Each(k)) = NumChan
         /\ \A i \in 1..Len(Each(k)) : Each(k)[i][1] = k /\ Each(k)[i][2] \in Chan
<1>1. Each(k) \in [1..NumChan -> Command]
  BY DEF Each, Command, Chan
<1>2. Each(k) \in Seq(Command) /\ Len(Each(k)) = NumChan
  BY <1>1, ConstantFacts
<1> QED BY <1>2 DEF Each, Chan

LEMMA OthersBeginKeep ==
  ASSUME IInv, NEW c \in Chan
  PROVE  SwitchOff(c) \/ SwitchOn(c) \/ ChangeStream(c) \/ StillFull(c) => IInv'
<1>1. /\ <<<<"pause", c>>>> \in Seq(Command) /\ <<<<"resume", c>>>> \in Seq(Command)
      /\ <<<<"pause", c>>, <<"resume", c>>>> \in Seq(Command)
  BY DEF Command
<1>2. others \subseteq Chan /\ stopped \in BOOLEAN
  BY DEF IInv, TypeOK
<1>3. ASSUME SwitchOff(c) PROVE IInv'
  BY <1>1, <1>2, <1>3, BeginKeeps DEF SwitchOff, Sender
<1>4. ASSUME SwitchOn(c) PROVE IInv'
  BY <1>1, <1>2, <1>4, BeginKeeps DEF SwitchOn, Sender
<1>5. ASSUME ChangeStream(c) PROVE IInv'
  <2> DEFINE q == <<<<"pause", c>>, <<"resume", c>>>>
  <2>1. \A i \in 1..Len(q) : q[i][2] = c
    OBVIOUS
  <2>2. /\ q \in Seq(Command) /\ Begin("settings", q)
        /\ others' = others \cup {c} /\ stopped' = stopped
    BY <1>1, <1>5 DEF ChangeStream
  <2> QED BY <1>2, <2>1, <2>2, BeginKeeps DEF Sender
<1>6. ASSUME StillFull(c) PROVE IInv'
  BY <1>1, <1>2, <1>6, BeginKeeps DEF StillFull, Sender
<1> QED BY <1>3, <1>4, <1>5, <1>6

LEMMA AllBeginKeep ==
  ASSUME IInv PROVE LastDiskOut \/ ReloadHdd \/ DiskFull \/ SpaceAgain => IInv'
<1>1. others \subseteq Chan /\ stopped \in BOOLEAN
  BY DEF IInv, TypeOK
<1>2. ASSUME LastDiskOut PROVE IInv'
  BY <1>1, <1>2, EachIs, BeginKeeps DEF LastDiskOut, Sender
<1>3. ASSUME ReloadHdd PROVE IInv'
  <2> DEFINE q == Each("pause") \o Each("resume")
  <2>1. q \in Seq(Command)
    BY EachIs
  <2>2. \A i \in 1..Len(q) : q[i] \in Command
    BY <2>1
  <2>3. \A i \in 1..Len(q) : q[i][2] \in Chan
    BY <2>2 DEF Command
  <2> QED BY <1>1, <1>3, <2>1, <2>3, BeginKeeps DEF ReloadHdd, Sender
<1>4. ASSUME DiskFull PROVE IInv'
  BY <1>1, <1>4, EachIs, BeginKeeps DEF DiskFull, Sender
<1>5. ASSUME SpaceAgain PROVE IInv'
  BY <1>1, <1>5, EachIs, BeginKeeps DEF SpaceAgain, Sender
<1> QED BY <1>2, <1>3, <1>4, <1>5

LEMMA SendKeeps ==
  ASSUME NEW t \in Sender PROVE IInv /\ Send(t) => IInv'
<1> SUFFICES ASSUME IInv, Send(t) PROVE IInv'
  OBVIOUS
<1> DEFINE x == Head(todo[t])
<1>1. todo[t] \in Seq(Command) /\ todo[t] # <<>> /\ others \subseteq Chan
  BY DEF Send, IInv, TypeOK
<1>2. x \in Command /\ Tail(todo[t]) \in Seq(Command) /\ x = todo[t][1] /\ Len(todo[t]) >= 1
  BY <1>1
<1>3. x[1] = "resume" => x[2] \in others
  BY <1>2 DEF IInv, Known
<1>4. /\ cmds' = Append(cmds, x) /\ todo' = [todo EXCEPT ![t] = Tail(@)]
      /\ UNCHANGED <<memory, manager, stopped, events, others, upc, upgrades>>
  BY DEF Send
<1> HIDE DEF x
<1>5. /\ cmds' \in Seq(Command)
      /\ \A c \in Chan : NoResume(c) /\ x # <<"resume", c>> => NoResume(c)'
  BY <1>2, <1>4, Queued DEF IInv, TypeOK
<1>6. TypeOK'
  BY <1>2, <1>4, <1>5 DEF IInv, TypeOK, memory, manager
<1>7. Known'
  <2>1. (others # Chan => formatted)'
    BY <1>4 DEF IInv, Known, manager
  <2>2. ASSUME NEW u \in Sender, NEW i \in 1..Len(todo'[u]), todo'[u][i][1] = "resume"
        PROVE  todo'[u][i][2] \in others'
    <3>1. CASE u = t
      <4>1. todo'[u] = Tail(todo[t])
        BY <1>4, <3>1 DEF IInv, TypeOK
      <4>2. i + 1 \in 1..Len(todo[t]) /\ todo'[u][i] = todo[t][i + 1]
        BY <1>1, <2>2, <4>1
      <4> QED BY <1>4, <2>2, <4>2 DEF IInv, Known
    <3>2. CASE u # t
      BY <1>4, <2>2, <3>2 DEF IInv, TypeOK, Known
    <3> QED BY <3>1, <3>2
  <2> QED BY <2>1, <2>2 DEF Known
<1>8. \A c \in Chan \ others : Safe(c)'
  BY <1>3, <1>4, <1>5 DEF IInv, Safe, Early, memory, manager
<1> QED BY <1>4, <1>6, <1>7, <1>8 DEF IInv, Noted, At, c0, memory

LEMMA TakeCommandKeeps == IInv /\ TakeCommand => IInv'
<1> SUFFICES ASSUME IInv, TakeCommand PROVE IInv'
  OBVIOUS
<1>1. /\ UNCHANGED <<memory, chnPaused, todo, stopped, upc, upgrades>>
      /\ others' \subseteq Chan /\ others \subseteq others'
      /\ formatted' \in BOOLEAN /\ events' \in 0..MaxEvents
      /\ others' # Chan => formatted'
  <2>1. CASE UNCHANGED <<formatted, events, others>>
    BY <2>1 DEF TakeCommand, IInv, TypeOK, Known
  <2>2. CASE events > 0 /\ events' = events - 1 /\ formatted' = ~formatted /\ others' = Chan
    BY <2>2, ConstantFacts DEF TakeCommand, IInv, TypeOK
  <2> QED BY <2>1, <2>2 DEF TakeCommand
<1>2. sc' \in 0..NumChan
  BY ConstantFacts DEF TakeCommand
<1>3. /\ cmds' \in Seq(Command) /\ flagPause' \in [Chan -> BOOLEAN]
      /\ \A c \in Chan : NoResume(c) => NoResume(c)' /\ (flagPause[c] => flagPause'[c])
  <2>1. CASE cmds = <<>>
    BY <2>1 DEF TakeCommand, IInv, TypeOK, NoResume
  <2>2. CASE cmds # <<>>
    <3>1. /\ cmds' \in Seq(Command) /\ cmds[1] \in Command
          /\ \A c \in Chan : NoResume(c) => NoResume(c)' /\ cmds[1] # <<"resume", c>>
      BY <2>2, Dequeued DEF TakeCommand, IInv, TypeOK
    <3>2. cmds[1][2] \in Chan /\ cmds[1] = <<cmds[1][1], cmds[1][2]>>
      BY <3>1 DEF Command
    <3>3. flagPause' = [flagPause EXCEPT ![cmds[1][2]] = cmds[1][1] # "resume"]
      BY <2>2 DEF TakeCommand
    <3> QED BY <3>1, <3>2, <3>3 DEF IInv, TypeOK
  <2> QED BY <2>1, <2>2
<1>4. TypeOK'
  BY <1>1, <1>2, <1>3 DEF IInv, TypeOK, memory
<1>5. Known'
  BY <1>1 DEF IInv, Known
<1>6. \A c \in Chan \ others' : Safe(c)'
  BY <1>1, <1>3 DEF IInv, Safe, Early, memory
<1> QED BY <1>1, <1>4, <1>5, <1>6 DEF IInv, Noted, At, c0, memory

LEMMA SetChnPausedKeeps == IInv /\ SetChnPaused => IInv'
<1> SUFFICES ASSUME IInv, SetChnPaused PROVE IInv'
  OBVIOUS
<1>1. sc \in Chan /\ sc' \in 0..NumChan
  BY ConstantFacts DEF SetChnPaused, NextChn, IInv, TypeOK, Chan
<1>2. /\ chnPaused' \in [Chan -> BOOLEAN] /\ chnPaused'[sc] = (flagPause[sc] \/ ~formatted)
      /\ \A c \in Chan : c # sc => chnPaused'[c] = chnPaused[c]
  BY <1>1 DEF SetChnPaused, IInv, TypeOK
<1>3. UNCHANGED <<memory, flagPause, formatted, senders, cmds, upc, upgrades>>
  BY DEF SetChnPaused
<1>4. TypeOK'
  BY <1>1, <1>2, <1>3 DEF IInv, TypeOK, memory, senders
<1>5. Known'
  BY <1>3 DEF IInv, Known, senders
<1>6. ASSUME NEW c \in Chan \ others PROVE Safe(c)'
  <2>1. Safe(c) /\ formatted /\ (Early' <=> Early)
    BY <1>3 DEF IInv, Known, Early, memory
  <2>2. Early => (chnPaused'[c] <=> chnPaused[c]) \/ (flagPause[c] /\ chnPaused'[c])
    BY <1>2, <2>1 DEF Safe, IInv, TypeOK
  <2>3. (Early => NoResume(c) /\ (chnPaused[c] => flagPause[c]))'
    BY <1>2, <1>3, <2>1 DEF Safe, NoResume
  <2>4. (upc = <<"destroy", c>> => chnPaused[c])'
    BY <1>3, <2>1, <2>2 DEF Safe, Early
  <2>5. (chnPaused[c] \/ ring[c])'
    BY <1>3, <2>1, <2>2 DEF Safe, Early, memory
  <2> QED BY <2>3, <2>4, <2>5 DEF Safe
<1> QED BY <1>3, <1>4, <1>5, <1>6 DEF IInv, Noted, At, c0, memory, senders

LEMMA NextIInv == IInv /\ [Next]_vars => IInv'
<1> SUFFICES ASSUME IInv, [Next]_vars PROVE IInv'
  OBVIOUS
<1>1. CASE UNCHANGED vars
  BY <1>1 DEF vars, memory, manager, senders, IInv, TypeOK, Noted, Known, Safe, Early,
              NoResume, At, c0
<1>2. CASE Upgrader
  BY <1>2, StartUpgradeKeeps, StopChnKeeps, ReleaseSnapKeeps, WaitForPauseKeeps,
     DestroyChnKeeps, UpgradeFailsKeeps, CreateChnKeeps, ResumeChnKeeps DEF Upgrader
<1>3. CASE Others
  BY <1>3, OthersBeginKeep, AllBeginKeep, SendKeeps DEF Others
<1> QED BY <1>1, <1>2, <1>3, TakeCommandKeeps, SetChnPausedKeeps DEF Next

LEMMA IInvGives == IInv => VideoRingsReturn /\ RecordingHasRing
BY DEF IInv, Noted, Safe, VideoRingsReturn, RecordingHasRing, At

\* After a failed upgrade every channel has its ring, for any number of channels
\* and upgrades, whichever were skipped and whoever else pauses and resumes
\* (ModRecordBufRelease, ModRecordBufResume).
THEOREM RingsReturn == Spec => []VideoRingsReturn
<1>1. Spec => []IInv
  BY InitIInv, NextIInv, PTL DEF Spec
<1> QED BY <1>1, IInvGives, PTL

\* A channel that is not paused has its ring unless somebody other than the upgrading
\* thread has resumed it, for any number of channels, upgrades and commands of others
\* and however late the manager is.
THEOREM RingWhileRecording == Spec => []RecordingHasRing
<1>1. Spec => []IInv
  BY InitIInv, NextIInv, PTL DEF Spec
<1> QED BY <1>1, IInvGives, PTL
=============================================================================
