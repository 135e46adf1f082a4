------------------------------ MODULE Playback ------------------------------
(* The playback module (ModPlayback): user threads hand commands to one      *)
(* control thread, which keeps the reference time and drives one thread per  *)
(* channel by a rendezvous of two semaphores; a channel thread reads its     *)
(* recordings and shows each frame when the reference time reaches it.       *)
(*                                                                           *)
(* Abstracted: a recording holds key frames only, at whole seconds, and one  *)
(* that cannot be opened has no frames; the reference time moves one second  *)
(* a round, whatever the rate; decoder, zoom, mute and progress reports are  *)
(* left out. A search finds whole recordings: it does not clip them.         *)
EXTENDS Integers, Sequences, FiniteSets, FiniteSetsExt

CONSTANTS
  Users, NoUser,   \* the threads that call the module, and none of them
  NumChan,         \* nMaxChnNum
  Recorded,        \* Recorded[c]: the recordings of c, newest first
  LastTime,        \* no recording ends later
  Widest,          \* the largest layout of tl_vdec_open, 24 channels
  Jump, Late,      \* JUMP_TIME; how late a frame may be before it is dropped
  Asked            \* bound: how many commands are given, and Asked[n] for the n-th

Chan == 1..NumChan
Times == 1..LastTime
Recording == [start: Times, end: Times, frames: Seq(Times)]
Request == [cmd: {"PBTIME", "PBFILE", "STOP", "PAUSE", "RESUME", "STEP", "SPEED",
                  "BACKWARD", "FORWARD", "SEEK", "NXT_SECT", "PRE_SECT"},
            chans: SUBSET Chan, time: Nat]

ASSUME UsersAssumption == NoUser \notin Users
ASSUME NumChanAssumption == NumChan \in Nat \ {0} /\ Widest \in Nat \ {0}
\* A search sorts by the start only: a user who sets the clock back leaves
\* recordings of the same time, one inside the other if need be.
ASSUME RecordedAssumption ==
  \A c \in Chan : Recorded[c] \in Seq(Recording) /\ \A k \in 1..Len(Recorded[c]) :
    LET f == Recorded[c][k] IN
    /\ f.start <= f.end
    /\ \A i \in 1..Len(f.frames) : f.start <= f.frames[i] /\ f.frames[i] <= f.end
    /\ \A i, j \in 1..Len(f.frames) : i < j => f.frames[i] < f.frames[j]
    /\ \A j \in 1..(k - 1) : f.start <= Recorded[c][j].start
ASSUME BoundsAssumption == LastTime \in Nat /\ Jump \in Nat /\ Late \in Nat
\* A file that is asked for is one of one channel, and was found by a search.
ASSUME AskedAssumption ==
  /\ Asked \in Seq(SUBSET Request)
  /\ \A n \in 1..Len(Asked) : \A q \in Asked[n] : q.cmd = "PBFILE" =>
       \E c \in Chan : q.chans = {c} /\ q.time \in 1..Len(Recorded[c])

VARIABLES
  calls, lock,          \* how many commands were given; lock
  cmd, finish,          \* emPbCtlCmd with unPbCtlCxt, semPbCtlFinish
  ctl, forward, ref,    \* emCurCtlState, nForward, nRefPTS of the manager
  alone,                \* nRealPlayNum = 1
  list,                 \* aRecFileInfos, up to nRealFileNums, of each channel
  mgr,                  \* where the control thread is in a round of messages
  chn,                  \* each channel thread and its SPlaybackChnInfo
  box, sent, done, ack  \* emPbChnCmd, semSendChnFinish, semPbChnFinish, nPbChnAck

users    == <<calls, lock>>
manager  == <<ctl, forward, ref, alone, list, mgr>>
exchange == <<box, sent, done, ack>>
vars     == <<users, cmd, finish, manager, chn, exchange>>

None  == [cmd |-> "NULL", chans |-> {}, time |-> 0]
NoMsg == [cmd |-> "NULL", time |-> 0]

Listed == {c \in Chan : list[c] # <<>>}
Starts(l) == Min({l[c][Len(l[c])].start : c \in {d \in Chan : l[d] # <<>>}})
Ends(l)   == Max({l[c][1].end : c \in {d \in Chan : l[d] # <<>>}})

\* Beyond these a reference time tells no frame from another, and is a jump away from all.
Top    == LastTime + Late + Jump + 1
Bottom == 0 - Late - Jump - 1
\* What a channel answers that has nothing left to play: ~0, or 0 going backward
Over(d) == IF d = 1 THEN Top + 1 ELSE Bottom - 1
Moved(t, d) == IF d = 1 THEN Min({t + 1, Top}) ELSE Max({t - 1, Bottom})

Opens(f) == f.frames # <<>>
\* pFile at its k-th frame: that one is read next, the one before it backward
At(ch, f, k) == [ch EXCEPT !.open = Opens(f), !.next = k, !.back = k - 1]
Closed(ch) == [ch EXCEPT !.open = FALSE, !.next = 1, !.back = 0, !.ready = 0]

Init ==
  /\ calls = 0 /\ lock = NoUser
  /\ cmd = None /\ finish = 0
  /\ ctl = "idle" /\ forward = 1 /\ ref = 0 /\ alone = FALSE
  /\ list = [c \in Chan |-> <<>>]
  /\ mgr = [at |-> "poll", serving |-> FALSE, msg |-> NoMsg, todo |-> {}, least |-> 0]
  /\ chn = [c \in Chan |-> [state |-> "idle", forward |-> 1, index |-> 0, open |-> FALSE,
                            back |-> 0, next |-> 1, ready |-> 0, ref |-> 0]]
  /\ box = [c \in Chan |-> NoMsg] /\ ack = [c \in Chan |-> 0]
  /\ sent = [c \in Chan |-> 0] /\ done = [c \in Chan |-> 0]

-----------------------------------------------------------------------------
(* The users: SendCtlMsg under the manager's lock.                           *)

\* A thread that waits for the lock has not called yet.
SendCtlMsg(u) ==
  /\ lock = NoUser /\ calls < Len(Asked)
  /\ lock' = u /\ calls' = calls + 1
  /\ cmd' \in Asked[calls + 1]
  /\ UNCHANGED <<finish, manager, chn, exchange>>

Return(u) ==
  /\ lock = u /\ finish > 0
  /\ finish' = finish - 1 /\ lock' = NoUser
  /\ UNCHANGED <<calls, cmd, manager, chn, exchange>>

-----------------------------------------------------------------------------
(* The control thread: PBCtlFunc.                                            *)

AckCtl == cmd' = None /\ finish' = finish + 1

\* A round: msg is sent to each channel of todo in turn, and each answer awaited.
Tell(serving, msg, todo) ==
  mgr' = [at |-> "tell", serving |-> serving, msg |-> msg, todo |-> todo,
          least |-> Over(forward')]
Rest == mgr' = [mgr EXCEPT !.at = "poll", !.msg = NoMsg, !.least = 0]

Serves(cmds, states) == mgr.at = "poll" /\ cmd.cmd \in cmds /\ ctl \in states

Search(q) ==
  [c \in Chan |-> IF c \notin q.chans THEN <<>>
                  ELSE IF q.cmd = "PBTIME" THEN Recorded[c] ELSE <<Recorded[c][q.time]>>]

Found(l) == (\E c \in Chan : l[c] # <<>>) /\ Ends(l) # Starts(l)

\* nCurIndex after the search: at the oldest recording, of every channel if by time
Indexed(l, c) ==
  IF l[c] # <<>> \/ (cmd.cmd = "PBTIME" /\ \E d \in Chan : l[d] # <<>>)
  THEN Len(l[c]) - 1 ELSE chn[c].index

\* What is found is opened before the layout is chosen, and there is none so wide.
Refuses(q) == /\ q.cmd \in {"PBTIME", "PBFILE"} /\ Found(Search(q))
              /\ Cardinality(q.chans) > Widest

Finds ==
  /\ Serves({"PBTIME", "PBFILE"}, {"idle"}) /\ Found(Search(cmd))
  /\ list' = Search(cmd) /\ alone' = (Cardinality(cmd.chans) = 1)
  /\ forward' = 1
  /\ chn' = [c \in Chan |->
       LET n  == Len(list'[c])
           ch == [chn[c] EXCEPT !.forward = 1, !.ready = 0, !.index = Indexed(list', c)]
       IN  IF n = 0 THEN ch ELSE At(ch, list'[c][n], 1)]

Start ==
  /\ Finds /\ ~ Refuses(cmd)
  /\ ref' = Starts(list')
  /\ Tell(TRUE, [cmd |-> "PLAY", time |-> 0], {c \in Chan : list'[c] # <<>>})
  /\ UNCHANGED <<users, cmd, finish, ctl, exchange>>

\* The command stays where it is and is not answered: the loop takes it again.
TooManyChannels ==
  /\ Finds /\ Refuses(cmd)
  /\ UNCHANGED <<users, cmd, finish, ctl, ref, mgr, exchange>>

\* Mutant: without the "continue", the command is answered a second time below.
NothingFoundAckedTwice ==
  /\ Serves({"PBTIME", "PBFILE"}, {"idle"}) /\ ~ Found(Search(cmd))
  /\ list' = Search(cmd) /\ cmd' = None /\ finish' = finish + 2
  /\ UNCHANGED <<users, ctl, forward, ref, alone, mgr, chn, exchange>>

NothingFound ==
  /\ Serves({"PBTIME", "PBFILE"}, {"idle"}) /\ ~ Found(Search(cmd))
  /\ list' = Search(cmd) /\ alone' = (Cardinality(cmd.chans) = 1)
  /\ forward' = 1
  /\ chn' = [c \in Chan |->
       [chn[c] EXCEPT !.forward = 1, !.ready = 0, !.index = Indexed(list', c)]]
  /\ AckCtl
  /\ UNCHANGED <<users, ctl, ref, mgr, exchange>>

\* PAUSE, RESUME, the speed commands, and STEP while running: no channel is told.
Goes(q, s) ==
  CASE q = "PAUSE"  /\ s = "run"           -> "pause"
    [] q = "STEP"   /\ s = "run"           -> "pause"
    [] q = "RESUME" /\ s = "pause"         -> "run"
    [] q = "SPEED"  /\ s \in {"pause", "run"} -> "run"
    [] OTHER -> s

Taught == \* the commands that send messages, and the states they do so in
  \/ Serves({"PBTIME", "PBFILE"}, {"idle"})
  \/ Serves({"STEP"}, {"pause"})
  \/ Serves({"BACKWARD", "FORWARD"}, {"run"})
  \/ Serves({"STOP", "SEEK", "NXT_SECT", "PRE_SECT"}, {"pause", "run"})

SetState ==
  /\ mgr.at = "poll" /\ cmd # None /\ ~ Taught
  /\ ctl' = Goes(cmd.cmd, ctl)
  /\ AckCtl
  /\ UNCHANGED <<users, forward, ref, alone, list, mgr, chn, exchange>>

Stop ==
  /\ Serves({"STOP"}, {"pause", "run"})
  /\ UNCHANGED <<users, cmd, finish, ctl, forward, ref, alone, list, chn, exchange>>
  /\ Tell(TRUE, [cmd |-> "STOP", time |-> 0], Listed)

\* Mutant: STEP sets the direction of the manager only.
StepManagerOnly ==
  /\ Serves({"STEP"}, {"pause"})
  /\ forward' = 1 /\ ref' = Moved(ref, 1)
  /\ Tell(TRUE, [cmd |-> "UPDATEPTS", time |-> ref'], Listed)
  /\ UNCHANGED <<users, cmd, finish, ctl, alone, list, chn, exchange>>

\* The direction of every channel is set behind its back, then all are told.
Step ==
  /\ Serves({"STEP"}, {"pause"})
  /\ forward' = 1
  /\ chn' = [c \in Chan |-> [chn[c] EXCEPT !.forward = 1]]
  /\ ref' = Moved(ref, 1)
  /\ Tell(TRUE, [cmd |-> "UPDATEPTS", time |-> ref'], Listed)
  /\ UNCHANGED <<users, cmd, finish, ctl, alone, list, exchange>>

Turn ==
  /\ Serves({"BACKWARD", "FORWARD"}, {"run"})
  /\ UNCHANGED <<users, cmd, finish, ctl, forward, ref, alone, list, chn, exchange>>
  /\ Tell(TRUE, [cmd |-> cmd.cmd, time |-> 0], Listed)

\* A section is a tenth of the whole, one second if that is less than twenty. The
\* differences are unsigned: before the start counts as far after it.
Covered(t) == \E c \in Listed : \E k \in 1..Len(list[c]) :
                list[c][k].start <= t /\ t <= list[c][k].end
Whole == Ends(list) - Starts(list)
Sections == Min({Whole, 10})
Section == Whole \div Sections
Sect(i) == Starts(list) + i * Section
Into == ref - Starts(list)

\* ~0 + 1 is section 0 again.
NextSect ==
  LET id == IF Into >= 0 THEN Into \div Section + 1
            ELSE IF Into = -1 /\ Section = 1 THEN 0 ELSE Sections
  IN IF id < Sections THEN Sect(id) ELSE Ends(list) + 1

PreSect ==
  LET id == IF Into >= 0 THEN Into \div Section - 1
            ELSE IF Section = 1 THEN -1 ELSE LastTime
      S  == {i \in 0..id : Covered(Sect(i))}
  IN IF S = {} THEN Starts(list) ELSE Sect(Max(S))

SeekTo ==
  /\ Serves({"SEEK", "NXT_SECT", "PRE_SECT"}, {"pause", "run"})
  /\ ref' = CASE cmd.cmd = "SEEK"     -> Min({cmd.time, Top})
              [] cmd.cmd = "NXT_SECT" -> NextSect
              [] cmd.cmd = "PRE_SECT" -> PreSect
  /\ UNCHANGED <<users, cmd, finish, ctl, forward, alone, list, chn, exchange>>
  /\ Tell(TRUE, [cmd |-> "SEEK", time |-> ref'], Listed)

\* PlayRunning: no command, so the reference time goes on.
Advance ==
  /\ mgr.at = "poll" /\ cmd = None /\ ctl = "run"
  /\ ref' = Moved(ref, forward)
  /\ UNCHANGED <<users, cmd, finish, ctl, forward, alone, list, chn, exchange>>
  /\ Tell(FALSE, [cmd |-> "UPDATEPTS", time |-> ref'], Listed)

Addressed == Min(mgr.todo)

Send ==
  /\ mgr.at = "tell" /\ mgr.todo # {}
  /\ mgr' = [mgr EXCEPT !.at = "await"]
  /\ box' = [box EXCEPT ![Addressed] = mgr.msg]
  /\ sent' = [sent EXCEPT ![Addressed] = @ + 1]
  /\ UNCHANGED <<users, cmd, finish, ctl, forward, ref, alone, list, chn, done, ack>>

\* Mutant: the answer that is furthest away, over or not.
Further(least, a) ==
  IF mgr.msg.cmd # "UPDATEPTS" \/ a = Over(forward) THEN least
  ELSE IF least = Over(forward) \/ (forward = 1 /\ a > least) \/ (forward = -1 /\ a < least)
  THEN a ELSE least

Nearer(least, a) ==
  IF mgr.msg.cmd # "UPDATEPTS" THEN least
  ELSE IF forward = 1 THEN Min({least, a}) ELSE Max({least, a})

Answer ==
  /\ mgr.at = "await" /\ done[Addressed] > 0
  /\ done' = [done EXCEPT ![Addressed] = @ - 1]
  /\ mgr' = [mgr EXCEPT !.at = "tell", !.todo = @ \ {Addressed},
                        !.least = Nearer(@, ack[Addressed])]
  /\ ack' = [ack EXCEPT ![Addressed] = 0]   \* it is read once
  /\ UNCHANGED <<users, cmd, finish, ctl, forward, ref, alone, list, chn, box, sent>>

Told(cmds) == mgr.at = "tell" /\ mgr.todo = {} /\ mgr.msg.cmd \in cmds
\* Mutant: a command whose round ends is not answered.
NeverAcks == UNCHANGED <<cmd, finish>>

AckIfServing == IF mgr.serving THEN AckCtl ELSE UNCHANGED <<cmd, finish>>

AllTold ==
  /\ Told({"PLAY", "SEEK", "STOP", "BACKWARD", "FORWARD"})
  /\ ctl' = CASE mgr.msg.cmd \in {"PLAY", "SEEK"} -> "run"
              [] mgr.msg.cmd = "STOP" -> "idle"
              [] OTHER -> ctl
  /\ forward' = CASE mgr.msg.cmd = "BACKWARD" -> -1
                  [] mgr.msg.cmd = "FORWARD"  -> 1
                  [] OTHER -> forward
  /\ AckIfServing /\ Rest
  /\ UNCHANGED <<users, ref, alone, list, chn, exchange>>

Jumps == IF forward = 1 THEN mgr.least - ref > Jump ELSE ref - mgr.least > Jump

Updated ==
  /\ Told({"UPDATEPTS"}) /\ mgr.least # Over(forward)
  /\ ref' = IF Jumps THEN mgr.least ELSE ref
  /\ AckIfServing /\ Rest
  /\ UNCHANGED <<users, ctl, forward, alone, list, chn, exchange>>

\* Every channel answered that it has nothing left: StopPlayback.
AllOver ==
  /\ Told({"UPDATEPTS"}) /\ mgr.least = Over(forward)
  /\ UNCHANGED <<users, cmd, finish, ctl, forward, ref, alone, list, chn, exchange>>
  /\ Tell(mgr.serving, [cmd |-> "STOP", time |-> 0], Listed)

Control ==
  \/ Start \/ TooManyChannels \/ NothingFound \/ SetState \/ Stop \/ Step \/ Turn
  \/ SeekTo \/ Advance \/ Send \/ Answer \/ AllTold \/ Updated \/ AllOver

-----------------------------------------------------------------------------
(* A channel thread: PBChnFunc. State "play" is about to look for a message; *)
(* "frame" and "over" are inside the frame loop of that state.               *)

\* Mutant: the message is looked at and its semaphore is left up.
ReplyPeeking(c, a) ==
  /\ done' = [done EXCEPT ![c] = @ + 1] /\ ack' = [ack EXCEPT ![c] = a]
  /\ UNCHANGED <<users, cmd, finish, ctl, forward, alone, list, mgr, sent, box>>

Reply(c, a) ==
  /\ sent' = [sent EXCEPT ![c] = @ - 1] /\ done' = [done EXCEPT ![c] = @ + 1]
  /\ box' = [box EXCEPT ![c] = NoMsg] /\ ack' = [ack EXCEPT ![c] = a]
  /\ UNCHANGED <<users, cmd, finish, ctl, forward, alone, list, mgr>>

Hears(c, states, cmds) == sent[c] > 0 /\ chn[c].state \in states /\ box[c].cmd \in cmds

HearPlay(c) ==
  /\ Hears(c, {"idle"}, {"PLAY"})
  /\ chn' = [chn EXCEPT ![c].state = "wait", ![c].ready = 0]
  /\ Reply(c, ack[c]) /\ UNCHANGED ref

\* Mutant: one recording too far.
PastTheEndByOne(c) == IF chn[c].forward = 1 THEN chn[c].index < -1
                      ELSE chn[c].index > Len(list[c])

PastTheEnd(c) == IF chn[c].forward = 1 THEN chn[c].index < 0
                 ELSE chn[c].index >= Len(list[c])

HearUpdate(c) ==
  LET over == chn[c].state = "wait" /\ chn[c].ready = 0 /\ PastTheEnd(c) IN
  /\ Hears(c, {"wait", "play"}, {"UPDATEPTS"})
  /\ chn' = [chn EXCEPT ![c].ref = box[c].time,
                        ![c].state = IF over THEN "wait" ELSE "frame"]
  /\ Reply(c, IF over THEN Over(chn[c].forward)
              ELSE IF chn[c].state = "wait" /\ chn[c].ready # 0 THEN chn[c].ready
              ELSE box[c].time)
  /\ UNCHANGED ref

HearStop(c) ==
  /\ Hears(c, {"wait", "play"}, {"STOP"})
  /\ chn' = [chn EXCEPT ![c] = [Closed(@) EXCEPT !.state = "idle", !.ref = 0]]
  /\ Reply(c, ack[c]) /\ UNCHANGED ref

HearTurn(c) ==
  /\ Hears(c, {"wait", "play"}, {"BACKWARD", "FORWARD"})
  /\ chn' = [chn EXCEPT ![c].forward = IF box[c].cmd = "BACKWARD" THEN -1 ELSE 1]
  /\ Reply(c, ack[c]) /\ UNCHANGED ref

\* Seek: the oldest recording that ends at t or later, and has a frame there.
From(f, t) == {k \in 1..Len(f.frames) : f.frames[k] >= t}
Seekable(f, t) == /\ t <= f.end /\ Opens(f)
                  /\ f.start <= t => (From(f, t) # {} \/ alone)

HearSeek(c) ==
  LET t     == box[c].time
      found == {k \in 1..Len(list[c]) : Seekable(list[c][k], t)}
      f     == list[c][Max(found)]
      last  == Len(f.frames)
  IN
  /\ Hears(c, {"wait", "play"}, {"SEEK"})
  /\ IF found = {}
     THEN /\ chn' = [chn EXCEPT ![c] = [Closed(@) EXCEPT !.index = -1]]
          /\ UNCHANGED ref
     ELSE LET ch == [chn[c] EXCEPT !.index = Max(found) - 1, !.ready = 0] IN
          IF From(f, t) # {}
          THEN chn' = [chn EXCEPT ![c] = At(ch, f, Min(From(f, t)))] /\ UNCHANGED ref
          ELSE /\ chn' = [chn EXCEPT ![c] = At(ch, f, last)]
               /\ ref' = ref - (t - f.frames[last])
  /\ Reply(c, ack[c])

\* sem_trywait found no message
NoMessage(c) ==
  /\ chn[c].state = "play" /\ sent[c] = 0
  /\ chn' = [chn EXCEPT ![c].state = "frame"]
  /\ UNCHANGED <<users, cmd, finish, manager, exchange>>

Due(ch) == IF ch.forward = 1 THEN ch.ready <= ch.ref ELSE ch.ready >= ch.ref

\* The frame in the buffer goes to the decoder, or waits for its time.
Show(c) ==
  /\ chn[c].state = "frame" /\ chn[c].ready # 0 /\ Due(chn[c])
  /\ chn' = [chn EXCEPT ![c].ready = 0]
  /\ UNCHANGED <<users, cmd, finish, manager, exchange>>

NotDue(c) ==
  /\ chn[c].state = "frame" /\ chn[c].ready # 0 /\ ~ Due(chn[c])
  /\ chn' = [chn EXCEPT ![c].state = "wait"]
  /\ UNCHANGED <<users, cmd, finish, manager, exchange>>

StopWaits(c) == sent[c] > 0 /\ box[c].cmd = "STOP"

SeeStop(c) ==
  /\ chn[c].state = "frame" /\ chn[c].ready = 0 /\ StopWaits(c)
  /\ chn' = [chn EXCEPT ![c].state = "play"]
  /\ UNCHANGED <<users, cmd, finish, manager, exchange>>

\* Frames that are late by more than Late are read and dropped. Going forward, one
\* past nRecEndTime, the end of the newest recordings, ends the file.
Coming(ch, f) ==
  IF ch.forward = 1
  THEN {k \in ch.next..Len(f.frames) : /\ ch.ref <= f.frames[k] + Late
                                       /\ f.frames[k] <= Ends(list)}
  ELSE {k \in 1..ch.back : f.frames[k] <= ch.ref + Late}

File(c) == list[c][chn[c].index + 1]

Read(c) ==
  LET ch == chn[c]  ks == IF ch.open THEN Coming(ch, File(c)) ELSE {} IN
  /\ ch.state = "frame" /\ ch.ready = 0 /\ ~ StopWaits(c)
  /\ IF ks = {} THEN chn' = [chn EXCEPT ![c].state = "over"]
     ELSE LET k == IF ch.forward = 1 THEN Min(ks) ELSE Max(ks) IN
          chn' = [chn EXCEPT ![c].ready = File(c).frames[k],
                             ![c].next = k + 1, ![c].back = k - 1]
  /\ UNCHANGED <<users, cmd, finish, manager, exchange>>

\* Mutant: the last file stays open.
PastStillOpen(ch, i) == [ch EXCEPT !.index = i, !.ready = 0, !.state = "wait"]

Past(ch, i) == [Closed(ch) EXCEPT !.index = i, !.state = "wait"]

\* Where a file is entered from behind: at nRecEndTime, or at its last frame.
LastIn(f) == LET S == From(f, Ends(list)) IN IF S = {} THEN Len(f.frames) ELSE Min(S)

NextFile(c) ==
  LET ch == chn[c]  n == Len(list[c])
      to == ch.index - ch.forward
      f  == list[c][to + 1]
      in == At([ch EXCEPT !.index = to, !.ready = 0, !.state = "play"], f,
               IF ch.forward = 1 \/ ~ Opens(f) THEN 1 ELSE LastIn(f))
  IN
  /\ ch.state = "over"
  /\ chn' = [chn EXCEPT ![c] =
       IF ch.forward = 1 THEN IF ch.index <= 0 THEN Past(ch, -1) ELSE in
       ELSE IF ch.index >= n - 1 THEN Past(ch, n) ELSE in]
  /\ UNCHANGED <<users, cmd, finish, manager, exchange>>

Channel(c) ==
  \/ HearPlay(c) \/ HearUpdate(c) \/ HearStop(c) \/ HearTurn(c) \/ HearSeek(c)
  \/ NoMessage(c) \/ Show(c) \/ NotDue(c) \/ SeeStop(c) \/ Read(c) \/ NextFile(c)

-----------------------------------------------------------------------------
Next ==
  \/ \E u \in Users : SendCtlMsg(u) \/ Return(u)
  \/ Control
  \/ \E c \in Chan : Channel(c)

\* Every thread runs; whether a user calls at all is up to the user.
Fairness ==
  /\ \A u \in Users : WF_vars(Return(u))
  /\ WF_vars(Control)
  /\ \A c \in Chan : WF_vars(Channel(c))

Spec == Init /\ [][Next]_vars /\ Fairness

-----------------------------------------------------------------------------
(* Properties                                                                *)

\* Every variable keeps its type.
TypeOK ==
  /\ calls \in 0..Len(Asked) /\ lock \in Users \cup {NoUser}
  /\ cmd \in Request \cup {None} /\ finish \in 0..1
  /\ ctl \in {"idle", "run", "pause"} /\ forward \in {-1, 1} /\ ref \in Bottom..Top
  /\ alone \in BOOLEAN
  /\ \A c \in Chan : Len(list[c]) <= Len(Recorded[c])
  /\ mgr.at \in {"poll", "tell", "await"} /\ mgr.todo \subseteq Chan
  /\ \A c \in Chan : LET ch == chn[c] IN
       /\ ch.state \in {"idle", "wait", "play", "frame", "over"}
       /\ ch.forward \in {-1, 1} /\ ch.index \in -1..Len(Recorded[c])
       /\ ch.ready \in 0..LastTime /\ ch.ref \in Bottom..Top
  /\ sent \in [Chan -> 0..1] /\ done \in [Chan -> 0..1]

\* One question is open at a time, to the channel the control thread waits for,
\* so no answer of an earlier round is ever taken for one of this round
\* (SendChnMsg, GetChnMsg and AckChnMsg check nothing of the kind).
OneExchange ==
  \A c \in Chan :
    /\ sent[c] + done[c] <= 1
    /\ (sent[c] + done[c] = 1) => (mgr.at = "await" /\ c = Addressed)

\* Between rounds the channel threads are where the control thread believes them
\* to be: all idle with their files closed when it is idle, and otherwise those
\* that have recordings are playing, in its direction. A search for too many
\* channels has opened their files, and is where it stays.
ThreadsFollow ==
  mgr.at = "poll" =>
    \A c \in Chan :
      /\ (chn[c].state = "idle") = (ctl = "idle" \/ c \notin Listed)
      /\ chn[c].state = "idle" => ~ chn[c].open \/ (ctl = "idle" /\ Refuses(cmd))
      /\ chn[c].state # "idle" => chn[c].forward = forward

\* A channel with a file open is inside its list of recordings: the frame loop
\* reads aRecFileInfos[nCurIndex] without looking.
OpenFileIsListed ==
  \A c \in Chan : chn[c].open => chn[c].index \in 0..(Len(list[c]) - 1)

\* No two recordings are of the same time.
Apart(l) == \A j, k \in 1..Len(l) : j < k => l[k].end < l[j].start

\* What channel c has still to show when it goes on in its direction: the rest of
\* the recording it plays, and those to come if they are of other times.
Ahead(c) ==
  LET ch == chn[c]  fs == list[c]
      times(f, ks) == {f.frames[k] : k \in ks}
  IN {t \in {ch.ready} : t # 0}
     \cup (IF ~ ch.open THEN {}
          ELSE times(File(c), IF ch.forward = 1 THEN ch.next..Len(File(c).frames)
                              ELSE 1..ch.back))
     \cup UNION {times(fs[k], 1..Len(fs[k].frames)) :
                  k \in {i \in 1..Len(fs) : /\ Apart(fs)
                                            /\ IF ch.forward = 1 THEN i <= ch.index
                                                                 ELSE i > ch.index + 1}}

\* The reference time leaps over a gap only: no channel has a frame to show in it,
\* of the recording it plays, or of one to come if its recordings do not overlap.
\* (Where they do, the leap does pass over frames: nothing seeks in the next file.)
JumpSkipsNothing ==
  [][ (Told({"UPDATEPTS"}) /\ ref' # ref) =>
        \A c \in Listed : \A t \in Ahead(c) :
          IF forward = 1 THEN t >= ref' ELSE t <= ref' ]_vars

\* Every command is answered, except a search that finds something on more channels
\* than there are layouts: that one holds the control thread and the lock for ever.
Answered == (cmd # None /\ ~ Refuses(cmd)) ~> cmd = None

\* A playback that runs ends, or is stopped or paused: it never just hangs.
RunEnds == ctl = "run" ~> ctl # "run"
=============================================================================
