--------------------------- MODULE PlaybackProofs ---------------------------
(***************************************************************************)
(* Whatever the number of channels and of users, whatever is recorded and   *)
(* asked for: no answer is taken for that of another round (OneExchange),   *)
(* between rounds every channel thread is in the state and direction the    *)
(* control thread believes (ThreadsFollow), an open file is inside its      *)
(* channel's list (OpenFileIsListed), every variable keeps its type         *)
(* (TypeOK), and the reference time leaps over gaps only (JumpSkipsNothing). *)
(*                                                                         *)
(* None of them is inductive: in the middle of a round some channels have   *)
(* done what the message says and some have not.  A channel is told when it *)
(* is no longer in mgr.todo, or has answered; Fit says where it is before   *)
(* and after it is told.  That is IInv.  FullInv adds the handshake of the  *)
(* commands (Commands), what the lists hold (Listing), where a channel is   *)
(* in its file (Placed) and the bounds of the reference time (Clock); Heard *)
(* says what the answers to UPDATEPTS are worth until the round ends.       *)
(***************************************************************************)
EXTENDS Playback, FiniteSetTheorems, WellFoundedInduction, TLAPS

Rounds == {"PLAY", "UPDATEPTS", "STOP", "SEEK", "BACKWARD", "FORWARD"}

Informed(c) == c \notin mgr.todo \/ done[c] > 0

InRound(m) == mgr.at # "poll" /\ mgr.msg.cmd = m

Playing(c, told) ==
  /\ c \in Listed
  /\ mgr.at = "poll" => ctl # "idle"
  /\ InRound("PLAY") => told
  /\ InRound("STOP") => ~told

Direction(told) == IF told /\ InRound("BACKWARD") THEN -1
                   ELSE IF told /\ InRound("FORWARD") THEN 1 ELSE forward

ChnFields == {"state", "forward", "index", "open", "back", "next", "ready", "ref"}

\* A search for too many channels was made, and is made again.
Refused == mgr.at = "poll" /\ ctl = "idle" /\ Refuses(cmd) /\ list = Search(cmd)

\* The files are opened before the channels are told to play.
Opened(c) == c \in Listed /\ (InRound("PLAY") \/ Refused)

Fit(ch, c, told) ==
  /\ ChnFields \subseteq DOMAIN ch
  /\ ch.state = "idle" <=> ~Playing(c, told)
  /\ ch.state = "idle" /\ ~Opened(c) => ~ch.open
  /\ ch.state # "idle" \/ (InRound("PLAY") /\ c \in Listed) => ch.forward = Direction(told)
  /\ ch.open => ch.index \in 0..(Len(list[c]) - 1)
  /\ c \in Listed => ch.index \in -1..Len(list[c])

Lists == \A c \in Chan : /\ Len(list[c]) \in Nat
                         /\ list[c] = <<>> <=> Len(list[c]) = 0

Managed ==
  /\ DOMAIN mgr = {"at", "serving", "msg", "todo", "least"}
  /\ mgr.at \in {"poll", "tell", "await"} /\ mgr.todo \subseteq Listed
  /\ mgr.at = "poll" => mgr.todo = {}
  /\ mgr.at = "await" => mgr.todo # {}
  /\ mgr.at # "poll" => mgr.msg.cmd \in Rounds
  /\ mgr.at # "poll" => (mgr.msg.cmd = "PLAY" <=> ctl = "idle")
  /\ forward \in {-1, 1}

Exchanged ==
  /\ sent \in [Chan -> Nat] /\ done \in [Chan -> Nat] /\ DOMAIN box = Chan
  /\ OneExchange
  /\ \A c \in Chan : sent[c] > 0 => box[c] = mgr.msg

Fits == DOMAIN chn = Chan /\ \A c \in Chan : Fit(chn[c], c, Informed(c))

IInv == Lists /\ Managed /\ Exchanged /\ Fits

---------------------------------------------------------------------------
(* Least and greatest elements.                                             *)

Below == {p \in Nat \X Nat : p[1] < p[2]}

LEMMA BelowWellFounded == IsWellFoundedOn(Below, Nat)
BY NatLessThanWellFounded, Zenon DEF OpToRel, Below

LEMMA LessThan ==
  ASSUME NEW x \in Nat, NEW y \in Nat, y < x
  PROVE  <<y, x>> \in Below
BY DEF Below

LEMMA MinExists ==
  ASSUME NEW S \in SUBSET Nat, S # {}
  PROVE  Min(S) \in S /\ \A y \in S : Min(S) <= y
<1>1. PICK x \in S : \A y \in S : ~(<<y, x>> \in Below)
  BY BelowWellFounded, WFMin
<1>2. \A y \in S : x <= y
  <2> TAKE y \in S
  <2>1. ~(y < x)
    BY <1>1, LessThan
  <2> QED BY <2>1
<1> QED BY <1>2 DEF Min

LEMMA MaxExists ==
  ASSUME NEW n \in Nat, NEW S \in SUBSET (0..n), S # {}
  PROVE  Max(S) \in S /\ \A y \in S : y <= Max(S)
<1> DEFINE T == {n - y : y \in S}
<1>1. \A y \in S : n - y \in Nat
  OBVIOUS
<1>2. T \in SUBSET Nat /\ T # {}
  BY <1>1
<1> HIDE DEF T
<1>3. Min(T) \in T
  BY <1>2, MinExists
<1>4. PICK x \in S : Min(T) = n - x
  BY <1>3 DEF T
<1>5. \E t \in T : \A u \in T : t <= u
  <2>1. PICK t \in T : \A u \in T : ~(<<u, t>> \in Below)
    BY <1>2, BelowWellFounded, WFMin
  <2>2. \A u \in T : t <= u
    <3> TAKE u \in T
    <3>1. ~(u < t)
      BY <1>2, <2>1, LessThan
    <3> QED BY <1>2, <3>1
  <2> QED BY <2>2
<1>6. \A u \in T : Min(T) <= u
  BY <1>5 DEF Min
<1>7. \A y \in S : x >= y
  <2> TAKE y \in S
  <2>1. n - x <= n - y
    BY <1>4, <1>6 DEF T
  <2> QED BY <2>1
<1> QED BY <1>7 DEF Max

LEMMA MaxRange ==
  ASSUME NEW n \in Nat, NEW S \in SUBSET (1..n), S # {}
  PROVE  Max(S) \in S /\ Max(S) \in 1..n
<1>1. S \in SUBSET (0..n)
  OBVIOUS
<1> QED BY <1>1, MaxExists

LEMMA MinRange ==
  ASSUME NEW n \in Nat, NEW S \in SUBSET (1..n), S # {}
  PROVE  Min(S) \in 1..n
<1>1. S \in SUBSET Nat
  OBVIOUS
<1> QED BY <1>1, MinExists

---------------------------------------------------------------------------
(* The handshake of the commands.                                           *)

\* Who holds the lock has a command under way, or its answer.
Commands ==
  /\ calls \in 0..Len(Asked) /\ lock \in Users \cup {NoUser} /\ cmd \in Request \cup {None}
  /\ lock = NoUser => cmd = None /\ finish = 0
  /\ lock # NoUser => (cmd # None /\ finish = 0) \/ (cmd = None /\ finish = 1)
  /\ cmd.cmd = "PBFILE" => \A c \in cmd.chans : cmd.time \in 1..Len(Recorded[c])
  /\ DOMAIN mgr = {"at", "serving", "msg", "todo", "least"} /\ mgr.serving \in BOOLEAN
  /\ mgr.at # "poll" /\ mgr.serving => cmd # None

LEMMA NoneIsNoRequest == \A q \in Request : q # None /\ q.cmd # "NULL"
<1> SUFFICES ASSUME NEW q \in Request PROVE q # None /\ q.cmd # "NULL"
  OBVIOUS
<1>1. q.cmd # "NULL"
  BY DEF Request
<1> QED BY <1>1 DEF None

LEMMA ServesOne ==
  ASSUME NEW S, NEW T, "NULL" \notin S, Serves(S, T)
  PROVE  mgr.at = "poll" /\ cmd.cmd \in S /\ cmd # None /\ ctl \in T
BY DEF Serves, None

\* The command is answered.
LEMMA AckKeeps ==
  ASSUME Commands, cmd # None, AckCtl, UNCHANGED users,
         DOMAIN mgr' = DOMAIN mgr, mgr'.serving = mgr.serving, mgr'.at = "poll"
  PROVE  Commands'
<1>1. cmd' = None /\ finish = 0 /\ finish' = 1 /\ lock # NoUser /\ UNCHANGED <<calls, lock>>
  BY DEF Commands, AckCtl, users
<1>2. None.cmd # "PBFILE"
  BY DEF None
<1> QED BY <1>1, <1>2 DEF Commands

\* Nothing is taken or answered, and a round that serves has its command.
LEMMA CommandsRest ==
  ASSUME Commands, UNCHANGED <<users, cmd, finish>>,
         DOMAIN mgr' = DOMAIN mgr, mgr'.serving \in BOOLEAN,
         mgr'.at # "poll" /\ mgr'.serving => cmd # None
  PROVE  Commands'
BY DEF Commands, users

LEMMA CommandsNext ==
  ASSUME Commands, [Next]_vars
  PROVE  Commands'
<1>1. ASSUME NEW u \in Users, SendCtlMsg(u)  PROVE Commands'
  <2>1. /\ lock = NoUser /\ lock' = u /\ finish = 0 /\ calls' = calls + 1 /\ calls < Len(Asked)
        /\ cmd' \in Asked[calls + 1] /\ UNCHANGED <<finish, mgr>> /\ u # NoUser
        /\ calls \in Nat /\ Len(Asked) \in Nat
    BY <1>1, UsersAssumption, AskedAssumption DEF SendCtlMsg, Commands, manager
  <2>2. calls + 1 \in 1..Len(Asked)
    BY <2>1
  <2>3. /\ cmd' \in Request
        /\ cmd'.cmd = "PBFILE" => \A c \in cmd'.chans : cmd'.time \in 1..Len(Recorded[c])
    <3>1. /\ cmd' \in Request
          /\ cmd'.cmd = "PBFILE" =>
               \E c \in Chan : cmd'.chans = {c} /\ cmd'.time \in 1..Len(Recorded[c])
      BY <2>1, <2>2, AskedAssumption
    <3> QED BY <3>1
  <2> QED BY <2>1, <2>2, <2>3, NoneIsNoRequest DEF Commands
<1>2. ASSUME NEW u \in Users, Return(u)  PROVE Commands'
  <2>1. /\ lock = u /\ lock' = NoUser /\ finish > 0 /\ finish' = finish - 1 /\ u # NoUser
        /\ UNCHANGED <<calls, cmd, mgr>>
    BY <1>2, UsersAssumption DEF Return, manager
  <2>2. cmd = None /\ finish' = 0
    BY <2>1 DEF Commands
  <2> QED BY <2>1, <2>2 DEF Commands
<1>3. CASE NothingFound \/ SetState
  <2>1. cmd # None /\ AckCtl /\ UNCHANGED <<users, mgr>> /\ mgr.at = "poll"
    <3>1. CASE NothingFound
      <4>1. cmd # None /\ mgr.at = "poll"
        BY <3>1, ServesOne DEF NothingFound
      <4> QED BY <3>1, <4>1 DEF NothingFound
    <3>2. CASE SetState
      BY <3>2 DEF SetState
    <3> QED BY <1>3, <3>1, <3>2
  <2> QED BY <2>1, AckKeeps
<1>4. CASE Start \/ Stop \/ Step \/ Turn \/ SeekTo
  <2>1. cmd # None /\ UNCHANGED <<users, cmd, finish>>
    <3>1. CASE Start
      BY <3>1, ServesOne DEF Start, Finds
    <3>2. CASE Stop
      BY <3>2, ServesOne DEF Stop
    <3>3. CASE Step
      BY <3>3, ServesOne DEF Step
    <3>4. CASE Turn
      BY <3>4, ServesOne DEF Turn
    <3>5. CASE SeekTo
      BY <3>5, ServesOne DEF SeekTo
    <3> QED BY <1>4, <3>1, <3>2, <3>3, <3>4, <3>5
  <2>2. DOMAIN mgr' = {"at", "serving", "msg", "todo", "least"} /\ mgr'.serving = TRUE
    <3>1. \E m, todo : Tell(TRUE, m, todo)
      BY <1>4 DEF Start, Stop, Step, Turn, SeekTo
    <3> QED BY <3>1 DEF Tell
  <2> QED BY <2>1, <2>2, CommandsRest DEF Commands
<1>5. CASE Advance
  <2>1. UNCHANGED <<users, cmd, finish>>
    BY <1>5 DEF Advance
  <2>2. DOMAIN mgr' = {"at", "serving", "msg", "todo", "least"} /\ mgr'.serving = FALSE
    BY <1>5 DEF Advance, Tell
  <2> QED BY <2>1, <2>2, CommandsRest DEF Commands
<1>6. CASE AllOver
  <2>1. UNCHANGED <<users, cmd, finish>> /\ mgr.at # "poll"
    BY <1>6 DEF AllOver, Told
  <2>2. DOMAIN mgr' = {"at", "serving", "msg", "todo", "least"} /\ mgr'.serving = mgr.serving
    BY <1>6 DEF AllOver, Tell
  <2> QED BY <2>1, <2>2, CommandsRest DEF Commands
<1>7. CASE Send \/ Answer
  <2>1. /\ UNCHANGED <<users, cmd, finish>> /\ mgr.at # "poll"
        /\ DOMAIN mgr' = DOMAIN mgr /\ mgr'.serving = mgr.serving
    BY <1>7 DEF Send, Answer, Commands
  <2> QED BY <2>1, CommandsRest DEF Commands
<1>8. CASE AllTold \/ Updated
  <2>1. /\ UNCHANGED users /\ AckIfServing /\ mgr.at # "poll"
        /\ DOMAIN mgr' = DOMAIN mgr /\ mgr'.serving = mgr.serving /\ mgr'.at = "poll"
    BY <1>8 DEF AllTold, Updated, Told, Rest, Commands
  <2>2. CASE mgr.serving
    BY <2>1, <2>2, AckKeeps DEF AckIfServing, Commands
  <2>3. CASE ~mgr.serving
    BY <2>1, <2>3, CommandsRest DEF AckIfServing, Commands
  <2> QED BY <2>2, <2>3
<1>9. CASE (\E c \in Chan : Channel(c)) \/ TooManyChannels \/ UNCHANGED vars
  <2>1. UNCHANGED <<users, cmd, finish, mgr>>
    BY <1>9 DEF vars, manager, TooManyChannels, Channel, HearPlay, HearUpdate, HearStop, HearTurn, HearSeek, Reply,
                NoMessage, Show, NotDue, SeeStop, Read, NextFile
  <2> QED BY <2>1, CommandsRest DEF Commands
<1> QED BY <1>1, <1>2, <1>3, <1>4, <1>5, <1>6, <1>7, <1>8, <1>9 DEF Next, Control
---------------------------------------------------------------------------
(* A step of a channel thread.                                              *)

\* One that neither takes a message nor answers one.
LEMMA ChannelKeeps ==
  ASSUME IInv, NEW c \in Chan, NEW x, chn' = [chn EXCEPT ![c] = x],
         UNCHANGED <<cmd, ctl, forward, list, mgr, sent, done, box>>,
         Fit(x, c, Informed(c))
  PROVE  IInv'
<1>1. Lists' /\ Managed' /\ Exchanged'
  BY DEF IInv, Lists, Managed, Exchanged, OneExchange, Addressed, Listed
<1>2. \A d \in Chan : Fit(chn'[d], d, Informed(d))
  BY DEF IInv, Fits
<1>3. \A d \in Chan : Fit(chn[d], d, Informed(d))'
  BY <1>2 DEF Fit, Opened, Refused, Informed, Playing, Direction, InRound, Listed
<1>4. DOMAIN chn' = Chan
  BY DEF IInv, Fits
<1> QED BY <1>1, <1>3, <1>4 DEF IInv, Fits

\* Who has a message is the channel that the control thread waits for.
LEMMA Asking ==
  ASSUME IInv, NEW c \in Chan, sent[c] > 0 \/ done[c] > 0
  PROVE  /\ mgr.at = "await" /\ c = Addressed /\ c \in mgr.todo /\ c \in Listed
         /\ sent[c] + done[c] = 1
         /\ sent[c] > 0 => done[c] = 0 /\ ~Informed(c) /\ box[c] = mgr.msg
<1>1. sent[c] \in Nat /\ done[c] \in Nat /\ sent[c] + done[c] = 1
  BY DEF IInv, Exchanged, OneExchange
<1>2. mgr.at = "await" /\ c = Addressed
  BY <1>1 DEF IInv, Exchanged, OneExchange
<1>3. mgr.todo # {} /\ mgr.todo \in SUBSET Nat /\ mgr.todo \subseteq Listed
  BY <1>2 DEF IInv, Managed, Listed, Chan
<1>4. c \in mgr.todo
  BY <1>2, <1>3, MinExists DEF Addressed
<1> QED BY <1>1, <1>2, <1>3, <1>4 DEF IInv, Exchanged, Informed

LEMMA ReplyKeeps ==
  ASSUME IInv, NEW c \in Chan, NEW x, NEW a, sent[c] > 0,
         chn' = [chn EXCEPT ![c] = x], Reply(c, a), Fit(x, c, TRUE)
  PROVE  IInv'
<1>1. /\ mgr.at = "await" /\ c = Addressed /\ c \in mgr.todo
      /\ sent[c] = 1 /\ done[c] = 0
  BY Asking DEF IInv, Exchanged
<1>2. UNCHANGED <<cmd, ctl, forward, list, mgr>>
  BY DEF Reply
<1>3. /\ sent' \in [Chan -> Nat] /\ done' \in [Chan -> Nat] /\ DOMAIN box' = Chan
      /\ sent'[c] = 0 /\ done'[c] = 1
      /\ \A d \in Chan : d # c => sent'[d] = sent[d] /\ done'[d] = done[d] /\ box'[d] = box[d]
  BY <1>1 DEF Reply, IInv, Exchanged
<1>4. Lists' /\ Managed'
  BY <1>2 DEF IInv, Lists, Managed, Listed
<1>5. Exchanged'
  BY <1>1, <1>2, <1>3 DEF IInv, Exchanged, OneExchange, Addressed
<1>6. DOMAIN chn' = Chan /\ chn'[c] = x /\ \A d \in Chan : d # c => chn'[d] = chn[d]
  BY DEF IInv, Fits
<1>7. Informed(c)' /\ \A d \in Chan : d # c => (Informed(d)' <=> Informed(d))
  BY <1>2, <1>3 DEF Informed
<1>8. \A d \in Chan : Fit(chn'[d], d, Informed(d)')
  <2>1. Informed(c)' = TRUE
    BY <1>7 DEF Informed
  <2>2. \A d \in Chan : d # c => Informed(d)' = Informed(d)
    BY <1>7 DEF Informed
  <2> QED BY <1>6, <2>1, <2>2 DEF IInv, Fits
<1>9. \A d \in Chan : Fit(chn[d], d, Informed(d))'
  BY <1>2, <1>8 DEF Fit, Opened, Refused, Playing, Direction, InRound, Listed
<1> QED BY <1>4, <1>5, <1>6, <1>9 DEF IInv, Fits

\* What a channel with a message is like before it hears it.
LEMMA Uninformed ==
  ASSUME IInv, NEW c \in Chan, sent[c] > 0
  PROVE  /\ mgr.at = "await" /\ c \in Listed /\ box[c] = mgr.msg
         /\ Fit(chn[c], c, FALSE)
<1>1. ~Informed(c) /\ mgr.at = "await" /\ c \in Listed /\ box[c] = mgr.msg
  BY Asking
<1>2. Informed(c) = FALSE
  BY <1>1 DEF Informed
<1> QED BY <1>1, <1>2 DEF IInv, Fits

LEMMA HearPlayKeeps == ASSUME IInv, NEW c \in Chan, HearPlay(c) PROVE IInv'
<1> DEFINE x == [chn[c] EXCEPT !.state = "wait", !.ready = 0]
<1>1. /\ sent[c] > 0 /\ mgr.msg.cmd = "PLAY" /\ mgr.at = "await" /\ c \in Listed
      /\ Fit(chn[c], c, FALSE)
  BY Uninformed DEF HearPlay, Hears
<1>2. Fit(x, c, TRUE)
  BY <1>1 DEF Fit, Opened, Refused, Playing, Direction, InRound, ChnFields
<1>3. chn' = [chn EXCEPT ![c] = x]
  BY DEF HearPlay
<1> QED BY <1>1, <1>2, <1>3, ReplyKeeps DEF HearPlay

LEMMA HearUpdateKeeps == ASSUME IInv, NEW c \in Chan, HearUpdate(c) PROVE IInv'
<1>1. PICK s \in {"wait", "frame"} :
        chn' = [chn EXCEPT ![c] = [chn[c] EXCEPT !.ref = box[c].time, !.state = s]]
  BY DEF HearUpdate
<1> DEFINE x == [chn[c] EXCEPT !.ref = box[c].time, !.state = s]
<1>2. /\ sent[c] > 0 /\ mgr.msg.cmd = "UPDATEPTS" /\ mgr.at = "await" /\ c \in Listed
      /\ chn[c].state # "idle" /\ Fit(chn[c], c, FALSE)
  BY Uninformed DEF HearUpdate, Hears
<1>3. Fit(x, c, TRUE)
  BY <1>2 DEF Fit, Opened, Refused, Playing, Direction, InRound, ChnFields
<1>4. \E a : Reply(c, a)
  BY DEF HearUpdate
<1> QED BY <1>1, <1>2, <1>3, <1>4, ReplyKeeps

LEMMA HearStopKeeps == ASSUME IInv, NEW c \in Chan, HearStop(c) PROVE IInv'
<1> DEFINE x == [Closed(chn[c]) EXCEPT !.state = "idle", !.ref = 0]
<1>1. /\ sent[c] > 0 /\ mgr.msg.cmd = "STOP" /\ mgr.at = "await" /\ c \in Listed
      /\ Fit(chn[c], c, FALSE)
  BY Uninformed DEF HearStop, Hears
<1>2. Fit(x, c, TRUE)
  BY <1>1 DEF Fit, Opened, Refused, Playing, Direction, InRound, ChnFields, Closed
<1>3. chn' = [chn EXCEPT ![c] = x]
  BY DEF HearStop
<1> QED BY <1>1, <1>2, <1>3, ReplyKeeps DEF HearStop

LEMMA HearTurnKeeps == ASSUME IInv, NEW c \in Chan, HearTurn(c) PROVE IInv'
<1> DEFINE x == [chn[c] EXCEPT !.forward = IF box[c].cmd = "BACKWARD" THEN -1 ELSE 1]
<1>1. /\ sent[c] > 0 /\ mgr.msg.cmd \in {"BACKWARD", "FORWARD"} /\ mgr.at = "await"
      /\ c \in Listed /\ box[c] = mgr.msg /\ chn[c].state # "idle" /\ Fit(chn[c], c, FALSE)
  BY Uninformed DEF HearTurn, Hears
<1>2. Fit(x, c, TRUE)
  BY <1>1 DEF Fit, Opened, Refused, Playing, Direction, InRound, ChnFields
<1>3. chn' = [chn EXCEPT ![c] = x]
  BY DEF HearTurn
<1> QED BY <1>1, <1>2, <1>3, ReplyKeeps DEF HearTurn

LEMMA HearSeekKeeps == ASSUME IInv, NEW c \in Chan, HearSeek(c) PROVE IInv'
<1> DEFINE found == {k \in 1..Len(list[c]) : Seekable(list[c][k], box[c].time)}
           ch == [chn[c] EXCEPT !.index = Max(found) - 1, !.ready = 0]
           f == list[c][Max(found)]
<1>1. /\ sent[c] > 0 /\ mgr.msg.cmd = "SEEK" /\ mgr.at = "await" /\ c \in Listed
      /\ chn[c].state # "idle" /\ Fit(chn[c], c, FALSE) /\ Len(list[c]) \in Nat
  BY Uninformed DEF HearSeek, Hears, IInv, Lists
<1>2. CASE found = {}
  <2> DEFINE x == [Closed(chn[c]) EXCEPT !.index = -1]
  <2>1. Fit(x, c, TRUE)
    BY <1>1 DEF Fit, Opened, Refused, Playing, Direction, InRound, ChnFields, Closed
  <2>2. chn' = [chn EXCEPT ![c] = x]
    BY <1>2 DEF HearSeek
  <2> QED BY <1>1, <2>1, <2>2, ReplyKeeps DEF HearSeek
<1>3. CASE found # {}
  <2>1. Max(found) \in 1..Len(list[c])
    <3>1. found \in SUBSET (1..Len(list[c]))
      OBVIOUS
    <3> HIDE DEF found
    <3> QED BY <1>1, <1>3, <3>1, MaxRange
  <2>2. \E k : chn' = [chn EXCEPT ![c] = At(ch, f, k)]
    BY <1>3 DEF HearSeek
  <2>3. PICK k : chn' = [chn EXCEPT ![c] = At(ch, f, k)]
    BY <2>2
  <2>4. Fit(At(ch, f, k), c, TRUE)
    <3> DEFINE m == Max(found)
    <3> HIDE DEF found, f, m
    <3> QED BY <1>1, <2>1 DEF m, Fit, Opened, Refused, Playing, Direction, InRound, ChnFields, At
  <2> QED BY <1>1, <2>3, <2>4, ReplyKeeps DEF HearSeek
<1> QED BY <1>2, <1>3

\* Inside the frame loop only the position, the buffer and the state change.
LEMMA LoopKeeps ==
  ASSUME IInv, NEW c \in Chan, NEW x, chn[c].state # "idle",
         chn' = [chn EXCEPT ![c] = x],
         UNCHANGED <<users, cmd, finish, manager, exchange>>,
         ChnFields \subseteq DOMAIN x, x.state # "idle",
         x.forward = chn[c].forward, x.open = chn[c].open, x.index = chn[c].index
  PROVE  IInv'
<1>1. Fit(chn[c], c, Informed(c))
  BY DEF IInv, Fits
<1>2. Fit(x, c, Informed(c))
  BY <1>1 DEF Fit
<1> QED BY <1>2, ChannelKeeps DEF manager, exchange

LEMMA Fields == ASSUME IInv, NEW c \in Chan PROVE ChnFields \subseteq DOMAIN chn[c]
BY DEF IInv, Fits, Fit

LEMMA FrameLoopKeeps ==
  ASSUME IInv, NEW c \in Chan, NoMessage(c) \/ Show(c) \/ NotDue(c) \/ SeeStop(c) \/ Read(c)
  PROVE  IInv'
<1>1. CASE NoMessage(c)
  <2> DEFINE x == [chn[c] EXCEPT !.state = "frame"]
  <2>1. chn[c].state # "idle" /\ chn' = [chn EXCEPT ![c] = x]
    BY <1>1 DEF NoMessage
  <2>2. /\ ChnFields \subseteq DOMAIN x /\ x.state # "idle"
        /\ x.forward = chn[c].forward /\ x.open = chn[c].open /\ x.index = chn[c].index
    BY Fields DEF ChnFields
  <2> QED BY <1>1, <2>1, <2>2, LoopKeeps DEF NoMessage
<1>2. CASE Show(c)
  BY <1>2, Fields, LoopKeeps DEF Show, ChnFields
<1>3. CASE NotDue(c)
  <2> DEFINE x == [chn[c] EXCEPT !.state = "wait"]
  <2>1. chn[c].state # "idle" /\ chn' = [chn EXCEPT ![c] = x]
    BY <1>3 DEF NotDue
  <2>2. /\ ChnFields \subseteq DOMAIN x /\ x.state # "idle"
        /\ x.forward = chn[c].forward /\ x.open = chn[c].open /\ x.index = chn[c].index
    BY Fields DEF ChnFields
  <2> QED BY <1>3, <2>1, <2>2, LoopKeeps DEF NotDue
<1>4. CASE SeeStop(c)
  <2> DEFINE x == [chn[c] EXCEPT !.state = "play"]
  <2>1. chn[c].state # "idle" /\ chn' = [chn EXCEPT ![c] = x]
    BY <1>4 DEF SeeStop
  <2>2. /\ ChnFields \subseteq DOMAIN x /\ x.state # "idle"
        /\ x.forward = chn[c].forward /\ x.open = chn[c].open /\ x.index = chn[c].index
    BY Fields DEF ChnFields
  <2> QED BY <1>4, <2>1, <2>2, LoopKeeps DEF SeeStop
<1>5. CASE Read(c)
  <2> DEFINE ks == IF chn[c].open THEN Coming(chn[c], File(c)) ELSE {}
             k  == IF chn[c].forward = 1 THEN Min(ks) ELSE Max(ks)
             x  == [chn[c] EXCEPT !.state = "over"]
             y  == [chn[c] EXCEPT !.ready = File(c).frames[k], !.next = k + 1, !.back = k - 1]
  <2>1. chn' = [chn EXCEPT ![c] = x] \/ chn' = [chn EXCEPT ![c] = y]
    BY <1>5, Zenon DEF Read
  <2>2. /\ chn[c].state = "frame" /\ UNCHANGED <<users, cmd, finish, manager, exchange>>
    BY <1>5 DEF Read
  <2> HIDE DEF k
  <2>3. /\ ChnFields \subseteq DOMAIN x /\ x.state # "idle"
        /\ x.forward = chn[c].forward /\ x.open = chn[c].open /\ x.index = chn[c].index
    BY Fields DEF ChnFields
  <2>4. /\ ChnFields \subseteq DOMAIN y /\ y.state = chn[c].state
        /\ y.forward = chn[c].forward /\ y.open = chn[c].open /\ y.index = chn[c].index
    BY Fields DEF ChnFields
  <2> HIDE DEF x, y
  <2> QED BY <2>1, <2>2, <2>3, <2>4, LoopKeeps
<1> QED BY <1>1, <1>2, <1>3, <1>4, <1>5

LEMMA NextFileKeeps == ASSUME IInv, NEW c \in Chan, NextFile(c) PROVE IInv'
<1> DEFINE ch == chn[c]
           n == Len(list[c])
<1>1. ch.state = "over" /\ UNCHANGED <<cmd, ctl, forward, list, mgr, sent, done, box>>
  BY DEF NextFile, manager, exchange
<1>2. Fit(ch, c, Informed(c)) /\ n \in Nat
  BY DEF IInv, Fits, Lists
<1>3. c \in Listed /\ ch.index \in -1..n
  BY <1>1, <1>2 DEF Fit, Opened, Refused, Playing
<1>4. n >= 1
  BY <1>2, <1>3 DEF Listed, IInv, Lists
<1>5. \/ \E i \in {-1, n} : chn' = [chn EXCEPT ![c] = Past(ch, i)]
      \/ \E i \in 0..(n - 1) : \E f, k :
           chn' = [chn EXCEPT ![c] = At([ch EXCEPT !.index = i, !.ready = 0, !.state = "play"], f, k)]
  <2>1. Informed(c) \in BOOLEAN /\ ch.forward \in {-1, 1}
    BY <1>1, <1>2 DEF Fit, Opened, Refused, Direction, IInv, Managed, Informed
  <2> DEFINE to == ch.index - ch.forward
             f  == list[c][to + 1]
             k  == IF ch.forward = 1 \/ ~Opens(f) THEN 1 ELSE LastIn(f)
             in == At([ch EXCEPT !.index = to, !.ready = 0, !.state = "play"], f, k)
  <2>2. chn' = [chn EXCEPT ![c] =
                  IF ch.forward = 1 THEN IF ch.index <= 0 THEN Past(ch, -1) ELSE in
                  ELSE IF ch.index >= n - 1 THEN Past(ch, n) ELSE in]
    BY Zenon DEF NextFile
  <2>3. \/ chn' = [chn EXCEPT ![c] = Past(ch, -1)]
        \/ chn' = [chn EXCEPT ![c] = Past(ch, n)]
        \/ to \in 0..(n - 1) /\ chn' = [chn EXCEPT ![c] = in]
    <3>1. ch.forward = 1 /\ ~(ch.index <= 0) => to \in 0..(n - 1)
      BY <1>3, <1>4
    <3>2. ch.forward = -1 /\ ~(ch.index >= n - 1) => to \in 0..(n - 1)
      BY <1>3, <1>4
    <3> HIDE DEF to, in
    <3> QED BY <2>1, <2>2, <3>1, <3>2
  <2> HIDE DEF k, f
  <2> QED BY <2>3 DEF in
<1>6. ASSUME NEW i \in {-1, n}, chn' = [chn EXCEPT ![c] = Past(ch, i)] PROVE IInv'
  <2>1. Fit(Past(ch, i), c, Informed(c))
    BY <1>1, <1>2 DEF Fit, Opened, Refused, ChnFields, Past, Closed
  <2> QED BY <1>1, <1>6, <2>1, ChannelKeeps
<1>7. ASSUME NEW i \in 0..(n - 1), NEW f, NEW k,
             chn' = [chn EXCEPT ![c] = At([ch EXCEPT !.index = i, !.ready = 0, !.state = "play"], f, k)]
      PROVE  IInv'
  <2> DEFINE x == At([ch EXCEPT !.index = i, !.ready = 0, !.state = "play"], f, k)
  <2>1. Fit(x, c, Informed(c))
    BY <1>1, <1>2 DEF Fit, Opened, Refused, ChnFields, At
  <2> QED BY <1>1, <1>7, <2>1, ChannelKeeps
<1> QED BY <1>5, <1>6, <1>7

---------------------------------------------------------------------------
(* The users and the control thread.                                        *)

LEMMA InitIInv == Init => IInv
<1> SUFFICES ASSUME Init PROVE IInv
  OBVIOUS
<1>1. Lists /\ Listed = {}
  BY DEF Init, Lists, Listed
<1>2. Managed
  BY <1>1 DEF Init, Managed
<1>3. Exchanged
  BY DEF Init, Exchanged, OneExchange
<1>4. Fits
  BY <1>1 DEF Init, Fits, Fit, Opened, Refused, ChnFields, Playing, InRound
<1> QED BY <1>1, <1>2, <1>3, <1>4 DEF IInv

LEMMA OthersKeep ==
  ASSUME IInv, UNCHANGED <<ctl, forward, list, mgr, chn, sent, done, box>>,
         cmd' = cmd \/ ~Refuses(cmd)
  PROVE  IInv'
<1>1. Lists' /\ Managed' /\ Exchanged'
  BY DEF IInv, Lists, Managed, Exchanged, OneExchange, Addressed, Listed
<1>2. cmd' = cmd \/ ~Refused
  BY DEF Refused
<1>3. ASSUME NEW c \in Chan PROVE Fit(chn[c], c, Informed(c))'
  <2>1. Fit(chn[c], c, Informed(c)) /\ (Informed(c)' = Informed(c))
    BY DEF IInv, Fits, Informed
  <2>2. Fit(chn'[c], c, Informed(c)')
    BY <2>1
  <2> QED BY <1>2, <2>2 DEF Fit, Opened, Refused, Playing, Direction, InRound, Listed
<1> QED BY <1>1, <1>3 DEF IInv, Fits

\* Between two questions no channel has a message, and none has answered.
LEMMA Quiet ==
  ASSUME IInv, mgr.at # "await", NEW c \in Chan
  PROVE  sent[c] = 0 /\ done[c] = 0 /\ (Informed(c) = (c \notin mgr.todo))
<1>1. sent[c] = 0 /\ done[c] = 0
  BY DEF IInv, Exchanged, OneExchange
<1> QED BY <1>1 DEF Informed

LEMMA SetStateKeeps == ASSUME IInv, SetState PROVE IInv'
<1>1. /\ mgr.at = "poll" /\ ~Refuses(cmd')
      /\ UNCHANGED <<forward, list, mgr, chn, sent, done, box>>
  BY DEF SetState, exchange, AckCtl, None, Refuses
<1>2. ctl' = "idle" <=> ctl = "idle"
  BY DEF SetState, Goes
<1>3. ~Refused
  BY DEF SetState, Taught, Serves, Refused, Refuses
<1> QED BY <1>1, <1>2, <1>3
        DEF IInv, Lists, Managed, Exchanged, OneExchange, Addressed, Listed, Fits, Fit, Opened, Refused, Informed,
            Playing, Direction, InRound

\* A search gives each channel a list.
LEMMA SearchLists ==
  ASSUME NEW q, NEW c \in Chan
  PROVE  /\ Len(Search(q)[c]) \in Nat
         /\ Search(q)[c] = <<>> <=> Len(Search(q)[c]) = 0
<1>1. Recorded[c] \in Seq(Recording)
  BY RecordedAssumption
<1>2. CASE c \notin q.chans
  BY <1>2 DEF Search
<1>3. CASE c \in q.chans /\ q.cmd = "PBTIME"
  <2>1. Search(q)[c] = Recorded[c]
    BY <1>3 DEF Search
  <2> QED BY <1>1, <2>1
<1>4. CASE c \in q.chans /\ q.cmd # "PBTIME"
  <2>1. Search(q)[c] = <<Recorded[c][q.time]>>
    BY <1>4 DEF Search
  <2> QED BY <2>1
<1> QED BY <1>2, <1>3, <1>4

\* While nothing is played every channel thread is idle, its file closed.
LEMMA AllIdle ==
  ASSUME IInv, mgr.at = "poll", ctl = "idle", NEW c \in Chan
  PROVE  /\ ChnFields \subseteq DOMAIN chn[c] /\ chn[c].state = "idle"
         /\ chn[c].open => Refused /\ c \in Listed
BY DEF IInv, Fits, Fit, Opened, Refused, Playing, InRound

\* Starting opens the files, and so does refusing.
LEMMA StartKeeps == ASSUME IInv, Start PROVE IInv'
<1>1. /\ mgr.at = "poll" /\ ctl = "idle" /\ list' = Search(cmd) /\ forward' = 1
      /\ ~Refuses(cmd) /\ UNCHANGED <<ctl, sent, done, box>>
  BY DEF Start, Finds, Serves, exchange
<1>2. Lists'
  BY <1>1, SearchLists DEF Lists
<1>3. /\ mgr'.at = "tell" /\ mgr'.msg.cmd = "PLAY" /\ mgr'.todo = Listed'
      /\ DOMAIN mgr' = {"at", "serving", "msg", "todo", "least"}
  BY DEF Start, Tell, Listed
<1>4. Managed'
  BY <1>1, <1>3 DEF Managed, Rounds
<1>5. Exchanged'
  BY <1>1, Quiet DEF IInv, Exchanged, OneExchange
<1>6. DOMAIN chn' = Chan
  BY DEF Start, Finds
<1>7. ASSUME NEW c \in Chan PROVE Fit(chn[c], c, Informed(c))'
  <2> DEFINE n == Len(list'[c])
             ch == [chn[c] EXCEPT !.forward = 1, !.ready = 0, !.index = Indexed(list', c)]
  <2>1. chn'[c] = IF n = 0 THEN ch ELSE At(ch, list'[c][n], 1)
    BY DEF Start, Finds
  <2>2. ChnFields \subseteq DOMAIN chn[c] /\ chn[c].state = "idle" /\ ~chn[c].open
    BY <1>1, AllIdle DEF Refused
  <2>3. n \in Nat /\ (list'[c] = <<>> <=> n = 0) /\ done'[c] = 0
    BY <1>1, <1>2, Quiet DEF Lists
  <2>4. CASE n = 0
    <3>1. c \notin Listed'
      BY <2>3, <2>4 DEF Listed
    <3>2. ChnFields \subseteq DOMAIN chn'[c] /\ chn'[c].state = "idle" /\ ~chn'[c].open
      BY <2>1, <2>2, <2>4 DEF ChnFields
    <3> QED BY <3>1, <3>2 DEF Fit, Opened, Refused, Playing
  <2>5. CASE n # 0
    <3>1. c \in Listed' /\ Indexed(list', c) = n - 1
      BY <2>3, <2>5 DEF Listed, Indexed
    <3>2. ~Informed(c)'
      BY <1>3, <2>3, <3>1 DEF Informed
    <3>3. Informed(c)' = FALSE
      BY <3>2 DEF Informed
    <3>4. /\ ChnFields \subseteq DOMAIN chn'[c] /\ chn'[c].state = "idle"
          /\ chn'[c].forward = 1 /\ chn'[c].index = n - 1
      BY <2>1, <2>2, <2>5, <3>1 DEF ChnFields, At
    <3>5. Fit(chn[c], c, FALSE)'
      BY <1>1, <1>3, <2>3, <2>5, <3>1, <3>4 DEF Fit, Opened, Refused, Playing, Direction, InRound
    <3> QED BY <3>3, <3>5
  <2> QED BY <2>4, <2>5
<1> QED BY <1>2, <1>4, <1>5, <1>6, <1>7 DEF IInv, Fits

LEMMA TooManyKeeps == ASSUME IInv, TooManyChannels PROVE IInv'
<1>1. /\ mgr.at = "poll" /\ ctl = "idle" /\ list' = Search(cmd) /\ forward' = 1
      /\ UNCHANGED <<cmd, ctl, mgr, sent, done, box>>
  BY DEF TooManyChannels, Finds, Serves, exchange
<1>2. Lists'
  BY <1>1, SearchLists DEF Lists
<1>3. Managed' /\ Exchanged'
  BY <1>1 DEF IInv, Managed, Exchanged, OneExchange, Addressed
<1>4. Refused'
  BY <1>1 DEF TooManyChannels, Refused
<1>5. ASSUME NEW c \in Chan PROVE Fit(chn[c], c, Informed(c))'
  <2> DEFINE n == Len(list'[c])
             ch == [chn[c] EXCEPT !.forward = 1, !.ready = 0, !.index = Indexed(list', c)]
  <2>1. chn'[c] = IF n = 0 THEN ch ELSE At(ch, list'[c][n], 1)
    BY DEF TooManyChannels, Finds
  <2>2. ChnFields \subseteq DOMAIN chn[c] /\ chn[c].state = "idle"
    BY <1>1, AllIdle
  <2>3. n \in Nat /\ (list'[c] = <<>> <=> n = 0)
    BY <1>2 DEF Lists
  <2>4. CASE n = 0
    <3>1. c \notin Listed'
      BY <2>3, <2>4 DEF Listed
    <3>2. ~chn[c].open
      BY <1>1, <3>1, AllIdle DEF Refused, Listed
    <3>3. ChnFields \subseteq DOMAIN chn'[c] /\ chn'[c].state = "idle" /\ ~chn'[c].open
      BY <2>1, <2>2, <2>4, <3>2 DEF ChnFields
    <3> QED BY <3>1, <3>3 DEF Fit, Opened, Playing
  <2>5. CASE n # 0
    <3>1. c \in Listed' /\ Indexed(list', c) = n - 1
      BY <2>3, <2>5 DEF Listed, Indexed
    <3>2. /\ ChnFields \subseteq DOMAIN chn'[c] /\ chn'[c].state = "idle"
          /\ chn'[c].forward = 1 /\ chn'[c].index = n - 1
      BY <2>1, <2>2, <2>5, <3>1 DEF ChnFields, At
    <3> QED BY <1>1, <1>4, <2>3, <2>5, <3>1, <3>2
            DEF Fit, Opened, Playing, Direction, InRound
  <2> QED BY <2>4, <2>5
<1>6. DOMAIN chn' = Chan
  BY DEF TooManyChannels, Finds
<1> QED BY <1>2, <1>3, <1>5, <1>6 DEF IInv, Fits

LEMMA NothingFoundKeeps == ASSUME IInv, NothingFound PROVE IInv'
<1>1. /\ mgr.at = "poll" /\ ctl = "idle" /\ list' = Search(cmd) /\ forward' = 1
      /\ ~Found(Search(cmd)) /\ ~Refuses(cmd') /\ UNCHANGED <<ctl, mgr, sent, done, box>>
  BY DEF NothingFound, Serves, exchange, AckCtl, None, Refuses
<1>2. Lists'
  BY <1>1, SearchLists DEF Lists
<1>3. Managed'
  BY <1>1 DEF IInv, Managed
<1>4. Exchanged'
  BY <1>1 DEF IInv, Exchanged, OneExchange, Addressed
<1>5. ASSUME NEW c \in Chan PROVE Fit(chn[c], c, Informed(c))'
  <2>1. chn'[c] = [chn[c] EXCEPT !.forward = 1, !.ready = 0, !.index = Indexed(list', c)]
    BY DEF NothingFound
  <2>2. ChnFields \subseteq DOMAIN chn[c] /\ chn[c].state = "idle" /\ ~chn[c].open
    BY <1>1, AllIdle DEF Refused, Refuses
  <2>3. /\ ChnFields \subseteq DOMAIN chn'[c] /\ chn'[c].state = "idle" /\ ~chn'[c].open
        /\ chn'[c].index = Indexed(list', c)
    BY <2>1, <2>2 DEF ChnFields
  <2>4. c \in Listed' => chn'[c].index \in -1..Len(list'[c])
    BY <1>2, <2>3 DEF Listed, Lists, Indexed
  <2> QED BY <1>1, <2>3, <2>4 DEF Fit, Opened, Refused, Playing, InRound
<1>6. DOMAIN chn' = Chan
  BY DEF NothingFound
<1> QED BY <1>2, <1>3, <1>4, <1>5, <1>6 DEF IInv, Fits

\* A round other than of PLAY begins, and STEP sets every direction before.
LEMMA RoundBegins ==
  ASSUME IInv, mgr.at = "poll" \/ Told({"UPDATEPTS"}), ctl # "idle",
         NEW m \in Rounds \ {"PLAY"}, NEW serving, NEW t,
         Tell(serving, [cmd |-> m, time |-> t], Listed),
         UNCHANGED <<ctl, list, exchange>>,
         \/ UNCHANGED <<forward, chn>>
         \/ forward' = 1 /\ chn' = [c \in Chan |-> [chn[c] EXCEPT !.forward = 1]]
  PROVE  IInv'
<1>1. /\ mgr'.at = "tell" /\ mgr'.msg.cmd = m /\ mgr'.todo = Listed /\ Listed' = Listed
      /\ DOMAIN mgr' = {"at", "serving", "msg", "todo", "least"}
      /\ UNCHANGED <<ctl, list, sent, done, box>>
  BY DEF Tell, Listed, exchange
<1>2. Lists'
  BY <1>1 DEF IInv, Lists
<1>3. Managed'
  BY <1>1 DEF IInv, Managed
<1>4. mgr.at # "await" /\ mgr.todo = {} /\ (mgr.at # "poll" => mgr.msg.cmd = "UPDATEPTS")
  BY DEF Told, IInv, Managed
<1>5. Exchanged'
  BY <1>1, <1>4, Quiet DEF IInv, Exchanged, OneExchange
<1>6. DOMAIN chn' = Chan
  BY DEF IInv, Fits
<1>7. ASSUME NEW c \in Chan PROVE Fit(chn[c], c, Informed(c))'
  <2>1. Fit(chn[c], c, TRUE)
    BY <1>4, Quiet DEF IInv, Fits
  <2>2. /\ ChnFields \subseteq DOMAIN chn[c]
        /\ chn[c].state = "idle" <=> c \notin Listed
        /\ chn[c].state = "idle" => ~chn[c].open
        /\ chn[c].state # "idle" => chn[c].forward = forward
        /\ chn[c].open => chn[c].index \in 0..(Len(list[c]) - 1)
        /\ c \in Listed => chn[c].index \in -1..Len(list[c])
    BY <1>4, <2>1 DEF Fit, Opened, Refused, Playing, Direction, InRound
  <2>3. /\ ChnFields \subseteq DOMAIN chn'[c]
        /\ chn'[c].state = chn[c].state /\ chn'[c].open = chn[c].open
        /\ chn'[c].index = chn[c].index
        /\ chn'[c].state # "idle" => chn'[c].forward = forward'
    BY <2>2 DEF ChnFields
  <2>4. done'[c] = 0
    BY <1>1, <1>4, Quiet
  <2>5. c \in Listed => Informed(c)' = FALSE
    BY <1>1, <2>4 DEF Informed
  <2>6. CASE c \in Listed
    <3>1. Fit(chn[c], c, FALSE)'
      BY <1>1, <2>2, <2>3, <2>6 DEF Fit, Opened, Refused, Playing, Direction, InRound
    <3> QED BY <2>5, <2>6, <3>1
  <2>7. CASE c \notin Listed
    BY <1>1, <2>2, <2>3, <2>7 DEF Fit, Opened, Refused, Playing, InRound
  <2> QED BY <2>6, <2>7
<1> QED BY <1>2, <1>3, <1>5, <1>6, <1>7 DEF IInv, Fits

LEMMA RoundsKeep ==
  ASSUME IInv, Stop \/ Step \/ Turn \/ SeekTo \/ Advance \/ AllOver
  PROVE  IInv'
<1>1. CASE Stop
  BY <1>1, RoundBegins DEF Stop, Serves, Rounds
<1>2. CASE Step
  BY <1>2, RoundBegins DEF Step, Serves, Rounds
<1>3. CASE Turn
  BY <1>3, RoundBegins DEF Turn, Serves, Rounds
<1>4. CASE SeekTo
  BY <1>4, RoundBegins DEF SeekTo, Serves, Rounds
<1>5. CASE Advance
  BY <1>5, RoundBegins DEF Advance, Rounds
<1>6. CASE AllOver
  <2>1. ctl # "idle" /\ Told({"UPDATEPTS"})
    BY <1>6 DEF AllOver, Told, IInv, Managed
  <2> QED BY <1>6, <2>1, RoundBegins DEF AllOver, Rounds
<1> QED BY <1>1, <1>2, <1>3, <1>4, <1>5, <1>6

LEMMA SendKeeps == ASSUME IInv, Send PROVE IInv'
<1> DEFINE a == Addressed
<1>1. /\ mgr.at = "tell" /\ a \in mgr.todo /\ a \in Chan
  <2>1. mgr.todo \in SUBSET Nat /\ mgr.todo # {} /\ mgr.todo \subseteq Chan
    BY DEF Send, IInv, Managed, Listed, Chan
  <2>2. a \in mgr.todo
    BY <2>1, MinExists DEF Addressed
  <2> QED BY <2>1, <2>2 DEF Send
<1> HIDE DEF a
<1>2. /\ mgr'.at = "await" /\ mgr'.todo = mgr.todo /\ mgr'.msg = mgr.msg
      /\ DOMAIN mgr' = DOMAIN mgr
      /\ UNCHANGED <<ctl, forward, list, chn, done>>
  BY DEF Send, IInv, Managed
<1>3. /\ sent' \in [Chan -> Nat] /\ DOMAIN box' = Chan
      /\ \A c \in Chan : sent[c] = 0 /\ done[c] = 0
      /\ sent'[a] = 1 /\ box'[a] = mgr.msg
      /\ \A c \in Chan : c # a => sent'[c] = 0
  BY <1>1, Quiet DEF Send, IInv, Exchanged, a
<1>4. Addressed' = a
  BY <1>2 DEF Addressed, a
<1>5. Lists' /\ Managed'
  BY <1>1, <1>2 DEF IInv, Lists, Managed, Listed
<1>6. Exchanged'
  BY <1>1, <1>2, <1>3, <1>4 DEF IInv, Exchanged, OneExchange
<1>7. Fits'
  BY <1>1, <1>2 DEF IInv, Fits, Fit, Opened, Refused, Informed, Playing, Direction, InRound, Listed
<1> QED BY <1>5, <1>6, <1>7 DEF IInv

LEMMA AnswerKeeps == ASSUME IInv, Answer PROVE IInv'
<1> DEFINE a == Addressed
<1>1. mgr.at = "await" /\ a \in mgr.todo /\ a \in Chan /\ done[a] > 0
  <2>1. mgr.todo \in SUBSET Nat /\ mgr.todo # {} /\ mgr.todo \subseteq Chan
    BY DEF Answer, IInv, Managed, Listed, Chan
  <2>2. a \in mgr.todo
    BY <2>1, MinExists DEF Addressed
  <2> QED BY <2>1, <2>2 DEF Answer
<1> HIDE DEF a
<1>2. /\ mgr'.at = "tell" /\ mgr'.todo = mgr.todo \ {a} /\ mgr'.msg = mgr.msg
      /\ DOMAIN mgr' = DOMAIN mgr
      /\ UNCHANGED <<ctl, forward, list, chn, sent, box>>
  BY DEF Answer, IInv, Managed, a
<1>3. /\ done' \in [Chan -> Nat]
      /\ \A c \in Chan : sent'[c] = 0 /\ done'[c] = 0
      /\ \A c \in Chan : c # a => done[c] = 0
  <2>1. \A c \in Chan : c # a => sent[c] = 0 /\ done[c] = 0
    BY Asking DEF IInv, Exchanged, a
  <2>2. sent[a] = 0 /\ done[a] = 1
    BY <1>1, Asking DEF IInv, Exchanged
  <2> QED BY <1>1, <1>2, <2>1, <2>2 DEF Answer, IInv, Exchanged, a
<1>4. Lists' /\ Managed'
  BY <1>1, <1>2 DEF IInv, Lists, Managed, Listed
<1>5. Exchanged'
  BY <1>2, <1>3 DEF IInv, Exchanged, OneExchange
<1>6. \A c \in Chan : Informed(c)' = Informed(c)
  BY <1>1, <1>2, <1>3 DEF Informed
<1>7. \A c \in Chan : Fit(chn'[c], c, Informed(c)')
  BY <1>2, <1>6 DEF IInv, Fits
<1>8. \A c \in Chan : Fit(chn[c], c, Informed(c))'
  BY <1>1, <1>2, <1>7 DEF Fit, Opened, Refused, Playing, Direction, InRound, Listed
<1> QED BY <1>2, <1>4, <1>5, <1>8 DEF IInv, Fits

\* The end of a round: every channel has been told.
LEMMA RoundEnds ==
  ASSUME IInv, AllTold \/ Updated
  PROVE  IInv'
<1>1. /\ mgr.at = "tell" /\ mgr.todo = {} /\ mgr.msg.cmd \in Rounds
      /\ UNCHANGED <<list, chn, sent, done, box>>
  BY DEF AllTold, Updated, Told, exchange, IInv, Managed
<1>2. mgr'.at = "poll" /\ mgr'.todo = {} /\ DOMAIN mgr' = DOMAIN mgr
  BY <1>1 DEF AllTold, Updated, Rest, IInv, Managed
<1>3. /\ mgr.msg.cmd = "STOP" => ctl' = "idle"
      /\ mgr.msg.cmd # "STOP" => ctl' # "idle"
      /\ forward' = IF mgr.msg.cmd = "BACKWARD" THEN -1
                    ELSE IF mgr.msg.cmd = "FORWARD" THEN 1 ELSE forward
  <2>1. CASE AllTold
    BY <1>1, <2>1 DEF AllTold, Told, IInv, Managed
  <2>2. CASE Updated
    BY <1>1, <2>2 DEF Updated, Told, IInv, Managed
  <2> QED BY <2>1, <2>2
<1>4. Lists' /\ Managed'
  BY <1>1, <1>2, <1>3 DEF IInv, Lists, Managed, Listed
<1>5. Exchanged'
  BY <1>1, <1>2, Quiet DEF IInv, Exchanged, OneExchange
<1>6. ASSUME NEW c \in Chan PROVE Fit(chn[c], c, Informed(c))'
  <2>1. Fit(chn[c], c, TRUE)
    BY <1>1, Quiet DEF IInv, Fits
  <2>2. Informed(c)' = TRUE
    BY <1>2 DEF Informed
  <2>3. Fit(chn[c], c, TRUE)'
    BY <1>1, <1>2, <1>3, <2>1 DEF Fit, Opened, Refused, Playing, Direction, InRound, Listed, Rounds
  <2> QED BY <2>2, <2>3
<1> QED BY <1>1, <1>4, <1>5, <1>6 DEF IInv, Fits

---------------------------------------------------------------------------
LEMMA NextIInv == IInv /\ Commands /\ [Next]_vars => IInv'
<1> SUFFICES ASSUME IInv, Commands, [Next]_vars PROVE IInv'
  OBVIOUS
<1>1. ASSUME NEW u \in Users, SendCtlMsg(u) \/ Return(u) PROVE IInv'
  <2>1. CASE SendCtlMsg(u)
    <3>1. ~Refuses(cmd)
      BY <2>1 DEF SendCtlMsg, Commands, Refuses, None
    <3> QED BY <2>1, <3>1, OthersKeep DEF SendCtlMsg, manager, exchange
  <2>2. CASE Return(u)
    BY <2>2, OthersKeep DEF Return, manager, exchange
  <2> QED BY <1>1, <2>1, <2>2
<1>2. CASE Control
  BY <1>2, StartKeeps, TooManyKeeps, NothingFoundKeeps, SetStateKeeps, RoundsKeep, SendKeeps, AnswerKeeps,
     RoundEnds DEF Control
<1>3. ASSUME NEW c \in Chan, Channel(c) PROVE IInv'
  BY <1>3, HearPlayKeeps, HearUpdateKeeps, HearStopKeeps, HearTurnKeeps, HearSeekKeeps,
     FrameLoopKeeps, NextFileKeeps DEF Channel
<1>4. CASE UNCHANGED vars
  BY <1>4, OthersKeep DEF vars, manager, exchange
<1> QED BY <1>1, <1>2, <1>3, <1>4 DEF Next

LEMMA InitCommands == Init => Commands
<1> SUFFICES ASSUME Init PROVE Commands
  OBVIOUS
<1>1. cmd = None /\ finish = 0 /\ lock = NoUser /\ calls = 0 /\ cmd.cmd # "PBFILE"
  BY DEF Init, None
<1> QED BY <1>1, AskedAssumption DEF Init, Commands

LEMMA SpecIInv == Spec => [](IInv /\ Commands)
BY InitIInv, InitCommands, NextIInv, CommandsNext, PTL DEF Spec

\* For any number of channels, users and commands, one question is open at a time,
\* to the channel that the control thread waits for (SendChnMsg, AckChnMsg).
THEOREM OneExchangeAlways == Spec => []OneExchange
<1>1. IInv => OneExchange
  BY DEF IInv, Exchanged
<1> QED BY <1>1, SpecIInv, PTL

\* For any recordings and commands, between rounds the channel threads are in the
\* state and the direction that the control thread believes, and one that is idle
\* has a file open only after a search for too many channels (PBCtlFunc, PBChnFunc).
THEOREM ThreadsFollowAlways == Spec => []ThreadsFollow
<1>1. IInv => ThreadsFollow
  <2> SUFFICES ASSUME IInv, mgr.at = "poll", NEW c \in Chan
               PROVE  /\ (chn[c].state = "idle") = (ctl = "idle" \/ c \notin Listed)
                      /\ chn[c].state = "idle" =>
                           ~chn[c].open \/ (ctl = "idle" /\ Refuses(cmd))
                      /\ chn[c].state # "idle" => chn[c].forward = forward
    BY DEF ThreadsFollow
  <2> QED BY DEF IInv, Fits, Fit, Opened, Refused, Playing, Direction, InRound
<1> QED BY <1>1, SpecIInv, PTL

\* For lists of any length, of recordings that may overlap, the file that a channel
\* has open is in its list (aRecFileInfos[nCurIndex] in PBChnFunc).
THEOREM OpenFileIsListedAlways == Spec => []OpenFileIsListed
<1>1. IInv => OpenFileIsListed
  BY DEF IInv, Fits, Fit, Opened, Refused, OpenFileIsListed
<1> QED BY <1>1, SpecIInv, PTL
---------------------------------------------------------------------------
(* The lists of the channels.                                               *)

Listing ==
  /\ \A c \in Chan : \/ list[c] = <<>> \/ list[c] = Recorded[c]
                     \/ \E k \in 1..Len(Recorded[c]) : list[c] = <<Recorded[c][k]>>
  /\ alone \in BOOLEAN
  /\ alone => \A c, d \in Listed : c = d
  /\ ctl # "idle" \/ mgr.at # "poll" => Found(list)

LEMMA Records ==
  ASSUME NEW c \in Chan, NEW k \in 1..Len(Recorded[c])
  PROVE  /\ Recorded[c] \in Seq(Recording) /\ Recorded[c][k] \in Recording
         /\ Recorded[c][k].start <= Recorded[c][k].end
         /\ LET fs == Recorded[c][k].frames IN
            /\ \A i \in 1..Len(fs) : Recorded[c][k].start <= fs[i] /\ fs[i] <= Recorded[c][k].end
            /\ \A i, j \in 1..Len(fs) : i < j => fs[i] < fs[j]
         /\ \A j \in 1..(k - 1) : Recorded[c][k].start <= Recorded[c][j].start
<1>1. Recorded[c] \in Seq(Recording)
  BY RecordedAssumption
<1>2. Recorded[c][k] \in Recording
  BY <1>1
<1> QED BY <1>1, <1>2, RecordedAssumption

\* A channel lists recordings of its own, the newest first.
LEMMA Lists1 ==
  ASSUME Listing, NEW c \in Chan
  PROVE  /\ Len(list[c]) \in Nat /\ Len(list[c]) <= Len(Recorded[c]) /\ Len(Recorded[c]) \in Nat
         /\ \A k \in 1..Len(list[c]) : \E j \in 1..Len(Recorded[c]) : list[c][k] = Recorded[c][j]
<1>1. Recorded[c] \in Seq(Recording) /\ Len(Recorded[c]) \in Nat
  BY RecordedAssumption
<1>2. CASE list[c] = <<>>
  BY <1>1, <1>2
<1>3. CASE list[c] = Recorded[c]
  BY <1>1, <1>3
<1>4. CASE \E k \in 1..Len(Recorded[c]) : list[c] = <<Recorded[c][k]>>
  <2> PICK k \in 1..Len(Recorded[c]) : list[c] = <<Recorded[c][k]>>
    BY <1>4
  <2>1. Len(list[c]) = 1 /\ list[c][1] = Recorded[c][k] /\ Len(Recorded[c]) >= 1
    BY <1>1
  <2> QED BY <1>1, <2>1
<1> QED BY <1>2, <1>3, <1>4 DEF Listing

LEMMA FileFacts ==
  ASSUME Listing, NEW c \in Chan, NEW k \in 1..Len(list[c])
  PROVE  /\ list[c][k].frames \in Seq(Times) /\ Len(list[c][k].frames) \in Nat
         /\ list[c][k].start \in Times /\ list[c][k].end \in Times
         /\ list[c][k].start <= list[c][k].end
         /\ \A i \in 1..Len(list[c][k].frames) :
              /\ list[c][k].frames[i] \in Times
              /\ list[c][k].start <= list[c][k].frames[i] /\ list[c][k].frames[i] <= list[c][k].end
         /\ \A i, j \in 1..Len(list[c][k].frames) :
              i < j => list[c][k].frames[i] < list[c][k].frames[j]
<1> PICK j \in 1..Len(Recorded[c]) : list[c][k] = Recorded[c][j]
  BY Lists1
<1> PICK f : f = list[c][k]
  OBVIOUS
<1>1. /\ f \in Recording /\ f.start <= f.end
      /\ \A i \in 1..Len(f.frames) : f.start <= f.frames[i] /\ f.frames[i] <= f.end
      /\ \A i, l \in 1..Len(f.frames) : i < l => f.frames[i] < f.frames[l]
  BY Records
<1>2. f.frames \in Seq(Times) /\ f.start \in Times /\ f.end \in Times
  BY <1>1 DEF Recording
<1>3. \A i \in 1..Len(f.frames) : f.frames[i] \in Times
  BY <1>2
<1>4. Len(f.frames) \in Nat
  BY <1>2
<1> QED BY <1>1, <1>2, <1>3, <1>4

\* The times that a search covers: the newest recording does not end before the
\* oldest starts.
LEMMA SpanFacts ==
  ASSUME NEW l,
         \A c \in Chan : \/ l[c] = <<>> \/ l[c] = Recorded[c]
                        \/ \E k \in 1..Len(Recorded[c]) : l[c] = <<Recorded[c][k]>>,
         \E c \in Chan : l[c] # <<>>
  PROVE  Starts(l) \in Times /\ Ends(l) \in Times /\ Starts(l) <= Ends(l)
<1> DEFINE L == {d \in Chan : l[d] # <<>>}
           S == {l[c][Len(l[c])].start : c \in L}
           E == {l[c][1].end : c \in L}
<1>1. ASSUME NEW c \in L
      PROVE  /\ l[c][Len(l[c])].start \in Times /\ l[c][1].end \in Times
             /\ l[c][Len(l[c])].start <= l[c][1].end
  <2>1. l[c] # <<>> /\ Recorded[c] \in Seq(Recording)
    BY RecordedAssumption
  <2>2. CASE l[c] = Recorded[c]
    <3>1. Len(l[c]) \in Nat \ {0}
      BY <2>1, <2>2
    <3>2. /\ l[c][1] \in Recording /\ l[c][Len(l[c])] \in Recording
          /\ l[c][1].start <= l[c][1].end
          /\ \A j \in 1..(Len(l[c]) - 1) : l[c][Len(l[c])].start <= l[c][j].start
      <4>1. 1 \in 1..Len(Recorded[c]) /\ Len(Recorded[c]) \in 1..Len(Recorded[c])
        BY <2>2, <3>1
      <4> QED BY <2>2, <4>1, Records
    <3>3. l[c][Len(l[c])].start <= l[c][1].start \/ Len(l[c]) = 1
      <4> DEFINE n == Len(l[c])
      <4>1. n # 1 => 1 \in 1..(n - 1)
        <5>1. n \in Nat \ {0}
          BY <3>1
        <5> HIDE DEF n
        <5> QED BY <5>1
      <4> QED BY <3>2, <4>1
    <3> QED BY <3>2, <3>3, BoundsAssumption DEF Recording, Times
  <2>3. CASE \E k \in 1..Len(Recorded[c]) : l[c] = <<Recorded[c][k]>>
    <3> PICK k \in 1..Len(Recorded[c]) : l[c] = <<Recorded[c][k]>>
      BY <2>3
    <3>1. Len(l[c]) = 1 /\ l[c][1] = Recorded[c][k]
      OBVIOUS
    <3>2. Recorded[c][k] \in Recording /\ Recorded[c][k].start <= Recorded[c][k].end
      BY Records
    <3> QED BY <3>1, <3>2 DEF Recording
  <2> QED BY <2>1, <2>2, <2>3
<1>2. S \subseteq Times /\ S # {} /\ E \subseteq Times /\ E # {}
  BY <1>1
<1> PICK o \in L : TRUE
  OBVIOUS
<1>3. l[o][Len(l[o])].start \in S /\ l[o][1].end \in E
  OBVIOUS
<1> HIDE DEF S, E
<1>4. /\ LastTime \in Nat /\ Times = 1..LastTime /\ S \in SUBSET Nat
      /\ E \in SUBSET (1..LastTime) /\ E \in SUBSET (0..LastTime)
  BY <1>2, BoundsAssumption DEF Times
<1>5. /\ Min(S) \in S /\ \A x \in S : Min(S) <= x
      /\ Max(E) \in E /\ \A x \in E : x <= Max(E)
  BY <1>2, <1>4, MinExists, MaxExists
<1>6. Min(S) <= l[o][Len(l[o])].start /\ l[o][1].end <= Max(E)
  BY <1>3, <1>5
<1>7. Starts(l) = Min(S) /\ Ends(l) = Max(E)
  BY DEF S, E, Starts, Ends
<1>8. l[o][Len(l[o])].start <= l[o][1].end /\ l[o][Len(l[o])].start \in Nat /\ l[o][1].end \in Nat
  BY <1>1, <1>4
<1>9. Min(S) \in 1..LastTime /\ Max(E) \in 1..LastTime
  BY <1>2, <1>4, <1>5
<1> QED BY <1>4, <1>6, <1>7, <1>8, <1>9

LEMMA AloneMeansOne ==
  ASSUME NEW S \in SUBSET Chan, Cardinality(S) = 1
  PROVE  \A c, d \in S : c = d
<1>1. IsFiniteSet(Chan)
  BY NumChanAssumption, FS_Interval DEF Chan
<1>2. IsFiniteSet(S)
  BY <1>1, FS_Subset
<1> QED BY <1>2, FS_Singleton

\* What a search finds.
LEMMA SearchListing ==
  ASSUME Commands, list' = Search(cmd), cmd.cmd \in {"PBTIME", "PBFILE"},
         alone' = (Cardinality(cmd.chans) = 1), ctl' # "idle" \/ mgr'.at # "poll" => Found(Search(cmd))
  PROVE  Listing'
<1>1. cmd \in Request /\ cmd.chans \subseteq Chan
  <2>1. cmd # None
    BY DEF None
  <2> QED BY <2>1 DEF Commands, Request
<1>2. ASSUME NEW c \in Chan
      PROVE  \/ list'[c] = <<>> \/ list'[c] = Recorded[c]
             \/ \E k \in 1..Len(Recorded[c]) : list'[c] = <<Recorded[c][k]>>
  <2>1. c \in cmd.chans /\ cmd.cmd # "PBTIME" => cmd.time \in 1..Len(Recorded[c])
    BY DEF Commands
  <2>2. list'[c] = IF c \notin cmd.chans THEN <<>>
                   ELSE IF cmd.cmd = "PBTIME" THEN Recorded[c] ELSE <<Recorded[c][cmd.time]>>
    BY DEF Search
  <2> QED BY <2>1, <2>2
<1>3. Listed' \subseteq cmd.chans
  BY DEF Listed, Search
<1>4. alone' => \A c, d \in Listed' : c = d
  BY <1>1, <1>3, AloneMeansOne
<1>5. ctl' # "idle" \/ mgr'.at # "poll" => Found(list)'
  BY DEF Found
<1> QED BY <1>2, <1>4, <1>5 DEF Listing

LEMMA ListingNext ==
  ASSUME IInv, Commands, Listing, [Next]_vars
  PROVE  Listing'
<1>1. CASE Start \/ TooManyChannels \/ NothingFound
  <2>1. /\ list' = Search(cmd) /\ cmd.cmd \in {"PBTIME", "PBFILE"}
        /\ alone' = (Cardinality(cmd.chans) = 1)
        /\ ctl' # "idle" \/ mgr'.at # "poll" => Found(Search(cmd))
    BY <1>1 DEF Start, TooManyChannels, NothingFound, Finds, Serves
  <2> QED BY <2>1, SearchListing
<1>2. ASSUME UNCHANGED <<list, alone>>, ctl' # "idle" \/ mgr'.at # "poll" => ctl # "idle" \/ mgr.at # "poll"
      PROVE  Listing'
  BY <1>2 DEF Listing, Listed, Found, Starts, Ends
<1>3. CASE Stop \/ Step \/ Turn \/ SeekTo
  <2>1. ctl # "idle" /\ UNCHANGED <<list, alone>>
    BY <1>3 DEF Stop, Step, Turn, SeekTo, Serves
  <2> QED BY <1>2, <2>1
<1>4. CASE SetState
  <2>1. /\ UNCHANGED <<list, alone, mgr>> /\ ctl' = Goes(cmd.cmd, ctl)
    BY <1>4 DEF SetState
  <2> QED BY <1>2, <2>1 DEF Goes
<1>5. CASE Advance \/ AllOver \/ Send \/ Answer \/ AllTold \/ Updated
  <2>1. UNCHANGED <<list, alone>> /\ (ctl # "idle" \/ mgr.at # "poll")
    BY <1>5 DEF Advance, AllOver, Send, Answer, AllTold, Updated, Told
  <2> QED BY <1>2, <2>1
<1>6. CASE (\E c \in Chan : Channel(c)) \/ (\E u \in Users : SendCtlMsg(u) \/ Return(u)) \/ UNCHANGED vars
  <2>1. UNCHANGED <<list, alone, ctl, mgr>>
    BY <1>6 DEF vars, manager, Channel, HearPlay, HearUpdate, HearStop, HearTurn, HearSeek, Reply,
                NoMessage, Show, NotDue, SeeStop, Read, NextFile, SendCtlMsg, Return
  <2> QED BY <1>2, <2>1
<1> QED BY <1>1, <1>3, <1>4, <1>5, <1>6 DEF Next, Control
---------------------------------------------------------------------------
(* Where a channel is in its file.                                          *)

\* The frame in the buffer is the one that was read last.
Placed(ch, c) ==
  /\ ch.state \in {"idle", "wait", "play", "frame", "over"} /\ ch.forward \in {-1, 1}
  /\ ch.index \in -1..Len(Recorded[c]) /\ ch.ready \in 0..LastTime /\ ch.ref \in Bottom..Top
  /\ ch.open \in BOOLEAN
  /\ ch.open => LET f == list[c][ch.index + 1] IN
       /\ ch.next \in 1..(Len(f.frames) + 1) /\ ch.back \in 0..Len(f.frames)
       /\ ch.ready # 0 => /\ ch.next > 1 /\ ch.back = ch.next - 2
                          /\ ch.ready = f.frames[ch.next - 1]
  /\ ch.ready # 0 => ch.open

AllPlaced == \A c \in Chan : Placed(chn[c], c)

\* The reference time is within its bounds, and a round has that of its message.
Answers(d) == IF d = 1 THEN Bottom..(Top + 1) ELSE (Bottom - 1)..Top

Clock ==
  /\ ctl \in {"idle", "run", "pause"} /\ ref \in Bottom..Top /\ DOMAIN ack = Chan
  /\ InRound("SEEK") => mgr.msg.time \in Bottom..Top
  /\ InRound("SEEK") => ref = mgr.msg.time \/ \A c \in Listed : Informed(c)
  /\ InRound("UPDATEPTS") => /\ mgr.msg.time = ref /\ mgr.least \in Answers(forward)
                             /\ \A c \in Chan : done[c] > 0 => ack[c] \in Answers(forward)

LEMMA Bounds == /\ LastTime \in Nat /\ Late \in Nat /\ Jump \in Nat
               /\ Top \in Int /\ Bottom \in Int /\ Bottom < 0 /\ Top > LastTime
<1>1. LastTime \in Nat /\ Late \in Nat /\ Jump \in Nat
  BY BoundsAssumption
<1>2. Top \in Int /\ Top > LastTime
  BY <1>1 DEF Top
<1>3. Bottom \in Int /\ Bottom < 0
  BY <1>1 DEF Bottom
<1> QED BY <1>1, <1>2, <1>3

LEMMA PlacedOne ==
  ASSUME IInv, AllPlaced, NEW c \in Chan, NEW x, chn' = [chn EXCEPT ![c] = x],
         UNCHANGED list, Placed(x, c)
  PROVE  AllPlaced'
<1>1. \A d \in Chan : Placed(chn'[d], d)
  BY DEF IInv, Fits, AllPlaced
<1> QED BY <1>1 DEF AllPlaced, Placed

LEMMA PlacedSame ==
  ASSUME NEW c \in Chan, NEW ch, Placed(ch, c), NEW x,
         x.state \in {"idle", "wait", "play", "frame", "over"}, x.forward \in {-1, 1},
         x.index = ch.index, x.open = ch.open, x.next = ch.next, x.back = ch.back,
         x.ready \in {0, ch.ready}, x.ref \in Bottom..Top
  PROVE  Placed(x, c)
<1>1. x.index \in -1..Len(Recorded[c]) /\ x.ready \in 0..LastTime /\ x.open \in BOOLEAN
  BY Bounds DEF Placed
<1> PICK f : f = list[c][ch.index + 1]
  OBVIOUS
<1>2. ch.open => /\ ch.next \in 1..(Len(f.frames) + 1) /\ ch.back \in 0..Len(f.frames)
                 /\ ch.ready # 0 => /\ ch.next > 1 /\ ch.back = ch.next - 2
                                    /\ ch.ready = f.frames[ch.next - 1]
  BY DEF Placed
<1>3. ch.ready # 0 => ch.open
  BY DEF Placed
<1>4. CASE x.ready = 0
  BY <1>1, <1>2, <1>4 DEF Placed
<1>5. CASE x.ready # 0
  <2>1. x.ready = ch.ready
    BY <1>5
  <2> QED BY <1>1, <1>2, <1>3, <2>1 DEF Placed
<1> QED BY <1>4, <1>5

Shut(ch) == ch.open = FALSE

LEMMA PlacedClosed ==
  ASSUME NEW c \in Chan, NEW x,
         x.state \in {"idle", "wait", "play", "frame", "over"}, x.forward \in {-1, 1},
         x.index \in -1..Len(Recorded[c]), Shut(x), x.ready = 0,
         x.ref \in Bottom..Top
  PROVE  Placed(x, c)
<1>1. x.ready \in 0..LastTime
  BY Bounds
<1> QED BY <1>1 DEF Placed, Shut

\* A file is opened, or is not, at one of its frames.
LEMMA PlacedAt ==
  ASSUME Listing, NEW c \in Chan, NEW ch, ChnFields \subseteq DOMAIN ch,
         NEW i \in 1..Len(list[c]), ch.index = i - 1,
         ch.state \in {"idle", "wait", "play", "frame", "over"}, ch.forward \in {-1, 1},
         ch.ready = 0, ch.ref \in Bottom..Top,
         NEW k, Opens(list[c][i]) => k \in 1..Len(list[c][i].frames)
  PROVE  Placed(At(ch, list[c][i], k), c)
<1> PICK f : f = list[c][i]
  OBVIOUS
<1>1. /\ Len(list[c]) \in Nat /\ Len(list[c]) <= Len(Recorded[c]) /\ Len(Recorded[c]) \in Nat
      /\ Len(f.frames) \in Nat
  BY Lists1, FileFacts
<1>2. PICK x : x = At(ch, f, k)
  OBVIOUS
<1>3. /\ x.state = ch.state /\ x.forward = ch.forward /\ x.index = ch.index /\ x.ready = 0
      /\ x.ref = ch.ref /\ x.open = Opens(f) /\ x.next = k /\ x.back = k - 1
  BY <1>2 DEF At, ChnFields
<1>4. x.index \in -1..Len(Recorded[c]) /\ x.index + 1 = i
  BY <1>1, <1>3
<1>5. x.open \in BOOLEAN
  BY <1>3 DEF Opens
<1>6. CASE ~Opens(f)
  <2>1. Shut(x)
    BY <1>3, <1>6 DEF Opens, Shut
  <2>2. Placed(x, c)
    BY <1>3, <1>4, <2>1, PlacedClosed
  <2> QED BY <1>2, <2>2
<1>7. CASE Opens(f)
  <2>1. k \in 1..Len(f.frames) /\ k \in 1..(Len(f.frames) + 1) /\ k - 1 \in 0..Len(f.frames)
    BY <1>1, <1>7
  <2>2. x.next \in 1..(Len(f.frames) + 1) /\ x.back \in 0..Len(f.frames) /\ x.ready = 0
    BY <1>3, <2>1
  <2>3. x.ready \in 0..LastTime
    BY <1>3, Bounds
  <2>4. list[c][x.index + 1] = f
    BY <1>4
  <2>5. Placed(x, c)
    BY <1>3, <1>4, <1>5, <2>2, <2>3, <2>4 DEF Placed
  <2> QED BY <1>2, <2>5
<1> QED BY <1>6, <1>7

LEMMA PlacedHears ==
  ASSUME IInv, Listing, AllPlaced, Clock, NEW c \in Chan,
         HearPlay(c) \/ HearUpdate(c) \/ HearStop(c) \/ HearTurn(c)
  PROVE  AllPlaced'
<1>1. /\ Placed(chn[c], c) /\ ChnFields \subseteq DOMAIN chn[c]
      /\ UNCHANGED list
  BY Fields DEF AllPlaced, HearPlay, HearUpdate, HearStop, HearTurn, Reply
<1>6. 0 \in Bottom..Top
  BY Bounds
<1>2. CASE HearPlay(c)
  <2>1. PICK x : x = [chn[c] EXCEPT !.state = "wait", !.ready = 0]
    OBVIOUS
  <2>2. chn' = [chn EXCEPT ![c] = x]
    BY <1>2, <2>1 DEF HearPlay
  <2>3. /\ x.state = "wait" /\ x.forward = chn[c].forward /\ x.index = chn[c].index
        /\ x.open = chn[c].open /\ x.next = chn[c].next /\ x.back = chn[c].back
        /\ x.ready = 0 /\ x.ref = chn[c].ref
    BY <1>1, <2>1 DEF ChnFields
  <2>4. chn[c].forward \in {-1, 1} /\ chn[c].ref \in Bottom..Top
    BY <1>1 DEF Placed
  <2>5. Placed(x, c)
    BY <1>1, <2>3, <2>4, PlacedSame
  <2> QED BY <1>1, <2>2, <2>5, PlacedOne
<1>3. CASE HearUpdate(c)
  <2>1. PICK s \in {"wait", "frame"} :
          chn' = [chn EXCEPT ![c] = [chn[c] EXCEPT !.ref = box[c].time, !.state = s]]
    BY <1>3 DEF HearUpdate
  <2>2. PICK x : x = [chn[c] EXCEPT !.ref = box[c].time, !.state = s]
    OBVIOUS
  <2>3. box[c].time \in Bottom..Top
    <3>1. sent[c] > 0 /\ box[c].cmd = "UPDATEPTS"
      BY <1>3 DEF HearUpdate, Hears
    <3> QED BY <3>1, Uninformed DEF Clock, InRound
  <2>4. Placed(x, c)
    BY <1>1, <2>2, <2>3, PlacedSame DEF ChnFields, Placed
  <2> QED BY <1>1, <2>1, <2>2, <2>4, PlacedOne
<1>4. CASE HearStop(c)
  <2>1. PICK x : x = [Closed(chn[c]) EXCEPT !.state = "idle", !.ref = 0]
    OBVIOUS
  <2>2. chn' = [chn EXCEPT ![c] = x]
    BY <1>4, <2>1 DEF HearStop
  <2>3. /\ x.state = "idle" /\ x.forward = chn[c].forward /\ x.index = chn[c].index
        /\ Shut(x) /\ x.ready = 0 /\ x.ref = 0
    BY <1>1, <2>1 DEF ChnFields, Closed, Shut
  <2>4. chn[c].forward \in {-1, 1} /\ chn[c].index \in -1..Len(Recorded[c])
    BY <1>1 DEF Placed
  <2>5. Placed(x, c)
    BY <1>6, <2>3, <2>4, PlacedClosed
  <2> QED BY <1>1, <2>2, <2>5, PlacedOne
<1>5. CASE HearTurn(c)
  <2>1. PICK d \in {-1, 1} : chn' = [chn EXCEPT ![c] = [chn[c] EXCEPT !.forward = d]]
    BY <1>5 DEF HearTurn
  <2>2. PICK x : x = [chn[c] EXCEPT !.forward = d]
    OBVIOUS
  <2>3. Placed(x, c)
    BY <1>1, <2>2, PlacedSame DEF ChnFields, Placed
  <2> QED BY <1>1, <2>1, <2>2, <2>3, PlacedOne
<1> QED BY <1>2, <1>3, <1>4, <1>5
\* What a SEEK finds: a recording of the channel's list, and a frame of it.
Hits(c) == {k \in 1..Len(list[c]) : Seekable(list[c][k], box[c].time)}

LEMMA SeekFinds ==
  ASSUME IInv, Listing, NEW c \in Chan, HearSeek(c), Hits(c) # {}
  PROVE  \E m \in 1..Len(list[c]) :
           /\ Len(list[c]) \in Nat /\ Seekable(list[c][m], box[c].time)
           /\ Len(list[c][m].frames) \in 1..Len(list[c][m].frames)
           /\ \E k \in 1..Len(list[c][m].frames) :
                chn' = [chn EXCEPT ![c] = At([chn[c] EXCEPT !.index = m - 1, !.ready = 0],
                                             list[c][m], k)]
           /\ \/ UNCHANGED ref
              \/ /\ From(list[c][m], box[c].time) = {}
                 /\ ref' = ref - (box[c].time - list[c][m].frames[Len(list[c][m].frames)])
<1>1. Len(list[c]) \in Nat /\ Hits(c) \in SUBSET (1..Len(list[c]))
  BY Lists1 DEF Hits
<1>2. Max(Hits(c)) \in Hits(c)
  BY <1>1, MaxRange
<1>3. PICK m : m = Max(Hits(c))
  OBVIOUS
<1>4. PICK t : t = box[c].time
  OBVIOUS
<1>5. m \in 1..Len(list[c]) /\ Seekable(list[c][m], t)
  BY <1>2, <1>3, <1>4 DEF Hits
<1>6. PICK f : f = list[c][m]
  OBVIOUS
<1>7. f.frames \in Seq(Times) /\ f.frames # <<>> /\ Len(f.frames) \in Nat
  BY <1>5, <1>6, FileFacts DEF Seekable, Opens
<1>8. Len(f.frames) \in 1..Len(f.frames)
  BY <1>7
<1>9. From(f, t) # {} => Min(From(f, t)) \in 1..Len(f.frames)
  <2>1. From(f, t) \in SUBSET (1..Len(f.frames))
    BY DEF From
  <2> QED BY <1>7, <2>1, MinRange
<1>10. /\ \E k \in 1..Len(f.frames) :
           chn' = [chn EXCEPT ![c] = At([chn[c] EXCEPT !.index = m - 1, !.ready = 0], f, k)]
      /\ \/ UNCHANGED ref
         \/ From(f, t) = {} /\ ref' = ref - (t - f.frames[Len(f.frames)])
  <2>1. CASE From(f, t) # {}
    <3>1. /\ chn' = [chn EXCEPT ![c] = At([chn[c] EXCEPT !.index = m - 1, !.ready = 0], f,
                                         Min(From(f, t)))]
          /\ UNCHANGED ref
      BY <1>4, <1>3, <1>6, <2>1, Zenon DEF HearSeek, Hits
    <3> QED BY <1>9, <2>1, <3>1
  <2>2. CASE From(f, t) = {}
    <3>1. /\ chn' = [chn EXCEPT ![c] = At([chn[c] EXCEPT !.index = m - 1, !.ready = 0], f,
                                         Len(f.frames))]
          /\ ref' = ref - (t - f.frames[Len(f.frames)])
      BY <1>4, <1>3, <1>6, <2>2, Zenon DEF HearSeek, Hits
    <3> QED BY <1>8, <2>2, <3>1
  <2> QED BY <2>1, <2>2
<1> QED BY <1>4, <1>1, <1>5, <1>6, <1>8, <1>10

LEMMA PlacedSeek ==
  ASSUME IInv, Listing, AllPlaced, NEW c \in Chan, HearSeek(c)
  PROVE  AllPlaced'
<1>1. /\ Placed(chn[c], c) /\ ChnFields \subseteq DOMAIN chn[c] /\ UNCHANGED list
      /\ chn[c].state \in {"wait", "play"} /\ sent[c] > 0
  BY Fields DEF AllPlaced, HearSeek, Hears, Reply
<1>2. chn[c].forward \in {-1, 1} /\ chn[c].ref \in Bottom..Top
  BY <1>1 DEF Placed
<1>3. CASE Hits(c) = {}
  <2>1. PICK x : x = [Closed(chn[c]) EXCEPT !.index = -1]
    OBVIOUS
  <2>2. chn' = [chn EXCEPT ![c] = x]
    BY <1>3, <2>1, Zenon DEF HearSeek, Hits
  <2>3. /\ x.state = chn[c].state /\ x.forward = chn[c].forward /\ x.index = -1
        /\ Shut(x) /\ x.ready = 0 /\ x.ref = chn[c].ref
    BY <1>1, <2>1 DEF ChnFields, Closed, Shut
  <2>4. -1 \in -1..Len(Recorded[c])
    BY Lists1
  <2>5. Placed(x, c)
    BY <1>1, <1>2, <2>3, <2>4, PlacedClosed
  <2> QED BY <1>1, <2>2, <2>5, PlacedOne
<1>4. CASE Hits(c) # {}
  <2>1. PICK m \in 1..Len(list[c]) :
          /\ Len(list[c]) \in Nat
          /\ \E k \in 1..Len(list[c][m].frames) :
               chn' = [chn EXCEPT ![c] = At([chn[c] EXCEPT !.index = m - 1, !.ready = 0],
                                            list[c][m], k)]
    BY <1>4, SeekFinds
  <2>3. PICK k \in 1..Len(list[c][m].frames) :
          chn' = [chn EXCEPT ![c] = At([chn[c] EXCEPT !.index = m - 1, !.ready = 0], list[c][m], k)]
    BY <2>1
  <2>4. PICK ch : ch = [chn[c] EXCEPT !.index = m - 1, !.ready = 0]
    OBVIOUS
  <2>5. /\ ChnFields \subseteq DOMAIN ch /\ ch.index = m - 1 /\ ch.ready = 0
        /\ ch.state = chn[c].state /\ ch.forward = chn[c].forward /\ ch.ref = chn[c].ref
    BY <1>1, <2>4 DEF ChnFields
  <2>6. Placed(At(ch, list[c][m], k), c)
    BY <1>1, <1>2, <2>1, <2>5, PlacedAt
  <2> QED BY <1>1, <2>3, <2>4, <2>6, PlacedOne
<1> QED BY <1>3, <1>4

\* Where the frames are that a channel may read next.
LEMMA ComingFacts ==
  ASSUME IInv, Listing, AllPlaced, NEW c \in Chan, chn[c].open
  PROVE  /\ Len(File(c).frames) \in Nat /\ chn[c].index + 1 \in 1..Len(list[c])
         /\ Coming(chn[c], File(c)) \in SUBSET (1..Len(File(c).frames))
<1>1. chn[c].index \in 0..(Len(list[c]) - 1) /\ Len(list[c]) \in Nat
  BY Lists1 DEF IInv, Fits, Fit
<1>2. chn[c].index + 1 \in 1..Len(list[c])
  BY <1>1
<1>3. Len(File(c).frames) \in Nat
  BY <1>2, FileFacts DEF File
<1>4. chn[c].next \in 1..(Len(File(c).frames) + 1) /\ chn[c].back \in 0..Len(File(c).frames)
  BY DEF AllPlaced, Placed, File
<1> QED BY <1>2, <1>3, <1>4 DEF Coming

LEMMA PlacedRead ==
  ASSUME IInv, Listing, AllPlaced, NEW c \in Chan, Read(c)
  PROVE  AllPlaced'
<1>1. /\ Placed(chn[c], c) /\ ChnFields \subseteq DOMAIN chn[c] /\ UNCHANGED list
      /\ chn[c].state = "frame" /\ chn[c].ready = 0
  BY Fields DEF AllPlaced, Read, manager
<1>2. chn[c].forward \in {-1, 1} /\ chn[c].ref \in Bottom..Top
  BY <1>1 DEF Placed
<1>3. PICK ks : ks = IF chn[c].open THEN Coming(chn[c], File(c)) ELSE {}
  OBVIOUS
<1>4. CASE ks = {}
  <2>1. PICK x : x = [chn[c] EXCEPT !.state = "over"]
    OBVIOUS
  <2>2. chn' = [chn EXCEPT ![c] = x]
    BY <1>3, <1>4, <2>1 DEF Read
  <2>3. Placed(x, c)
    BY <1>1, <1>2, <2>1, PlacedSame DEF ChnFields
  <2> QED BY <1>1, <2>2, <2>3, PlacedOne
<1>5. CASE ks # {}
  <2>1. chn[c].open /\ ks = Coming(chn[c], File(c))
    BY <1>3, <1>5
  <2>2. PICK f : f = File(c)
    OBVIOUS
  <2>3. /\ Len(f.frames) \in Nat /\ ks \in SUBSET (1..Len(f.frames))
        /\ chn[c].index + 1 \in 1..Len(list[c])
    BY <2>1, <2>2, ComingFacts
  <2>4. PICK k : k = IF chn[c].forward = 1 THEN Min(ks) ELSE Max(ks)
    OBVIOUS
  <2>5. k \in 1..Len(f.frames)
    <3>1. Min(ks) \in 1..Len(f.frames) /\ Max(ks) \in 1..Len(f.frames)
      BY <1>5, <2>3, MinRange, MaxRange
    <3> QED BY <2>4, <3>1
  <2>6. PICK x : x = [chn[c] EXCEPT !.ready = f.frames[k], !.next = k + 1, !.back = k - 1]
    OBVIOUS
  <2>7. chn' = [chn EXCEPT ![c] = x]
    <3> DEFINE K == IF chn[c].open THEN Coming(chn[c], File(c)) ELSE {}
               n == IF chn[c].forward = 1 THEN Min(K) ELSE Max(K)
               y == [chn[c] EXCEPT !.ready = File(c).frames[n], !.next = n + 1, !.back = n - 1]
    <3>1. K # {} => chn' = [chn EXCEPT ![c] = y]
      BY Zenon DEF Read
    <3>2. K = ks /\ n = k
      BY <1>3, <2>4
    <3> HIDE DEF K, n
    <3>3. y = x
      BY <2>2, <2>6, <3>2
    <3> QED BY <1>5, <3>1, <3>2, <3>3
  <2>8. /\ x.state = "frame" /\ x.forward = chn[c].forward /\ x.index = chn[c].index
        /\ x.open = chn[c].open /\ x.next = k + 1 /\ x.back = k - 1 /\ x.ready = f.frames[k]
        /\ x.ref = chn[c].ref
    BY <1>1, <2>6 DEF ChnFields
  <2>9. f.frames[k] \in Times
    BY <2>2, <2>3, <2>5, FileFacts DEF File
  <2>10. x.ready \in 0..LastTime
    BY <2>8, <2>9, Bounds DEF Times
  <2>11. k + 1 \in 1..(Len(f.frames) + 1) /\ k - 1 \in 0..Len(f.frames) /\ k + 1 > 1
         /\ k - 1 = (k + 1) - 2 /\ (k + 1) - 1 = k
    BY <2>3, <2>5
  <2>12. list[c][x.index + 1] = f
    BY <2>2, <2>8 DEF File
  <2>13. x.open \in BOOLEAN /\ x.open /\ x.index \in -1..Len(Recorded[c])
    BY <1>1, <2>1, <2>8 DEF Placed
  <2>14. Placed(x, c)
    BY <1>2, <2>8, <2>10, <2>11, <2>12, <2>13 DEF Placed
  <2> QED BY <1>1, <2>7, <2>14, PlacedOne
<1> QED BY <1>4, <1>5
LEMMA PlacedLoop ==
  ASSUME IInv, AllPlaced, NEW c \in Chan, NoMessage(c) \/ Show(c) \/ NotDue(c) \/ SeeStop(c)
  PROVE  AllPlaced'
<1>1. Placed(chn[c], c) /\ ChnFields \subseteq DOMAIN chn[c] /\ UNCHANGED list
  BY Fields DEF AllPlaced, NoMessage, Show, NotDue, SeeStop, manager
<1>2. /\ chn[c].forward \in {-1, 1} /\ chn[c].ref \in Bottom..Top
      /\ chn[c].state \in {"idle", "wait", "play", "frame", "over"}
  BY <1>1 DEF Placed
<1>3. CASE Show(c)
  <2>1. PICK x : x = [chn[c] EXCEPT !.ready = 0]
    OBVIOUS
  <2>2. chn' = [chn EXCEPT ![c] = x]
    BY <1>3, <2>1 DEF Show
  <2>3. Placed(x, c)
    BY <1>1, <1>2, <2>1, PlacedSame DEF ChnFields
  <2> QED BY <1>1, <2>2, <2>3, PlacedOne
<1>4. CASE NoMessage(c) \/ NotDue(c) \/ SeeStop(c)
  <2>1. PICK s \in {"frame", "wait", "play"} : chn' = [chn EXCEPT ![c] = [chn[c] EXCEPT !.state = s]]
    BY <1>4 DEF NoMessage, NotDue, SeeStop
  <2>2. PICK x : x = [chn[c] EXCEPT !.state = s]
    OBVIOUS
  <2>3. Placed(x, c)
    BY <1>1, <1>2, <2>2, PlacedSame DEF ChnFields
  <2> QED BY <1>1, <2>1, <2>2, <2>3, PlacedOne
<1> QED BY <1>3, <1>4

\* What a channel does at the end of a file.
LEMMA NextFileCases ==
  ASSUME IInv, Listing, AllPlaced, NEW c \in Chan, NextFile(c)
  PROVE  LET ch == chn[c]  n == Len(list[c]) IN
         /\ n \in Nat /\ n >= 1 /\ c \in Listed /\ ch.state = "over"
         /\ \/ /\ ch.forward = 1 /\ ch.index <= 0
               /\ chn' = [chn EXCEPT ![c] = Past(ch, -1)]
            \/ /\ ch.forward = -1 /\ ch.index >= n - 1
               /\ chn' = [chn EXCEPT ![c] = Past(ch, n)]
            \/ \E i \in 1..n : \E k :
                 /\ i = ch.index + 1 - ch.forward
                 /\ Opens(list[c][i]) => k \in 1..Len(list[c][i].frames)
                 /\ chn' = [chn EXCEPT ![c] = At([ch EXCEPT !.index = i - 1, !.ready = 0,
                                                            !.state = "play"], list[c][i], k)]
<1> DEFINE ch == chn[c]
           n == Len(list[c])
           to == ch.index - ch.forward
           f  == list[c][to + 1]
           k  == IF ch.forward = 1 \/ ~Opens(f) THEN 1 ELSE LastIn(f)
           in == At([ch EXCEPT !.index = to, !.ready = 0, !.state = "play"], f, k)
<1>1. ch.state = "over" /\ Fit(ch, c, Informed(c)) /\ ch.forward \in {-1, 1}
  BY DEF NextFile, IInv, Fits, AllPlaced, Placed
<1>2. n \in Nat /\ c \in Listed /\ ch.index \in -1..n
  BY <1>1, Lists1 DEF Fit, Opened, Refused, Playing
<1>3. n >= 1
  BY <1>2 DEF IInv, Lists, Listed
<1>4. chn' = [chn EXCEPT ![c] =
                IF ch.forward = 1 THEN IF ch.index <= 0 THEN Past(ch, -1) ELSE in
                ELSE IF ch.index >= n - 1 THEN Past(ch, n) ELSE in]
  BY Zenon DEF NextFile
<1>5. \/ ch.forward = 1 /\ ch.index <= 0 /\ chn' = [chn EXCEPT ![c] = Past(ch, -1)]
      \/ ch.forward = -1 /\ ch.index >= n - 1 /\ chn' = [chn EXCEPT ![c] = Past(ch, n)]
      \/ to + 1 \in 1..n /\ chn' = [chn EXCEPT ![c] = in]
  <2>1. ch.forward = 1 /\ ~(ch.index <= 0) => to + 1 \in 1..n
    BY <1>2, <1>3
  <2>2. ch.forward = -1 /\ ~(ch.index >= n - 1) => to + 1 \in 1..n
    BY <1>2, <1>3
  <2> HIDE DEF to, in
  <2> QED BY <1>1, <1>4, <2>1, <2>2
<1>6. to + 1 \in 1..n /\ Opens(f) => k \in 1..Len(f.frames)
  <2> SUFFICES ASSUME to + 1 \in 1..n, Opens(f) PROVE k \in 1..Len(f.frames)
    OBVIOUS
  <2>1. f.frames \in Seq(Times) /\ f.frames # <<>>
    BY FileFacts DEF Opens
  <2> DEFINE S == From(f, Ends(list))
  <2>2. Len(f.frames) \in Nat \ {0} /\ S \in SUBSET (1..Len(f.frames))
    BY <2>1 DEF From
  <2> HIDE DEF S
  <2>3. S # {} => Min(S) \in 1..Len(f.frames)
    BY <2>2, MinRange
  <2>4. LastIn(f) = IF S = {} THEN Len(f.frames) ELSE Min(S)
    BY DEF LastIn, S
  <2>5. LastIn(f) \in 1..Len(f.frames)
    BY <2>2, <2>3, <2>4
  <2> QED BY <2>2, <2>5
<1>7. to + 1 = ch.index + 1 - ch.forward /\ (to + 1) - 1 = to
  BY <1>1, <1>2
<1> HIDE DEF to, k
<1>8. ASSUME to + 1 \in 1..n, chn' = [chn EXCEPT ![c] = in]
      PROVE  \E i \in 1..n : \E l :
                 /\ i = ch.index + 1 - ch.forward
                 /\ Opens(list[c][i]) => l \in 1..Len(list[c][i].frames)
                 /\ chn' = [chn EXCEPT ![c] = At([ch EXCEPT !.index = i - 1, !.ready = 0,
                                                            !.state = "play"], list[c][i], l)]
  <2> WITNESS to + 1 \in 1..n
  <2> WITNESS k
  <2> QED BY <1>6, <1>7, <1>8
<1> QED BY <1>1, <1>2, <1>3, <1>5, <1>8

LEMMA PlacedNextFile ==
  ASSUME IInv, Listing, AllPlaced, NEW c \in Chan, NextFile(c)
  PROVE  AllPlaced'
<1>1. Placed(chn[c], c) /\ ChnFields \subseteq DOMAIN chn[c] /\ UNCHANGED list
  BY Fields DEF AllPlaced, NextFile, manager
<1>2. chn[c].forward \in {-1, 1} /\ chn[c].ref \in Bottom..Top
  BY <1>1 DEF Placed
<1>3. Len(list[c]) \in Nat /\ Len(list[c]) <= Len(Recorded[c]) /\ Len(Recorded[c]) \in Nat
  BY Lists1
<1>4. ASSUME NEW i \in {-1, Len(list[c])}, chn' = [chn EXCEPT ![c] = Past(chn[c], i)]
      PROVE  AllPlaced'
  <2>1. PICK x : x = Past(chn[c], i)
    OBVIOUS
  <2>2. /\ x.state = "wait" /\ x.forward = chn[c].forward /\ x.index = i
        /\ Shut(x) /\ x.ready = 0 /\ x.ref = chn[c].ref
    BY <1>1, <2>1 DEF ChnFields, Closed, Past, Shut
  <2>3. x.index \in -1..Len(Recorded[c])
    BY <1>3, <2>2
  <2>4. Placed(x, c)
    BY <1>2, <2>2, <2>3, PlacedClosed
  <2> QED BY <1>1, <1>4, <2>1, <2>4, PlacedOne
<1>5. ASSUME NEW i \in 1..Len(list[c]), NEW k,
             Opens(list[c][i]) => k \in 1..Len(list[c][i].frames),
             chn' = [chn EXCEPT ![c] = At([chn[c] EXCEPT !.index = i - 1, !.ready = 0,
                                                         !.state = "play"], list[c][i], k)]
      PROVE  AllPlaced'
  <2>1. PICK ch : ch = [chn[c] EXCEPT !.index = i - 1, !.ready = 0, !.state = "play"]
    OBVIOUS
  <2>2. /\ ChnFields \subseteq DOMAIN ch /\ ch.index = i - 1 /\ ch.ready = 0
        /\ ch.state = "play" /\ ch.forward = chn[c].forward /\ ch.ref = chn[c].ref
    BY <1>1, <2>1 DEF ChnFields
  <2>3. Placed(At(ch, list[c][i], k), c)
    BY <1>2, <1>5, <2>2, PlacedAt
  <2> QED BY <1>1, <1>5, <2>1, <2>3, PlacedOne
<1> QED BY <1>4, <1>5, NextFileCases

\* A search leaves every channel without a file, or at its oldest recording.
LEMMA PlacedSearch ==
  ASSUME IInv, Commands, AllPlaced, Listing', Start \/ TooManyChannels \/ NothingFound
  PROVE  AllPlaced'
<1>1. mgr.at = "poll" /\ ctl = "idle" /\ list' = Search(cmd)
  BY DEF Start, TooManyChannels, NothingFound, Finds, Serves
<1> SUFFICES ASSUME NEW c \in Chan PROVE Placed(chn[c], c)'
  BY DEF AllPlaced
<1>2. PICK n : n = Len(list'[c])
  OBVIOUS
<1>3. PICK ch : ch = [chn[c] EXCEPT !.forward = 1, !.ready = 0, !.index = Indexed(list', c)]
  OBVIOUS
<1>4. /\ ChnFields \subseteq DOMAIN chn[c] /\ chn[c].state = "idle" /\ Placed(chn[c], c)
  BY <1>1, AllIdle DEF AllPlaced
<1>5. /\ ChnFields \subseteq DOMAIN ch /\ ch.state = "idle" /\ ch.forward = 1 /\ ch.ready = 0
      /\ ch.index = Indexed(list', c) /\ ch.ref = chn[c].ref /\ ch.open = chn[c].open
      /\ ch.open \in BOOLEAN
  BY <1>3, <1>4 DEF ChnFields, Placed
<1>6. n \in Nat /\ n <= Len(Recorded[c]) /\ Len(Recorded[c]) \in Nat
  <2>1. Recorded[c] \in Seq(Recording)
    BY RecordedAssumption
  <2> QED BY <1>2, <2>1 DEF Listing
<1>7. chn[c].index \in -1..Len(Recorded[c]) /\ chn[c].ref \in Bottom..Top
  BY <1>4 DEF Placed
<1>8. Indexed(list', c) = n - 1 \/ Indexed(list', c) = chn[c].index
  BY <1>2 DEF Indexed
<1>9. ch.index \in -1..Len(Recorded[c])
  BY <1>5, <1>6, <1>7, <1>8
<1>10. CASE chn'[c] = ch /\ Shut(ch)
  <2>1. ch.ready \in 0..LastTime
    BY <1>5, Bounds
  <2> QED BY <1>5, <1>7, <1>9, <1>10, <2>1 DEF Placed, Shut
<1>11. CASE chn'[c] = At(ch, list'[c][n], 1) /\ n # 0
  <2>1. PICK f : f = list'[c][n]
    OBVIOUS
  <2>2. Len(f.frames) \in Nat /\ (Opens(f) => 1 \in 1..Len(f.frames))
    <3>1. \E k \in 1..Len(Recorded[c]) : f = Recorded[c][k]
      BY <1>2, <1>6, <1>11, <2>1 DEF Listing
    <3>2. PICK k \in 1..Len(Recorded[c]) : f = Recorded[c][k]
      BY <3>1
    <3>3. f.frames \in Seq(Times)
      BY <3>2, Records DEF Recording
    <3> QED BY <3>3 DEF Opens
  <2>3. PICK x : x = At(ch, f, 1)
    OBVIOUS
  <2>4. /\ x.state = "idle" /\ x.forward = 1 /\ x.index = ch.index /\ x.ready = 0
        /\ x.ref = chn[c].ref /\ x.open = Opens(f) /\ x.next = 1 /\ x.back = 0
    BY <1>5, <2>3 DEF At, ChnFields
  <2>5. x.ready \in 0..LastTime /\ x.open \in BOOLEAN
    BY <2>4, Bounds DEF Opens
  <2>6. list'[c][x.index + 1] = f
    <3>1. list'[c] # <<>>
      BY <1>2, <1>11
    <3>2. ch.index = n - 1
      BY <1>2, <1>5, <3>1 DEF Indexed
    <3> QED BY <1>6, <2>1, <2>4, <3>2
  <2>7. x.next \in 1..(Len(f.frames) + 1) /\ x.back \in 0..Len(f.frames)
    BY <2>2, <2>4
  <2>8. chn'[c] = x
    BY <1>11, <2>1, <2>3
  <2> QED BY <1>7, <1>9, <2>4, <2>5, <2>6, <2>7, <2>8 DEF Placed
<1>12. chn'[c] = ch \/ (chn'[c] = At(ch, list'[c][n], 1) /\ n # 0)
  BY <1>2, <1>3 DEF Start, TooManyChannels, NothingFound, Finds
<1>13. ASSUME chn'[c] = ch, n = 0 \/ NothingFound PROVE Shut(ch)
  <2> SUFFICES ASSUME chn[c].open PROVE FALSE
    BY <1>5 DEF Shut
  <2>1. Refused /\ list'[c] # <<>>
    BY <1>1, AllIdle DEF Refused, Listed
  <2>2. n # 0
    BY <1>1, <1>2, <2>1, SearchLists
  <2> QED BY <1>13, <2>1, <2>2 DEF Refused, Refuses, NothingFound
<1>14. n = 0 \/ NothingFound \/ (chn'[c] = At(ch, list'[c][n], 1) /\ n # 0)
  BY <1>2, <1>3 DEF Start, TooManyChannels, Finds
<1> QED BY <1>10, <1>11, <1>12, <1>13, <1>14

LEMMA AllPlacedNext ==
  ASSUME IInv, Commands, Listing, AllPlaced, Clock, [Next]_vars
  PROVE  AllPlaced'
<1>1. CASE Start \/ TooManyChannels \/ NothingFound
  BY <1>1, ListingNext, PlacedSearch
<1>2. ASSUME NEW c \in Chan, Channel(c) PROVE AllPlaced'
  BY <1>2, PlacedHears, PlacedSeek, PlacedLoop, PlacedRead, PlacedNextFile DEF Channel
<1>3. CASE Step
  <2>1. UNCHANGED list /\ \A c \in Chan : chn'[c] = [chn[c] EXCEPT !.forward = 1]
    BY <1>3 DEF Step
  <2> SUFFICES ASSUME NEW c \in Chan PROVE Placed(chn'[c], c)
    BY <2>1 DEF AllPlaced, Placed
  <2>2. Placed(chn[c], c) /\ ChnFields \subseteq DOMAIN chn[c]
    BY Fields DEF AllPlaced
  <2>3. PICK x : x = chn'[c]
    OBVIOUS
  <2>4. x = [chn[c] EXCEPT !.forward = 1]
    BY <2>1, <2>3
  <2>5. chn[c].ref \in Bottom..Top /\ chn[c].state \in {"idle", "wait", "play", "frame", "over"}
    BY <2>2 DEF Placed
  <2>6. Placed(x, c)
    BY <2>2, <2>4, <2>5, PlacedSame DEF ChnFields
  <2> QED BY <2>3, <2>6
<1>4. CASE \/ SetState \/ Stop \/ Turn \/ SeekTo \/ Advance \/ Send \/ Answer \/ AllTold
           \/ Updated \/ AllOver \/ (\E u \in Users : SendCtlMsg(u) \/ Return(u)) \/ UNCHANGED vars
  <2>1. UNCHANGED <<list, chn>>
    BY <1>4 DEF vars, manager, SetState, Stop, Turn, SeekTo, Advance, Send, Answer, AllTold, Updated,
                AllOver, SendCtlMsg, Return
  <2> QED BY <2>1 DEF AllPlaced, Placed
<1> QED BY <1>1, <1>2, <1>3, <1>4 DEF Next, Control
---------------------------------------------------------------------------
(* The reference time and the answers.                                      *)

LEMMA MinTwo ==
  ASSUME NEW a \in Int, NEW b \in Int
  PROVE  Min({a, b}) = IF a <= b THEN a ELSE b
<1> PICK m \in {a, b} : m = IF a <= b THEN a ELSE b
  OBVIOUS
<1>1. \A y \in {a, b} : m <= y
  OBVIOUS
<1>2. \A x \in {a, b} : (\A y \in {a, b} : x <= y) => x = m
  OBVIOUS
<1> QED BY <1>1, <1>2 DEF Min

LEMMA MaxTwo ==
  ASSUME NEW a \in Int, NEW b \in Int
  PROVE  Max({a, b}) = IF a <= b THEN b ELSE a
<1> PICK m \in {a, b} : m = IF a <= b THEN b ELSE a
  OBVIOUS
<1>1. \A y \in {a, b} : m >= y
  OBVIOUS
<1>2. \A x \in {a, b} : (\A y \in {a, b} : x >= y) => x = m
  OBVIOUS
<1> QED BY <1>1, <1>2 DEF Max

LEMMA MovedFacts ==
  ASSUME NEW t \in Bottom..Top, NEW d \in {-1, 1}
  PROVE  Moved(t, d) \in Bottom..Top /\ Over(d) \in Answers(d)
<1>1. Top \in Int /\ Bottom \in Int /\ t \in Int /\ t + 1 \in Int /\ t - 1 \in Int /\ Bottom < Top
  BY Bounds
<1>2. /\ Min({t + 1, Top}) = IF t + 1 <= Top THEN t + 1 ELSE Top
      /\ Max({t - 1, Bottom}) = IF t - 1 <= Bottom THEN Bottom ELSE t - 1
  BY <1>1, MinTwo, MaxTwo
<1>3. Min({t + 1, Top}) \in Bottom..Top /\ Max({t - 1, Bottom}) \in Bottom..Top
  BY <1>1, <1>2
<1>4. Moved(t, d) \in Bottom..Top
  BY <1>3 DEF Moved
<1>5. Over(d) \in Answers(d)
  BY <1>1 DEF Over, Answers
<1> QED BY <1>4, <1>5

\* A section is a second at least, and its number is a natural one.
LEMMA Division ==
  ASSUME NEW w \in Nat, NEW q \in Nat \ {0}
  PROVE  w \div q \in Nat
OBVIOUS

LEMMA OneEach ==
  ASSUME NEW w \in 1..10
  PROVE  w \div w = 1
<1>1. w \in {1, 2, 3, 4, 5, 6, 7, 8, 9, 10}
  OBVIOUS
<1> QED BY <1>1

\* The sections begin inside what was found.
Tenth(w, n, q) == n \in Nat /\ n = (IF w <= 10 THEN w ELSE 10) /\ q = w \div n

LEMMA SectFacts ==
  ASSUME NEW a \in Nat, NEW w \in Nat \ {0}, NEW n, NEW q, Tenth(w, n, q)
  PROVE  q \in Nat \ {0} /\ \A i \in 0..(n - 1) : a + i * q \in a..(a + w)
<1>1. CASE w <= 10
  <2>1. q = 1 /\ n = w
    BY <1>1, OneEach DEF Tenth
  <2>2. \A i \in 0..(n - 1) : i * q = i
    BY <2>1
  <2> QED BY <2>1, <2>2
<1>2. CASE w > 10
  <2>1. n = 10 /\ q \in Nat \ {0} /\ 10 * q <= w
    BY <1>2 DEF Tenth
  <2> SUFFICES ASSUME NEW i \in 0..9 PROVE a + i * q \in a..(a + w)
    BY <2>1
  <2>2. i \in {0, 1, 2, 3, 4, 5, 6, 7, 8, 9}
    OBVIOUS
  <2>3. i * q \in Nat /\ i * q <= 9 * q
    BY <2>1, <2>2
  <2> QED BY <2>1, <2>3
<1> QED BY <1>1, <1>2

\* The sections are found inside the search, or one second after it.
LEMMA SectionFacts ==
  ASSUME Listing, Found(list), ref \in Bottom..Top
  PROVE  NextSect \in Bottom..Top /\ PreSect \in Bottom..Top
<1>1. PICK a, b, w, n, q, r : /\ a = Starts(list) /\ b = Ends(list) /\ w = Whole /\ n = Sections
                              /\ q = Section /\ r = Into
  OBVIOUS
<1>2. a \in 1..LastTime /\ b \in 1..LastTime /\ a < b /\ a \in Nat
  BY <1>1, SpanFacts, Bounds DEF Found, Listing, Times
<1>3. w = b - a /\ w \in Nat \ {0} /\ r \in Int
  BY <1>1, <1>2, Bounds DEF Whole, Into
<1>3a. w \in Nat \ {0}
  BY <1>3
<1>4. Tenth(w, n, q) /\ n \in Nat
  BY <1>1, <1>3, MinTwo DEF Sections, Section, Tenth
<1>5. q \in Nat \ {0} /\ \A i \in 0..(n - 1) : a + i * q \in a..(a + w)
  BY <1>2, <1>3a, <1>4, SectFacts
<1>6. \A i \in Int : Sect(i) = a + i * q /\ Sect(i) \in Int
  BY <1>1, <1>2, <1>5 DEF Sect
<1>7. r >= 0 => r \div q \in Nat
  BY <1>3, <1>5, Division
<1>8. NextSect \in Bottom..Top
  <2> DEFINE id == IF r >= 0 THEN r \div q + 1 ELSE IF r = -1 /\ q = 1 THEN 0 ELSE n
  <2>1. NextSect = IF id < n THEN Sect(id) ELSE b + 1
    BY <1>1 DEF NextSect
  <2>2. id \in Nat
    BY <1>4, <1>7
  <2> HIDE DEF id
  <2>3. id < n => Sect(id) \in a..b
    BY <1>2, <1>3, <1>4, <1>5, <1>6, <2>2
  <2>4. Bottom < 0 /\ Top \in Int /\ Bottom \in Int /\ Top > LastTime /\ LastTime \in Nat
    BY Bounds
  <2>5. NextSect \in 1..(LastTime + 1)
    BY <1>2, <2>1, <2>3, <2>4
  <2> QED BY <2>4, <2>5
<1>9. PreSect \in Bottom..Top
  <2> DEFINE id == IF r >= 0 THEN r \div q - 1 ELSE IF q = 1 THEN -1 ELSE LastTime
             S  == {i \in 0..id : Covered(Sect(i))}
  <2>1. PreSect = IF S = {} THEN a ELSE Sect(Max(S))
    BY <1>1 DEF PreSect
  <2>2. id \in Int /\ S \in SUBSET (0..id)
    BY <1>7, Bounds
  <2>3. S # {} => id \in Nat
    <3> HIDE DEF id
    <3> QED BY <2>2
  <2>4. \A i \in S : i \in Int /\ Covered(Sect(i))
    OBVIOUS
  <2> HIDE DEF id, S
  <2>5. S # {} => Max(S) \in S
    BY <2>2, <2>3, MaxExists
  <2>6. S # {} => Sect(Max(S)) \in Int /\ Covered(Sect(Max(S)))
    BY <1>6, <2>4, <2>5
  <2>7. \A t \in Int : Covered(t) => t \in Times
    <3> SUFFICES ASSUME NEW t \in Int, Covered(t) PROVE t \in Times
      OBVIOUS
    <3>1. PICK c \in Chan :
            \E k \in 1..Len(list[c]) : list[c][k].start <= t /\ t <= list[c][k].end
      BY DEF Covered, Listed
    <3>2. PICK k \in 1..Len(list[c]) : list[c][k].start <= t /\ t <= list[c][k].end
      BY <3>1
    <3>3. list[c][k].start \in Times /\ list[c][k].end \in Times
      BY FileFacts
    <3> QED BY <3>2, <3>3, Bounds DEF Times
  <2> QED BY <1>2, <2>1, <2>6, <2>7, Bounds DEF Times
<1> QED BY <1>8, <1>9

LEMMA SeekToFacts ==
  ASSUME IInv, Commands, Listing, Clock, SeekTo
  PROVE  ref' \in Bottom..Top
<1>1. /\ cmd.cmd \in {"SEEK", "NXT_SECT", "PRE_SECT"} /\ cmd # None /\ ctl # "idle"
  BY ServesOne DEF SeekTo
<1>2. CASE cmd.cmd = "SEEK"
  <2>1. cmd.time \in Nat
    BY <1>1 DEF Commands, Request
  <2>2. PICK t : t = cmd.time
    OBVIOUS
  <2>3. Min({t, Top}) = IF t <= Top THEN t ELSE Top
    BY <2>1, <2>2, Bounds, MinTwo
  <2>4. ref' = Min({t, Top})
    BY <1>2, <2>2 DEF SeekTo
  <2> QED BY <2>1, <2>2, <2>3, <2>4, Bounds
<1>3. CASE cmd.cmd # "SEEK"
  <2>1. ref' = NextSect \/ ref' = PreSect
    BY <1>1, <1>3 DEF SeekTo
  <2> QED BY <1>1, <2>1, SectionFacts DEF Listing, Clock
<1> QED BY <1>2, <1>3

\* The round of a message begins with nobody told.
LEMMA ClockBegins ==
  ASSUME IInv, mgr.at # "await", NEW serving, NEW msg, NEW todo, Tell(serving, msg, todo),
         UNCHANGED <<ctl, exchange>>, ctl \in {"idle", "run", "pause"}, DOMAIN ack = Chan, forward' \in {-1, 1},
         ref' \in Bottom..Top, msg.cmd \in {"SEEK", "UPDATEPTS"} => msg.time = ref'
  PROVE  Clock'
<1>1. mgr'.msg = msg /\ mgr'.least = Over(forward')
  BY DEF Tell
<1>2. mgr'.least \in Answers(forward')
  BY <1>1, MovedFacts
<1>3. (\A c \in Chan : done'[c] = 0) /\ DOMAIN ack' = Chan
  BY Quiet DEF exchange
<1> QED BY <1>1, <1>2, <1>3 DEF Clock, InRound

LEMMA ClockRounds ==
  ASSUME IInv, Commands, Listing, Clock,
         Start \/ Stop \/ Step \/ Turn \/ SeekTo \/ Advance \/ AllOver
  PROVE  Clock'
<1>1. /\ ctl \in {"idle", "run", "pause"} /\ ref \in Bottom..Top /\ forward \in {-1, 1}
      /\ DOMAIN ack = Chan
  BY DEF Clock, IInv, Managed
<1>2. CASE Start
  <2>1. /\ mgr.at = "poll" /\ forward' = 1 /\ list' = Search(cmd) /\ Found(Search(cmd))
        /\ ref' = Starts(list') /\ UNCHANGED <<ctl, exchange>>
        /\ Tell(TRUE, [cmd |-> "PLAY", time |-> 0], {c \in Chan : list'[c] # <<>>})
    BY <1>2 DEF Start, Finds, Serves
  <2>2. Listing'
    BY <1>2, ListingNext DEF Next, Control
  <2>3. \E c \in Chan : list'[c] # <<>>
    BY <2>1 DEF Found
  <2>4. ref' \in Times
    BY <2>1, <2>2, <2>3, SpanFacts DEF Listing
  <2>5. ref' \in Bottom..Top
    BY <2>4, Bounds DEF Times
  <2> QED BY <1>1, <2>1, <2>5, ClockBegins
<1>3. CASE Stop
  <2>1. /\ mgr.at = "poll" /\ UNCHANGED <<ctl, forward, ref, exchange>>
        /\ Tell(TRUE, [cmd |-> "STOP", time |-> 0], Listed)
    BY <1>3 DEF Stop, Serves
  <2> QED BY <1>1, <2>1, ClockBegins
<1>4. CASE Step
  <2>1. /\ mgr.at = "poll" /\ forward' = 1 /\ UNCHANGED <<ctl, exchange>> /\ ref' = Moved(ref, 1)
        /\ Tell(TRUE, [cmd |-> "UPDATEPTS", time |-> ref'], Listed)
    BY <1>4 DEF Step, Serves
  <2>2. ref' \in Bottom..Top
    BY <1>1, <2>1, MovedFacts
  <2> QED BY <1>1, <2>1, <2>2, ClockBegins
<1>5. CASE Turn
  <2>1. /\ mgr.at = "poll" /\ UNCHANGED <<ctl, forward, ref, exchange>>
        /\ Tell(TRUE, [cmd |-> cmd.cmd, time |-> 0], Listed)
        /\ cmd.cmd \in {"BACKWARD", "FORWARD"}
    BY <1>5 DEF Turn, Serves
  <2>2. PICK q : q = cmd.cmd
    OBVIOUS
  <2> QED BY <1>1, <2>1, <2>2, ClockBegins
<1>6. CASE SeekTo
  <2>1. /\ mgr.at = "poll" /\ UNCHANGED <<ctl, forward, exchange>>
        /\ Tell(TRUE, [cmd |-> "SEEK", time |-> ref'], Listed)
    BY <1>6 DEF SeekTo, Serves
  <2> QED BY <1>1, <1>6, <2>1, SeekToFacts, ClockBegins
<1>7. CASE Advance
  <2>1. /\ mgr.at = "poll" /\ UNCHANGED <<ctl, forward, exchange>> /\ ref' = Moved(ref, forward)
        /\ Tell(FALSE, [cmd |-> "UPDATEPTS", time |-> ref'], Listed)
    BY <1>7 DEF Advance
  <2>2. ref' \in Bottom..Top
    BY <1>1, <2>1, MovedFacts
  <2> QED BY <1>1, <2>1, <2>2, ClockBegins
<1>8. CASE AllOver
  <2>1. /\ mgr.at = "tell" /\ UNCHANGED <<ctl, forward, ref, exchange>>
        /\ Tell(mgr.serving, [cmd |-> "STOP", time |-> 0], Listed)
    BY <1>8 DEF AllOver, Told
  <2> QED BY <1>1, <2>1, ClockBegins
<1> QED BY <1>2, <1>3, <1>4, <1>5, <1>6, <1>7, <1>8
\* The answers of a round are joined to the nearest.
LEMMA NearerFacts ==
  ASSUME NEW l, NEW a, forward \in {-1, 1}, l \in Answers(forward), a \in Answers(forward),
         mgr.msg.cmd = "UPDATEPTS"
  PROVE  /\ l \in Int /\ a \in Int /\ Nearer(l, a) \in Answers(forward)
         /\ Nearer(l, a) = IF forward = 1 THEN (IF l <= a THEN l ELSE a)
                                          ELSE (IF l <= a THEN a ELSE l)
<1>1. l \in Int /\ a \in Int
  BY Bounds DEF Answers
<1>2. Min({l, a}) = (IF l <= a THEN l ELSE a) /\ Max({l, a}) = (IF l <= a THEN a ELSE l)
  BY <1>1, MinTwo, MaxTwo
<1>3. Nearer(l, a) = IF forward = 1 THEN (IF l <= a THEN l ELSE a)
                                     ELSE (IF l <= a THEN a ELSE l)
  BY <1>2 DEF Nearer
<1>4. Nearer(l, a) \in {l, a}
  BY <1>3
<1> QED BY <1>1, <1>3, <1>4

LEMMA ClockAnswer == ASSUME IInv, Clock, Answer PROVE Clock'
<1>1. /\ mgr.at = "await" /\ mgr'.at = "tell" /\ mgr'.msg = mgr.msg
      /\ mgr'.least = Nearer(mgr.least, ack[Addressed]) /\ done[Addressed] > 0
      /\ mgr'.todo = mgr.todo \ {Addressed}
      /\ UNCHANGED <<ctl, ref, forward, list>>
  BY DEF Answer, IInv, Managed
<1>2. Addressed \in Chan /\ Addressed \in mgr.todo
  <2>1. mgr.todo \in SUBSET Nat /\ mgr.todo # {} /\ mgr.todo \subseteq Chan
    BY <1>1 DEF IInv, Managed, Listed, Chan
  <2> QED BY <2>1, MinExists DEF Addressed
<1>3. forward \in {-1, 1}
  BY DEF IInv, Managed
<1>4. InRound("UPDATEPTS") => mgr'.least \in Answers(forward)
  <2> SUFFICES ASSUME InRound("UPDATEPTS") PROVE mgr'.least \in Answers(forward)
    OBVIOUS
  <2>1. mgr.least \in Answers(forward) /\ ack[Addressed] \in Answers(forward)
    BY <1>1, <1>2 DEF Clock
  <2>2. mgr.msg.cmd = "UPDATEPTS"
    BY DEF InRound
  <2> QED BY <1>1, <1>3, <2>1, <2>2, NearerFacts
<1>5. IInv'
  BY AnswerKeeps
<1>6. \A c \in Chan : ~(done'[c] > 0)
  <2> SUFFICES ASSUME NEW c \in Chan PROVE ~(done'[c] > 0)
    OBVIOUS
  <2>1. done' \in [Chan -> Nat] /\ sent' \in [Chan -> Nat]
    BY <1>5 DEF IInv, Exchanged
  <2>2. ~(sent'[c] + done'[c] = 1) /\ sent'[c] + done'[c] <= 1
    BY <1>1, <1>5 DEF IInv, Exchanged, OneExchange
  <2> QED BY <2>1, <2>2
<1>7. \A c \in Chan : Informed(c) => Informed(c)'
  <2>1. \A c \in Chan : c # Addressed => ~(done[c] > 0)
    BY Asking
  <2> QED BY <1>1, <2>1 DEF Informed
<1>8. Listed' = Listed /\ Listed \subseteq Chan
  BY <1>1 DEF Listed
<1>9. DOMAIN ack' = Chan
  BY DEF Answer, Clock
<1> QED BY <1>1, <1>4, <1>6, <1>7, <1>8, <1>9 DEF Clock, InRound

LEMMA ClockReply ==
  ASSUME IInv, Clock, NEW c \in Chan, NEW a, sent[c] > 0, Reply(c, a), UNCHANGED ref,
         mgr.msg.cmd = "UPDATEPTS" => a \in Answers(forward)
  PROVE  Clock'
<1>1. UNCHANGED <<ctl, forward, list, mgr>> /\ Listed' = Listed /\ Listed \subseteq Chan
  BY DEF Reply, Listed
<1>2. \A d \in Chan : d # c => done[d] = 0 /\ done'[d] = done[d]
  BY Asking DEF Reply, IInv, Exchanged, OneExchange
<1>3. done'[c] = 1 /\ done[c] = 0
  BY Asking DEF Reply, IInv, Exchanged
<1>4. \A d \in Chan : Informed(d) => Informed(d)'
  BY <1>1, <1>2, <1>3 DEF Informed
<1>5. InRound("UPDATEPTS") => \A d \in Chan : done'[d] > 0 => ack'[d] \in Answers(forward)
  <2> SUFFICES ASSUME InRound("UPDATEPTS"), NEW d \in Chan, done'[d] > 0
               PROVE  ack'[d] \in Answers(forward)
    OBVIOUS
  <2>1. d = c
    BY <1>2
  <2>2. DOMAIN ack = Chan
    BY DEF Clock
  <2> QED BY <2>1, <2>2 DEF Reply, InRound
<1>6. DOMAIN ack' = Chan
  BY DEF Reply, Clock
<1> QED BY <1>1, <1>4, <1>5, <1>6 DEF Clock, InRound
\* The only channel of a playback may find that its frames end before the time it
\* seeks: the reference time goes back to the last of them.
LEMMA ClockSeek ==
  ASSUME IInv, Listing, Clock, NEW c \in Chan, HearSeek(c)
  PROVE  Clock'
<1>1. /\ sent[c] > 0 /\ mgr.at = "await" /\ c \in Listed /\ mgr.msg.cmd = "SEEK"
      /\ box[c] = mgr.msg /\ Reply(c, ack[c]) /\ ~Informed(c)
  BY Uninformed, Asking DEF HearSeek, Hears
<1>2. UNCHANGED <<ctl, forward, list, mgr>>
  BY <1>1 DEF Reply
<1>3. PICK t : t = box[c].time
  OBVIOUS
<1>4. ref = t /\ mgr.msg.time = t /\ t \in Bottom..Top
  BY <1>1, <1>3 DEF Clock, InRound
<1>5. CASE UNCHANGED ref
  BY <1>1, <1>5, ClockReply
<1>6. CASE ref' # ref
  <2>1. Hits(c) # {}
    BY <1>6, Zenon DEF HearSeek, Hits
  <2>2. PICK m \in 1..Len(list[c]) :
          /\ Len(list[c]) \in Nat /\ Seekable(list[c][m], t)
          /\ Len(list[c][m].frames) \in 1..Len(list[c][m].frames)
          /\ From(list[c][m], t) = {}
          /\ ref' = ref - (t - list[c][m].frames[Len(list[c][m].frames)])
    BY <1>3, <1>6, <2>1, SeekFinds
  <2>3. PICK f : f = list[c][m]
    OBVIOUS
  <2>4. PICK n : n = Len(f.frames)
    OBVIOUS
  <2>5. /\ n \in 1..n /\ f.start \in Times /\ f.frames[n] \in Times /\ f.start <= f.frames[n]
        /\ n \in Nat /\ f.start \in Int /\ f.frames[n] \in Int /\ LastTime \in Nat
    BY <2>2, <2>3, <2>4, FileFacts, Bounds DEF Times
  <2>6. From(f, t) = {} /\ Seekable(f, t) /\ ref' = ref - (t - f.frames[n])
    BY <2>2, <2>3, <2>4
  <2>7. alone
    <3>1. ~(f.frames[n] >= t)
      BY <2>4, <2>5, <2>6 DEF From
    <3>2. f.start <= t
      BY <1>4, <2>5, <3>1, Bounds
    <3> QED BY <2>6, <3>2 DEF Seekable
  <2>8. \A d \in Listed : d = c
    BY <1>1, <2>7 DEF Listing
  <2>9. Informed(c)'
    <3>1. done'[c] = 1
      BY <1>1, Asking DEF Reply, IInv, Exchanged
    <3> QED BY <3>1 DEF Informed
  <2>10. Listed' = Listed
    BY <1>2 DEF Listed
  <2>11. ref' \in Bottom..Top
    <3>1. ref' = f.frames[n]
      BY <1>4, <2>5, <2>6, Bounds
    <3> QED BY <2>5, <3>1, Bounds DEF Times
  <2>12. DOMAIN ack' = Chan
    BY <1>1 DEF Reply, Clock
  <2> QED BY <1>1, <1>2, <1>4, <2>8, <2>9, <2>10, <2>11, <2>12 DEF Clock, InRound
<1> QED BY <1>5, <1>6

LEMMA ClockHears ==
  ASSUME IInv, AllPlaced, Clock, NEW c \in Chan,
         HearPlay(c) \/ HearUpdate(c) \/ HearStop(c) \/ HearTurn(c)
  PROVE  Clock'
<1>1. sent[c] > 0 /\ UNCHANGED ref
  BY DEF HearPlay, HearUpdate, HearStop, HearTurn, Hears
<1>2. mgr.at = "await" /\ box[c] = mgr.msg /\ Fit(chn[c], c, FALSE)
  BY <1>1, Uninformed
<1>3. CASE HearUpdate(c)
  <2> DEFINE over == chn[c].state = "wait" /\ chn[c].ready = 0 /\ PastTheEnd(c)
             a == IF over THEN Over(chn[c].forward)
                  ELSE IF chn[c].state = "wait" /\ chn[c].ready # 0 THEN chn[c].ready
                  ELSE box[c].time
  <2>1. Reply(c, a) /\ box[c].cmd = "UPDATEPTS" /\ chn[c].state # "idle"
    BY <1>3 DEF HearUpdate, Hears
  <2>2. chn[c].forward = forward /\ forward \in {-1, 1}
    BY <1>2, <2>1 DEF Fit, Opened, Refused, Direction, IInv, Managed
  <2>3. box[c].time \in Bottom..Top
    BY <1>2, <2>1 DEF Clock, InRound
  <2>4. chn[c].ready \in Bottom..Top
    <3>1. chn[c].ready \in 0..LastTime
      BY DEF AllPlaced, Placed
    <3> QED BY <3>1, Bounds
  <2>5. Over(forward) \in Answers(forward) /\ Bottom..Top \subseteq Answers(forward)
    <3>1. Bottom..Top \subseteq Answers(forward)
      BY <2>2, Bounds DEF Answers
    <3>2. ref \in Bottom..Top
      BY DEF Clock
    <3> QED BY <2>2, <3>1, <3>2, MovedFacts
  <2>6. a \in Answers(forward)
    BY <2>2, <2>3, <2>4, <2>5
  <2> HIDE DEF a
  <2> QED BY <1>1, <2>1, <2>6, ClockReply
<1>4. CASE HearPlay(c) \/ HearStop(c) \/ HearTurn(c)
  <2>1. Reply(c, ack[c]) /\ box[c].cmd # "UPDATEPTS"
    BY <1>4 DEF HearPlay, HearStop, HearTurn, Hears
  <2> QED BY <1>1, <1>2, <2>1, ClockReply
<1> QED BY <1>3, <1>4

LEMMA ClockSame ==
  ASSUME Clock, UNCHANGED <<forward, ref, list, done, ack>>,
         UNCHANGED mgr \/ mgr' = [mgr EXCEPT !.at = "await"],
         IInv, UNCHANGED mgr \/ mgr.at = "tell", ctl' \in {"idle", "run", "pause"}
  PROVE  Clock'
<1>1. /\ mgr'.msg = mgr.msg /\ mgr'.todo = mgr.todo /\ mgr'.least = mgr.least
      /\ (mgr'.at # "poll" <=> mgr.at # "poll")
  BY DEF IInv, Managed
<1> QED BY <1>1 DEF Clock, InRound, Informed, Listed

LEMMA ClockEnds ==
  ASSUME IInv, Clock, AllTold \/ Updated
  PROVE  Clock'
<1>1. /\ mgr'.at = "poll" /\ UNCHANGED ack /\ ctl' \in {"idle", "run", "pause"}
  <2>1. mgr'.at = "poll" /\ UNCHANGED ack
    BY DEF AllTold, Updated, Rest, exchange, IInv, Managed
  <2>2. CASE AllTold
    BY <2>1, <2>2 DEF AllTold, Clock
  <2>3. CASE Updated
    BY <2>1, <2>3 DEF Updated, Clock
  <2> QED BY <2>1, <2>2, <2>3
<1>2. ref' \in Bottom..Top
  <2>1. CASE AllTold
    BY <2>1 DEF AllTold, Clock
  <2>2. CASE Updated
    <3>1. /\ InRound("UPDATEPTS") /\ mgr.least # Over(forward)
          /\ (ref' = mgr.least \/ ref' = ref)
      BY <2>2 DEF Updated, Told, InRound
    <3>2. forward \in {-1, 1} /\ mgr.least \in Answers(forward) /\ ref \in Bottom..Top
      BY <3>1 DEF Clock, IInv, Managed
    <3>3. mgr.least \in Bottom..Top
      BY <3>1, <3>2, Bounds DEF Answers, Over
    <3> QED BY <3>1, <3>2, <3>3
  <2> QED BY <2>1, <2>2
<1> QED BY <1>1, <1>2 DEF Clock, InRound

LEMMA ClockNext ==
  ASSUME IInv, Commands, Listing, AllPlaced, Clock, [Next]_vars
  PROVE  Clock'
<1>1. CASE Start \/ Stop \/ Step \/ Turn \/ SeekTo \/ Advance \/ AllOver
  BY <1>1, ClockRounds
<1>2. CASE Answer
  BY <1>2, ClockAnswer
<1>3. CASE AllTold \/ Updated
  BY <1>3, ClockEnds
<1>4. CASE Send
  <2>1. /\ UNCHANGED <<ctl, forward, ref, list, done, ack>> /\ mgr.at = "tell"
        /\ mgr' = [mgr EXCEPT !.at = "await"]
    BY <1>4 DEF Send
  <2> QED BY <2>1, ClockSame DEF Clock
<1>5. CASE TooManyChannels \/ NothingFound
  <2>1. mgr.at = "poll" /\ UNCHANGED <<ctl, ref, mgr, exchange>>
    BY <1>5 DEF TooManyChannels, NothingFound, Finds, Serves
  <2> QED BY <2>1 DEF Clock, InRound, exchange
<1>6. CASE SetState
  <2>1. UNCHANGED <<forward, ref, list, mgr, done, ack>> /\ ctl' = Goes(cmd.cmd, ctl)
    BY <1>6 DEF SetState, exchange
  <2>2. ctl' \in {"idle", "run", "pause"}
    BY <2>1 DEF Goes, Clock
  <2> QED BY <2>1, <2>2, ClockSame
<1>7. ASSUME NEW c \in Chan, Channel(c) PROVE Clock'
  <2>1. CASE HearPlay(c) \/ HearUpdate(c) \/ HearStop(c) \/ HearTurn(c)
    BY <2>1, ClockHears
  <2>2. CASE HearSeek(c)
    BY <2>2, ClockSeek
  <2>3. CASE NoMessage(c) \/ Show(c) \/ NotDue(c) \/ SeeStop(c) \/ Read(c) \/ NextFile(c)
    <3>1. UNCHANGED <<ctl, forward, ref, list, mgr, done, ack>>
      BY <2>3 DEF NoMessage, Show, NotDue, SeeStop, Read, NextFile, manager, exchange
    <3> QED BY <3>1, ClockSame DEF Clock
  <2> QED BY <1>7, <2>1, <2>2, <2>3 DEF Channel
<1>8. CASE (\E u \in Users : SendCtlMsg(u) \/ Return(u)) \/ UNCHANGED vars
  <2>1. UNCHANGED <<ctl, forward, ref, list, mgr, done, ack>>
    BY <1>8 DEF SendCtlMsg, Return, vars, manager, exchange
  <2> QED BY <2>1, ClockSame DEF Clock
<1> QED BY <1>1, <1>2, <1>3, <1>4, <1>5, <1>6, <1>7, <1>8 DEF Next, Control

---------------------------------------------------------------------------
FullInv == IInv /\ Commands /\ Listing /\ AllPlaced /\ Clock

LEMMA InitFull == Init => FullInv
<1> SUFFICES ASSUME Init PROVE FullInv
  OBVIOUS
<1>1. Commands
  BY InitCommands
<1>2. Listing
  BY DEF Init, Listing, Listed
<1>3. AllPlaced
  <2> SUFFICES ASSUME NEW c \in Chan PROVE Placed(chn[c], c)
    BY DEF AllPlaced
  <2>1. PICK x : x = chn[c]
    OBVIOUS
  <2>2. /\ x.state = "idle" /\ x.forward = 1 /\ x.index = 0 /\ Shut(x) /\ x.ready = 0 /\ x.ref = 0
    BY <2>1 DEF Init, Shut
  <2>3. 0 \in Bottom..Top
    BY Bounds
  <2>4. 0 \in -1..Len(Recorded[c])
    BY RecordedAssumption
  <2>5. Placed(x, c)
    BY <2>2, <2>3, <2>4, PlacedClosed
  <2> QED BY <2>1, <2>5
<1>4. Clock
  <2>1. 0 \in Bottom..Top
    BY Bounds
  <2> QED BY <2>1 DEF Init, Clock, InRound
<1> QED BY <1>1, <1>2, <1>3, <1>4, InitIInv DEF FullInv

LEMMA NextFull == FullInv /\ [Next]_vars => FullInv'
BY NextIInv, CommandsNext, ListingNext, AllPlacedNext, ClockNext DEF FullInv

LEMMA SpecFull == Spec => []FullInv
BY InitFull, NextFull, PTL DEF Spec

\* For any recordings and commands every variable keeps its type: the reference
\* time never leaves its bounds, and no index of a list is further than one past
\* either end of it (aRecFileInfos and nCurIndex of SPlaybackChnInfo).
THEOREM TypeCorrect == Spec => []TypeOK
<1>1. FullInv => TypeOK
  <2> SUFFICES ASSUME FullInv PROVE TypeOK
    OBVIOUS
  <2>1. /\ calls \in 0..Len(Asked) /\ lock \in Users \cup {NoUser}
        /\ cmd \in Request \cup {None} /\ finish \in 0..1
    BY DEF FullInv, Commands
  <2>2. ctl \in {"idle", "run", "pause"} /\ forward \in {-1, 1} /\ ref \in Bottom..Top
    BY DEF FullInv, Clock, IInv, Managed
  <2>3. alone \in BOOLEAN /\ \A c \in Chan : Len(list[c]) <= Len(Recorded[c])
    BY Lists1 DEF FullInv, Listing
  <2>4. mgr.at \in {"poll", "tell", "await"} /\ mgr.todo \subseteq Chan
    BY DEF FullInv, IInv, Managed, Listed
  <2>5. \A c \in Chan : LET ch == chn[c] IN
          /\ ch.state \in {"idle", "wait", "play", "frame", "over"}
          /\ ch.forward \in {-1, 1} /\ ch.index \in -1..Len(Recorded[c])
          /\ ch.ready \in 0..LastTime /\ ch.ref \in Bottom..Top
    BY DEF FullInv, AllPlaced, Placed
  <2>6. sent \in [Chan -> 0..1] /\ done \in [Chan -> 0..1]
    <3>1. \A c \in Chan : sent[c] \in 0..1 /\ done[c] \in 0..1
      BY DEF FullInv, IInv, Exchanged, OneExchange
    <3> QED BY <3>1 DEF FullInv, IInv, Exchanged
  <2> QED BY <2>1, <2>2, <2>3, <2>4, <2>5, <2>6 DEF TypeOK
<1> QED BY <1>1, SpecFull, PTL
---------------------------------------------------------------------------
(* Why a jump skips nothing.  A channel that has answered b to UPDATEPTS has *)
(* nothing more to play, or holds a frame that is not due and no nearer than *)
(* b; or b is reached already, and then it is no jump.                       *)

Reached(b) == IF forward = 1 THEN b <= ref ELSE b >= ref

Finished(ch, c) ==
  /\ ch.state = "wait" /\ ch.ready = 0
  /\ IF forward = 1 THEN ch.index < 0 ELSE ch.index >= Len(list[c])

Holds(ch, b) ==
  /\ ch.state \in {"wait", "frame"} /\ ch.ready # 0 /\ ~Due(ch)
  /\ IF forward = 1 THEN b <= ch.ready ELSE b >= ch.ready

Waits(ch, c, b) == Reached(b) \/ Finished(ch, c) \/ Holds(ch, b)

Heard ==
  InRound("UPDATEPTS") =>
    \A c \in Listed : /\ done[c] > 0 => Waits(chn[c], c, ack[c])
                      /\ c \notin mgr.todo => Waits(chn[c], c, mgr.least)

\* An answer that is nearer than b is one that the channel waits for as well.
LEMMA WaitsNearer ==
  ASSUME NEW ch, NEW c, NEW b \in Int, NEW a \in Int, Waits(ch, c, b), ref \in Int,
         ch.ready \in Int, IF forward = 1 THEN a <= b ELSE a >= b
  PROVE  Waits(ch, c, a)
<1>1. Reached(b) => Reached(a)
  BY DEF Reached
<1>2. Holds(ch, b) => Holds(ch, a)
  BY DEF Holds
<1> QED BY <1>1, <1>2 DEF Waits

LEMMA HeardAnswer == ASSUME FullInv, Heard, Answer PROVE Heard'
<1>1. /\ mgr.at = "await" /\ mgr'.at = "tell" /\ mgr'.msg = mgr.msg
      /\ mgr'.least = Nearer(mgr.least, ack[Addressed]) /\ done[Addressed] > 0
      /\ mgr'.todo = mgr.todo \ {Addressed}
      /\ UNCHANGED <<ref, forward, list, chn>>
  BY DEF Answer, FullInv, IInv, Managed
<1>2. Addressed \in Chan /\ Addressed \in mgr.todo /\ Addressed \in Listed
  <2>1. mgr.todo \in SUBSET Nat /\ mgr.todo # {} /\ mgr.todo \subseteq Chan /\ mgr.todo \subseteq Listed
    BY <1>1 DEF FullInv, IInv, Managed, Listed, Chan
  <2> QED BY <2>1, MinExists DEF Addressed
<1>3. \A c \in Chan : ~(done'[c] > 0)
  <2>1. IInv'
    BY AnswerKeeps DEF FullInv
  <2> SUFFICES ASSUME NEW c \in Chan PROVE ~(done'[c] > 0)
    OBVIOUS
  <2>2. done' \in [Chan -> Nat] /\ sent' \in [Chan -> Nat]
    BY <2>1 DEF IInv, Exchanged
  <2>3. ~(sent'[c] + done'[c] = 1) /\ sent'[c] + done'[c] <= 1
    BY <1>1, <2>1 DEF IInv, Exchanged, OneExchange
  <2> QED BY <2>2, <2>3
<1>4. SUFFICES ASSUME InRound("UPDATEPTS"), NEW c \in Listed, c \notin mgr'.todo
               PROVE  Waits(chn[c], c, mgr'.least)
  <2>1. InRound("UPDATEPTS")' => InRound("UPDATEPTS")
    BY <1>1 DEF InRound
  <2>2. Listed' = Listed /\ Listed \subseteq Chan
    BY <1>1 DEF Listed
  <2>3. ASSUME NEW c \in Listed, Waits(chn[c], c, mgr'.least)
        PROVE  Waits(chn[c], c, mgr.least)'
    BY <1>1, <2>3 DEF Waits, Reached, Finished, Holds, Due
  <2> QED BY <1>3, <1>4, <2>1, <2>2, <2>3 DEF Heard
<1>5. /\ forward \in {-1, 1} /\ mgr.least \in Answers(forward) /\ ack[Addressed] \in Answers(forward)
      /\ mgr.msg.cmd = "UPDATEPTS" /\ ref \in Int
  BY <1>1, <1>2, <1>4, Bounds DEF FullInv, IInv, Managed, Clock, InRound
<1>6. PICK l, a : l = mgr.least /\ a = ack[Addressed]
  OBVIOUS
<1>7. /\ l \in Int /\ a \in Int
      /\ mgr'.least = IF forward = 1 THEN (IF l <= a THEN l ELSE a) ELSE (IF l <= a THEN a ELSE l)
  BY <1>1, <1>5, <1>6, NearerFacts
<1>8. chn[c].ready \in Int
  <2>1. chn[c].ready \in 0..LastTime
    BY DEF FullInv, AllPlaced, Placed, Listed
  <2> QED BY <2>1, Bounds
<1>9. PICK n : n = mgr'.least
  OBVIOUS
<1>10. n \in Int /\ (forward = 1 => n <= l /\ n <= a) /\ (forward # 1 => n >= l /\ n >= a)
  BY <1>7, <1>9
<1>11. CASE c = Addressed
  <2>1. Waits(chn[c], c, a)
    BY <1>1, <1>4, <1>6, <1>11 DEF Heard
  <2> QED BY <1>5, <1>7, <1>8, <1>9, <1>10, <2>1, WaitsNearer
<1>12. CASE c # Addressed
  <2>1. Waits(chn[c], c, l)
    BY <1>1, <1>4, <1>6, <1>12 DEF Heard
  <2> QED BY <1>5, <1>7, <1>8, <1>9, <1>10, <2>1, WaitsNearer
<1> QED BY <1>11, <1>12

LEMMA HeardUpdate == ASSUME FullInv, Heard, NEW c \in Chan, HearUpdate(c) PROVE Heard'
<1> DEFINE over == chn[c].state = "wait" /\ chn[c].ready = 0 /\ PastTheEnd(c)
           a == IF over THEN Over(chn[c].forward)
                ELSE IF chn[c].state = "wait" /\ chn[c].ready # 0 THEN chn[c].ready
                ELSE box[c].time
           x == [chn[c] EXCEPT !.ref = box[c].time, !.state = IF over THEN "wait" ELSE "frame"]
<1>1. /\ sent[c] > 0 /\ box[c].cmd = "UPDATEPTS" /\ chn[c].state \in {"wait", "play"}
      /\ Reply(c, a)
  BY DEF HearUpdate, Hears
<1>2. chn' = [chn EXCEPT ![c] = x]
  BY DEF HearUpdate
<1>3. /\ mgr.at = "await" /\ box[c] = mgr.msg /\ Fit(chn[c], c, FALSE) /\ c \in mgr.todo
      /\ \A d \in Chan : d # c => done[d] = 0
  <2>1. mgr.at = "await" /\ c = Addressed /\ c \in mgr.todo
    BY <1>1, Asking DEF FullInv
  <2>2. box[c] = mgr.msg /\ Fit(chn[c], c, FALSE)
    BY <1>1, Uninformed DEF FullInv
  <2>3. \A d \in Chan : d # c => done[d] = 0
    BY <2>1 DEF FullInv, IInv, Exchanged, OneExchange
  <2> QED BY <2>1, <2>2, <2>3
<1>4. chn[c].forward = forward /\ ChnFields \subseteq DOMAIN chn[c] /\ DOMAIN chn = Chan
  BY <1>1, <1>3 DEF Fit, Opened, Refused, Direction, FullInv, IInv, Fits
<1>5. box[c].time = ref /\ ref \in Int /\ chn[c].ready \in Int
  <2>1. box[c].time = ref
    BY <1>1, <1>3 DEF FullInv, Clock, InRound
  <2>2. chn[c].ready \in 0..LastTime /\ ref \in Bottom..Top
    BY DEF FullInv, AllPlaced, Placed, Clock
  <2> QED BY <2>1, <2>2, Bounds
<1>6. Waits(x, c, a)
  <2>1. /\ x.state = (IF over THEN "wait" ELSE "frame") /\ x.ready = chn[c].ready
        /\ x.index = chn[c].index /\ x.forward = forward /\ x.ref = ref
    BY <1>4, <1>5 DEF ChnFields
  <2> HIDE DEF x
  <2>2. CASE over
    <3>1. Finished(x, c)
      BY <1>4, <2>1, <2>2 DEF Finished, PastTheEnd
    <3> QED BY <3>1 DEF Waits
  <2>3. CASE ~over /\ chn[c].state = "wait" /\ chn[c].ready # 0
    <3>1. a = chn[c].ready /\ x.state = "frame"
      BY <2>1, <2>3
    <3>2. PICK r : r = chn[c].ready
      OBVIOUS
    <3>3. (~Due(x) /\ Holds(x, r)) \/ Reached(r)
      BY <1>5, <2>1, <2>3, <3>1, <3>2 DEF Holds, Reached, Due
    <3> QED BY <3>1, <3>2, <3>3 DEF Waits
  <2>4. CASE ~over /\ ~(chn[c].state = "wait" /\ chn[c].ready # 0)
    <3>1. a = ref
      BY <1>5, <2>4
    <3>2. Reached(ref)
      BY <1>5 DEF Reached
    <3> QED BY <3>1, <3>2 DEF Waits
  <2> QED BY <2>2, <2>3, <2>4
<1> HIDE DEF a, x
<1>7. UNCHANGED <<forward, list, mgr, ref>>
  BY <1>1 DEF Reply, HearUpdate
<1>8. /\ chn'[c] = x /\ ack'[c] = a
      /\ \A d \in Chan : d # c => chn'[d] = chn[d] /\ done'[d] = 0
  BY <1>1, <1>2, <1>3, <1>4 DEF Reply, FullInv, Clock, IInv, Exchanged
<1>9. Listed' = Listed /\ Listed \subseteq Chan
  BY <1>7 DEF Listed
<1>10. ASSUME InRound("UPDATEPTS"), NEW d \in Listed
       PROVE  /\ done'[d] > 0 => Waits(chn'[d], d, ack'[d])
              /\ d \notin mgr.todo => Waits(chn'[d], d, mgr.least)
  BY <1>3, <1>6, <1>8, <1>9, <1>10 DEF Heard
<1> QED BY <1>7, <1>9, <1>10 DEF Heard, InRound, Waits, Reached, Finished, Holds, Due

\* Inside the frame loop a channel that waits goes on waiting.
LEMMA WaitsOn ==
  ASSUME FullInv, NEW c \in Chan, NEW b, Waits(chn[c], c, b),
         NoMessage(c) \/ Show(c) \/ NotDue(c) \/ SeeStop(c) \/ Read(c) \/ NextFile(c)
  PROVE  Waits(chn'[c], c, b)
<1>1. CASE Reached(b)
  BY <1>1 DEF Waits
<1>2. CASE Finished(chn[c], c)
  BY <1>2 DEF Finished, NoMessage, Show, NotDue, SeeStop, Read, NextFile
<1>3. CASE Holds(chn[c], b)
  <2>1. NotDue(c)
    BY <1>3 DEF Holds, NoMessage, Show, SeeStop, Read, NextFile
  <2>2. PICK x : x = [chn[c] EXCEPT !.state = "wait"]
    OBVIOUS
  <2>3. chn'[c] = x
    BY <2>1, <2>2 DEF NotDue, FullInv, IInv, Fits
  <2>4. x.state = "wait" /\ x.ready = chn[c].ready /\ x.ref = chn[c].ref /\ x.forward = chn[c].forward
    BY <2>2, Fields DEF ChnFields, FullInv
  <2>5. Holds(x, b)
    BY <1>3, <2>4 DEF Holds, Due
  <2> QED BY <2>3, <2>5 DEF Waits
<1> QED BY <1>1, <1>2, <1>3 DEF Waits
LEMMA HeardLoop ==
  ASSUME FullInv, Heard, NEW c \in Chan,
         NoMessage(c) \/ Show(c) \/ NotDue(c) \/ SeeStop(c) \/ Read(c) \/ NextFile(c)
  PROVE  Heard'
<1>1. UNCHANGED <<forward, list, mgr, ref, done, ack>>
  BY DEF NoMessage, Show, NotDue, SeeStop, Read, NextFile, manager, exchange
<1>2. Listed' = Listed /\ Listed \subseteq Chan
  BY <1>1 DEF Listed
<1>3. \A d \in Chan : d # c => chn'[d] = chn[d]
  BY DEF NoMessage, Show, NotDue, SeeStop, Read, NextFile, FullInv, IInv, Fits
<1>4. ASSUME NEW d \in Listed, NEW b, Waits(chn[d], d, b)
      PROVE  Waits(chn'[d], d, b)
  <2>1. CASE d = c
    BY <1>4, <2>1, WaitsOn
  <2>2. CASE d # c
    BY <1>2, <1>3, <1>4, <2>2
  <2> QED BY <2>1, <2>2
<1>5. ASSUME InRound("UPDATEPTS"), NEW d \in Listed
      PROVE  /\ done[d] > 0 => Waits(chn'[d], d, ack[d])
             /\ d \notin mgr.todo => Waits(chn'[d], d, mgr.least)
  BY <1>4, <1>5 DEF Heard
<1> QED BY <1>1, <1>2, <1>5 DEF Heard, InRound, Waits, Reached, Finished, Holds, Due

\* A round begins with no channel told.
LEMMA HeardBegins ==
  ASSUME FullInv, mgr.at # "await", NEW serving, NEW msg, NEW t, Tell(serving, msg, t),
         UNCHANGED exchange, Listed' \subseteq t
  PROVE  Heard'
<1>1. mgr'.todo = t
  BY DEF Tell
<1>2. \A c \in Chan : done'[c] = 0
  BY Quiet DEF exchange, FullInv
<1>3. Listed' \subseteq Chan
  BY DEF Listed
<1> QED BY <1>1, <1>2, <1>3 DEF Heard

LEMMA HeardRounds ==
  ASSUME FullInv, Start \/ Stop \/ Step \/ Turn \/ SeekTo \/ Advance \/ AllOver
  PROVE  Heard'
<1>1. mgr.at # "await" /\ UNCHANGED exchange
  BY DEF Start, Finds, Stop, Step, Turn, SeekTo, Advance, AllOver, Serves, Told
<1>2. \E serving, msg, t : Tell(serving, msg, t) /\ Listed' \subseteq t
  <2>1. CASE Start
    <3>1. PICK t : t = {c \in Chan : list'[c] # <<>>}
      OBVIOUS
    <3>2. Tell(TRUE, [cmd |-> "PLAY", time |-> 0], t)
      BY <2>1, <3>1 DEF Start
    <3>3. Listed' \subseteq t
      BY <3>1 DEF Listed
    <3> QED BY <3>2, <3>3
  <2>2. CASE Stop \/ Step \/ Turn \/ SeekTo \/ Advance \/ AllOver
    <3>1. UNCHANGED list
      BY <2>2 DEF Stop, Step, Turn, SeekTo, Advance, AllOver
    <3>2. Listed' = Listed
      BY <3>1 DEF Listed
    <3>3. \E serving, msg : Tell(serving, msg, Listed)
      BY <2>2 DEF Stop, Step, Turn, SeekTo, Advance, AllOver
    <3> QED BY <3>2, <3>3
  <2> QED BY <2>1, <2>2
<1> QED BY <1>1, <1>2, HeardBegins

LEMMA HeardNext ==
  ASSUME FullInv, Heard, [Next]_vars
  PROVE  Heard'
<1>1. CASE Start \/ Stop \/ Step \/ Turn \/ SeekTo \/ Advance \/ AllOver
  BY <1>1, HeardRounds
<1>2. CASE Answer
  BY <1>2, HeardAnswer
<1>3. CASE AllTold \/ Updated
  <2>1. mgr'.at = "poll"
    BY <1>3 DEF AllTold, Updated, Rest, FullInv, IInv, Managed
  <2> QED BY <2>1 DEF Heard, InRound
<1>4. CASE TooManyChannels \/ NothingFound \/ SetState
  <2>1. mgr'.at = "poll"
    BY <1>4 DEF TooManyChannels, Finds, NothingFound, SetState, Serves
  <2> QED BY <2>1 DEF Heard, InRound
<1>5. CASE Send \/ (\E u \in Users : SendCtlMsg(u) \/ Return(u)) \/ UNCHANGED vars
  <2>1. /\ UNCHANGED <<forward, list, chn, ref, done, ack>>
        /\ mgr'.msg = mgr.msg /\ mgr'.todo = mgr.todo /\ mgr'.least = mgr.least
        /\ (mgr'.at # "poll" <=> mgr.at # "poll")
    BY <1>5 DEF Send, SendCtlMsg, Return, vars, manager, exchange, FullInv, IInv, Managed
  <2> QED BY <2>1 DEF Heard, InRound, Listed, Waits, Reached, Finished, Holds, Due
<1>6. ASSUME NEW c \in Chan, Channel(c) PROVE Heard'
  <2>1. CASE HearUpdate(c)
    BY <2>1, HeardUpdate
  <2>2. CASE HearPlay(c) \/ HearStop(c) \/ HearTurn(c) \/ HearSeek(c)
    <3>1. sent[c] > 0 /\ box[c].cmd # "UPDATEPTS" /\ UNCHANGED mgr
      BY <2>2 DEF HearPlay, HearStop, HearTurn, HearSeek, Hears, Reply
    <3>2. ~InRound("UPDATEPTS")
      BY <3>1, Uninformed DEF InRound, FullInv
    <3> QED BY <3>1, <3>2 DEF Heard, InRound
  <2>3. CASE NoMessage(c) \/ Show(c) \/ NotDue(c) \/ SeeStop(c) \/ Read(c) \/ NextFile(c)
    BY <2>3, HeardLoop
  <2> QED BY <1>6, <2>1, <2>2, <2>3 DEF Channel
<1> QED BY <1>1, <1>2, <1>3, <1>4, <1>5, <1>6 DEF Next, Control

\* What a channel that holds a frame has still to show.
LEMMA AheadOfHeld ==
  ASSUME FullInv, NEW c \in Listed, chn[c].ready # 0, chn[c].forward = forward,
         NEW t \in Ahead(c)
  PROVE  t \in Nat /\ IF forward = 1 THEN t >= chn[c].ready ELSE t <= chn[c].ready
<1>1. Placed(chn[c], c) /\ c \in Chan /\ forward \in {-1, 1}
  BY DEF FullInv, AllPlaced, Listed, IInv, Managed
<1>2. chn[c].open /\ chn[c].ready \in 0..LastTime
  BY <1>1 DEF Placed
<1>3. PICK i : i = chn[c].index + 1
  OBVIOUS
<1>4. PICK r : r = chn[c].ready
  OBVIOUS
<1>5. PICK p : p = chn[c].next - 1
  OBVIOUS
<1>6. PICK fs : fs = list[c]
  OBVIOUS
<1>7. Len(fs) \in Nat /\ i \in 1..Len(fs) /\ chn[c].index = i - 1
  <2>1. chn[c].index \in 0..(Len(list[c]) - 1) /\ Len(list[c]) \in Nat
    BY <1>1, <1>2, Lists1 DEF FullInv, IInv, Fits, Fit
  <2> QED BY <1>3, <1>6, <2>1
<1>8. Len(fs[i].frames) \in Nat
  BY <1>1, <1>6, <1>7, FileFacts DEF FullInv
<1>9. /\ p \in 1..Len(fs[i].frames) /\ chn[c].next = p + 1 /\ chn[c].back = p - 1
      /\ r = fs[i].frames[p]
  <2>1. /\ chn[c].next \in 1..(Len(fs[i].frames) + 1) /\ chn[c].next > 1
        /\ chn[c].back = chn[c].next - 2 /\ chn[c].ready = fs[i].frames[chn[c].next - 1]
    BY <1>1, <1>2, <1>3, <1>6 DEF Placed
  <2> QED BY <1>4, <1>5, <1>8, <2>1
<1>10. /\ \A k \in 1..Len(fs) : \A n \in 1..Len(fs[k].frames) :
            /\ fs[k].frames[n] \in Nat /\ fs[k].start \in Nat /\ fs[k].end \in Nat
            /\ fs[k].start <= fs[k].frames[n] /\ fs[k].frames[n] <= fs[k].end
       /\ \A m, n \in 1..Len(fs[i].frames) : m < n => fs[i].frames[m] < fs[i].frames[n]
  <2>1. ASSUME NEW k \in 1..Len(fs), NEW n \in 1..Len(fs[k].frames)
        PROVE  /\ fs[k].frames[n] \in Times /\ fs[k].start \in Times /\ fs[k].end \in Times
               /\ fs[k].start <= fs[k].frames[n] /\ fs[k].frames[n] <= fs[k].end
    BY <1>1, <1>6, FileFacts DEF FullInv
  <2>2. Times \subseteq Nat
    BY Bounds DEF Times
  <2>3. \A m, n \in 1..Len(fs[i].frames) : m < n => fs[i].frames[m] < fs[i].frames[n]
    BY <1>1, <1>6, <1>7, FileFacts DEF FullInv
  <2> QED BY <2>1, <2>2, <2>3
<1>11. Apart(fs) => \A k \in 1..Len(fs) : \A j \in 1..(k - 1) : fs[k].end < fs[j].start
  BY <1>7 DEF Apart
<1>12. \/ t = r
       \/ /\ forward = 1 /\ \E n \in (p + 1)..Len(fs[i].frames) : t = fs[i].frames[n]
       \/ /\ forward # 1 /\ \E n \in 1..(p - 1) : t = fs[i].frames[n]
       \/ /\ forward = 1 /\ Apart(fs)
          /\ \E k \in 1..(i - 1) : \E n \in 1..Len(fs[k].frames) : t = fs[k].frames[n]
       \/ /\ forward # 1 /\ Apart(fs)
          /\ \E k \in (i + 1)..Len(fs) : \E n \in 1..Len(fs[k].frames) : t = fs[k].frames[n]
  <2>1. File(c) = fs[i]
    BY <1>3, <1>6 DEF File
  <2>2. \/ t = chn[c].ready
        \/ \E n \in (IF forward = 1 THEN chn[c].next..Len(fs[i].frames) ELSE 1..chn[c].back) :
             t = fs[i].frames[n]
        \/ \E k \in {j \in 1..Len(fs) : /\ Apart(fs)
                                        /\ IF forward = 1 THEN j <= chn[c].index
                                                          ELSE j > chn[c].index + 1} :
             \E n \in 1..Len(fs[k].frames) : t = fs[k].frames[n]
    BY <1>2, <1>6, <2>1 DEF Ahead
  <2>3. CASE t = chn[c].ready
    BY <1>4, <2>3
  <2>4. CASE \E n \in (IF forward = 1 THEN chn[c].next..Len(fs[i].frames) ELSE 1..chn[c].back) :
               t = fs[i].frames[n]
    BY <1>9, <2>4
  <2>5. CASE \E k \in {j \in 1..Len(fs) : /\ Apart(fs)
                                          /\ IF forward = 1 THEN j <= chn[c].index
                                                            ELSE j > chn[c].index + 1} :
               \E n \in 1..Len(fs[k].frames) : t = fs[k].frames[n]
    <3>1. PICK k \in {j \in 1..Len(fs) : /\ Apart(fs)
                                          /\ IF forward = 1 THEN j <= chn[c].index
                                                            ELSE j > chn[c].index + 1} :
            \E n \in 1..Len(fs[k].frames) : t = fs[k].frames[n]
      BY <2>5
    <3>2. forward = 1 => k \in 1..(i - 1)
      BY <1>7
    <3>3. forward # 1 => k \in (i + 1)..Len(fs)
      BY <1>7
    <3> QED BY <3>1, <3>2, <3>3
  <2> QED BY <2>2, <2>3, <2>4, <2>5
<1>13. CASE forward = 1 /\ \E n \in (p + 1)..Len(fs[i].frames) : t = fs[i].frames[n]
  <2>1. PICK n \in (p + 1)..Len(fs[i].frames) : t = fs[i].frames[n]
    BY <1>13
  <2>2. n \in 1..Len(fs[i].frames) /\ p < n
    BY <1>8, <1>9
  <2>3. fs[i].frames[p] < fs[i].frames[n] /\ fs[i].frames[p] \in Nat /\ fs[i].frames[n] \in Nat
    BY <1>7, <1>9, <1>10, <2>2
  <2> QED BY <1>4, <1>9, <1>13, <2>1, <2>3
<1>14. CASE forward # 1 /\ \E n \in 1..(p - 1) : t = fs[i].frames[n]
  <2>1. PICK n \in 1..(p - 1) : t = fs[i].frames[n]
    BY <1>14
  <2>2. n \in 1..Len(fs[i].frames) /\ n < p
    BY <1>8, <1>9
  <2>3. fs[i].frames[n] < fs[i].frames[p] /\ fs[i].frames[p] \in Nat /\ fs[i].frames[n] \in Nat
    BY <1>7, <1>9, <1>10, <2>2
  <2> QED BY <1>4, <1>9, <1>14, <2>1, <2>3
<1>15. CASE forward = 1 /\ Apart(fs) /\ \E k \in 1..(i - 1) :
                              \E n \in 1..Len(fs[k].frames) : t = fs[k].frames[n]
  <2>1. PICK k \in 1..(i - 1) : \E n \in 1..Len(fs[k].frames) : t = fs[k].frames[n]
    BY <1>15
  <2>5. PICK n \in 1..Len(fs[k].frames) : t = fs[k].frames[n]
    BY <2>1
  <2>2. k \in 1..Len(fs)
    BY <1>7
  <2>3. fs[i].end < fs[k].start
    BY <1>7, <1>11, <1>15
  <2>4. /\ fs[k].start <= fs[k].frames[n] /\ fs[k].frames[n] \in Nat /\ fs[k].start \in Nat
        /\ fs[i].frames[p] <= fs[i].end /\ fs[i].frames[p] \in Nat /\ fs[i].end \in Nat
    BY <1>7, <1>9, <1>10, <2>2
  <2>6. PICK a, b : a = fs[i].end /\ b = fs[k].start
    OBVIOUS
  <2>7. t \in Nat /\ r \in Nat /\ a \in Nat /\ b \in Nat /\ r <= a /\ a < b /\ b <= t
    BY <1>9, <2>3, <2>4, <2>5, <2>6
  <2>8. t \in Nat /\ t >= r
    BY <2>7
  <2> QED BY <1>4, <1>15, <2>8
<1>16. CASE forward # 1 /\ Apart(fs) /\ \E k \in (i + 1)..Len(fs) :
                              \E n \in 1..Len(fs[k].frames) : t = fs[k].frames[n]
  <2>1. PICK k \in (i + 1)..Len(fs) : \E n \in 1..Len(fs[k].frames) : t = fs[k].frames[n]
    BY <1>16
  <2>5. PICK n \in 1..Len(fs[k].frames) : t = fs[k].frames[n]
    BY <2>1
  <2>2. k \in 1..Len(fs) /\ i \in 1..(k - 1)
    BY <1>7
  <2>3. fs[k].end < fs[i].start
    BY <1>11, <1>16, <2>2
  <2>4. /\ fs[k].frames[n] <= fs[k].end /\ fs[k].frames[n] \in Nat /\ fs[k].end \in Nat
        /\ fs[i].start <= fs[i].frames[p] /\ fs[i].frames[p] \in Nat /\ fs[i].start \in Nat
    BY <1>7, <1>9, <1>10, <2>2
  <2>6. PICK a, b : a = fs[k].end /\ b = fs[i].start
    OBVIOUS
  <2>7. t \in Nat /\ r \in Nat /\ a \in Nat /\ b \in Nat /\ t <= a /\ a < b /\ b <= r
    BY <1>9, <2>3, <2>4, <2>5, <2>6
  <2>8. t \in Nat /\ t <= r
    BY <2>7
  <2> QED BY <1>4, <1>16, <2>8
<1>17. CASE t = r
  BY <1>2, <1>4, <1>17, Bounds
<1> QED BY <1>12, <1>13, <1>14, <1>15, <1>16, <1>17

\* A channel that is finished has nothing to show.
LEMMA AheadOfFinished ==
  ASSUME FullInv, NEW c \in Listed, Finished(chn[c], c), chn[c].forward = forward
  PROVE  Ahead(c) = {}
<1>1. c \in Chan /\ Fit(chn[c], c, Informed(c)) /\ Len(list[c]) \in Nat
  BY Lists1 DEF Listed, FullInv, IInv, Fits
<1>2. chn[c].index \in -1..Len(list[c])
  BY <1>1 DEF Fit
<1>3. chn[c].ready = 0 /\ (IF forward = 1 THEN chn[c].index < 0 ELSE chn[c].index >= Len(list[c]))
  BY DEF Finished
<1>4. ~chn[c].open
  <2>1. chn[c].open => chn[c].index \in 0..(Len(list[c]) - 1)
    BY <1>1 DEF Fit
  <2> QED BY <1>1, <1>2, <1>3, <2>1
<1>5. {i \in 1..Len(list[c]) :
         Apart(list[c]) /\ IF forward = 1 THEN i <= chn[c].index ELSE i > chn[c].index + 1} = {}
  BY <1>1, <1>2, <1>3
<1> QED BY <1>3, <1>4, <1>5 DEF Ahead

\* For any recordings that a search sorts, of any times, and any commands, the
\* reference time leaps over a gap only: no channel has a frame to show in it, of
\* the recording it plays, or of those to come where its recordings do not overlap
\* (UpdatePTS of PBCtlFunc and the frame loop of PBChnFunc).
THEOREM JumpSkips == Spec => JumpSkipsNothing
<1> DEFINE I == FullInv /\ Heard
           Skips == (Told({"UPDATEPTS"}) /\ ref' # ref) =>
                      \A c \in Listed : \A t \in Ahead(c) :
                        IF forward = 1 THEN t >= ref' ELSE t <= ref'
<1>1. Init => I
  <2>1. Init => Heard
    BY DEF Init, Heard, InRound
  <2> QED BY <2>1, InitFull
<1>2. I /\ [Next]_vars => I'
  BY NextFull, HeardNext
<1>3. I /\ [Next]_vars => Skips
  <2> SUFFICES ASSUME FullInv, Heard, [Next]_vars, Told({"UPDATEPTS"}), ref' # ref,
                      NEW c \in Listed, NEW t \in Ahead(c)
               PROVE  IF forward = 1 THEN t >= ref' ELSE t <= ref'
    OBVIOUS
  <2>1. mgr.at = "tell" /\ mgr.todo = {} /\ mgr.msg.cmd = "UPDATEPTS"
    BY DEF Told
  <2>2. Updated
    <3>1. ASSUME NEW d \in Chan, Channel(d) PROVE FALSE
      <4>1. HearSeek(d)
        BY <3>1 DEF Channel, HearPlay, HearUpdate, HearStop, HearTurn, NoMessage, Show, NotDue,
                    SeeStop, Read, NextFile, manager
      <4>2. sent[d] > 0
        BY <4>1 DEF HearSeek, Hears
      <4> QED BY <2>1, <4>2, Asking DEF FullInv
    <3>2. ~(\/ Start \/ TooManyChannels \/ NothingFound \/ SetState \/ Stop \/ Step
            \/ Turn \/ SeekTo \/ Advance)
      BY <2>1 DEF Start, TooManyChannels, Finds, NothingFound, SetState, Stop, Step, Turn,
                  SeekTo, Advance, Serves
    <3>3. ~(Send \/ Answer \/ AllTold \/ AllOver)
      BY DEF Send, Answer, AllTold, AllOver
    <3>4. ~(\E u \in Users : SendCtlMsg(u) \/ Return(u)) /\ ~UNCHANGED vars
      BY DEF SendCtlMsg, Return, vars, manager
    <3> QED BY <3>1, <3>2, <3>3, <3>4 DEF Next, Control
  <2>3. Jumps /\ ref' = mgr.least
    BY <2>2 DEF Updated
  <2>4. /\ forward \in {-1, 1} /\ mgr.least \in Int /\ ref \in Int /\ chn[c].ready \in Int
        /\ c \in Chan
    <3>1. mgr.least \in Answers(forward) /\ ref \in Bottom..Top /\ forward \in {-1, 1}
      BY <2>1 DEF FullInv, Clock, InRound, IInv, Managed
    <3>2. c \in Chan /\ chn[c].ready \in 0..LastTime
      BY DEF FullInv, AllPlaced, Placed, Listed
    <3> QED BY <3>1, <3>2, Bounds DEF Answers
  <2>5. ~Reached(mgr.least)
    BY <2>3, <2>4, Bounds DEF Jumps, Reached
  <2>6. Waits(chn[c], c, mgr.least)
    BY <2>1 DEF Heard, InRound
  <2>7. chn[c].state # "idle" => chn[c].forward = forward
    BY <2>1, <2>4 DEF FullInv, IInv, Fits, Fit, Opened, Refused, Direction, InRound
  <2>8. CASE Finished(chn[c], c)
    <3>1. chn[c].forward = forward
      BY <2>7, <2>8 DEF Finished
    <3> QED BY <2>8, <3>1, AheadOfFinished
  <2>9. CASE Holds(chn[c], mgr.least)
    <3>1. chn[c].forward = forward /\ chn[c].ready # 0
      BY <2>7, <2>9 DEF Holds
    <3>2. t \in Nat /\ IF forward = 1 THEN t >= chn[c].ready ELSE t <= chn[c].ready
      BY <3>1, AheadOfHeld
    <3>4. IF forward = 1 THEN mgr.least <= chn[c].ready ELSE mgr.least >= chn[c].ready
      BY <2>9 DEF Holds
    <3> QED BY <2>3, <2>4, <3>2, <3>4
  <2> QED BY <2>5, <2>6, <2>8, <2>9 DEF Waits
<1> QED BY <1>1, <1>2, <1>3, PTL DEF Spec, JumpSkipsNothing
=============================================================================
