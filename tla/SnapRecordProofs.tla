-------------------------- MODULE SnapRecordProofs --------------------------
(***************************************************************************)
(* The thread of the snapshots: the types and their bounds, and that        *)
(* whoever stops it finds its container closed, that the index never shows  *)
(* what is not stored, that what it shows stays, and that nothing written   *)
(* is left out of it; over any number of causes, containers, pictures,      *)
(* faults and crashes.                                                      *)
(*                                                                          *)
(* IInv, for StoppedMeansClosed.  The messages say what is asked: the last  *)
(* one about a cause, or its flag when there is none, agrees with `asked`   *)
(* (StopArrives), and a willStart follows a stop (StartFollowsStop), so     *)
(* that the thread never hears one while it runs.  The rest is where the    *)
(* container may be open (Between, Turn), and that one is opened only when  *)
(* none is, so that only a failing write makes the thread lose one (Leaks). *)
(*                                                                          *)
(* JInv, for the index.  The entries of PicInfoBuf continue the index of    *)
(* the open container without a gap (Aligned), their pictures are the ones  *)
(* not synced, and the index is written only when nothing is left to sync   *)
(* (Synchronised); so whatever a failure cuts off lies above the number of  *)
(* pictures that the file entry shows (Held).                               *)
(*                                                                          *)
(* KInv, for the bounds.  Only a container the thread has left can have its *)
(* last place taken, so that the one it goes on to has a place free         *)
(* (Filled); PicInfoBuf has room whenever a picture is stored (Roomy).      *)
(* Each index that could not be emptied adds one to every bound; from the   *)
(* second on, the entries of a container reach the next one's.              *)
(*                                                                          *)
(* Covered, for NothingLost.  PicInfoBuf holds entries only in the middle   *)
(* of the thread's work, and its last flush has entered them before it is   *)
(* emptied.                                                                 *)
(***************************************************************************)
EXTENDS SnapRecord, TLAPS

Kind == {"stop", "willStart"}

\* No message of q from i to j is about c.
Silent(q, c, i, j) == \A k \in i..j : q[k][2] # c

\* What the first n messages of q and the flags f say of c last is that it stops.
Stops(q, f, c, n) ==
  \/ c \in f /\ Silent(q, c, 1, n)
  \/ \E i \in 1..n : q[i][1] = "stop" /\ q[i][2] = c /\ Silent(q, c, i + 1, n)

StopArrives == \A c \in asked : Stops(smsgs, flags, c, Len(smsgs))

StartFollowsStop ==
  \A n \in 1..Len(smsgs) :
    smsgs[n][1] = "willStart" => Stops(smsgs, flags, smsgs[n][2], n - 1)

Asking == /\ smsgs \in Seq(Kind \X Causes) /\ asked \subseteq Causes
          /\ StopArrives /\ StartFollowsStop

Flushing == {"sync", "pics", "info", "head"}

\* Between two turns.
Between ==
  at \in {"take", "hear"} =>
    /\ status \in {"willStart", "start", "run", "idle", "rst"}
    /\ flags # {} => status \in {"willStart", "idle"}
    /\ status \in {"willStart", "start", "idle"} => ~file.open

\* In a turn.
Turn ==
  /\ at \in {"take", "hear", "new", "store", "write", "half", "late"} \cup Flushing
  /\ at = "new" => flags = {} /\ ~file.open /\ how \in {"start", "full"}
  /\ at \in {"store", "write", "half", "late"} => flags = {} /\ status = "run"
  /\ at \in Flushing => /\ how \in {"full", "half", "late", "stop", "rst"}
                        /\ how # "stop" => flags = {}
                        /\ how \in {"full", "half", "late"} => status = "run"

\* A container is lost hold of by a write that fails, and by nothing else.
Leaks == faults \in Nat /\ leaked \in Nat /\ leaked <= faults

IInv == Asking /\ Between /\ Turn /\ Leaks

LEMMA InitIInv == Init => IInv
BY DEF Init, IInv, Asking, StopArrives, StartFollowsStop, Between, Turn, Flushing, Leaks,
       Closed, Wild

---------------------------------------------------------------------------
(* The messages.                                                            *)

LEMMA StopsPrefix ==
  ASSUME NEW q, NEW r, NEW f, NEW c, NEW n \in Nat, Stops(q, f, c, n),
         \A i \in 1..n : r[i] = q[i]
  PROVE  Stops(r, f, c, n)
BY DEF Stops, Silent

LEMMA StopsAppend ==
  ASSUME NEW q, NEW f, NEW c, NEW n \in Nat,
         \/ Stops(q, f, c, n) /\ q[n + 1][2] # c
         \/ q[n + 1][1] = "stop" /\ q[n + 1][2] = c
  PROVE  Stops(q, f, c, n + 1)
<1>1. CASE q[n + 1][1] = "stop" /\ q[n + 1][2] = c
  BY <1>1 DEF Stops, Silent
<1>2. CASE q[n + 1][2] # c /\ c \in f /\ Silent(q, c, 1, n)
  BY <1>2 DEF Stops, Silent
<1>3. ASSUME q[n + 1][2] # c, NEW i \in 1..n, q[i][1] = "stop", q[i][2] = c,
             Silent(q, c, i + 1, n)
      PROVE  Stops(q, f, c, n + 1)
  <2>1. i \in 1..n + 1 /\ Silent(q, c, i + 1, n + 1)
    BY <1>3 DEF Silent
  <2> QED  BY <2>1, <1>3 DEF Stops
<1> QED  BY <1>1, <1>2, <1>3 DEF Stops

\* The first message is taken, and g are the flags after it.
LEMMA StopsTail ==
  ASSUME NEW q, NEW r, NEW f, NEW g, NEW c, NEW n \in Nat, Stops(q, f, c, n + 1),
         \A i \in 1..n : r[i] = q[i + 1],
         q[1][2] # c /\ c \in f => c \in g,
         q[1][1] = "stop" /\ q[1][2] = c => c \in g
  PROVE  Stops(r, g, c, n)
<1>1. CASE c \in f /\ Silent(q, c, 1, n + 1)
  <2>1. q[1][2] # c /\ \A i \in 1..n : q[i + 1][2] # c
    BY <1>1 DEF Silent
  <2> QED  BY <2>1, <1>1 DEF Stops, Silent
<1>2. ASSUME NEW i \in 1..n + 1, q[i][1] = "stop", q[i][2] = c, Silent(q, c, i + 1, n + 1)
      PROVE  Stops(r, g, c, n)
  <2>1. CASE i = 1
    <3>1. \A k \in 1..n : q[k + 1][2] # c
      BY <1>2, <2>1 DEF Silent
    <3> QED  BY <3>1, <1>2, <2>1 DEF Stops, Silent
  <2>2. CASE i # 1
    <3>1. i - 1 \in 1..n /\ r[i - 1] = q[i]
      BY <2>2
    <3>2. \A k \in (i - 1) + 1..n : k + 1 \in i + 1..n + 1 /\ r[k] = q[k + 1]
      BY <2>2
    <3>3. Silent(r, c, (i - 1) + 1, n)
      BY <1>2, <3>2 DEF Silent
    <3> QED  BY <1>2, <3>1, <3>3 DEF Stops
  <2> QED  BY <2>1, <2>2
<1> QED  BY <1>1, <1>2 DEF Stops

LEMMA PauseAsks == ASSUME Asking, NEW c \in Causes, Pause(c) PROVE Asking'
<1> DEFINE n == Len(smsgs)
<1>1. /\ smsgs' \in Seq(Kind \X Causes) /\ Len(smsgs') = n + 1 /\ n \in Nat
      /\ smsgs'[n + 1] = <<"stop", c>> /\ \A i \in 1..n : smsgs'[i] = smsgs[i]
      /\ asked' = asked \cup {c} /\ flags' = flags
  <2>1. <<"stop", c>> \in Kind \X Causes
    BY DEF Kind
  <2> QED  BY <2>1 DEF Asking, Pause, work
<1>2. ASSUME NEW d \in asked'  PROVE Stops(smsgs', flags, d, n + 1)
  <2>1. CASE d = c
    <3>1. smsgs'[n + 1][1] = "stop" /\ smsgs'[n + 1][2] = d
      BY <1>1, <2>1
    <3> QED  BY <1>1, <3>1, StopsAppend
  <2>2. CASE d # c
    <3>1. Stops(smsgs, flags, d, n)
      BY <1>1, <2>2 DEF Asking, StopArrives
    <3>2. Stops(smsgs', flags, d, n)
      BY <1>1, <3>1, StopsPrefix
    <3>3. smsgs'[n + 1][2] # d
      BY <1>1, <2>2
    <3> QED  BY <1>1, <3>2, <3>3, StopsAppend
  <2> QED  BY <2>1, <2>2
<1>3. ASSUME NEW m \in 1..n + 1, smsgs'[m][1] = "willStart"
      PROVE  Stops(smsgs', flags, smsgs'[m][2], m - 1)
  <2>1. m \in 1..n
    BY <1>1, <1>3
  <2>2. m - 1 \in Nat /\ \A i \in 1..m - 1 : smsgs'[i] = smsgs[i]
    BY <1>1, <2>1
  <2>3. Stops(smsgs, flags, smsgs'[m][2], m - 1)
    BY <1>1, <1>3, <2>1 DEF Asking, StartFollowsStop
  <2> QED  BY <2>2, <2>3, StopsPrefix
<1>4. asked' \subseteq Causes
  BY <1>1 DEF Asking
<1> QED  BY <1>1, <1>2, <1>3, <1>4 DEF Asking, StopArrives, StartFollowsStop

LEMMA ResumeAsks == ASSUME Asking, NEW c \in Causes, Resume(c) PROVE Asking'
<1> DEFINE n == Len(smsgs)
<1>1. /\ smsgs' \in Seq(Kind \X Causes) /\ Len(smsgs') = n + 1 /\ n \in Nat
      /\ smsgs'[n + 1] = <<"willStart", c>> /\ \A i \in 1..n : smsgs'[i] = smsgs[i]
      /\ asked' = asked \ {c} /\ flags' = flags /\ c \in asked
  <2>1. <<"willStart", c>> \in Kind \X Causes
    BY DEF Kind
  <2> QED  BY <2>1 DEF Asking, Resume, work
<1>2. ASSUME NEW d \in asked  PROVE Stops(smsgs', flags, d, n)
  <2>1. Stops(smsgs, flags, d, n)
    BY DEF Asking, StopArrives
  <2> QED  BY <1>1, <2>1, StopsPrefix
<1>3. ASSUME NEW d \in asked'  PROVE Stops(smsgs', flags, d, n + 1)
  <2>1. Stops(smsgs', flags, d, n) /\ smsgs'[n + 1][2] # d
    BY <1>1, <1>2
  <2> QED  BY <1>1, <2>1, StopsAppend
<1>4. ASSUME NEW m \in 1..n + 1, smsgs'[m][1] = "willStart"
      PROVE  Stops(smsgs', flags, smsgs'[m][2], m - 1)
  <2>1. CASE m = n + 1
    <3>1. m - 1 = n /\ smsgs'[m][2] = c
      BY <1>1, <2>1
    <3> QED  BY <1>1, <1>2, <3>1
  <2>2. CASE m \in 1..n
    <3>1. m - 1 \in Nat /\ \A i \in 1..m - 1 : smsgs'[i] = smsgs[i]
      BY <1>1, <2>2
    <3>2. Stops(smsgs, flags, smsgs'[m][2], m - 1)
      BY <1>1, <1>4, <2>2 DEF Asking, StartFollowsStop
    <3> QED  BY <3>1, <3>2, StopsPrefix
  <2> QED  BY <1>1, <2>1, <2>2
<1>5. asked' \subseteq Causes
  BY <1>1 DEF Asking
<1> QED  BY <1>1, <1>3, <1>4, <1>5 DEF Asking, StopArrives, StartFollowsStop

\* The thread takes the first message, and its flag says what it said.
LEMMA HearAsks == ASSUME Asking, Hear PROVE Asking'
<1>1. CASE smsgs = <<>>
  <2>1. UNCHANGED <<smsgs, flags, asked>>
    BY <1>1 DEF Hear
  <2> QED  BY <2>1 DEF Asking, StopArrives, StartFollowsStop
<1>2. CASE smsgs # <<>>
  <2> DEFINE n == Len(smsgs) - 1
  <2>1. smsgs' = Tail(smsgs) /\ asked' = asked /\ flags' = Flagged(Head(smsgs))
    BY <1>2 DEF Hear
  <2>2. /\ n \in Nat /\ Len(smsgs) = n + 1 /\ Len(smsgs') = n
        /\ smsgs' \in Seq(Kind \X Causes) /\ Head(smsgs) = smsgs[1]
        /\ \A i \in 1..n : smsgs'[i] = smsgs[i + 1]
    BY <1>2, <2>1 DEF Asking
  <2>3. ASSUME NEW c
        PROVE  /\ smsgs[1][2] # c /\ c \in flags => c \in flags'
               /\ smsgs[1][1] = "stop" /\ smsgs[1][2] = c => c \in flags'
    BY <2>1, <2>2 DEF Flagged
  <2>4. ASSUME NEW c \in asked  PROVE Stops(smsgs', flags', c, n)
    <3>1. Stops(smsgs, flags, c, n + 1)
      BY <2>2 DEF Asking, StopArrives
    <3> QED  BY <2>2, <2>3, <3>1, StopsTail
  <2>5. ASSUME NEW m \in 1..n, smsgs'[m][1] = "willStart"
        PROVE  Stops(smsgs', flags', smsgs'[m][2], m - 1)
    <3>1. m + 1 \in 1..Len(smsgs) /\ m - 1 \in Nat /\ smsgs'[m] = smsgs[m + 1]
          /\ \A i \in 1..m - 1 : smsgs'[i] = smsgs[i + 1]
      BY <2>2
    <3>2. Stops(smsgs, flags, smsgs'[m][2], (m + 1) - 1)
      BY <2>5, <3>1 DEF Asking, StartFollowsStop
    <3>3. Stops(smsgs, flags, smsgs'[m][2], (m - 1) + 1)
      <4>1. (m + 1) - 1 = (m - 1) + 1
        OBVIOUS
      <4> QED  BY <3>2, <4>1
    <3> QED  BY <2>3, <3>1, <3>3, StopsTail
  <2> QED
    BY <2>1, <2>2, <2>4, <2>5 DEF Asking, StopArrives, StartFollowsStop
<1> QED  BY <1>1, <1>2

\* A willStart is heard only while its cause's flag is set.
LEMMA StartIsAwaited ==
  ASSUME Asking, smsgs # <<>>
  PROVE  /\ Head(smsgs) \in Kind \X Causes
         /\ Head(smsgs)[1] = "willStart" => flags # {}
<1>1. Head(smsgs) = smsgs[1] /\ 1 \in 1..Len(smsgs) /\ smsgs[1] \in Kind \X Causes
  BY DEF Asking
<1>2. ASSUME smsgs[1][1] = "willStart"  PROVE smsgs[1][2] \in flags
  <2>1. Stops(smsgs, flags, smsgs[1][2], 0)
    BY <1>1, <1>2 DEF Asking, StartFollowsStop
  <2> QED  BY <2>1 DEF Stops
<1> QED  BY <1>1, <1>2
LEMMA OthersAsk ==
  ASSUME Asking, UNCHANGED <<smsgs, asked, flags>>
  PROVE  Asking'
BY DEF Asking, StopArrives, StartFollowsStop

LEMMA DownAsks == ASSUME GoesDown PROVE Asking'
BY DEF GoesDown, Asking, StopArrives, StartFollowsStop

---------------------------------------------------------------------------
(* The file.                                                                *)

\* The outcomes of a turn's message: by the status it leaves, where the thread goes.
LEMMA DispatchKeeps ==
  ASSUME NEW st \in {"willStart", "start", "run", "stop", "idle", "rst"}, NEW fl,
         flags' = fl, Dispatch(st, fl),
         st \in {"start", "run", "rst"} => fl = {},
         st \in {"willStart", "start", "idle"} => ~file.open
  PROVE  Between' /\ Turn'
<1>1. CASE st = "willStart" /\ (fl # {} \/ ~present)
  BY <1>1 DEF Dispatch, EndTurn, GoOn, Quiet, Between, Turn, Flushing
<1>2. CASE st = "start" \/ (st = "willStart" /\ fl = {} /\ present)
  BY <1>2 DEF Dispatch, EndTurn, GoOn, Quiet, Between, Turn, Flushing
<1>3. CASE st = "run"
  BY <1>3 DEF Dispatch, EndTurn, GoOn, Quiet, Between, Turn, Flushing
<1>4. CASE st = "idle"
  BY <1>4 DEF Dispatch, EndTurn, GoOn, Quiet, Between, Turn, Flushing
<1>5. CASE st \in {"stop", "rst"} /\ pre = "run"
  BY <1>5 DEF Dispatch, EndTurn, GoOn, Quiet, Between, Turn, Flushing
<1>6. CASE st \in {"stop", "rst"} /\ pre # "run"
  BY <1>6 DEF Dispatch, EndTurn, Close, Closed, Between, Turn, Flushing
<1> QED  BY <1>1, <1>2, <1>3, <1>4, <1>5, <1>6

LEMMA HearKeeps == ASSUME IInv, Hear PROVE Between' /\ Turn'
<1>1. at = "hear" /\ status \in {"willStart", "start", "run", "idle", "rst"}
      /\ (flags # {} => status \in {"willStart", "idle"})
      /\ (status \in {"willStart", "start", "idle"} => ~file.open)
  BY DEF Hear, IInv, Between
<1>2. CASE smsgs = <<>>
  <2>1. Dispatch(status, flags) /\ flags' = flags
    BY <1>2 DEF Hear
  <2>2. status \in {"start", "run", "rst"} => flags = {}
    BY <1>1
  <2> QED  BY <1>1, <2>1, <2>2, DispatchKeeps
<1>3. CASE smsgs # <<>>
  <2> DEFINE m == Head(smsgs)
  <2>1. Dispatch(Told(m), Flagged(m)) /\ flags' = Flagged(m)
    BY <1>3 DEF Hear
  <2>2. m[1] \in Kind /\ (m[1] = "willStart" => flags # {})
    BY <1>3, StartIsAwaited DEF IInv
  <2>3. /\ Told(m) \in {"willStart", "stop", "idle"}
        /\ Told(m) \in {"willStart", "idle"} => ~file.open
    BY <1>1, <2>2 DEF Told, Kind
  <2> HIDE DEF m
  <2>4. QED  BY <2>1, <2>3, DispatchKeeps
<1> QED  BY <1>2, <1>3

\* The rest of the turn: a flush ends where its cause says, with or without success.
LEMMA FlushEnds ==
  ASSUME Turn, at \in Flushing, flags' = flags, Flushed \/ FlushFails
  PROVE  Between' /\ Turn'
<1>1. how \in {"full", "half", "late", "stop", "rst"}
  BY DEF Turn
<1>2. CASE Flushed
  <2>1. CASE how = "full"
    BY <1>2, <2>1 DEF Flushed, GoOn, Closed, Between, Turn, Flushing
  <2>2. CASE how = "half"
    BY <1>2, <2>2 DEF Flushed, GoOn, Between, Turn, Flushing
  <2>3. CASE how = "late"
    BY <1>2, <2>3 DEF Flushed, EndTurn, Between, Turn, Flushing
  <2>4. CASE how = "stop"
    BY <1>2, <2>4 DEF Flushed, EndTurn, Closed, Between, Turn, Flushing
  <2>5. CASE how = "rst"
    BY <1>2, <2>5 DEF Flushed, EndTurn, Closed, Between, Turn, Flushing
  <2> QED  BY <1>1, <2>1, <2>2, <2>3, <2>4, <2>5
<1>3. CASE ~Flushed
  <2>1. status' = "rst" /\ at' = "take" /\ flags = {}
    BY <1>1, <1>3 DEF FlushFails, EndTurn, Turn
  <2> QED  BY <2>1 DEF Between, Turn, Flushing
<1> QED  BY <1>2, <1>3

LEMMA FlushGoesOn ==
  ASSUME Turn, at \in Flushing, flags' = flags, NEW where \in Flushing, NextWrite(where)
  PROVE  Between' /\ Turn'
BY DEF NextWrite, GoOn, Between, Turn, Flushing

LEMMA TurnKeeps ==
  ASSUME IInv, Thread, ~Hear, ~WildClose
  PROVE  Between' /\ Turn' /\ UNCHANGED <<smsgs, asked, flags>>
<1> USE DEF Flushing
<1>1. CASE Take
  BY <1>1 DEF Take, IInv, Between, Turn, asking, work
<1>2. CASE Rollback
  BY <1>2 DEF Rollback, IInv, Between, Turn, asking, turn
<1>3. CASE OpenNew
  BY <1>3 DEF OpenNew, GoOn, IInv, Between, Turn, asking
<1>4. CASE OpenFails
  BY <1>4 DEF OpenFails, EndTurn, Closed, IInv, Between, Turn, asking
<1>5. CASE Store
  BY <1>5 DEF Store, GoOn, IInv, Between, Turn, asking, work
<1>6. CASE Write
  BY <1>6 DEF Write, GoOn, IInv, Between, Turn, asking
<1>7. CASE StoreFails
  BY <1>7 DEF StoreFails, EndTurn, IInv, Between, Turn, asking, work
<1>8. CASE Half
  BY <1>8 DEF Half, GoOn, IInv, Between, Turn, asking, work
<1>9. CASE Late
  BY <1>9 DEF Late, GoOn, EndTurn, IInv, Between, Turn, asking, work
<1>10. CASE Sync
  <2>1. at \in Flushing /\ UNCHANGED <<smsgs, asked, flags>>
        /\ (NextWrite("pics") \/ Flushed)
    BY <1>10 DEF Sync, asking
  <2> QED  BY <2>1, FlushEnds, FlushGoesOn DEF IInv
<1>11. CASE EnterPics
  <2>1. at \in Flushing /\ UNCHANGED <<smsgs, asked, flags>>
        /\ (NextWrite("info") \/ FlushFails)
    BY <1>11 DEF EnterPics, asking
  <2> QED  BY <2>1, FlushEnds, FlushGoesOn DEF IInv
<1>12. CASE EnterFile
  <2>1. at \in Flushing /\ UNCHANGED <<smsgs, asked, flags>>
        /\ (NextWrite("head") \/ FlushFails)
    BY <1>12 DEF EnterFile, asking
  <2> QED  BY <2>1, FlushEnds, FlushGoesOn DEF IInv
<1>13. CASE EnterHeader
  <2>1. at \in Flushing /\ UNCHANGED <<smsgs, asked, flags>> /\ (Flushed \/ FlushFails)
    BY <1>13 DEF EnterHeader, asking
  <2> QED  BY <2>1, FlushEnds DEF IInv
<1> QED
  BY <1>1, <1>2, <1>3, <1>4, <1>5, <1>6, <1>7, <1>8, <1>9, <1>10, <1>11, <1>12, <1>13
     DEF Thread

\* Steps of others leave the thread where it is.
LEMMA ThreadWaits ==
  ASSUME Between, Turn, UNCHANGED <<at, how, status, flags, file>>
  PROVE  Between' /\ Turn'
BY DEF Between, Turn, Flushing

LEMMA DownKeeps == ASSUME GoesDown PROVE Between' /\ Turn'
BY DEF GoesDown, Wild, Closed, Between, Turn, Flushing

\* The thread opens a container only when it has none.
LEMMA LeaksKeep == ASSUME IInv, [Next]_vars PROVE Leaks'
<1>1. faults \in Nat /\ leaked \in Nat /\ leaked <= faults
  BY DEF IInv, Leaks
<1>2. CASE Crash \/ WildClose
  BY <1>1, <1>2 DEF Crash, WildClose, GoesDown, Leaks
<1>3. CASE OpenNew \/ OpenFails
  <2>1. Forgotten = 0
    BY <1>3 DEF OpenNew, OpenFails, Forgotten, IInv, Turn
  <2>2. CASE OpenNew
    BY <1>1, <2>1, <2>2 DEF OpenNew, NoFault, Leaks
  <2>3. CASE OpenFails
    <3>1. faults' = faults + 1 /\ leaked' \in {leaked, leaked + 0, leaked + 0 + 1}
      BY <2>1, <2>3 DEF OpenFails, Fault
    <3> QED  BY <1>1, <3>1 DEF Leaks
  <2> QED  BY <1>3, <2>2, <2>3
<1>4. CASE leaked' = leaked /\ faults' \in {faults, faults + 1}
  BY <1>1, <1>4 DEF Leaks
<1>5. CASE Take \/ Hear \/ Store \/ Half \/ Late \/ Sync \/ UNCHANGED vars
  BY <1>4, <1>5 DEF Take, Hear, Store, Half, Late, Sync, vars, limits
<1>6. CASE Rollback \/ Write \/ StoreFails
  BY <1>4, <1>6 DEF Rollback, Write, StoreFails, Fault, NoFault
<1>7. CASE EnterPics \/ EnterFile \/ EnterHeader
  BY <1>4, <1>7 DEF EnterPics, EnterFile, EnterHeader, Fault, NoFault
<1>8. CASE Put \/ Drop \/ Reload \/ Format \/ \E c \in Causes : Pause(c) \/ Resume(c)
  BY <1>4, <1>8 DEF Put, Drop, Reload, Format, Pause, Resume, limits
<1> QED  BY <1>2, <1>3, <1>5, <1>6, <1>7, <1>8 DEF Next, Thread

LEMMA NextIInv == IInv /\ [Next]_vars => IInv'
<1> SUFFICES ASSUME IInv, [Next]_vars PROVE Asking' /\ Between' /\ Turn'
  BY LeaksKeep DEF IInv
<1>0. Asking /\ Between /\ Turn
  BY DEF IInv
<1>1. CASE Put \/ Drop \/ Reload \/ Format \/ UNCHANGED vars
  <2>1. UNCHANGED <<smsgs, asked, at, how, status, flags, file>>
    BY <1>1 DEF Put, Drop, Reload, Format, vars, asking, turn, work
  <2> QED  BY <1>0, <2>1, OthersAsk, ThreadWaits
<1>2. ASSUME NEW c \in Causes, Pause(c)  PROVE Asking' /\ Between' /\ Turn'
  <2>1. UNCHANGED <<at, how, status, flags, file>>
    BY <1>2 DEF Pause, turn, work
  <2> QED  BY <1>0, <1>2, <2>1, PauseAsks, ThreadWaits
<1>3. ASSUME NEW c \in Causes, Resume(c)  PROVE Asking' /\ Between' /\ Turn'
  <2>1. UNCHANGED <<at, how, status, flags, file>>
    BY <1>3 DEF Resume, turn, work
  <2> QED  BY <1>0, <1>3, <2>1, ResumeAsks, ThreadWaits
<1>4. CASE Hear
  BY <1>0, <1>4, HearAsks, HearKeeps
<1>5. CASE Thread /\ ~Hear /\ ~WildClose
  BY <1>0, <1>5, TurnKeeps, OthersAsk
<1>6. CASE Crash \/ WildClose
  BY <1>6, DownAsks, DownKeeps DEF Crash, WildClose
<1> QED  BY <1>1, <1>2, <1>3, <1>4, <1>5, <1>6 DEF Next

(***************************************************************************)
(* For any causes, containers, pictures, faults and crashes: a cause that   *)
(* has stopped the thread, and whose message it has heard, finds its        *)
(* container closed between its turns, and no more containers open that it  *)
(* lost hold of than writes have failed.                                    *)
(***************************************************************************)
THEOREM StoppedMeansClosedAlways == Spec => []StoppedMeansClosed
<1>1. IInv => StoppedMeansClosed
  <2> SUFFICES ASSUME IInv, NEW c \in Causes, Heard(c)
               PROVE  ~file.open /\ leaked <= faults
    BY DEF StoppedMeansClosed
  <2>1. c \in asked /\ at \in {"take", "hear"} /\ \A i \in 1..Len(smsgs) : smsgs[i][2] # c
    BY DEF Heard
  <2>2. Stops(smsgs, flags, c, Len(smsgs))
    BY <2>1 DEF IInv, Asking, StopArrives
  <2>3. c \in flags
    BY <2>1, <2>2 DEF Stops
  <2> QED  BY <2>1, <2>3 DEF IInv, Between, Leaks
<1> QED  BY <1>1, InitIInv, NextIInv, PTL DEF Spec

---------------------------------------------------------------------------
(* The index.                                                               *)

APic == Nat \ {0}
Chn  == {ChnOf(p) : p \in Nat}

Data ==
  /\ made \in Nat /\ pics \in Seq(APic) /\ pic \in Nat
  /\ cur \in 0..FileNums /\ dcur \in 0..FileNums
  /\ info \in [Box -> [status : {"unused", "used", "full"}, n : Nat, mask : SUBSET Chn]]
  /\ pinfo \in [Box -> [Place -> Nat]] /\ bytes \in [Box -> [Place -> Nat]]
  /\ file \in [open : BOOLEAN, wild : BOOLEAN, box : Box, n : Nat, mask : SUBSET Chn]
  /\ buf \in Seq([box : Box, place : Nat, pic : APic])
  /\ dirty \subseteq Nat \X APic /\ undone \in Nat

\* What a search may show is there.
Indexed ==
  undone <= 1 => \A b \in Box, k \in Place : k < info[b].n =>
    pinfo[b][k] # NoPic /\ bytes[b][k] = pinfo[b][k] /\ ChnOf(pinfo[b][k]) \in info[b].mask

\* The open container, and what of it is not synced.
Held ==
  /\ file.open => file.box = cur /\ cur \in Box /\ info[cur].n <= file.n
  /\ ~file.open => dirty = {}
  /\ file.wild => ~file.open
  /\ \A w \in dirty : info[file.box].n <= w[1] /\ w[1] < file.n
  /\ \A v, w \in dirty : v[1] = w[1] => v = w

\* The thread has a container to which it adds.
Working == \/ at \in {"store", "write", "half", "late"} \cup Flushing
           \/ at \in {"take", "hear"} /\ status = "run"

Course ==
  /\ Working => file.open
  /\ at \in {"take", "hear"} => pre = status
  /\ at = "new" => ~file.open /\ (how = "full" => buf = <<>> /\ pic # NoPic)
  /\ at = "write" => pic # NoPic
  /\ at \in Flushing => how # "rst" /\ (how = "full" => pic # NoPic)

Aligned ==
  Working /\ at # "head" =>
    /\ Len(buf) = file.n - info[cur].n
    /\ \A i \in 1..Len(buf) :
         /\ buf[i].box = cur /\ buf[i].place = info[cur].n + i - 1
         /\ ChnOf(buf[i].pic) \in file.mask
         /\ at \notin {"pics", "info"} => <<buf[i].place, buf[i].pic>> \in dirty

Synchronised ==
  /\ at \in {"pics", "info", "head"} => dirty = {}
  /\ at \in {"pics", "info"} => \A i \in 1..Len(buf) :
       buf[i].place \in Place => bytes[cur][buf[i].place] = buf[i].pic
  /\ at = "info" => \A i \in 1..Len(buf) :
       buf[i].place \in Place => pinfo[cur][buf[i].place] = buf[i].pic
  /\ at = "head" => info[cur].n = file.n

\* The places taken: a container that the thread has not come to yet, and the one it
\* goes on to, have one free.
Filled ==
  /\ undone \in Nat /\ undone <= faults /\ faults \in Nat
  /\ file.n <= PicNums - 1 + undone
  /\ \A b \in Box : info[b].n <= PicNums - 1 + undone
  /\ \A b \in Box : b > cur => info[b].n <= PicNums - 2 + undone
  /\ at = "new" /\ how = "full" /\ cur \in Box => info[cur].n <= PicNums - 2 + undone
  /\ at = "write" => file.n <= PicNums - 2 + undone
  /\ \A i \in 1..Len(buf) : buf[i].place <= PicNums - 2 + undone

JInv == Data /\ Indexed /\ Held /\ Course /\ Aligned /\ Synchronised /\ cur <= dcur

LEMMA Sizes ==
  /\ FileNums \in Nat /\ PicNums \in Nat /\ 0 \in Box /\ 0 \in Place /\ NumChan \in Nat
  /\ Box = 0..FileNums - 1 /\ Place = 0..PicNums - 1
BY SnapAssumption DEF Box, Place

LEMMA ClosedType ==
  Closed \in [open : BOOLEAN, wild : BOOLEAN, box : Box, n : Nat, mask : SUBSET Chn]
BY Sizes DEF Closed

LEMMA WildType ==
  Wild \in [open : BOOLEAN, wild : BOOLEAN, box : Box, n : Nat, mask : SUBSET Chn]
BY Sizes DEF Wild, Closed

\* A thread that starts has nothing open.
LEMMA Fresh == ASSUME NEW f \in {Closed, Wild} PROVE ~f.open /\ f.n = 0
BY DEF Wild, Closed

LEMMA UnusedType == Unused \in [status : {"unused", "used", "full"}, n : Nat, mask : SUBSET Chn]
BY DEF Unused

LEMMA InitJInv == Init => JInv
<1> SUFFICES ASSUME Init PROVE JInv
  OBVIOUS
<1>1. Data
  BY Sizes, ClosedType, WildType, UnusedType DEF Init, Data, Nowhere, NoPic
<1>2. Indexed /\ Held /\ Course /\ Aligned /\ Synchronised /\ cur <= dcur
  BY Sizes, Fresh DEF Init, Indexed, Held, Course, Aligned, Synchronised, Working, Flushing,
                      Unused
<1> QED  BY <1>1, <1>2 DEF JInv

\* What the types say of the parts.
LEMMA Parts ==
  ASSUME Data
  PROVE  /\ file.box \in Box /\ file.n \in Nat /\ file.mask \subseteq Chn
         /\ \A w \in dirty : w[1] \in Nat /\ w[2] \in APic
         /\ \A b \in Box : info[b].n \in Nat /\ info[b].mask \subseteq Chn
         /\ \A b \in Box, k \in Place : pinfo[b][k] \in Nat /\ bytes[b][k] \in Nat
<1>1. file.box \in Box /\ file.n \in Nat /\ file.mask \subseteq Chn
  BY DEF Data
<1>2. \A w \in dirty : w[1] \in Nat /\ w[2] \in APic
  BY DEF Data
<1>3. \A b \in Box : info[b].n \in Nat /\ info[b].mask \subseteq Chn
  BY DEF Data
<1>4. \A b \in Box, k \in Place : pinfo[b][k] \in Nat /\ bytes[b][k] \in Nat
  BY DEF Data
<1> QED  BY <1>1, <1>2, <1>3, <1>4

LEMMA BufParts ==
  ASSUME Data
  PROVE  /\ Len(buf) \in Nat
         /\ \A i \in 1..Len(buf) :
              buf[i].box \in Box /\ buf[i].place \in Nat /\ buf[i].pic \in APic
<1>1. buf \in Seq([box : Box, place : Nat, pic : APic])
  BY DEF Data
<1>2. Len(buf) \in Nat /\ \A i \in 1..Len(buf) : buf[i] \in [box : Box, place : Nat, pic : APic]
  <2> DEFINE R == [box : Box, place : Nat, pic : APic]
  <2>1. buf \in Seq(R)
    BY <1>1
  <2> HIDE DEF R
  <2>2. Len(buf) \in Nat /\ \A i \in 1..Len(buf) : buf[i] \in R
    BY <2>1
  <2> QED  BY <2>2 DEF R
<1> QED  BY <1>2

---------------------------------------------------------------------------
(* What reaches the disk.                                                   *)

\* Pictures that are not synced lie above what the index shows, in any part of them
\* that reaches the disk.
LEMMA ReachedIsAbove ==
  ASSUME Data, Held, Indexed, file.open, NEW d, d \subseteq dirty, bytes' = Reached(d)
  PROVE  /\ bytes' \in [Box -> [Place -> Nat]]
         /\ \A b \in Box, k \in Place : k < info[b].n => bytes'[b][k] = bytes[b][k]
<1>1. ASSUME NEW k \in Place, \E w \in d : w[1] = k
      PROVE  /\ (CHOOSE w \in d : w[1] = k) \in d
             /\ (CHOOSE w \in d : w[1] = k)[1] = k
  BY <1>1
<1>2. ASSUME NEW k \in Place
      PROVE  bytes'[file.box][k] = IF \E w \in d : w[1] = k
                                   THEN (CHOOSE w \in d : w[1] = k)[2] ELSE bytes[file.box][k]
  BY DEF Data, Reached
<1>3. \A b \in Box : b # file.box => bytes'[b] = bytes[b]
  BY DEF Data, Reached
<1>4. ASSUME NEW k \in Place  PROVE bytes'[file.box][k] \in Nat
  <2>1. CASE \E w \in d : w[1] = k
    BY <1>1, <1>2, <2>1, Parts DEF APic
  <2>2. CASE ~\E w \in d : w[1] = k
    BY <1>2, <2>2, Parts
  <2> QED  BY <2>1, <2>2
<1>5. bytes' \in [Box -> [Place -> Nat]]
  BY <1>3, <1>4 DEF Data, Reached
<1>6. ASSUME NEW k \in Place, k < info[file.box].n
      PROVE  bytes'[file.box][k] = bytes[file.box][k]
  <2>1. ~\E w \in d : w[1] = k
    BY <1>6, Parts, Sizes DEF Held
  <2> QED  BY <1>2, <2>1
<1> QED  BY <1>3, <1>5, <1>6

---------------------------------------------------------------------------
(* The steps that write nothing.                                            *)

\* All that the parts of JInv other than Data speak of.
seen == <<cur, dcur, info, pinfo, bytes, file, buf, dirty, undone>>

LEMMA NothingMoves ==
  ASSUME JInv, UNCHANGED <<made, pics, turn, seen>>  PROVE JInv'
BY DEF JInv, Data, Indexed, Held, Working, Course, Aligned, Synchronised, Flushing, seen, turn

LEMMA PutKeeps == ASSUME JInv, Put \/ Drop PROVE JInv'
<1>1. UNCHANGED <<turn, seen>>
  BY DEF Put, Drop, work, index, stored, limits, seen
<1>2. made' \in Nat /\ pics' \in Seq(APic)
  <2>1. made \in Nat /\ pics \in Seq(APic)
    BY DEF JInv, Data
  <2>2. CASE Put
    <3>1. made + 1 \in APic
      BY <2>1 DEF APic
    <3> QED  BY <2>1, <2>2, <3>1 DEF Put
  <2>3. CASE Drop
    BY <2>1, <2>3 DEF Drop
  <2> QED  BY <2>2, <2>3
<1>3. Data'
  BY <1>1, <1>2 DEF JInv, Data, seen, turn
<1> QED
  BY <1>1, <1>3 DEF JInv, Indexed, Held, Working, Course, Aligned, Synchronised, Flushing,
                    seen, turn

LEMMA AskingKeeps ==
  ASSUME JInv, \E c \in Causes : Pause(c) \/ Resume(c)  PROVE JInv'
<1>1. UNCHANGED <<made, pics, turn, seen>>
  BY DEF Pause, Resume, ring, work, index, stored, limits, seen
<1> QED  BY <1>1, NothingMoves

\* A cause that the thread has heard finds no container open.
LEMMA HeardMeansClosed ==
  ASSUME IInv, JInv, NEW c \in Causes, Heard(c)
  PROVE  ~file.open /\ dirty = {} /\ ~Working /\ at \notin Flushing /\ at # "new"
<1>1. c \in asked /\ at \in {"take", "hear"} /\ \A i \in 1..Len(smsgs) : smsgs[i][2] # c
  BY DEF Heard
<1>2. Stops(smsgs, flags, c, Len(smsgs))
  BY <1>1 DEF IInv, Asking, StopArrives
<1>3. c \in flags
  BY <1>1, <1>2 DEF Stops
<1>4. ~file.open
  BY <1>1, <1>3 DEF IInv, Between
<1> QED  BY <1>1, <1>4 DEF JInv, Held, Course, Flushing

LEMMA ReloadKeeps == ASSUME IInv, JInv, Reload PROVE JInv'
<1>1. PICK c \in Causes : Heard(c)
  BY DEF Reload, Heard, IInv, Asking
<1>2. /\ cur' = dcur
      /\ UNCHANGED <<made, pics, turn, dcur, info, pinfo, bytes, file, buf, dirty, undone>>
  BY DEF Reload, ring, index, stored, limits
<1>3. ~Working'
  BY <1>1, <1>2, HeardMeansClosed DEF Working, Flushing, turn
<1>4. Data' /\ cur' <= dcur'
  <2>1. cur' \in 0..FileNums /\ cur' <= dcur'
    BY <1>2, Sizes DEF JInv, Data
  <2> QED  BY <1>2, <2>1 DEF JInv, Data, turn
<1> QED
  BY <1>1, <1>2, <1>3, <1>4, HeardMeansClosed
     DEF JInv, Indexed, Held, Course, Aligned, Synchronised, Flushing, turn

LEMMA FormatKeeps == ASSUME IInv, JInv, Format PROVE JInv'
<1>1. PICK c \in Causes : Heard(c)
  BY DEF Format, Heard, IInv, Asking
<1>2. /\ cur' = 0 /\ dcur' = 0 /\ info' = [b \in Box |-> Unused]
      /\ UNCHANGED <<made, pics, turn, pinfo, bytes, file, buf, dirty, undone>>
  BY DEF Format, ring, limits
<1>3. ~Working'
  BY <1>1, <1>2, HeardMeansClosed DEF Working, Flushing, turn
<1>4. Data' /\ cur' <= dcur'
  <2>1. cur' \in 0..FileNums /\ dcur' \in 0..FileNums /\ cur' <= dcur'
    BY <1>2, Sizes
  <2>2. info' \in [Box -> [status : {"unused", "used", "full"}, n : Nat, mask : SUBSET Chn]]
    BY <1>2, UnusedType
  <2> QED  BY <1>2, <2>1, <2>2 DEF JInv, Data, turn
<1>5. Indexed'
  BY <1>2, Sizes DEF Indexed, Unused
<1> QED
  BY <1>1, <1>2, <1>3, <1>4, <1>5, HeardMeansClosed
     DEF JInv, Held, Course, Aligned, Synchronised, Flushing, turn

LEMMA TakeKeeps == ASSUME JInv, Take PROVE JInv'
<1>1. /\ at = "take" /\ at' = "hear"
      /\ UNCHANGED <<made, how, status, pre, cur, dcur, info, pinfo, bytes, file, buf, dirty, undone>>
  BY DEF Take, work, index, stored, limits
<1>2. pics' \in Seq(APic) /\ pic' \in Nat
  <2>1. pics \in Seq(APic) /\ pic \in Nat
    BY DEF JInv, Data
  <2>2. CASE pics = <<>>
    BY <2>1, <2>2 DEF Take
  <2>3. CASE pics # <<>>
    <3>1. Head(pics) \in APic /\ Tail(pics) \in Seq(APic)
      BY <2>1, <2>3
    <3> QED  BY <2>3, <3>1 DEF Take, APic
  <2> QED  BY <2>2, <2>3
<1>3. Data'
  BY <1>1, <1>2 DEF JInv, Data
<1> QED
  BY <1>1, <1>3 DEF JInv, Indexed, Held, Working, Course, Aligned, Synchronised, Flushing

LEMMA HearKeepsIndex == ASSUME IInv, JInv, Hear PROVE JInv'
<1> DEFINE st == IF smsgs = <<>> THEN status ELSE Told(Head(smsgs))
           fl == IF smsgs = <<>> THEN flags ELSE Flagged(Head(smsgs))
<1>1. /\ at = "hear" /\ pre = status /\ Dispatch(st, fl)
      /\ UNCHANGED <<made, pics, cur, dcur, info, pinfo, buf, undone>>
  BY DEF Hear, JInv, Course, ring, index, limits
<1>2. /\ status \in {"willStart", "start", "run", "idle", "rst"}
      /\ flags # {} => status \in {"willStart", "idle"}
      /\ status \in {"willStart", "start", "idle"} => ~file.open
  BY <1>1 DEF IInv, Between
<1>3. smsgs # <<>> => /\ Head(smsgs)[1] \in Kind
                      /\ Head(smsgs)[1] = "willStart" => flags # {}
  BY StartIsAwaited DEF IInv
<1>4. /\ st \in {"willStart", "start", "idle"} => ~file.open
      /\ st = "run" => status = "run" /\ smsgs = <<>>
      /\ st = "rst" => status = "rst"
  BY <1>2, <1>3 DEF Told, Kind
<1> HIDE DEF st, fl
<1>5. CASE Quiet /\ UNCHANGED pic /\ pre' = pre
           /\ \/ at' = "new" /\ how' = "start" /\ st \in {"start", "willStart"}
              \/ at' = "store" /\ st = "run" /\ status' = "run"
              \/ at' = "sync" /\ how' = "stop" /\ pre = "run"
  <2>1. Data'
    BY <1>1, <1>5 DEF JInv, Data, Quiet
  <2>2. Working' => Working
    BY <1>1, <1>4, <1>5 DEF Working, Flushing
  <2> QED
    BY <1>1, <1>4, <1>5, <2>1, <2>2
       DEF JInv, Indexed, Held, Course, Aligned, Synchronised, Flushing, Quiet
<1>6. CASE Quiet /\ EndTurn /\ status' = st /\ st \in {"willStart", "idle"}
  <2>1. Data' /\ ~Working'
    BY <1>1, <1>6 DEF JInv, Data, Quiet, EndTurn, NoPic, Working, Flushing
  <2> QED
    BY <1>1, <1>4, <1>6, <2>1
       DEF JInv, Indexed, Held, Course, Aligned, Synchronised, Flushing, Quiet, EndTurn
<1>7. CASE Close /\ EndTurn /\ status' \in {"willStart", "idle"}
  <2>1. PICK d \in SUBSET dirty : bytes' = IF file.open THEN Reached(d) ELSE bytes
    BY <1>7 DEF Close, Unsynced
  <2>2. /\ bytes' \in [Box -> [Place -> Nat]]
        /\ \A b \in Box, k \in Place : k < info[b].n => bytes'[b][k] = bytes[b][k]
    <3>1. CASE file.open
      BY <2>1, <3>1, ReachedIsAbove DEF JInv
    <3>2. CASE ~file.open
      BY <2>1, <3>2 DEF JInv, Data
    <3> QED  BY <3>1, <3>2
  <2>3. file' = Closed /\ dirty' = {} /\ ~file'.open
    BY <1>7 DEF Close, Unsynced, Closed
  <2>4. Data' /\ ~Working'
    BY <1>1, <1>7, <2>2, <2>3, ClosedType DEF JInv, Data, EndTurn, NoPic, Working, Flushing
  <2>5. Indexed'
    BY <1>1, <2>2 DEF JInv, Indexed
  <2> QED
    BY <1>1, <1>7, <2>3, <2>4, <2>5
       DEF JInv, Held, Course, Aligned, Synchronised, Flushing, EndTurn
<1>8. (st \in {"stop", "rst"} /\ pre = "run") => st = "stop"
  BY <1>1, <1>4
<1> QED
  BY <1>1, <1>5, <1>6, <1>7, <1>8 DEF Dispatch, GoOn

---------------------------------------------------------------------------
(* A container is opened.                                                   *)

\* Nothing is open, and no turn is in its middle.
LEMMA RestsClosed ==
  ASSUME Data', Indexed', cur' <= dcur', at' = "take", pre' = status', status' # "run",
         ~file'.open, dirty' = {}
  PROVE  JInv'
BY DEF JInv, Held, Working, Course, Aligned, Synchronised, Flushing

LEMMA RollbackKeeps == ASSUME JInv, Rollback PROVE JInv'
<1>1. /\ at = "new" /\ cur' = 0 /\ UNCHANGED <<made, pics, turn, pinfo, bytes, file, buf, dirty>>
      /\ dcur' \in {0, dcur} /\ undone' \in {undone, undone + 1}
      /\ \/ info' = info
         \/ \E m \in 0..FileNums : info' = [b \in Box |-> IF b < m THEN Unused ELSE info[b]]
  <2>1. /\ at = "new" /\ cur' = 0 /\ UNCHANGED <<made, pics, turn, pinfo, bytes, file, buf, dirty>>
        /\ dcur' \in {0, dcur} /\ undone' \in {undone, undone + 1}
    BY DEF Rollback, ring
  <2>2. CASE info' = [b \in Box |-> Unused]
    <3>1. info' = [b \in Box |-> IF b < FileNums THEN Unused ELSE info[b]]
      BY <2>2, Sizes
    <3> QED  BY <2>1, <3>1, Sizes
  <2>3. CASE info' # [b \in Box |-> Unused]
    BY <2>1, <2>3 DEF Rollback
  <2> QED  BY <2>2, <2>3
<1>2. /\ info' \in [Box -> [status : {"unused", "used", "full"}, n : Nat, mask : SUBSET Chn]]
      /\ \A b \in Box : info'[b] \in {info[b], Unused}
  BY <1>1, UnusedType DEF JInv, Data
<1>3. Data' /\ cur' <= dcur'
  <2>1. dcur \in 0..FileNums
    BY DEF JInv, Data
  <2>2. cur' \in 0..FileNums /\ dcur' \in 0..FileNums /\ cur' <= dcur'
    BY <1>1, <2>1, Sizes
  <2> QED  BY <1>1, <1>2, <2>2 DEF JInv, Data, turn
<1>4. Indexed'
  <2> SUFFICES ASSUME undone <= 1, NEW b \in Box, NEW k \in Place, k < info'[b].n
               PROVE  /\ pinfo[b][k] # NoPic /\ bytes[b][k] = pinfo[b][k]
                      /\ ChnOf(pinfo[b][k]) \in info'[b].mask
    BY <1>1 DEF Indexed, JInv, Data
  <2>1. info'[b] = info[b]
    BY <1>2, Sizes DEF Unused
  <2> QED  BY <2>1 DEF JInv, Indexed
<1> QED
  BY <1>1, <1>3, <1>4
     DEF JInv, Held, Working, Course, Aligned, Synchronised, Flushing, turn

\* An entry that is begun shows what it showed.
LEMMA BegunShows ==
  ASSUME Data, Indexed, cur \in Box, UNCHANGED <<pinfo, bytes, undone>>,
         info' \in {info, [info EXCEPT ![cur] = Begun(@)]}
  PROVE  /\ info' \in [Box -> [status : {"unused", "used", "full"}, n : Nat, mask : SUBSET Chn]]
         /\ \A b \in Box : info'[b].n = info[b].n /\ info'[b].mask = info[b].mask
         /\ Indexed'
<1>1. /\ Begun(info[cur]) \in [status : {"unused", "used", "full"}, n : Nat, mask : SUBSET Chn]
      /\ Begun(info[cur]).n = info[cur].n /\ Begun(info[cur]).mask = info[cur].mask
  BY DEF Data, Begun
<1>2. /\ info' \in [Box -> [status : {"unused", "used", "full"}, n : Nat, mask : SUBSET Chn]]
      /\ \A b \in Box : info'[b].n = info[b].n /\ info'[b].mask = info[b].mask
  BY <1>1 DEF Data
<1> QED  BY <1>2 DEF Indexed

LEMMA OpenFailsKeeps == ASSUME JInv, OpenFails PROVE JInv'
<1>1. /\ at = "new" /\ cur < FileNums
      /\ UNCHANGED <<made, pics, cur, dcur, pinfo, bytes, buf, dirty, undone>>
      /\ info' \in {info, [info EXCEPT ![cur] = Begun(@)]} /\ file' \in {file, Closed}
      /\ status' \in {"start", "rst"} /\ at' = "take" /\ pre' = status' /\ pic' = 0
  BY DEF OpenFails, EndTurn, NoPic, ring, stored
<1>2. cur \in Box
  BY <1>1, Sizes DEF JInv, Data
<1>3. Data' /\ Indexed'
  BY <1>1, <1>2, BegunShows, ClosedType DEF JInv, Data
<1>4. dirty = {} /\ ~file'.open /\ cur' <= dcur'
  BY <1>1 DEF JInv, Course, Held, Closed
<1> QED  BY <1>1, <1>3, <1>4, RestsClosed

LEMMA OpenNewKeeps == ASSUME IInv, JInv, OpenNew PROVE JInv'
<1>1. /\ at = "new" /\ cur < FileNums
      /\ UNCHANGED <<made, pics, pic, pre, cur, dcur, pinfo, bytes, dirty, undone>>
      /\ info' = [info EXCEPT ![cur] = Begun(@)]
      /\ file' = [open |-> TRUE, wild |-> FALSE, box |-> cur, n |-> Begun(info[cur]).n,
                  mask |-> Begun(info[cur]).mask]
  BY DEF OpenNew, GoOn, Closed, ring, stored
<1>2. cur \in Box
  BY <1>1, Sizes DEF JInv, Data
<1>3. /\ info' \in [Box -> [status : {"unused", "used", "full"}, n : Nat, mask : SUBSET Chn]]
      /\ \A b \in Box : info'[b].n = info[b].n /\ info'[b].mask = info[b].mask
      /\ Indexed'
  BY <1>1, <1>2, BegunShows DEF JInv
<1>4. /\ file'.open /\ ~file'.wild /\ file'.box = cur /\ file'.n = info[cur].n
      /\ file' \in [open : BOOLEAN, wild : BOOLEAN, box : Box, n : Nat, mask : SUBSET Chn]
  <2>1. Begun(info[cur]).n = info[cur].n /\ Begun(info[cur]).mask = info[cur].mask
    BY DEF Begun
  <2> QED  BY <1>1, <1>2, <2>1, Parts DEF JInv
<1>5. buf' = <<>> /\ dirty = {} /\ at' \in {"store", "write"} /\ (at' = "write" => pic # NoPic)
  BY <1>1 DEF OpenNew, GoOn, IInv, Turn, JInv, Course, Held
<1>6. Data'
  BY <1>1, <1>3, <1>4, <1>5 DEF JInv, Data
<1>7. Held' /\ Aligned'
  <2>1. info'[cur].n = file'.n /\ file'.n \in Nat
    BY <1>2, <1>3, <1>4
  <2> QED  BY <1>1, <1>2, <1>4, <1>5, <2>1 DEF Held, Aligned
<1> QED
  BY <1>1, <1>3, <1>4, <1>5, <1>6, <1>7 DEF JInv, Course, Synchronised, Flushing

---------------------------------------------------------------------------
(* The picture is stored.                                                   *)

\* A turn goes on without writing.
LEMMA Onward ==
  ASSUME JInv, at \in {"store", "half", "late"}, UNCHANGED <<made, pics, pic, seen>>,
         at' \in {"half", "write", "late", "sync"}, at' = "write" => pic # NoPic,
         at' = "sync" => how' # "rst" /\ (how' = "full" => pic # NoPic)
  PROVE  JInv'
<1>1. Data'
  BY DEF JInv, Data, seen
<1>2. Held'
  BY DEF JInv, Held, seen
<1>3. Indexed' /\ cur' <= dcur'
  BY DEF JInv, Indexed, seen
<1>4. Working /\ Course' /\ Synchronised'
  BY DEF JInv, Working, Course, Synchronised, Flushing, seen
<1>5. Aligned'
  BY <1>4 DEF JInv, Aligned, seen
<1> QED  BY <1>1, <1>2, <1>3, <1>4, <1>5 DEF JInv

\* A turn ends without writing, and the thread has left the container or goes on with it.
LEMMA TurnEnds ==
  ASSUME JInv, UNCHANGED <<made, pics, seen>>, EndTurn, status' # "run" \/ at = "late"
  PROVE  JInv'
<1>1. at' = "take" /\ pre' = status' /\ pic' = 0
  BY DEF EndTurn, NoPic
<1>2. Data'
  BY <1>1 DEF JInv, Data, seen
<1>3. Held'
  BY DEF JInv, Held, seen
<1>4. Indexed' /\ cur' <= dcur'
  BY DEF JInv, Indexed, seen
<1>5. Working' => Working /\ at = "late"
  BY <1>1 DEF Working, Flushing
<1>6. Course' /\ Synchronised'
  BY <1>1, <1>5 DEF JInv, Course, Synchronised, Flushing, seen
<1>7. Aligned'
  BY <1>1, <1>5 DEF JInv, Aligned, seen
<1> QED  BY <1>2, <1>3, <1>4, <1>6, <1>7 DEF JInv

LEMMA StoreKeeps == ASSUME IInv, JInv, Store \/ StoreFails \/ Half \/ Late PROVE JInv'
<1>1. CASE Store
  <2>1. UNCHANGED <<made, pics, pic, seen>>
    BY <1>1 DEF Store, GoOn, ring, work, index, stored, limits, seen
  <2>2. /\ at = "store" /\ at' \in {"half", "write", "sync"}
        /\ at' = "write" => pic # NoPic
        /\ at' = "sync" => how' = "full" /\ pic # NoPic
    BY <1>1 DEF Store, GoOn
  <2> QED  BY <2>1, <2>2, Onward
<1>2. CASE StoreFails
  <2>1. UNCHANGED <<made, pics, seen>> /\ EndTurn /\ status' = "rst"
    BY <1>2 DEF StoreFails, ring, work, index, stored, limits, seen
  <2> QED  BY <2>1, TurnEnds
<1>3. CASE Half
  <2>1. UNCHANGED <<made, pics, pic, seen>>
    BY <1>3 DEF Half, GoOn, ring, work, index, stored, limits, seen
  <2>2. at = "half" /\ at' \in {"late", "sync"} /\ (at' = "sync" => how' = "half")
    BY <1>3 DEF Half, GoOn
  <2> QED  BY <2>1, <2>2, Onward
<1>4. CASE Late /\ GoOn("sync", "late")
  <2>1. UNCHANGED <<made, pics, pic, seen>>
    BY <1>4 DEF Late, GoOn, ring, work, index, stored, limits, seen
  <2>2. at = "late" /\ at' = "sync" /\ how' = "late"
    BY <1>4 DEF Late, GoOn
  <2> QED  BY <2>1, <2>2, Onward
<1>5. CASE Late /\ EndTurn
  <2>1. UNCHANGED <<made, pics, seen>> /\ at = "late"
    BY <1>5 DEF Late, ring, work, index, stored, limits, seen
  <2> QED  BY <1>5, <2>1, TurnEnds
<1> QED  BY <1>1, <1>2, <1>3, <1>4, <1>5 DEF Late

LEMMA WriteKeeps == ASSUME JInv, Write PROVE JInv'
<1> DEFINE w0 == <<file.n, pic>>
<1>1. /\ at = "write" /\ at' = "half" /\ how' = "none" /\ pic' = pic /\ pre' = pre
      /\ dirty' = dirty \cup {w0} /\ buf' = Append(buf, PicInfo)
      /\ file' = [file EXCEPT !.n = @ + 1, !.mask = @ \cup {ChnOf(pic)}]
      /\ UNCHANGED <<made, pics, cur, dcur, info, pinfo, bytes, undone>>
  BY DEF Write, GoOn, ring, index
<1>2. /\ pic \in APic /\ file.open /\ file.box = cur /\ cur \in Box /\ info[cur].n <= file.n
      /\ file.n \in Nat /\ file.mask \subseteq Chn /\ info[cur].n \in Nat
      /\ Len(buf) = file.n - info[cur].n
  <2>1. Working /\ pic # NoPic
    BY <1>1 DEF JInv, Course, Working
  <2>2. file.open
    BY <2>1 DEF JInv, Course
  <2>3. file.box = cur /\ cur \in Box /\ info[cur].n <= file.n
    BY <2>2 DEF JInv, Held
  <2>4. file.n \in Nat /\ file.mask \subseteq Chn /\ info[cur].n \in Nat
    BY <2>3, Parts DEF JInv
  <2>5. pic \in APic
    BY <2>1 DEF JInv, Data, APic, NoPic
  <2>6. Len(buf) = file.n - info[cur].n
    BY <1>1, <2>1 DEF JInv, Aligned
  <2> QED  BY <2>2, <2>3, <2>4, <2>5, <2>6
<1>3. /\ file'.open = file.open /\ file'.wild = file.wild
      /\ file'.box = file.box /\ file'.n = file.n + 1
      /\ file'.mask = file.mask \cup {ChnOf(pic)}
      /\ file' \in [open : BOOLEAN, wild : BOOLEAN, box : Box, n : Nat, mask : SUBSET Chn]
  <2>1. ChnOf(pic) \in Chn
    BY <1>2 DEF Chn, APic
  <2>2. file \in [open : BOOLEAN, wild : BOOLEAN, box : Box, n : Nat, mask : SUBSET Chn]
    BY DEF JInv, Data
  <2>3. file.n + 1 \in Nat /\ file.mask \cup {ChnOf(pic)} \in SUBSET Chn
    BY <1>2, <2>1
  <2> QED  BY <1>1, <2>2, <2>3
<1>4. /\ buf \in Seq([box : Box, place : Nat, pic : APic])
      /\ PicInfo \in [box : Box, place : Nat, pic : APic]
  BY <1>2 DEF JInv, Data, PicInfo
<1>5. /\ buf' \in Seq([box : Box, place : Nat, pic : APic])
      /\ Len(buf') = Len(buf) + 1 /\ Len(buf) \in Nat
      /\ \A i \in 1..Len(buf) : buf'[i] = buf[i]
      /\ buf'[Len(buf) + 1] = PicInfo
  BY <1>1, <1>4
<1>6. Data'
  <2>1. dirty' \subseteq Nat \X APic
    BY <1>1, <1>2 DEF JInv, Data
  <2> QED  BY <1>1, <1>3, <1>5, <2>1 DEF JInv, Data
<1>7. Held'
  <2>1. \A w \in dirty : info[cur].n <= w[1] /\ w[1] < file.n /\ w[1] \in Nat
    BY <1>2, Parts DEF JInv, Held
  <2>2. \A w \in dirty' : info[cur].n <= w[1] /\ w[1] < file.n + 1
    BY <1>1, <1>2, <2>1
  <2>3. \A v, w \in dirty' : v[1] = w[1] => v = w
    <3>1. \A v, w \in dirty : v[1] = w[1] => v = w
      BY DEF JInv, Held
    <3>2. \A v \in dirty : v[1] # w0[1]
      BY <1>2, <2>1
    <3> QED  BY <1>1, <3>1, <3>2
  <2>4. info'[cur'].n <= file'.n /\ ~file'.wild
    BY <1>1, <1>2, <1>3 DEF JInv, Held
  <2> QED  BY <1>1, <1>2, <1>3, <2>2, <2>3, <2>4 DEF Held
<1>8. Aligned'
  <2>1. ASSUME NEW i \in 1..Len(buf)
        PROVE  /\ buf'[i].box = cur /\ buf'[i].place = info[cur].n + i - 1
               /\ ChnOf(buf'[i].pic) \in file'.mask
               /\ <<buf'[i].place, buf'[i].pic>> \in dirty'
    BY <1>1, <1>3, <1>5 DEF JInv, Aligned, Working
  <2>2. /\ PicInfo.box = cur /\ PicInfo.place = info[cur].n + (Len(buf) + 1) - 1
        /\ ChnOf(PicInfo.pic) \in file'.mask
        /\ <<PicInfo.place, PicInfo.pic>> \in dirty'
    BY <1>1, <1>2, <1>3 DEF PicInfo
  <2>3. Len(buf') = file'.n - info[cur].n
    BY <1>2, <1>3, <1>5
  <2>4. ASSUME NEW i \in 1..Len(buf')
        PROVE  /\ buf'[i].box = cur /\ buf'[i].place = info[cur].n + i - 1
               /\ ChnOf(buf'[i].pic) \in file'.mask
               /\ <<buf'[i].place, buf'[i].pic>> \in dirty'
    <3>1. i \in 1..Len(buf) \/ i = Len(buf) + 1
      BY <1>5
    <3> QED  BY <1>5, <2>1, <2>2, <3>1
  <2> QED  BY <1>1, <2>3, <2>4 DEF Aligned
<1> QED
  BY <1>1, <1>2, <1>3, <1>6, <1>7, <1>8
     DEF JInv, Indexed, Working, Course, Synchronised, Flushing

---------------------------------------------------------------------------
(* The writes of a flush.                                                   *)

\* What a flush finds, whichever its write.
LEMMA FlushOpen ==
  ASSUME JInv, at \in Flushing
  PROVE  /\ file.open /\ ~file.wild /\ file.box = cur /\ cur \in Box /\ info[cur].n <= file.n
         /\ file.n \in Nat /\ file.mask \subseteq Chn
         /\ info[cur].n \in Nat /\ info[cur].mask \subseteq Chn /\ how # "rst"
<1>1. file.open /\ how # "rst"
  BY DEF JInv, Course, Working
<1>2. ~file.wild /\ file.box = cur /\ cur \in Box /\ info[cur].n <= file.n
  BY <1>1 DEF JInv, Held
<1> QED  BY <1>1, <1>2, Parts DEF JInv

\* A flush ends with everything entered.
LEMMA FlushEnded ==
  ASSUME IInv, JInv, at \in Flushing, Flushed, Data', Indexed', dirty' = {},
         how # "full" => cur' = cur /\ info'[cur].n = file.n,
         cur' <= dcur'
  PROVE  JInv'
<1>1. how \in {"full", "half", "late", "stop"} /\ (how \in {"half", "late"} => status = "run")
  BY FlushOpen DEF IInv, Turn
<1>2. CASE how \in {"full", "stop"}
  <2>1. /\ ~file'.open /\ buf' = <<>>
        /\ \/ at' = "new" /\ how = "full" /\ pic' = pic
           \/ at' = "take" /\ pre' = status' /\ status' = "idle"
    BY <1>2 DEF Flushed, Closed, GoOn, EndTurn
  <2> QED
    BY <2>1 DEF JInv, Held, Working, Course, Aligned, Synchronised, Flushing
<1>3. CASE how \in {"half", "late"}
  <2>1. /\ file' = file /\ buf' = <<>> /\ status' = status /\ cur' = cur
        /\ at' = "late" \/ (at' = "take" /\ pre' = status')
    BY <1>3 DEF Flushed, GoOn, EndTurn
  <2>2. info'[cur'].n = file'.n /\ file'.n \in Nat /\ info'[cur'].n <= file'.n
    BY <1>3, <2>1, FlushOpen
  <2>3. Held'
    BY <1>3, <2>1, <2>2, FlushOpen DEF Held
  <2>4. Aligned'
    BY <2>1, <2>2 DEF Aligned
  <2>5. Course' /\ Synchronised'
    BY <1>1, <1>3, <2>1, FlushOpen DEF Course, Synchronised, Flushing
  <2> QED  BY <2>3, <2>4, <2>5 DEF JInv
<1> QED  BY <1>1, <1>2, <1>3

\* A flush fails, and the container is closed or left.
LEMMA FlushFailed ==
  ASSUME IInv, JInv, at \in Flushing, FlushFails, Data', Indexed', dirty' = {},
         cur' = cur, info'[cur].n <= file.n, cur' <= dcur'
  PROVE  JInv'
<1>1. /\ at' = "take" /\ pre' = status' /\ status' \in {"idle", "rst"}
      /\ file' = file \/ ~file'.open
  BY FlushOpen DEF FlushFails, Flushed, EndTurn, Closed
<1>2. Held'
  BY <1>1, FlushOpen DEF Held
<1> QED
  BY <1>1, <1>2 DEF JInv, Working, Course, Aligned, Synchronised, Flushing

\* What the types say after a flush.
LEMMA FlushTypes ==
  ASSUME IInv, JInv, at \in Flushing, Flushed \/ FlushFails, UNCHANGED <<made, pics, undone>>,
         cur' \in 0..FileNums, dcur' \in 0..FileNums, dirty' = {},
         info' \in [Box -> [status : {"unused", "used", "full"}, n : Nat, mask : SUBSET Chn]],
         pinfo' \in [Box -> [Place -> Nat]], bytes' \in [Box -> [Place -> Nat]]
  PROVE  Data'
<1>1. buf' = <<>> /\ file' \in {file, Closed} /\ pic' \in {pic, 0}
  BY DEF Flushed, FlushFails, GoOn, EndTurn, NoPic
<1>2. file' \in [open : BOOLEAN, wild : BOOLEAN, box : Box, n : Nat, mask : SUBSET Chn] /\ pic' \in Nat
  BY <1>1, ClosedType DEF JInv, Data
<1> QED  BY <1>1, <1>2 DEF JInv, Data

LEMMA SyncKeeps == ASSUME IInv, JInv, Sync PROVE JInv'
<1>1. /\ at = "sync" /\ at \in Flushing /\ bytes' = Reached(dirty) /\ dirty' = {}
      /\ UNCHANGED <<made, pics, cur, dcur, info, pinfo, undone>>
  BY DEF Sync, Synced, Flushing, ring, index, limits
<1>2. /\ bytes' \in [Box -> [Place -> Nat]]
      /\ \A b \in Box, k \in Place : k < info[b].n => bytes'[b][k] = bytes[b][k]
  BY <1>1, FlushOpen, ReachedIsAbove DEF JInv
<1>3. Indexed' /\ cur' <= dcur'
  BY <1>1, <1>2 DEF JInv, Indexed
<1>4. /\ Len(buf) = file.n - info[cur].n
      /\ \A i \in 1..Len(buf) : <<buf[i].place, buf[i].pic>> \in dirty
  BY <1>1 DEF JInv, Aligned, Working
<1>5. CASE NextWrite("pics")
  <2>1. at' = "pics" /\ UNCHANGED <<pic, pre, how, buf, file, status>>
    BY <1>5 DEF NextWrite, GoOn
  <2>2. Data'
    BY <1>1, <1>2, <2>1 DEF JInv, Data
  <2>3. Held' /\ Course' /\ Aligned'
    BY <1>1, <2>1 DEF JInv, Held, Working, Course, Aligned, Flushing
  <2>4. ASSUME NEW i \in 1..Len(buf), buf[i].place \in Place
        PROVE  bytes'[cur][buf[i].place] = buf[i].pic
    <3>1. <<buf[i].place, buf[i].pic>> \in dirty
      BY <1>4
    <3>2. ASSUME NEW k \in Place, NEW w \in dirty, w[1] = k  PROVE bytes'[file.box][k] = w[2]
      <4>1. bytes'[file.box][k] = IF \E v \in dirty : v[1] = k
                                  THEN (CHOOSE v \in dirty : v[1] = k)[2]
                                  ELSE bytes[file.box][k]
        BY <1>1 DEF JInv, Data, Reached
      <4>2. (CHOOSE v \in dirty : v[1] = k) = w
        <5>1. \A v \in dirty : v[1] = k => v = w
          BY <3>2 DEF JInv, Held
        <5> QED  BY <3>2, <5>1
      <4> QED  BY <3>2, <4>1, <4>2
    <3> QED  BY <1>1, <2>4, <3>1, <3>2, FlushOpen
  <2>5. Synchronised'
    BY <1>1, <2>1, <2>4 DEF Synchronised
  <2> QED  BY <1>3, <2>2, <2>3, <2>5 DEF JInv
<1>6. CASE Flushed /\ buf = <<>>
  <2>1. info[cur].n = file.n
    BY <1>1, <1>4, <1>6, FlushOpen
  <2>2. Data'
    BY <1>1, <1>2, <1>6, FlushTypes DEF JInv, Data
  <2> QED  BY <1>1, <1>3, <1>6, <2>1, <2>2, FlushEnded
<1> QED  BY <1>5, <1>6 DEF Sync

\* Places of the containers have entries of their own.
LEMMA SamePos ==
  ASSUME NEW b \in Nat, NEW c \in Nat, NEW k \in Place, NEW l \in Place,
         PicPos(b, k) = PicPos(c, l)
  PROVE  b = c /\ k = l
<1>1. PicNums \in Nat /\ k \in 0..PicNums - 1 /\ l \in 0..PicNums - 1
  BY Sizes
<1>2. ASSUME NEW x \in Nat, NEW y \in Nat, x < y  PROVE y * PicNums >= x * PicNums + PicNums
  <2>1. PICK z \in Nat : y = x + 1 + z
    <3>1. y - x - 1 \in Nat /\ y = x + 1 + (y - x - 1)
      BY <1>2
    <3> QED  BY <3>1
  <2>2. z * PicNums \in Nat
    BY <1>1
  <2>3. y * PicNums = x * PicNums + PicNums + z * PicNums
    BY <1>1, <2>1
  <2> QED  BY <1>1, <2>2, <2>3
<1>3. b * PicNums \in Nat /\ c * PicNums \in Nat /\ b * PicNums + k = c * PicNums + l
  BY <1>1 DEF PicPos
<1>4. ~(b < c) /\ ~(c < b)
  <2>1. b < c => c * PicNums >= b * PicNums + PicNums
    BY <1>2
  <2>2. c < b => b * PicNums >= c * PicNums + PicNums
    BY <1>2
  <2> QED  BY <1>1, <1>3, <2>1, <2>2
<1>5. b = c
  BY <1>4
<1> QED  BY <1>1, <1>3, <1>5

\* The entries of PicInfoBuf are above what the index shows.
LEMMA EnterPicsKeeps ==
  ASSUME IInv, JInv, Filled, EnterPics
  PROVE  /\ JInv'
         /\ undone <= 1 => \A b \in Box, k \in Place :
              k < info[b].n => pinfo'[b][k] = pinfo[b][k]
<1> DEFINE Lands(i, b, k) == PicPos(buf[i].box, buf[i].place) = PicPos(b, k)
<1>1. /\ at = "pics" /\ at \in Flushing /\ dirty = {} /\ dirty' = {}
      /\ UNCHANGED <<made, pics, cur, dcur, info, bytes, undone>>
  BY DEF EnterPics, Flushing, JInv, Synchronised, ring, stored
<1>2. PICK m \in 0..Len(buf) :
        /\ pinfo' = [b \in Box |-> [k \in Place |->
                       IF \E i \in 1..m : Lands(i, b, k)
                       THEN buf[CHOOSE i \in 1..m : Lands(i, b, k)].pic ELSE pinfo[b][k]]]
        /\ \/ m = Len(buf) /\ NextWrite("info")
           \/ FlushFails
  BY DEF EnterPics
<1>3. Len(buf) \in Nat /\ \A i \in 1..Len(buf) : buf[i].pic \in Nat /\ buf[i].place \in Nat
  BY BufParts DEF JInv, APic
<1>4. /\ Len(buf) = file.n - info[cur].n
      /\ \A i \in 1..Len(buf) : buf[i].box = cur /\ buf[i].place = info[cur].n + i - 1
      /\ \A i \in 1..Len(buf) : ChnOf(buf[i].pic) \in file.mask
  BY <1>1 DEF JInv, Aligned, Working
<1>5. ASSUME NEW b \in Box, NEW k \in Place, NEW i \in 1..m, Lands(i, b, k)
      PROVE  pinfo'[b][k] = buf[i].pic
  <2> DEFINE j == CHOOSE j \in 1..m : Lands(j, b, k)
  <2>1. j \in 1..m /\ PicPos(buf[j].box, buf[j].place) = PicPos(buf[i].box, buf[i].place)
    BY <1>5
  <2>2. i \in 1..Len(buf) /\ j \in 1..Len(buf)
    BY <1>3, <2>1
  <2>3. pinfo'[b][k] = buf[j].pic
    BY <1>2, <1>5
  <2> HIDE DEF j
  <2>4. j = i
    <3>1. /\ buf[i].box = cur /\ buf[i].place = info[cur].n + i - 1
          /\ buf[j].box = cur /\ buf[j].place = info[cur].n + j - 1
      BY <1>4, <2>2
    <3>2. cur * PicNums + (info[cur].n + i - 1) = cur * PicNums + (info[cur].n + j - 1)
      BY <2>1, <3>1 DEF PicPos
    <3>3. cur * PicNums \in Nat /\ info[cur].n \in Nat
      BY <1>1, FlushOpen, Sizes
    <3> QED  BY <2>2, <3>2, <3>3
  <2> QED  BY <2>3, <2>4
<1>6. ASSUME NEW b \in Box, NEW k \in Place, ~\E i \in 1..m : Lands(i, b, k)
      PROVE  pinfo'[b][k] = pinfo[b][k]
  BY <1>2, <1>6
<1> HIDE DEF Lands
<1>7. ASSUME NEW b \in Box, NEW k \in Place  PROVE pinfo'[b][k] \in Nat
  <2>1. ASSUME NEW i \in 1..m, Lands(i, b, k)  PROVE pinfo'[b][k] \in Nat
    <3>1. i \in 1..Len(buf)
      BY <1>3, <2>1
    <3> QED  BY <1>3, <1>5, <2>1, <3>1
  <2>2. CASE ~\E i \in 1..m : Lands(i, b, k)
    BY <1>6, <2>2, Parts DEF JInv
  <2> QED  BY <2>1, <2>2
<1>8. pinfo' \in [Box -> [Place -> Nat]]
  <2> DEFINE g(b, k) == IF \E i \in 1..m : Lands(i, b, k)
                        THEN buf[CHOOSE i \in 1..m : Lands(i, b, k)].pic ELSE pinfo[b][k]
  <2>1. pinfo' = [b \in Box |-> [k \in Place |-> g(b, k)]]
    BY <1>2
  <2> HIDE DEF g
  <2>2. \A b \in Box, k \in Place : g(b, k) \in Nat
    BY <1>7, <2>1
  <2> QED  BY <2>1, <2>2
<1>9. ASSUME undone <= 1, NEW b \in Box, NEW k \in Place, k < info[b].n
      PROVE  pinfo'[b][k] = pinfo[b][k]
  <2>1. ASSUME NEW i \in 1..m, Lands(i, b, k)  PROVE FALSE
    <3>1. i \in 1..Len(buf) /\ k \in Nat
      BY <1>3, <2>1, Sizes
    <3>2. buf[i].box = cur /\ buf[i].place = info[cur].n + i - 1
      BY <1>4, <3>1
    <3>3. buf[i].place \in Place
      <4>1. buf[i].place \in Nat /\ buf[i].place <= PicNums - 2 + undone /\ undone \in Nat
        BY <1>3, <3>1 DEF Filled
      <4> QED  BY <1>9, <4>1, Sizes
    <3>4. b = cur /\ k = buf[i].place
      <4>1. b \in Nat /\ cur \in Nat
        BY <1>1, FlushOpen, Sizes
      <4> QED  BY <2>1, <3>2, <3>3, <4>1, SamePos DEF Lands
    <3> QED  BY <1>1, <1>9, <3>1, <3>2, <3>4, FlushOpen
  <2> QED  BY <1>6, <2>1
<1>10. Indexed' /\ cur' <= dcur'
  BY <1>1, <1>9 DEF JInv, Indexed
<1>11. CASE m = Len(buf) /\ NextWrite("info")
  <2>1. at' = "info" /\ UNCHANGED <<pic, pre, how, buf, file, status>>
    BY <1>11 DEF NextWrite, GoOn
  <2>2. Data'
    BY <1>1, <1>8, <2>1 DEF JInv, Data
  <2>3. Held' /\ Course' /\ Aligned'
    BY <1>1, <2>1 DEF JInv, Held, Working, Course, Aligned, Flushing
  <2>4. ASSUME NEW i \in 1..Len(buf), buf[i].place \in Place
        PROVE  pinfo'[cur][buf[i].place] = buf[i].pic
    <3>1. buf[i].box = cur /\ cur \in Box /\ i \in 1..m
      BY <1>1, <1>4, <1>11, FlushOpen
    <3>2. Lands(i, cur, buf[i].place)
      BY <3>1 DEF Lands
    <3> QED  BY <1>5, <2>4, <3>1, <3>2
  <2>5. Synchronised'
    BY <1>1, <2>1, <2>4 DEF JInv, Synchronised
  <2>6. JInv'
    BY <1>10, <2>2, <2>3, <2>5 DEF JInv
  <2> QED  BY <2>6, <1>9
<1>12. CASE FlushFails
  <2>1. Data'
    BY <1>1, <1>8, <1>12, FlushTypes DEF JInv, Data
  <2>2. JInv'
    BY <1>1, <1>10, <1>12, <2>1, FlushOpen, FlushFailed
  <2> QED  BY <2>2, <1>9
<1> QED  BY <1>2, <1>9, <1>11, <1>12

LEMMA EnterFileKeeps == ASSUME IInv, JInv, EnterFile PROVE JInv'
<1>1. /\ at = "info" /\ at \in Flushing /\ dirty = {} /\ dirty' = {}
      /\ UNCHANGED <<made, pics, cur, dcur, pinfo, bytes, undone>>
      /\ info' \in {info, [info EXCEPT ![cur] = Entry(@)]}
      /\ \/ info' = [info EXCEPT ![cur] = Entry(@)] /\ NextWrite("head")
         \/ FlushFails
  BY DEF EnterFile, Flushing, JInv, Synchronised, ring, stored
<1>2. /\ Entry(info[cur]) \in [status : {"unused", "used", "full"}, n : Nat, mask : SUBSET Chn]
      /\ Entry(info[cur]).n = file.n
      /\ Entry(info[cur]).mask = info[cur].mask \cup file.mask
  BY <1>1, FlushOpen DEF Entry
<1>3. /\ info \in [Box -> [status : {"unused", "used", "full"}, n : Nat, mask : SUBSET Chn]]
      /\ info' \in [Box -> [status : {"unused", "used", "full"}, n : Nat, mask : SUBSET Chn]]
  <2>1. info \in [Box -> [status : {"unused", "used", "full"}, n : Nat, mask : SUBSET Chn]]
    BY DEF JInv, Data
  <2> QED  BY <1>1, <1>2, <2>1
<1>4. info'[cur].n <= file.n
  BY <1>1, <1>2, <1>3, FlushOpen
<1>5. /\ Len(buf) = file.n - info[cur].n
      /\ \A i \in 1..Len(buf) :
           /\ buf[i].place = info[cur].n + i - 1 /\ ChnOf(buf[i].pic) \in file.mask
           /\ buf[i].pic \in APic
           /\ buf[i].place \in Place => /\ pinfo[cur][buf[i].place] = buf[i].pic
                                        /\ bytes[cur][buf[i].place] = buf[i].pic
  <2>1. Len(buf) \in Nat /\ \A i \in 1..Len(buf) : buf[i].pic \in APic
    BY BufParts DEF JInv
  <2>2. /\ Len(buf) = file.n - info[cur].n
        /\ \A i \in 1..Len(buf) :
             buf[i].place = info[cur].n + i - 1 /\ ChnOf(buf[i].pic) \in file.mask
    BY <1>1 DEF JInv, Aligned, Working
  <2>3. \A i \in 1..Len(buf) :
          buf[i].place \in Place => /\ pinfo[cur][buf[i].place] = buf[i].pic
                                   /\ bytes[cur][buf[i].place] = buf[i].pic
    BY <1>1 DEF JInv, Synchronised
  <2> QED  BY <2>1, <2>2, <2>3
<1>6. ASSUME NEW k \in Place, k < file.n, ~(k < info[cur].n)
      PROVE  /\ pinfo[cur][k] # NoPic /\ bytes[cur][k] = pinfo[cur][k]
             /\ ChnOf(pinfo[cur][k]) \in file.mask
  <2> DEFINE i == k - info[cur].n + 1
  <2>1. i \in 1..Len(buf) /\ info[cur].n + i - 1 = k
    <3>1. k \in Nat /\ info[cur].n \in Nat /\ file.n \in Nat
      BY <1>1, FlushOpen, Sizes
    <3> QED  BY <1>5, <1>6, <3>1
  <2> HIDE DEF i
  <2>2. buf[i].place = k
    BY <1>5, <2>1
  <2> QED  BY <1>5, <1>6, <2>1, <2>2 DEF APic, NoPic
<1>7. Indexed' /\ cur' <= dcur'
  <2> SUFFICES ASSUME undone <= 1, NEW b \in Box, NEW k \in Place, k < info'[b].n
               PROVE  /\ pinfo[b][k] # NoPic /\ bytes[b][k] = pinfo[b][k]
                      /\ ChnOf(pinfo[b][k]) \in info'[b].mask
    BY <1>1 DEF Indexed, JInv
  <2>1. CASE info'[b] = info[b]
    BY <2>1 DEF JInv, Indexed
  <2>2. CASE b = cur /\ info'[cur] = Entry(info[cur])
    BY <1>2, <1>6, <2>2 DEF JInv, Indexed
  <2> QED  BY <1>1, <1>3, <2>1, <2>2
<1>8. CASE info' = [info EXCEPT ![cur] = Entry(@)] /\ NextWrite("head")
  <2>1. at' = "head" /\ UNCHANGED <<pic, pre, how, buf, file, status>>
    BY <1>8 DEF NextWrite, GoOn
  <2>2. Data'
    BY <1>1, <1>3, <2>1 DEF JInv, Data
  <2>3. info'[cur].n = file.n
    BY <1>1, <1>2, <1>3, <1>8, FlushOpen
  <2>4. Held' /\ Course' /\ Aligned' /\ Synchronised'
    BY <1>1, <1>4, <2>1, <2>3
       DEF JInv, Held, Working, Course, Aligned, Synchronised, Flushing
  <2> QED  BY <1>7, <2>2, <2>4 DEF JInv
<1>9. CASE FlushFails
  <2>1. Data'
    BY <1>1, <1>3, <1>9, FlushTypes DEF JInv, Data
  <2> QED  BY <1>1, <1>4, <1>7, <1>9, <2>1, FlushFailed
<1> QED  BY <1>1, <1>8, <1>9

LEMMA EnterHeaderKeeps == ASSUME IInv, JInv, EnterHeader PROVE JInv'
<1> DEFINE next == IF how = "full" THEN cur + 1 ELSE cur
<1>1. /\ at = "head" /\ at \in Flushing /\ dirty = {} /\ dirty' = {}
      /\ UNCHANGED <<made, pics, info, pinfo, bytes, undone>>
      /\ \/ dcur' = next /\ cur' = next /\ Flushed
         \/ dcur' \in {dcur, next} /\ cur' = cur /\ FlushFails
  BY DEF EnterHeader, Flushing, JInv, Synchronised, ring, stored
<1>2. info[cur].n = file.n /\ cur <= dcur /\ dcur \in 0..FileNums
  BY <1>1 DEF JInv, Synchronised, Data
<1>3. next \in 0..FileNums /\ cur \in 0..FileNums /\ cur <= next
  BY <1>1, FlushOpen, Sizes
<1>4. Data'
  BY <1>1, <1>2, <1>3, FlushTypes DEF JInv, Data
<1>5. Indexed'
  BY <1>1 DEF JInv, Indexed
<1>6. CASE dcur' = next /\ cur' = next /\ Flushed
  BY <1>1, <1>2, <1>3, <1>4, <1>5, <1>6, FlushEnded
<1>7. CASE dcur' \in {dcur, next} /\ cur' = cur /\ FlushFails
  BY <1>1, <1>2, <1>3, <1>4, <1>5, <1>7, FlushOpen, FlushFailed
<1> QED  BY <1>1, <1>6, <1>7

---------------------------------------------------------------------------
LEMMA DownKeepsIndex == ASSUME JInv, GoesDown PROVE JInv'
<1>1. /\ UNCHANGED <<made, dcur, info, pinfo, undone>> /\ pics' = <<>> /\ buf' = <<>> /\ pic' = 0
      /\ at' = "take" /\ status' = "willStart" /\ pre' = status' /\ cur' = dcur
      /\ file' \in {Closed, Wild} /\ ~file'.open /\ dirty' = {}
  BY Fresh DEF GoesDown, Unsynced, NoPic, index
<1>2. PICK d \in SUBSET dirty : bytes' = IF file.open THEN Reached(d) ELSE bytes
  BY DEF GoesDown, Unsynced
<1>3. /\ bytes' \in [Box -> [Place -> Nat]]
      /\ \A b \in Box, k \in Place : k < info[b].n => bytes'[b][k] = bytes[b][k]
  <2>1. CASE file.open
    BY <1>2, <2>1, ReachedIsAbove DEF JInv
  <2>2. CASE ~file.open
    BY <1>2, <2>2 DEF JInv, Data
  <2> QED  BY <2>1, <2>2
<1>4. cur' <= dcur' /\ cur' \in 0..FileNums
  BY <1>1, Sizes DEF JInv, Data
<1>5. Data'
  BY <1>1, <1>3, <1>4, ClosedType, WildType DEF JInv, Data
<1>6. Indexed'
  BY <1>1, <1>3 DEF JInv, Indexed
<1> QED  BY <1>1, <1>4, <1>5, <1>6, RestsClosed

LEMMA NextJInv == IInv /\ JInv /\ Filled /\ [Next]_vars => JInv'
<1> SUFFICES ASSUME IInv, JInv, Filled, [Next]_vars PROVE JInv'
  OBVIOUS
<1>1. CASE UNCHANGED vars
  <2>1. UNCHANGED <<made, pics, turn, seen>>
    BY <1>1 DEF vars, ring, work, index, stored, limits, seen
  <2> QED  BY <2>1, NothingMoves
<1>2. CASE Thread
  BY <1>2, TakeKeeps, HearKeepsIndex, RollbackKeeps, OpenNewKeeps, OpenFailsKeeps,
     StoreKeeps, WriteKeeps, SyncKeeps, EnterPicsKeeps, EnterFileKeeps, EnterHeaderKeeps,
     DownKeepsIndex
     DEF Thread, WildClose
<1>3. CASE Next /\ ~Thread
  BY <1>3, PutKeeps, ReloadKeeps, FormatKeeps, DownKeepsIndex, AskingKeeps
     DEF Next, Crash
<1> QED  BY <1>1, <1>2, <1>3

---------------------------------------------------------------------------
(* The bounds.                                                              *)

LEMMA InitFilled == Init => Filled
BY SnapAssumption, Sizes DEF Init, Filled, Closed, Wild, Unused

\* No picture is entered, and no container is opened beyond its bound.
LEMMA FilledRests ==
  ASSUME JInv, Filled, cur' \in 0..FileNums, cur <= cur', undone' = undone,
         faults' \in {faults, faults + 1}, buf' \in {buf, <<>>},
         \A b \in Box : info'[b].n = info[b].n,
         file'.n <= PicNums - 1 + undone,
         at' = "write" => file'.n <= PicNums - 2 + undone,
         at' = "new" /\ how' = "full" /\ cur' \in Box => info[cur'].n <= PicNums - 2 + undone
  PROVE  Filled'
<1>1. undone' \in Nat /\ undone' <= faults' /\ faults' \in Nat
  BY DEF Filled
<1>2. \A b \in Box : info'[b].n <= PicNums - 1 + undone
  BY DEF Filled
<1>3. ASSUME NEW b \in Box, b > cur'  PROVE info'[b].n <= PicNums - 2 + undone
  <2>1. cur \in 0..FileNums
    BY DEF JInv, Data
  <2>2. b > cur
    BY <1>3, <2>1, Sizes
  <2> QED  BY <2>2 DEF Filled
<1>4. \A i \in 1..Len(buf') : buf'[i].place <= PicNums - 2 + undone
  BY DEF Filled
<1> QED  BY <1>1, <1>2, <1>3, <1>4 DEF Filled

\* What the bounds say of a container that is left.
LEMMA ClosedFills == ASSUME Filled PROVE Closed.n <= PicNums - 1 + undone
BY SnapAssumption DEF Filled, Closed

LEMMA AsideFilled ==
  ASSUME IInv, JInv, Filled,
         \/ Put \/ Drop \/ Reload \/ Crash \/ WildClose \/ UNCHANGED vars
         \/ \E c \in Causes : Pause(c) \/ Resume(c)
  PROVE  Filled'
<1>1. /\ cur \in 0..FileNums /\ dcur \in 0..FileNums /\ cur \in Nat /\ cur <= dcur
      /\ file.n <= PicNums - 1 + undone
  BY Sizes DEF JInv, Data, Filled
<1>2. CASE Reload
  <2>1. PICK c \in Causes : Heard(c)
    BY <1>2 DEF Reload, Heard, IInv, Asking
  <2>2. cur' = dcur /\ at' \in {"take", "hear"} /\ UNCHANGED <<undone, faults, buf, info, file>>
    BY <1>2, <2>1 DEF Reload, Heard, index, limits, turn
  <2> QED  BY <1>1, <2>2, FilledRests
<1>3. CASE Crash \/ WildClose
  <2>1. /\ cur' = dcur /\ at' = "take" /\ UNCHANGED <<undone, faults, info>>
        /\ buf' = <<>> /\ file'.n = Closed.n
    BY <1>3, Fresh DEF Crash, WildClose, GoesDown, Closed, index
  <2> QED  BY <1>1, <2>1, FilledRests, ClosedFills
<1>4. CASE Put \/ Drop \/ UNCHANGED vars \/ \E c \in Causes : Pause(c) \/ Resume(c)
  <2>1. UNCHANGED <<cur, at, how, undone, faults, buf, info, file>>
    BY <1>4 DEF Put, Drop, Pause, Resume, vars, turn, work, index, limits
  <2> QED  BY <2>1 DEF Filled
<1> QED  BY <1>2, <1>3, <1>4

LEMMA FormatFilled == ASSUME IInv, Filled, Format PROVE Filled'
<1>1. PICK c \in Causes : Heard(c)
  BY DEF Format, Heard, IInv, Asking
<1>2. /\ at' \in {"take", "hear"} /\ UNCHANGED <<undone, faults, buf, file>>
      /\ info' = [b \in Box |-> Unused]
  BY <1>1 DEF Format, Heard, limits, turn
<1>3. \A b \in Box : info'[b].n <= PicNums - 2 + undone /\ info'[b].n <= PicNums - 1 + undone
  BY <1>2, SnapAssumption DEF Unused, Filled
<1> QED  BY <1>2, <1>3 DEF Filled

\* An index that could not be emptied takes one picture more in each container.
LEMMA RollbackFilled == ASSUME JInv, Filled, Rollback PROVE Filled'
<1>1. at' = "new" /\ how' = how /\ cur' = 0 /\ UNCHANGED <<buf, file>>
  BY DEF Rollback, turn
<1>2. \A b \in Box : info[b].n \in Nat
  BY Parts DEF JInv
<1>3. /\ file.n <= PicNums - 1 + undone /\ \A b \in Box : info[b].n <= PicNums - 1 + undone
      /\ \A i \in 1..Len(buf) : buf[i].place <= PicNums - 2 + undone
      /\ undone \in Nat /\ faults \in Nat /\ undone <= faults
  BY DEF Filled
<1>4. PicNums \in Nat /\ PicNums >= 2 /\ Unused.n = 0
  BY SnapAssumption DEF Unused
<1>5. CASE info' = [b \in Box |-> Unused] /\ undone' = undone /\ faults' = faults
  <2>1. \A b \in Box : info'[b].n = 0
    BY <1>4, <1>5
  <2>2. \A b \in Box : info'[b].n <= PicNums - 2 + undone /\ info'[b].n <= PicNums - 1 + undone
    BY <1>3, <1>4, <2>1
  <2> QED  BY <1>1, <1>3, <1>5, <2>2 DEF Filled
<1>6. CASE /\ undone' = undone + 1 /\ faults' = faults + 1
           /\ \A b \in Box : info'[b] \in {info[b], Unused}
  <2>1. \A b \in Box : info'[b].n <= PicNums - 1 + undone
    BY <1>3, <1>4, <1>6
  <2>2. file.n <= PicNums - 1 + undone'
    <3>1. file.n \in Nat
      BY Parts DEF JInv
    <3> QED  BY <1>3, <1>4, <1>6, <3>1
  <2>3. ASSUME NEW i \in 1..Len(buf)  PROVE buf[i].place <= PicNums - 2 + undone'
    <3>1. buf[i].place \in Nat
      BY BufParts DEF JInv
    <3> QED  BY <1>3, <1>4, <1>6, <3>1
  <2>4. ASSUME NEW b \in Box
        PROVE  info'[b].n <= PicNums - 2 + undone' /\ info'[b].n <= PicNums - 1 + undone'
    <3>1. info'[b].n \in Nat
      BY <1>2, <1>4, <1>6
    <3> QED  BY <1>3, <1>4, <1>6, <2>1, <3>1
  <2>5. undone' \in Nat /\ undone' <= faults' /\ faults' \in Nat
    BY <1>3, <1>6
  <2> QED  BY <1>1, <2>2, <2>3, <2>4, <2>5 DEF Filled
<1>7. \/ info' = [b \in Box |-> Unused] /\ undone' = undone /\ faults' = faults
      \/ /\ undone' = undone + 1 /\ faults' = faults + 1
         /\ \A b \in Box : info'[b] \in {info[b], Unused}
  <2>1. CASE NoFault /\ info' = [b \in Box |-> Unused] /\ UNCHANGED undone
    BY <2>1 DEF NoFault
  <2>2. CASE Fault /\ undone' = undone + 1 /\ info' = info
    BY <2>2 DEF Fault
  <2>3. CASE Fault /\ undone' = undone + 1
             /\ \E m \in 0..FileNums : info' = [b \in Box |-> IF b < m THEN Unused ELSE info[b]]
    BY <2>3 DEF Fault
  <2> QED  BY <2>1, <2>2, <2>3 DEF Rollback
<1> QED  BY <1>5, <1>6, <1>7

LEMMA OpenFilled == ASSUME IInv, JInv, Filled, OpenNew \/ OpenFails PROVE Filled'
<1>1. /\ at = "new" /\ cur \in 0..FileNums /\ cur < FileNums /\ cur \in Box
      /\ UNCHANGED <<cur, pinfo, bytes, undone>> /\ faults' \in {faults, faults + 1}
      /\ info' \in {info, [info EXCEPT ![cur] = Begun(@)]}
  <2>1. cur \in 0..FileNums
    BY DEF JInv, Data
  <2> QED  BY <2>1, Sizes DEF OpenNew, OpenFails, NoFault, Fault, stored
<1>2. \A b \in Box : info'[b].n = info[b].n
  BY <1>1, BegunShows DEF JInv
<1>3. cur <= cur' /\ buf' \in {buf, <<>>} /\ at' # "new"
  BY <1>1 DEF OpenNew, OpenFails, GoOn, EndTurn
<1>4. CASE OpenFails
  <2>1. file' \in {file, Closed} /\ file.n <= PicNums - 1 + undone /\ at' = "take"
    BY <1>4 DEF OpenFails, EndTurn, Filled
  <2> QED  BY <1>1, <1>2, <1>3, <2>1, ClosedFills, FilledRests
<1>5. CASE OpenNew
  <2>1. /\ file'.n = info[cur].n /\ info[cur].n <= PicNums - 1 + undone
        /\ at' = "write" => how = "full"
    BY <1>1, <1>5 DEF OpenNew, Begun, Closed, GoOn, IInv, Turn, Filled
  <2>2. at' = "write" => file'.n <= PicNums - 2 + undone
    BY <1>1, <2>1 DEF Filled
  <2> QED  BY <1>1, <1>2, <1>3, <2>1, <2>2, FilledRests
<1> QED  BY <1>4, <1>5

LEMMA WriteFilled == ASSUME JInv, Filled, Write PROVE Filled'
<1>1. /\ at = "write" /\ at' = "half" /\ buf' = Append(buf, PicInfo)
      /\ file' = [file EXCEPT !.n = @ + 1, !.mask = @ \cup {ChnOf(pic)}]
      /\ UNCHANGED <<cur, info, undone, faults>>
  BY DEF Write, GoOn, NoFault, index
<1>2. file.n \in Nat /\ file.n <= PicNums - 2 + undone /\ undone \in Nat /\ PicNums \in Nat
  BY <1>1, Parts, Sizes DEF JInv, Filled
<1>3. file'.n <= PicNums - 1 + undone
  <2>1. file'.n = file.n + 1
    BY <1>1 DEF JInv, Data
  <2> QED  BY <1>2, <2>1
<1>4. ASSUME NEW i \in 1..Len(buf')  PROVE buf'[i].place <= PicNums - 2 + undone
  <2>1. /\ buf \in Seq([box : Box, place : Nat, pic : APic]) /\ PicInfo.place = file.n
    BY DEF JInv, Data, PicInfo
  <2>2. CASE i \in 1..Len(buf)
    <3>1. buf'[i] = buf[i]
      BY <1>1, <2>1, <2>2
    <3> QED  BY <2>2, <3>1 DEF Filled
  <2>3. CASE i = Len(buf) + 1
    <3>1. buf'[i] = PicInfo
      BY <1>1, <2>1, <2>3
    <3> QED  BY <1>2, <2>1, <3>1
  <2>4. i \in 1..Len(buf) \/ i = Len(buf) + 1
    BY <1>1, <2>1
  <2> QED  BY <2>2, <2>3, <2>4
<1> QED  BY <1>1, <1>3, <1>4 DEF Filled

LEMMA EnterFileFilled == ASSUME IInv, JInv, Filled, EnterFile PROVE Filled'
<1>1. /\ at \in Flushing /\ UNCHANGED <<cur, undone>> /\ faults' \in {faults, faults + 1}
      /\ info' \in {info, [info EXCEPT ![cur] = Entry(@)]}
      /\ buf' \in {buf, <<>>} /\ file' \in {file, Closed} /\ at' \in {"head", "take"}
  BY FlushOpen DEF EnterFile, Flushing, NoFault, Fault, NextWrite, FlushFails, Flushed, GoOn, EndTurn
<1>2. cur \in Box /\ Entry(info[cur]).n = file.n
  BY <1>1, FlushOpen DEF Entry
<1>3. info \in [Box -> [status : {"unused", "used", "full"}, n : Nat, mask : SUBSET Chn]]
  BY DEF JInv, Data
<1>4. info'[cur].n \in {info[cur].n, file.n} /\ \A b \in Box : b # cur => info'[b] = info[b]
  BY <1>1, <1>2, <1>3
<1>5. \A b \in Box : info'[b].n <= PicNums - 1 + undone
  BY <1>2, <1>4 DEF Filled
<1>6. ASSUME NEW b \in Box, b > cur  PROVE info'[b].n <= PicNums - 2 + undone
  <2>1. b # cur
    BY <1>2, <1>6, Sizes
  <2> QED  BY <1>4, <1>6, <2>1 DEF Filled
<1>7. file'.n <= PicNums - 1 + undone
  BY <1>1, ClosedFills DEF Filled
<1>8. \A i \in 1..Len(buf') : buf'[i].place <= PicNums - 2 + undone
  BY <1>1 DEF Filled
<1>9. undone \in Nat /\ undone <= faults' /\ faults' \in Nat
  BY <1>1 DEF Filled
<1> QED  BY <1>1, <1>5, <1>6, <1>7, <1>8, <1>9 DEF Filled

\* The container that a full one gives way to has not been come to yet.
LEMMA EnterHeaderFilled == ASSUME IInv, JInv, Filled, EnterHeader PROVE Filled'
<1>1. /\ at \in Flushing /\ UNCHANGED <<undone, info>> /\ faults' \in {faults, faults + 1}
      /\ buf' \in {buf, <<>>} /\ file' \in {file, Closed} /\ at' \in {"new", "late", "take"}
      /\ cur' \in {cur, cur + 1}
      /\ at' = "new" => cur' = cur + 1
  BY FlushOpen DEF EnterHeader, Flushing, NoFault, Fault, FlushFails, Flushed, GoOn, EndTurn
<1>2. cur \in Box
  BY <1>1, FlushOpen
<1>3. cur <= cur' /\ cur' \in 0..FileNums
  BY <1>1, <1>2, Sizes
<1>4. at' = "new" /\ cur' \in Box => info[cur'].n <= PicNums - 2 + undone
  <2>1. at' = "new" => cur' > cur
    BY <1>1, <1>2, Sizes
  <2> QED  BY <2>1 DEF Filled
<1>5. file'.n <= PicNums - 1 + undone
  BY <1>1, ClosedFills DEF Filled
<1> QED  BY <1>1, <1>3, <1>4, <1>5, FilledRests

LEMMA TurnFilled ==
  ASSUME IInv, JInv, Filled,
         Take \/ Hear \/ Store \/ StoreFails \/ Half \/ Late \/ Sync \/ EnterPics
  PROVE  Filled'
<1>1. /\ UNCHANGED <<cur, info, undone>> /\ faults' \in {faults, faults + 1}
      /\ cur \in 0..FileNums /\ cur <= cur
  <2>1. cur \in 0..FileNums
    BY DEF JInv, Data
  <2> QED
    BY <2>1, Sizes DEF Take, Hear, Store, StoreFails, Half, Late, Sync, EnterPics, work, index,
       limits, NoFault, Fault
<1>2. /\ buf' \in {buf, <<>>} /\ file' \in {file, Closed}
  BY DEF Take, Hear, Dispatch, Close, Quiet, Store, StoreFails, Half, Late, Sync, EnterPics,
         FlushFails, Flushed, NextWrite, work
<1>3. at' = "new" => how' = "start"
  <2>1. CASE Take \/ Store \/ StoreFails \/ Half \/ Late
    BY <2>1 DEF Take, Store, StoreFails, Half, Late, GoOn, EndTurn
  <2>2. CASE Hear
    BY <2>2 DEF Hear, Dispatch, GoOn, EndTurn
  <2>3. CASE Sync
    BY <2>3 DEF Sync, NextWrite, Flushed, GoOn, EndTurn
  <2>4. CASE EnterPics
    BY <2>4 DEF EnterPics, NextWrite, FlushFails, Flushed, GoOn, EndTurn
  <2> QED  BY <2>1, <2>2, <2>3, <2>4
<1>4. at' = "write" => Store /\ ~Full
  <2>1. CASE Take \/ StoreFails \/ Half \/ Late
    BY <2>1 DEF Take, StoreFails, Half, Late, GoOn, EndTurn
  <2>2. CASE Hear
    BY <2>2 DEF Hear, Dispatch, GoOn, EndTurn
  <2>3. CASE Sync
    BY <2>3 DEF Sync, NextWrite, Flushed, GoOn, EndTurn
  <2>4. CASE EnterPics
    BY <2>4 DEF EnterPics, NextWrite, FlushFails, Flushed, GoOn, EndTurn
  <2>5. CASE Store
    BY <2>5 DEF Store, GoOn
  <2> QED  BY <2>1, <2>2, <2>3, <2>4, <2>5
<1>5. at' = "write" => file'.n <= PicNums - 2 + undone
  <2>1. ASSUME at' = "write"  PROVE file'.n <= PicNums - 2 + undone
    <3>1. file' = file /\ ~(file.n + 1 >= PicNums)
      BY <1>4, <2>1 DEF Store, Full, work
    <3>2. file.n \in Nat /\ undone \in Nat /\ PicNums \in Nat
      BY Parts, Sizes DEF JInv, Data
    <3> QED  BY <3>1, <3>2
  <2> QED  BY <2>1
<1>6. file'.n <= PicNums - 1 + undone
  BY <1>2, ClosedFills DEF Filled
<1> QED  BY <1>1, <1>2, <1>3, <1>5, <1>6, FilledRests

LEMMA NextFilled == IInv /\ JInv /\ Filled /\ [Next]_vars => Filled'
<1> SUFFICES ASSUME IInv, JInv, Filled, [Next]_vars PROVE Filled'
  OBVIOUS
<1> QED
  BY AsideFilled, FormatFilled, RollbackFilled, OpenFilled, WriteFilled, EnterFileFilled,
     EnterHeaderFilled, TurnFilled
     DEF Next, Thread

LEMMA AllAlways == Spec => [](IInv /\ JInv /\ Filled)
<1>1. Init => IInv /\ JInv /\ Filled
  BY InitIInv, InitJInv, InitFilled
<1>2. IInv /\ JInv /\ Filled /\ [Next]_vars => (IInv /\ JInv /\ Filled)'
  BY NextIInv, NextJInv, NextFilled
<1> QED  BY <1>1, <1>2, PTL DEF Spec

(***************************************************************************)
(* For any containers, pictures, causes, faults and crashes: what a search  *)
(* shows of a container is stored in it, and its mask leads there, unless   *)
(* two of the faults kept an index that was used up.                        *)
(***************************************************************************)
THEOREM IndexedIsStoredAlways == Spec => []IndexedIsStored
<1>1. JInv => IndexedIsStored
  BY DEF JInv, Indexed, IndexedIsStored, Shown
<1> QED  BY <1>1, AllAlways, PTL

\* What the step may do to the index: it moves on, and its entries grow.
LEMMA IndexGrows ==
  ASSUME IInv, JInv, Filled, [Next]_vars, ~Rollback, ~Format
  PROVE  /\ cur <= cur'
         /\ \A b \in Box : info[b].n <= info'[b].n
         /\ undone <= 1 => \A b \in Box, k \in Place :
              k < info[b].n => pinfo'[b][k] = pinfo[b][k]
<1>1. cur \in Nat /\ dcur \in Nat /\ cur <= dcur /\ \A b \in Box : info[b].n \in Nat
  <2>1. cur \in 0..FileNums /\ dcur \in 0..FileNums
    BY DEF JInv, Data
  <2> QED  BY <2>1, Sizes, Parts DEF JInv
<1>2. CASE UNCHANGED <<cur, info, pinfo>>
  BY <1>1, <1>2
<1>3. CASE Reload \/ Crash \/ WildClose
  <2>1. cur' = dcur /\ UNCHANGED <<info, pinfo>>
    BY <1>3 DEF Reload, Crash, WildClose, GoesDown, index
  <2> QED  BY <1>1, <2>1
<1>4. CASE OpenNew \/ OpenFails
  <2>1. /\ cur < FileNums /\ UNCHANGED <<cur, pinfo, bytes, undone>>
        /\ info' \in {info, [info EXCEPT ![cur] = Begun(@)]}
    BY <1>4 DEF OpenNew, OpenFails, stored
  <2>2. cur \in Box
    BY <1>1, <2>1, Sizes
  <2>3. \A b \in Box : info'[b].n = info[b].n
    BY <2>1, <2>2, BegunShows DEF JInv
  <2> QED  BY <1>1, <2>1, <2>3
<1>5. CASE EnterPics
  <2>1. UNCHANGED <<cur, info>>
    BY <1>5 DEF EnterPics
  <2> QED  BY <1>1, <1>5, <2>1, EnterPicsKeeps
<1>6. CASE EnterFile
  <2>1. /\ at \in Flushing /\ UNCHANGED <<cur, pinfo>>
        /\ info' \in {info, [info EXCEPT ![cur] = Entry(@)]}
    BY <1>6 DEF EnterFile, Flushing
  <2>2. info[cur].n <= file.n /\ cur \in Box /\ Entry(info[cur]).n = file.n
    BY <2>1, FlushOpen DEF Entry
  <2>3. info'[cur].n \in {info[cur].n, file.n} /\ \A b \in Box : b # cur => info'[b] = info[b]
    <3>1. info \in [Box -> [status : {"unused", "used", "full"}, n : Nat, mask : SUBSET Chn]]
      BY DEF JInv, Data
    <3> QED  BY <2>1, <2>2, <3>1
  <2>4. ASSUME NEW b \in Box  PROVE info[b].n <= info'[b].n
    <3>1. CASE b = cur
      BY <1>1, <2>2, <2>3, <3>1
    <3>2. CASE b # cur
      BY <1>1, <2>3, <3>2
    <3> QED  BY <3>1, <3>2
  <2> QED  BY <1>1, <2>1, <2>4
<1>7. CASE EnterHeader
  <2>1. cur' \in {cur, cur + 1} /\ UNCHANGED <<info, pinfo>>
    BY <1>7 DEF EnterHeader
  <2> QED  BY <1>1, <2>1
<1>8. CASE Put \/ Drop \/ UNCHANGED vars \/ \E c \in Causes : Pause(c) \/ Resume(c)
  <2>1. UNCHANGED <<cur, info, pinfo>>
    BY <1>8 DEF Put, Drop, Pause, Resume, vars, work, index
  <2> QED  BY <1>2, <2>1
<1>9. CASE Take \/ Hear \/ Store \/ Write \/ StoreFails \/ Half \/ Late \/ Sync
  <2>1. UNCHANGED <<cur, info, pinfo>>
    BY <1>9 DEF Take, Hear, Store, Write, StoreFails, Half, Late, Sync, work, index
  <2> QED  BY <1>2, <2>1
<1> QED
  BY <1>3, <1>4, <1>5, <1>6, <1>7, <1>8, <1>9 DEF Next, Thread

(***************************************************************************)
(* For any containers, pictures, causes, faults and crashes: what a search  *)
(* shows stays, until the disk is formatted or its containers are used up   *)
(* (unless two of the faults kept an index that was used up).               *)
(***************************************************************************)
THEOREM IndexedStaysAlways == Spec => IndexedStays
<1>1. ASSUME IInv, JInv, Filled, [Next]_vars, NEW b \in Box, NEW k \in Place,
             undone <= 1, Shown(b, k), "format" \notin asked, ~(at = "new" /\ cur = FileNums)
      PROVE  Shown(b, k)' /\ pinfo'[b][k] = pinfo[b][k]
  <2>1. ~Rollback /\ ~Format
    BY <1>1 DEF Rollback, Format, Heard
  <2>2. /\ cur <= cur'
        /\ info[b].n <= info'[b].n /\ pinfo'[b][k] = pinfo[b][k]
    BY <1>1, <2>1, IndexGrows DEF Shown
  <2>3. b \in Nat /\ k \in Nat /\ cur \in Nat /\ info[b].n \in Nat
    <3>1. b \in Nat /\ k \in Nat
      BY Sizes
    <3>2. cur \in 0..FileNums
      BY <1>1 DEF JInv, Data
    <3>3. Data
      BY <1>1 DEF JInv
    <3>4. info[b].n \in Nat
      BY <3>3, Parts
    <3>5. cur \in Nat
      BY <3>2, Sizes
    <3> QED  BY <3>1, <3>4, <3>5
  <2>4. cur' \in Nat /\ info'[b].n \in Nat
    <3>1. JInv'
      BY <1>1, NextJInv
    <3>2. cur' \in 0..FileNums
      BY <3>1 DEF JInv, Data
    <3>3. info'[b].n \in Nat
      BY <3>1 DEF JInv, Data
    <3> QED  BY <3>2, <3>3, Sizes
  <2> QED  BY <1>1, <2>2, <2>3, <2>4 DEF Shown
<1>2. IInv /\ JInv /\ Filled /\ [Next]_vars =>
        [\A b \in Box, k \in Place :
           /\ undone <= 1 /\ Shown(b, k)
           /\ "format" \notin asked /\ ~(at = "new" /\ cur = FileNums)
           => Shown(b, k)' /\ pinfo'[b][k] = pinfo[b][k]]_vars
  BY <1>1
<1> QED  BY <1>2, AllAlways, PTL DEF IndexedStays, Spec
---------------------------------------------------------------------------
(* The other ranges, and the room in PicInfoBuf.                            *)

Hows  == {"none", "start", "full", "half", "late", "stop", "rst"}
Stats == {"willStart", "start", "run", "stop", "idle", "rst"}

Ranges ==
  /\ pics \in Seq(1..MaxPics) /\ Len(pics) <= RingPics /\ made \in 0..MaxPics
  /\ flags \subseteq Causes /\ present \in BOOLEAN /\ pic \in 0..MaxPics
  /\ how \in Hows /\ status \in Stats /\ crashes \in Nat
  /\ \A i \in 1..Len(buf) : buf[i].pic \in 1..MaxPics

\* Whenever a picture may be stored next, at most half of PicInfoBuf is taken.
Roomy ==
  /\ Len(buf) <= BufTotal
  /\ \/ at \in {"store", "write", "late"}
     \/ at \in {"take", "hear"} /\ status = "run"
     => (Len(buf) * 100) \div BufTotal <= 50

LEMMA HalfIsRoom ==
  ASSUME NEW n \in Nat, NEW t \in Nat \ {0}, (n * 100) \div t <= 50
  PROVE  n + 1 <= t
<1> DEFINE d == (n * 100) \div t
<1>1. d \in Int /\ n * 100 < (d + 1) * t
  OBVIOUS
<1>2. d <= 50
  OBVIOUS
<1> HIDE DEF d
<1>3. (d + 1) * t <= 51 * t
  BY <1>1, <1>2
<1>4. n * 100 < 51 * t
  <2>1. (d + 1) * t \in Int /\ 51 * t \in Int
    BY <1>1
  <2> QED  BY <1>1, <1>3, <2>1
<1> QED  BY <1>4

LEMMA EmptyIsRoom == (0 * 100) \div BufTotal <= 50 /\ 0 <= BufTotal
<1>1. BufTotal \in Nat \ {0}
  BY SnapAssumption
<1> QED  BY <1>1

LEMMA InitRanges == Init => Ranges /\ Roomy
<1> SUFFICES ASSUME Init PROVE Ranges /\ Roomy
  OBVIOUS
<1>1. MaxPics \in Nat /\ RingPics \in Nat
  BY SnapAssumption
<1>2. Ranges
  BY <1>1 DEF Init, Ranges, Hows, Stats, NoPic
<1>3. Roomy
  BY EmptyIsRoom DEF Init, Roomy
<1> QED  BY <1>2, <1>3

\* The ring.
LEMMA RingRanges ==
  ASSUME Ranges, [Next]_vars
  PROVE  pics' \in Seq(1..MaxPics) /\ Len(pics') <= RingPics /\ made' \in 0..MaxPics
<1>1. /\ pics \in Seq(1..MaxPics) /\ Len(pics) <= RingPics /\ made \in 0..MaxPics
      /\ MaxPics \in Nat /\ RingPics \in Nat
  BY SnapAssumption DEF Ranges
<1>2. CASE Put
  <2>1. made' = made + 1 /\ pics' = Append(pics, made') /\ Len(pics) < RingPics /\ made < MaxPics
    BY <1>2 DEF Put
  <2>2. made' \in 1..MaxPics
    BY <1>1, <2>1
  <2> QED  BY <1>1, <2>1, <2>2
<1>3. CASE Drop \/ Crash \/ WildClose
  <2>1. pics' = <<>> /\ made' = made
    BY <1>3 DEF Drop, Crash, WildClose, GoesDown
  <2> QED  BY <1>1, <2>1
<1>4. CASE Take
  <2>1. made' = made /\ pics' \in {pics, Tail(pics)} /\ (pics = <<>> => pics' = pics)
    BY <1>4 DEF Take
  <2>2. CASE pics # <<>> /\ pics' = Tail(pics)
    BY <1>1, <2>1, <2>2
  <2> QED  BY <1>1, <2>1, <2>2
<1>5. CASE UNCHANGED ring
  BY <1>1, <1>5 DEF ring
<1>6. \/ Put \/ Drop \/ Crash \/ WildClose \/ Take \/ UNCHANGED ring
  BY DEF Next, Thread, vars, Reload, Format, Pause, Resume, Hear, Rollback, OpenNew, OpenFails,
         Store, Write, StoreFails, Half, Late, Sync, EnterPics, EnterFile, EnterHeader, ring
<1> QED  BY <1>2, <1>3, <1>4, <1>5, <1>6

\* Flags, disks and crashes.
LEMMA AskingRanges ==
  ASSUME IInv, Ranges, [Next]_vars
  PROVE  flags' \subseteq Causes /\ present' \in BOOLEAN /\ crashes' \in Nat
<1>1. flags \subseteq Causes /\ present \in BOOLEAN /\ crashes \in Nat
  BY DEF Ranges
<1>2. CASE Reload \/ Crash \/ WildClose
  <2>1. CASE Reload
    BY <1>1, <2>1 DEF Reload, limits
  <2>2. CASE Crash \/ WildClose
    BY <1>1, <2>2 DEF Crash, WildClose, GoesDown
  <2> QED  BY <1>2, <2>1, <2>2
<1>3. CASE Hear
  <2>1. present' = present /\ crashes' = crashes
    BY <1>3 DEF Hear, limits
  <2>2. CASE smsgs = <<>>
    BY <1>1, <1>3, <2>1, <2>2 DEF Hear
  <2>3. CASE smsgs # <<>>
    <3>1. Head(smsgs)[2] \in Causes /\ flags' = Flagged(Head(smsgs))
      BY <1>3, <2>3, StartIsAwaited DEF Hear, IInv
    <3> QED  BY <1>1, <2>1, <3>1 DEF Flagged
  <2> QED  BY <2>2, <2>3
<1>4. CASE ~Reload /\ ~Crash /\ ~WildClose /\ ~Hear
  <2>1. UNCHANGED <<flags, present, crashes>>
    BY <1>4 DEF Next, Thread, vars, Put, Drop, Format, Pause, Resume, Take, Rollback, OpenNew,
       OpenFails, Store, Write, StoreFails, Half, Late, Sync, EnterPics, EnterFile, EnterHeader,
       asking, work, limits
  <2> QED  BY <1>1, <2>1
<1> QED  BY <1>2, <1>3, <1>4

\* Where the thread is.
LEMMA TurnRanges ==
  ASSUME IInv, Ranges, [Next]_vars
  PROVE  how' \in Hows /\ status' \in Stats /\ pic' \in 0..MaxPics
<1>1. /\ how \in Hows /\ status \in Stats /\ pic \in 0..MaxPics /\ 0 \in 0..MaxPics
  BY SnapAssumption DEF Ranges
<1> USE DEF Hows, Stats
<1>2. CASE Take
  <2>1. how' = how /\ status' = status /\ (pics = <<>> \/ pic' = Head(pics))
        /\ (pics = <<>> => pic' = pic)
    BY <1>2 DEF Take
  <2>2. pics # <<>> => Head(pics) \in 1..MaxPics
    <3> DEFINE S == 1..MaxPics
    <3>1. pics \in Seq(S)
      BY DEF Ranges
    <3> HIDE DEF S
    <3>2. pics # <<>> => Head(pics) \in S
      BY <3>1
    <3> QED  BY <3>2 DEF S
  <2>3. pic' \in 0..MaxPics
    BY <1>1, <2>1, <2>2
  <2> QED  BY <1>1, <2>1, <2>3
<1>3. CASE Hear
  <2>1. ASSUME NEW st \in Stats, NEW fl, Dispatch(st, fl)
        PROVE  how' \in Hows /\ status' \in Stats /\ pic' \in {pic, 0}
    BY <1>1, <2>1 DEF Dispatch, EndTurn, GoOn, NoPic
  <2>2. CASE smsgs = <<>>
    BY <1>1, <1>3, <2>1, <2>2 DEF Hear
  <2>3. CASE smsgs # <<>>
    <3>1. Head(smsgs)[1] \in Kind /\ Dispatch(Told(Head(smsgs)), Flagged(Head(smsgs)))
      BY <1>3, <2>3, StartIsAwaited DEF Hear, IInv
    <3>2. Told(Head(smsgs)) \in Stats
      BY <1>1, <3>1 DEF Told, Kind
    <3> QED  BY <1>1, <2>1, <3>1, <3>2
  <2> QED  BY <2>2, <2>3
<1>4. CASE UNCHANGED turn
  BY <1>1, <1>4 DEF turn
<1>5. CASE OpenNew \/ OpenFails
  BY <1>1, <1>5 DEF OpenNew, OpenFails, GoOn, EndTurn, NoPic
<1>6. CASE Store \/ Write \/ StoreFails \/ Half \/ Late
  BY <1>1, <1>6 DEF Store, Write, StoreFails, Half, Late, GoOn, EndTurn, NoPic
<1>7. CASE Flushed \/ FlushFails
  BY <1>1, <1>7 DEF Flushed, FlushFails, GoOn, EndTurn, NoPic
<1>8. ASSUME NEW where, NextWrite(where)  PROVE how' \in Hows /\ status' \in Stats /\ pic' \in 0..MaxPics
  BY <1>1, <1>8 DEF NextWrite, GoOn
<1>9. CASE Sync \/ EnterPics \/ EnterFile \/ EnterHeader
  <2>1. Flushed \/ FlushFails \/ NextWrite("pics") \/ NextWrite("info") \/ NextWrite("head")
    BY <1>9 DEF Sync, EnterPics, EnterFile, EnterHeader
  <2> QED  BY <1>7, <1>8, <2>1
<1>10. CASE Crash \/ WildClose
  BY <1>1, <1>10 DEF Crash, WildClose, GoesDown, NoPic
<1>11. CASE Put \/ Drop \/ Reload \/ Format \/ Rollback \/ UNCHANGED vars
            \/ \E c \in Causes : Pause(c) \/ Resume(c)
  BY <1>4, <1>11 DEF Put, Drop, Reload, Format, Rollback, Pause, Resume, vars
<1> QED
  BY <1>2, <1>3, <1>5, <1>6, <1>9, <1>10, <1>11 DEF Next, Thread

\* Besides a picture that is written, PicInfoBuf is only emptied.
LEMMA BufMoves ==
  ASSUME [Next]_vars, ~Write
  PROVE  buf' \in {buf, <<>>}
<1>1. CASE Sync \/ EnterPics \/ EnterFile \/ EnterHeader
  BY <1>1 DEF Sync, EnterPics, EnterFile, EnterHeader, NextWrite, Flushed, FlushFails
<1>2. CASE Thread /\ ~(Sync \/ EnterPics \/ EnterFile \/ EnterHeader)
  BY <1>2 DEF Thread, Take, Hear, WildClose, GoesDown, Rollback, OpenNew, OpenFails, Store,
     StoreFails, Half, Late, work
<1>3. CASE ~Thread
  BY <1>3 DEF Next, vars, Put, Drop, Reload, Format, Pause, Resume, Crash, GoesDown, work
<1> QED  BY <1>1, <1>2, <1>3

\* A picture that is written becomes the last entry.
LEMMA WriteAppends ==
  ASSUME JInv, Write
  PROVE  /\ buf' = Append(buf, PicInfo) /\ PicInfo.pic = pic /\ Len(buf') = Len(buf) + 1
         /\ Len(buf) \in Nat /\ buf'[Len(buf) + 1] = PicInfo
         /\ \A i \in 1..Len(buf) : buf'[i] = buf[i]
<1>1. /\ buf \in Seq([box : Box, place : Nat, pic : APic]) /\ buf' = Append(buf, PicInfo)
  BY DEF JInv, Data, Write
<1>2. PicInfo.pic = pic
  BY DEF PicInfo
<1> QED  BY <1>1, <1>2

LEMMA NextRanges == ASSUME IInv, JInv, Ranges, [Next]_vars PROVE Ranges'
<1>1. \A i \in 1..Len(buf') : buf'[i].pic \in 1..MaxPics
  <2>1. \A i \in 1..Len(buf) : buf[i].pic \in 1..MaxPics
    BY DEF Ranges
  <2>2. CASE Write
    <3>1. pic \in 1..MaxPics
      BY <2>2 DEF Write, JInv, Course, Ranges, NoPic
    <3>2. ASSUME NEW i \in 1..Len(buf')  PROVE buf'[i].pic \in 1..MaxPics
      <4>1. i \in 1..Len(buf) \/ i = Len(buf) + 1
        BY <2>2, WriteAppends
      <4> QED  BY <2>1, <2>2, <3>1, <4>1, WriteAppends
    <3> QED  BY <3>2
  <2>3. CASE ~Write
    BY <2>1, <2>3, BufMoves
  <2> QED  BY <2>2, <2>3
<1> QED  BY <1>1, RingRanges, AskingRanges, TurnRanges DEF Ranges

\* The flush of a PicInfoBuf that is more than half full comes before the next picture.
LEMMA NextRoomy == ASSUME IInv, JInv, Roomy, [Next]_vars PROVE Roomy'
<1>1. Len(buf) \in Nat /\ BufTotal \in Nat \ {0} /\ Len(buf) <= BufTotal
  BY BufParts, SnapAssumption DEF JInv, Roomy
<1>2. CASE buf' = <<>>
  BY <1>2, EmptyIsRoom DEF Roomy
<1>3. CASE Write
  <2>1. at = "write" /\ at' = "half"
    BY <1>3 DEF Write, GoOn
  <2>2. Len(buf) + 1 <= BufTotal
    BY <1>1, <2>1, HalfIsRoom DEF Roomy
  <2> QED  BY <1>3, <2>1, <2>2, WriteAppends DEF Roomy
<1>4. CASE buf' = buf
  <2> SUFFICES ASSUME \/ at' \in {"store", "write", "late"}
                      \/ at' \in {"take", "hear"} /\ status' = "run"
               PROVE  (Len(buf) * 100) \div BufTotal <= 50
    BY <1>1, <1>4 DEF Roomy
  <2>1. CASE \/ at \in {"store", "write", "late"}
             \/ at \in {"take", "hear"} /\ status = "run"
    BY <2>1 DEF Roomy
  <2>2. CASE Half
    <3>1. ~((Len(buf) * 100) \div BufTotal > 50)
      BY <2>2 DEF Half, GoOn
    <3>2. (Len(buf) * 100) \div BufTotal \in Int
      BY <1>1
    <3> QED  BY <3>1, <3>2
  <2>3. CASE Hear
    <3>1. status' = "run" /\ at' = "store"
      BY <2>3 DEF Hear, Dispatch, GoOn, EndTurn
    <3>2. smsgs # <<>> => Head(smsgs)[1] \in Kind
      BY StartIsAwaited DEF IInv
    <3>3. at = "hear" /\ status = "run"
      BY <2>3, <3>1, <3>2 DEF Hear, Dispatch, GoOn, EndTurn, Told, Kind
    <3> QED  BY <2>1, <3>3
  <2>4. CASE OpenNew
    <3>1. how = "start" \/ buf = <<>>
      BY <2>4 DEF OpenNew, IInv, Turn, JInv, Course
    <3>2. buf = <<>>
      BY <1>4, <2>4, <3>1 DEF OpenNew
    <3> QED  BY <1>2, <3>2, EmptyIsRoom
  <2>5. CASE Take \/ Store \/ StoreFails \/ Late
    <3>1. \/ at \in {"store", "write", "late"}
          \/ at = "take" /\ status = "run"
      BY <2>5 DEF Take, Store, StoreFails, Late, GoOn, EndTurn
    <3> QED  BY <2>1, <3>1
  <2>6. CASE OpenFails \/ Crash \/ WildClose \/ Rollback
    <3>1. /\ at' \notin {"store", "write", "late"}
          /\ at' \in {"take", "hear"} => status' # "run"
      BY <2>6 DEF OpenFails, Crash, WildClose, GoesDown, Rollback, EndTurn, turn
    <3> QED  BY <3>1
  <2>7. CASE Sync \/ EnterPics \/ EnterFile \/ EnterHeader
    <3>1. NextWrite("pics") \/ NextWrite("info") \/ NextWrite("head") \/ buf' = <<>>
      BY <2>7 DEF Sync, EnterPics, EnterFile, EnterHeader, Flushed, FlushFails
    <3>2. CASE buf' = <<>>
      BY <1>4, <3>2, EmptyIsRoom
    <3>3. CASE buf' # <<>>
      BY <3>1, <3>3 DEF NextWrite, GoOn
    <3> QED  BY <3>2, <3>3
  <2>8. CASE Put \/ Drop \/ Reload \/ Format \/ UNCHANGED vars
             \/ \E c \in Causes : Pause(c) \/ Resume(c)
    <3>1. UNCHANGED turn
      BY <2>8 DEF Put, Drop, Reload, Format, vars, Pause, Resume
    <3> QED  BY <2>1, <3>1 DEF turn
  <2>9. CASE Write
    BY <2>1, <2>9 DEF Write
  <2> QED
    BY <2>2, <2>3, <2>4, <2>5, <2>6, <2>7, <2>8, <2>9 DEF Next, Thread
<1> QED  BY <1>2, <1>3, <1>4, BufMoves

\* KInv: all the bounds.
KInv == IInv /\ JInv /\ Filled /\ Ranges /\ Roomy

LEMMA KInvAlways == Spec => []KInv
<1>1. Init => KInv
  BY InitIInv, InitJInv, InitFilled, InitRanges DEF KInv
<1>2. KInv /\ [Next]_vars => KInv'
  BY NextIInv, NextJInv, NextFilled, NextRanges, NextRoomy DEF KInv
<1> QED  BY <1>1, <1>2, PTL DEF Spec

(***************************************************************************)
(* For any causes, containers, ring, PicInfoBuf, faults and crashes: the    *)
(* types, and among them that PicInfoBuf is never overrun, and a container  *)
(* by at most a picture for each index that could not be emptied but one.   *)
(***************************************************************************)
THEOREM TypeCorrect == Spec => []TypeOK
<1>1. KInv => TypeOK
  <2> SUFFICES ASSUME KInv PROVE TypeOK
    OBVIOUS
  <2>1. /\ pics \in Seq(1..MaxPics) /\ Len(pics) <= RingPics /\ made \in 0..MaxPics
        /\ flags \subseteq Causes /\ present \in BOOLEAN /\ pic \in 0..MaxPics
        /\ how \in Hows /\ status \in Stats /\ Len(buf) <= BufTotal
    BY DEF KInv, Ranges, Roomy
  <2>2. /\ smsgs \in Seq({"stop", "willStart"} \X Causes) /\ asked \subseteq Causes
        /\ at \in {"take", "hear", "new", "store", "write", "half", "late",
                   "sync", "pics", "info", "head"}
    BY DEF KInv, IInv, Asking, Kind, Turn, Flushing
  <2>3. cur \in 0..FileNums /\ dcur \in 0..FileNums /\ PicNums - 1 + undone \in Nat
        /\ PicNums - 2 + undone \in Nat
    BY SnapAssumption DEF KInv, JInv, Data
  <2>4. file.n \in 0..PicNums - 1 + undone
    BY <2>3, Parts DEF KInv, JInv, Filled
  <2>5. \A b \in Box : info[b].n \in 0..PicNums - 1 + undone
    BY <2>3, Parts DEF KInv, JInv, Filled
  <2>6. ASSUME NEW i \in 1..Len(buf)
        PROVE  buf[i].box \in Box /\ buf[i].place \in 0..PicNums - 2 + undone
    <3>1. buf[i].box \in Box /\ buf[i].place \in Nat /\ buf[i].place <= PicNums - 2 + undone
      BY BufParts DEF KInv, JInv, Filled
    <3> QED  BY <2>3, <3>1
  <2> QED  BY <2>1, <2>2, <2>3, <2>4, <2>5, <2>6 DEF TypeOK, Hows, Stats
<1> QED  BY <1>1, KInvAlways, PTL
---------------------------------------------------------------------------
(* Nothing is lost.                                                         *)

\* While nothing fails, PicInfoBuf is left with entries only in the middle of the
\* thread's work, and what a flush has entered is in the index before it is emptied.
Covered ==
  faults = 0 /\ crashes = 0 =>
    /\ \A p \in written : p \in InEntries(info) \/ \E i \in 1..Len(buf) : buf[i].pic = p
    /\ ~Working => buf = <<>>
    /\ at = "head" => \A i \in 1..Len(buf) : buf[i].pic \in InEntries(info)

LEMMA InitCovered == Init => Covered
BY DEF Init, Covered

LEMMA EntriesGrow ==
  ASSUME KInv, [Next]_vars, undone = 0, ~Rollback, ~Format, NEW p \in InEntries(info)
  PROVE  p \in InEntries(info)'
<1>1. PICK b \in Box, k \in Place : k < info[b].n /\ pinfo[b][k] = p
  BY DEF InEntries
<1>2. info[b].n <= info'[b].n /\ pinfo'[b][k] = pinfo[b][k]
  BY <1>1, IndexGrows DEF KInv
<1>3. info[b].n \in Nat /\ info'[b].n \in Nat /\ k \in Nat
  <2>1. Data /\ Data'
    BY NextJInv DEF KInv, JInv
  <2>2. info[b].n \in Nat
    BY <2>1, Parts
  <2>3. info'[b].n \in Nat
    BY <2>1 DEF Data
  <2> QED  BY <2>2, <2>3, Sizes
<1>4. k < info'[b].n
  BY <1>1, <1>2, <1>3
<1>5. p \in 1..MaxPics
  BY DEF InEntries
<1> QED  BY <1>1, <1>2, <1>4, <1>5 DEF InEntries

\* The file entry is written: all of PicInfoBuf is in the index.
LEMMA EntersAll ==
  ASSUME KInv, [Next]_vars, undone = 0, EnterFile, NoFault, NEW i \in 1..Len(buf)
  PROVE  buf[i].pic \in InEntries(info)'
<1>1. /\ at = "info" /\ info' = [info EXCEPT ![cur] = Entry(@)] /\ pinfo' = pinfo
      /\ cur \in Box /\ file.n \in Nat /\ info[cur].n \in Nat
  <2>1. faults \in Nat /\ faults' = faults
    BY DEF KInv, Filled, NoFault
  <2> QED  BY <2>1, FlushOpen DEF EnterFile, Fault, Flushing, KInv
<1>2. /\ Len(buf) = file.n - info[cur].n /\ buf[i].place = info[cur].n + i - 1
      /\ buf[i].place \in Place => pinfo[cur][buf[i].place] = buf[i].pic
  BY <1>1 DEF KInv, JInv, Aligned, Synchronised, Working, Flushing
<1>3. buf[i].place \in Place
  <2>1. buf[i].place \in Nat /\ buf[i].place <= PicNums - 2
    <3>1. buf[i].place \in Nat /\ buf[i].place <= PicNums - 2 + undone
      BY BufParts DEF KInv, JInv, Filled
    <3> QED  BY <3>1, Sizes
  <2> QED  BY <2>1, Sizes
<1>4. buf[i].place < info'[cur].n
  <2>1. info'[cur].n = file.n
    BY <1>1 DEF KInv, JInv, Data, Entry
  <2> QED  BY <1>1, <1>2, <2>1
<1>5. buf[i].pic \in 1..MaxPics
  BY DEF KInv, Ranges
<1> QED  BY <1>1, <1>2, <1>3, <1>4, <1>5 DEF InEntries

\* The thread does not leave its work but by a flush.
LEMMA WorkGoesOn ==
  ASSUME KInv, Hear \/ Take \/ Store \/ Half \/ Late, Working
  PROVE  Working'
<1>1. CASE Hear
  <2>1. at = "hear" /\ status = "run" /\ pre = "run" /\ flags = {}
    BY <1>1 DEF Hear, Working, Flushing, KInv, JInv, Course, IInv, Between
  <2>2. smsgs # <<>> => Head(smsgs)[1] = "stop"
    BY <2>1, StartIsAwaited DEF KInv, IInv, Kind
  <2>3. Dispatch("run", flags) \/ \E fl : Dispatch("stop", fl)
    BY <1>1, <2>1, <2>2 DEF Hear, Told
  <2> QED  BY <2>1, <2>3 DEF Dispatch, GoOn, Working, Flushing
<1>2. CASE Late
  <2>1. status = "run" /\ status' = status
    BY <1>2 DEF Late, KInv, IInv, Turn
  <2> QED  BY <1>2, <2>1 DEF Late, GoOn, EndTurn, Working, Flushing
<1>3. CASE Take \/ Store \/ Half
  BY <1>3 DEF Take, Store, Half, GoOn, Working, Flushing
<1> QED  BY <1>1, <1>2, <1>3

LEMMA NextCovered == ASSUME KInv, Covered, [Next]_vars PROVE Covered'
<1> SUFFICES ASSUME faults' = 0, crashes' = 0
    PROVE  /\ \A p \in written' : \/ p \in InEntries(info)'
                                  \/ \E i \in 1..Len(buf') : buf'[i].pic = p
           /\ ~Working' => buf' = <<>>
           /\ at' = "head" => \A i \in 1..Len(buf') : buf'[i].pic \in InEntries(info)'
  BY DEF Covered
<1>1. /\ faults \in Nat /\ crashes \in Nat /\ undone \in Nat /\ undone <= faults
  BY DEF KInv, Filled, Ranges
<1>2. ~Fault /\ ~Crash
  BY <1>1 DEF Fault, Crash
<1>3. faults = 0 /\ crashes = 0
  <2>1. CASE Thread
    <3>1. crashes' = crashes
      BY <2>1 DEF Thread, Take, Hear, WildClose, Rollback, OpenNew, OpenFails, Store, Write,
         StoreFails, Half, Late, Sync, EnterPics, EnterFile, EnterHeader, limits
    <3>2. NoFault \/ faults' = faults
      BY <1>2, <2>1 DEF Thread, Take, Hear, WildClose, GoesDown, Rollback, OpenNew, OpenFails,
         Store, Write, StoreFails, Half, Late, Sync, EnterPics, EnterFile, EnterHeader, limits
    <3> QED  BY <3>1, <3>2 DEF NoFault
  <2>2. CASE ~Thread
    <3>1. faults' = faults /\ crashes' = crashes
      BY <1>2, <2>2 DEF Next, vars, Put, Drop, Reload, Format, Pause, Resume, limits
    <3> QED  BY <3>1
  <2> QED  BY <2>1, <2>2
<1>4. /\ undone = 0
      /\ \A p \in written : p \in InEntries(info) \/ \E i \in 1..Len(buf) : buf[i].pic = p
      /\ ~Working => buf = <<>>
      /\ at = "head" => \A i \in 1..Len(buf) : buf[i].pic \in InEntries(info)
  BY <1>1, <1>3 DEF Covered
<1>5. CASE Write
  <2>1. at' = "half" /\ written' = written \cup {pic}
    BY <1>5 DEF Write, GoOn
  <2>2. /\ Len(buf) \in Nat /\ Len(buf') = Len(buf) + 1 /\ buf'[Len(buf) + 1].pic = pic
        /\ \A i \in 1..Len(buf) : buf'[i] = buf[i]
    BY <1>5, WriteAppends DEF KInv
  <2>3. \A p \in written : \/ p \in InEntries(info)'
                           \/ \E i \in 1..Len(buf') : buf'[i].pic = p
    <3>1. ~Rollback /\ ~Format
      BY <1>5 DEF Write, Rollback, Format, Heard
    <3> QED  BY <1>4, <2>2, <3>1, EntriesGrow
  <2>4. Len(buf) + 1 \in 1..Len(buf')
    BY <2>2
  <2> QED  BY <2>1, <2>2, <2>3, <2>4 DEF Working
<1>6. CASE Format \/ Rollback
  <2>1. written' = {} /\ buf' = buf /\ at' # "head" /\ (Working' <=> Working)
    BY <1>2, <1>6 DEF Format, Rollback, Heard, turn, Working, Flushing
  <2> QED  BY <1>4, <2>1
<1>7. ASSUME ~Write, ~Format, ~Rollback,
             \/ buf' = buf /\ at' # "head" /\ (Working => Working')
             \/ buf' = <<>> /\ \A i \in 1..Len(buf) : buf[i].pic \in InEntries(info)
      PROVE  /\ \A p \in written' : \/ p \in InEntries(info)'
                                    \/ \E i \in 1..Len(buf') : buf'[i].pic = p
             /\ ~Working' => buf' = <<>>
             /\ at' = "head" => \A i \in 1..Len(buf') : buf'[i].pic \in InEntries(info)'
  <2>1. written' = written
    BY <1>7 DEF Next, Thread, vars, Put, Drop, Reload, Pause, Resume, Crash, Take, Hear,
       WildClose, GoesDown, OpenNew, OpenFails, Store, StoreFails, Half, Late, Sync, EnterPics, EnterFile,
       EnterHeader, stored
  <2>2. \A p \in InEntries(info) : p \in InEntries(info)'
    BY <1>4, <1>7, EntriesGrow
  <2> QED  BY <1>4, <1>7, <2>1, <2>2
<1>8. CASE OpenNew
  <2>1. ~Working /\ at' # "head" /\ ~Write /\ ~Format /\ ~Rollback /\ buf' \in {buf, <<>>}
    BY <1>8 DEF OpenNew, GoOn, Working, Flushing, Write, Format, Heard, Rollback
  <2> QED  BY <1>4, <1>7, <2>1
<1>9. CASE Sync
  <2>1. ~Write /\ ~Format /\ ~Rollback /\ Working
    BY <1>9 DEF Sync, Write, Format, Heard, Rollback, Working, Flushing
  <2>2. \/ buf' = buf /\ at' = "pics"
        \/ buf' = <<>> /\ buf = <<>>
    BY <1>9 DEF Sync, NextWrite, GoOn, Flushed
  <2>3. at' = "pics" => Working' /\ at' # "head"
    BY DEF Working, Flushing
  <2> QED  BY <1>7, <2>1, <2>2, <2>3
<1>10. CASE EnterPics
  <2>1. /\ ~Write /\ ~Format /\ ~Rollback
        /\ buf' = buf /\ at' = "info"
    BY <1>2, <1>10 DEF EnterPics, NextWrite, GoOn, Write, Format, Heard, Rollback
  <2>2. Working' /\ at' # "head"
    BY <2>1 DEF Working, Flushing
  <2> QED  BY <1>7, <2>1, <2>2
<1>11. CASE EnterFile
  <2>1. NoFault /\ written' = written /\ buf' = buf /\ at' = "head" /\ ~Rollback /\ ~Format
    BY <1>2, <1>11 DEF EnterFile, NextWrite, GoOn, stored, Rollback, Format, Heard
  <2>2. Working'
    BY <2>1 DEF Working, Flushing
  <2>3. \A i \in 1..Len(buf) : buf[i].pic \in InEntries(info)'
    BY <1>4, <1>11, <2>1, EntersAll
  <2>4. \A p \in InEntries(info) : p \in InEntries(info)'
    BY <1>4, <2>1, EntriesGrow
  <2> QED  BY <1>4, <2>1, <2>2, <2>3, <2>4
<1>12. CASE EnterHeader
  <2>1. /\ ~Write /\ ~Format /\ ~Rollback /\ at = "head" /\ buf' = <<>>
    BY <1>2, <1>12 DEF EnterHeader, Flushed, Write, Format, Heard, Rollback
  <2> QED  BY <1>4, <1>7, <2>1
<1>13. CASE Take \/ Hear \/ Store \/ Half \/ Late
  <2>1. /\ ~Write /\ ~Format /\ ~Rollback /\ buf' = buf /\ at' # "head"
    <3>1. CASE Hear
      <4>1. at = "hear" /\ at' # "hear" /\ at' # "head" /\ buf' = buf
        BY <3>1 DEF Hear, Dispatch, GoOn, EndTurn
      <4> QED  BY <4>1 DEF Write, Format, Rollback, turn
    <3>2. CASE Take \/ Store \/ Half \/ Late
      <4>1. at \in {"take", "store", "half", "late"} /\ at' # at /\ at' # "head" /\ buf' = buf
        BY <3>2 DEF Take, Store, Half, Late, GoOn, EndTurn, work
      <4> QED  BY <4>1 DEF Write, Format, Rollback, turn
    <3> QED  BY <1>13, <3>1, <3>2
  <2> QED  BY <1>7, <1>13, <2>1, WorkGoesOn
<1>14. CASE Put \/ Drop \/ Reload \/ UNCHANGED vars \/ \E c \in Causes : Pause(c) \/ Resume(c)
  <2>1. UNCHANGED <<turn, buf, info, pinfo, written>>
    BY <1>14 DEF Put, Drop, Reload, Pause, Resume, vars, work, index, stored
  <2>2. InEntries(info)' = InEntries(info) /\ (Working' <=> Working) /\ at' = at
    BY <2>1 DEF InEntries, Working, turn
  <2> QED  BY <1>4, <2>1, <2>2
<1>15. CASE WildClose
  <2>1. /\ ~Write /\ ~Format /\ ~Rollback /\ buf' = <<>>
    BY <1>15 DEF WildClose, GoesDown, Write, Format, Rollback, GoOn, turn
  <2>2. ~Working
    BY <1>15 DEF WildClose, KInv, JInv, Held, Course
  <2> QED  BY <1>4, <1>7, <2>1, <2>2
<1>16. ~OpenFails /\ ~StoreFails
  BY <1>2 DEF OpenFails, StoreFails
<1> QED
  BY <1>2, <1>5, <1>6, <1>8, <1>9, <1>10, <1>11, <1>12, <1>13, <1>14, <1>15,
     <1>16 DEF Next, Thread

(***************************************************************************)
(* For any causes, containers, pictures and PicInfoBuf: as long as no write *)
(* has failed and the recorder has not gone down, every picture written is  *)
(* in the index or waits in PicInfoBuf, however the thread is stopped and   *)
(* started, and over every new container.                                   *)
(***************************************************************************)
THEOREM NothingLostAlways == Spec => []NothingLost
<1>1. Init => KInv /\ Covered
  BY InitIInv, InitJInv, InitFilled, InitRanges, InitCovered DEF KInv
<1>2. KInv /\ Covered /\ [Next]_vars => (KInv /\ Covered)'
  BY NextIInv, NextJInv, NextFilled, NextRanges, NextRoomy, NextCovered DEF KInv
<1>3. Covered => NothingLost
  BY DEF Covered, NothingLost
<1> QED  BY <1>1, <1>2, <1>3, PTL DEF Spec
=============================================================================
