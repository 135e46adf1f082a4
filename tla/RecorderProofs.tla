--------------------------- MODULE RecorderProofs ---------------------------
(***************************************************************************)
(* The recorder, for every number of channels and of threads that deliver   *)
(* frames: its types; the semaphore covers the queue up to the senders that *)
(* have written and not posted yet; the file of a channel under FORCE_END   *)
(* stays closed; the manager and the writer agree about who is paused; every*)
(* beginning and end of a recording is told; and where nothing pauses, the  *)
(* flag of a READ_BUF always has its message.                               *)
(***************************************************************************)
EXTENDS Recorder, FiniteSetTheorems, TLAPS

(***************************************************************************)
(* The queue and its semaphore.  Whoever writes a message stands between    *)
(* the write and the sem_post until it posts it; whoever takes one has      *)
(* waited for it.                                                           *)
(***************************************************************************)
ProducerAt == {"idle", "mode", "askFull", "sendFull", "room", "store", "stored", "askHigh",
               "sendHigh", "postFull", "postHigh"}
PostsAt    == {"postFull", "postHigh"}

QueueInv ==
  /\ msgs \in Seq(Msgs) /\ sem \in Nat
  /\ out \in Seq(Msgs) /\ posting \in BOOLEAN
  /\ ppc \in [Chan -> [Producer -> ProducerAt]]
  /\ MessagesAreSignalled

LEMMA GoToTyped ==
  ASSUME ppc \in [Chan -> [Producer -> ProducerAt]],
         NEW c \in Chan, NEW p \in Producer, NEW where \in ProducerAt, GoTo(c, p, where)
  PROVE  /\ ppc' \in [Chan -> [Producer -> ProducerAt]]
         /\ ppc'[c][p] = where
         /\ \A d \in Chan, q \in Producer : d # c \/ q # p => ppc'[d][q] = ppc[d][q]
<1>1. [ppc[c] EXCEPT ![p] = where] \in [Producer -> ProducerAt]
  OBVIOUS
<1> QED
  BY <1>1 DEF GoTo

\* Only finitely many threads stand at a sem_post.
LEMMA FewPosters ==
  ASSUME NEW P \in SUBSET (Chan \X Producer) PROVE IsFiniteSet(P) /\ Cardinality(P) \in Nat
<1>1. IsFiniteSet(Chan)
  BY RecorderAssumption, FS_Interval DEF Chan
<1>2. IsFiniteSet(Chan \X Producer)
  BY <1>1, ProducerAssumption, FS_Product
<1>3. IsFiniteSet(P)
  BY <1>2, FS_Subset
<1> QED
  BY <1>3, FS_CardinalityType

\* A producer comes to its sem_post, leaves it, or goes elsewhere.
LEMMA PosterMoves ==
  ASSUME ppc \in [Chan -> [Producer -> ProducerAt]],
         NEW c \in Chan, NEW p \in Producer, NEW where \in ProducerAt, GoTo(c, p, where)
  PROVE  Cardinality(Posters') = Cardinality(Posters)
                                 + (IF where \in PostsAt THEN 1 ELSE 0)
                                 - (IF ppc[c][p] \in PostsAt THEN 1 ELSE 0)
<1> DEFINE x == <<c, p>>
<1>1. /\ ppc'[c][p] = where
      /\ \A d \in Chan, q \in Producer : d # c \/ q # p => ppc'[d][q] = ppc[d][q]
  BY GoToTyped
<1>2. \A y \in Chan \X Producer : y = <<y[1], y[2]>> /\ y[1] \in Chan /\ y[2] \in Producer
  OBVIOUS
<1>3. \A y \in Chan \X Producer : y # x => (y \in Posters' <=> y \in Posters)
  BY <1>1, <1>2 DEF Posters
<1>4. (x \in Posters' <=> where \in PostsAt) /\ (x \in Posters <=> ppc[c][p] \in PostsAt)
  BY <1>1 DEF Posters, PostsAt
<1>5. Posters \subseteq Chan \X Producer /\ Posters' \subseteq Chan \X Producer
  BY DEF Posters
<1>6. /\ IsFiniteSet(Posters) /\ Cardinality(Posters) \in Nat
      /\ IsFiniteSet(Posters') /\ Cardinality(Posters') \in Nat
  BY <1>5, FewPosters
<1>7. CASE x \in Posters <=> x \in Posters'
  <2>1. Posters' = Posters
    BY <1>3, <1>5, <1>7
  <2> QED
    BY <1>4, <1>6, <1>7, <2>1
<1>8. CASE x \notin Posters /\ x \in Posters'
  <2>1. Posters' = Posters \cup {x}
    BY <1>3, <1>5, <1>8
  <2>2. Cardinality(Posters') = Cardinality(Posters) + 1
    BY <1>6, <1>8, <2>1, FS_AddElement
  <2> QED
    BY <1>4, <1>6, <1>8, <2>2
<1>9. CASE x \in Posters /\ x \notin Posters'
  <2>1. Posters' = Posters \ {x}
    BY <1>3, <1>5, <1>9
  <2>2. Cardinality(Posters') = Cardinality(Posters) - 1
    BY <1>6, <1>9, <2>1, FS_RemoveElement
  <2> QED
    BY <1>4, <1>6, <1>9, <2>2
<1> QED
  BY <1>7, <1>8, <1>9

\* What is owed to the semaphore is a number.
LEMMA OwedIsNumber == Cardinality(Posters) \in Nat /\ Owed \in Nat
<1>1. Posters \subseteq Chan \X Producer
  BY DEF Posters
<1>2. Cardinality(Posters) \in Nat
  BY <1>1, FewPosters
<1> QED
  BY <1>2 DEF Owed

LEMMA QueueKept == ASSUME QueueInv, UNCHANGED <<msgs, sem, out, posting, ppc>> PROVE QueueInv'
<1>1. Posters' = Posters
  BY DEF Posters
<1> QED
  BY <1>1 DEF QueueInv, MessagesAreSignalled, Owed

LEMMA ProducerSignals ==
  ASSUME QueueInv, NEW c \in Chan, NEW p \in Producer,
         Offer(c, p) \/ OfferHotPlug(c, p) \/ Carry(c, p)
  PROVE  QueueInv'
<1>1. UNCHANGED <<out, posting>>
  BY DEF Offer, OfferHotPlug, Carry, PreRecord, Direct, Request, SeeRoom, GiveUp, Store,
         CheckRate, manager
<1>2. Cardinality(Posters) \in Nat /\ Len(msgs) \in Nat /\ sem \in Nat
  BY OwedIsNumber DEF QueueInv
<1>3. ASSUME NEW where \in ProducerAt, GoTo(c, p, where),
             msgs' \in Seq(Msgs), sem' \in Nat, sem' >= sem, Len(msgs') >= Len(msgs),
             (sem' - sem) + (IF where \in PostsAt THEN 1 ELSE 0)
               >= (Len(msgs') - Len(msgs)) + (IF ppc[c][p] \in PostsAt THEN 1 ELSE 0)
      PROVE  QueueInv'
  <2>1. ppc' \in [Chan -> [Producer -> ProducerAt]]
    BY <1>3, GoToTyped DEF QueueInv
  <2>2. Cardinality(Posters') = Cardinality(Posters)
                                + (IF where \in PostsAt THEN 1 ELSE 0)
                                - (IF ppc[c][p] \in PostsAt THEN 1 ELSE 0)
    BY <1>3, PosterMoves DEF QueueInv
  <2>3. Len(msgs') \in Nat
    BY <1>3
  <2>4. sem + Cardinality(Posters) + (IF posting THEN 1 ELSE 0) >= Len(msgs)
    BY <1>2 DEF QueueInv, MessagesAreSignalled, Owed
  <2>5. sem' + Cardinality(Posters') + (IF posting' THEN 1 ELSE 0) >= Len(msgs')
    BY <1>1, <1>2, <1>3, <2>2, <2>3, <2>4
  <2>6. Cardinality(Posters') \in Nat
    BY FewPosters DEF Posters
  <2> QED
    BY <1>1, <1>3, <2>1, <2>5, <2>6 DEF QueueInv, MessagesAreSignalled, Owed
<1>4. CASE OfferHotPlug(c, p)
  BY <1>4, QueueKept DEF OfferHotPlug, queues, manager
<1>5. CASE Request(c, p)
  <2>1. PICK s \in Asks :
          \/ At(c, p, s[1]) /\ SetFlag(c) /\ GoTo(c, p, s[2])
          \/ At(c, p, s[2]) /\ WriteReadBuf(c) /\ GoTo(c, p, s[3])
          \/ At(c, p, s[3]) /\ PostReadBuf /\ GoTo(c, p, s[4])
    BY <1>5, Zenon DEF Request, RequestRead
  <2>2. /\ s[1] \notin PostsAt /\ s[2] \notin PostsAt /\ s[3] \in PostsAt /\ s[4] \notin PostsAt
        /\ s[2] \in ProducerAt /\ s[3] \in ProducerAt /\ s[4] \in ProducerAt
    BY DEF Asks, PostsAt, ProducerAt
  <2>3. CASE At(c, p, s[1]) /\ SetFlag(c) /\ GoTo(c, p, s[2])
    <3>1. msgs' = msgs /\ sem' = sem /\ ppc[c][p] \notin PostsAt
      BY <2>2, <2>3 DEF SetFlag, At
    <3> QED
      BY <1>2, <1>3, <2>2, <2>3, <3>1 DEF QueueInv
  <2>4. CASE At(c, p, s[2]) /\ WriteReadBuf(c) /\ GoTo(c, p, s[3])
    <3>1. sem' = sem /\ ppc[c][p] \notin PostsAt /\ <<"readBuf", c>> \in Msgs
      BY <2>2, <2>4 DEF WriteReadBuf, At, Msgs, MsgKind
    <3>2. msgs' \in Seq(Msgs) /\ Len(msgs') = Len(msgs) + 1
      BY <2>4, <3>1 DEF WriteReadBuf, WriteMsg, QueueInv
    <3> QED
      BY <1>2, <1>3, <2>2, <2>4, <3>1, <3>2
  <2>5. CASE At(c, p, s[3]) /\ PostReadBuf /\ GoTo(c, p, s[4])
    <3>1. msgs' = msgs /\ sem' = sem + 1 /\ ppc[c][p] \in PostsAt
      BY <2>2, <2>5 DEF PostReadBuf, SemPost, At
    <3> QED
      BY <1>2, <1>3, <2>2, <2>5, <3>1 DEF QueueInv
  <2> QED
    BY <2>1, <2>3, <2>4, <2>5
<1>6. CASE Offer(c, p) \/ PreRecord(c, p) \/ Direct(c, p) \/ SeeRoom(c, p) \/ GiveUp(c, p)
           \/ Store(c, p) \/ CheckRate(c, p)
  <2>1. UNCHANGED <<msgs, sem>>
    BY <1>6 DEF Offer, PreRecord, Direct, SeeRoom, GiveUp, Store, CheckRate, queues
  <2>2. PICK where \in ProducerAt \ PostsAt : GoTo(c, p, where)
    BY <1>6 DEF Offer, PreRecord, Direct, SeeRoom, GiveUp, Store, CheckRate, ProducerAt, PostsAt
  <2>3. ppc[c][p] \notin PostsAt
    BY <1>6 DEF Offer, PreRecord, Direct, SeeRoom, GiveUp, Store, CheckRate, At, PostsAt
  <2> QED
    BY <1>2, <1>3, <2>1, <2>2, <2>3 DEF QueueInv
<1> QED
  BY <1>4, <1>5, <1>6 DEF Carry

\* What the manager hands over are messages.
LEMMA HandedMessages ==
  ASSUME NEW c \in Chan
  PROVE  /\ \A k \in MsgKind : <<<<k, c>>>> \in Seq(Msgs)
         /\ <<<<"run", c>>, <<"update", c>>>> \in Seq(Msgs)
         /\ <<>> \in Seq(Msgs)
         /\ [d \in Chan |-> <<"flush", d>>] \in Seq(Msgs)
<1>1. \A k \in MsgKind : <<k, c>> \in Msgs
  BY DEF Msgs
<1>2. {"run", "update", "flush"} \subseteq MsgKind
  BY DEF MsgKind, Ender
<1>3. [d \in Chan |-> <<"flush", d>>] \in Seq(Msgs)
  <2>1. [d \in 1..NumChan |-> <<"flush", d>>] \in [1..NumChan -> Msgs]
    BY <1>2 DEF Msgs, Chan
  <2> QED
    BY <2>1, RecorderAssumption DEF Chan
<1> QED
  BY <1>1, <1>2, <1>3

\* The manager writes and posts what it was handed, and does nothing else to the
\* queue; what an action of its hands over is one of these.
QuietKind == MsgKind \ {"forceEnd", "resume"}

Handed(c) == \/ out' = out
             \/ Hand(<<>>)
             \/ \E k \in QuietKind : Hand(<<<<k, c>>>>)
             \/ Hand(<<<<"run", c>>, <<"update", c>>>>)

LEMMA UpdateHands ==
  ASSUME NEW c \in Chan, UpdateRecStatus(c) \/ DelayEnds(c) \/ ClearDelay(c) PROVE Handed(c)
<1>1. {"run", "runIdle", "update", "preIdle", "delayIdle"} \subseteq QuietKind
  BY DEF QuietKind, MsgKind, Ender
<1>2. CASE DelayEnds(c) \/ ClearDelay(c)
  BY <1>1, <1>2 DEF DelayEnds, DelayOver, ClearDelay, Handed
<1>3. CASE UpdateRecStatus(c)
  <2>1. Starts(c) \/ Ends(c) \/ Changes(c) \/ Rests(c) \/ DelayRuns(c) \/ Goes(c)
    BY <1>3 DEF UpdateRecStatus
  <2>2. CASE Rests(c)
    BY <1>1, <2>2 DEF Rests, Handed
  <2> QED
    BY <1>1, <2>1, <2>2 DEF Starts, Ends, Changes, DelayRuns, Goes, Handed
<1> QED
  BY <1>2, <1>3

LEMMA ManagerSignals == ASSUME QueueInv, Manager PROVE QueueInv'
<1>1. Cardinality(Posters) \in Nat /\ Len(msgs) \in Nat /\ sem \in Nat
  BY OwedIsNumber DEF QueueInv
<1>2. CASE Put
  <2>1. Head(out) \in Msgs /\ Tail(out) \in Seq(Msgs)
    BY <1>2 DEF Put, QueueInv
  <2>2. msgs' \in Seq(Msgs) /\ Len(msgs') = Len(msgs) + 1 /\ sem' = sem /\ ppc' = ppc
    BY <1>2, <2>1 DEF Put, WriteMsg, QueueInv
  <2>3. ~posting /\ posting' = TRUE /\ out' = Tail(out) /\ Posters' = Posters
    BY <1>2, <2>2 DEF Put, Posters
  <2>4. sem + Cardinality(Posters) >= Len(msgs)
    BY <1>1, <2>3 DEF QueueInv, MessagesAreSignalled, Owed
  <2>5. Owed' = Cardinality(Posters) + 1
    BY <2>3 DEF Owed
  <2>6. sem' + Owed' >= Len(msgs')
    BY <1>1, <2>2, <2>4, <2>5
  <2>7. out' \in Seq(Msgs) /\ posting' \in BOOLEAN
    BY <2>1, <2>3
  <2> QED
    BY <2>2, <2>6, <2>7 DEF QueueInv, MessagesAreSignalled
<1>3. CASE Post
  <2>1. msgs' = msgs /\ sem' = sem + 1 /\ ppc' = ppc /\ out' = out
    BY <1>3 DEF Post, SemPost
  <2>2. posting /\ posting' = FALSE /\ Posters' = Posters
    BY <1>3, <2>1 DEF Post, Posters
  <2>3. sem + Cardinality(Posters) + 1 >= Len(msgs)
    BY <1>1, <2>2 DEF QueueInv, MessagesAreSignalled, Owed
  <2>4. Owed' = Cardinality(Posters)
    BY <1>1, <2>2 DEF Owed
  <2>5. sem' + Owed' >= Len(msgs') /\ sem' \in Nat
    BY <1>1, <2>1, <2>3, <2>4
  <2> QED
    BY <2>1, <2>2, <2>5 DEF QueueInv, MessagesAreSignalled
<1>4. ASSUME UNCHANGED <<msgs, sem, posting, ppc>>, out' \in Seq(Msgs) PROVE QueueInv'
  <2>1. Posters' = Posters
    BY <1>4 DEF Posters
  <2> QED
    BY <1>4, <2>1 DEF QueueInv, MessagesAreSignalled, Owed
<1>5. CASE NotWorking
  <2>1. 1 \in Chan
    BY RecorderAssumption DEF Chan
  <2> QED
    BY <1>4, <1>5, <2>1, HandedMessages DEF NotWorking, Hand, queues
<1>6. CASE Command
  BY <1>4, <1>6 DEF Command, QueueInv
<1>7. ASSUME NEW c \in Chan, SendPause(c) PROVE QueueInv'
  <2>1. "forceEnd" \in MsgKind
    BY DEF MsgKind, Ender
  <2> QED
    BY <1>4, <1>7, <2>1, HandedMessages DEF SendPause, Hand, queues
<1>8. ASSUME NEW c \in Chan, SendResume(c) PROVE QueueInv'
  <2>1. "resume" \in MsgKind
    BY DEF MsgKind
  <2> QED
    BY <1>4, <1>8, <2>1, HandedMessages DEF SendResume, ResumeMsg, Hand, queues
<1>9. ASSUME NEW c \in Chan, SetPaused(c) PROVE QueueInv'
  BY <1>4, <1>9 DEF SetPaused, queues, QueueInv
<1>10. ASSUME NEW c \in Chan, UpdateRecStatus(c) \/ DelayEnds(c) \/ ClearDelay(c)
       PROVE  QueueInv'
  <2>1. UNCHANGED <<msgs, sem, posting, ppc>>
    BY <1>10 DEF UpdateRecStatus, DelayEnds, ClearDelay, queues
  <2>2. Handed(c)
    BY <1>10, UpdateHands
  <2>3. out' \in Seq(Msgs)
    BY <2>2, HandedMessages DEF Handed, Hand, QuietKind, QueueInv
  <2> QED
    BY <1>4, <2>1, <2>3
<1> QED
  BY <1>2, <1>3, <1>5, <1>6, <1>7, <1>8, <1>9, <1>10 DEF Manager

\* Only Take and TakeNothing wait on the semaphore; while the writer is stopped by
\* a full disk, what it takes from the semaphore is what runs ahead of the queue.
LEMMA WriterSignals == ASSUME QueueInv, Writer PROVE QueueInv'
<1>1. Owed \in Nat /\ Owed' = Owed /\ UNCHANGED <<out, posting, ppc>>
  <2>1. UNCHANGED <<out, posting, ppc>>
    BY DEF Writer, Take, TakeNothing, DrainEnds, DrainFrame, ResetRing, Finish, ClearWriting,
           CheckDisk, manager
  <2> QED
    BY <2>1, OwedIsNumber DEF Owed, Posters
<1>2. CASE Take
  <2>1. Len(msgs) \in Nat \ {0} /\ msgs' \in Seq(Msgs) /\ Len(msgs') = Len(msgs) - 1
    BY <1>2 DEF Take, QueueInv
  <2>2. sem' \in Nat /\ sem' >= sem - 1
    BY <1>2, <2>1 DEF Take, Wake, QueueInv, MaxAhead
  <2>3. sem \in Nat /\ sem + Owed >= Len(msgs)
    BY DEF QueueInv, MessagesAreSignalled
  <2>4. sem' + Owed' >= Len(msgs')
    BY <1>1, <2>1, <2>2, <2>3
  <2> QED
    BY <1>1, <2>1, <2>2, <2>4 DEF QueueInv, MessagesAreSignalled
<1>3. CASE TakeNothing
  <2>1. Len(msgs) = 0 /\ msgs' = msgs
    BY <1>3 DEF TakeNothing
  <2>2. sem' \in Nat
    BY <1>3, <2>1 DEF TakeNothing, Wake, QueueInv
  <2>3. Len(msgs') = 0 /\ Owed' \in Nat
    BY <1>1, <2>1
  <2>4. sem' + Owed' >= Len(msgs')
    <3>1. \A x, y \in Nat : x + y >= 0
      OBVIOUS
    <3> QED
      BY <2>2, <2>3, <3>1
  <2> QED
    BY <1>1, <2>1, <2>2, <2>4 DEF QueueInv, MessagesAreSignalled
<1>4. CASE DrainEnds \/ DrainFrame \/ ResetRing("discard", "finish") \/ Finish
           \/ ResetRing("reset", "clear") \/ ClearWriting \/ CheckDisk
  <2>1. UNCHANGED <<msgs, sem>>
    BY <1>4 DEF DrainEnds, DrainFrame, ResetRing, Finish, ClearWriting, CheckDisk, queues
  <2> QED
    BY <1>1, <2>1, QueueKept
<1> QED
  BY <1>2, <1>3, <1>4 DEF Writer

LEMMA QueueInductive == QueueInv /\ [Next]_vars => QueueInv'
<1> SUFFICES ASSUME QueueInv, [Next]_vars PROVE QueueInv'
  OBVIOUS
<1>1. CASE \/ \E c \in Chan, k \in EventKinds : BizCommand(k, c)
           \/ WorldChanges \/ UNCHANGED vars
  <2>1. UNCHANGED <<msgs, sem, out, posting, ppc>>
    BY <1>1 DEF BizCommand, WorldChanges, vars, queues, manager
  <2> QED
    BY <2>1, QueueKept
<1> QED
  BY <1>1, ProducerSignals, ManagerSignals, WriterSignals DEF Next

LEMMA QueueInitially == Init => QueueInv
<1> SUFFICES ASSUME Init PROVE QueueInv
  OBVIOUS
<1>1. ppc \in [Chan -> [Producer -> ProducerAt]]
  BY DEF Init, ProducerAt
<1>2. Len(msgs) = 0 /\ sem = 0 /\ msgs \in Seq(Msgs) /\ out \in Seq(Msgs) /\ posting = FALSE
  BY DEF Init
<1>3. MessagesAreSignalled
  BY <1>2, OwedIsNumber DEF MessagesAreSignalled
<1> QED
  BY <1>1, <1>2, <1>3 DEF QueueInv

\* The writer is asleep on no message but one whose sender stands between its write
\* and its sem_post: every RecordWriteMsgQueue comes to its sem_post, and no wait
\* takes one that belongs to a message still queued, for any number of channels and
\* of threads that send.
THEOREM WriterIsSignalled == Spec => []MessagesAreSignalled
<1>1. QueueInv => MessagesAreSignalled
  BY DEF QueueInv
<1> QED
  BY <1>1, QueueInitially, QueueInductive, PTL DEF Spec

(***************************************************************************)
(* The file of a forced channel.  ForcedMeansClosed is not inductive: that  *)
(* a READ_BUF leaves the file open at its end is harmless only because no   *)
(* READ_BUF is served for a channel that is already forced.                 *)
(***************************************************************************)
ServingDrain == wpc \in {"drain", "discard", "finish"}

WriterTypeOK ==
  /\ msgs \in Seq(Msgs)
  /\ forced \in [Chan -> BOOLEAN] /\ fileOpen \in [Chan -> BOOLEAN]
  /\ wmsg \in (MsgKind \cup {"none"}) \X Chan

ReadsUnforced == ServingDrain /\ wmsg[1] = "readBuf" => ~forced[wmsg[2]]

FileInv == WriterTypeOK /\ ReadsUnforced /\ ForcedMeansClosed

LEMMA TakeKeepsClosed == ASSUME FileInv, Take PROVE FileInv'
<1> DEFINE m == Head(msgs)
           c == m[2]
<1>1. m \in Msgs /\ msgs' \in Seq(Msgs) /\ c \in Chan /\ m[1] \in MsgKind
  BY DEF Take, FileInv, WriterTypeOK, Msgs
<1>2. wmsg' = m /\ fileOpen' = fileOpen /\ wpc = "wait"
  BY DEF Take
<1>3. wmsg' \in (MsgKind \cup {"none"}) \X Chan
  BY <1>1, <1>2 DEF Msgs
<1>4. \A d \in Chan : forced[d] => ~fileOpen[d]
  BY <1>2 DEF FileInv, ForcedMeansClosed
<1>5. CASE ~Heeds(m)
  <2>1. wpc' = "disk" /\ forced' = forced
    BY <1>5 DEF Take
  <2> QED
    BY <1>1, <1>2, <1>3, <1>4, <2>1
    DEF FileInv, WriterTypeOK, ReadsUnforced, ServingDrain, ForcedMeansClosed
<1>6. CASE m[1] = "resume"
  <2>1. forced' = [forced EXCEPT ![c] = FALSE] /\ wpc' = "disk"
    BY <1>6, Zenon DEF Take, Heeds, Ender
  <2>2. \A d \in Chan : forced'[d] => forced[d]
    BY <2>1, <1>1 DEF FileInv, WriterTypeOK
  <2>3. forced' \in [Chan -> BOOLEAN]
    BY <2>1, <1>1 DEF FileInv, WriterTypeOK
  <2> QED
    BY <1>1, <1>2, <1>3, <1>4, <2>1, <2>2, <2>3
    DEF FileInv, WriterTypeOK, ReadsUnforced, ServingDrain, ForcedMeansClosed
<1>7. CASE Heeds(m) /\ m[1] = "forceEnd"
  <2>1. forced' = [forced EXCEPT ![c] = TRUE] /\ wpc' = "drain"
    BY <1>7 DEF Take, Ender
  <2>2. \A d \in Chan : d # c /\ forced'[d] => forced[d]
    BY <2>1, <1>1 DEF FileInv, WriterTypeOK
  <2>3. forced' \in [Chan -> BOOLEAN]
    BY <2>1, <1>1 DEF FileInv, WriterTypeOK
  <2> QED
    BY <1>1, <1>2, <1>3, <1>4, <1>7, <2>1, <2>2, <2>3
    DEF FileInv, WriterTypeOK, ReadsUnforced, ServingDrain, ForcedMeansClosed
<1>8. CASE Heeds(m) /\ m[1] \notin {"resume", "forceEnd"}
  <2>1. forced' = forced /\ ~forced[c] /\ wpc' \in {"drain", "disk"}
    BY <1>8 DEF Take, Heeds
  <2> QED
    BY <1>1, <1>2, <1>3, <1>4, <2>1
    DEF FileInv, WriterTypeOK, ReadsUnforced, ServingDrain, ForcedMeansClosed
<1> QED
  BY <1>5, <1>6, <1>7, <1>8

\* A message is served and its file closed, unless it was a READ_BUF.
LEMMA ServeKeepsClosed ==
  ASSUME FileInv,
         DrainEnds \/ DrainFrame \/ ResetRing("discard", "finish") \/ Finish
  PROVE  FileInv'
<1> DEFINE c == wmsg[2]
<1>1. UNCHANGED <<msgs, forced, wmsg>> /\ ServingDrain /\ c \in Chan
  BY DEF DrainEnds, DrainFrame, ResetRing, Finish, queues, ServingDrain, FileInv, WriterTypeOK
<1>2. CASE DrainEnds \/ ResetRing("discard", "finish")
  BY <1>1, <1>2
  DEF DrainEnds, ResetRing, FileInv, WriterTypeOK, ReadsUnforced, ServingDrain,
      ForcedMeansClosed
<1>3. CASE DrainFrame
  <2>1. PICK open \in BOOLEAN : fileOpen' = [fileOpen EXCEPT ![c] = open]
    BY <1>3 DEF DrainFrame
  <2>2. wpc' \in {"drain", "discard"}
    BY <1>3 DEF DrainFrame
  <2>3. fileOpen' \in [Chan -> BOOLEAN] /\ \A d \in Chan : d # c => fileOpen'[d] = fileOpen[d]
    BY <2>1, <1>1 DEF FileInv, WriterTypeOK
  <2> QED
    BY <1>1, <2>2, <2>3
    DEF FileInv, WriterTypeOK, ReadsUnforced, ServingDrain, ForcedMeansClosed
<1>4. CASE Finish /\ wmsg[1] = "readBuf"
  <2>1. fileOpen' = fileOpen /\ ~forced[c]
    BY <1>1, <1>4 DEF Finish, FileInv, ReadsUnforced
  <2>2. wpc' = "clear"
    BY <1>4 DEF Finish
  <2> QED
    BY <1>1, <2>1, <2>2
    DEF FileInv, WriterTypeOK, ReadsUnforced, ServingDrain, ForcedMeansClosed
<1>5. CASE Finish /\ wmsg[1] # "readBuf"
  <2>1. fileOpen' = [fileOpen EXCEPT ![c] = FALSE] /\ wpc' = "reset"
    BY <1>5 DEF Finish
  <2>2. fileOpen' \in [Chan -> BOOLEAN] /\ ~fileOpen'[c]
        /\ \A d \in Chan : d # c => fileOpen'[d] = fileOpen[d]
    BY <2>1, <1>1 DEF FileInv, WriterTypeOK
  <2> QED
    BY <1>1, <2>1, <2>2
    DEF FileInv, WriterTypeOK, ReadsUnforced, ServingDrain, ForcedMeansClosed
<1> QED
  BY <1>2, <1>3, <1>4, <1>5

\* No other thread touches the writer's state, and no other step of the writer its files.
LEMMA OthersKeepClosed ==
  ASSUME FileInv, msgs' \in Seq(Msgs), UNCHANGED <<forced, fileOpen, wmsg>>,
         \/ wpc' = wpc
         \/ ~ServingDrain /\ wpc' \in {"wait", "clear", "disk"}
  PROVE  FileInv'
BY DEF FileInv, WriterTypeOK, ReadsUnforced, ServingDrain, ForcedMeansClosed

LEMMA FileInductive == QueueInv' /\ FileInv /\ [Next]_vars => FileInv'
<1> SUFFICES ASSUME QueueInv', FileInv, [Next]_vars PROVE FileInv'
  OBVIOUS
<1>1. msgs' \in Seq(Msgs)
  BY DEF QueueInv
<1>2. CASE Writer
  <2>1. CASE TakeNothing \/ ResetRing("reset", "clear") \/ ClearWriting \/ CheckDisk
    <3>1. UNCHANGED <<forced, fileOpen, wmsg>>
      BY <2>1 DEF TakeNothing, ResetRing, ClearWriting, CheckDisk
    <3>2. ~ServingDrain /\ wpc' \in {"wait", "clear", "disk"}
      BY <2>1 DEF TakeNothing, ResetRing, ClearWriting, CheckDisk, ServingDrain
    <3> QED
      BY <1>1, <3>1, <3>2, OthersKeepClosed
  <2> QED
    BY <1>2, <2>1, TakeKeepsClosed, ServeKeepsClosed DEF Writer
<1>3. CASE \/ \E c \in Chan, p \in Producer : Offer(c, p) \/ OfferHotPlug(c, p) \/ Carry(c, p)
           \/ Manager
           \/ \E c \in Chan, k \in EventKinds : BizCommand(k, c)
           \/ WorldChanges \/ UNCHANGED vars
  <2>1. UNCHANGED writer
    <3>1. ASSUME NEW c \in Chan, NEW p \in Producer,
                 Offer(c, p) \/ OfferHotPlug(c, p) \/ Carry(c, p)
          PROVE  UNCHANGED writer
      BY <3>1 DEF Offer, OfferHotPlug, Carry, PreRecord, Direct, Request, SeeRoom, GiveUp,
                  Store, CheckRate
    <3>2. CASE Manager
      BY <3>2 DEF Manager, Put, Post, NotWorking, Command, SendPause, SendResume, SetPaused,
                  UpdateRecStatus, DelayEnds, ClearDelay
    <3> QED
      BY <1>3, <3>1, <3>2 DEF BizCommand, WorldChanges, vars
  <2> QED
    BY <1>1, <2>1, OthersKeepClosed DEF writer
<1> QED
  BY <1>2, <1>3 DEF Next

\* While FORCE_END holds for a channel its file stays closed, whatever READ_BUF,
\* RUN_IDLE or FLUSH is still queued for it, for any number of channels.
THEOREM ForcedFilesStayClosed == Spec => []ForcedMeansClosed
<1>1. Init => QueueInv
  BY QueueInitially
<1>2. Init => FileInv
  <2> SUFFICES ASSUME Init PROVE FileInv
    OBVIOUS
  <2>1. 1 \in Chan /\ wmsg = <<"none", 1>> /\ wpc = "wait"
    BY RecorderAssumption DEF Init, Chan
  <2> QED
    BY <2>1 DEF Init, FileInv, WriterTypeOK, ReadsUnforced, ServingDrain, ForcedMeansClosed
<1>3. FileInv => ForcedMeansClosed
  BY DEF FileInv
<1> QED
  BY <1>1, <1>2, <1>3, QueueInductive, FileInductive, PTL DEF Spec

(***************************************************************************)
(* The types.  The ring of a channel never holds more than it has room for: *)
(* Store looks at it again, PreRecord makes room, and a READ_BUF reads only *)
(* above the low mark.                                                      *)
(***************************************************************************)
QueuesTyped == /\ cmds \in Seq(Cmds) /\ msgs \in Seq(Msgs) /\ sem \in Nat
               /\ out \in Seq(Msgs) /\ posting \in BOOLEAN

LEMMA ProducerTypes ==
  ASSUME TypeOK, QueuesTyped', NEW c \in Chan, NEW p \in Producer,
         Offer(c, p) \/ OfferHotPlug(c, p) \/ Carry(c, p)
  PROVE  TypeOK'
<1> USE RecorderAssumption DEF statuses, pauses, ring, writer, manager, world
<1>0. ASSUME \E where \in ProducerAt : GoTo(c, p, where),
             UNCHANGED <<statuses, pauses, isWriting, writer, manager, world>>,
             flag' \in [Chan -> BOOLEAN], used' \in [Chan -> 0..Cap],
             giveUps' \in [Chan -> 0..Patience + 1]
      PROVE  TypeOK'
  <2>1. ppc \in [Chan -> [Producer -> ProducerAt]]
    BY DEF TypeOK, ProducerAt
  <2>2. ppc' \in [Chan -> [Producer -> ProducerAt]]
    BY <1>0, <2>1, GoToTyped
  <2>3. UNCHANGED <<status, past, delay, isPre, preStart, preTime, chnPaused, flagPause,
                    sentPause, isWriting, forced, fileOpen, stopped, wpc, wmsg, spc, sc,
                    lastWorking, formatted, full, hotplug, working, left>>
    BY <1>0
  <2>4. /\ status' \in [Chan -> SUBSET Cause] /\ past' \in [Chan -> SUBSET Cause]
        /\ delay' \in [Chan -> SUBSET Cause]
        /\ isPre' \in [Chan -> BOOLEAN] /\ preStart' \in [Chan -> BOOLEAN]
        /\ preTime' \in [Chan -> BOOLEAN] /\ chnPaused' \in [Chan -> BOOLEAN]
        /\ flagPause' \in [Chan -> BOOLEAN] /\ sentPause' \in [Chan -> BOOLEAN]
        /\ isWriting' \in [Chan -> BOOLEAN]
    BY <2>3 DEF TypeOK
  <2>5. /\ forced' \in [Chan -> BOOLEAN] /\ fileOpen' \in [Chan -> BOOLEAN]
        /\ stopped' \in BOOLEAN
        /\ wpc' \in {"wait", "drain", "discard", "finish", "reset", "clear", "disk"}
        /\ wmsg' \in (MsgKind \cup {"none"}) \X Chan
    BY <2>3 DEF TypeOK
  <2>6. /\ spc' \in {"cmd", "chn", "pauseSet", "resumeSet", "update", "over"} /\ sc' \in Chan
        /\ full' \in BOOLEAN /\ hotplug' \in BOOLEAN /\ working' \in BOOLEAN
        /\ lastWorking' \in BOOLEAN /\ formatted' \in BOOLEAN /\ left' \in 0..MaxEvents
    BY <2>3 DEF TypeOK
  <2> QED
    BY <1>0, <2>2, <2>4, <2>5, <2>6 DEF TypeOK, QueuesTyped, ProducerAt
<1>1. CASE Offer(c, p)
  BY <1>0, <1>1 DEF Offer, ProducerAt, TypeOK
<1>2. CASE OfferHotPlug(c, p)
  BY <1>2 DEF OfferHotPlug, TypeOK, QueuesTyped
<1>3. CASE PreRecord(c, p)
  <2>1. used' \in [Chan -> 0..Cap]
    BY <1>3 DEF PreRecord, TypeOK
  <2> QED
    BY <1>0, <1>3, <2>1 DEF PreRecord, ProducerAt, TypeOK
<1>4. CASE Direct(c, p)
  BY <1>0, <1>4 DEF Direct, ProducerAt, TypeOK
<1>5. CASE Request(c, p)
  <2>1. flag' \in [Chan -> BOOLEAN]
    BY <1>5 DEF Request, RequestRead, SetFlag, WriteReadBuf, PostReadBuf, TypeOK
  <2>2. \E where \in ProducerAt : GoTo(c, p, where)
    BY <1>5 DEF Request, RequestRead, Asks, ProducerAt
  <2> QED
    BY <1>0, <1>5, <2>1, <2>2 DEF Request, TypeOK
<1>6. CASE SeeRoom(c, p)
  <2>1. giveUps' \in [Chan -> 0..Patience + 1]
    BY <1>6 DEF SeeRoom, TypeOK
  <2> QED
    BY <1>0, <1>6, <2>1 DEF SeeRoom, ProducerAt, TypeOK
<1>7. CASE GiveUp(c, p)
  <2>1. giveUps' \in [Chan -> 0..Patience + 1] /\ used' \in [Chan -> 0..Cap]
    <3>1. CASE ResetIsDue(c)
      <4>1. giveUps' = [giveUps EXCEPT ![c] = 0] /\ used' = [used EXCEPT ![c] = 0]
        BY <1>7, <3>1 DEF GiveUp
      <4> QED
        BY <4>1 DEF TypeOK
    <3>2. CASE ~ResetIsDue(c)
      <4>1. giveUps[c] + 1 \in 0..Patience + 1
        BY <3>2 DEF ResetIsDue, TypeOK
      <4> QED
        BY <1>7, <3>2, <4>1 DEF GiveUp, TypeOK
    <3> QED
      BY <3>1, <3>2
  <2> QED
    BY <1>0, <1>7, <2>1 DEF GiveUp, ProducerAt, TypeOK
<1>8. CASE Store(c, p)
  <2>1. used' \in [Chan -> 0..Cap]
    <3>1. used[c] < Cap => used[c] + 1 \in 0..Cap
      BY DEF TypeOK
    <3> QED
      BY <1>8, <3>1 DEF Store, TypeOK
  <2>2. \E where \in ProducerAt : GoTo(c, p, where)
    BY <1>8 DEF Store, ProducerAt
  <2> QED
    BY <1>0, <1>8, <2>1, <2>2 DEF Store, TypeOK
<1>9. CASE CheckRate(c, p)
  BY <1>0, <1>9 DEF CheckRate, ProducerAt, TypeOK
<1> QED
  BY <1>1, <1>2, <1>3, <1>4, <1>5, <1>6, <1>7, <1>8, <1>9 DEF Carry

LEMMA ManagerTypes == ASSUME TypeOK, QueuesTyped', Manager PROVE TypeOK'
<1> USE RecorderAssumption DEF statuses, pauses, ring, writer, world
<1>1. CASE NotWorking
  BY <1>1 DEF NotWorking, TypeOK, QueuesTyped
<1>9. CASE Put
  BY <1>9 DEF Put, TypeOK, QueuesTyped
<1>10. CASE Post
  BY <1>10 DEF Post, TypeOK, QueuesTyped
<1>2. CASE Command
  <2>1. /\ status' \in [Chan -> SUBSET Cause] /\ preTime' \in [Chan -> BOOLEAN]
        /\ flagPause' \in [Chan -> BOOLEAN]
    <3>1. CASE cmds = <<>>
      BY <1>2, <3>1 DEF Command, TypeOK
    <3>2. CASE cmds # <<>>
      <4> DEFINE c == Head(cmds)[2]
                 k == Head(cmds)[1]
      <4>1. c \in Chan
        BY <3>2 DEF TypeOK, Cmds
      <4>2. Obey(Head(cmds))
        BY <1>2, <3>2 DEF Command
      <4>3. \E S \in SUBSET Cause : status' = [status EXCEPT ![c] = S] \/ status' = status
        BY <4>1, <4>2 DEF Obey, TypeOK, Cause
      <4>4. preTime' = preTime \/ \E b \in BOOLEAN : preTime' = [preTime EXCEPT ![c] = b]
        BY <4>2 DEF Obey
      <4>5. flagPause' = flagPause \/ \E b \in BOOLEAN : flagPause' = [flagPause EXCEPT ![c] = b]
        BY <4>2 DEF Obey
      <4>6. status' \in [Chan -> SUBSET Cause]
        BY <4>1, <4>3 DEF TypeOK
      <4>7. preTime' \in [Chan -> BOOLEAN]
        BY <4>1, <4>4 DEF TypeOK
      <4>8. flagPause' \in [Chan -> BOOLEAN]
        BY <4>1, <4>5 DEF TypeOK
      <4> QED
        BY <4>6, <4>7, <4>8
    <3> QED
      BY <3>1, <3>2
  <2>2. formatted' \in BOOLEAN
    BY <1>2 DEF Command, TypeOK
  <2>4. left' \in 0..MaxEvents
    <3>1. left' = left \/ (left > 0 /\ left' = left - 1)
      BY <1>2 DEF Command
    <3> QED
      BY <3>1 DEF TypeOK
  <2>3. spc' = "chn" /\ sc' \in Chan /\ lastWorking' = TRUE
    BY <1>2 DEF Command, Chan
  <2> QED
    BY <1>2, <2>1, <2>2, <2>3, <2>4 DEF Command, TypeOK, QueuesTyped
<1>3. ASSUME NEW c \in Chan, SendPause(c) PROVE TypeOK'
  BY <1>3 DEF SendPause, TypeOK, QueuesTyped
<1>4. ASSUME NEW c \in Chan, SendResume(c) PROVE TypeOK'
  BY <1>4 DEF SendResume, TypeOK, QueuesTyped
<1>5. ASSUME NEW c \in Chan, SetPaused(c) PROVE TypeOK'
  BY <1>5 DEF SetPaused, TypeOK, QueuesTyped
<1>6. ASSUME NEW c \in Chan, UpdateRecStatus(c) PROVE TypeOK'
  <2>1. Starts(c) \/ Ends(c) \/ Changes(c) \/ Rests(c) \/ DelayRuns(c) \/ Goes(c)
    BY <1>6 DEF UpdateRecStatus
  <2>2. delay' \in [Chan -> SUBSET Cause]
    BY <2>1 DEF Starts, Ends, Changes, Rests, DelayRuns, Goes, TypeOK
  <2>3. preStart' \in [Chan -> BOOLEAN] /\ isPre' \in [Chan -> BOOLEAN]
    <3>1. CASE Rests(c)
      BY <3>1 DEF Rests, TypeOK
    <3> QED
      BY <2>1, <3>1 DEF Starts, Ends, Changes, DelayRuns, Goes, TypeOK
  <2>4. past' \in [Chan -> SUBSET Cause]
    BY <1>6 DEF UpdateRecStatus, TypeOK
  <2>5. spc' \in {"cmd", "chn"} /\ sc' \in Chan
    BY <1>6 DEF UpdateRecStatus, NextChn, Chan
  <2> QED
    BY <1>6, <2>2, <2>3, <2>4, <2>5 DEF UpdateRecStatus, TypeOK, QueuesTyped
<1>7. ASSUME NEW c \in Chan, DelayEnds(c) PROVE TypeOK'
  BY <1>7 DEF DelayEnds, TypeOK, QueuesTyped
<1>8. ASSUME NEW c \in Chan, ClearDelay(c) PROVE TypeOK'
  <2>1. delay' \in [Chan -> SUBSET Cause] /\ past' \in [Chan -> SUBSET Cause]
    BY <1>8 DEF ClearDelay, TypeOK
  <2>2. spc' \in {"cmd", "chn"} /\ sc' \in Chan
    BY <1>8 DEF ClearDelay, NextChn, Chan
  <2> QED
    BY <1>8, <2>1, <2>2 DEF ClearDelay, TypeOK, QueuesTyped
<1> QED
  BY <1>1, <1>2, <1>3, <1>4, <1>5, <1>6, <1>7, <1>8, <1>9, <1>10 DEF Manager

LEMMA WriterTakesTypes == ASSUME TypeOK, QueuesTyped', Take PROVE TypeOK'
<1> DEFINE m == Head(msgs)
           c == m[2]
<1>1. m \in Msgs /\ c \in Chan /\ m[1] \in MsgKind
  <2>1. msgs \in Seq(Msgs) /\ msgs # <<>>
    BY DEF Take, TypeOK
  <2>2. m \in Msgs
    BY <2>1
  <2> QED
    BY <2>2 DEF Msgs
<1>2. wmsg' \in (MsgKind \cup {"none"}) \X Chan
  BY <1>1 DEF Take, Msgs
<1>3. forced' \in [Chan -> BOOLEAN]
  <2>1. forced' = forced \/ \E b \in BOOLEAN : forced' = [forced EXCEPT ![c] = b]
    BY DEF Take
  <2> QED
    BY <1>1, <2>1 DEF TypeOK
<1>4. isWriting' \in [Chan -> BOOLEAN]
  <2>1. isWriting' = isWriting \/ isWriting' = [isWriting EXCEPT ![c] = TRUE]
    BY DEF Take
  <2> QED
    BY <1>1, <2>1 DEF TypeOK
<1>5. used' \in [Chan -> 0..Cap]
  <2>1. used' = used \/ used' = [used EXCEPT ![c] = 0]
    BY DEF Take
  <2>2. 0 \in 0..Cap
    BY RecorderAssumption
  <2> QED
    BY <1>1, <2>1, <2>2 DEF TypeOK
<1>6. wpc' \in {"drain", "disk"}
  BY DEF Take
<1> QED
  BY <1>2, <1>3, <1>4, <1>5, <1>6
  DEF Take, TypeOK, QueuesTyped, statuses, pauses, manager, world

LEMMA WriterServesTypes ==
  ASSUME TypeOK, QueuesTyped',
         TakeNothing \/ DrainEnds \/ DrainFrame \/ ResetRing("discard", "finish") \/ Finish
         \/ ResetRing("reset", "clear") \/ ClearWriting \/ CheckDisk
  PROVE  TypeOK'
<1> DEFINE c == wmsg[2]
<1> USE RecorderAssumption DEF TypeOK, QueuesTyped, statuses, pauses, ring, manager, world
<1>1. c \in Chan
  OBVIOUS
<1>2. CASE TakeNothing
  BY <1>2 DEF TakeNothing
<1>3. CASE DrainEnds
  BY <1>1, <1>3 DEF DrainEnds
<1>4. CASE DrainFrame
  <2>1. used[c] \in 1..Cap
    BY <1>1, <1>4 DEF DrainFrame, Drained
  <2>2. used' = [used EXCEPT ![c] = used[c] - 1] /\ used[c] - 1 \in 0..Cap
    BY <2>1, <1>4 DEF DrainFrame
  <2>3. used' \in [Chan -> 0..Cap]
    BY <1>1, <2>2
  <2>4. fileOpen' \in [Chan -> BOOLEAN]
    BY <1>1, <1>4 DEF DrainFrame
  <2> QED
    BY <1>4, <2>3, <2>4 DEF DrainFrame
<1>5. CASE ResetRing("discard", "finish") \/ ResetRing("reset", "clear")
  <2>1. used' = [used EXCEPT ![c] = 0] /\ wpc' \in {"finish", "clear"}
    BY <1>5 DEF ResetRing
  <2>2. used' \in [Chan -> 0..Cap]
    BY <1>1, <2>1
  <2> QED
    BY <1>5, <2>1, <2>2 DEF ResetRing
<1>6. CASE Finish
  BY <1>1, <1>6 DEF Finish
<1>7. CASE ClearWriting
  BY <1>1, <1>7 DEF ClearWriting
<1>8. CASE CheckDisk
  BY <1>8 DEF CheckDisk
<1> QED
  BY <1>2, <1>3, <1>4, <1>5, <1>6, <1>7, <1>8

LEMMA ChannelsCount == ASSUME NEW C \in SUBSET Chan PROVE Cardinality(C) \in Nat
<1>1. IsFiniteSet(Chan)
  BY RecorderAssumption, FS_Interval DEF Chan
<1>2. IsFiniteSet(C)
  BY <1>1, FS_Subset
<1> QED
  BY <1>2, FS_CardinalityType

\* What the writer sends when the disk is full, or has space again, are commands.
LEMMA CommandsTyped ==
  ASSUME NEW k \in EventKinds, NEW C \in SUBSET Chan, CommandEach(k, C)
  PROVE  \E r \in Seq(Cmds) : cmds' = cmds \o r /\ \A i \in 1..Len(r) : r[i][1] = k
<1>1. Cardinality(C) \in Nat
  BY ChannelsCount
<1>2. PICK o \in InOrder(C) : cmds' = cmds \o [i \in 1..Cardinality(C) |-> <<k, o[i]>>]
  BY DEF CommandEach
<1> DEFINE r == [i \in 1..Cardinality(C) |-> <<k, o[i]>>]
<1>3. r \in [1..Cardinality(C) -> Cmds]
  BY <1>2 DEF InOrder, Cmds
<1>4. Len(r) = Cardinality(C) /\ \A i \in 1..Cardinality(C) : r[i][1] = k
  BY <1>1
<1> HIDE DEF r
<1>5. r \in Seq(Cmds)
  BY <1>1, <1>3
<1>6. cmds' = cmds \o r
  BY <1>2 DEF r
<1> QED
  BY <1>4, <1>5, <1>6

LEMMA QueuesTypedNext ==
  ASSUME TypeOK, QueueInv', Next PROVE QueuesTyped'
<1> SUFFICES cmds' \in Seq(Cmds)
  BY DEF QueueInv, QueuesTyped
<1>1. cmds \in Seq(Cmds)
  BY DEF TypeOK
<1>2. ASSUME NEW c \in Chan, NEW p \in Producer,
             Offer(c, p) \/ OfferHotPlug(c, p) \/ Carry(c, p)
      PROVE  cmds' = cmds
  BY <1>2 DEF Offer, OfferHotPlug, Carry, PreRecord, Direct, Request, SeeRoom, GiveUp, Store,
              CheckRate, queues
<1>3. CASE Manager
  <2>1. CASE Command
    BY <1>1, <2>1 DEF Command
  <2>2. cmds' = cmds \/ Command
    BY <1>3 DEF Manager, Put, Post, NotWorking, SendPause, SendResume, SetPaused, UpdateRecStatus,
                DelayEnds, ClearDelay, queues
  <2> QED
    BY <1>1, <2>1, <2>2
<1>4. CASE Writer
  <2>1. CASE CheckDisk
    <3>1. {"pause", "resume"} \subseteq EventKinds
      BY DEF EventKinds
    <3>2. WhenFull \subseteq Chan /\ WhenSpace \subseteq Chan
      BY DEF WhenFull, WhenSpace
    <3>3. \E k \in EventKinds, C \in SUBSET Chan : CommandEach(k, C)
      BY <2>1, <3>1, <3>2 DEF CheckDisk, PauseEach
    <3>4. PICK r \in Seq(Cmds) : cmds' = cmds \o r
      BY <3>3, CommandsTyped
    <3> QED
      BY <1>1, <3>4
  <2>2. cmds' = cmds \/ CheckDisk
    BY <1>4 DEF Writer, Take, TakeNothing, DrainEnds, DrainFrame, ResetRing, Finish,
                ClearWriting, queues
  <2> QED
    BY <1>1, <2>1, <2>2
<1>5. ASSUME NEW c \in Chan, NEW k \in EventKinds, BizCommand(k, c) PROVE cmds' \in Seq(Cmds)
  <2>1. <<k, c>> \in Cmds
    BY DEF Cmds
  <2> QED
    BY <1>1, <1>5, <2>1 DEF BizCommand
<1>6. CASE WorldChanges
  BY <1>1, <1>6 DEF WorldChanges, queues
<1> QED
  BY <1>1, <1>2, <1>3, <1>4, <1>5, <1>6 DEF Next

LEMMA TypeInductive == TypeOK /\ QueueInv' /\ [Next]_vars => TypeOK'
<1> SUFFICES ASSUME TypeOK, QueueInv', [Next]_vars PROVE TypeOK'
  OBVIOUS
<1>1. CASE UNCHANGED vars
  <2>1. TypeOK' = TypeOK
    BY <1>1 DEF vars, TypeOK, queues, statuses, pauses, ring, writer, manager, world
  <2> QED
    BY <2>1
<1>2. CASE Next
  <2>1. QueuesTyped'
    BY <1>2, QueuesTypedNext
  <2>2. ASSUME NEW c \in Chan, NEW k \in EventKinds, BizCommand(k, c) PROVE TypeOK'
    <3>1. left' \in 0..MaxEvents
      <4>1. left > 0 /\ left' = left - 1
        BY <2>2 DEF BizCommand
      <4> QED
        BY <4>1, RecorderAssumption DEF TypeOK
    <3> QED
      BY <2>1, <2>2, <3>1
      DEF BizCommand, TypeOK, QueuesTyped, statuses, pauses, ring, writer, manager
  <2>3. CASE WorldChanges
    <3>1. left' \in 0..MaxEvents
      <4>1. left > 0 /\ left' = left - 1
        BY <2>3 DEF WorldChanges
      <4> QED
        BY <4>1, RecorderAssumption DEF TypeOK
    <3>2. full' \in BOOLEAN /\ hotplug' \in BOOLEAN /\ working' \in BOOLEAN
      BY <2>3, Zenon DEF WorldChanges, TypeOK
    <3> QED
      BY <2>1, <2>3, <3>1, <3>2
      DEF WorldChanges, TypeOK, QueuesTyped, statuses, pauses, ring, writer, manager
  <2> QED
    BY <1>2, <2>1, <2>2, <2>3, ProducerTypes, ManagerTypes, WriterTakesTypes,
       WriterServesTypes DEF Next, Writer
<1> QED
  BY <1>1, <1>2

\* For any number of channels, producers and events the state of the recorder keeps
\* its types: no ring holds more than its capacity, no counter leaves its range.
THEOREM TypeCorrect == Spec => []TypeOK
<1>1. Init => QueueInv
  BY QueueInitially
<1>2. Init => TypeOK
  <2> SUFFICES ASSUME Init PROVE TypeOK
    OBVIOUS
  <2>1. 1 \in Chan
    BY RecorderAssumption DEF Chan
  <2>2. 0 \in 0..Cap /\ 0 \in 0..Patience + 1 /\ MaxEvents \in 0..MaxEvents
    BY RecorderAssumption
  <2>3. /\ cmds \in Seq(Cmds) /\ msgs \in Seq(Msgs) /\ sem \in Nat
        /\ used \in [Chan -> 0..Cap] /\ giveUps \in [Chan -> 0..Patience + 1]
        /\ wmsg \in (MsgKind \cup {"none"}) \X Chan /\ sc \in Chan
        /\ left \in 0..MaxEvents
    BY <2>1, <2>2 DEF Init
  <2> QED
    BY <2>3 DEF Init, TypeOK
<1> QED
  BY <1>1, <1>2, QueueInductive, TypeInductive, PTL DEF Spec

(***************************************************************************)
(* What the writer has been told about pausing a channel.  Only the manager *)
(* gives it a word on that, FORCE_END or RESUME_REC; the writer's taking of *)
(* a message changes where the word is and not what it is.                  *)
(***************************************************************************)
Word(c) == {<<"forceEnd", c>>, <<"resume", c>>}

LEMMA QuietWord ==
  ASSUME NEW q \in Seq(Msgs), NEW ms \in Seq(Msgs), NEW a, NEW b,
         \A i \in 1..Len(ms) : ms[i] \notin {a, b}
  PROVE  /\ LastWordIs(q \o ms, a, b) <=> LastWordIs(q, a, b)
         /\ (\A i \in 1..Len(q \o ms) : (q \o ms)[i] # b) <=> \A i \in 1..Len(q) : q[i] # b
<1> DEFINE r == q \o ms
<1>1. /\ Len(r) = Len(q) + Len(ms) /\ Len(q) \in Nat /\ Len(ms) \in Nat
      /\ \A i \in 1..Len(q) : r[i] = q[i]
      /\ \A i \in (Len(q) + 1)..Len(r) : r[i] = ms[i - Len(q)]
  OBVIOUS
<1>2. \A i \in (Len(q) + 1)..Len(r) : r[i] \notin {a, b}
  <2> TAKE i \in (Len(q) + 1)..Len(r)
  <2>1. i - Len(q) \in 1..Len(ms)
    BY <1>1
  <2> QED
    BY <1>1, <2>1
<1> HIDE DEF r
<1>3. (\A i \in 1..Len(r) : r[i] # b) <=> \A i \in 1..Len(q) : q[i] # b
  BY <1>1, <1>2
<1>4. LastWordIs(r, a, b) => LastWordIs(q, a, b)
  <2> SUFFICES ASSUME NEW i \in 1..Len(r), r[i] = a,
                      \A j \in (i + 1)..Len(r) : r[j] # b
               PROVE  LastWordIs(q, a, b)
    BY DEF LastWordIs
  <2>1. i \in 1..Len(q)
    BY <1>1, <1>2
  <2>2. q[i] = a /\ \A j \in (i + 1)..Len(q) : q[j] # b
    BY <1>1, <2>1
  <2> QED
    BY <2>1, <2>2 DEF LastWordIs
<1>5. LastWordIs(q, a, b) => LastWordIs(r, a, b)
  <2> SUFFICES ASSUME NEW i \in 1..Len(q), q[i] = a,
                      \A j \in (i + 1)..Len(q) : q[j] # b
               PROVE  LastWordIs(r, a, b)
    BY DEF LastWordIs
  <2>1. i \in 1..Len(r) /\ r[i] = a
    BY <1>1
  <2>2. \A j \in (i + 1)..Len(r) : r[j] # b
    BY <1>1, <1>2
  <2> QED
    BY <2>1, <2>2 DEF LastWordIs
<1> QED
  BY <1>3, <1>4, <1>5 DEF r

\* A message that is no word on c changes nothing that c's writer is told.
LEMMA QuietToldSame ==
  ASSUME TypeOK, NEW m \in Msgs, WriteMsg(m), NEW c \in Chan, forced' = forced,
         m \notin Word(c)
  PROVE  ToldToPause(c)' <=> ToldToPause(c)
<1> DEFINE a == <<"forceEnd", c>>
           b == <<"resume", c>>
           ms == <<m>>
<1>1. msgs \in Seq(Msgs) /\ msgs' = msgs \o ms /\ ms \in Seq(Msgs)
  BY DEF WriteMsg, TypeOK
<1>2. m \notin {a, b}
  BY DEF Word
<1> HIDE DEF a, b
<1>3. \A i \in 1..Len(ms) : ms[i] \notin {a, b}
  BY <1>2
<1> HIDE DEF ms
<1>4. /\ LastWordIs(msgs \o ms, a, b) <=> LastWordIs(msgs, a, b)
      /\ (\A i \in 1..Len(msgs \o ms) : (msgs \o ms)[i] # b)
         <=> \A i \in 1..Len(msgs) : msgs[i] # b
  <2> DEFINE q == msgs
  <2> HIDE DEF q
  <2>1. q \in Seq(Msgs)
    BY <1>1 DEF q
  <2>2. /\ LastWordIs(q \o ms, a, b) <=> LastWordIs(q, a, b)
        /\ (\A i \in 1..Len(q \o ms) : (q \o ms)[i] # b) <=> \A i \in 1..Len(q) : q[i] # b
    BY <1>1, <2>1, <1>3, QuietWord
  <2> QED
    BY <2>2 DEF q
<1> QED
  BY <1>1, <1>4 DEF ToldToPause, LastWordIs, a, b

\* After RESUME_REC nothing the writer has been told says pause.
LEMMA ResumeEndsTold ==
  ASSUME TypeOK, NEW c \in Chan, WriteMsg(<<"resume", c>>)
  PROVE  ~ToldToPause(c)'
<1>1. msgs \in Seq(Msgs) /\ msgs' = Append(msgs, <<"resume", c>>)
  BY DEF WriteMsg, TypeOK
<1>2. /\ Len(msgs') = Len(msgs) + 1 /\ Len(msgs) \in Nat
      /\ msgs'[Len(msgs')] = <<"resume", c>>
  BY <1>1
<1>3. ~LastWordIs(msgs', <<"forceEnd", c>>, <<"resume", c>>)
  <2> SUFFICES ASSUME NEW i \in 1..Len(msgs'), msgs'[i] = <<"forceEnd", c>>,
                      \A j \in (i + 1)..Len(msgs') : msgs'[j] # <<"resume", c>>
               PROVE  FALSE
    BY DEF LastWordIs
  <2>1. i # Len(msgs')
    BY <1>2
  <2>2. Len(msgs') \in (i + 1)..Len(msgs')
    BY <1>2, <2>1
  <2> QED
    BY <1>2, <2>2
<1>4. Len(msgs') \in 1..Len(msgs')
  BY <1>2
<1> QED
  BY <1>2, <1>3, <1>4 DEF ToldToPause, LastWordIs

\* The writer takes a message: the word about a channel moves from the queue into
\* flag_force_writefile, or was overtaken by a later one.
LEMMA TakeToldSame ==
  ASSUME TypeOK, Take, NEW c \in Chan
  PROVE  ToldToPause(c)' <=> ToldToPause(c)
<1> DEFINE m == Head(msgs)
           a == <<"forceEnd", c>>
           b == <<"resume", c>>
           n == Len(msgs)
<1>1. /\ msgs \in Seq(Msgs) /\ n \in Nat \ {0} /\ msgs' = Tail(msgs) /\ m = msgs[1]
      /\ m \in Msgs
  BY DEF TypeOK, Take
<1>2. Len(msgs') = n - 1 /\ \A i \in 1..(n - 1) : msgs'[i] = msgs[i + 1]
  BY <1>1
<1>3. (\A i \in 1..n : msgs[i] # b) <=> (m # b /\ \A i \in 1..(n - 1) : msgs'[i] # b)
  <2>1. ASSUME \A i \in 1..n : msgs[i] # b PROVE m # b /\ \A i \in 1..(n - 1) : msgs'[i] # b
    BY <1>1, <1>2, <2>1
  <2>2. ASSUME m # b, \A i \in 1..(n - 1) : msgs'[i] # b, NEW i \in 1..n PROVE msgs[i] # b
    <3>1. CASE i = 1
      BY <1>1, <2>2, <3>1
    <3>2. CASE i # 1
      <4>1. i - 1 \in 1..(n - 1) /\ msgs'[i - 1] = msgs[(i - 1) + 1]
        BY <1>1, <1>2, <3>2
      <4> QED
        BY <2>2, <4>1
    <3> QED
      BY <3>1, <3>2
  <2> QED
    BY <2>1, <2>2
<1>4. LastWordIs(msgs, a, b)
      <=> LastWordIs(msgs', a, b) \/ (m = a /\ \A i \in 1..(n - 1) : msgs'[i] # b)
  <2>1. ASSUME NEW i \in 1..n, msgs[i] = a, \A j \in (i + 1)..n : msgs[j] # b
        PROVE  LastWordIs(msgs', a, b) \/ (m = a /\ \A j \in 1..(n - 1) : msgs'[j] # b)
    <3>1. \A j \in i..(n - 1) : msgs'[j] # b
      <4> TAKE j \in i..(n - 1)
      <4>1. j + 1 \in (i + 1)..n /\ j \in 1..(n - 1)
        BY <1>1
      <4> QED
        BY <1>2, <2>1, <4>1
    <3>2. CASE i = 1
      BY <1>1, <2>1, <3>1, <3>2
    <3>3. CASE i # 1
      <4>1. i - 1 \in 1..(n - 1) /\ msgs'[i - 1] = msgs[(i - 1) + 1]
        BY <1>1, <1>2, <3>3
      <4>2. msgs'[i - 1] = a /\ \A j \in ((i - 1) + 1)..(n - 1) : msgs'[j] # b
        BY <2>1, <3>1, <4>1
      <4> QED
        BY <1>2, <4>1, <4>2 DEF LastWordIs
    <3> QED
      BY <3>2, <3>3
  <2>2. ASSUME NEW i \in 1..(n - 1), msgs'[i] = a, \A j \in (i + 1)..(n - 1) : msgs'[j] # b
        PROVE  LastWordIs(msgs, a, b)
    <3>1. i + 1 \in 1..n /\ msgs[i + 1] = a
      BY <1>1, <1>2, <2>2
    <3>2. \A j \in ((i + 1) + 1)..n : msgs[j] # b
      <4> TAKE j \in ((i + 1) + 1)..n
      <4>1. j - 1 \in (i + 1)..(n - 1) /\ j - 1 \in 1..(n - 1)
        BY <1>1
      <4>2. msgs'[j - 1] = msgs[(j - 1) + 1]
        BY <1>2, <4>1
      <4> QED
        BY <2>2, <4>1, <4>2
    <3> QED
      BY <3>1, <3>2 DEF LastWordIs
  <2>3. ASSUME m = a, \A j \in 1..(n - 1) : msgs'[j] # b
        PROVE  LastWordIs(msgs, a, b)
    <3>1. \A j \in (1 + 1)..n : msgs[j] # b
      <4> TAKE j \in (1 + 1)..n
      <4>1. j - 1 \in 1..(n - 1)
        BY <1>1
      <4>2. msgs'[j - 1] = msgs[(j - 1) + 1]
        BY <1>2, <4>1
      <4> QED
        BY <2>3, <4>1, <4>2
    <3>2. 1 \in 1..n /\ msgs[1] = a
      BY <1>1, <2>3
    <3> QED
      BY <3>1, <3>2 DEF LastWordIs
  <2> QED
    BY <1>2, <2>1, <2>2, <2>3 DEF LastWordIs
<1>5. forced'[c] = IF m = b THEN FALSE ELSE IF m = a THEN TRUE ELSE forced[c]
  <2>1. m[1] \in MsgKind /\ m[2] \in Chan /\ m = <<m[1], m[2]>>
    BY <1>1 DEF Msgs
  <2>2. CASE m = b
    <3>1. m[1] = "resume" /\ m[2] = c /\ Heeds(m)
      BY <2>2 DEF Heeds
    <3>2. forced' = [forced EXCEPT ![c] = FALSE]
      BY <3>1 DEF Take
    <3> QED
      BY <2>2, <3>2 DEF TypeOK
  <2>3. CASE m = a
    <3>1. m[1] = "forceEnd" /\ m[2] = c
      BY <2>3
    <3>2. CASE forced[c]
      <4>1. forced' = forced
        BY <3>1, <3>2 DEF Take, Heeds
      <4> QED
        BY <2>3, <3>2, <4>1 DEF TypeOK
    <3>3. CASE ~forced[c]
      <4>1. forced' = [forced EXCEPT ![c] = TRUE]
        BY <3>1, <3>3 DEF Take, Heeds
      <4> QED
        BY <2>3, <4>1 DEF TypeOK
    <3> QED
      BY <3>2, <3>3
  <2>4. CASE m # a /\ m # b
    <3>1. m[2] # c \/ m[1] \notin {"forceEnd", "resume"}
      BY <2>1, <2>4
    <3>2. forced' = forced \/ (m[1] \in {"forceEnd", "resume"}
                               /\ \E v \in BOOLEAN : forced' = [forced EXCEPT ![m[2]] = v])
      BY DEF Take
    <3> QED
      BY <2>1, <2>4, <3>1, <3>2 DEF TypeOK
  <2> QED
    BY <2>2, <2>3, <2>4
<1> HIDE DEF m, n
<1>6. ToldToPause(c) <=> LastWordIs(msgs, a, b) \/ (forced[c] /\ \A i \in 1..n : msgs[i] # b)
  BY DEF ToldToPause, n
<1>7. ToldToPause(c)'
      <=> LastWordIs(msgs', a, b) \/ (forced'[c] /\ \A i \in 1..(n - 1) : msgs'[i] # b)
  BY <1>2 DEF ToldToPause, LastWordIs
<1> HIDE DEF a, b
<1>8. CASE m = b
  <2>1. m # a
    BY <1>8 DEF a, b
  <2> QED
    BY <1>3, <1>4, <1>5, <1>6, <1>7, <1>8, <2>1
<1> QED
  BY <1>3, <1>4, <1>5, <1>6, <1>7, <1>8

\* PauseAgreement needs two facts more to be inductive: the manager has a word on
\* pausing in hand only while it pauses or resumes that channel; and between
\* RESUME_REC and g_ChnPaused = 0 the writer has not been told to pause, unless
\* RESUME_REC is still in hand.
InHand ==
  \A i \in 1..Len(out) :
    /\ out[i][1] = "forceEnd" => spc = "pauseSet" /\ out[i][2] = sc
    /\ out[i][1] = "resume" => spc = "resumeSet" /\ out[i][2] = sc

PauseInv ==
  /\ PauseAgreement
  /\ InHand
  /\ \A c \in Chan : AtChn(c, "resumeSet") => ~ToldToPause(c) \/ out = <<<<"resume", c>>>>

\* No word on pausing in hand.
NoWordInHand == \A i \in 1..Len(out) : out[i][1] \notin {"forceEnd", "resume"}

\* Steps after which every channel has been told what it had been told.
LEMMA PauseKept ==
  ASSUME PauseInv, sentPause' = sentPause, \A c \in Chan : ToldToPause(c)' <=> ToldToPause(c),
         \/ UNCHANGED <<spc, sc, out>>
         \/ /\ spc \notin {"pauseSet", "resumeSet"} /\ spc' \notin {"pauseSet", "resumeSet"}
            /\ NoWordInHand'
  PROVE  PauseInv'
<1>1. CASE UNCHANGED <<spc, sc, out>>
  BY <1>1 DEF PauseInv, PauseAgreement, InHand, AtChn
<1>2. CASE /\ spc \notin {"pauseSet", "resumeSet"} /\ spc' \notin {"pauseSet", "resumeSet"}
           /\ NoWordInHand'
  <2>1. InHand'
    BY <1>2 DEF NoWordInHand, InHand
  <2>2. PauseAgreement' /\ \A c \in Chan : ~AtChn(c, "resumeSet")'
    BY <1>2 DEF PauseInv, PauseAgreement, AtChn
  <2> QED
    BY <2>1, <2>2 DEF PauseInv
<1> QED
  BY <1>1, <1>2

\* ... because no message went to the writer.
LEMMA SilentSteps ==
  ASSUME UNCHANGED <<msgs, forced>> PROVE \A c \in Chan : ToldToPause(c)' <=> ToldToPause(c)
BY DEF ToldToPause, LastWordIs

\* What an action of RecordUpdateRecStatus hands over is no word on pausing.
LEMMA HandedIsQuiet ==
  ASSUME NEW c \in Chan, Handed(c), out = <<>> PROVE NoWordInHand'
<1>1. CASE out' = <<>>
  BY <1>1 DEF NoWordInHand
<1>2. ASSUME NEW k \in QuietKind, out' = <<<<k, c>>>> PROVE NoWordInHand'
  BY <1>2 DEF NoWordInHand, QuietKind
<1>3. CASE out' = <<<<"run", c>>, <<"update", c>>>>
  BY <1>3 DEF NoWordInHand
<1> QED
  BY <1>1, <1>2, <1>3 DEF Handed, Hand

LEMMA PutAgrees == ASSUME TypeOK, PauseInv, Put PROVE PauseInv'
<1> DEFINE m == Head(out)
<1>1. /\ out \in Seq(Msgs) /\ Len(out) \in Nat \ {0} /\ m = out[1] /\ m \in Msgs
      /\ out' = Tail(out) /\ Len(out') = Len(out) - 1
      /\ \A i \in 1..Len(out') : out'[i] = out[i + 1] /\ i + 1 \in 1..Len(out)
  BY DEF TypeOK, Put
<1>2. UNCHANGED <<forced, sentPause, spc, sc>> /\ WriteMsg(m)
  BY DEF Put, writer, pauses
<1>3. InHand'
  BY <1>1, <1>2 DEF PauseInv, InHand
<1>4. /\ m[1] = "forceEnd" => spc = "pauseSet" /\ m[2] = sc
      /\ m[1] = "resume" => spc = "resumeSet" /\ m[2] = sc
  BY <1>1 DEF PauseInv, InHand
<1>5. \A d \in Chan : m \notin Word(d) => (ToldToPause(d)' <=> ToldToPause(d))
  BY <1>1, <1>2, QuietToldSame
<1>6. \A d \in Chan : m \in Word(d) => m[2] = d /\ m[1] \in {"forceEnd", "resume"}
  BY DEF Word
<1> HIDE DEF m
<1>7. CASE m[1] = "resume"
  <2>1. m = <<"resume", sc>> /\ sc \in Chan /\ spc = "resumeSet"
    BY <1>1, <1>4, <1>7 DEF Msgs
  <2>2. ~ToldToPause(sc)'
    BY <1>2, <2>1, ResumeEndsTold
  <2>3. \A d \in Chan : d # sc => (ToldToPause(d)' <=> ToldToPause(d))
    BY <1>5, <1>6, <2>1
  <2>4. PauseAgreement'
    BY <1>2, <2>2, <2>3 DEF PauseInv, PauseAgreement, AtChn
  <2> QED
    BY <1>2, <1>3, <2>2, <2>4 DEF PauseInv, AtChn
<1>8. CASE m[1] # "resume"
  <2>1. \A d \in Chan : ~AtChn(d, "pauseSet") => (ToldToPause(d)' <=> ToldToPause(d))
    BY <1>4, <1>5, <1>6, <1>8 DEF AtChn
  <2>2. PauseAgreement'
    BY <1>2, <2>1 DEF PauseInv, PauseAgreement, AtChn
  <2>3. \A d \in Chan : out # <<<<"resume", d>>>>
    BY <1>1, <1>8
  <2>4. \A d \in Chan : AtChn(d, "resumeSet") => ~ToldToPause(d)'
    BY <2>1, <2>3 DEF PauseInv, AtChn
  <2> QED
    BY <1>2, <1>3, <2>2, <2>4 DEF PauseInv, AtChn
<1> QED
  BY <1>7, <1>8

LEMMA ManagerAgrees == ASSUME TypeOK, PauseInv, Manager PROVE PauseInv'
<1> USE DEF writer
<1>1. CASE NotWorking
  <2>1. out' = [d \in Chan |-> <<"flush", d>>] /\ UNCHANGED <<msgs, forced, sentPause, spc>>
        /\ spc = "cmd"
    BY <1>1 DEF NotWorking, Hand, queues, pauses
  <2>2. Len(out') = NumChan
    BY <2>1, RecorderAssumption DEF Chan
  <2>3. NoWordInHand'
    BY <2>1, <2>2 DEF NoWordInHand, Chan
  <2> QED
    BY <2>1, <2>3, SilentSteps, PauseKept
<1>2. CASE Command
  <2>1. UNCHANGED <<msgs, forced, sentPause>> /\ spc = "cmd" /\ spc' = "chn" /\ out' = <<>>
    BY <1>2 DEF Command, Free
  <2>2. NoWordInHand'
    BY <2>1 DEF NoWordInHand
  <2> QED
    BY <2>1, <2>2, SilentSteps, PauseKept
<1>3. ASSUME NEW c \in Chan, SendPause(c) PROVE PauseInv'
  <2>1. /\ UNCHANGED <<msgs, forced, sentPause, sc>>
        /\ spc = "chn" /\ spc' = "pauseSet" /\ sc = c
        /\ out' \in {<<<<"forceEnd", c>>>>, <<>>}
    BY <1>3 DEF SendPause, Hand, queues, pauses, AtChn
  <2>2. InHand'
    BY <2>1 DEF InHand
  <2> QED
    BY <2>1, <2>2, SilentSteps DEF PauseInv, PauseAgreement, AtChn
<1>4. ASSUME NEW c \in Chan, SendResume(c) PROVE PauseInv'
  <2>1. /\ UNCHANGED <<msgs, forced, sentPause, sc>>
        /\ spc = "chn" /\ spc' = "resumeSet" /\ sc = c
        /\ out' = <<<<"resume", c>>>>
    BY <1>4 DEF SendResume, ResumeMsg, Hand, queues, pauses, AtChn
  <2>2. InHand'
    BY <2>1 DEF InHand
  <2> QED
    BY <2>1, <2>2, SilentSteps DEF PauseInv, PauseAgreement, AtChn
<1>5. ASSUME NEW c \in Chan, SetPaused(c) PROVE PauseInv'
  <2>1. UNCHANGED <<msgs, forced>> /\ sc' = sc /\ sc = c /\ spc' = "update"
        /\ out = <<>> /\ out' = <<>>
    BY <1>5 DEF SetPaused, Free, queues, AtChn
  <2>2. \A d \in Chan : ToldToPause(d)' <=> ToldToPause(d)
    BY <2>1, SilentSteps
  <2>3. \/ spc = "pauseSet" /\ sentPause' = [sentPause EXCEPT ![c] = TRUE]
        \/ spc = "resumeSet" /\ sentPause' = [sentPause EXCEPT ![c] = FALSE]
    BY <1>5 DEF SetPaused, AtChn
  <2>4. spc = "resumeSet" => ~ToldToPause(c)
    BY <2>1 DEF PauseInv, AtChn
  <2>5. PauseAgreement'
    <3>1. \A d \in Chan : d # c => sentPause'[d] = sentPause[d]
      BY <2>3 DEF TypeOK
    <3>2. spc = "pauseSet" => sentPause'[c]
      BY <2>3 DEF TypeOK
    <3>3. \A d \in Chan : d # c => (ToldToPause(d) => sentPause[d])
      BY <2>1 DEF PauseInv, PauseAgreement, AtChn
    <3>4. spc = "pauseSet" \/ ~ToldToPause(c)'
      BY <2>2, <2>3, <2>4
    <3> QED
      BY <2>2, <3>1, <3>2, <3>3, <3>4 DEF PauseAgreement
  <2>6. InHand'
    BY <2>1 DEF InHand
  <2> QED
    BY <2>1, <2>5, <2>6 DEF PauseInv, AtChn
<1>6. ASSUME NEW c \in Chan, UpdateRecStatus(c) \/ DelayEnds(c) \/ ClearDelay(c)
      PROVE  PauseInv'
  <2>1. /\ UNCHANGED <<msgs, forced, sentPause>> /\ out = <<>>
        /\ spc \notin {"pauseSet", "resumeSet"} /\ spc' \notin {"pauseSet", "resumeSet"}
    BY <1>6 DEF UpdateRecStatus, DelayEnds, ClearDelay, AtUpdate, NextChn, Free, queues, pauses,
                AtChn
  <2>2. NoWordInHand'
    BY <1>6, <2>1, UpdateHands, HandedIsQuiet
  <2> QED
    BY <2>1, <2>2, SilentSteps, PauseKept
<1>7. CASE Post
  BY <1>7, SilentSteps, PauseKept DEF Post, pauses
<1> QED
  BY <1>1, <1>2, <1>3, <1>4, <1>5, <1>6, <1>7, PutAgrees DEF Manager

\* What a producer writes is READ_BUF.
LEMMA ProducerWrites ==
  ASSUME NEW c \in Chan, NEW p \in Producer, Offer(c, p) \/ OfferHotPlug(c, p) \/ Carry(c, p)
  PROVE  UNCHANGED msgs \/ WriteMsg(<<"readBuf", c>>)
BY DEF Offer, OfferHotPlug, Carry, PreRecord, Direct, Request, RequestRead, SetFlag,
       WriteReadBuf, PostReadBuf, SeeRoom, GiveUp, Store, CheckRate, queues

LEMMA PauseInductive == TypeOK /\ PauseInv /\ [Next]_vars => PauseInv'
<1> SUFFICES ASSUME TypeOK, PauseInv, [Next]_vars PROVE PauseInv'
  OBVIOUS
<1>1. ASSUME NEW c \in Chan, NEW p \in Producer,
             Offer(c, p) \/ OfferHotPlug(c, p) \/ Carry(c, p)
      PROVE  PauseInv'
  <2>1. UNCHANGED <<forced, sentPause, spc, sc, out>>
    BY <1>1 DEF Offer, OfferHotPlug, Carry, PreRecord, Direct, Request, SeeRoom, GiveUp, Store,
                CheckRate, writer, pauses, manager
  <2>2. UNCHANGED msgs \/ WriteMsg(<<"readBuf", c>>)
    BY <1>1, ProducerWrites
  <2>3. <<"readBuf", c>> \in Msgs /\ \A d \in Chan : <<"readBuf", c>> \notin Word(d)
    BY DEF Msgs, MsgKind, Word
  <2> QED
    BY <2>1, <2>2, <2>3, SilentSteps, QuietToldSame, PauseKept
<1>2. CASE Writer
  <2>1. UNCHANGED <<sentPause, spc, sc, out>>
    BY <1>2 DEF Writer, Take, TakeNothing, DrainEnds, DrainFrame, ResetRing, Finish, ClearWriting,
                CheckDisk, pauses, manager
  <2>2. CASE Take
    BY <2>1, <2>2, TakeToldSame, PauseKept
  <2>3. UNCHANGED <<msgs, forced>> \/ Take
    BY <1>2 DEF Writer, TakeNothing, DrainEnds, DrainFrame, ResetRing, Finish, ClearWriting,
                CheckDisk, queues
  <2> QED
    BY <2>1, <2>2, <2>3, SilentSteps, PauseKept
<1>3. CASE \/ \E c \in Chan, k \in EventKinds : BizCommand(k, c)
           \/ WorldChanges \/ UNCHANGED vars
  <2>1. UNCHANGED <<msgs, forced, sentPause, spc, sc, out>>
    BY <1>3 DEF BizCommand, WorldChanges, vars, queues, pauses, writer, manager
  <2> QED
    BY <2>1, SilentSteps, PauseKept
<1> QED
  BY <1>1, <1>2, <1>3, ManagerAgrees DEF Next

\* Two flags nobody protects, flag_sendmsg_pause of the manager and
\* flag_force_writefile of the writer, agree across the queue between the two
\* threads, for any number of channels and whatever is in the queue.
THEOREM PausesAgree == Spec => []PauseAgreement
<1>1. Init => PauseInv
  BY DEF Init, PauseInv, PauseAgreement, InHand, ToldToPause, LastWordIs, AtChn
<1>2. PauseInv => PauseAgreement
  BY DEF PauseInv
<1> QED
  BY <1>1, <1>2, TypeCorrect, PauseInductive, PTL DEF Spec

(***************************************************************************)
(* Beginnings and ends of a recording.                                      *)
(***************************************************************************)
Transition(c) ==
  /\ ~Active(c) /\ Active(c)' => out' = <<<<"run", c>>, <<"update", c>>>>
  /\ Active(c) /\ ~Active(c)' => out' = <<<<"runIdle", c>>>> \/ AtChn(c, "over")
  /\ ~AtChn(c, "over") /\ AtChn(c, "over")' => out' = <<<<"delayIdle", c>>>>

LEMMA UpdateTells ==
  ASSUME TypeOK, NEW d \in Chan, UpdateRecStatus(d), NEW c \in Chan
  PROVE  Transition(c)
<1>1. past' = [past EXCEPT ![d] = status[d]]
  BY DEF UpdateRecStatus
<1>2. past'[d] = status[d] /\ \A e \in Chan : e # d => past'[e] = past[e]
  BY <1>1 DEF TypeOK
<1>3. Starts(d) \/ Ends(d) \/ Changes(d) \/ Rests(d) \/ DelayRuns(d) \/ Goes(d)
  BY DEF UpdateRecStatus
<1>4. delay' = delay \/ \E S \in SUBSET Cause : delay' = [delay EXCEPT ![d] = S]
  BY <1>3 DEF Starts, Ends, Changes, Rests, DelayRuns, Goes, TypeOK
<1>5. \A e \in Chan : e # d => delay'[e] = delay[e]
  BY <1>4 DEF TypeOK
<1>0. ~AtChn(c, "over")'
  BY DEF UpdateRecStatus, NextChn, AtChn
<1>6. CASE c # d
  BY <1>0, <1>2, <1>5, <1>6 DEF Transition, Active
<1>7. CASE c = d
  <2>1. CASE Starts(d)
    <3>1. out' = <<<<"run", d>>, <<"update", d>>>>
      BY <2>1 DEF Starts, Hand
    <3>2. Active(d)'
      BY <2>1, <1>2 DEF Starts, Active
    <3> QED
      BY <1>0, <1>7, <3>1, <3>2 DEF Transition
  <2>2. CASE Ends(d)
    <3>1. Active(d)
      BY <2>2 DEF Ends, Active
    <3>2. CASE "alarm" \in past[d] /\ DelayOn
      <4>1. delay' = [delay EXCEPT ![d] = past[d]]
        BY <2>2, <3>2 DEF Ends
      <4>2. delay'[d] = past[d]
        BY <4>1 DEF TypeOK
      <4>3. Active(d)'
        BY <2>2, <4>2 DEF Ends, Active
      <4> QED
        BY <1>0, <1>7, <3>1, <4>3 DEF Transition
    <3>3. CASE ~("alarm" \in past[d] /\ DelayOn)
      <4>1. out' = <<<<"runIdle", d>>>>
        BY <2>2, <3>3 DEF Ends, Hand
      <4> QED
        BY <1>0, <1>7, <3>1, <4>1 DEF Transition
    <3> QED
      BY <3>2, <3>3
  <2>3. CASE Changes(d) \/ Goes(d) \/ DelayRuns(d)
    <3>1. Active(d) /\ Active(d)'
      BY <2>3, <1>2 DEF Changes, Goes, DelayRuns, Active
    <3> QED
      BY <1>0, <1>7, <3>1 DEF Transition
  <2>4. CASE Rests(d)
    <3>1. delay' = delay /\ past[d] = {} /\ status[d] = {} /\ delay[d] = {}
      BY <2>4 DEF Rests
    <3>2. ~Active(d) /\ ~Active(d)'
      BY <3>1, <1>2 DEF Active
    <3> QED
      BY <1>0, <1>7, <3>2 DEF Transition
  <2> QED
    BY <1>3, <2>1, <2>2, <2>3, <2>4
<1> QED
  BY <1>6, <1>7

\* The delay whose end has been handed over is still there.
OverInv == spc = "over" => delay[sc] # {}

\* The delay of a channel is cleared only behind the word that it is over.
LEMMA DelayTells ==
  ASSUME TypeOK, OverInv, NEW d \in Chan, DelayEnds(d) \/ ClearDelay(d), NEW c \in Chan
  PROVE  Transition(c)
<1>1. CASE DelayEnds(d)
  <2>1. UNCHANGED <<past, delay, sc>> /\ out' = <<<<"delayIdle", d>>>> /\ spc # "over" /\ sc = d
    BY <1>1 DEF DelayEnds, DelayOver, Hand, AtUpdate, AtChn, statuses
  <2> QED
    BY <2>1 DEF Transition, Active, AtChn
<1>2. CASE ClearDelay(d)
  <2>1. /\ AtChn(d, "over") /\ ~AtChn(c, "over")'
        /\ delay' = [delay EXCEPT ![d] = {}] /\ past' = [past EXCEPT ![d] = status[d]]
    BY <1>2 DEF ClearDelay, NextChn, AtChn
  <2>2. CASE c = d
    <3>1. Active(d)
      BY <2>1 DEF OverInv, Active, AtChn
    <3> QED
      BY <2>1, <2>2, <3>1 DEF Transition
  <2>3. CASE c # d
    <3>1. delay'[c] = delay[c] /\ past'[c] = past[c]
      BY <2>1, <2>3 DEF TypeOK
    <3> QED
      BY <2>1, <3>1 DEF Transition, Active
  <2> QED
    BY <2>2, <2>3
<1> QED
  BY <1>1, <1>2

\* The other steps leave the status alone, and the manager's place "over".
LEMMA StatusKept ==
  ASSUME [Next]_vars
  PROVE  \/ UNCHANGED <<past, delay>> /\ (spc' = "over" => UNCHANGED <<spc, sc>>)
         \/ \E d \in Chan : UpdateRecStatus(d) \/ DelayEnds(d) \/ ClearDelay(d)
<1>1. ASSUME NEW c \in Chan, NEW p \in Producer,
             Offer(c, p) \/ OfferHotPlug(c, p) \/ Carry(c, p)
      PROVE  UNCHANGED <<past, delay, spc, sc>>
  BY <1>1 DEF Offer, OfferHotPlug, Carry, PreRecord, Direct, Request, SeeRoom, GiveUp, Store,
              CheckRate, statuses, manager
<1>2. CASE Command \/ \E c \in Chan : SendPause(c) \/ SendResume(c) \/ SetPaused(c)
  BY <1>2 DEF Command, SendPause, SendResume, SetPaused, statuses
<1>3. CASE Put \/ Post \/ NotWorking
  BY <1>3 DEF Put, Post, NotWorking, statuses
<1>4. CASE Writer
  BY <1>4 DEF Writer, Take, TakeNothing, DrainEnds, DrainFrame, ResetRing, Finish, ClearWriting,
              CheckDisk, statuses, manager
<1>5. CASE \/ \E c \in Chan, k \in EventKinds : BizCommand(k, c)
           \/ WorldChanges \/ UNCHANGED vars
  BY <1>5 DEF BizCommand, WorldChanges, vars, statuses, manager
<1> QED
  BY <1>1, <1>2, <1>3, <1>4, <1>5 DEF Next, Manager

LEMMA EveryTransitionTold ==
  ASSUME TypeOK, OverInv, [Next]_vars PROVE OverInv' /\ \A c \in Chan : Transition(c)
<1>1. CASE \E d \in Chan : UpdateRecStatus(d) \/ DelayEnds(d) \/ ClearDelay(d)
  <2>1. \A c \in Chan : Transition(c)
    BY <1>1, UpdateTells, DelayTells
  <2>2. OverInv'
    BY <1>1 DEF OverInv, UpdateRecStatus, DelayEnds, ClearDelay, NextChn, AtUpdate, AtChn, statuses
  <2> QED
    BY <2>1, <2>2
<1>2. CASE UNCHANGED <<past, delay>> /\ (spc' = "over" => UNCHANGED <<spc, sc>>)
  BY <1>2 DEF Transition, Active, OverInv, AtChn
<1> QED
  BY <1>1, <1>2, StatusKept

\* For any number of channels and any order of causes, commands and messages, the
\* step that begins a recording hands RUN and UPDATE to the writer, the step that
\* ends one RUN_IDLE, and a delay ends only behind DELAY_IDLE (RecordUpdateRecStatus).
THEOREM TransitionsTold == Spec => TransitionsAreTold
<1>1. Init => OverInv
  BY DEF Init, OverInv
<1>2. TypeOK /\ OverInv /\ [Next]_vars => OverInv'
  BY EveryTransitionTold
<1>3. TypeOK /\ OverInv /\ [Next]_vars =>
      [\A c \in Chan :
         /\ ~Active(c) /\ Active(c)' => out' = <<<<"run", c>>, <<"update", c>>>>
         /\ Active(c) /\ ~Active(c)' => out' = <<<<"runIdle", c>>>> \/ AtChn(c, "over")
         /\ ~AtChn(c, "over") /\ AtChn(c, "over")' => out' = <<<<"delayIdle", c>>>>]_vars
  BY EveryTransitionTold DEF Transition
<1> QED
  BY <1>1, <1>2, <1>3, TypeCorrect, PTL DEF Spec, TransitionsAreTold

(***************************************************************************)
(* The flag that says a READ_BUF is coming.  As long as nothing can pause a *)
(* channel no READ_BUF is dropped, so the flag always has its message.  (A  *)
(* pause does break it: SavingStarts fails in RecorderStall.cfg.)           *)
(***************************************************************************)
NothingPauses == Events \cap {"pause", "format", "full"} = {}

NeverPaused ==
  /\ full = FALSE /\ stopped = FALSE /\ formatted = TRUE
  /\ \A i \in 1..Len(cmds) : cmds[i][1] # "pause"
  /\ \A i \in 1..Len(msgs) : msgs[i][1] # "forceEnd"
  /\ \A i \in 1..Len(out) : out[i][1] # "forceEnd"
  /\ \A c \in Chan : ~flagPause[c] /\ ~forced[c]

Coming(c) ==
  \/ \E p \in Producer : ppc[c][p] \in {"sendFull", "sendHigh"}
  \/ \E i \in 1..Len(msgs) : msgs[i] = <<"readBuf", c>>
  \/ Serving(c)

\* A message in the queue stays where it is when another one is written.
LEMMA QueuedStays ==
  ASSUME TypeOK, NEW m \in Msgs, WriteMsg(m)
  PROVE  /\ \A i \in 1..Len(msgs) : i \in 1..Len(msgs') /\ msgs'[i] = msgs[i]
         /\ \A i \in 1..Len(msgs') : (\E j \in 1..Len(msgs) : msgs'[i] = msgs[j]) \/ msgs'[i] = m
         /\ Len(msgs') \in 1..Len(msgs') /\ msgs'[Len(msgs')] = m
<1>1. /\ msgs \in Seq(Msgs) /\ Len(msgs) \in Nat /\ Len(msgs') = Len(msgs) + 1
      /\ \A i \in 1..Len(msgs) : msgs'[i] = msgs[i]
      /\ msgs'[Len(msgs) + 1] = m
  BY DEF WriteMsg, TypeOK
<1> QED
  BY <1>1

LEMMA ProducerFlags ==
  ASSUME TypeOK, FlagHasMessage, NEW c \in Chan, NEW p \in Producer,
         Offer(c, p) \/ OfferHotPlug(c, p) \/ Carry(c, p)
  PROVE  FlagHasMessage'
<1>1. \A d \in Chan : flag[d] => Coming(d)
  BY DEF FlagHasMessage, Coming
<1>2. SUFFICES \A d \in Chan : flag'[d] => Coming(d)'
  BY DEF FlagHasMessage, Coming
<1>3. \A d \in Chan : Serving(d)' <=> Serving(d)
  BY DEF Offer, OfferHotPlug, Carry, PreRecord, Direct, Request, SeeRoom, GiveUp, Store,
         CheckRate, writer, Serving
<1>4. ASSUME NEW where, GoTo(c, p, where)
      PROVE  /\ ppc'[c][p] = where
             /\ \A d \in Chan, q \in Producer : d # c \/ q # p => ppc'[d][q] = ppc[d][q]
  <2>1. ppc \in [Chan -> [Producer -> ProducerAt]]
    BY DEF TypeOK, ProducerAt
  <2> QED
    BY <1>4, <2>1 DEF GoTo
<1>5. CASE OfferHotPlug(c, p)
  BY <1>1, <1>3, <1>5 DEF OfferHotPlug, queues, Coming
<1>6. CASE Offer(c, p) \/ PreRecord(c, p) \/ Direct(c, p) \/ SeeRoom(c, p) \/ GiveUp(c, p)
           \/ Store(c, p) \/ CheckRate(c, p)
  <2>1. UNCHANGED <<msgs, flag>>
    BY <1>6 DEF Offer, PreRecord, Direct, SeeRoom, GiveUp, Store, CheckRate, queues, ring
  <2>2. ppc[c][p] \notin {"sendFull", "sendHigh"} /\ \E where \in ProducerAt : GoTo(c, p, where)
    BY <1>6 DEF Offer, PreRecord, Direct, SeeRoom, GiveUp, Store, CheckRate, At, ProducerAt
  <2>3. \A d \in Chan, q \in Producer : ppc[d][q] \in {"sendFull", "sendHigh"} => ppc'[d][q] = ppc[d][q]
    BY <1>4, <2>2
  <2> QED
    BY <1>1, <1>3, <2>1, <2>3 DEF Coming
<1>7. CASE Request(c, p)
  <2>1. PICK s \in Asks :
          \/ At(c, p, s[1]) /\ SetFlag(c) /\ GoTo(c, p, s[2])
          \/ At(c, p, s[2]) /\ WriteReadBuf(c) /\ GoTo(c, p, s[3])
          \/ At(c, p, s[3]) /\ PostReadBuf /\ GoTo(c, p, s[4])
    BY <1>7, Zenon DEF Request, RequestRead
  <2>2. /\ s[2] \in {"sendFull", "sendHigh"} /\ s[3] \notin {"sendFull", "sendHigh"}
        /\ s[2] \in ProducerAt /\ s[3] \in ProducerAt /\ s[4] \in ProducerAt
    BY DEF Asks, ProducerAt
  <2>3. CASE At(c, p, s[1]) /\ SetFlag(c) /\ GoTo(c, p, s[2])
    <3>1. ppc'[c][p] \in {"sendFull", "sendHigh"} /\ Coming(c)'
      BY <1>4, <2>2, <2>3 DEF Coming
    <3>2. \A d \in Chan : d # c => flag'[d] = flag[d]
      BY <2>3 DEF SetFlag, TypeOK
    <3>3. msgs' = msgs
      BY <2>3 DEF SetFlag
    <3>4. \A d \in Chan : d # c => \A q \in Producer : ppc'[d][q] = ppc[d][q]
      BY <1>4, <2>3
    <3> QED
      BY <1>1, <1>3, <3>1, <3>2, <3>3, <3>4 DEF Coming
  <2>4. CASE At(c, p, s[2]) /\ WriteReadBuf(c) /\ GoTo(c, p, s[3])
    <3>1. flag' = flag /\ WriteMsg(<<"readBuf", c>>)
      BY <2>4 DEF WriteReadBuf
    <3>2. <<"readBuf", c>> \in Msgs
      BY DEF Msgs, MsgKind
    <3>3. /\ \A i \in 1..Len(msgs) : i \in 1..Len(msgs') /\ msgs'[i] = msgs[i]
          /\ Len(msgs') \in 1..Len(msgs') /\ msgs'[Len(msgs')] = <<"readBuf", c>>
      BY <3>1, <3>2, QueuedStays
    <3>5. \A d \in Chan : d # c => \A q \in Producer : ppc'[d][q] = ppc[d][q]
      BY <1>4, <2>4
    <3>6. Coming(c)'
      BY <3>3 DEF Coming
    <3>7. ASSUME NEW d \in Chan, d # c, Coming(d) PROVE Coming(d)'
      BY <1>3, <3>3, <3>5, <3>7 DEF Coming
    <3> QED
      BY <1>1, <3>1, <3>6, <3>7
  <2>5. CASE At(c, p, s[3]) /\ PostReadBuf /\ GoTo(c, p, s[4])
    <3>1. UNCHANGED <<msgs, flag>>
      BY <2>5 DEF PostReadBuf
    <3>2. \A d \in Chan, q \in Producer :
            ppc[d][q] \in {"sendFull", "sendHigh"} => ppc'[d][q] = ppc[d][q]
      BY <1>4, <2>2, <2>5 DEF At
    <3> QED
      BY <1>1, <1>3, <3>1, <3>2 DEF Coming
  <2> QED
    BY <2>1, <2>3, <2>4, <2>5
<1> QED
  BY <1>5, <1>6, <1>7 DEF Carry

\* The other threads that send messages leave the flags and the producers alone.
LEMMA SendersKeepFlags ==
  ASSUME TypeOK, FlagHasMessage, UNCHANGED <<flag, ppc, wpc, wmsg>>,
         \A i \in 1..Len(msgs) : i \in 1..Len(msgs') /\ msgs'[i] = msgs[i]
  PROVE  FlagHasMessage'
<1>1. ASSUME NEW d \in Chan, Coming(d) PROVE Coming(d)'
  BY <1>1 DEF Coming, Serving
<1> QED
  BY <1>1 DEF FlagHasMessage, Coming

LEMMA WriterFlags == ASSUME TypeOK, NeverPaused, FlagHasMessage, Writer PROVE FlagHasMessage'
<1>1. \A d \in Chan : flag[d] => Coming(d)
  BY DEF FlagHasMessage, Coming
<1>2. SUFFICES \A d \in Chan : flag'[d] => Coming(d)'
  BY DEF FlagHasMessage, Coming
<1>3. ppc' = ppc
  BY DEF Writer, Take, TakeNothing, DrainEnds, DrainFrame, ResetRing, Finish, ClearWriting,
         CheckDisk
<1>4. CASE Take
  <2> DEFINE m == Head(msgs)
  <2>1. /\ Len(msgs) \in Nat \ {0} /\ Len(msgs') = Len(msgs) - 1 /\ m = msgs[1] /\ m \in Msgs
        /\ \A i \in 1..Len(msgs') : msgs'[i] = msgs[i + 1]
    BY <1>4 DEF Take, TypeOK
  <2>2. flag' = flag /\ wpc = "wait" /\ wmsg' = m
    BY <1>4 DEF Take
  <2>3. ASSUME NEW d \in Chan, m = <<"readBuf", d>> PROVE Serving(d)'
    <3>1. Heeds(m) /\ m[1] = "readBuf"
      BY <2>3 DEF Heeds, NeverPaused
    <3>2. wpc' = "drain"
      BY <1>4, <3>1 DEF Take
    <3> QED
      BY <2>2, <2>3, <3>2 DEF Serving
  <2>4. ASSUME NEW d \in Chan, NEW i \in 1..Len(msgs), msgs[i] = <<"readBuf", d>>, i # 1
        PROVE  \E j \in 1..Len(msgs') : msgs'[j] = <<"readBuf", d>>
    <3>1. i - 1 \in 1..Len(msgs') /\ msgs'[i - 1] = msgs[(i - 1) + 1]
      BY <2>1, <2>4
    <3> QED
      BY <2>4, <3>1
  <2>5. ASSUME NEW d \in Chan, Coming(d) PROVE Coming(d)'
    <3>1. ~Serving(d)
      BY <2>2 DEF Serving
    <3>2. CASE \E i \in 1..Len(msgs) : msgs[i] = <<"readBuf", d>>
      <4>1. m = <<"readBuf", d>> \/ \E j \in 1..Len(msgs') : msgs'[j] = <<"readBuf", d>>
        BY <2>1, <2>4, <3>2
      <4> QED
        BY <2>3, <4>1 DEF Coming
    <3> QED
      BY <1>3, <2>5, <3>1, <3>2 DEF Coming
  <2> QED
    BY <1>1, <2>2, <2>5
<1>5. CASE TakeNothing \/ DrainEnds \/ DrainFrame \/ ResetRing("discard", "finish")
           \/ ResetRing("reset", "clear") \/ ClearWriting \/ CheckDisk
  <2>1. UNCHANGED <<flag, msgs, wmsg>>
    BY <1>5 DEF TakeNothing, DrainEnds, DrainFrame, ResetRing, ClearWriting, CheckDisk, queues, ring
  <2>2. wpc \in {"drain", "discard", "finish"} => wpc' \in {"drain", "discard", "finish"}
    BY <1>5 DEF TakeNothing, DrainEnds, DrainFrame, ResetRing, ClearWriting, CheckDisk
  <2> QED
    BY <1>1, <1>3, <2>1, <2>2 DEF Coming, Serving
<1>6. CASE Finish
  <2>1. /\ UNCHANGED <<msgs, wmsg>> /\ wmsg[2] \in Chan
        /\ wmsg = <<wmsg[1], wmsg[2]>>
    BY <1>6 DEF Finish, queues, TypeOK
  <2>2. CASE wmsg[1] = "readBuf"
    <3>1. flag' = [flag EXCEPT ![wmsg[2]] = FALSE]
      BY <1>6, <2>2 DEF Finish
    <3>2. \A d \in Chan : flag'[d] => flag[d] /\ ~Serving(d)
      BY <2>1, <3>1 DEF Serving, TypeOK
    <3> QED
      BY <1>1, <1>3, <2>1, <3>2 DEF Coming
  <2>3. CASE wmsg[1] # "readBuf"
    <3>1. flag' = flag /\ \A d \in Chan : ~Serving(d)
      BY <1>6, <2>3 DEF Finish, Serving
    <3> QED
      BY <1>1, <1>3, <2>1, <3>1 DEF Coming
  <2> QED
    BY <2>2, <2>3
<1> QED
  BY <1>4, <1>5, <1>6 DEF Writer

\* What the manager writes and hands over when nothing pauses.
LEMMA ManagerSends ==
  ASSUME TypeOK, NeverPaused, Manager
  PROVE  /\ UNCHANGED msgs \/ \E m \in Msgs : WriteMsg(m) /\ m[1] # "forceEnd"
         /\ \A i \in 1..Len(out') : out'[i][1] # "forceEnd"
<1>1. CASE Put
  <2>1. /\ out \in Seq(Msgs) /\ Len(out) \in Nat \ {0} /\ Head(out) = out[1] /\ Head(out) \in Msgs
        /\ out' = Tail(out) /\ Len(out') = Len(out) - 1
        /\ \A i \in 1..Len(out') : out'[i] = out[i + 1] /\ i + 1 \in 1..Len(out)
    BY <1>1 DEF Put, TypeOK
  <2>2. WriteMsg(Head(out)) /\ Head(out)[1] # "forceEnd"
    BY <1>1, <2>1 DEF Put, NeverPaused
  <2> QED
    BY <2>1, <2>2 DEF NeverPaused
<1>2. CASE Post \/ Command \/ \E c \in Chan : SetPaused(c)
  BY <1>2 DEF Post, Command, SetPaused, queues, NeverPaused
<1>3. CASE NotWorking
  <2>1. out' = [d \in Chan |-> <<"flush", d>>] /\ UNCHANGED msgs
    BY <1>3 DEF NotWorking, Hand, queues
  <2>2. Len(out') = NumChan
    BY <2>1, RecorderAssumption DEF Chan
  <2> QED
    BY <2>1, <2>2 DEF Chan
<1>4. ASSUME NEW c \in Chan, SendPause(c) PROVE FALSE
  BY <1>4 DEF SendPause, MustPause, NeverPaused
<1>5. ASSUME NEW c \in Chan, SendResume(c)
      PROVE  UNCHANGED msgs /\ \A i \in 1..Len(out') : out'[i][1] # "forceEnd"
  BY <1>5 DEF SendResume, ResumeMsg, Hand, queues
<1>6. ASSUME NEW c \in Chan, UpdateRecStatus(c) \/ DelayEnds(c) \/ ClearDelay(c)
      PROVE  UNCHANGED msgs /\ \A i \in 1..Len(out') : out'[i][1] # "forceEnd"
  <2>1. UNCHANGED msgs /\ out = <<>>
    BY <1>6 DEF UpdateRecStatus, DelayEnds, ClearDelay, Free, queues
  <2> QED
    BY <1>6, <2>1, UpdateHands, HandedIsQuiet DEF NoWordInHand
<1> QED
  BY <1>1, <1>2, <1>3, <1>4, <1>5, <1>6 DEF Manager

LEMMA CommandsUnpaused ==
  ASSUME TypeOK, NeverPaused, NothingPauses, Next
  PROVE  \A i \in 1..Len(cmds') : cmds'[i][1] # "pause"
<1>1. cmds \in Seq(Cmds) /\ \A i \in 1..Len(cmds) : cmds[i][1] # "pause"
  BY DEF TypeOK, NeverPaused
<1>2. CASE cmds' = cmds
  BY <1>1, <1>2
<1>3. CASE cmds # <<>> /\ cmds' = Tail(cmds)
  BY <1>1, <1>3
<1>4. CASE CheckDisk
  <2>1. PICK C \in SUBSET Chan : CommandEach("resume", C)
    BY <1>4 DEF CheckDisk, NeverPaused, WhenSpace
  <2>2. PICK r \in Seq(Cmds) : cmds' = cmds \o r /\ \A i \in 1..Len(r) : r[i][1] = "resume"
    BY <2>1, CommandsTyped DEF EventKinds
  <2>3. Len(cmds') = Len(cmds) + Len(r) /\ Len(cmds) \in Nat /\ Len(r) \in Nat
    BY <1>1, <2>2
  <2>6. ASSUME NEW i \in 1..Len(cmds') PROVE cmds'[i][1] # "pause"
    <3>1. CASE i <= Len(cmds)
      BY <1>1, <2>2, <2>3, <3>1
    <3>2. CASE i > Len(cmds)
      <4>1. i - Len(cmds) \in 1..Len(r) /\ cmds'[i] = r[i - Len(cmds)]
        BY <1>1, <2>2, <2>3, <3>2
      <4> QED
        BY <2>2, <4>1
    <3> QED
      BY <2>3, <3>1, <3>2
  <2> QED
    BY <2>6
<1>5. ASSUME NEW c \in Chan, NEW k \in EventKinds, BizCommand(k, c)
      PROVE  \A i \in 1..Len(cmds') : cmds'[i][1] # "pause"
  <2>1. k # "pause" /\ cmds' = Append(cmds, <<k, c>>)
    BY <1>5 DEF BizCommand, NothingPauses
  <2> QED
    BY <1>1, <2>1
<1>6. \/ cmds' = cmds \/ (cmds # <<>> /\ cmds' = Tail(cmds)) \/ CheckDisk
      \/ \E c \in Chan, k \in EventKinds : BizCommand(k, c)
  <2>1. ASSUME NEW c \in Chan, NEW p \in Producer,
               Offer(c, p) \/ OfferHotPlug(c, p) \/ Carry(c, p)
        PROVE  cmds' = cmds
    BY <2>1 DEF Offer, OfferHotPlug, Carry, PreRecord, Direct, Request, SeeRoom, GiveUp, Store,
                CheckRate, queues
  <2>2. CASE Manager
    BY <2>2 DEF Manager, Put, Post, NotWorking, Command, SendPause, SendResume, SetPaused,
                UpdateRecStatus, DelayEnds, ClearDelay, queues
  <2>3. CASE Writer
    BY <2>3 DEF Writer, Take, TakeNothing, DrainEnds, DrainFrame, ResetRing, Finish, ClearWriting,
                queues
  <2>4. CASE WorldChanges
    BY <2>4 DEF WorldChanges, queues
  <2> QED
    BY <2>1, <2>2, <2>3, <2>4 DEF Next
<1> QED
  BY <1>2, <1>3, <1>4, <1>5, <1>6

LEMMA NeverPausedInductive ==
  ASSUME TypeOK, NeverPaused, NothingPauses, [Next]_vars PROVE NeverPaused'
<1>1. CASE UNCHANGED vars
  BY <1>1 DEF vars, queues, pauses, manager, writer, world, NeverPaused
<1>2. CASE Next
  <2>1. \A i \in 1..Len(cmds') : cmds'[i][1] # "pause"
    BY <1>2, CommandsUnpaused
  <2>2. ASSUME NEW c \in Chan, NEW p \in Producer,
               Offer(c, p) \/ OfferHotPlug(c, p) \/ Carry(c, p)
        PROVE  NeverPaused'
    <3>1. UNCHANGED <<full, stopped, formatted, flagPause, forced, out>>
      BY <2>2 DEF Offer, OfferHotPlug, Carry, PreRecord, Direct, Request, SeeRoom, GiveUp, Store,
                  CheckRate, writer, pauses, manager, world
    <3>2. UNCHANGED msgs \/ WriteMsg(<<"readBuf", c>>)
      BY <2>2, ProducerWrites
    <3>3. <<"readBuf", c>> \in Msgs
      BY DEF Msgs, MsgKind
    <3>4. \A i \in 1..Len(msgs') : msgs'[i][1] # "forceEnd"
      BY <3>2, <3>3, QueuedStays DEF NeverPaused
    <3> QED
      BY <2>1, <3>1, <3>4 DEF NeverPaused
  <2>3. CASE Manager
    <3>1. /\ \A i \in 1..Len(msgs') : msgs'[i][1] # "forceEnd"
          /\ \A i \in 1..Len(out') : out'[i][1] # "forceEnd"
      <4>1. CASE UNCHANGED msgs
        BY <2>3, <4>1, ManagerSends DEF NeverPaused
      <4>2. ASSUME NEW m \in Msgs, WriteMsg(m), m[1] # "forceEnd"
            PROVE  \A i \in 1..Len(msgs') : msgs'[i][1] # "forceEnd"
        BY <4>2, QueuedStays DEF NeverPaused
      <4> QED
        BY <2>3, <4>1, <4>2, ManagerSends
    <3>2. UNCHANGED <<full, stopped, forced>>
      BY <2>3 DEF Manager, Put, Post, NotWorking, Command, SendPause, SendResume, SetPaused,
                  UpdateRecStatus, DelayEnds, ClearDelay, writer, world
    <3>3. flagPause' = flagPause \/ Command
      BY <2>3 DEF Manager, Put, Post, NotWorking, SendPause, SendResume, SetPaused,
                  UpdateRecStatus, DelayEnds, ClearDelay, pauses
    <3>4. CASE Command
      <4>1. formatted' = formatted
        BY <3>4 DEF Command, NothingPauses
      <4>2. \A c \in Chan : ~flagPause'[c]
        <5>1. CASE cmds = <<>>
          BY <3>4, <5>1 DEF Command, NeverPaused
        <5>2. CASE cmds # <<>>
          <6>1. Head(cmds)[1] # "pause"
            BY <5>2 DEF NeverPaused, TypeOK
          <6>2. \/ flagPause' = flagPause
                \/ flagPause' = [flagPause EXCEPT ![Head(cmds)[2]] = FALSE]
            BY <3>4, <5>2, <6>1 DEF Command, Obey
          <6> QED
            BY <6>2 DEF NeverPaused, TypeOK
        <5> QED
          BY <5>1, <5>2
      <4> QED
        BY <2>1, <3>1, <3>2, <4>1, <4>2 DEF NeverPaused
    <3>5. CASE ~Command
      <4>1. formatted' = formatted
        BY <2>3, <3>5 DEF Manager, Put, Post, NotWorking, SendPause, SendResume, SetPaused,
                          UpdateRecStatus, DelayEnds, ClearDelay
      <4> QED
        BY <2>1, <3>1, <3>2, <3>3, <3>5, <4>1 DEF NeverPaused
    <3> QED
      BY <3>4, <3>5
  <2>4. CASE Writer
    <3>1. UNCHANGED <<full, formatted, flagPause, out>>
      BY <2>4 DEF Writer, Take, TakeNothing, DrainEnds, DrainFrame, ResetRing, Finish,
                  ClearWriting, CheckDisk, pauses, manager, world
    <3>2. stopped' = FALSE
      BY <2>4 DEF Writer, Take, TakeNothing, DrainEnds, DrainFrame, ResetRing, Finish,
                  ClearWriting, CheckDisk, NeverPaused
    <3>3. CASE Take
      <4>1. /\ Head(msgs) = msgs[1] /\ 1 \in 1..Len(msgs) /\ msgs' = Tail(msgs)
            /\ msgs \in Seq(Msgs)
        BY <3>3 DEF Take, TypeOK
      <4>2. Head(msgs)[1] # "forceEnd"
        BY <4>1 DEF NeverPaused
      <4>3. forced' = forced \/ forced' = [forced EXCEPT ![Head(msgs)[2]] = FALSE]
        BY <3>3, <4>2 DEF Take
      <4>4. \A c \in Chan : ~forced'[c]
        BY <4>3 DEF NeverPaused, TypeOK
      <4>5. \A i \in 1..Len(msgs') : msgs'[i][1] # "forceEnd"
        BY <4>1 DEF NeverPaused
      <4> QED
        BY <2>1, <3>1, <3>2, <4>4, <4>5 DEF NeverPaused
    <3>4. CASE ~Take
      <4>1. UNCHANGED <<msgs, forced>>
        BY <2>4, <3>4 DEF Writer, TakeNothing, DrainEnds, DrainFrame, ResetRing, Finish,
                          ClearWriting, CheckDisk, queues
      <4> QED
        BY <2>1, <3>1, <3>2, <4>1 DEF NeverPaused
    <3> QED
      BY <3>3, <3>4
  <2>5. ASSUME NEW c \in Chan, NEW k \in EventKinds, BizCommand(k, c) PROVE NeverPaused'
    BY <2>1, <2>5 DEF BizCommand, NeverPaused, pauses, writer, manager
  <2>6. CASE WorldChanges
    <3>1. full' = full
      BY <2>6 DEF WorldChanges, NothingPauses
    <3> QED
      BY <2>1, <2>6, <3>1 DEF WorldChanges, NeverPaused, queues, pauses, writer, manager
  <2> QED
    BY <1>2, <2>2, <2>3, <2>4, <2>5, <2>6 DEF Next
<1> QED
  BY <1>1, <1>2

LEMMA FlagInductive ==
  ASSUME TypeOK, NeverPaused, FlagHasMessage, [Next]_vars PROVE FlagHasMessage'
<1>1. CASE Manager
  <2>1. UNCHANGED <<flag, ppc, wpc, wmsg>>
    BY <1>1 DEF Manager, Put, Post, NotWorking, Command, SendPause, SendResume, SetPaused,
                UpdateRecStatus, DelayEnds, ClearDelay, ring, writer
  <2>2. CASE UNCHANGED msgs
    BY <2>1, <2>2, SendersKeepFlags
  <2>3. ASSUME NEW m \in Msgs, WriteMsg(m) PROVE FlagHasMessage'
    BY <2>1, <2>3, QueuedStays, SendersKeepFlags
  <2> QED
    BY <1>1, <2>2, <2>3, ManagerSends
<1>2. CASE \/ \E c \in Chan, k \in EventKinds : BizCommand(k, c)
           \/ WorldChanges \/ UNCHANGED vars
  <2>1. UNCHANGED <<flag, ppc, wpc, wmsg, msgs>>
    BY <1>2 DEF BizCommand, WorldChanges, vars, queues, ring, writer
  <2> QED
    BY <2>1, SendersKeepFlags
<1> QED
  BY <1>1, <1>2, ProducerFlags, WriterFlags DEF Next

\* g_SendMsgReadBuf of a channel is never left set with nobody to clear it: for any
\* number of channels and producers, wherever nothing pauses a channel.
THEOREM FlagsHaveMessages == NothingPauses => (Spec => []FlagHasMessage)
<1> SUFFICES ASSUME NothingPauses PROVE Spec => []FlagHasMessage
  OBVIOUS
<1>1. Init => NeverPaused /\ FlagHasMessage
  BY DEF Init, NeverPaused, FlagHasMessage
<1>2. TypeOK /\ NeverPaused /\ FlagHasMessage /\ [Next]_vars => NeverPaused' /\ FlagHasMessage'
  BY NeverPausedInductive, FlagInductive
<1> QED
  BY <1>1, <1>2, TypeCorrect, PTL DEF Spec
=============================================================================
