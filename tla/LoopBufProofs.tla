---------------------------- MODULE LoopBufProofs ----------------------------
(***************************************************************************)
(* The message ring, for any memory, number of messages, writers and       *)
(* messages: the types, that no slot and no unit is lost, and that the     *)
(* ring implements the queue of messages, but for the copy of an audio     *)
(* frame into the last free units.                                         *)
(*                                                                         *)
(* Threads.  The semaphores and the places of the threads account for the  *)
(* slots: a thread that holds wsem, or is about to post one of them, is    *)
(* counted.                                                                *)
(*                                                                         *)
(* Laid.  The messages in flight lie one behind the other from used_pos    *)
(* on: message i begins pos[i] units behind it, and the last one ends      *)
(* where the free units begin.  A unit is at one distance from used_pos    *)
(* only, whether it comes before or after the end of the memory (Wraps),   *)
(* so that what is reserved lies outside of every message in flight.       *)
(*                                                                         *)
(* Written.  A message that was copied and not yet put in holds what was   *)
(* copied.                                                                 *)
(***************************************************************************)
EXTENDS LoopBuf, FiniteSetTheorems, SequenceTheorems, TLAPS

Pcs     == {"idle", "gotSem", "refused", "copy", "copied", "committed"}
Message == [no : 1 .. MaxMsgs, num : Sizes, kind : Kinds]

\* Those who have taken the writers' semaphore and not put a message in.
Entering == {"gotSem", "refused", "copy", "copied"}

Count(f, P) == Cardinality({w \in Writers : f[w] \in P})

Threads ==
  /\ wpc \in [Writers -> Pcs] /\ msg \in [Writers -> Message \cup {None}]
  /\ \A w \in Writers : wpc[w] # "idle" => msg[w] \in Message
  /\ rpc \in {"idle", "reading", "given"} /\ rsem \in Nat /\ wsem \in Nat
  /\ offered \in 0 .. MaxMsgs /\ lock \in Writers \cup {None}
  /\ \A w \in Writers : lock = w <=> wpc[w] \in {"copy", "copied"}
  /\ rsem + Cardinal({"committed"}) + (IF rpc = "reading" THEN 1 ELSE 0) = InFlight

---------------------------------------------------------------------------
(* The threads.                                                             *)

LEMMA CountFinite ==
  ASSUME NEW f, NEW P
  PROVE  /\ IsFiniteSet({w \in Writers : f[w] \in P}) /\ Count(f, P) \in Nat
<1>1. IsFiniteSet({w \in Writers : f[w] \in P})
  BY LoopAssumption, FS_Subset
<1> QED  BY <1>1, FS_CardinalityType DEF Count

\* A thread goes from one place to another.
LEMMA CountMoves ==
  ASSUME NEW f, NEW g, NEW P, NEW w \in Writers, NEW x,
         DOMAIN f = Writers, g = [f EXCEPT ![w] = x]
  PROVE  Count(g, P) = Count(f, P) - (IF f[w] \in P THEN 1 ELSE 0) + (IF x \in P THEN 1 ELSE 0)
<1> DEFINE S == {v \in Writers : f[v] \in P}
           T == {v \in Writers : g[v] \in P}
<1>1. IsFiniteSet(S) /\ Cardinality(S) \in Nat /\ Count(f, P) = Cardinality(S)
      /\ Count(g, P) = Cardinality(T)
  BY CountFinite DEF Count
<1>2. g[w] = x /\ \A v \in Writers : v # w => g[v] = f[v]
  OBVIOUS
<1>3. CASE f[w] \in P /\ x \in P
  <2>1. T = S
    BY <1>2, <1>3
  <2>2. Cardinality(T) = Cardinality(S)
    BY <2>1
  <2> QED  BY <1>1, <1>3, <2>2
<1>4. CASE f[w] \notin P /\ x \notin P
  <2>1. T = S
    BY <1>2, <1>4
  <2>2. Cardinality(T) = Cardinality(S)
    BY <2>1
  <2> QED  BY <1>1, <1>4, <2>2
<1>5. CASE f[w] \notin P /\ x \in P
  <2>1. T = S \cup {w} /\ w \notin S
    BY <1>2, <1>5
  <2>2. Cardinality(T) = Cardinality(S) + 1
    BY <1>1, <2>1, FS_AddElement
  <2> QED  BY <1>1, <1>5, <2>2
<1>6. CASE f[w] \in P /\ x \notin P
  <2>1. T = S \ {w} /\ w \in S
    BY <1>2, <1>6
  <2>2. Cardinality(T) = Cardinality(S) - 1
    BY <1>1, <2>1, FS_RemoveElement
  <2> QED  BY <1>1, <1>6, <2>2
<1> QED  BY <1>3, <1>4, <1>5, <1>6

LEMMA CountHas ==
  ASSUME NEW f, NEW P, NEW w \in Writers, f[w] \in P
  PROVE  Count(f, P) >= 1
<1> DEFINE S == {v \in Writers : f[v] \in P}
<1>1. IsFiniteSet(S) /\ Cardinality(S) \in Nat /\ Count(f, P) = Cardinality(S)
  BY CountFinite DEF Count
<1>2. Cardinality(S) # 0
  BY <1>1, FS_EmptySet
<1> QED  BY <1>1, <1>2

\* What the semaphores say.
LEMMA Flight ==
  /\ InFlight = MsgNum - wsem - Count(wpc, Entering) - (IF rpc = "given" THEN 1 ELSE 0)
  /\ Cardinal({"committed"}) = Count(wpc, {"committed"})
BY DEF InFlight, Cardinal, Count, Entering

LEMMA FlightRange ==
  ASSUME Threads
  PROVE  /\ InFlight \in 0 .. MsgNum
         /\ rpc = "reading" => InFlight >= 1
         /\ (\E w \in Writers : wpc[w] \in Entering) => InFlight < MsgNum
         /\ rsem \in 0 .. MsgNum /\ wsem \in 0 .. MsgNum
<1>1. MsgNum \in Nat /\ Count(wpc, Entering) \in Nat /\ Count(wpc, {"committed"}) \in Nat
  BY LoopAssumption, CountFinite
<1>2. rsem \in Nat /\ wsem \in Nat
      /\ rsem + Count(wpc, {"committed"}) + (IF rpc = "reading" THEN 1 ELSE 0) = InFlight
  BY Flight DEF Threads
<1>3. InFlight = MsgNum - wsem - Count(wpc, Entering) - (IF rpc = "given" THEN 1 ELSE 0)
  BY Flight
<1>4. (\E w \in Writers : wpc[w] \in Entering) => Count(wpc, Entering) >= 1
  BY CountHas
<1> QED  BY <1>1, <1>2, <1>3, <1>4

\* What is left the same.
LEMMA InitThreads == Init => Threads /\ InFlight = 0
<1> SUFFICES ASSUME Init PROVE Threads /\ InFlight = 0
  OBVIOUS
<1>1. /\ wpc = [w \in Writers |-> "idle"] /\ msg = [w \in Writers |-> None] /\ rpc = "idle"
      /\ rsem = 0 /\ wsem = MsgNum /\ lock = None /\ offered = 0
  BY DEF Init
<1>2. Count(wpc, Entering) = 0 /\ Count(wpc, {"committed"}) = 0
  <2>1. {w \in Writers : wpc[w] \in Entering} = {} /\ {w \in Writers : wpc[w] \in {"committed"}} = {}
    BY <1>1 DEF Entering
  <2> QED  BY <2>1, FS_EmptySet DEF Count
<1>3. InFlight = 0 /\ Cardinal({"committed"}) = 0
  BY <1>1, <1>2, Flight, LoopAssumption
<1>4. wpc \in [Writers -> Pcs] /\ msg \in [Writers -> Message \cup {None}]
  BY <1>1 DEF Pcs
<1> QED  BY <1>1, <1>3, <1>4, LoopAssumption DEF Threads

\* The counts after the step of a writer that goes to x.
LEMMA WriterMoves ==
  ASSUME Threads, NEW w \in Writers, NEW x, WGoto(w, x)
  PROVE  /\ wpc'[w] = x /\ \A v \in Writers : v # w => wpc'[v] = wpc[v]
         /\ DOMAIN wpc' = Writers
         /\ \A P : Count(wpc', P) = Count(wpc, P) - (IF wpc[w] \in P THEN 1 ELSE 0)
                                    + (IF x \in P THEN 1 ELSE 0)
<1>1. DOMAIN wpc = Writers /\ wpc' = [wpc EXCEPT ![w] = x]
  BY DEF Threads, WGoto
<1> QED  BY <1>1, CountMoves

LEMMA CountsAre ==
  ASSUME Threads
  PROVE  /\ Count(wpc, Entering) \in Nat /\ Count(wpc, {"committed"}) \in Nat
         /\ MsgNum \in Nat /\ rsem \in Nat /\ wsem \in Nat
         /\ rsem + Count(wpc, {"committed"}) + (IF rpc = "reading" THEN 1 ELSE 0) = InFlight
BY LoopAssumption, CountFinite, Flight DEF Threads

LEMMA FlightNext ==
  /\ InFlight' = MsgNum - wsem' - Count(wpc', Entering) - (IF rpc' = "given" THEN 1 ELSE 0)
  /\ Cardinal({"committed"})' = Count(wpc', {"committed"})
BY DEF InFlight, Cardinal, Count, Entering
---------------------------------------------------------------------------
(* The steps of the threads, and what they do to the messages in flight.    *)

LEMMA TryWaitCounts ==
  ASSUME Threads, NEW w \in Writers, TryWait(w)
  PROVE  Threads' /\ InFlight' = InFlight
<1>1. /\ wpc[w] = "idle" /\ offered \in 0 .. MaxMsgs /\ offered < MaxMsgs /\ offered' = offered + 1
      /\ UNCHANGED <<rsem, lock, rpc>> /\ MaxMsgs \in Nat
  BY LoopAssumption DEF TryWait, Threads
<1>2. offered' \in 0 .. MaxMsgs /\ offered + 1 \in 1 .. MaxMsgs
  BY <1>1
<1>3. CASE wsem = 0 /\ UNCHANGED <<wsem, wpc, msg>>
  <2>1. InFlight' = InFlight /\ Cardinal({"committed"})' = Cardinal({"committed"})
    BY <1>1, <1>3 DEF InFlight, Cardinal
  <2> QED  BY <1>1, <1>2, <1>3, <2>1 DEF Threads
<1>4. CASE wsem > 0 /\ wsem' = wsem - 1 /\ WGoto(w, "gotSem")
  <2>1. PICK n \in Sizes, k \in Kinds :
          msg' = [msg EXCEPT ![w] = [no |-> offered + 1, num |-> n, kind |-> k]]
    BY <1>1, <1>4 DEF TryWait, Threads
  <2>2. [no |-> offered + 1, num |-> n, kind |-> k] \in Message
    BY <1>2 DEF Message
  <2>3. /\ msg' \in [Writers -> Message \cup {None}] /\ msg'[w] \in Message
        /\ \A v \in Writers : v # w => msg'[v] = msg[v]
    BY <2>1, <2>2 DEF Threads
  <2>4. /\ wpc'[w] = "gotSem" /\ \A v \in Writers : v # w => wpc'[v] = wpc[v]
        /\ wpc' \in [Writers -> Pcs]
        /\ Count(wpc', Entering) = Count(wpc, Entering) + 1
        /\ Count(wpc', {"committed"}) = Count(wpc, {"committed"})
    <3>1. /\ Count(wpc', Entering) = Count(wpc, Entering) - (IF wpc[w] \in Entering THEN 1 ELSE 0)
                                     + (IF "gotSem" \in Entering THEN 1 ELSE 0)
          /\ Count(wpc', {"committed"}) =
               Count(wpc, {"committed"}) - (IF wpc[w] \in {"committed"} THEN 1 ELSE 0)
               + (IF "gotSem" \in {"committed"} THEN 1 ELSE 0)
      BY <1>4, WriterMoves
    <3>2. wpc[w] \notin Entering /\ "gotSem" \in Entering
      BY <1>1 DEF Entering
    <3> QED  BY <1>1, <1>4, <3>1, <3>2, WriterMoves, CountsAre DEF WGoto, Threads, Pcs
  <2>5. wsem' \in Nat
    BY <1>4 DEF Threads
  <2>6. InFlight' = InFlight
    BY <1>1, <1>4, <2>4, CountsAre, Flight, FlightNext
  <2>7. rsem' + Cardinal({"committed"})' + (IF rpc' = "reading" THEN 1 ELSE 0) = InFlight'
    BY <1>1, <2>4, <2>6, CountsAre, Flight, FlightNext
  <2>8. \A v \in Writers : lock' = v <=> wpc'[v] \in {"copy", "copied"}
    BY <1>1, <2>4 DEF Threads
  <2> QED  BY <1>1, <1>2, <2>3, <2>4, <2>5, <2>6, <2>7, <2>8 DEF Threads
<1> QED  BY <1>3, <1>4 DEF TryWait

\* A writer goes on with its message.
LEMMA WriterGoesOn ==
  ASSUME Threads, NEW w \in Writers, NEW x \in Pcs \ {"idle"}, WGoto(w, x), wpc[w] # "idle",
         UNCHANGED <<rsem, wsem, msg, rpc, offered>>, lock' \in {lock, w, None},
         x \in {"copy", "copied"} <=> lock' = w,
         lock' = lock \/ (lock = None /\ lock' = w) \/ (lock = w /\ lock' = None),
         x = "committed" => wpc[w] = "copied",
         x # "committed" => wpc[w] \in Entering /\ x \in Entering
  PROVE  Threads' /\ InFlight' = InFlight + (IF x = "committed" THEN 1 ELSE 0)
<1>1. /\ wpc'[w] = x /\ \A v \in Writers : v # w => wpc'[v] = wpc[v]
      /\ DOMAIN wpc' = Writers
  BY WriterMoves
<1>2. wpc' \in [Writers -> Pcs]
  BY <1>1 DEF WGoto, Threads
<1>3. /\ Count(wpc', Entering) = Count(wpc, Entering) - (IF x = "committed" THEN 1 ELSE 0)
      /\ Count(wpc', {"committed"}) = Count(wpc, {"committed"}) + (IF x = "committed" THEN 1 ELSE 0)
  <2>1. /\ Count(wpc', Entering) = Count(wpc, Entering) - (IF wpc[w] \in Entering THEN 1 ELSE 0)
                                   + (IF x \in Entering THEN 1 ELSE 0)
        /\ Count(wpc', {"committed"}) =
             Count(wpc, {"committed"}) - (IF wpc[w] \in {"committed"} THEN 1 ELSE 0)
             + (IF x \in {"committed"} THEN 1 ELSE 0)
    BY WriterMoves
  <2>2. CASE x = "committed"
    <3>1. wpc[w] \in Entering /\ x \notin Entering /\ wpc[w] \notin {"committed"} /\ x \in {"committed"}
      BY <2>2 DEF Entering
    <3> QED  BY <2>1, <2>2, <3>1, CountsAre
  <2>3. CASE x # "committed"
    <3>1. /\ wpc[w] \in Entering /\ x \in Entering
          /\ wpc[w] \notin {"committed"} /\ x \notin {"committed"}
      BY <2>3 DEF Entering
    <3> QED  BY <2>1, <2>3, <3>1, CountsAre
  <2> QED  BY <2>2, <2>3
<1>4. InFlight' = InFlight + (IF x = "committed" THEN 1 ELSE 0)
  BY <1>3, CountsAre, Flight, FlightNext
<1>5. rsem' + Cardinal({"committed"})' + (IF rpc' = "reading" THEN 1 ELSE 0) = InFlight'
  BY <1>3, <1>4, CountsAre, Flight, FlightNext
<1>6. lock' \in Writers \cup {None} /\ \A v \in Writers : lock' = v <=> wpc'[v] \in {"copy", "copied"}
  BY <1>1, LoopAssumption DEF Threads
<1>7. \A v \in Writers : wpc'[v] # "idle" => msg'[v] \in Message
  BY <1>1 DEF Threads
<1> QED  BY <1>2, <1>4, <1>5, <1>6, <1>7 DEF Threads

\* A writer is done.
LEMMA WriterIsDone ==
  ASSUME Threads, NEW w \in Writers, PostRefused(w) \/ PostWritten(w)
  PROVE  Threads' /\ InFlight' = InFlight
<1>1. /\ WGoto(w, "idle") /\ msg' = [msg EXCEPT ![w] = None] /\ UNCHANGED <<lock, rpc, offered>>
      /\ \/ wpc[w] = "refused" /\ wsem' = wsem + 1 /\ rsem' = rsem
         \/ wpc[w] = "committed" /\ rsem' = rsem + 1 /\ wsem' = wsem
  BY DEF PostRefused, PostWritten
<1>2. /\ wpc'[w] = "idle" /\ \A v \in Writers : v # w => wpc'[v] = wpc[v]
      /\ wpc' \in [Writers -> Pcs]
  BY <1>1, WriterMoves DEF WGoto, Threads, Pcs
<1>3. /\ msg' \in [Writers -> Message \cup {None}]
      /\ \A v \in Writers : v # w => msg'[v] = msg[v]
  BY <1>1 DEF Threads
<1>4. /\ Count(wpc', Entering) = Count(wpc, Entering) - (IF wpc[w] = "refused" THEN 1 ELSE 0)
      /\ Count(wpc', {"committed"}) = Count(wpc, {"committed"}) - (IF wpc[w] = "refused" THEN 0 ELSE 1)
  <2>1. /\ Count(wpc', Entering) = Count(wpc, Entering) - (IF wpc[w] \in Entering THEN 1 ELSE 0)
                                   + (IF "idle" \in Entering THEN 1 ELSE 0)
        /\ Count(wpc', {"committed"}) =
             Count(wpc, {"committed"}) - (IF wpc[w] \in {"committed"} THEN 1 ELSE 0)
             + (IF "idle" \in {"committed"} THEN 1 ELSE 0)
    BY <1>1, WriterMoves
  <2>2. CASE wpc[w] = "refused"
    <3>1. wpc[w] \in Entering /\ "idle" \notin Entering /\ wpc[w] \notin {"committed"}
      BY <2>2 DEF Entering
    <3> QED  BY <2>1, <2>2, <3>1, CountsAre
  <2>3. CASE wpc[w] = "committed"
    <3>1. wpc[w] \notin Entering /\ "idle" \notin Entering /\ wpc[w] \in {"committed"}
      BY <2>3 DEF Entering
    <3> QED  BY <2>1, <2>3, <3>1, CountsAre
  <2> QED  BY <1>1, <2>2, <2>3
<1>5. InFlight' = InFlight
  BY <1>1, <1>4, CountsAre, Flight, FlightNext
<1>6. rsem' + Cardinal({"committed"})' + (IF rpc' = "reading" THEN 1 ELSE 0) = InFlight'
  BY <1>1, <1>4, <1>5, CountsAre, Flight, FlightNext
<1>7. rsem' \in Nat /\ wsem' \in Nat
  BY <1>1 DEF Threads
<1>8. \A v \in Writers : lock' = v <=> wpc'[v] \in {"copy", "copied"}
  BY <1>1, <1>2 DEF Threads
<1>9. \A v \in Writers : wpc'[v] # "idle" => msg'[v] \in Message
  BY <1>2, <1>3 DEF Threads
<1> QED  BY <1>1, <1>2, <1>3, <1>5, <1>6, <1>7, <1>8, <1>9 DEF Threads

\* The reader.
LEMMA ReadCounts ==
  ASSUME Threads, Read
  PROVE  Threads' /\ InFlight' = InFlight - (IF GiveBack THEN 1 ELSE 0)
<1>1. UNCHANGED <<lock, wpc, msg, offered>> /\ Count(wpc', Entering) = Count(wpc, Entering)
      /\ Count(wpc', {"committed"}) = Count(wpc, {"committed"})
  BY DEF Read, Take, GiveBack, PostRead
<1>2. CASE Take
  <2>1. rpc = "idle" /\ rpc' = "reading" /\ rsem > 0 /\ rsem' = rsem - 1 /\ wsem' = wsem /\ ~GiveBack
    BY <1>2 DEF Take, GiveBack
  <2>2. InFlight' = InFlight /\ rsem' \in Nat
    BY <1>1, <2>1, CountsAre, Flight, FlightNext
  <2>3. rsem' + Cardinal({"committed"})' + (IF rpc' = "reading" THEN 1 ELSE 0) = InFlight'
    BY <1>1, <2>1, <2>2, CountsAre, Flight, FlightNext
  <2>4. Threads'
    BY <1>1, <2>1, <2>2, <2>3 DEF Threads
  <2> QED  BY <2>1, <2>2, <2>4, CountsAre, Flight
<1>3. CASE GiveBack
  <2>1. rpc = "reading" /\ rpc' = "given" /\ rsem' = rsem /\ wsem' = wsem
    BY <1>3 DEF GiveBack
  <2>2. InFlight' = InFlight - 1
    BY <1>1, <2>1, CountsAre, Flight, FlightNext
  <2>3. rsem' + Cardinal({"committed"})' + (IF rpc' = "reading" THEN 1 ELSE 0) = InFlight'
    BY <1>1, <2>1, <2>2, CountsAre, Flight, FlightNext
  <2>4. Threads'
    BY <1>1, <2>1, <2>2, <2>3 DEF Threads
  <2> QED  BY <1>3, <2>2, <2>4
<1>4. CASE PostRead
  <2>1. rpc = "given" /\ rpc' = "idle" /\ rsem' = rsem /\ wsem' = wsem + 1 /\ ~GiveBack
    BY <1>4 DEF PostRead, GiveBack
  <2>2. InFlight' = InFlight /\ wsem' \in Nat
    BY <1>1, <2>1, CountsAre, Flight, FlightNext
  <2>3. rsem' + Cardinal({"committed"})' + (IF rpc' = "reading" THEN 1 ELSE 0) = InFlight'
    BY <1>1, <2>1, <2>2, CountsAre, Flight, FlightNext
  <2>4. Threads'
    BY <1>1, <2>1, <2>2, <2>3 DEF Threads
  <2> QED  BY <2>1, <2>2, <2>4, CountsAre, Flight
<1> QED  BY <1>2, <1>3, <1>4 DEF Read

\* A writer in the ring.
LEMMA WriteCounts ==
  ASSUME Threads, NEW w \in Writers, Reserve(w) \/ Refuse(w) \/ Copy(w) \/ Commit(w)
  PROVE  Threads' /\ InFlight' = InFlight + (IF Commit(w) THEN 1 ELSE 0)
<1> USE DEF Pcs, Entering
<1>1. CASE Reserve(w)
  <2>1. /\ wpc[w] = "gotSem" /\ lock = None /\ lock' = w /\ WGoto(w, "copy")
        /\ UNCHANGED <<rsem, wsem, msg, rpc, offered>> /\ ~Commit(w)
    BY <1>1 DEF Reserve, Commit
  <2>2. Threads' /\ InFlight' = InFlight + (IF "copy" = "committed" THEN 1 ELSE 0)
    BY <2>1, WriterGoesOn
  <2> QED  BY <2>1, <2>2
<1>2. CASE Refuse(w)
  <2>1. /\ wpc[w] = "gotSem" /\ lock = None /\ lock' = lock /\ WGoto(w, "refused")
        /\ UNCHANGED <<rsem, wsem, msg, rpc, offered>> /\ ~Commit(w)
    BY <1>2 DEF Refuse, ring, Commit
  <2>2. lock' # w
    BY <2>1, LoopAssumption
  <2>3. Threads' /\ InFlight' = InFlight + (IF "refused" = "committed" THEN 1 ELSE 0)
    BY <2>1, <2>2, WriterGoesOn
  <2> QED  BY <2>1, <2>3
<1>3. CASE Copy(w)
  <2>1. /\ wpc[w] = "copy" /\ lock' = lock /\ WGoto(w, "copied")
        /\ UNCHANGED <<rsem, wsem, msg, rpc, offered>> /\ ~Commit(w) /\ lock = w
    BY <1>3 DEF Copy, ring, Commit, Threads
  <2>2. Threads' /\ InFlight' = InFlight + (IF "copied" = "committed" THEN 1 ELSE 0)
    BY <2>1, WriterGoesOn
  <2> QED  BY <2>1, <2>2
<1>4. CASE Commit(w)
  <2>1. /\ wpc[w] = "copied" /\ lock' = None /\ WGoto(w, "committed")
        /\ UNCHANGED <<rsem, wsem, msg, rpc, offered>> /\ lock = w
    BY <1>4 DEF Commit, Threads
  <2>2. lock' # w
    BY <2>1, LoopAssumption
  <2>3. Threads' /\ InFlight' = InFlight + (IF "committed" = "committed" THEN 1 ELSE 0)
    BY <2>1, <2>2, WriterGoesOn
  <2> QED  BY <1>4, <2>3
<1> QED  BY <1>1, <1>2, <1>3, <1>4
---------------------------------------------------------------------------
(* Where the messages lie.                                                  *)

At(i) == (rpos + i) % MsgNum

\* Unit u is o units behind used_pos.
Wraps(u, o) == u = usedPos + o \/ u = usedPos + o - UnitNum

\* The units that slot s takes begin o units behind used_pos, its message in one piece.
InPlace(s, o) ==
  /\ slot[s].num >= 1 /\ Begin(s) + slot[s].num <= UnitNum
  /\ Wraps(Begin(s), o + slot[s].jump)

Chain(pos) ==
  /\ pos \in [0 .. MsgNum -> Nat] /\ pos[0] = 0 /\ pos[InFlight] = UnitNum - freeNum
  /\ \A i \in 0 .. InFlight - 1 :
       InPlace(At(i), pos[i]) /\ pos[i + 1] = pos[i] + Extent(At(i))
  /\ \A i, j \in 0 .. InFlight : i <= j => pos[i] <= pos[j]

Reserved ==
  \A w \in Writers : wpc[w] \in {"copy", "copied"} =>
    /\ slot[wpos] = [start |-> freePos, num |-> msg[w].num, jump |-> Jump(msg[w].num)]
    /\ Jump(msg[w].num) + msg[w].num <= freeNum

Types ==
  /\ slot \in [Slot -> [start : Unit, num : 0 .. UnitNum, jump : 0 .. UnitNum]]
  /\ rpos \in Slot /\ wpos \in Slot
  /\ freePos \in Unit /\ usedPos \in Unit /\ freeNum \in 0 .. UnitNum
  /\ mem \in [Unit -> 0 .. MaxMsgs]

Laid ==
  /\ Types /\ Reserved /\ wpos = At(InFlight)
  /\ Wraps(freePos, UnitNum - freeNum) /\ \E pos : Chain(pos)

LEMMA ModOnce ==
  ASSUME NEW n \in Nat \ {0}, NEW a \in Nat, NEW b \in Nat, a + b < 2 * n
  PROVE  (a + b) % n = IF a + b < n THEN a + b ELSE a + b - n
OBVIOUS

LEMMA Bounds ==
  /\ UnitNum \in Nat /\ UnitNum >= 1 /\ MsgNum \in Nat /\ MsgNum >= 1 /\ MaxMsgs \in Nat
  /\ Unit = 0 .. UnitNum - 1 /\ Slot = 0 .. MsgNum - 1
BY LoopAssumption DEF Unit, Slot

LEMMA AtIs ==
  ASSUME rpos \in Slot, NEW i \in 0 .. MsgNum
  PROVE  /\ At(i) \in Slot
         /\ At(i) = IF rpos + i < MsgNum THEN rpos + i ELSE rpos + i - MsgNum
<1>1. rpos \in Nat /\ i \in Nat /\ rpos + i < 2 * MsgNum /\ MsgNum \in Nat \ {0}
  BY Bounds
<1>2. (rpos + i) % MsgNum = IF rpos + i < MsgNum THEN rpos + i ELSE rpos + i - MsgNum
  BY <1>1, ModOnce
<1> QED  BY <1>1, <1>2, Bounds DEF At

LEMMA AtDiffers ==
  ASSUME rpos \in Slot, NEW i \in 0 .. MsgNum, NEW j \in 0 .. MsgNum, At(i) = At(j),
         i < MsgNum, j < MsgNum
  PROVE  i = j
<1>1. /\ At(i) = IF rpos + i < MsgNum THEN rpos + i ELSE rpos + i - MsgNum
      /\ At(j) = IF rpos + j < MsgNum THEN rpos + j ELSE rpos + j - MsgNum
  BY AtIs
<1>2. rpos \in 0 .. MsgNum - 1 /\ MsgNum \in Nat
  BY Bounds
<1>3. (IF rpos + i < MsgNum THEN rpos + i ELSE rpos + i - MsgNum)
        = (IF rpos + j < MsgNum THEN rpos + j ELSE rpos + j - MsgNum)
  BY <1>1
<1> QED  BY <1>2, <1>3

\* The parts of a slot.
LEMMA SlotParts ==
  ASSUME Types, NEW s \in Slot
  PROVE  /\ slot[s].start \in 0 .. UnitNum - 1 /\ slot[s].num \in 0 .. UnitNum
         /\ slot[s].jump \in 0 .. UnitNum
         /\ Begin(s) \in 0 .. UnitNum - 1 /\ Extent(s) = slot[s].jump + slot[s].num
<1>1. slot[s] \in [start : Unit, num : 0 .. UnitNum, jump : 0 .. UnitNum]
  BY DEF Types
<1> QED  BY <1>1, Bounds DEF Begin, Extent

LEMMA InitLaid == Init => Laid
<1> SUFFICES ASSUME Init PROVE Laid
  OBVIOUS
<1>1. /\ slot = [s \in Slot |-> [start |-> 0, num |-> 0, jump |-> 0]] /\ rpos = 0 /\ wpos = 0
      /\ freePos = 0 /\ usedPos = 0 /\ freeNum = UnitNum /\ mem = [u \in Unit |-> 0]
      /\ wpc = [w \in Writers |-> "idle"]
  BY DEF Init
<1>2. 0 \in Unit /\ 0 \in Slot /\ 0 \in 0 .. UnitNum /\ UnitNum \in 0 .. UnitNum /\ 0 \in 0 .. MaxMsgs
  BY Bounds
<1>3. Types /\ Reserved
  BY <1>1, <1>2 DEF Types, Reserved
<1>4. InFlight = 0
  BY InitThreads
<1>5. At(0) = 0
  BY <1>1, <1>2, AtIs, Bounds
<1>6. Wraps(freePos, UnitNum - freeNum)
  BY <1>1, Bounds DEF Wraps
<1>7. Chain([i \in 0 .. MsgNum |-> 0])
  BY <1>1, <1>4, Bounds DEF Chain
<1> QED  BY <1>1, <1>3, <1>4, <1>5, <1>6, <1>7 DEF Laid

\* The ring is left as it is.
LEMMA LaidRests ==
  ASSUME Laid, UNCHANGED ring, InFlight' = InFlight, mem' \in [Unit -> 0 .. MaxMsgs],
         \A w \in Writers : wpc'[w] \in {"copy", "copied"} =>
           wpc[w] \in {"copy", "copied"} /\ msg'[w] = msg[w]
  PROVE  Laid'
<1>1. UNCHANGED <<slot, rpos, wpos, freePos, usedPos, freeNum>>
  BY DEF ring
<1>2. Types' /\ wpos' = At(InFlight)' /\ Wraps(freePos, UnitNum - freeNum)'
  BY <1>1 DEF Laid, Types, At, Wraps
<1>3. Reserved'
  BY <1>1 DEF Laid, Reserved, Jump
<1>4. PICK pos : Chain(pos)
  BY DEF Laid
<1>5. Chain(pos)'
  BY <1>1, <1>4 DEF Chain, InPlace, At, Begin, Extent, Wraps
<1> QED  BY <1>2, <1>3, <1>5 DEF Laid

\* The message of a writer that looks for room.
LEMMA MsgParts ==
  ASSUME Threads, NEW w \in Writers, wpc[w] # "idle"
  PROVE  msg[w].no \in 1 .. MaxMsgs /\ msg[w].num \in Nat /\ msg[w].num >= 1
<1>1. msg[w] \in Message
  BY DEF Threads
<1>2. msg[w].no \in 1 .. MaxMsgs /\ msg[w].num \in Sizes
  BY <1>1 DEF Message
<1>3. msg[w].num \in Nat \ {0}
  BY <1>2, LoopAssumption
<1> QED  BY <1>2, <1>3

LEMMA JumpIs ==
  ASSUME Types, NEW n \in Nat
  PROVE  /\ Jump(n) \in 0 .. UnitNum
         /\ Jump(n) = 0 <=> freePos + n <= UnitNum
         /\ Jump(n) # 0 => freePos + Jump(n) = UnitNum
BY Bounds DEF Types, Jump

LEMMA ReserveLays ==
  ASSUME Threads, Laid, NEW w \in Writers, Reserve(w)
  PROVE  Laid' /\ \A i \in 0 .. InFlight - 1 : slot'[At(i)] = slot[At(i)]
<1> DEFINE num == msg[w].num
           j == Jump(num)
           a == IF j = 0 THEN freePos ELSE 0
<1>1. /\ wpc[w] = "gotSem" /\ lock = None /\ j + num <= freeNum
      /\ slot' = [slot EXCEPT ![wpos] = [start |-> freePos, num |-> num, jump |-> j]]
      /\ mem' = [mem EXCEPT ![a] = msg[w].no]
      /\ UNCHANGED <<rpos, wpos, freePos, usedPos, freeNum, msg>>
      /\ WGoto(w, "copy")
  BY DEF Reserve
<1>2. /\ num \in Nat /\ num >= 1 /\ msg[w].no \in 0 .. MaxMsgs /\ j \in 0 .. UnitNum
      /\ freeNum \in 0 .. UnitNum /\ freePos \in Unit
      /\ Types
  <2>1. Types /\ freeNum \in 0 .. UnitNum /\ freePos \in Unit
    BY DEF Laid, Types
  <2>2. msg[w].no \in 1 .. MaxMsgs /\ num \in Nat /\ num >= 1
    BY <1>1, MsgParts
  <2>3. j \in 0 .. UnitNum
    BY <2>1, <2>2, JumpIs
  <2> QED  BY <2>1, <2>2, <2>3, Bounds
<1>3. num \in 0 .. UnitNum
  BY <1>1, <1>2, Bounds
<1> HIDE DEF num, j, a
<1>4. InFlight' = InFlight /\ InFlight \in 0 .. MsgNum /\ InFlight < MsgNum
  <2>1. ~Commit(w)
    BY <1>1 DEF Commit
  <2> QED  BY <1>1, <2>1, WriteCounts, FlightRange DEF Entering
<1>5. /\ [start |-> freePos, num |-> num, jump |-> j]
           \in [start : Unit, num : 0 .. UnitNum, jump : 0 .. UnitNum]
      /\ wpos \in Slot /\ slot \in [Slot -> [start : Unit, num : 0 .. UnitNum, jump : 0 .. UnitNum]]
  BY <1>2, <1>3 DEF Types
<1>6. /\ slot' \in [Slot -> [start : Unit, num : 0 .. UnitNum, jump : 0 .. UnitNum]]
      /\ slot'[wpos] = [start |-> freePos, num |-> num, jump |-> j]
      /\ \A s \in Slot : s # wpos => slot'[s] = slot[s]
  BY <1>1, <1>5
<1>7. mem' \in [Unit -> 0 .. MaxMsgs]
  BY <1>1, <1>2 DEF Types
<1>8. Types'
  BY <1>1, <1>2, <1>6, <1>7 DEF Types
<1>9. Reserved'
  <2>1. ASSUME NEW v \in Writers, wpc'[v] \in {"copy", "copied"}  PROVE v = w
    <3>1. \A u \in Writers : wpc[u] \notin {"copy", "copied"}
      BY <1>1, LoopAssumption DEF Threads
    <3> QED  BY <1>1, <2>1, <3>1, WriterMoves
  <2>2. Jump(msg[w].num)' = j
    BY <1>1 DEF Jump, j, num
  <2> QED  BY <1>1, <1>6, <2>1, <2>2 DEF Reserved, num
<1>10. \A i \in 0 .. InFlight - 1 : At(i) \in Slot /\ At(i) # wpos
  <2>1. rpos \in Slot /\ wpos = At(InFlight)
    BY DEF Laid, Types
  <2>2. \A i \in 0 .. InFlight - 1 : i \in 0 .. MsgNum /\ i < MsgNum /\ i # InFlight
    BY <1>4, Bounds
  <2> QED  BY <1>4, <2>1, <2>2, AtIs, AtDiffers
<1>11. \A i \in 0 .. InFlight - 1 : slot'[At(i)] = slot[At(i)]
  BY <1>6, <1>10
<1>12. PICK pos : Chain(pos)
  BY DEF Laid
<1>13. Chain(pos)'
  <2>1. \A i : At(i)' = At(i)
    BY <1>1 DEF At
  <2>2. \A i \in 0 .. InFlight - 1 :
          Begin(At(i))' = Begin(At(i)) /\ Extent(At(i))' = Extent(At(i)) /\ slot'[At(i)'] = slot[At(i)]
    BY <1>11, <2>1 DEF Begin, Extent
  <2>3. \A u, o : Wraps(u, o)' = Wraps(u, o)
    BY <1>1 DEF Wraps
  <2>4. \A i \in 0 .. InFlight - 1 : InPlace(At(i), pos[i])'
    BY <1>12, <2>2, <1>1 DEF Chain, InPlace, Wraps
  <2> QED  BY <1>1, <1>4, <1>12, <2>2, <2>4 DEF Chain
<1>14. wpos' = At(InFlight)' /\ Wraps(freePos, UnitNum - freeNum)'
  BY <1>1, <1>4 DEF Laid, At, Wraps
<1> QED  BY <1>8, <1>9, <1>11, <1>13, <1>14 DEF Laid

\* A message that finds room lies behind the messages in flight, in one piece.
LEMMA RoomLies ==
  ASSUME Laid, NEW n \in Nat, n >= 1, Jump(n) + n <= freeNum,
         NEW b, b = IF Jump(n) = 0 THEN freePos ELSE 0
  PROVE  /\ Wraps(b, (UnitNum - freeNum) + Jump(n)) /\ b \in 0 .. UnitNum - 1 /\ b + n <= UnitNum
         /\ Jump(n) \in 0 .. UnitNum
<1> PICK j, T : j = Jump(n) /\ T = UnitNum - freeNum
  OBVIOUS
<1>1. /\ Types /\ freePos \in 0 .. UnitNum - 1 /\ usedPos \in 0 .. UnitNum - 1
      /\ freeNum \in 0 .. UnitNum /\ Wraps(freePos, T) /\ UnitNum \in Nat /\ UnitNum >= 1
  BY Bounds DEF Laid, Types
<1>2. j + n <= freeNum /\ b = IF j = 0 THEN freePos ELSE 0
  OBVIOUS
<1>3. /\ j \in 0 .. UnitNum
      /\ j = 0 <=> freePos + n <= UnitNum
      /\ j # 0 => freePos + j = UnitNum
  BY <1>1, JumpIs
<1>4. b + n <= UnitNum /\ b \in 0 .. UnitNum - 1
  <2>1. CASE j = 0
    BY <1>1, <1>2, <1>3, <2>1
  <2>2. CASE j # 0
    BY <1>1, <1>2, <1>3, <2>2
  <2> QED  BY <2>1, <2>2
<1>5. b = usedPos + (T + j) \/ b = usedPos + (T + j) - UnitNum
  <2>1. freePos = usedPos + T \/ freePos = usedPos + T - UnitNum
    BY <1>1 DEF Wraps
  <2>2. CASE j = 0
    <3>1. b = freePos /\ T + j = T /\ T \in Int
      BY <1>1, <1>2, <2>2
    <3> QED  BY <2>1, <3>1
  <2>3. CASE j # 0
    <3>1. b = 0 /\ freePos + j = UnitNum
      BY <1>2, <1>3, <2>3
    <3>2. T + j < UnitNum /\ T \in 0 .. UnitNum
      BY <1>1, <1>2, <1>3
    <3>3. 0 = usedPos + (T + j) - UnitNum
      <4>1. CASE freePos = usedPos + T
        BY <1>1, <1>3, <3>1, <3>2, <4>1
      <4>2. CASE freePos = usedPos + T - UnitNum
        BY <1>1, <1>3, <3>1, <3>2, <4>2
      <4> QED  BY <2>1, <4>1, <4>2
    <3> QED  BY <3>1, <3>3
  <2> QED  BY <2>2, <2>3
<1>6. Wraps(b, (UnitNum - freeNum) + Jump(n))
  BY <1>5 DEF Wraps
<1> QED  BY <1>3, <1>4, <1>6

\* What was reserved.
LEMMA ReservedLies ==
  ASSUME Threads, Laid, NEW w \in Writers, wpc[w] \in {"copy", "copied"}
  PROVE  /\ InPlace(wpos, UnitNum - freeNum) /\ Extent(wpos) <= freeNum /\ Extent(wpos) \in Nat
         /\ slot[wpos].num = msg[w].num /\ slot[wpos].jump = Jump(slot[wpos].num)
<1> PICK n : n = msg[w].num
  OBVIOUS
<1>1. n \in Nat /\ n >= 1
  BY MsgParts
<1>2. slot[wpos] = [start |-> freePos, num |-> n, jump |-> Jump(n)] /\ Jump(n) + n <= freeNum
  BY DEF Laid, Reserved
<1>3. /\ Extent(wpos) = Jump(n) + n /\ Begin(wpos) = IF Jump(n) = 0 THEN freePos ELSE 0
      /\ slot[wpos].num = n /\ slot[wpos].jump = Jump(n)
  BY <1>2 DEF Extent, Begin
<1>4. /\ Wraps(Begin(wpos), (UnitNum - freeNum) + Jump(n)) /\ Begin(wpos) + n <= UnitNum
      /\ Jump(n) \in 0 .. UnitNum
  BY <1>1, <1>2, <1>3, RoomLies
<1>5. InPlace(wpos, UnitNum - freeNum)
  BY <1>1, <1>3, <1>4 DEF InPlace
<1>6. Extent(wpos) \in Nat /\ Extent(wpos) <= freeNum
  BY <1>1, <1>2, <1>3, <1>4, Bounds
<1> QED  BY <1>3, <1>5, <1>6

LEMMA CommitLays ==
  ASSUME Threads, Laid, NEW w \in Writers, Commit(w)
  PROVE  Laid'
<1> DEFINE T == UnitNum - freeNum
           e == Extent(wpos)
           N == InFlight
<1>1. /\ wpc[w] = "copied" /\ lock' = None /\ wpos' = Next1(wpos) /\ WGoto(w, "committed")
      /\ UNCHANGED <<slot, rpos, usedPos, mem>>
  BY DEF Commit
<1>2. InPlace(wpos, T) /\ e \in Nat /\ e <= freeNum /\ e = Jump(slot[wpos].num) + slot[wpos].num
  BY <1>1, ReservedLies DEF Extent
<1>3. freePos' = (freePos + e) % UnitNum /\ freeNum' = freeNum - e
  BY <1>2 DEF Commit
<1>4. N \in 0 .. MsgNum /\ N < MsgNum /\ N' = N + 1 /\ Threads'
  BY <1>1, FlightRange, WriteCounts DEF Entering
<1>5. /\ freePos \in 0 .. UnitNum - 1 /\ usedPos \in 0 .. UnitNum - 1 /\ freeNum \in 0 .. UnitNum
      /\ rpos \in Slot /\ wpos \in 0 .. MsgNum - 1 /\ wpos = At(N) /\ Wraps(freePos, T)
      /\ UnitNum \in Nat /\ UnitNum >= 1 /\ MsgNum \in Nat /\ MsgNum >= 1
  BY Bounds DEF Laid, Types
<1> HIDE DEF e, N
<1>6. freePos' = IF freePos + e < UnitNum THEN freePos + e ELSE freePos + e - UnitNum
  <2>1. freePos \in Nat /\ UnitNum \in Nat \ {0} /\ e \in Nat /\ freePos + e < 2 * UnitNum
    BY <1>2, <1>5
  <2> QED  BY <1>3, <2>1, ModOnce
<1>7. freePos' \in 0 .. UnitNum - 1 /\ freeNum' \in 0 .. UnitNum
  BY <1>2, <1>3, <1>5, <1>6
<1>8. wpos' = IF wpos + 1 < MsgNum THEN wpos + 1 ELSE wpos + 1 - MsgNum
  <2>1. wpos \in Nat /\ MsgNum \in Nat \ {0} /\ 1 \in Nat /\ wpos + 1 < 2 * MsgNum
    BY <1>5
  <2>2. (wpos + 1) % MsgNum = IF wpos + 1 < MsgNum THEN wpos + 1 ELSE wpos + 1 - MsgNum
    BY <2>1, ModOnce
  <2> QED  BY <1>1, <2>2 DEF Next1
<1>9. Types'
  <2>1. wpos' \in Slot
    BY <1>5, <1>8, Bounds
  <2> QED  BY <1>1, <1>7, <2>1, Bounds DEF Laid, Types
<1>10. wpos' = At(N + 1)
  <2>1. /\ At(N) = IF rpos + N < MsgNum THEN rpos + N ELSE rpos + N - MsgNum
        /\ At(N + 1) = IF rpos + (N + 1) < MsgNum THEN rpos + (N + 1) ELSE rpos + (N + 1) - MsgNum
        /\ rpos \in 0 .. MsgNum - 1
    <3>1. N \in 0 .. MsgNum /\ N + 1 \in 0 .. MsgNum
      BY <1>4, <1>5
    <3> QED  BY <1>5, <3>1, AtIs, Bounds
  <2> QED  BY <1>4, <1>5, <1>8, <2>1
<1>11. wpos' = At(InFlight)'
  BY <1>1, <1>4, <1>10 DEF At, N
<1>12. Reserved'
  <2>1. \A v \in Writers : wpc'[v] \notin {"copy", "copied"}
    BY <1>1, <1>4, LoopAssumption DEF Threads
  <2> QED  BY <2>1 DEF Reserved
<1>13. Wraps(freePos, UnitNum - freeNum)'
  <2>1. freePos = usedPos + T \/ freePos = usedPos + T - UnitNum
    BY <1>5 DEF Wraps
  <2>2. freePos' = usedPos + (UnitNum - freeNum') \/ freePos' = usedPos + (UnitNum - freeNum') - UnitNum
    BY <1>2, <1>3, <1>5, <1>6, <2>1
  <2> QED  BY <1>1, <2>2 DEF Wraps
<1>14. PICK pos : Chain(pos)
  BY DEF Laid
<1>15. /\ pos \in [0 .. MsgNum -> Nat] /\ pos[0] = 0 /\ pos[N] = T
       /\ \A i \in 0 .. N - 1 : InPlace(At(i), pos[i]) /\ pos[i + 1] = pos[i] + Extent(At(i))
       /\ \A i, k \in 0 .. N : i <= k => pos[i] <= pos[k]
  BY <1>14 DEF Chain, N
<1>16. /\ T \in Nat /\ T + e \in Nat /\ N + 1 \in 0 .. MsgNum /\ 0 # N + 1
       /\ UnitNum - freeNum' = T + e
  BY <1>2, <1>3, <1>4, <1>5
<1> PICK p : p = [pos EXCEPT ![N + 1] = T + e]
  OBVIOUS
<1>17. /\ p \in [0 .. MsgNum -> Nat] /\ p[N + 1] = T + e /\ p[0] = 0
       /\ \A i \in 0 .. N : p[i] = pos[i]
  BY <1>4, <1>15, <1>16
<1>18. ASSUME NEW i \in 0 .. N
       PROVE  InPlace(At(i), p[i]) /\ p[i + 1] = p[i] + Extent(At(i))
  <2>1. CASE i = N
    BY <1>2, <1>5, <1>15, <1>17, <2>1 DEF e
  <2>2. CASE i # N
    <3>1. i \in 0 .. N - 1 /\ i + 1 \in 0 .. N
      BY <1>4, <2>2
    <3> QED  BY <1>15, <1>17, <3>1
  <2> QED  BY <2>1, <2>2
<1>19. ASSUME NEW i \in 0 .. N + 1, NEW k \in 0 .. N + 1, i <= k
       PROVE  p[i] <= p[k]
  <2>1. CASE k \in 0 .. N
    BY <1>4, <1>15, <1>17, <1>19, <2>1
  <2>2. CASE k = N + 1 /\ i = N + 1
    BY <1>16, <1>17, <2>2
  <2>3. CASE k = N + 1 /\ i \in 0 .. N
    <3>0. i \in 0 .. N /\ N \in 0 .. N /\ i <= N /\ i \in 0 .. MsgNum
      BY <1>4, <1>5, <2>3
    <3>1. pos[i] <= pos[N] /\ pos[i] \in Nat
      BY <1>15, <3>0
    <3>2. pos[i] <= T /\ p[i] = pos[i] /\ p[k] = T + e
      BY <1>15, <1>17, <2>3, <3>1
    <3> QED  BY <1>2, <1>16, <3>1, <3>2
  <2> QED  BY <1>4, <1>19, <2>1, <2>2, <2>3
<1>20. Chain(p)'
  <2>1. \A i : At(i)' = At(i) /\ Extent(At(i))' = Extent(At(i))
    BY <1>1 DEF At, Extent
  <2>2. \A i, o : InPlace(At(i), o)' <=> InPlace(At(i), o)
    BY <1>1 DEF InPlace, At, Begin, Wraps
  <2>3. InFlight' = N + 1 /\ (InFlight - 1)' = N
    BY <1>4 DEF N
  <2>4. \A i \in 0 .. N : InPlace(At(i), p[i])' /\ p[i + 1] = p[i] + Extent(At(i))'
    BY <1>18, <2>1, <2>2
  <2>5. p[InFlight'] = UnitNum - freeNum'
    BY <1>16, <1>17, <2>3
  <2> QED  BY <1>17, <1>19, <2>3, <2>4, <2>5 DEF Chain
<1> QED  BY <1>9, <1>11, <1>12, <1>13, <1>20 DEF Laid
\* Behind the message given back the distances shrink by its extent.
LEMMA WrapsShift ==
  ASSUME NEW used \in 0 .. UnitNum - 1, NEW new, NEW e \in 0 .. UnitNum,
         new = IF used + e < UnitNum THEN used + e ELSE used + e - UnitNum,
         NEW u \in 0 .. UnitNum - 1, NEW o \in Nat, e <= o,
         u = used + o \/ u = used + o - UnitNum
  PROVE  u = new + (o - e) \/ u = new + (o - e) - UnitNum
<1>1. UnitNum \in Nat
  BY Bounds
<1>2. CASE u = used + o
  BY <1>1, <1>2
<1>3. CASE u = used + o - UnitNum
  BY <1>1, <1>3
<1> QED  BY <1>2, <1>3

LEMMA GiveBackLays ==
  ASSUME Threads, Laid, GiveBack
  PROVE  Laid' /\ \A i \in 0 .. InFlight - 2 : At(i)' = At(i + 1)
<1> PICK e, N : e = Extent(rpos) /\ N = InFlight
  OBVIOUS
<1>1. /\ rpc = "reading" /\ lock = None /\ rpos' = Next1(rpos)
      /\ usedPos' = (usedPos + e) % UnitNum /\ freeNum' = freeNum + e
      /\ UNCHANGED <<slot, wpos, freePos, lock, mem, wpc, msg>>
  BY DEF GiveBack
<1>2. /\ UnitNum \in Nat /\ UnitNum >= 1 /\ MsgNum \in Nat /\ MsgNum >= 1
      /\ freePos \in 0 .. UnitNum - 1 /\ usedPos \in 0 .. UnitNum - 1 /\ freeNum \in 0 .. UnitNum
      /\ rpos \in Slot /\ rpos \in 0 .. MsgNum - 1 /\ Types
      /\ wpos = At(N) /\ Wraps(freePos, UnitNum - freeNum)
  BY Bounds DEF Laid, Types
<1>3. N \in 1 .. MsgNum /\ InFlight' = N - 1
  <2>1. Read
    BY DEF Read
  <2> QED  BY <1>1, <1>2, <2>1, FlightRange, ReadCounts
<1>4. PICK pos : Chain(pos)
  BY DEF Laid
<1>5. /\ pos \in [0 .. MsgNum -> Nat] /\ pos[0] = 0 /\ pos[N] = UnitNum - freeNum
      /\ \A i \in 0 .. N - 1 : InPlace(At(i), pos[i]) /\ pos[i + 1] = pos[i] + Extent(At(i))
      /\ \A i, k \in 0 .. N : i <= k => pos[i] <= pos[k]
  BY <1>4 DEF Chain
<1>6. At(0) = rpos /\ e = pos[1] /\ e \in 0 .. UnitNum - freeNum
  <2>1. 0 \in 0 .. MsgNum /\ 1 \in 0 .. MsgNum /\ 0 \in 0 .. N - 1 /\ 1 \in 0 .. N /\ N \in 0 .. N
        /\ N >= 1 /\ rpos + 0 = rpos /\ rpos < MsgNum
    BY <1>2, <1>3
  <2>2. At(0) = rpos
    BY <1>2, <2>1, AtIs
  <2>3. Extent(rpos) \in Nat
    BY <1>2, SlotParts
  <2>4. pos[0 + 1] = pos[0] + Extent(At(0)) /\ pos[1] <= pos[N]
    BY <1>5, <2>1
  <2> QED  BY <1>2, <1>5, <2>2, <2>3, <2>4
<1>7. usedPos' = IF usedPos + e < UnitNum THEN usedPos + e ELSE usedPos + e - UnitNum
  <2>1. usedPos \in Nat /\ UnitNum \in Nat \ {0} /\ e \in Nat /\ usedPos + e < 2 * UnitNum
    BY <1>2, <1>6
  <2> QED  BY <1>1, <2>1, ModOnce
<1>8. /\ usedPos' \in 0 .. UnitNum - 1 /\ freeNum' \in 0 .. UnitNum /\ e \in 0 .. UnitNum
      /\ UnitNum - freeNum' = (UnitNum - freeNum) - e
  BY <1>1, <1>2, <1>6, <1>7
<1>9. rpos' = IF rpos + 1 < MsgNum THEN rpos + 1 ELSE rpos + 1 - MsgNum
  <2>1. rpos \in Nat /\ MsgNum \in Nat \ {0} /\ 1 \in Nat /\ rpos + 1 < 2 * MsgNum
    BY <1>2
  <2>2. (rpos + 1) % MsgNum = IF rpos + 1 < MsgNum THEN rpos + 1 ELSE rpos + 1 - MsgNum
    BY <2>1, ModOnce
  <2> QED  BY <1>1, <2>2 DEF Next1
<1>10. rpos' \in Slot
  BY <1>2, <1>9, Bounds
<1>11. Types'
  BY <1>1, <1>8, <1>10, Bounds DEF Laid, Types
<1>12. ASSUME NEW i \in 0 .. MsgNum - 1
       PROVE  At(i)' = At(i + 1)
  <2>1. i \in 0 .. MsgNum /\ i + 1 \in 0 .. MsgNum /\ i \in Nat /\ rpos' \in Nat
        /\ MsgNum \in Nat \ {0} /\ rpos' + i < 2 * MsgNum
    BY <1>2, <1>9
  <2>2. At(i + 1) = IF rpos + (i + 1) < MsgNum THEN rpos + (i + 1) ELSE rpos + (i + 1) - MsgNum
    BY <1>2, <2>1, AtIs
  <2>3. At(i)' = (rpos' + i) % MsgNum
    BY DEF At
  <2>4. At(i)' = IF rpos' + i < MsgNum THEN rpos' + i ELSE rpos' + i - MsgNum
    BY <2>1, <2>3, ModOnce
  <2> QED  BY <1>2, <1>9, <2>2, <2>4
<1>13. wpos' = At(InFlight)'
  <2>1. N - 1 \in 0 .. MsgNum - 1 /\ N - 1 + 1 = N /\ InFlight' = N - 1
    BY <1>2, <1>3
  <2>2. At(InFlight)' = At(N - 1)'
    BY <2>1 DEF At
  <2> QED  BY <1>1, <1>2, <1>12, <2>1, <2>2
<1>14. Reserved'
  <2>1. \A v \in Writers : wpc[v] \notin {"copy", "copied"}
    BY <1>1, LoopAssumption DEF Threads
  <2> QED  BY <1>1, <2>1 DEF Reserved
<1>15. \A u \in 0 .. UnitNum - 1, o \in Nat : e <= o /\ Wraps(u, o) => Wraps(u, o - e)'
  <2> SUFFICES ASSUME NEW u \in 0 .. UnitNum - 1, NEW o \in Nat, e <= o, Wraps(u, o)
               PROVE  u = usedPos' + (o - e) \/ u = usedPos' + (o - e) - UnitNum
    BY DEF Wraps
  <2>1. u = usedPos + o \/ u = usedPos + o - UnitNum
    BY DEF Wraps
  <2>2. usedPos \in 0 .. UnitNum - 1 /\ e \in 0 .. UnitNum
    BY <1>2, <1>8
  <2> QED  BY <1>7, <2>1, <2>2, WrapsShift
<1>16. Wraps(freePos, UnitNum - freeNum)'
  <2> PICK d, f : d = UnitNum - freeNum /\ f = freePos
    OBVIOUS
  <2>1. d \in Nat /\ e <= d /\ f \in 0 .. UnitNum - 1 /\ Wraps(f, d)
    BY <1>2, <1>6
  <2>2. Wraps(f, d - e)'
    BY <1>15, <2>1
  <2>3. f = freePos' /\ d - e = UnitNum - freeNum'
    BY <1>1, <1>8
  <2> QED  BY <2>2, <2>3 DEF Wraps
<1>0. PICK p : p = [i \in 0 .. MsgNum |-> IF i < N THEN pos[i + 1] - e ELSE 0]
  OBVIOUS
<1>17. ASSUME NEW i \in 0 .. N - 1
       PROVE  p[i] = pos[i + 1] - e /\ i + 1 \in 1 .. N /\ pos[i + 1] \in Nat /\ e <= pos[i + 1]
  <2>1. i < N /\ i \in 0 .. MsgNum /\ i + 1 \in 0 .. MsgNum /\ i + 1 \in 1 .. N
        /\ 1 \in 0 .. N /\ i + 1 \in 0 .. N /\ 1 <= i + 1
    BY <1>2, <1>3
  <2>2. pos[1] <= pos[i + 1]
    BY <1>5, <2>1
  <2> QED  BY <1>0, <1>5, <1>6, <2>1, <2>2
<1>18. p \in [0 .. MsgNum -> Nat] /\ p[0] = 0 /\ p[N - 1] = UnitNum - freeNum'
  <2>1. ASSUME NEW i \in 0 .. MsgNum  PROVE (IF i < N THEN pos[i + 1] - e ELSE 0) \in Nat
    <3>1. CASE i < N
      <4>1. i \in 0 .. N - 1
        BY <1>2, <1>3, <3>1
      <4>2. pos[i + 1] \in Nat /\ e <= pos[i + 1]
        BY <1>17, <4>1
      <4> QED  BY <1>8, <3>1, <4>2
    <3> QED  BY <3>1
  <2>2. 0 \in 0 .. N - 1 /\ N - 1 \in 0 .. N - 1 /\ 0 + 1 = 1 /\ N - 1 + 1 = N
    BY <1>2, <1>3
  <2>3. p[0] = pos[1] - e /\ p[N - 1] = pos[N] - e
    BY <1>17, <2>2
  <2>4. p \in [0 .. MsgNum -> Nat]
    BY <1>0, <2>1
  <2>5. p[0] = 0
    <3>1. e \in Int /\ pos[1] = e
      BY <1>6, <1>8, <1>2
    <3> QED  BY <2>3, <3>1
  <2>6. p[N - 1] = (UnitNum - freeNum) - e
    <3>1. pos[N] = UnitNum - freeNum
      BY <1>5
    <3> QED  BY <2>3, <3>1
  <2> QED  BY <1>8, <2>4, <2>5, <2>6
<1>19. \A i \in 0 .. N - 2 : InPlace(At(i), p[i])' /\ p[i + 1] = p[i] + Extent(At(i))'
  <2> SUFFICES ASSUME NEW i \in 0 .. N - 2
               PROVE  InPlace(At(i), p[i])' /\ p[i + 1] = p[i] + Extent(At(i))'
    OBVIOUS
  <2>1. i \in 0 .. N - 1 /\ i + 1 \in 0 .. N - 1 /\ i + 1 + 1 = i + 2 /\ i \in 0 .. MsgNum - 1
        /\ i + 1 \in 0 .. MsgNum
    BY <1>2, <1>3
  <2> PICK a : a = At(i + 1)
    OBVIOUS
  <2>2. a = At(i)' /\ a \in Slot
    BY <1>2, <1>12, <2>1, AtIs
  <2>3. Extent(At(i))' = Extent(a) /\ Begin(At(i))' = Begin(a) /\ slot'[At(i)'] = slot[a]
    BY <1>1, <2>2 DEF Extent, Begin
  <2>4. InPlace(a, pos[i + 1]) /\ pos[i + 2] = pos[i + 1] + Extent(a)
    BY <1>5, <2>1
  <2>5. p[i] = pos[i + 1] - e /\ p[i + 1] = pos[i + 2] - e /\ pos[i + 1] \in Nat /\ e <= pos[i + 1]
        /\ pos[i + 2] \in Nat
    BY <1>17, <2>1
  <2>6. Begin(a) \in 0 .. UnitNum - 1 /\ slot[a].jump \in 0 .. UnitNum /\ slot[a].num \in 0 .. UnitNum
        /\ Extent(a) = slot[a].jump + slot[a].num
    BY <1>2, <2>2, SlotParts
  <2>7. Wraps(Begin(a), p[i] + slot[a].jump)'
    <3>1. Wraps(Begin(a), pos[i + 1] + slot[a].jump)
      BY <2>4 DEF InPlace
    <3>2. pos[i + 1] + slot[a].jump \in Nat /\ e <= pos[i + 1] + slot[a].jump
          /\ (pos[i + 1] + slot[a].jump) - e = p[i] + slot[a].jump
      BY <1>2, <1>8, <2>5, <2>6
    <3>3. Begin(a)' = Begin(a) /\ slot'[a] = slot[a]
      BY <1>1 DEF Begin
    <3>4. PICK b, d : b = Begin(a) /\ d = pos[i + 1] + slot[a].jump
      OBVIOUS
    <3>5. Wraps(b, d - e)'
      BY <1>15, <2>6, <3>1, <3>2, <3>4
    <3>6. Wraps(b, p[i] + slot[a].jump)'
      BY <3>2, <3>3, <3>4, <3>5
    <3> QED  BY <3>3, <3>4, <3>6 DEF Wraps
  <2>8. slot[a].num >= 1 /\ Begin(a) + slot[a].num <= UnitNum
    BY <2>4 DEF InPlace
  <2>9. InPlace(a, p[i])'
    <3>1. Begin(a)' = Begin(a) /\ slot'[a] = slot[a]
      BY <1>1 DEF Begin
    <3> QED  BY <2>7, <2>8, <3>1 DEF InPlace
  <2>10. InPlace(At(i), p[i])'
    BY <2>2, <2>9 DEF InPlace, Begin
  <2>11. p[i + 1] = p[i] + Extent(a)
    BY <1>2, <1>8, <2>4, <2>5, <2>6
  <2> QED  BY <2>3, <2>10, <2>11
<1>20. \A i, k \in 0 .. N - 1 : i <= k => p[i] <= p[k]
  <2> SUFFICES ASSUME NEW i \in 0 .. N - 1, NEW k \in 0 .. N - 1, i <= k  PROVE p[i] <= p[k]
    OBVIOUS
  <2>1. /\ p[i] = pos[i + 1] - e /\ i + 1 \in 0 .. N /\ pos[i + 1] \in Nat
        /\ p[k] = pos[k + 1] - e /\ k + 1 \in 0 .. N /\ pos[k + 1] \in Nat /\ i + 1 <= k + 1
    <3>1. /\ p[i] = pos[i + 1] - e /\ i + 1 \in 1 .. N /\ pos[i + 1] \in Nat
          /\ p[k] = pos[k + 1] - e /\ k + 1 \in 1 .. N /\ pos[k + 1] \in Nat
      BY <1>17
    <3> QED  BY <1>2, <1>3, <3>1
  <2>2. pos[i + 1] <= pos[k + 1]
    BY <1>5, <2>1
  <2> QED  BY <1>2, <1>8, <2>1, <2>2
<1>21. Chain(p)'
  <2>1. InFlight' = N - 1 /\ (N - 1) - 1 = N - 2
    BY <1>2, <1>3
  <2>2. (InFlight - 1)' = N - 2
    BY <2>1
  <2>3. \A i \in 0 .. (InFlight - 1)' : InPlace(At(i), p[i])' /\ p[i + 1] = p[i] + Extent(At(i))'
    BY <1>19, <2>2
  <2>4. p[InFlight'] = UnitNum - freeNum' /\ \A i, k \in 0 .. InFlight' : i <= k => p[i] <= p[k]
    BY <1>18, <1>20, <2>1
  <2> QED  BY <1>18, <2>3, <2>4 DEF Chain
<1>22. \A i \in 0 .. InFlight - 2 : At(i)' = At(i + 1)
  BY <1>2, <1>3, <1>12
<1> QED  BY <1>11, <1>13, <1>14, <1>16, <1>21, <1>22 DEF Laid
---------------------------------------------------------------------------
(* What the ring accounts for.                                              *)

IInv == Threads /\ Laid

\* The steps that leave the ring and its memory alone.
LEMMA RingRests ==
  ASSUME Threads, [Next]_vars, ~GiveBack,
         \A w \in Writers : ~Reserve(w) /\ ~Copy(w) /\ ~Commit(w)
  PROVE  /\ Threads' /\ InFlight' = InFlight /\ UNCHANGED ring /\ mem' = mem
         /\ \A v \in Writers : wpc'[v] \in {"copy", "copied"} => wpc'[v] = wpc[v] /\ msg'[v] = msg[v]
         /\ Take \/ PostRead \/ rpc' = rpc
<1>1. CASE \E w \in Writers : TryWait(w)
  <2> PICK w \in Writers : TryWait(w)
    BY <1>1
  <2>1. Threads' /\ InFlight' = InFlight
    BY TryWaitCounts
  <2>2. UNCHANGED ring /\ mem' = mem /\ rpc' = rpc
    BY DEF TryWait
  <2>3. \A v \in Writers : wpc'[v] \in {"copy", "copied"} => wpc'[v] = wpc[v] /\ msg'[v] = msg[v]
    <3>1. CASE UNCHANGED <<wpc, msg>>
      BY <3>1
    <3>2. CASE ~UNCHANGED <<wpc, msg>>
      <4>1. WGoto(w, "gotSem") /\ \A v \in Writers : v # w => msg'[v] = msg[v]
        BY <3>2 DEF TryWait, Threads
      <4> QED  BY <4>1, WriterMoves
    <3> QED  BY <3>1, <3>2
  <2> QED  BY <2>1, <2>2, <2>3
<1>2. CASE \E w \in Writers : PostRefused(w) \/ PostWritten(w)
  <2> PICK w \in Writers : PostRefused(w) \/ PostWritten(w)
    BY <1>2
  <2>1. Threads' /\ InFlight' = InFlight
    BY WriterIsDone
  <2>2. /\ UNCHANGED ring /\ mem' = mem /\ rpc' = rpc
        /\ WGoto(w, "idle") /\ msg' = [msg EXCEPT ![w] = None]
    BY DEF PostRefused, PostWritten
  <2>3. \A v \in Writers : wpc'[v] \in {"copy", "copied"} => wpc'[v] = wpc[v] /\ msg'[v] = msg[v]
    BY <2>2, WriterMoves DEF Threads
  <2> QED  BY <2>1, <2>2, <2>3
<1>3. CASE \E w \in Writers : Refuse(w)
  <2> PICK w \in Writers : Refuse(w)
    BY <1>3
  <2>1. UNCHANGED ring /\ mem' = mem /\ WGoto(w, "refused") /\ msg' = msg /\ rpc' = rpc
    BY DEF Refuse
  <2>2. Threads' /\ InFlight' = InFlight
    BY WriteCounts, FlightRange
  <2>3. \A v \in Writers : wpc'[v] \in {"copy", "copied"} => wpc'[v] = wpc[v]
    BY <2>1, WriterMoves
  <2> QED  BY <2>1, <2>2, <2>3
<1>4. CASE Take \/ PostRead
  <2>1. UNCHANGED ring /\ UNCHANGED <<mem, wpc, msg>> /\ Read
    BY <1>4 DEF Take, PostRead, Read
  <2>2. Threads' /\ InFlight' = InFlight
    BY <2>1, ReadCounts, FlightRange
  <2> QED  BY <1>4, <2>1, <2>2
<1>5. CASE UNCHANGED vars
  <2>1. /\ UNCHANGED <<ring, mem, wpc, msg, rpc, rsem, wsem, offered, lock>>
        /\ InFlight' = InFlight /\ Cardinal({"committed"})' = Cardinal({"committed"})
    BY <1>5 DEF vars, InFlight, Cardinal
  <2>2. Threads'
    BY <2>1 DEF Threads
  <2> QED  BY <2>1, <2>2
<1> QED  BY <1>1, <1>2, <1>3, <1>4, <1>5 DEF Next, Write, Read

LEMMA NextInv == IInv /\ [Next]_vars => IInv'
<1> SUFFICES ASSUME Threads, Laid, [Next]_vars PROVE Threads' /\ Laid'
  BY DEF IInv
<1>1. mem \in [Unit -> 0 .. MaxMsgs]
  BY DEF Laid, Types
<1>2. ASSUME NEW w \in Writers, Copy(w)  PROVE Threads' /\ Laid'
  <2>1. UNCHANGED ring /\ WGoto(w, "copied") /\ msg' = msg /\ wpc[w] = "copy" /\ ~Commit(w)
    BY <1>2 DEF Copy, Commit
  <2>2. Threads' /\ InFlight' = InFlight
    BY <1>2, <2>1, WriteCounts, FlightRange
  <2>3. \A v \in Writers : wpc'[v] \in {"copy", "copied"} => wpc[v] \in {"copy", "copied"}
    BY <2>1, WriterMoves
  <2>4. mem' \in [Unit -> 0 .. MaxMsgs]
    <3>1. msg[w].no \in 0 .. MaxMsgs
      BY <2>1, MsgParts, Bounds
    <3>2. PICK over \in Spill(msg[w]) :
            mem' = [u \in Unit |-> IF u - Begin(wpos) \in 0 .. msg[w].num + over - 1
                                   THEN msg[w].no ELSE mem[u]]
      BY <1>2 DEF Copy
    <3> QED  BY <1>1, <3>1, <3>2
  <2> QED  BY <2>1, <2>2, <2>3, <2>4, LaidRests
<1>3. ASSUME NEW w \in Writers, Reserve(w)  PROVE Threads' /\ Laid'
  BY <1>3, WriteCounts, ReserveLays
<1>4. ASSUME NEW w \in Writers, Commit(w)  PROVE Threads' /\ Laid'
  BY <1>4, WriteCounts, CommitLays
<1>5. CASE GiveBack
  BY <1>5, ReadCounts, GiveBackLays DEF Read
<1>6. CASE ~GiveBack /\ \A w \in Writers : ~Reserve(w) /\ ~Copy(w) /\ ~Commit(w)
  <2>1. /\ Threads' /\ InFlight' = InFlight /\ UNCHANGED ring /\ mem' = mem
        /\ \A v \in Writers : wpc'[v] \in {"copy", "copied"} => wpc'[v] = wpc[v] /\ msg'[v] = msg[v]
    BY <1>6, RingRests
  <2> QED  BY <1>1, <2>1, LaidRests
<1> QED  BY <1>2, <1>3, <1>4, <1>5, <1>6

LEMMA InvAlways == Spec => []IInv
<1>1. Init => IInv
  BY InitThreads, InitLaid DEF IInv
<1> QED  BY <1>1, NextInv, PTL DEF Spec

\* The messages in flight and the units in use.
LEMMA EmptyMeansFree ==
  ASSUME Threads, Laid
  PROVE  InFlight = 0 <=> freeNum = UnitNum
<1> PICK N : N = InFlight
  OBVIOUS
<1>1. /\ N \in 0 .. MsgNum /\ MsgNum \in Nat /\ UnitNum \in Nat /\ freeNum \in 0 .. UnitNum
      /\ rpos \in Slot /\ Types
  BY FlightRange, Bounds DEF Laid, Types
<1>2. PICK pos : Chain(pos)
  BY DEF Laid
<1>3. /\ pos \in [0 .. MsgNum -> Nat] /\ pos[0] = 0 /\ pos[N] = UnitNum - freeNum
      /\ \A i \in 0 .. N - 1 : InPlace(At(i), pos[i]) /\ pos[i + 1] = pos[i] + Extent(At(i))
      /\ \A i, k \in 0 .. N : i <= k => pos[i] <= pos[k]
  BY <1>2 DEF Chain
<1>4. CASE N = 0
  BY <1>1, <1>3, <1>4
<1>5. CASE N # 0
  <2>1. /\ 0 \in 0 .. N - 1 /\ 1 \in 0 .. N /\ N \in 0 .. N /\ 1 <= N /\ 0 \in 0 .. MsgNum
        /\ 1 \in 0 .. MsgNum
    BY <1>1, <1>5
  <2>2. At(0) \in Slot /\ InPlace(At(0), pos[0]) /\ pos[0 + 1] = pos[0] + Extent(At(0))
    BY <1>1, <1>3, <2>1, AtIs
  <2>3. slot[At(0)].num >= 1 /\ slot[At(0)].num \in 0 .. UnitNum
        /\ Extent(At(0)) = slot[At(0)].jump + slot[At(0)].num /\ slot[At(0)].jump \in 0 .. UnitNum
    BY <1>1, <2>2, SlotParts DEF InPlace
  <2>4. pos[1] = Extent(At(0)) /\ pos[1] <= pos[N]
    BY <1>1, <1>3, <2>1, <2>2, <2>3
  <2>5. UnitNum - freeNum >= 1
    BY <1>1, <1>3, <2>3, <2>4
  <2> QED  BY <1>1, <1>5, <2>5
<1> QED  BY <1>4, <1>5

LEMMA FreeBegins ==
  ASSUME Laid
  PROVE  freePos = (usedPos + UnitNum - freeNum) % UnitNum
<1> PICK T : T = UnitNum - freeNum
  OBVIOUS
<1>1. /\ freePos \in 0 .. UnitNum - 1 /\ usedPos \in 0 .. UnitNum - 1 /\ freeNum \in 0 .. UnitNum
      /\ UnitNum \in Nat /\ UnitNum >= 1 /\ Wraps(freePos, T)
  BY Bounds DEF Laid, Types
<1>2. usedPos \in Nat /\ T \in Nat /\ UnitNum \in Nat \ {0} /\ usedPos + T < 2 * UnitNum
  BY <1>1
<1>3. (usedPos + T) % UnitNum = IF usedPos + T < UnitNum THEN usedPos + T ELSE usedPos + T - UnitNum
  BY <1>2, ModOnce
<1>4. freePos = (usedPos + T) % UnitNum
  BY <1>1, <1>2, <1>3 DEF Wraps
<1>5. usedPos + UnitNum - freeNum = usedPos + T
  BY <1>1
<1> QED  BY <1>4, <1>5

\* The types of the ring, of its memory, and that only who copies has the mutex.
THEOREM TypeCorrect == Spec => []TypeOK
<1>1. IInv => TypeOK
  BY FlightRange DEF IInv, Threads, Laid, Types, TypeOK
<1> QED  BY <1>1, InvAlways, PTL

\* skipWriteMsgQ and skipReadMsgQ lose no slot and no unit, whatever jumps there were.
THEOREM RingAccountedAlways == Spec => []RingAccounted
<1>1. IInv => RingAccounted
  BY FlightRange, EmptyMeansFree, FreeBegins DEF IInv, Threads, Laid, At, RingAccounted
<1> QED  BY <1>1, InvAlways, PTL
---------------------------------------------------------------------------
(* What the memory holds.                                                   *)

Holds(s, m) == \A k \in 0 .. slot[s].num - 1 : mem[Begin(s) + k] = m

Written == \A w \in Writers : wpc[w] = "copied" => Holds(wpos, msg[w].no)

\* What is copied takes the last free units, and may be one unit more.
LastUnits(w) == Copy(w) /\ msg[w].kind = "audio" /\ freeNum = Extent(wpos)

\* A unit is at one distance from used_pos only.
LEMMA OneDistance ==
  ASSUME usedPos \in Int, NEW u, NEW o1 \in 0 .. UnitNum - 1, NEW o2 \in 0 .. UnitNum - 1,
         Wraps(u, o1), Wraps(u, o2)
  PROVE  o1 = o2
BY Bounds DEF Wraps

\* The next unit is one more away.
LEMMA Farther ==
  ASSUME usedPos \in Int, NEW b \in Int, NEW o \in Int, NEW k \in Int, Wraps(b, o)
  PROVE  Wraps(b + k, o + k)
BY Bounds DEF Wraps

\* The units of the messages in flight lie before the free units; used_pos is of the first.
LEMMA Lies ==
  ASSUME Threads, Laid, NEW i \in 0 .. InFlight - 1, NEW k \in 0 .. slot[At(i)].num - 1
  PROVE  /\ Begin(At(i)) + k \in Unit
         /\ \E o \in 0 .. (UnitNum - freeNum) - 1 :
               Wraps(Begin(At(i)) + k, o) /\ (i >= 1 => o >= 1)
<1> PICK N, a, T : N = InFlight /\ a = At(i) /\ T = UnitNum - freeNum
  OBVIOUS
<1>1. /\ N \in 0 .. MsgNum /\ MsgNum \in Nat /\ UnitNum \in Nat /\ freeNum \in 0 .. UnitNum
      /\ rpos \in Slot /\ Types /\ usedPos \in Int
  <2>1. freeNum \in 0 .. UnitNum /\ rpos \in Slot /\ Types /\ usedPos \in 0 .. UnitNum - 1
    BY Bounds DEF Laid, Types
  <2> QED  BY <2>1, FlightRange, Bounds
<1>2. PICK pos : Chain(pos)
  BY DEF Laid
<1>3. /\ pos \in [0 .. MsgNum -> Nat] /\ pos[N] = T
      /\ InPlace(a, pos[i]) /\ pos[i + 1] = pos[i] + Extent(a)
      /\ \A h, l \in 0 .. N : h <= l => pos[h] <= pos[l]
  BY <1>2 DEF Chain
<1>4. i \in 0 .. N - 1 /\ i \in 0 .. MsgNum /\ i + 1 \in 0 .. N /\ N \in 0 .. N /\ i + 1 <= N
      /\ i + 1 \in 0 .. MsgNum
  BY <1>1
<1>5. a \in Slot
  BY <1>1, <1>4, AtIs
<1>6. /\ Begin(a) \in 0 .. UnitNum - 1 /\ slot[a].num \in 0 .. UnitNum /\ slot[a].jump \in 0 .. UnitNum
      /\ Extent(a) = slot[a].jump + slot[a].num
  BY <1>1, <1>5, SlotParts
<1>7. pos[i] \in Nat /\ pos[i + 1] <= T
  <2>1. pos[i + 1] <= pos[N]
    BY <1>3, <1>4
  <2> QED  BY <1>3, <1>4, <2>1
<1>0. PICK d : d = pos[i] + slot[a].jump
  OBVIOUS
<1>8. Wraps(Begin(a), d) /\ d \in Nat /\ k \in Nat /\ d + k \in 0 .. T - 1
  <2>1. Wraps(Begin(a), d)
    BY <1>0, <1>3 DEF InPlace
  <2>2. k \in Nat /\ k <= slot[a].num - 1
    BY <1>6
  <2>3. d \in Nat /\ d + slot[a].num = pos[i + 1] /\ d + slot[a].num <= T
    <3>1. pos[i + 1] = pos[i] + (slot[a].jump + slot[a].num)
      BY <1>3, <1>6
    <3> QED  BY <1>0, <1>6, <1>7, <3>1
  <2>4. T \in Int
    BY <1>1
  <2> QED  BY <1>6, <2>1, <2>2, <2>3, <2>4
<1>9. Wraps(Begin(a) + k, d + k)
  BY <1>1, <1>6, <1>8, Farther
<1>10. i >= 1 => d + k >= 1
  <2> SUFFICES ASSUME i >= 1 PROVE d + k >= 1
    OBVIOUS
  <2>1. 0 \in 0 .. N - 1 /\ 0 \in 0 .. MsgNum /\ 1 \in 0 .. N /\ i \in 0 .. N
    BY <1>1, <1>4
  <2>2. pos[1] <= pos[i]
    BY <1>3, <2>1
  <2> PICK f : f = At(0)
    OBVIOUS
  <2>3. pos[0] \in Nat /\ pos[0 + 1] = pos[0] + Extent(f) /\ slot[f].num >= 1 /\ f \in Slot
    BY <1>1, <1>2, <2>1, AtIs DEF Chain, InPlace
  <2>4. Extent(f) \in Nat /\ Extent(f) >= 1
    BY <1>1, <2>3, SlotParts
  <2>5. pos[i] >= 1
    BY <1>7, <2>2, <2>3, <2>4
  <2> QED  BY <1>0, <1>6, <1>7, <1>8, <2>5
<1>11. Begin(a) + k \in Unit
  <2>1. Begin(a) + slot[a].num <= UnitNum
    BY <1>3 DEF InPlace
  <2> QED  BY <1>1, <1>6, <1>8, <2>1, Bounds
<1> QED  BY <1>8, <1>9, <1>10, <1>11

\* What lies from free_pos on, within the free units, is in no message in flight.
LEMMA Apart ==
  ASSUME Threads, Laid, NEW i \in 0 .. InFlight - 1, NEW k \in 0 .. slot[At(i)].num - 1,
         NEW u, NEW o \in UnitNum - freeNum .. UnitNum - 1, Wraps(u, o)
  PROVE  u # Begin(At(i)) + k
<1> PICK v : v = Begin(At(i)) + k
  OBVIOUS
<1>1. UnitNum \in Nat /\ freeNum \in 0 .. UnitNum /\ usedPos \in Int
  BY Bounds DEF Laid, Types
<1>2. PICK d \in 0 .. (UnitNum - freeNum) - 1 : Wraps(v, d)
  BY Lies
<1>3. d \in 0 .. UnitNum - 1 /\ o \in 0 .. UnitNum - 1 /\ d # o
  BY <1>1, <1>2
<1>4. u # v
  BY <1>1, <1>2, <1>3, OneDistance
<1> QED  BY <1>4

\* What lies behind the last free unit is in no message in flight but the oldest.
LEMMA ApartFromLater ==
  ASSUME Threads, Laid, NEW i \in 0 .. InFlight - 1, NEW k \in 0 .. slot[At(i)].num - 1,
         i >= 1, NEW u, Wraps(u, UnitNum)
  PROVE  u # Begin(At(i)) + k
<1> PICK v : v = Begin(At(i)) + k
  OBVIOUS
<1>1. UnitNum \in Nat /\ freeNum \in 0 .. UnitNum /\ usedPos \in 0 .. UnitNum - 1
  BY Bounds DEF Laid, Types
<1>2. v \in 0 .. UnitNum - 1
  BY Lies, Bounds
<1>3. PICK d \in 0 .. (UnitNum - freeNum) - 1 : Wraps(v, d) /\ d >= 1
  BY Lies
<1>4. u # v
  <2>1. u = usedPos + UnitNum \/ u = usedPos + UnitNum - UnitNum
    BY DEF Wraps
  <2>2. v = usedPos + d \/ v = usedPos + d - UnitNum
    BY <1>3 DEF Wraps
  <2> QED  BY <1>1, <1>2, <1>3, <2>1, <2>2
<1> QED  BY <1>4

\* Where the reserved message goes, and the unit behind it.
LEMMA ReservedApart ==
  ASSUME Threads, Laid, NEW w \in Writers, wpc[w] \in {"copy", "copied"},
         NEW i \in 0 .. InFlight - 1, NEW k \in 0 .. slot[At(i)].num - 1,
         NEW l \in 0 .. msg[w].num,
         l = msg[w].num => i >= 1 \/ freeNum # Extent(wpos)
  PROVE  Begin(wpos) + l # Begin(At(i)) + k
<1> PICK T, b, n, j, u : T = UnitNum - freeNum /\ b = Begin(wpos) /\ n = msg[w].num
                         /\ j = slot[wpos].jump /\ u = b + l
  OBVIOUS
<1>1. /\ UnitNum \in Nat /\ freeNum \in 0 .. UnitNum /\ usedPos \in Int /\ Types /\ wpos \in Slot
  <2>1. freeNum \in 0 .. UnitNum /\ wpos \in Slot /\ Types /\ usedPos \in 0 .. UnitNum - 1
    BY Bounds DEF Laid, Types
  <2> QED  BY <2>1, Bounds
<1>2. /\ Wraps(b, T + j) /\ Extent(wpos) <= freeNum /\ slot[wpos].num = n
  BY ReservedLies DEF InPlace
<1>3. b \in 0 .. UnitNum - 1 /\ j \in 0 .. UnitNum /\ n \in 0 .. UnitNum /\ j + n <= freeNum
  BY <1>1, <1>2, SlotParts
<1>4. l \in 0 .. n
  OBVIOUS
<1>5. Wraps(b + l, (T + j) + l)
  <2>1. T + j \in Int /\ l \in Int /\ b \in Int
    BY <1>1, <1>3, <1>4
  <2> QED  BY <1>1, <1>2, <2>1, Farther
<1>6. PICK o : o = (T + j) + l
  OBVIOUS
<1>7. o \in UnitNum - freeNum .. UnitNum
  BY <1>1, <1>3, <1>4, <1>6
<1>8. CASE o # UnitNum
  <2>1. o \in UnitNum - freeNum .. UnitNum - 1 /\ Wraps(u, o)
    BY <1>1, <1>5, <1>6, <1>7, <1>8
  <2>2. u # Begin(At(i)) + k
    BY <2>1, Apart
  <2> QED  BY <2>2
<1>9. CASE o = UnitNum
  <2>1. l = n /\ j + n = freeNum
    BY <1>1, <1>3, <1>4, <1>6, <1>9
  <2>2. Extent(wpos) = j + n
    BY <1>1, <1>2, SlotParts
  <2>3. i >= 1 /\ Wraps(u, UnitNum)
    BY <1>5, <1>6, <1>9, <2>1, <2>2
  <2>4. u # Begin(At(i)) + k
    BY <2>3, ApartFromLater
  <2> QED  BY <2>4
<1> QED  BY <1>8, <1>9

\* No write touches what is in flight, but the one that may touch the oldest message.
LEMMA FlightKeeps ==
  ASSUME Threads, Laid, NEW w \in Writers, Reserve(w) \/ Copy(w),
         NEW i \in 0 .. InFlight - 1, i >= 1 \/ ~LastUnits(w)
  PROVE  /\ UNCHANGED <<rpos, rpc>> /\ InFlight' = InFlight
         /\ slot'[At(i)] = slot[At(i)] /\ Begin(At(i))' = Begin(At(i))
         /\ \A k \in 0 .. slot[At(i)].num - 1 : mem'[Begin(At(i)) + k] = mem[Begin(At(i)) + k]
<1> PICK a : a = At(i)
  OBVIOUS
<1>1. UNCHANGED <<rpos, rpc>> /\ At(i)' = At(i) /\ ~Commit(w)
  BY DEF Reserve, Copy, ring, At, Commit
<1>2. InFlight' = InFlight
  BY <1>1, WriteCounts, FlightRange
<1>3. slot'[a] = slot[a]
  <2>1. CASE Reserve(w)
    BY <2>1, ReserveLays
  <2>2. CASE Copy(w)
    BY <2>2 DEF Copy, ring
  <2> QED  BY <2>1, <2>2
<1>4. Begin(At(i))' = Begin(At(i))
  BY <1>1, <1>3 DEF Begin
<1>5. /\ rpos \in Slot /\ Types /\ UnitNum \in Nat /\ mem \in [Unit -> 0 .. MaxMsgs]
      /\ freeNum \in 0 .. UnitNum /\ Unit = 0 .. UnitNum - 1
  BY Bounds DEF Laid, Types
<1>6. ASSUME NEW k \in 0 .. slot[a].num - 1  PROVE mem'[Begin(a) + k] = mem[Begin(a) + k]
  <2> PICK u : u = Begin(a) + k
    OBVIOUS
  <2>1. u \in Unit
    BY Lies
  <2>2. CASE Reserve(w)
    <3>0. PICK n, j, c : n = msg[w].num /\ j = Jump(n) /\ c = (IF j = 0 THEN freePos ELSE 0)
      OBVIOUS
    <3>1. wpc[w] = "gotSem" /\ j + n <= freeNum /\ mem' = [mem EXCEPT ![c] = msg[w].no]
      BY <2>2, <3>0 DEF Reserve
    <3>2. n \in Nat /\ n >= 1
      BY <3>0, <3>1, MsgParts
    <3>3. Wraps(c, (UnitNum - freeNum) + j) /\ j \in 0 .. UnitNum
      BY <3>0, <3>1, <3>2, RoomLies
    <3>4. (UnitNum - freeNum) + j \in UnitNum - freeNum .. UnitNum - 1
      BY <1>5, <3>1, <3>2, <3>3
    <3>5. c # u
      BY <3>3, <3>4, Apart
    <3> QED  BY <1>5, <2>1, <3>1, <3>5
  <2>3. CASE Copy(w)
    <3>0. PICK n, b : n = msg[w].num /\ b = Begin(wpos)
      OBVIOUS
    <3>1. wpc[w] = "copy"
      BY <2>3 DEF Copy
    <3>2. PICK over \in Spill(msg[w]) :
            mem' = [v \in Unit |-> IF v - b \in 0 .. n + over - 1 THEN msg[w].no ELSE mem[v]]
      BY <2>3, <3>0 DEF Copy
    <3>3. over \in {0, 1} /\ (over = 1 => msg[w].kind = "audio")
      BY <3>2 DEF Spill
    <3>4. u - b \notin 0 .. n + over - 1
      <4>1. n \in Nat /\ b \in 0 .. UnitNum - 1
        <5>1. wpos \in Slot
          BY DEF Laid, Types
        <5> QED  BY <1>5, <3>0, <3>1, <5>1, MsgParts, SlotParts
      <4>2. \A l \in 0 .. n - 1 : b + l # u
        <5> SUFFICES ASSUME NEW l \in 0 .. n - 1 PROVE b + l # u
          OBVIOUS
        <5>1. l \in 0 .. n /\ l # n
          BY <4>1
        <5> QED  BY <3>0, <3>1, <5>1, ReservedApart
      <4>3. over = 1 => b + n # u
        <5> SUFFICES ASSUME over = 1 PROVE b + n # u
          OBVIOUS
        <5>1. i >= 1 \/ freeNum # Extent(wpos)
          BY <2>3, <3>3 DEF LastUnits
        <5>2. n \in 0 .. n
          BY <4>1
        <5> QED  BY <3>0, <3>1, <5>1, <5>2, ReservedApart
      <4>4. u \in Int /\ b + (u - b) = u
        BY <1>5, <2>1, <4>1
      <4> PICK d : d = u - b
        OBVIOUS
      <4>5. d \in Int /\ d \notin 0 .. n - 1 /\ (over = 1 => d # n)
        BY <4>1, <4>2, <4>3, <4>4
      <4> QED  BY <3>3, <4>1, <4>5
    <3> QED  BY <2>1, <3>2, <3>4
  <2> QED  BY <2>2, <2>3
<1> QED  BY <1>1, <1>2, <1>3, <1>4, <1>6

LEMMA InitWritten == Init => Written
BY DEF Init, Written

LEMMA NextWritten ==
  ASSUME Threads, Laid, Written, [Next]_vars
  PROVE  Written'
<1>1. ASSUME NEW w \in Writers, Reserve(w)  PROVE Written'
  <2>1. \A v \in Writers : wpc'[v] # "copied"
    <3>1. WGoto(w, "copy") /\ lock = None
      BY <1>1 DEF Reserve
    <3>2. \A v \in Writers : wpc[v] # "copied"
      BY <3>1, LoopAssumption DEF Threads
    <3> QED  BY <3>1, <3>2, WriterMoves
  <2> QED  BY <2>1 DEF Written
<1>2. ASSUME NEW w \in Writers, Copy(w)  PROVE Written'
  <2>1. /\ wpc[w] = "copy" /\ WGoto(w, "copied") /\ UNCHANGED <<slot, wpos, msg>>
    BY <1>2 DEF Copy, ring
  <2>2. \A v \in Writers : wpc'[v] = "copied" => v = w
    <3>1. \A v \in Writers : wpc[v] \in {"copy", "copied"} => v = w
      BY <2>1 DEF Threads
    <3> QED  BY <2>1, <3>1, WriterMoves
  <2> PICK n, b, g : n = msg[w].num /\ b = Begin(wpos) /\ g = msg[w].no
    OBVIOUS
  <2>3. slot[wpos].num = n /\ n \in Nat /\ b \in Nat /\ b + n <= UnitNum /\ wpos \in Slot
    <3>1. slot[wpos].num = n /\ b + n <= UnitNum
      BY <2>1, ReservedLies DEF InPlace
    <3>2. Types /\ wpos \in Slot
      BY DEF Laid, Types
    <3> QED  BY <2>1, <3>1, <3>2, MsgParts, SlotParts
  <2>4. PICK over \in Spill(msg[w]) :
          mem' = [u \in Unit |-> IF u - b \in 0 .. n + over - 1 THEN g ELSE mem[u]]
    BY <1>2 DEF Copy
  <2>5. over \in {0, 1}
    BY <2>4 DEF Spill
  <2>6. ASSUME NEW k \in 0 .. n - 1  PROVE mem'[b + k] = g
    <3>1. b + k \in Unit /\ (b + k) - b \in 0 .. n + over - 1
      BY <2>3, <2>5, Bounds
    <3> QED  BY <2>4, <3>1
  <2>7. Holds(wpos, msg[w].no)'
    BY <2>1, <2>3, <2>6 DEF Holds, Begin
  <2> QED  BY <2>2, <2>7 DEF Written
<1>3. ASSUME NEW w \in Writers, Commit(w)  PROVE Written'
  <2>1. wpc[w] = "copied" /\ WGoto(w, "committed")
    BY <1>3 DEF Commit
  <2>2. \A v \in Writers : wpc[v] = "copied" => v = w
    BY <2>1 DEF Threads
  <2>3. \A v \in Writers : wpc'[v] # "copied"
    BY <2>1, <2>2, WriterMoves
  <2> QED  BY <2>3 DEF Written
<1>4. CASE GiveBack
  <2>1. UNCHANGED <<slot, mem, wpos, wpc, msg>>
    BY <1>4 DEF GiveBack
  <2> QED  BY <2>1 DEF Written, Holds, Begin
<1>5. CASE ~GiveBack /\ \A w \in Writers : ~Reserve(w) /\ ~Copy(w) /\ ~Commit(w)
  <2>1. /\ UNCHANGED <<slot, wpos, mem>>
        /\ \A w \in Writers : wpc'[w] = "copied" => wpc[w] = "copied" /\ msg'[w] = msg[w]
    BY <1>5, RingRests DEF ring
  <2> QED  BY <2>1 DEF Written, Holds, Begin
<1> QED  BY <1>1, <1>2, <1>3, <1>4, <1>5
---------------------------------------------------------------------------
(* The queue of whole messages.                                             *)

\* The messages in flight, oldest first.
LEMMA QueueIs ==
  ASSUME Threads, Laid
  PROVE  /\ Queue \in Seq({MessageIn(s) : s \in Slot}) /\ Len(Queue) = InFlight
         /\ DOMAIN Queue = 1 .. InFlight
         /\ \A i \in 1 .. InFlight : Queue[i] = MessageIn(At(i - 1))
         /\ InFlight \in Nat
<1>1. InFlight \in 0 .. MsgNum /\ rpos \in Slot /\ rpos \in Int /\ InFlight \in Nat
  <2>1. rpos \in Slot /\ InFlight \in 0 .. MsgNum
    BY FlightRange DEF Laid, Types
  <2> QED  BY <2>1, Bounds
<1>2. \A i \in 1 .. InFlight : (rpos + i - 1) % MsgNum = At(i - 1) /\ At(i - 1) \in Slot
  <2> SUFFICES ASSUME NEW i \in 1 .. InFlight
               PROVE  (rpos + i - 1) % MsgNum = At(i - 1) /\ At(i - 1) \in Slot
    OBVIOUS
  <2>1. i - 1 \in 0 .. MsgNum /\ rpos + i - 1 = rpos + (i - 1)
    BY <1>1, Bounds
  <2> QED  BY <1>1, <2>1, AtIs DEF At
<1> DEFINE S == {MessageIn(s) : s \in Slot}
<1>3. \A i \in 1 .. InFlight : Queue[i] = MessageIn(At(i - 1)) /\ Queue[i] \in S
  BY <1>2 DEF Queue
<1>4. Queue = [i \in 1 .. InFlight |-> Queue[i]]
  BY DEF Queue
<1> HIDE DEF S
<1>5. Queue \in Seq(S) /\ Len(Queue) = InFlight
  BY <1>1, <1>3, <1>4
<1>6. DOMAIN Queue = 1 .. InFlight
  BY DEF Queue
<1> QED  BY <1>1, <1>3, <1>5, <1>6 DEF S

\* A whole message is what its slot holds.
LEMMA WholeIs ==
  ASSUME Types, NEW s \in Slot, slot[s].num >= 1, NEW m, Holds(s, m)
  PROVE  MessageIn(s) = m
<1>1. slot[s].num \in Nat /\ Begin(s) \in Nat
  BY SlotParts, Bounds
<1>2. 0 \in 0 .. slot[s].num - 1 /\ Begin(s) + 0 = Begin(s)
  BY <1>1
<1>3. mem[Begin(s)] = m
  BY <1>2 DEF Holds
<1> QED  BY <1>3 DEF Holds, MessageIn

LEMMA FlightIs ==
  ASSUME Threads, Laid, NEW i \in 0 .. InFlight - 1
  PROVE  At(i) \in Slot /\ slot[At(i)].num >= 1 /\ i \in 0 .. MsgNum
<1>1. rpos \in Slot /\ InFlight \in 0 .. MsgNum /\ MsgNum \in Nat
  BY FlightRange, Bounds DEF Laid, Types
<1>2. i \in 0 .. MsgNum
  BY <1>1
<1> QED  BY <1>1, <1>2, AtIs DEF Laid, Chain, InPlace
\* What a write leaves of a message in flight is the message.
LEMMA MessageKept ==
  ASSUME Threads, Laid, NEW i \in 0 .. InFlight - 1,
         \/ \E w \in Writers : (Reserve(w) \/ Copy(w)) /\ (i >= 1 \/ ~LastUnits(w))
         \/ UNCHANGED <<slot, mem>>
  PROVE  \A s : s = At(i) => MessageIn(s)' = MessageIn(s)
<1> PICK a : a = At(i)
  OBVIOUS
<1>1. CASE \E w \in Writers : (Reserve(w) \/ Copy(w)) /\ (i >= 1 \/ ~LastUnits(w))
  <2>1. /\ slot'[a] = slot[a]
        /\ \A k \in 0 .. slot[a].num - 1 : mem'[Begin(a) + k] = mem[Begin(a) + k]
    BY <1>1, FlightKeeps
  <2>2. Begin(a)' = Begin(a)
    BY <2>1 DEF Begin
  <2>3. slot[a].num \in Nat /\ slot[a].num >= 1 /\ Begin(a) \in Nat
    BY FlightIs, SlotParts, Bounds DEF Laid
  <2> PICK n, b : n = slot[a].num /\ b = Begin(a)
    OBVIOUS
  <2>4. mem'[b] = mem[b]
    <3>1. 0 \in 0 .. n - 1 /\ b + 0 = b
      BY <2>3
    <3> QED  BY <2>1, <3>1
  <2>5. MessageIn(a) = IF \A k \in 0 .. n - 1 : mem[b + k] = mem[b] THEN mem[b] ELSE Corrupt
    BY DEF MessageIn
  <2>6. MessageIn(a)' = IF \A k \in 0 .. n - 1 : mem'[b + k] = mem'[b] THEN mem'[b] ELSE Corrupt
    BY <2>1, <2>2 DEF MessageIn, Corrupt
  <2> QED  BY <2>1, <2>4, <2>5, <2>6
<1>2. CASE UNCHANGED <<slot, mem>>
  BY <1>2 DEF MessageIn, Begin, Corrupt
<1> QED  BY <1>1, <1>2

\* What the queue is, after a step that puts nothing in and gives nothing back.
LEMMA QueueNext ==
  ASSUME Threads, Laid, InFlight' = InFlight, rpos' = rpos
  PROVE  /\ Queue' = [i \in 1 .. InFlight |-> Queue'[i]] /\ Len(Queue') = InFlight
         /\ \A i \in 1 .. InFlight : \A s : s = At(i - 1) => Queue'[i] = MessageIn(s)'
<1>1. rpos \in Int /\ InFlight \in Nat
  <2>1. rpos \in 0 .. MsgNum - 1
    BY Bounds DEF Laid, Types
  <2> QED  BY <2>1, QueueIs
<1>2. Queue' = [i \in 1 .. InFlight |-> Queue'[i]]
  BY DEF Queue
<1>3. Len(Queue') = InFlight
  <2> PICK Q, N : Q = Queue' /\ N = InFlight
    OBVIOUS
  <2>1. N \in Nat /\ Q = [i \in 1 .. N |-> Q[i]]
    BY <1>1, <1>2
  <2> PICK R : R = {Q[i] : i \in 1 .. N}
    OBVIOUS
  <2>2. Q \in [1 .. N -> R]
    BY <2>1
  <2>3. Q \in Seq(R) /\ Len(Q) = N
    BY <2>1, <2>2
  <2> QED  BY <2>3
<1>4. ASSUME NEW i \in 1 .. InFlight, NEW s, s = At(i - 1)
      PROVE  Queue'[i] = MessageIn(s)'
  <2>1. (rpos + i - 1) % MsgNum = s
    <3>1. rpos + i - 1 = rpos + (i - 1)
      BY <1>1
    <3> QED  BY <1>4, <3>1 DEF At
  <2>2. Queue'[i] = MessageIn((rpos + i - 1) % MsgNum)'
    BY DEF Queue
  <2> QED  BY <2>1, <2>2 DEF MessageIn, Begin
<1> QED  BY <1>2, <1>3, <1>4

\* No other write changes the queue, nor what the reader sends.
LEMMA QueueKept ==
  ASSUME Threads, Laid, InFlight' = InFlight, rpos' = rpos,
         \/ \E w \in Writers : (Reserve(w) \/ Copy(w)) /\ ~LastUnits(w)
         \/ UNCHANGED <<slot, mem>>
  PROVE  Queue' = Queue /\ (rpc' = rpc => Held' = Held)
<1>1. \A i \in 0 .. InFlight - 1 : \A s : s = At(i) => MessageIn(s)' = MessageIn(s)
  BY MessageKept
<1>2. Queue' = Queue
  <2>1. \A i \in 1 .. InFlight : Queue'[i] = Queue[i]
    <3> SUFFICES ASSUME NEW i \in 1 .. InFlight PROVE Queue'[i] = Queue[i]
      OBVIOUS
    <3>1. i - 1 \in 0 .. InFlight - 1
      BY QueueIs
    <3> PICK a : a = At(i - 1)
      OBVIOUS
    <3>2. Queue'[i] = MessageIn(a)'
      BY QueueNext
    <3>3. Queue[i] = MessageIn(a)
      BY QueueIs
    <3> QED  BY <1>1, <3>1, <3>2, <3>3
  <2>2. Queue = [i \in 1 .. InFlight |-> Queue[i]]
    BY DEF Queue
  <2>3. Queue' = [i \in 1 .. InFlight |-> Queue'[i]]
    BY QueueNext
  <2> QED  BY <2>1, <2>2, <2>3
<1>3. ASSUME rpc' = rpc  PROVE Held' = Held
  <2>1. CASE rpc = "reading"
    <3>1. 0 \in 0 .. InFlight - 1 /\ At(0) = rpos
      <4>1. InFlight \in 0 .. MsgNum /\ InFlight >= 1 /\ rpos \in 0 .. MsgNum - 1 /\ rpos \in Slot
            /\ MsgNum \in Nat
        BY <2>1, FlightRange, Bounds DEF Laid, Types
      <4>2. 0 \in 0 .. MsgNum /\ rpos + 0 = rpos /\ rpos < MsgNum
        BY <4>1
      <4> QED  BY <4>1, <4>2, AtIs
    <3> PICK a : a = rpos
      OBVIOUS
    <3>2. MessageIn(a)' = MessageIn(a) /\ a = rpos'
      BY <1>1, <3>1
    <3> QED  BY <1>3, <2>1, <3>2 DEF Held, MessageIn, Begin
  <2>2. CASE rpc # "reading"
    BY <1>3, <2>2 DEF Held
  <2> QED  BY <2>1, <2>2
<1> QED  BY <1>2, <1>3

\* The copy that may touch the oldest message touches no other.
LEMMA SpillOver ==
  ASSUME Threads, Laid, NEW w \in Writers, LastUnits(w), InFlight' = InFlight, rpos' = rpos
  PROVE  SpillsOver(w)
<1>1. Len(Queue') = Len(Queue) /\ Len(Queue) = InFlight /\ InFlight \in Nat
  BY QueueNext, QueueIs
<1>2. ASSUME NEW i \in 2 .. InFlight  PROVE Queue'[i] = Queue[i]
  <2>1. i - 1 \in 0 .. InFlight - 1 /\ i - 1 >= 1 /\ i \in 1 .. InFlight
    BY <1>1
  <2> PICK a : a = At(i - 1)
    OBVIOUS
  <2>2. MessageIn(a)' = MessageIn(a)
    BY <2>1, MessageKept DEF LastUnits
  <2>3. Queue'[i] = MessageIn(a)'
    BY <2>1, QueueNext
  <2>4. Queue[i] = MessageIn(a)
    BY <2>1, QueueIs
  <2> QED  BY <2>2, <2>3, <2>4
<1> QED  BY <1>1, <1>2 DEF SpillsOver, LastUnits

\* skipWriteMsgQ puts the message behind the others.
LEMMA CommitPuts ==
  ASSUME Threads, Laid, Written, NEW w \in Writers, Commit(w)
  PROVE  Fifo!Put
<1>1. /\ UNCHANGED <<slot, rpos, mem, rpc>> /\ InFlight' = InFlight + 1 /\ wpc[w] = "copied"
  BY WriteCounts DEF Commit
<1>2. Held' = Held
  BY <1>1 DEF Held, MessageIn, Begin, Corrupt
<1> PICK m, N : m = msg[w].no /\ N = InFlight
  OBVIOUS
<1>3. m \in 1 .. MaxMsgs /\ MessageIn(wpos) = m /\ wpos = At(N) /\ N \in Nat
  <2>1. Holds(wpos, m) /\ m \in 1 .. MaxMsgs /\ InPlace(wpos, UnitNum - freeNum)
    BY <1>1, MsgParts, ReservedLies DEF Written
  <2>2. wpos \in Slot /\ Types /\ slot[wpos].num >= 1 /\ wpos = At(N)
    BY <2>1 DEF InPlace, Laid, Types
  <2>3. MessageIn(wpos) = m
    BY <2>1, <2>2, WholeIs
  <2> QED  BY <2>1, <2>2, <2>3, QueueIs
<1>4. \A i \in 1 .. N + 1 : MessageIn((rpos + i - 1) % MsgNum)'
                            = IF i = N + 1 THEN m ELSE Queue[i]
  <2> SUFFICES ASSUME NEW i \in 1 .. N + 1
               PROVE  MessageIn((rpos + i - 1) % MsgNum)' = IF i = N + 1 THEN m ELSE Queue[i]
    OBVIOUS
  <2>1. MessageIn((rpos + i - 1) % MsgNum)' = MessageIn((rpos + i - 1) % MsgNum)
    BY <1>1 DEF MessageIn, Begin, Corrupt
  <2>2. CASE i = N + 1
    <3>1. rpos \in Int
      BY Bounds DEF Laid, Types
    <3>2. rpos + i - 1 = rpos + N
      BY <1>3, <2>2, <3>1
    <3> QED  BY <1>3, <2>1, <2>2, <3>2 DEF At
  <2>3. CASE i \in 1 .. N
    BY <1>3, <2>1, <2>3 DEF Queue
  <2> QED  BY <1>3, <2>2, <2>3
<1>5. Queue' = [i \in 1 .. N + 1 |-> IF i = N + 1 THEN m ELSE Queue[i]]
  BY <1>1, <1>4 DEF Queue
<1>6. Queue' = Append(Queue, m)
  <2> PICK Q, S : Q = Queue /\ Q \in Seq(S) /\ Len(Q) = N
    BY QueueIs
  <2>1. Append(Q, m) = [i \in 1 .. N + 1 |-> IF i = N + 1 THEN m ELSE Q[i]]
    OBVIOUS
  <2> QED  BY <1>5, <2>1
<1> QED  BY <1>2, <1>3, <1>6 DEF Fifo!Put
\* What is in the reader's hands.
LEMMA FirstIs ==
  ASSUME Threads, Laid, InFlight >= 1
  PROVE  /\ MessageIn(rpos) # None
         /\ Queue # << >> /\ Head(Queue) = MessageIn(rpos)
<1>1. InFlight \in 0 .. MsgNum /\ MsgNum \in Nat /\ rpos \in 0 .. MsgNum - 1 /\ rpos \in Slot /\ Types
  BY FlightRange, Bounds DEF Laid, Types
<1>2. 0 \in 0 .. MsgNum /\ 0 \in 0 .. InFlight - 1 /\ rpos + 0 = rpos /\ rpos < MsgNum
      /\ 1 \in 1 .. InFlight /\ 1 - 1 = 0
  BY <1>1
<1>3. At(0) = rpos
  BY <1>1, <1>2, AtIs
<1>4. mem[Begin(rpos)] \in 0 .. MaxMsgs
  <2>1. Begin(rpos) \in Unit
    BY <1>1, SlotParts, Bounds
  <2> QED  BY <1>1, <2>1 DEF Types
<1>5. MessageIn(rpos) \in 0 .. MaxMsgs
  BY <1>4, Bounds DEF MessageIn, Corrupt
<1>6. MessageIn(rpos) # None
  BY LoopAssumption, <1>5
<1>7. Queue # << >> /\ Head(Queue) = MessageIn(rpos)
  <2> PICK Q, S, N : Q = Queue /\ N = InFlight /\ Q \in Seq(S) /\ Len(Q) = N
    BY QueueIs
  <2>1. Q # << >> /\ Head(Q) = Q[1]
    BY <1>1
  <2>2. Queue[1] = MessageIn(At(1 - 1))
    BY <1>2, QueueIs
  <2> QED  BY <1>2, <1>3, <2>1, <2>2
<1> QED  BY <1>6, <1>7

\* GetMsgQReadInfo hands out the oldest message.
LEMMA TakeTakes ==
  ASSUME Threads, Laid, Take
  PROVE  Fifo!Take
<1>1. rpc = "idle" /\ rpc' = "reading" /\ UNCHANGED <<slot, rpos, mem>> /\ rsem > 0
  BY DEF Take, ring
<1>2. InFlight >= 1
  BY <1>1, CountsAre
<1>3. InFlight' = InFlight
  BY <1>1, ReadCounts, FlightRange DEF Read, GiveBack
<1>4. Held = None /\ Held' = MessageIn(rpos)
  BY <1>1 DEF Held, MessageIn, Begin, Corrupt
<1>5. Queue' = Queue
  BY <1>1, <1>3 DEF Queue, MessageIn, Begin, Corrupt
<1> QED  BY <1>2, <1>4, <1>5, FirstIs DEF Fifo!Take

\* skipReadMsgQ removes it.
LEMMA GiveBackRemoves ==
  ASSUME Threads, Laid, GiveBack
  PROVE  Fifo!GiveBack
<1>1. rpc = "reading" /\ rpc' = "given" /\ UNCHANGED <<slot, mem>>
  BY DEF GiveBack
<1>2. InFlight' = InFlight - 1 /\ InFlight >= 1 /\ InFlight \in Nat
  BY <1>1, ReadCounts, FlightRange, QueueIs DEF Read
<1>3. Held # None /\ Held' = None
  BY <1>1, <1>2, FirstIs DEF Held
<1> PICK N : N = InFlight
  OBVIOUS
<1>4. \A i \in 1 .. N - 1 : MessageIn((rpos + i - 1) % MsgNum)' = Queue[i + 1]
  <2> SUFFICES ASSUME NEW i \in 1 .. N - 1
               PROVE  MessageIn((rpos + i - 1) % MsgNum)' = Queue[i + 1]
    OBVIOUS
  <2>1. i - 1 \in 0 .. InFlight - 2 /\ i + 1 \in 1 .. InFlight /\ (i - 1) + 1 = i /\ (i + 1) - 1 = i
    BY <1>2
  <2>2. At(i - 1)' = At(i)
    BY <2>1, GiveBackLays
  <2>3. rpos' \in Int
    <3>1. Types'
      BY GiveBackLays DEF Laid
    <3> QED  BY <3>1, Bounds DEF Types
  <2>4. ((rpos + i - 1) % MsgNum)' = At(i)
    <3>1. rpos' + i - 1 = rpos' + (i - 1)
      BY <2>1, <2>3
    <3> QED  BY <2>2, <3>1 DEF At
  <2> PICK a : a = At(i)
    OBVIOUS
  <2>5. MessageIn(a)' = MessageIn(a) /\ Queue[i + 1] = MessageIn(a)
    BY <1>1, <2>1, QueueIs DEF MessageIn, Begin, Corrupt
  <2> QED  BY <2>4, <2>5 DEF MessageIn, Begin, Corrupt
<1>5. Queue' = [i \in 1 .. N - 1 |-> Queue[i + 1]]
  BY <1>2, <1>4 DEF Queue
<1>6. Queue' = Tail(Queue)
  <2> PICK Q, S : Q = Queue /\ Q \in Seq(S) /\ Len(Q) = N
    BY QueueIs
  <2>1. /\ Tail(Q) \in Seq(S) /\ Len(Tail(Q)) = N - 1
        /\ \A i \in 1 .. Len(Tail(Q)) : Tail(Q)[i] = Q[i + 1]
    BY <1>2, HeadTailProperties
  <2>2. Tail(Q) = [i \in 1 .. Len(Tail(Q)) |-> Tail(Q)[i]]
    <3> PICK R : R = Tail(Q)
      OBVIOUS
    <3>1. R \in Seq(S)
      BY <2>1
    <3>2. R \in [1 .. Len(R) -> S]
      BY <3>1, LenProperties
    <3> QED  BY <3>2
  <2>3. Tail(Q) = [i \in 1 .. N - 1 |-> Q[i + 1]]
    BY <2>1, <2>2
  <2> QED  BY <1>5, <2>3
<1> QED  BY <1>3, <1>6 DEF Fifo!GiveBack

\* The ring is a queue of messages: what skipWriteMsgQ put in comes out whole and in that
\* order, and the message the reader sends from the ring's memory is not overwritten under it,
\* although GetMsgQReadInfo reads slot and memory without the mutex.  The one step that is not
\* the queue's is the copy of an audio frame that takes the last free units, of which netcomm.c
\* copies one header too much; it may change the oldest message and changes no other.
THEOREM ImplementsQueue == Spec => ImplementsMessageFifo
<1>1. Init => IInv /\ Written /\ Fifo!Init
  <2> SUFFICES ASSUME Init PROVE IInv /\ Written /\ Fifo!Init
    OBVIOUS
  <2>1. Threads /\ Laid /\ Written /\ InFlight = 0
    BY InitThreads, InitLaid, InitWritten
  <2>2. Queue = << >>
    BY <2>1 DEF Queue
  <2>3. Held = None
    BY DEF Init, Held
  <2> QED  BY <2>1, <2>2, <2>3 DEF IInv, Fifo!Init
<1>2. IInv /\ Written /\ [Next]_vars => Written' /\ [Fifo!Next \/ \E w \in Writers : SpillsOver(w)]_<<Queue, Held>>
  <2> SUFFICES ASSUME Threads, Laid, Written, [Next]_vars
               PROVE  Written' /\ [Fifo!Next \/ \E w \in Writers : SpillsOver(w)]_<<Queue, Held>>
    BY DEF IInv
  <2>1. Written'
    BY NextWritten
  <2>2. CASE \E w \in Writers : Commit(w)
    <3>1. Fifo!Put
      BY <2>2, CommitPuts
    <3> QED  BY <2>1, <3>1 DEF Fifo!Next
  <2>3. CASE GiveBack
    <3>1. Fifo!GiveBack
      BY <2>3, GiveBackRemoves
    <3> QED  BY <2>1, <3>1 DEF Fifo!Next
  <2>4. CASE Take
    <3>1. Fifo!Take
      BY <2>4, TakeTakes
    <3> QED  BY <2>1, <3>1 DEF Fifo!Next
  <2>5. CASE \E w \in Writers : Reserve(w) \/ Copy(w)
    <3>1. InFlight' = InFlight /\ UNCHANGED <<rpos, rpc>>
      <4> PICK w \in Writers : Reserve(w) \/ Copy(w)
        BY <2>5
      <4>1. UNCHANGED <<rpos, rpc>> /\ ~Commit(w)
        BY DEF Reserve, Copy, Commit, ring
      <4> QED  BY <4>1, WriteCounts, FlightRange
    <3>2. CASE \E w \in Writers : LastUnits(w)
      <4>1. \E w \in Writers : SpillsOver(w)
        BY <3>1, <3>2, SpillOver
      <4> QED  BY <2>1, <4>1
    <3>3. CASE ~\E w \in Writers : LastUnits(w)
      <4>1. Queue' = Queue /\ Held' = Held
        BY <2>5, <3>1, <3>3, QueueKept
      <4> QED  BY <2>1, <4>1
    <3> QED  BY <3>2, <3>3
  <2>6. CASE ~GiveBack /\ ~Take /\ \A w \in Writers : ~Reserve(w) /\ ~Copy(w) /\ ~Commit(w)
    <3>1. InFlight' = InFlight /\ UNCHANGED <<slot, rpos, mem>> /\ (PostRead \/ rpc' = rpc)
      BY <2>6, RingRests DEF ring
    <3>2. Queue' = Queue /\ (rpc' = rpc => Held' = Held)
      BY <3>1, QueueKept
    <3>3. PostRead => Held' = Held
      BY DEF PostRead, Held
    <3>4. Held' = Held
      BY <3>1, <3>2, <3>3
    <3> QED  BY <2>1, <3>2, <3>4
  <2> QED  BY <2>2, <2>3, <2>4, <2>5, <2>6
<1> QED  BY <1>1, <1>2, NextInv, PTL DEF Spec, ImplementsMessageFifo
=============================================================================
