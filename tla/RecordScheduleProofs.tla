------------------------ MODULE RecordScheduleProofs ------------------------
(***************************************************************************)
(* RecordDealRecMsg keeps its books for every set of schedules and every    *)
(* length of day and week: the proofs of TypeOK, AlarmsAreBooked and        *)
(* StatusIsDue.                                                             *)
(***************************************************************************)
EXTENDS RecordSchedule, TLAPS

\* What of TypeOK the books depend on.
Books == status \subseteq Cause /\ triggering \subseteq Alarm /\ wanting \subseteq Alarm

IInv == Books /\ AlarmsAreBooked /\ StatusIsDue

\* Whether a schedule is open depends on the schedules and the clock alone, so a
\* step of the manager at which neither moves sees the same schedules open.
LEMMA SameClockSameOpen ==
  ASSUME UNCHANGED <<plan, day, sec>>, NEW k \in Cause
  PROVE  Open(k)' <=> Open(k)
BY DEF Open, DayOf, InSegment

LEMMA InitHolds == Init => IInv
BY DEF Init, IInv, Books, AlarmsAreBooked, StatusIsDue

LEMMA AlarmOnKeeps == ASSUME IInv, NEW k \in Alarm, AlarmOn(k) PROVE IInv'
<1>1. CASE Open(k)
  BY <1>1, Zenon DEF IInv, Books, AlarmsAreBooked, StatusIsDue, AlarmOn, Cause
<1>2. CASE ~Open(k)
  BY <1>2 DEF IInv, Books, AlarmsAreBooked, StatusIsDue, AlarmOn, Cause
<1> QED  BY <1>1, <1>2

LEMMA AlarmOffKeeps == ASSUME IInv, NEW k \in Alarm, AlarmOff(k) PROVE IInv'
BY DEF IInv, Books, AlarmsAreBooked, StatusIsDue, AlarmOff, Cause

\* EM_REC_TIMER takes from the two books exactly the alarms whose schedule is open.
LEMMA TimerKeeps == ASSUME IInv, Timer PROVE IInv'
<1>1. Books' /\ AlarmsAreBooked'
  BY DEF IInv, Books, AlarmsAreBooked, Timer, PutBack, Opened, Closed, Cause, Alarm
<1>2. status' = {k \in on : Open(k)} \cup {k \in {"timer"} : Open(k)}
  BY DEF IInv, Books, AlarmsAreBooked, Timer, Opened, Closed, Cause, Alarm
<1>3. on \subseteq Cause /\ "timer" \in Cause /\ on' = on
  BY DEF IInv, Books, AlarmsAreBooked, Timer, Cause, Alarm
<1>4. \A k \in Cause : Open(k)' <=> Open(k)
  BY SameClockSameOpen DEF Timer
<1>5. StatusIsDue'
  BY <1>2, <1>3, <1>4 DEF StatusIsDue
<1> QED  BY <1>1, <1>5 DEF IInv

\* The other steps leave the books alone, and the claim about the status waits for
\* the next EM_REC_TIMER, or nothing it speaks of has moved.
LEMMA OthersKeep ==
  ASSUME IInv,
         \/ \E k \in Cause, p \in Plans : SetSchedule(k, p)
         \/ NoCommand \/ Tick \/ UNCHANGED vars
  PROVE  IInv'
<1>1. CASE \E k \in Cause, p \in Plans : SetSchedule(k, p)
  BY <1>1 DEF IInv, Books, AlarmsAreBooked, StatusIsDue, SetSchedule
<1>2. CASE Tick
  BY <1>2 DEF IInv, Books, AlarmsAreBooked, StatusIsDue, Tick
<1>3. CASE NoCommand \/ UNCHANGED vars
  <2>1. UNCHANGED <<status, triggering, wanting, plan, day, sec, on, fresh>>
    BY <1>3 DEF NoCommand, vars
  <2>2. on \subseteq Cause /\ "timer" \in Cause
    BY DEF IInv, Books, AlarmsAreBooked, Cause, Alarm
  <2>3. \A k \in Cause : Open(k)' <=> Open(k)
    BY <2>1, SameClockSameOpen
  <2>4. StatusIsDue'
    BY <2>1, <2>2, <2>3 DEF IInv, StatusIsDue
  <2> QED  BY <2>1, <2>4 DEF IInv, Books, AlarmsAreBooked
<1> QED  BY <1>1, <1>2, <1>3

\* No alarm is lost or kept too long by the books of chn_is_triggerring_me and
\* chn_wanna_trigger_me, and after every EM_REC_TIMER the channel records for
\* exactly what is on and due, whatever the schedules are.
THEOREM ScheduleSound == Spec => [](AlarmsAreBooked /\ StatusIsDue)
<1>1. IInv /\ [Next]_vars => IInv'
  BY AlarmOnKeeps, AlarmOffKeeps, TimerKeeps, OthersKeep DEF Next
<1>2. IInv => AlarmsAreBooked /\ StatusIsDue
  BY DEF IInv
<1> QED  BY InitHolds, <1>1, <1>2, PTL DEF Spec

\* The books, the schedules and the clock keep their types, for every set of
\* schedules and every length of day and week: sec and day stay in range when the
\* clock goes on to the next day or to a new week.
THEOREM TypeCorrect == Spec => []TypeOK
<1>1. Init => TypeOK
  <2>1. 0 \in Day
    BY ScheduleAssumption DEF Day
  <2> QED  BY <2>1 DEF Init, TypeOK
<1>2. ASSUME TypeOK, [Next]_vars PROVE TypeOK'
  <2>1. CASE \E k \in Cause, p \in Plans : SetSchedule(k, p)
    BY <1>2, <2>1 DEF TypeOK, SetSchedule
  <2>2. ASSUME NEW k \in Alarm, AlarmOn(k)  PROVE TypeOK'
    BY <1>2, <2>2 DEF TypeOK, AlarmOn, Cause
  <2>3. ASSUME NEW k \in Alarm, AlarmOff(k)  PROVE TypeOK'
    BY <1>2, <2>3 DEF TypeOK, AlarmOff
  <2>4. CASE Timer
    BY <1>2, <2>4 DEF TypeOK, Timer, PutBack, Opened, Closed, Cause
  <2>5. CASE Tick
    <3>1. (day + 1) % (LastDay + 1) \in Day /\ (sec < LastSec => sec + 1 \in Sec) /\ 0 \in Sec
      BY <1>2, ScheduleAssumption DEF TypeOK, Day, Sec
    <3> QED  BY <1>2, <2>5, <3>1 DEF TypeOK, Tick
  <2>6. CASE NoCommand \/ UNCHANGED vars
    BY <1>2, <2>6 DEF TypeOK, NoCommand, vars
  <2> QED  BY <1>2, <2>1, <2>2, <2>3, <2>4, <2>5, <2>6 DEF Next
<1> QED  BY <1>1, <1>2, PTL DEF Spec
=============================================================================
