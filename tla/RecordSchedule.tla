--------------------------- MODULE RecordSchedule ---------------------------
(***************************************************************************)
(* Which causes a channel records for: RecordDealRecMsg (record.c), run by  *)
(* the status manager for every alarm message and, with EM_REC_TIMER, once  *)
(* per turn of its loop, against the schedule of each cause.                *)
(*                                                                          *)
(* An alarm that arrives outside its schedule is remembered in              *)
(* chn_wanna_trigger_me and taken up when the schedule opens; one whose     *)
(* schedule closes goes back there.  The channels do not interact, so there *)
(* is one.  Schedules are those the business layer sends (nValue 0x7f, a    *)
(* week or the same segments every day).  Bounds: a week of LastDay + 1     *)
(* days of LastSec + 1 seconds; schedules from Plans.                       *)
(***************************************************************************)
EXTENDS Integers

CONSTANTS LastDay, LastSec,
          Plans       \* schedules: [type : {"week", "every"}, seg : [Day -> SUBSET Segment]]

Day == 0..LastDay
Sec == 0..LastSec
Segment == Sec \X Sec           \* nStartTime, nStopTime
Alarm == {"motion", "alarm"}
Cause == Alarm \cup {"timer"}

ASSUME ScheduleAssumption ==
  /\ LastDay \in Nat /\ LastSec \in Nat
  /\ Plans \subseteq [type : {"week", "every"}, seg : [Day -> SUBSET Segment]]

VARIABLES
  status,        \* g_RecordStatus, without the manual bit
  triggering,    \* chn_is_triggerring_me, by cause
  wanting,       \* chn_wanna_trigger_me
  plan,          \* g_RecSchPara
  day, sec,      \* localtime
  at,            \* "cmd" or "timer": the two calls of a turn of the manager's loop
  on, fresh      \* of the properties: the alarms on, as told; no second has
                 \* passed and nothing has changed since the last EM_REC_TIMER

vars == <<status, triggering, wanting, plan, day, sec, at, on, fresh>>

DayOf(p) == IF p.type = "week" THEN day ELSE 0

\* The stop second is inside for an alarm, outside for the timer.
InSegment(k, s) == s[1] <= sec /\ IF k = "timer" THEN sec < s[2] ELSE sec <= s[2]

Open(k) == \E s \in plan[k].seg[DayOf(plan[k])] : InSegment(k, s)

Init ==
  /\ status = {} /\ triggering = {} /\ wanting = {}
  /\ plan \in [Cause -> Plans]      \* sent when the system starts
  /\ day = 0 /\ sec \in Sec /\ at = "cmd" /\ on = {} /\ fresh = FALSE

SetSchedule(k, p) ==
  /\ at = "cmd" /\ at' = "timer"
  /\ plan' = [plan EXCEPT ![k] = p] /\ fresh' = FALSE
  /\ UNCHANGED <<status, triggering, wanting, day, sec, on>>

AlarmOn(k) ==
  /\ at = "cmd" /\ at' = "timer"
  /\ IF Open(k)
     THEN status' = status \cup {k} /\ triggering' = triggering \cup {k} /\ UNCHANGED wanting
     ELSE wanting' = wanting \cup {k} /\ UNCHANGED <<status, triggering>>
  /\ on' = on \cup {k} /\ fresh' = FALSE
  /\ UNCHANGED <<plan, day, sec>>

AlarmOff(k) ==
  /\ at = "cmd" /\ at' = "timer"
  /\ status' = status \ {k} /\ triggering' = triggering \ {k} /\ wanting' = wanting \ {k}
  /\ on' = on \ {k} /\ fresh' = FALSE
  /\ UNCHANGED <<plan, day, sec>>

NoCommand ==
  /\ at = "cmd" /\ at' = "timer"
  /\ UNCHANGED <<status, triggering, wanting, plan, day, sec, on, fresh>>

\* EM_REC_TIMER: an open schedule takes up what wants to trigger, a closed one
\* puts back what triggers.
Opened == {k \in Alarm : Open(k)}
Closed == Alarm \ Opened

\* Mutant: what triggered when its schedule closed is dropped.
PutBackNothing == wanting \ Opened
PutBack == (wanting \ Opened) \cup (triggering \cap Closed)

Timer ==
  /\ at = "timer" /\ at' = "cmd"
  /\ status' = (IF Open("timer") THEN {"timer"} ELSE {})
               \cup ((status \cap Alarm) \ Closed) \cup (wanting \cap Opened)
  /\ triggering' = (triggering \ Closed) \cup (wanting \cap Opened)
  /\ wanting' = PutBack
  /\ fresh' = TRUE
  /\ UNCHANGED <<plan, day, sec, on>>

Tick ==
  /\ IF sec < LastSec
     THEN sec' = sec + 1 /\ UNCHANGED day
     ELSE sec' = 0 /\ day' = (day + 1) % (LastDay + 1)
  /\ fresh' = FALSE
  /\ UNCHANGED <<status, triggering, wanting, plan, at, on>>

Next == \/ \E k \in Cause, p \in Plans : SetSchedule(k, p)
        \/ \E k \in Alarm : AlarmOn(k) \/ AlarmOff(k)
        \/ NoCommand \/ Timer \/ Tick

Spec == Init /\ [][Next]_vars

---------------------------------------------------------------------------
TypeOK ==
  /\ status \subseteq Cause /\ triggering \subseteq Alarm /\ wanting \subseteq Alarm
  /\ plan \in [Cause -> Plans]
  /\ day \in Day /\ sec \in Sec /\ at \in {"cmd", "timer"}
  /\ on \subseteq Alarm /\ fresh \in BOOLEAN

\* After each EM_REC_TIMER the channel records for exactly the alarms that are on
\* and whose schedule is open, and for the timer when that is open: no alarm is
\* lost while its schedule is closed, and none outlives its end, however alarms,
\* schedule changes and the clock have interleaved.
StatusIsDue ==
  fresh => status = {k \in on : Open(k)} \cup {k \in {"timer"} : Open(k)}

\* An alarm that is on is in exactly the books it should be in: it triggers or
\* wants to, and the channel records for it just when it triggers.
AlarmsAreBooked == /\ on = triggering \cup wanting
                   /\ status \cap Alarm = triggering
=============================================================================
