------------------------------ MODULE Cadence ------------------------------
(***************************************************************************)
(* When a schedule is due: the three calendars of the server.  nextRun of  *)
(* the scheduler (server/src/world.ts) walks through the week in steps of  *)
(* 24 hours, plannedCalendar (server/src/operations.ts), which shows an    *)
(* operator what is to come, in days of the local date, and nextPtzRun of  *)
(* the camera patrols (server/src/ptz.ts) in days of UTC.                  *)
(*                                                                         *)
(* A schedule, of missions or of a camera patrol, is edited, fires, finds  *)
(* its robot or camera taken, and is caught up with after the platform was *)
(* down; meanwhile the clocks of the server's zone may be put back or      *)
(* forward once.  Time is counted in hours, of which a day has DayHours    *)
(* and a week WeekDays days; the minute after which a schedule is looked   *)
(* at again is one hour here.                                              *)
(***************************************************************************)
EXTENDS Integers, FiniteSets

CONSTANTS
  WeekDays,    \* days of a week
  DayHours,    \* hours of a day
  ShiftHour,   \* the hour that a longer day has twice and a shorter one lacks
  LastDay,     \* bound: days that pass
  MaxEdits     \* bound: edits of the schedule

ASSUME CadenceAssumption ==
  /\ WeekDays \in Nat \ {0} /\ DayHours \in Nat \ {0, 1} /\ LastDay \in Nat \ {0}
  /\ ShiftHour \in 0..(DayHours - 1) /\ MaxEdits \in Nat

VARIABLES
  shift,      \* the day with a change of the clocks, and by how much
  hour,       \* the time
  plan,       \* Schedule or PtzPlan: what it runs, cadence and enabled
  nextRunAt,  \* when it is due, Never if it is not
  base,       \* history: when the cadence was last set or it last fired
  busy,       \* its last run is open, or the camera is taken
  serving,    \* the platform is up
  edits

cadVars == <<shift, hour, plan, nextRunAt, base, busy, serving, edits>>

Never == 0

-----------------------------------------------------------------------------
(* Dates.  Local days are those of the server's zone, the others of UTC.   *)

Dates == 0..(LastDay + WeekDays + 2)

Midnight(local, day) ==
  day * DayHours + IF local /\ day > shift.day THEN shift.by ELSE 0

DateOf(local, time) ==
  CHOOSE day \in Dates : Midnight(local, day) <= time /\ time < Midnight(local, day + 1)

\* setHours: an hour that comes twice is meant the first time, one that does
\* not come is taken with the offset before the change.
At(local, day, hh) ==
  Midnight(local, day) + hh
    + IF local /\ day = shift.day /\ hh > ShiftHour THEN shift.by ELSE 0

OnDay(c, day) == day % WeekDays \in c.days

\* The first date of a list that has the hour after a moment.
FirstOf(local, c, from, dates) ==
  LET fits == {d \in DOMAIN dates : At(local, dates[d], c.at) > from /\ OnDay(c, dates[d])}
  IN IF fits = {} THEN Never
     ELSE At(local, dates[CHOOSE d \in fits : \A e \in fits : d <= e], c.at)

\* A week from a date on, the same weekday at its end included.  Variant: it is not.
ShortWeek == 0..(WeekDays - 1)
Week == 0..WeekDays

Steps24h(from)    == [d \in Week |-> DateOf(TRUE, from + d * DayHours)]
NextDates(from)   == [d \in Week |-> DateOf(TRUE, from) + d]
NextUtcDays(from) == [d \in Week |-> DateOf(FALSE, from) + d]

\* World.nextRun.
NextRun(c, from) ==
  IF c.kind = "once" THEN (IF c.at > from THEN c.at ELSE Never)
  ELSE IF c.kind = "interval" THEN from + c.every
  ELSE FirstOf(TRUE, c, from, Steps24h(from))

\* nextPtzRun.
NextPtzRun(c, from) ==
  IF c.kind = "weekly" THEN FirstOf(FALSE, c, from, NextUtcDays(from))
  ELSE NextRun(c, from)

-----------------------------------------------------------------------------
(* Cadences: one moment, every few hours, or some days at an hour.         *)

Cadences ==
  {[kind |-> "once", at |-> 2 * DayHours], [kind |-> "interval", every |-> DayHours - 1]}
    \cup [kind : {"weekly"}, at : 0..(DayHours - 1),
          days : (SUBSET (0..(WeekDays - 1))) \ {{}}]

Local == plan.what = "mission"
NextDue(c) == IF Local THEN NextRun(c, hour) ELSE NextPtzRun(c, hour)

\* Just created, at any hour of the first day.
CadInit ==
  /\ shift \in {[day |-> 0, by |-> 0]} \cup [day : 0..LastDay, by : {-1, 1}]
  /\ hour \in 0..(DayHours - 1) /\ base = hour
  /\ plan \in [what : {"mission", "patrol"}, cadence : Cadences, enabled : {TRUE}]
  /\ nextRunAt = IF plan.cadence.kind = "once" THEN plan.cadence.at ELSE NextDue(plan.cadence)
  /\ busy = FALSE /\ serving = TRUE /\ edits = 0

Edit == serving /\ edits < MaxEdits /\ edits' = edits + 1

\* patchSchedule: switching alone leaves the next run where it was.
PatchSchedule(c, on) ==
  /\ Edit /\ Local
  /\ plan' = [plan EXCEPT !.cadence = c, !.enabled = on]
  /\ \/ /\ c = plan.cadence /\ on # plan.enabled /\ UNCHANGED <<nextRunAt, base>>
     \/ nextRunAt' = NextDue(c) /\ base' = hour
  /\ UNCHANGED <<shift, hour, busy, serving>>

\* PtzService.plan: saved anew, unless nothing of its times has changed.
SavePtzPlan(c, on) ==
  LET unchanged == c = plan.cadence /\ on = plan.enabled IN
  /\ Edit /\ ~Local /\ ~unchanged
  /\ on => NextDue(c) # Never
  /\ plan' = [plan EXCEPT !.cadence = c, !.enabled = on]
  /\ nextRunAt' = (IF on THEN NextDue(c) ELSE Never) /\ base' = hour
  /\ UNCHANGED <<shift, hour, busy, serving>>

Due == plan.enabled /\ nextRunAt # Never /\ nextRunAt <= hour

\* tickSchedules: while the last run is open it is put off; otherwise it fires.
TickSchedules ==
  /\ serving /\ Local /\ Due
  /\ IF busy THEN nextRunAt' = hour + 1 /\ UNCHANGED <<base, busy>>
     ELSE /\ busy' = TRUE /\ base' = hour
          /\ nextRunAt' = IF plan.cadence.kind = "once" THEN Never ELSE NextDue(plan.cadence)
  /\ UNCHANGED <<shift, hour, plan, serving, edits>>

\* PtzService.tick: it waits while the camera is taken; the run may be refused,
\* and fails then.
TickPlans ==
  /\ serving /\ ~Local /\ Due /\ ~busy
  /\ busy' \in BOOLEAN /\ base' = hour
  /\ nextRunAt' = NextDue(plan.cadence)
  /\ plan' = [plan EXCEPT !.enabled = plan.cadence.kind # "once"]
  /\ UNCHANGED <<shift, hour, serving, edits>>

\* Runs end; patrols and operators take the camera.
RunIsOver == busy /\ busy' = FALSE
CameraTaken == ~busy /\ ~Local /\ busy' = TRUE
Busyness ==
  /\ serving /\ (RunIsOver \/ CameraTaken)
  /\ UNCHANGED <<shift, hour, plan, nextRunAt, base, serving, edits>>

\* The ticks of 250 and 500 ms leave nothing due that could fire, unless the
\* platform is down.
HourPasses ==
  /\ hour < LastDay * DayHours /\ hour' = hour + 1
  /\ serving => ~Due \/ (~Local /\ busy)
  /\ UNCHANGED <<shift, plan, nextRunAt, base, busy, serving, edits>>

UpOrDown ==
  /\ serving' = ~serving
  /\ UNCHANGED <<shift, hour, plan, nextRunAt, base, busy, edits>>

CadNext ==
  \/ \E c \in Cadences, on \in BOOLEAN : PatchSchedule(c, on) \/ SavePtzPlan(c, on)
  \/ TickSchedules \/ TickPlans \/ Busyness \/ HourPasses \/ UpOrDown

CadSpec == CadInit /\ [][CadNext]_cadVars

-----------------------------------------------------------------------------
(* plannedCalendar: what is shown of a schedule for the time to come.      *)

Horizon == LastDay * DayHours

\* A week and a day beyond it nothing is due.
Latest == Horizon + (WeekDays + 1) * DayHours

\* One turn of its loop; Never ends it.
FollowingEntry(c, at) ==
  IF c.kind = "once" THEN Never
  ELSE IF c.kind = "interval" THEN at + c.every
  ELSE FirstOf(TRUE, c, at, NextDates(at))

Ceil(n, d) == (n + d - 1) \div d

\* The first moment looked at: intervals before the time asked for are left
\* out.  Variant: they are counted in whole steps, rounded down and one more.
SkippedWhole(c, minimum) == (minimum - nextRunAt) \div c.every + 1
Skipped(c, minimum) == Ceil(minimum - nextRunAt, c.every)
FirstEntry(c, minimum) ==
  IF c.kind = "interval" /\ nextRunAt < minimum
    THEN nextRunAt + Skipped(c, minimum) * c.every
  ELSE nextRunAt

PlannedCalendar(minimum) ==
  LET c == plan.cadence
      walk[at \in 0..Latest] ==
        IF at = Never \/ at >= Horizon THEN {}
        ELSE (IF at >= minimum THEN {at} ELSE {}) \cup walk[FollowingEntry(c, at)]
  IN IF plan.enabled /\ nextRunAt # Never THEN walk[FirstEntry(c, minimum)] ELSE {}

\* The moments at which the scheduler fires, if every run ends in time.
DueMoments ==
  LET c == plan.cadence
      walk[at \in 0..Latest] ==
        IF at = Never \/ at >= Horizon THEN {}
        ELSE {at} \cup walk[IF c.kind = "once" THEN Never ELSE NextRun(c, at)]
  IN walk[nextRunAt]

-----------------------------------------------------------------------------
CadTypeOK ==
  /\ shift.day \in 0..LastDay /\ shift.by \in -1..1
  /\ hour \in 0..Horizon /\ base \in 0..hour /\ nextRunAt \in 0..Latest
  /\ plan.what \in {"mission", "patrol"} /\ plan.cadence \in Cadences
  /\ plan.enabled \in BOOLEAN /\ busy \in BOOLEAN /\ serving \in BOOLEAN
  /\ edits \in 0..MaxEdits

Occurrences == {At(Local, day, plan.cadence.at) :
                  day \in {d \in Dates : OnDay(plan.cadence, d)}}
Passed == {o \in Occurrences : base < o /\ o <= hour}

\* What world.ts:1146 cannot do: of a moment in the first hour of a day, 24 hours
\* on from a longer day is that same day; of one in the last hour, 24 hours on
\* passes over a shorter one.
Stumbles(time) ==
  LET day == DateOf(TRUE, time)
      into == time - Midnight(TRUE, day)
      ahead == day..(day + WeekDays)
  IN shift.day \in ahead /\ \/ shift.by = 1 /\ into = 0
                            \/ shift.by = -1 /\ shift.day # day /\ into = DayHours - 1

\* world.ts:1143, ptz.ts:126: the next run of a weekly schedule is the next
\* of its days and hours; one that has passed is made up at the next tick or
\* at the next look at an open run, once, and is never forgotten, whatever was
\* edited, put off or missed while the platform was down.
NoRunIsForgotten ==
  plan.cadence.kind = "weekly" /\ plan.enabled /\ ~(Local /\ Stumbles(base)) =>
    IF Passed # {} THEN nextRunAt # Never /\ nextRunAt <= hour + 1
    ELSE \A o \in Occurrences : o > base => /\ nextRunAt \in Occurrences
                                            /\ base < nextRunAt /\ nextRunAt <= o

\* operations.ts:238-287: the calendar, which reckons for itself, shows for any
\* time to come the moments at which the scheduler will fire and no other.
CalendarIsTrue ==
  Local /\ plan.enabled /\ nextRunAt >= hour
    /\ (plan.cadence.kind = "weekly" => ~\E f \in DueMoments : Stumbles(f)) =>
    \A from \in hour..Horizon : PlannedCalendar(from) = {f \in DueMoments : f >= from}

\* Both: what is due is what was scheduled and what is shown.
SchedulesKeepTime == NoRunIsForgotten /\ CalendarIsTrue
=============================================================================
