----------------------------- MODULE Scheduling -----------------------------
(***************************************************************************)
(* From the schedulingInterval of a VolumeGroupReplicationClass to the     *)
(* times at which VolSync syncs: the configuration the primary reads, the  *)
(* cron schedule the handler makes of it (volsync/handler.go), what that   *)
(* schedule does, and the window in which a failover is taken to be clear  *)
(* of syncs (primary_reconciler.go).                                       *)
(*                                                                         *)
(* The clock counts in the unit of the interval: minutes, hours or days.   *)
(***************************************************************************)
EXTENDS Naturals

CONSTANTS
    MaxNum,      \* bound: the largest number an interval asks for
    Horizon      \* bound: how long the clock runs

ASSUME SchedulingAssumption == MaxNum \in Nat /\ Horizon \in Nat

VARIABLES
    asked,       \* the schedulingInterval of the class
    now,         \* time since an epoch at which every cycle begins
    at,          \* what the cron field of the unit shows
    length,      \* the cycle of that field
    since        \* time since the last sync, at first since the epoch

vars == <<asked, now, at, length, since>>

-----------------------------------------------------------------------------
(* Intervals *)

\* "unset" is "", "bare" a text with no number before its last character, "plain"
\* a number and one character, "garbled" a number, a text (not just spaces) and one
\* character.
Forms == {"unset", "bare", "plain", "garbled"}

\* One character: the units, the units in upper case, any other.
Lower == {"m", "h", "d"}
Upper == {"M", "H", "D"}
Intervals == [form : Forms, num : 0 .. MaxNum, unit : Lower \cup Upper \cup {"?"}]

Plain(n, u) == [form |-> "plain", num |-> n, unit |-> u]

UnitOf(u) == CASE u \in {"m", "M"} -> "m" [] u \in {"h", "H"} -> "h"
               [] u \in {"d", "D"} -> "d" [] OTHER -> "?"

\* The primary reads "" and "0m" as 5m.
Configured(i) ==
    IF i.form = "unset" \/ i = Plain(0, "m") THEN Plain(5, "m") ELSE i

-----------------------------------------------------------------------------
(* Schedules *)

CronSpecMaxDayOfMonth == 28

NoSchedule == [field |-> "?", step |-> 0, clean |-> FALSE]

\* Mutant of ConvertSchedulingIntervalToCronSpec: the step is one too large.
ConvertLate(i) ==
    IF i.form \in {"unset", "bare"} \/ UnitOf(i.unit) = "?" THEN NoSchedule
    ELSE [field |-> UnitOf(i.unit), step |-> i.num + 1, clean |-> i.form = "plain"]

\* "*/step" in the field of the unit and the start of every finer one.  What stands
\* between number and unit is copied, except that a number of days above 28 is
\* replaced as a whole.
ConvertSchedulingIntervalToCronSpec(i) ==
    LET capped == UnitOf(i.unit) = "d" /\ i.num > CronSpecMaxDayOfMonth
    IN  IF i.form \in {"unset", "bare"} \/ UnitOf(i.unit) = "?" THEN NoSchedule
        ELSE [field |-> UnitOf(i.unit),
              step |-> IF capped THEN CronSpecMaxDayOfMonth ELSE i.num,
              clean |-> i.form = "plain" \/ capped]

\* getScheduleCronSpec, of the configured interval: "*/5" again for "" and "0m".
getScheduleCronSpec(i) ==
    IF i.form = "unset" \/ i = Plain(0, "m")
    THEN [field |-> "m", step |-> 5, clean |-> TRUE]
    ELSE ConvertSchedulingIntervalToCronSpec(i)

Schedule == getScheduleCronSpec(Configured(asked))

\* VolSync refuses a schedule it cannot read, and one of step 0: it never syncs.
Followed(s) == s.clean /\ s.step > 0

-----------------------------------------------------------------------------
(* Cron, as VolSync uses it *)

First(field) == IF field = "d" THEN 1 ELSE 0

\* "*/step": every step-th value from the first; beyond the field, only the first.
Fires(s, value) == Followed(s) /\ (value - First(s.field)) % s.step = 0

Cycles(field) == CASE field = "h" -> {24} [] field = "d" -> 28 .. 31
                   [] OTHER -> {60}

-----------------------------------------------------------------------------
(* The failover window *)

\* ParseSchedulingInterval: 0 is an error.
Minutes(i) == IF i.form = "plain" /\ i.unit = "m" THEN i.num ELSE 0

\* Mutant of isWithinScheduleWindow: no margin before the next tick.
WindowToTheEnd(i, time) ==
    LET n == Minutes(i)
    IN  n # 0 /\ (n \in 5 .. 15 => time % n >= 1)

\* To the minute: from one after the last tick until one before the next.  The ticks
\* are the multiples of the interval since the epoch; an interval under 5 or over 15
\* minutes is not checked.
isWithinScheduleWindow(i, time) ==
    LET n == Minutes(i)
    IN  n # 0 /\ (n \in 5 .. 15 => time % n >= 1 /\ time % n < n - 1)

-----------------------------------------------------------------------------

Field == LET u == UnitOf(Configured(asked).unit) IN IF u = "?" THEN "m" ELSE u

Init ==
    /\ asked \in Intervals
    /\ now = 0 /\ since = 0
    /\ at = First(Field)
    /\ length \in Cycles(Field)

\* The field goes on within its cycle, or the next cycle begins; VolSync syncs.
Tick ==
    /\ now < Horizon
    /\ now' = now + 1
    /\ \/ /\ at + 1 < First(Field) + length
          /\ at' = at + 1 /\ UNCHANGED length
       \/ /\ at + 1 = First(Field) + length
          /\ at' = First(Field) /\ length' \in Cycles(Field)
    /\ since' = IF Fires(Schedule, at') THEN 0 ELSE since + 1
    /\ UNCHANGED asked

Next == Tick

Spec == Init /\ [][Next]_vars

-----------------------------------------------------------------------------
(* Properties *)

Wanted == Configured(asked).num

\* Whatever cron makes of a step that does not divide its cycle or exceeds it: an
\* interval that names a positive number of minutes, hours or days, or none, or
\* "0m", is never exceeded (handler.go:747-757, 1178-1228).
NeverLate ==
    \/ asked.form = "unset"
    \/ asked.form = "plain" /\ UnitOf(asked.unit) # "?" /\ asked.num > 0
    \/ asked = Plain(0, "m")
    => since < Wanted

\* Syncs are as far apart as the interval says, from one hour or day to the next
\* too, when it divides it (handler.go:1206-1211).
Evenly ==
    [][/\ asked.form = "plain" /\ Field \in {"m", "h"}
       /\ Wanted > 0 /\ length % Wanted = 0
       /\ since' = 0
       => since + 1 = Wanted]_vars

\* isWithinScheduleWindow computes its ticks from the epoch, cron from the hour
\* (primary_reconciler.go:497-511): they agree for the intervals that divide the
\* hour, and while the window is open a sync is neither a minute old nor due.
WindowClear ==
    LET i == Configured(asked)
    IN  /\ Minutes(i) \in 5 .. 15 /\ 60 % Minutes(i) = 0
        /\ isWithinScheduleWindow(i, now)
        => since >= 1 /\ ~Fires(Schedule, (at + 1) % 60)

=============================================================================
