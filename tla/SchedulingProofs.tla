-------------------------- MODULE SchedulingProofs --------------------------
(***************************************************************************)
(* Proofs about Scheduling, for any bound on the intervals and on the      *)
(* clock: how far apart the syncs are does not depend on the numbers that  *)
(* TLC enumerates.                                                         *)
(*                                                                         *)
(* The argument is one equation: as long as the schedule is followed, the  *)
(* time since the last sync is the position in the cycle modulo the step.  *)
(* A cycle begins with a sync, so that a step that does not divide the     *)
(* cycle makes the last gap shorter and never longer.                      *)
(***************************************************************************)
EXTENDS Scheduling, Integers, TLAPS

-----------------------------------------------------------------------------
(* Remainders *)

\* A product grows by a factor at least when the other factor grows.
LEMMA Grows ==
    ASSUME NEW s \in Nat, NEW q \in Nat, NEW p \in Nat, q < p
    PROVE  s * q + s <= s * p
<1>1. p - q - 1 \in Nat
  OBVIOUS
<1>2. s * (p - q - 1) >= 0
  BY <1>1
<1>3. s * p = s * q + s + s * (p - q - 1)
  OBVIOUS
<1>4. QED
  BY <1>2, <1>3

\* A remainder lies below the divisor, and that of zero is zero.
LEMMA Remainder ==
    ASSUME NEW k \in Nat, NEW s \in Nat, s > 0
    PROVE  k % s \in 0 .. s - 1 /\ 0 % s = 0
  BY Z3

\* The remainder counts up to the divisor less one, and starts again.
LEMMA NextRemainder ==
    ASSUME NEW k \in Nat, NEW s \in Nat, s > 0
    PROVE  \/ (k + 1) % s = 0 /\ k % s = s - 1
           \/ (k + 1) % s = (k % s) + 1
<1> DEFINE q == k \div s
           p == (k + 1) \div s
           r == k % s
           t == (k + 1) % s
           a == s * q
           b == s * p
<1>1. /\ q \in Nat /\ p \in Nat /\ r \in 0 .. s - 1 /\ t \in 0 .. s - 1
      /\ a + r = k /\ b + t = k + 1
  BY Z3
<1> HIDE DEF q, p, r, t
<1>2. a \in Nat /\ b \in Nat
  BY <1>1
<1>3. /\ p < q => b + s <= a
      /\ p = q => a = b
      /\ q < p => a + s <= b
  BY <1>1, Grows
<1> HIDE DEF a, b
<1>4. \/ t = 0 /\ r = s - 1
      \/ t = r + 1
  <2>1. CASE p < q
    BY <1>1, <1>2, <1>3, <2>1
  <2>2. CASE p = q
    BY <1>1, <1>2, <1>3, <2>2
  <2>3. CASE q < p
    BY <1>1, <1>2, <1>3, <2>3
  <2>4. QED
    BY <1>1, <2>1, <2>2, <2>3
<1>5. QED
  BY <1>4 DEF r, t

-----------------------------------------------------------------------------
(* The schedule of an interval *)

\* The schedule is followed when the interval names a positive number of a unit,
\* or stands for five minutes; it then asks for a sync at least that often, and
\* exactly that often in minutes and hours.
LEMMA Scheduled ==
    ASSUME asked \in Intervals,
           \/ asked.form = "unset"
           \/ asked.form = "plain" /\ UnitOf(asked.unit) # "?" /\ asked.num > 0
           \/ asked = Plain(0, "m")
    PROVE  /\ Followed(Schedule) /\ Schedule.step \in Nat /\ Schedule.field = Field
           /\ Wanted \in Nat /\ Schedule.step <= Wanted
           /\ Field \in {"m", "h"} => Schedule.step = Wanted
<1> USE SchedulingAssumption
<1>1. CASE asked.form = "unset" \/ asked = Plain(0, "m")
  <2>1. Configured(asked) = Plain(5, "m")
    BY <1>1 DEF Configured
  <2>2. Schedule = [field |-> "m", step |-> 5, clean |-> TRUE]
    <3> DEFINE i == Plain(5, "m")
    <3>1. i.form = "plain" /\ i.num = 5 /\ UnitOf(i.unit) = "m" /\ i # Plain(0, "m")
      BY DEF Plain, UnitOf
    <3> HIDE DEF i
    <3>2. ConvertSchedulingIntervalToCronSpec(i) = [field |-> "m", step |-> 5, clean |-> TRUE]
      BY <3>1 DEF ConvertSchedulingIntervalToCronSpec
    <3>3. getScheduleCronSpec(i) = ConvertSchedulingIntervalToCronSpec(i)
      BY <3>1 DEF getScheduleCronSpec
    <3>4. QED
      BY <2>1, <3>2, <3>3 DEF Schedule, i
  <2>3. Field = "m" /\ Wanted = 5
    BY <2>1 DEF Field, Wanted, UnitOf, Plain
  <2>4. QED
    BY <2>2, <2>3 DEF Followed
<1>2. CASE asked.form = "plain" /\ UnitOf(asked.unit) # "?" /\ asked.num > 0
  <2> DEFINE u == UnitOf(asked.unit)
             capped == u = "d" /\ asked.num > 28
  <2>1. Configured(asked) = asked /\ asked # Plain(0, "m")
    BY <1>2 DEF Configured, Plain
  <2>2. Schedule = ConvertSchedulingIntervalToCronSpec(asked)
    BY <1>2, <2>1 DEF Schedule, getScheduleCronSpec
  <2>3. u \in {"m", "h", "d"} /\ asked.num \in Nat
    BY <1>2 DEF UnitOf, Intervals
  <2>4. /\ Schedule.field = u /\ Schedule.clean
        /\ Schedule.step = IF capped THEN 28 ELSE asked.num
    BY <1>2, <2>2 DEF ConvertSchedulingIntervalToCronSpec, CronSpecMaxDayOfMonth
  <2>5. Field = u /\ Wanted = asked.num
    BY <1>2, <2>1 DEF Field, Wanted
  <2> HIDE DEF u
  <2>6. QED
    BY <1>2, <2>3, <2>4, <2>5 DEF Followed
<1>3. QED
  BY <1>1, <1>2

-----------------------------------------------------------------------------
(* The invariant *)

\* The intervals that NeverLate is about.
Readable ==
    \/ asked.form = "unset"
    \/ asked.form = "plain" /\ UnitOf(asked.unit) # "?" /\ asked.num > 0
    \/ asked = Plain(0, "m")

\* The types of the state, and where the clock is within the cycle.
ClockInv ==
    /\ asked \in Intervals /\ now \in Nat /\ since \in Nat
    /\ length \in Cycles(Field)
    /\ at \in First(Field) .. First(Field) + length - 1
    /\ Field = "m" => at = now % 60

\* The time since the last sync is the position in the cycle modulo the step.
SinceInv == Readable => since = (at - First(Field)) % Schedule.step

\* The fields of cron, their first values and their cycles.
LEMMA Fields ==
    /\ Field \in {"m", "h", "d"}
    /\ First(Field) \in {0, 1} /\ (Field # "d" => First(Field) = 0)
    /\ Cycles(Field) \in SUBSET Nat /\ 0 \notin Cycles(Field)
    /\ Field = "m" => Cycles(Field) = {60}
<1>1. Field \in {"m", "h", "d"}
  BY DEF Field, UnitOf
<1>2. QED
  BY <1>1 DEF First, Cycles

\* The clock starts at the first value of a cycle.
LEMMA ClockInit == Init => ClockInv /\ SinceInv
<1> SUFFICES ASSUME Init PROVE ClockInv /\ SinceInv
  OBVIOUS
<1>1. ClockInv
  BY Fields DEF Init, ClockInv
<1>2. SinceInv
  <2> SUFFICES ASSUME Readable PROVE since = (at - First(Field)) % Schedule.step
    BY DEF SinceInv
  <2>1. Schedule.step \in Nat /\ Schedule.step > 0
    BY Scheduled DEF Init, Readable, Followed
  <2>2. at - First(Field) = 0 /\ since = 0
    BY Fields DEF Init
  <2>3. QED
    BY <2>1, <2>2, Remainder
<1>3. QED
  BY <1>1, <1>2

\* It stays within its cycles.
LEMMA ClockStep == ClockInv /\ [Next]_vars => ClockInv'
<1> SUFFICES ASSUME ClockInv, [Next]_vars PROVE ClockInv'
  OBVIOUS
<1>1. CASE UNCHANGED vars
  BY <1>1 DEF vars, ClockInv, Field
<1>2. CASE Tick
  <2>1. asked' = asked /\ Field' = Field /\ now' = now + 1
    BY <1>2 DEF Tick, Field
  <2>2. since' \in Nat
    BY <1>2 DEF Tick, ClockInv
  <2>3. length \in Nat /\ length > 0 /\ length' \in Cycles(Field) /\ length' \in Nat /\ length' > 0
    BY <1>2, Fields DEF Tick, ClockInv
  <2>4. at' \in First(Field) .. First(Field) + length' - 1
    BY <1>2, <2>3, Fields DEF Tick, ClockInv
  <2>5. ASSUME Field = "m" PROVE at' = now' % 60
    <3>1. length = 60 /\ First(Field) = 0 /\ at = now % 60 /\ now \in Nat
      BY <2>5, Fields DEF ClockInv
    <3>2. at' = IF at + 1 < 60 THEN at + 1 ELSE 0
      BY <1>2, <3>1 DEF Tick
    <3>3. QED
      BY <2>1, <3>1, <3>2
  <2>6. QED
    BY <2>1, <2>2, <2>3, <2>4, <2>5 DEF ClockInv
<1>3. QED
  BY <1>1, <1>2 DEF Next

\* The position after a tick is one further, modulo the step, or the first.
LEMMA Position ==
    ASSUME ClockInv, Tick, Readable
    PROVE  /\ at - First(Field) \in Nat /\ at' - First(Field) \in Nat
           /\ \/ at' - First(Field) = (at - First(Field)) + 1 /\ length' = length
              \/ at' - First(Field) = 0 /\ (at - First(Field)) + 1 = length
<1>1. length \in Nat /\ length > 0
  BY Fields DEF ClockInv
<1>2. QED
  BY <1>1, Fields DEF ClockInv, Tick

\* A tick syncs when the position reaches a multiple of the step, and otherwise
\* adds one to the time since the last sync.
LEMMA SinceStep == ClockInv /\ SinceInv /\ [Next]_vars => SinceInv'
<1> SUFFICES ASSUME ClockInv, SinceInv, [Next]_vars PROVE SinceInv'
  OBVIOUS
<1>1. CASE UNCHANGED vars
  BY <1>1 DEF vars, SinceInv, Readable, Field, Schedule
<1>2. CASE Tick
  <2>1. asked' = asked /\ Field' = Field /\ Schedule' = Schedule /\ Readable' = Readable
    BY <1>2 DEF Tick, Field, Schedule, Readable
  <2> SUFFICES ASSUME Readable PROVE since' = (at' - First(Field)) % Schedule.step
    BY <2>1 DEF SinceInv
  <2> DEFINE k == at - First(Field)
             l == at' - First(Field)
             s == Schedule.step
  <2>2. s \in Nat /\ s > 0 /\ Followed(Schedule) /\ Schedule.field = Field
    BY Scheduled DEF ClockInv, Readable, Followed
  <2>3. since = k % s
    BY DEF SinceInv
  <2>4. k \in Nat /\ (l = k + 1 \/ l = 0)
    BY <1>2, Position
  <2>5. since' = IF l % s = 0 THEN 0 ELSE since + 1
    BY <1>2, <2>2 DEF Tick, Fires
  <2> HIDE DEF k, l, s
  <2>6. since' = l % s
    BY <2>2, <2>3, <2>4, <2>5, Remainder, NextRemainder
  <2>7. QED
    BY <2>6 DEF l, s
<1>3. QED
  BY <1>1, <1>2 DEF Next

\* The invariant.
LEMMA Invariance == Spec => [](ClockInv /\ SinceInv)
<1>1. ClockInv /\ SinceInv /\ [Next]_vars => (ClockInv /\ SinceInv)'
  BY ClockStep, SinceStep
<1>2. QED
  BY <1>1, ClockInit, PTL DEF Spec

-----------------------------------------------------------------------------
(* The properties *)

\* An interval that the handler turns into a schedule is never exceeded, whatever
\* number of minutes, hours or days it names and whether or not it divides the
\* hour, the day or the month: ConvertSchedulingIntervalToCronSpec.
THEOREM Punctual == Spec => []NeverLate
<1>1. ClockInv /\ SinceInv => NeverLate
  <2> SUFFICES ASSUME ClockInv, SinceInv, Readable PROVE since < Wanted
    BY DEF NeverLate, Readable
  <2>1. /\ Schedule.step \in Nat /\ Schedule.step > 0
        /\ Wanted \in Nat /\ Schedule.step <= Wanted
    BY Scheduled DEF ClockInv, Readable, Followed
  <2>2. at - First(Field) \in Nat
    BY Fields DEF ClockInv
  <2>3. since \in 0 .. Schedule.step - 1
    BY <2>1, <2>2, Remainder DEF SinceInv
  <2>4. QED
    BY <2>1, <2>3
<1>2. QED
  BY <1>1, Invariance, PTL

\* An interval in minutes or hours that divides its cycle is kept to the minute or
\* the hour, across the cycles too: "*/step" starts anew with each of them.
THEOREM Even == Spec => Evenly
<1>1. ASSUME ClockInv, SinceInv, Tick, asked.form = "plain", Field \in {"m", "h"},
             Wanted > 0, length % Wanted = 0, since' = 0
      PROVE  since + 1 = Wanted
  <2>1. Fires(Schedule, at')
    BY <1>1 DEF Tick, ClockInv
  <2>2. Readable
    <3>1. CASE asked = Plain(0, "m")
      BY <3>1 DEF Readable
    <3>2. CASE asked # Plain(0, "m")
      <4>1. Configured(asked) = asked
        BY <1>1, <3>2 DEF Configured
      <4>2. Schedule = ConvertSchedulingIntervalToCronSpec(asked)
        BY <1>1, <3>2, <4>1 DEF Schedule, getScheduleCronSpec
      <4>3. UnitOf(asked.unit) # "?"
        BY <2>1, <4>2 DEF Fires, Followed, ConvertSchedulingIntervalToCronSpec, NoSchedule
      <4>4. QED
        BY <1>1, <4>1, <4>3 DEF Readable, Wanted
    <3>3. QED
      BY <3>1, <3>2
  <2> DEFINE k == at - First(Field)
             l == at' - First(Field)
             s == Schedule.step
             w == Wanted
  <2>3. /\ s \in Nat /\ s > 0 /\ s = w
        /\ Followed(Schedule) /\ Schedule.field = Field
    BY <1>1, <2>2, Scheduled DEF ClockInv, Readable, Followed
  <2>4. since = k % s
    BY <1>1, <2>2 DEF SinceInv
  <2>5. k \in Nat /\ (l = k + 1 \/ k + 1 = length)
    BY <1>1, <2>2, Position
  <2>6. l % s = 0
    BY <2>1, <2>3 DEF Fires
  <2>7. length % s = 0
    BY <1>1, <2>3
  <2> HIDE DEF k, l, s, w
  <2>8. (k + 1) % s = 0
    BY <2>5, <2>6, <2>7
  <2>9. since = s - 1
    <3> DEFINE r == k % s
    <3>1. r \in Nat
      BY <2>3, <2>5, Remainder
    <3>2. (k + 1) % s = r + 1 \/ r = s - 1
      BY <2>3, <2>5, NextRemainder
    <3> HIDE DEF r
    <3>3. r = s - 1
      BY <2>8, <3>1, <3>2
    <3>4. QED
      BY <2>4, <3>3 DEF r
  <2>10. since + 1 = w
    BY <2>3, <2>9
  <2>11. QED
    BY <2>10 DEF w
<1>2. ClockInv /\ SinceInv /\ [Next]_vars
      => [/\ asked.form = "plain" /\ Field \in {"m", "h"}
          /\ Wanted > 0 /\ length % Wanted = 0
          /\ since' = 0
          => since + 1 = Wanted]_vars
  BY <1>1 DEF Next
<1>3. QED
  BY <1>2, Invariance, PTL DEF Spec, Evenly

\* The window of isWithinScheduleWindow counts from the epoch and cron from the
\* hour: for intervals that divide the hour they agree, and no sync is a minute
\* old or less, or due within the next minute, while the window is open.
THEOREM Clear == Spec => []WindowClear
<1>1. ClockInv /\ SinceInv => WindowClear
  <2> DEFINE i == Configured(asked)
             n == Minutes(i)
  <2> SUFFICES ASSUME ClockInv, SinceInv,
                      n \in 5 .. 15, 60 % n = 0, isWithinScheduleWindow(i, now)
               PROVE  since >= 1 /\ ~Fires(Schedule, (at + 1) % 60)
    BY DEF WindowClear
  <2>1. n \in {5, 6, 10, 12, 15}
    OBVIOUS
  <2>2. i.form = "plain" /\ i.unit = "m" /\ i.num = n
    BY <2>1 DEF Minutes
  <2>3. Readable /\ Field = "m" /\ Wanted = n
    <3>1. Field = "m" /\ Wanted = n
      BY <2>2 DEF Field, UnitOf, Wanted
    <3>2. CASE asked.form = "unset" \/ asked = Plain(0, "m")
      BY <3>1, <3>2 DEF Readable
    <3>3. CASE ~(asked.form = "unset" \/ asked = Plain(0, "m"))
      <4>1. i = asked
        BY <3>3 DEF Configured
      <4>2. QED
        BY <2>1, <2>2, <3>1, <4>1 DEF Readable, UnitOf
    <3>4. QED
      BY <3>2, <3>3
  <2>4. Followed(Schedule) /\ Schedule.step = n /\ Schedule.field = "m"
    BY <2>3, Scheduled DEF ClockInv, Readable
  <2>5. since = at % n /\ at = now % 60 /\ now \in Nat /\ First(Field) = 0 /\ at \in Nat
    BY <2>3, <2>4, Fields DEF ClockInv, SinceInv
  <2>6. now % n >= 1 /\ now % n < n - 1
    BY <2>1 DEF isWithinScheduleWindow
  <2>7. Fires(Schedule, (at + 1) % 60) => ((at + 1) % 60) % n = 0
    BY <2>3, <2>4, <2>5 DEF Fires
  <2> HIDE DEF n
  <2>8. at % n >= 1 /\ ((at + 1) % 60) % n # 0
    <3>1. CASE n = 5
      BY <2>5, <2>6, <3>1
    <3>2. CASE n = 6
      BY <2>5, <2>6, <3>2
    <3>3. CASE n = 10
      BY <2>5, <2>6, <3>3
    <3>4. CASE n = 12
      BY <2>5, <2>6, <3>4
    <3>5. CASE n = 15
      BY <2>5, <2>6, <3>5
    <3>6. QED
      BY <2>1, <3>1, <3>2, <3>3, <3>4, <3>5
  <2>9. QED
    BY <2>5, <2>7, <2>8
<1>2. QED
  BY <1>1, Invariance, PTL

=============================================================================
