---------------------------------- MODULE Cron ----------------------------------
(***************************************************************************)
(* core/cron.py, and the loop of core/scheduler.py that lives by it: what  *)
(* the five fields of an expression stand for, the search for the next     *)
(* moment they match, which leaps over months, days and hours, and the     *)
(* sleep until then by the clock on the wall of a time zone.  A moment is  *)
(* the number of its minute, with days counted from 1 January of year 1,   *)
(* a Monday; the length of an hour and of a day are parameters.            *)
(***************************************************************************)
EXTENDS Integers, Sequences, FiniteSets

CONSTANTS HourLength, DayHours,    \* 60 and 24
          Lookahead,               \* days: 366 * MAX_LOOKAHEAD_YEARS
          FirstYear, LastYear,     \* bound: the calendar the runs know
          Expressions,             \* five fields; a field is a sequence of parts
          Starts,                  \* moments at which the loop may begin
          Shifts,                  \* [at, by]: a zone and the change of its offset
          MaxRuns, MaxLate, MaxRun \* bounds: runs; minutes late; minutes of a run

VARIABLES cron, zone,   \* the expression, parsed; the time zone
          at,           \* "look", "sleep", "run", "failed"
          clock,        \* minutes of the world
          from, next,   \* now and nxt of the loop
          runs,         \* history: [tick, started], by the wall
          told          \* the ticks after which scheduler.tick_missed was logged

vars == << cron, zone, at, clock, from, next, runs, told >>

(* ------------------------------------------------------------- calendar *)
Leap(y) == y % 4 = 0 /\ (y % 100 # 0 \/ y % 400 = 0)
MonthLength(y, m) == CASE m = 2 -> IF Leap(y) THEN 29 ELSE 28
                       [] m \in {4, 6, 9, 11} -> 30
                       [] OTHER -> 31
YearStart(y) == 365 * (y - 1) + (y - 1) \div 4 - (y - 1) \div 100 + (y - 1) \div 400
MonthStart(y, m) == YearStart(y) + << 0, 31, 59, 90, 120, 151, 181, 212, 243, 273, 304, 334 >>[m]
                    + (IF m > 2 /\ Leap(y) THEN 1 ELSE 0)   \* the day before its first

DayLength == HourLength * DayHours
Day(t) == t \div DayLength
Year(t) == CHOOSE y \in FirstYear..LastYear : YearStart(y) < Day(t) /\ Day(t) <= YearStart(y + 1)
Month(t) == CHOOSE m \in 1..12 : LET d == Day(t) - MonthStart(Year(t), m)
                                 IN  0 < d /\ d <= MonthLength(Year(t), m)
DayOfMonth(t) == Day(t) - MonthStart(Year(t), Month(t))
Hour(t) == (t % DayLength) \div HourLength
Minute(t) == t % HourLength
Weekday(t) == Day(t) % 7             \* 0: Sunday

(* --------------------------------------------------------------- parsing *)
Low == << 0, 0, 1, 1, 0 >>
High == << HourLength - 1, DayHours - 1, 31, 12, 7 >>

(* A part is [star, from, to, step]; a single number has from = to.        *)
Valid(expr) == \A i \in 1..5 : expr[i] # << >> /\ \A k \in DOMAIN expr[i] :
  LET p == expr[i][k] IN
  p.step >= 1 /\ (p.star \/ (Low[i] <= p.from /\ p.from <= p.to /\ p.to <= High[i]))
Values(field, i) == UNION {
  LET p == field[k]  lo == IF p.star THEN Low[i] ELSE p.from  hi == IF p.star THEN High[i] ELSE p.to
  IN  {v \in lo..hi : (v - lo) % p.step = 0} : k \in DOMAIN field}

Star(field) == field[1].star

Parse(expr) == [minutes  |-> Values(expr[1], 1), hours |-> Values(expr[2], 2),
                days     |-> Values(expr[3], 3), months |-> Values(expr[4], 4),
                weekdays |-> {v % 7 : v \in Values(expr[5], 5)},
                both     |-> Star(expr[3]) \/ Star(expr[5])]

(* ----------------------------------------------------------------- search *)
DayMatches(c, t) ==
  LET day == DayOfMonth(t) \in c.days   weekday == Weekday(t) \in c.weekdays
  IN  IF c.both THEN day /\ weekday ELSE day \/ weekday
Matches(c, t) == /\ Minute(t) \in c.minutes /\ Hour(t) \in c.hours
                 /\ Month(t) \in c.months /\ DayMatches(c, t)

NextMonth(t) == (1 + IF Month(t) = 12 THEN MonthStart(Year(t) + 1, 1)
                     ELSE MonthStart(Year(t), Month(t) + 1)) * DayLength
NextDay(t) == (Day(t) + 1) * DayLength

(* Bug: the hour goes on by itself, and the minutes stay. *)
NextHour_KeepsMinute(t) == t + HourLength
NextHour(t) == t + HourLength - Minute(t)

None == -1
NextAfter(c, t) ==
  LET limit == t + Lookahead * DayLength
      search[u \in Int] ==
        IF u > limit THEN None
        ELSE IF Month(u) \notin c.months THEN search[NextMonth(u)]
        ELSE IF ~ DayMatches(c, u) THEN search[NextDay(u)]
        ELSE IF Hour(u) \notin c.hours THEN search[NextHour(u)]
        ELSE IF Minute(u) \notin c.minutes THEN search[u + 1]
        ELSE u
  IN  search[t + 1]

(* ------------------------------------------------------------------- loop *)
Wall(t) == IF t < zone.at THEN t ELSE t + zone.by

Init == /\ cron \in {Parse(x) : x \in {y \in Expressions : Valid(y)}}
        /\ zone \in Shifts /\ clock \in Starts
        /\ at = "look" /\ from = None /\ next = None /\ runs = << >> /\ told = {}

(* Without a moment to wait for the loop ends (loop_crashed).              *)
Look == /\ at = "look" /\ Len(runs) < MaxRuns
        /\ from' = Wall(clock) /\ next' = NextAfter(cron, from')
        /\ at' = IF next' = None THEN "failed" ELSE "sleep"
        /\ UNCHANGED << cron, zone, clock, runs, told >>

(* The difference of two moments of a zone is the one on its wall.         *)
Wake == /\ at = "sleep" /\ at' = "run"
        /\ \E late \in 0..MaxLate : clock' = clock + (next - from) + late
        /\ runs' = Append(runs, [tick |-> next, started |-> Wall(clock')])
        /\ UNCHANGED << cron, zone, from, next, told >>

Missed(now) == LET following == NextAfter(cron, next) IN following # None /\ now > following

RunEnds == /\ at = "run" /\ at' = "look"
           /\ \E long \in 0..MaxRun : clock' = clock + long
           /\ told' = IF Missed(Wall(clock')) THEN told \cup {next} ELSE told
           /\ UNCHANGED << cron, zone, from, next, runs >>

Next == Look \/ Wake \/ RunEnds
Spec == Init /\ [][Next]_vars
-----------------------------------------------------------------------------
(* next_after: no moment that matches lies between the one it was asked    *)
(* from and its answer, however many months, days and hours it leapt over; *)
(* without an answer there is none as far as it looks.  (cron.py 99-133.)  *)
NextIsNext ==
  /\ at = "sleep" => /\ next > from /\ Matches(cron, next)
                     /\ \A t \in from + 1..next - 1 : ~ Matches(cron, t)
  /\ at = "failed" => \A t \in from + 1..from + Lookahead * DayLength : ~ Matches(cron, t)

(* A moment is run once, in order, and not before the wall says so.        *)
OncePerTick == \A i \in DOMAIN runs :
  /\ runs[i].started >= runs[i].tick
  /\ i > 1 => runs[i].tick > runs[i - 1].tick

(* What passes while a run goes on is left out, and somebody is told; that *)
(* of the very minute in which the run ends need not be.                   *)
LeftOutTold == at = "sleep" /\ runs # << >> =>
  LET last == runs[Len(runs)].tick
  IN  (\E t \in last + 1..from - 1 : Matches(cron, t)) => last \in told

CronRight == NextIsNext /\ OncePerTick /\ LeftOutTold
=============================================================================
