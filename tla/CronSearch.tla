----------------------------- MODULE CronSearch -----------------------------
(***************************************************************************)
(* When a job with a cron expression runs next: the expression is parsed   *)
(* into five sets, and the search jumps from minute to minute, hour, day   *)
(* or month until every set holds its part of the time.                    *)
(*                                                                         *)
(* Times are seconds since 1970.  A field is a sequence of parts: what the *)
(* commas of the text separate.                                            *)
(***************************************************************************)
EXTENDS Integers, Sequences, FiniteSets

CONSTANTS
  Expressions,  \* sequences of fields
  Starts        \* the times after which a next one is sought

VARIABLES
  asked,   \* the expression and the time
  named, \* the sets it stands for
  ts,      \* where the search is
  result   \* "parse", "search", or how it ended: "found", "none", "panic"

cronVars == <<asked, named, ts, result>>

(* The parts: `*`, `*/n`, `n-m`, `n`, and text that is none of them.       *)
All == <<"all", 0, 0>>
Every(n) == <<"every", n, 0>>
Between(n, o) == <<"range", n, o>>
Just(n) == <<"range", n, n>>
Unreadable == <<"bad", 0, 0>>

Minute == 60
Hour == 3600
Day == 86400

Least(S) == CHOOSE v \in S : \A w \in S : v <= w

-----------------------------------------------------------------------------
(* parse_field: the first part that cannot be read decides; the remainder  *)
(* by zero is a panic.                                                     *)
Values(part, low, high) ==
  CASE part[1] = "all" -> low..high
    [] part[1] = "every" -> {v \in low..high : (v - low) % part[2] = 0}
    [] part[1] = "range" -> (part[2]..part[3]) \cap (low..high)

ParseField(field, low, high) ==
  LET faults == {i \in DOMAIN field : field[i] \in {Unreadable, Every(0)}}
      values == UNION {Values(field[i], low, high) : i \in DOMAIN field}
  IN  IF faults # {}
      THEN [end |-> IF field[Least(faults)] = Unreadable THEN "none" ELSE "panic", values |-> {}]
      ELSE [end |-> IF values = {} THEN "none" ELSE "search", values |-> values]

Bounds == <<<<0, 59>>, <<0, 23>>, <<1, 31>>, <<1, 12>>, <<0, 6>>>>

-----------------------------------------------------------------------------
(* is_leap, days_to_ymd, unix_to_parts: years, then months are taken off.  *)
IsLeap(y) == (y % 4 = 0 /\ y % 100 # 0) \/ y % 400 = 0
YearDays(y) == IF IsLeap(y) THEN 366 ELSE 365
MonthDays(y) == <<31, IF IsLeap(y) THEN 29 ELSE 28, 31, 30, 31, 30, 31, 31, 30, 31, 30, 31>>

DaysToYmd(days) ==
  LET year[d \in Nat, y \in Nat] ==
        IF d < YearDays(y) THEN <<y, d>> ELSE year[d - YearDays(y), y + 1]
      in == year[days, 1970]
      month[d \in Nat, m \in 1..12] ==
        IF d < MonthDays(in[1])[m] THEN <<m, d + 1>> ELSE month[d - MonthDays(in[1])[m], m + 1]
      day == month[in[2], 1]
  IN  [year |-> in[1], month |-> day[1], dom |-> day[2]]

UnixToParts(t) ==
  LET days == t \div Day
      date == DaysToYmd(days)
  IN  [minute |-> (t \div Minute) % 60, hour |-> (t \div Hour) % 24,
       dom |-> date.dom, month |-> date.month, dow |-> (days + 4) % 7]

-----------------------------------------------------------------------------
(* Mutant of Jump: the minutes and seconds are kept.                       *)
Jump_Unaligned(t, unit) == t + unit

(* The start of the next minute, hour or day.                              *)
Jump(t, unit) == ((t + unit) \div unit) * unit

(* advance_to_month: day by day to the next named month, or the first.   *)
AdvanceToMonth(t, months) ==
  LET now == UnixToParts(t).month
      later == {m \in months : m > now}
      next == Least(IF later # {} THEN later ELSE months)
      In(n) == UnixToParts(t + n * Day).month = next
      days == CHOOSE n \in 1..400 : In(n) /\ \A o \in 1..n - 1 : ~In(o)
      candidate == t + days * Day
  IN  candidate - (candidate % Day)

CInit ==
  /\ asked \in [expression : Expressions, after : Starts]
  /\ named = <<>> /\ ts = 0 /\ result = "parse"

Start == asked.after + Minute
Limit == Start + 4 * 365 * Day

(* next_cron, up to its loop: the fields are parsed in order.              *)
Parse ==
  /\ result = "parse"
  /\ LET e == asked.expression
         parsed == [i \in 1..5 |-> ParseField(e[i], Bounds[i][1], Bounds[i][2])]
         ends == {i \in 1..5 : parsed[i].end # "search"}
     IN  IF Len(e) # 5
         THEN result' = "none" /\ UNCHANGED <<named, ts>>
         ELSE IF ends # {}
         THEN result' = parsed[Least(ends)].end /\ UNCHANGED <<named, ts>>
         ELSE /\ result' = "search"
              /\ named' = [minute |-> parsed[1].values, hour |-> parsed[2].values,
                             dom |-> parsed[3].values, month |-> parsed[4].values,
                             dow |-> parsed[5].values]
              /\ ts' = Start - (Start % Minute)
  /\ UNCHANGED asked

(* One turn of the loop.                                                   *)
Search ==
  /\ result = "search"
  /\ LET t == UnixToParts(ts) IN
     IF ts >= Limit THEN result' = "none" /\ ts' = ts
     ELSE IF t.month \notin named.month
     THEN ts' = AdvanceToMonth(ts, named.month) /\ result' = result
     ELSE IF t.dom \notin named.dom \/ t.dow \notin named.dow
     THEN ts' = Jump(ts, Day) /\ result' = result
     ELSE IF t.hour \notin named.hour THEN ts' = Jump(ts, Hour) /\ result' = result
     ELSE IF t.minute \notin named.minute THEN ts' = Jump(ts, Minute) /\ result' = result
     ELSE result' = "found" /\ ts' = ts
  /\ UNCHANGED <<asked, named>>

CNext == Parse \/ Search

CSpec == CInit /\ [][CNext]_cronVars

-----------------------------------------------------------------------------
(* The reference: the calendar counted forwards, and the first time of the *)
(* days that the expression names.                                         *)
LeapsBefore(y) == (y - 1) \div 4 - (y - 1) \div 100 + (y - 1) \div 400

DayOf(y, m, d) ==
  LET before[n \in 0..12] == IF n = 0 THEN 0 ELSE before[n - 1] + MonthDays(y)[n]
  IN  365 * (y - 1970) + LeapsBefore(y) - LeapsBefore(1970) + before[m - 1] + d - 1

Sought(low, high) ==
  LET years == (low \div Day) \div 366 + 1970 .. (high \div Day) \div 365 + 1970
      dates == {date \in years \X named.month \X named.dom :
                  date[3] <= MonthDays(date[1])[date[2]]}
      days == {n \in {DayOf(date[1], date[2], date[3]) : date \in dates} :
                 /\ n \in (low \div Day)..(high \div Day)
                 /\ (n - DayOf(2023, 1, 1)) % 7 \in named.dow}    \* a Sunday
      times == {h * Hour + m * Minute : h \in named.hour, m \in named.minute}
      whole == {n \in days : n * Day >= low}
      near == (days \cap {low \div Day}) \cup (IF whole = {} THEN {} ELSE {Least(whole)})
  IN  {t \in {n * Day + s : n \in near, s \in times} : t \in low..high - 1}

CTypeOK ==
  /\ asked \in [expression : Expressions, after : Starts]
  /\ result \in {"parse", "search", "found", "none", "panic"}
  /\ ts \in Nat

(* A search never jumps over a time that the expression names: what it     *)
(* finds is the first such minute after the one it starts from, whatever   *)
(* the lengths of the months in between, leap days included, and it gives  *)
(* up only when there is none in the four years it looks ahead.  It panics *)
(* only for a step of zero.  An expression names the times of which every  *)
(* field holds its part, as next_cron has it: not POSIX's, which           *)
(* scheduler.rs:231 speaks of, where a day of the month and a day of the   *)
(* week are alternatives when both are restricted.                         *)
CronExact ==
  /\ result = "found" => ts = Least(Sought(asked.after + 1, Limit))
  /\ result = "none" /\ named # <<>> => Sought(asked.after + 1, Limit) = {}
  /\ result = "panic" => \E i \in 1..5 : Every(0) \in {asked.expression[i][j] :
                                             j \in DOMAIN asked.expression[i]}
=============================================================================
