------------------------------- MODULE Clock -------------------------------
(***************************************************************************)
(* The calendar: RTC_Write sets the peripheral once, with the time that    *)
(* NTP_Request brought, and RTC_Read is called for every answer to a       *)
(* message that is no command, and by mbedTLS to judge certificates.       *)
(*                                                                         *)
(* The peripheral goes on by itself between any two steps. It counts       *)
(* months from 1, the program's struct tm from 0, and neither side         *)
(* converts. A read of its time locks the date until that is read too.     *)
(* What it makes of a month or a day that its calendar does not have is    *)
(* not specified: either outcome. A day has DayLength ticks; the years of  *)
(* the runs are as the two digits of the peripheral keep them.             *)
(***************************************************************************)
EXTENDS Naturals

CONSTANTS
  Years, Days,   \* of the dates that NTP may bring, years since 1900
  DayLength,     \* ticks in a day
  MaxTicks       \* bound: ticks of a run

VARIABLES
  pc,            \* where RTC_Write or RTC_Read is
  curtime,       \* the argument of RTC_Write
  time, date,    \* RTC_TR and RTC_DR
  locked,        \* the date is locked by a read of the time
  shadow,        \* what it is locked at
  sTime, sDate,  \* as they were read
  right,         \* ghost: date and time by the calendar, from the moment time is set
  asked,         \* ghost: that at the moment a read begins
  crossed,       \* ghost: midnight fell between the two writes
  ticks

vars == <<pc, curtime, time, date, locked, shadow, sTime, sDate, right, asked, crossed, ticks>>

Leap(y) == y % 4 = 0

(* lengths of the months, the first being number 1 *)
Length(y, m) ==
  CASE m = 2 -> IF Leap(y) THEN 29 ELSE 28
    [] m \in {4, 6, 9, 11} -> 30
    [] OTHER -> 31

(* what NTP may bring, as struct tm has it: months from 0 *)
Starts == {d \in [year : Years, month : 0..11, day : Days] : d.day <= Length(d.year, d.month + 1)}

(* mktime brings a day beyond its month into the next one *)
Normal(d) ==
  LET y == IF d.month > 11 THEN d.year + 1 ELSE d.year
      m == d.month % 12
      l == Length(y, m + 1)
  IN IF d.day <= l THEN [year |-> y, month |-> m, day |-> d.day]
     ELSE [year |-> IF m = 11 THEN y + 1 ELSE y, month |-> (m + 1) % 12, day |-> d.day - l]

Following(d) == Normal([d EXCEPT !.day = @ + 1])
-----------------------------------------------------------------------------
(* The peripheral *)

Turned(d) == IF d.month = 12 THEN [year |-> d.year + 1, month |-> 1, day |-> 1]
             ELSE [d EXCEPT !.month = @ + 1, !.day = 1]

(* the dates that may follow d in it *)
Successors(d) ==
  IF d.month \in 1..12 /\ d.day < Length(d.year, d.month) THEN {[d EXCEPT !.day = @ + 1]}
  ELSE IF d.month \in 1..12 /\ d.day = Length(d.year, d.month) THEN {Turned(d)}
  ELSE {[d EXCEPT !.day = @ + 1], Turned(d)} \cap [year : {d.year}, month : 0..12, day : 1..31]

Tick ==
  /\ ticks < MaxTicks /\ ticks' = ticks + 1
  /\ time' = (time + 1) % DayLength
  /\ IF time' = 0 THEN date' \in Successors(date) ELSE UNCHANGED date
  /\ right' = [date |-> IF (right.time + 1) % DayLength = 0 THEN Following(right.date) ELSE right.date,
               time |-> (right.time + 1) % DayLength]
  /\ crossed' = (crossed \/ (pc = "setDate" /\ time' = 0))
  /\ UNCHANGED <<pc, curtime, locked, shadow, sTime, sDate, asked>>

ReadDR == IF locked THEN shadow ELSE date
-----------------------------------------------------------------------------
Step(p, q) == pc = p /\ pc' = q

(* RTC_Write: HAL_RTC_SetTime, HAL_RTC_SetDate *)
SetTime ==
  /\ Step("setTime", "setDate")
  /\ time' = curtime.time
  /\ right' = curtime
  /\ UNCHANGED <<curtime, date, locked, shadow, sTime, sDate, asked, crossed, ticks>>

SetDate ==
  /\ Step("setDate", "idle")
  /\ date' = curtime.date
  /\ UNCHANGED <<curtime, time, locked, shadow, sTime, sDate, right, asked, crossed, ticks>>

(* RTC_Read: HAL_RTC_GetTime, HAL_RTC_GetDate *)
GetTime ==
  /\ Step("idle", "getDate")
  /\ sTime' = time /\ asked' = right
  /\ locked' = TRUE /\ shadow' = ReadDR
  /\ UNCHANGED <<curtime, time, date, sDate, right, crossed, ticks>>

GetDate ==
  /\ Step("getDate", "answered")
  /\ sDate' = ReadDR /\ locked' = FALSE
  /\ UNCHANGED <<curtime, time, date, shadow, sTime, right, asked, crossed, ticks>>

(* the caller has used the time *)
Again ==
  /\ Step("answered", "idle")
  /\ UNCHANGED <<curtime, time, date, locked, shadow, sTime, sDate, right, asked, crossed, ticks>>
-----------------------------------------------------------------------------
Init ==
  /\ pc = "setTime"
  /\ curtime \in [date : Starts, time : 0..DayLength - 1]
  /\ time = 0 /\ date = [year |-> 0, month |-> 1, day |-> 1]
  /\ locked = FALSE /\ shadow = date /\ sTime = 0 /\ sDate = date
  /\ right = curtime /\ asked = curtime /\ crossed = FALSE /\ ticks = 0

Next == Tick \/ SetTime \/ SetDate \/ GetTime \/ GetDate \/ Again

Spec == Init /\ [][Next]_vars
-----------------------------------------------------------------------------
RtcDate == [year : Nat, month : 0..12, day : 1..31]

TypeOK ==
  /\ pc \in {"setTime", "setDate", "idle", "getDate", "answered"}
  /\ time \in 0..DayLength - 1 /\ date \in RtcDate
  /\ locked \in BOOLEAN /\ shadow \in RtcDate /\ sTime \in 0..DayLength - 1 /\ sDate \in RtcDate
  /\ right.date \in [year : Nat, month : 0..11, day : 1..31] /\ right.time \in 0..DayLength - 1
  /\ locked => pc = "getDate"

(* what RTC_Read returns *)
Answer == [date |-> Normal(sDate), time |-> sTime]

SameMonth == asked.date.year = curtime.date.year /\ asked.date.month = curtime.date.month

(* the month that the peripheral takes for the current one has this day *)
Known == curtime.date.month > 0 /\ asked.date.day <= Length(curtime.date.year, curtime.date.month)

(* The answer of a read is the time at the moment the read began, also when *)
(* midnight falls into the read, up to the end of the month, or of the      *)
(* month the peripheral takes for it.                                       *)
RightThisMonth == pc = "answered" /\ ~crossed /\ SameMonth /\ Known => Answer = asked
-----------------------------------------------------------------------------
(* "Leer la fecha y hora del RTC" (main.c): from a date that the peripheral *)
(* has in its calendar, whatever the day of the read.                       *)
RightEveryDay ==
  LET d == curtime.date IN
  pc = "answered" /\ ~crossed /\ d.month > 0 /\ d.day <= Length(d.year, d.month) => Answer = asked

(* "Escribir la fecha y hora en el RTC" (main.c): the two are written as    *)
(* one value.                                                               *)
RightAtMidnight == pc = "answered" /\ SameMonth /\ Known => Answer = asked
=============================================================================
