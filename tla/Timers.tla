------------------------------- MODULE Timers -------------------------------
(***************************************************************************)
(* 10/23_timers.cpp: any number of timers over the one alarm clock of the  *)
(* process.  alarm_set holds the timers with their seconds counted from    *)
(* when the system alarm was last set, for its first element.              *)
(*                                                                         *)
(* Time is in fractions of a second, and a SIGALRM that is not blocked is  *)
(* handled within one.  alarm(0) answers in whole seconds, so that a call  *)
(* of apue_alarm moves the timers of the set by a part of a second, all by *)
(* the same; drift is the sum of these, and the times of asked and called  *)
(* are those of a clock that is put back by drift.  apue_alarm takes no    *)
(* time, except that the clock may strike after it has blocked SIGALRM and *)
(* before it stops the clock.                                              *)
(***************************************************************************)
EXTENDS Integers, FiniteSets

CONSTANTS Funcs,       \* handlers: their addresses
          PerSecond,   \* fractions of time in a second
          MaxSeconds, MaxTimers,
          MaxNow,      \* fractions of time main runs before it waits
          Ties         \* whether the set may have two timers of the same seconds

ASSUME TimersAssumption ==
  /\ Funcs \subseteq Nat
  /\ PerSecond \in Nat \ {0}
  /\ MaxSeconds \in Nat /\ MaxTimers \in Nat /\ MaxNow \in Nat
  /\ Ties \in BOOLEAN

VARIABLES alarm_set,   \* pairs of seconds and a handler
          alarm,       \* time to the SIGALRM, 0 when none is to come
          sigalrm,     \* a SIGALRM is pending
          place,       \* "main", "blocked" (in apue_alarm), "wait", "sigsuspend", "done"
          arg,         \* the timer apue_alarm is called with
          struck,      \* the clock has struck inside apue_alarm
          now,
          drift,       \* by how much apue_alarm has put the timers off
          asked,       \* the timers asked for, with the time they end at
          called       \* the calls of handlers, with their time

timerVars == <<alarm_set, alarm, sigalrm, place, arg, struck, now, drift, asked, called>>

Timer == (1..MaxSeconds) \X Funcs

TimersInit ==
  /\ alarm_set = {} /\ alarm = 0 /\ sigalrm = FALSE
  /\ place = "main" /\ arg = <<0, 0>> /\ struck = FALSE
  /\ now = 0 /\ drift = 0 /\ asked = {} /\ called = {}

-----------------------------------------------------------------------------
begin(S) == CHOOSE t \in S : \A u \in S : t[1] < u[1] \/ (t[1] = u[1] /\ t[2] <= u[2])

(* Every timer of S when n seconds have gone by.                           *)
Later(S, n) == {<<t[1] - n, t[2]>> : t \in S}

reset_system_alarm_missing(S) == alarm' = 0

reset_system_alarm(S) == alarm' = IF S = {} THEN 0 ELSE PerSecond * begin(S)[1]

(* What alarm(0) returns: the seconds left, rounded, but not 0 for a clock *)
(* that runs.                                                              *)
alarm_0 == IF 0 < alarm /\ alarm < PerSecond THEN 1
           ELSE (alarm + (PerSecond \div 2)) \div PerSecond

(* How much later the alarm is when set again to what alarm(0) returned.   *)
rounding == PerSecond * alarm_0 - alarm

(* When a timer asked for now ends, by the clock that apue_alarm leaves.   *)
end_of(t) == now - (drift + rounding) + PerSecond * t[1]

(* main asks for a timer, which ends when another one does only if Ties,   *)
(* be it by the rounding; a call with no seconds returns at once.          *)
call_apue_alarm(t) ==
  /\ place = "main" /\ ~sigalrm
  /\ t[1] > 0
  /\ Cardinality(asked) < MaxTimers
  /\ Ties \/ \A a \in asked : a[1] # end_of(t)
  /\ place' = "blocked" /\ arg' = t
  /\ UNCHANGED <<alarm_set, alarm, sigalrm, struck, now, drift, asked, called>>

apue_alarm_no_shift ==
  /\ place = "blocked" /\ place' = "main"
  /\ asked' = asked \cup {<<end_of(arg), arg[2]>>}
  /\ drift' = drift + rounding
  /\ LET S == alarm_set \cup {arg}
     IN alarm_set' = S /\ reset_system_alarm(S)
  /\ UNCHANGED <<sigalrm, arg, struck, now, called>>

apue_alarm ==
  /\ place = "blocked" /\ place' = "main"
  /\ asked' = asked \cup {<<end_of(arg), arg[2]>>}
  /\ drift' = drift + rounding
  /\ LET elapsed_time == alarm_0
         S == (IF elapsed_time > 0 THEN Later(alarm_set, begin(alarm_set)[1] - elapsed_time)
               ELSE alarm_set) \cup {arg}
     IN alarm_set' = S /\ reset_system_alarm(S)
  /\ UNCHANGED <<sigalrm, arg, struck, now, called>>

handler_keeps_seconds ==
  /\ sigalrm
  /\ place \in {"main", "sigsuspend"}
  /\ sigalrm' = FALSE
  /\ LET first == begin(alarm_set)
         S == alarm_set \ {first}
     IN /\ called' = called \cup {<<now - drift, first[2]>>}
        /\ alarm_set' = S
        /\ reset_system_alarm(S)
  /\ place' = IF place = "sigsuspend" THEN "wait" ELSE place
  /\ UNCHANGED <<arg, struck, now, drift, asked>>

apue_alarm_handler ==
  /\ sigalrm
  /\ place \in {"main", "sigsuspend"}
  /\ sigalrm' = FALSE
  /\ IF alarm_set = {} THEN UNCHANGED <<alarm_set, alarm, called>>
     ELSE LET first == begin(alarm_set)
              S == Later(alarm_set \ {first}, first[1])
          IN /\ called' = called \cup {<<now - drift, first[2]>>}
             /\ alarm_set' = S
             /\ reset_system_alarm(S)
  /\ place' = IF place = "sigsuspend" THEN "wait" ELSE place
  /\ UNCHANGED <<arg, struck, now, drift, asked>>

wait_apue_timers ==
  /\ \/ place = "main" /\ ~sigalrm /\ place' = "wait"
     \/ place = "wait" /\ place' = IF alarm_set = {} THEN "done" ELSE "sigsuspend"
  /\ UNCHANGED <<alarm_set, alarm, sigalrm, arg, struck, now, drift, asked, called>>

Tick ==
  /\ place # "done" /\ ~sigalrm
  /\ IF place \in {"wait", "sigsuspend"} THEN alarm > 0 ELSE now < MaxNow
  /\ place = "blocked" => alarm = 1
  /\ struck' = (struck \/ place = "blocked")
  /\ now' = now + 1
  /\ alarm' = IF alarm > 0 THEN alarm - 1 ELSE 0
  /\ sigalrm' = (alarm = 1)
  /\ UNCHANGED <<alarm_set, place, arg, drift, asked, called>>

TimersNext ==
  \/ \E t \in Timer : call_apue_alarm(t)
  \/ apue_alarm \/ apue_alarm_handler \/ wait_apue_timers \/ Tick

(* The process runs, time passes, and main comes to wait for its timers.   *)
TimersSpec ==
  /\ TimersInit /\ [][TimersNext]_timerVars
  /\ WF_timerVars(apue_alarm) /\ WF_timerVars(apue_alarm_handler)
  /\ WF_timerVars(wait_apue_timers) /\ WF_timerVars(Tick)

-----------------------------------------------------------------------------
(* The alarm is set for the first timer, and counting from it every timer  *)
(* in the set ends when it was asked to, but for the drift since: no timer *)
(* is lost, the time between two of them is kept, and each call of         *)
(* apue_alarm puts them off by less than a second, or advances them by     *)
(* less than half of one, however often the clock is stopped and set again.*)
(* A clock that strikes inside apue_alarm ends this: alarm(0) is then 0,   *)
(* and the time since the clock was set is not counted (10/23:42-52).      *)
SetIsSchedule ==
  /\ sigalrm \in BOOLEAN /\ place \in {"main", "blocked", "wait", "sigsuspend", "done"}
  /\ alarm \in 0..PerSecond * MaxSeconds
  /\ ~struck =>
       /\ alarm_set \subseteq Timer
       /\ called \subseteq asked
       /\ alarm > 0 <=> alarm_set # {} /\ ~sigalrm
       /\ alarm_set # {} =>
            {<<now - drift + alarm + PerSecond * (t[1] - begin(alarm_set)[1]), t[2]>>
               : t \in alarm_set} = asked \ called
       /\ LET most == (PerSecond - 1) * Cardinality(asked)
          IN -most <= 2 * drift /\ drift <= most

(* A wait for the timers ends, and by then all have been called.           *)
WaitReturns == (place = "wait" /\ ~struck) ~> (place = "done" /\ called = asked)
=============================================================================
