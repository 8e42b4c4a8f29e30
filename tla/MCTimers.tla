------------------------------ MODULE MCTimers ------------------------------
(***************************************************************************)
(* What happens in its time, for TLC: the timeouts and retries of the      *)
(* master's tasks and the schedules of a resident node.  The two share no  *)
(* state.  A behaviour moves one of them, chosen at the start; the other   *)
(* stays in its initial state, where none of its fair actions is enabled.  *)
(***************************************************************************)
EXTENDS MCTaskScheduler, ScheduleHost

CONSTANTS s1, s2

\* What may be registered: one schedule by interval, another by the day of the
\* week or, in its place, by a time of day that is refused.
MCSpecs ==
    {[id |-> s1, kind |-> "interval", every |-> 1, at |-> 0, weekday |-> 0,
      on |-> TRUE, valid |-> TRUE],
     [id |-> s2, kind |-> "weekly", every |-> 1, at |-> 1, weekday |-> 1,
      on |-> TRUE, valid |-> TRUE],
     [id |-> s2, kind |-> "daily", every |-> 1, at |-> 0, weekday |-> 1,
      on |-> TRUE, valid |-> FALSE]}

VARIABLE part

timerVars == <<part, vars, schedVars>>

TimersInit == part \in {"tasks", "schedules"} /\ Init /\ SchedInit

TimersNext ==
    /\ UNCHANGED part
    /\ \/ part = "tasks" /\ Next /\ UNCHANGED schedVars
       \/ part = "schedules" /\ SchedNext /\ UNCHANGED vars

TimersSpec == TimersInit /\ [][TimersNext]_timerVars /\ TimerFairness /\ SchedFairness

\* The tables of the master and the schedules are well formed, and what the
\* schedule host has answered is in its file unless the disk refused it.
TimersOK == TypeOK /\ SchedTypeOK /\ AnsweredIsDurable
=============================================================================
