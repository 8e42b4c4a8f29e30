---------------------------- MODULE ScheduleHost ----------------------------
(***************************************************************************)
(* The schedule host of a resident node (agent/scheduling.py) behind the   *)
(* routes /api/schedules (server/agent_server.py): registering, pausing    *)
(* and removing schedules, the loop that fires them one after the other,   *)
(* the history of runs, and schedules.json.                                *)
(*                                                                         *)
(* Everything runs on one event loop.  The only suspension inside an       *)
(* operation is the await of the executor in _fire, so a handler that runs *)
(* meanwhile sees the loop between FireBegins and FireEnds, with the rest  *)
(* of the list of due schedules still to come.                             *)
(*                                                                         *)
(* The executor is NodeAgent.execute_task, which answers every task        *)
(* (module NodeAgent); here it is the time between the two steps.          *)
(*                                                                         *)
(* The process is started as the tests of the class start it: load(), then *)
(* start().  (NodeAgent.start awaits the number that load() returns.)      *)
(***************************************************************************)
EXTENDS Integers, Sequences, SequencesExt, FiniteSetsExt

CONSTANTS
    Schedules,  \* schedule ids
    Specs,      \* what may be registered: [id, kind, every, at, weekday, on, valid]
    NoSpec,     \* an id that is not registered
    Day,        \* clock ticks in a day
    Week,       \* days in a week (the code's 7)
    MaxRuns,    \* _MAX_RUNS_PER_SCHEDULE
    Fragile,    \* schedules whose changes may meet a full disk (a bound)
    MaxClock    \* the last tick of the model (a bound)

ASSUME ScheduleAssumption ==
    /\ NoSpec \notin Specs \cup Schedules /\ Fragile \subseteq Schedules
    /\ Day \in Nat \ {0} /\ Week \in Nat \ {0}
    /\ MaxRuns \in Nat \ {0} /\ MaxClock \in Nat
    /\ \A p \in Specs :
          /\ p.id \in Schedules
          /\ p.kind \in {"interval", "daily", "weekly"} /\ p.valid \in BOOLEAN /\ p.on \in BOOLEAN
          /\ p.every \in Nat \ {0} /\ p.at \in 0..(Day - 1)
          /\ p.weekday \in 0..(Week - 1)

VARIABLES
    clock,      \* time.time()
    spec,       \* _schedules, without the enabled flag
    enabled,    \* ScheduleSpec.enabled
    nextRun,    \* _next_run; 0 where the code has none or 0.0
    history,    \* _runs: the sequence numbers of the recorded runs
    seq,        \* _seq
    due,        \* the part of the loop's list that has not been fired yet
    firing,     \* the schedule whose executor is awaited
    fired,      \* what _fire read when it began: the specification and the number
    file,       \* schedules.json: the fields spec, enabled and runs
    unsaved     \* the last save() failed

memory == <<spec, enabled, nextRun, history, seq>>
loop == <<due, firing, fired>>
schedVars == <<clock, memory, loop, file, unsaved>>

Registered == {s \in Schedules : spec[s] # NoSpec}
Resting == firing \notin Schedules

SchedInit ==
    /\ clock = 0
    /\ spec = [s \in Schedules |-> NoSpec]
    /\ enabled = [s \in Schedules |-> FALSE]
    /\ nextRun = [s \in Schedules |-> 0]
    /\ history = [s \in Schedules |-> <<>>]
    /\ seq = [s \in Schedules |-> 0]
    /\ due = {} /\ firing = NoSpec /\ fired = NoSpec
    /\ file = [spec |-> spec, enabled |-> enabled, runs |-> history]
    /\ unsaved = FALSE

-----------------------------------------------------------------------------
(* ScheduleSpec.next_run_at.                                               *)

DayOf(t) == t \div Day

\* Today at the time of the schedule, if that is still to come, whatever the
\* day of the week; else tomorrow, or the next matching day.
AtTime(p, t) ==
    LET base == DayOf(t) * Day + p.at
        ahead == (p.weekday - DayOf(t)) % Week
    IN  IF base > t THEN base
        ELSE IF p.kind = "daily" THEN base + Day
        ELSE base + (IF ahead = 0 THEN Week ELSE ahead) * Day

NextRunAt(p, t) == IF p.kind = "interval" THEN t + p.every ELSE AtTime(p, t)

-----------------------------------------------------------------------------

\* save(): the whole state replaces the file, or the error is only logged.
SaveSchedules(s, sp, en, rn) ==
    \/ /\ file' = [spec |-> sp, enabled |-> en, runs |-> rn]
       /\ unsaved' = FALSE
    \/ /\ s \in Fragile
       /\ UNCHANGED file
       /\ unsaved' = TRUE

\* register: validation comes first; the same id again replaces the
\* specification and keeps its history.
RegisterSchedule(p) ==
    LET s == p.id IN
    /\ p.valid
    /\ spec' = [spec EXCEPT ![s] = p]
    /\ enabled' = [enabled EXCEPT ![s] = p.on]
    /\ nextRun' = [nextRun EXCEPT ![s] = NextRunAt(p, clock)]
    /\ SaveSchedules(s, spec', enabled', history)
    /\ UNCHANGED <<clock, history, seq, loop>>

RemoveSchedule(s) ==
    /\ s \in Registered
    /\ spec' = [spec EXCEPT ![s] = NoSpec]
    /\ enabled' = [enabled EXCEPT ![s] = FALSE]
    /\ nextRun' = [nextRun EXCEPT ![s] = 0]
    /\ history' = [history EXCEPT ![s] = <<>>]
    /\ seq' = [seq EXCEPT ![s] = 0]
    /\ SaveSchedules(s, spec', enabled', history')
    /\ UNCHANGED <<clock, loop>>

SetEnabledUnsaved(s, on) ==
    /\ s \in Registered
    /\ enabled' = [enabled EXCEPT ![s] = on]
    /\ nextRun' = [nextRun EXCEPT ![s] = IF on THEN NextRunAt(spec[s], clock) ELSE 0]
    /\ UNCHANGED <<clock, spec, history, seq, loop, file, unsaved>>
SetEnabled(s, on) ==
    /\ s \in Registered
    /\ enabled' = [enabled EXCEPT ![s] = on]
    /\ nextRun' = [nextRun EXCEPT ![s] = IF on THEN NextRunAt(spec[s], clock) ELSE 0]
    /\ SaveSchedules(s, spec, enabled', history)
    /\ UNCHANGED <<clock, spec, history, seq, loop>>

-----------------------------------------------------------------------------
(* _loop and _fire.                                                        *)

IsDue(s) == s \in Registered /\ enabled[s] /\ nextRun[s] <= clock

\* A tick of the loop that finds something to do.
LoopTick ==
    /\ Resting /\ due = {}
    /\ due' = {s \in Schedules : IsDue(s)}
    /\ due' # {}
    /\ UNCHANGED <<clock, memory, firing, fired, file, unsaved>>

\* The next schedule of the list was removed meanwhile.
FireSkipsNever(s) == FALSE
FireSkips(s) ==
    /\ Resting /\ s \in due /\ s \notin Registered
    /\ due' = due \ {s}
    /\ nextRun' = [nextRun EXCEPT ![s] = 0]
    /\ UNCHANGED <<clock, spec, enabled, history, seq, firing, fired, file, unsaved>>

\* Only the registration is looked at again, not enabled and not nextRun.
FireBegins(s) ==
    /\ Resting /\ s \in due /\ s \in Registered
    /\ due' = due \ {s}
    /\ firing' = s /\ fired' = [spec |-> spec[s], seq |-> seq[s] + 1]
    /\ seq' = [seq EXCEPT ![s] = @ + 1]
    /\ UNCHANGED <<clock, spec, enabled, nextRun, history, file, unsaved>>

\* The run is recorded, under its own number, and the next one is planned
\* with the specification read before the await.
RecordedAll(s) == Append(history[s], fired.seq)
Recorded(s) ==
    LET r == Append(history[s], fired.seq)
    IN  IF Len(r) > MaxRuns THEN Tail(r) ELSE r

PlannedFromLast(s) == nextRun[s] + fired.spec.every
Planned(s) == NextRunAt(fired.spec, clock)

FireEnds ==
    /\ ~Resting
    /\ history' = [history EXCEPT ![firing] = Recorded(firing)]
    /\ nextRun' = [nextRun EXCEPT ![firing] = Planned(firing)]
    /\ firing' = NoSpec /\ fired' = NoSpec
    /\ UNCHANGED <<clock, spec, enabled, seq, due, file, unsaved>>

-----------------------------------------------------------------------------

LastSeq(r) == Max({0} \cup ToSet(r))

\* load() of a new process: what was planned is planned anew from now on.
LoadPlan(f, s) == NextRunAt(f.spec[s], clock)

LoadSchedules(f) ==
    LET kept == {s \in Schedules : f.spec[s] # NoSpec}
    IN  /\ spec' = f.spec /\ enabled' = f.enabled
        /\ nextRun' = [s \in Schedules |-> IF s \in kept THEN LoadPlan(f, s) ELSE 0]
        /\ history' = [s \in Schedules |-> IF s \in kept THEN f.runs[s] ELSE <<>>]
        /\ seq' = [s \in Schedules |-> IF s \in kept THEN LastSeq(f.runs[s]) ELSE 0]
        /\ due' = {} /\ firing' = NoSpec /\ fired' = NoSpec
        /\ unsaved' = FALSE
        /\ UNCHANGED clock

\* The agent crashes, a run that is awaited is lost, and it starts again.
CrashAndLoad == UNCHANGED file /\ LoadSchedules(file)

\* stop(): the loop is cancelled, the state is saved, and it starts again.
StopAndLoad ==
    /\ file' = [spec |-> spec, enabled |-> enabled, runs |-> history]
    /\ LoadSchedules(file')

ClockTick ==
    /\ clock < MaxClock
    /\ clock' = clock + 1
    /\ UNCHANGED <<memory, loop, file, unsaved>>

HostStep == LoopTick \/ FireEnds \/ \E s \in Schedules : FireSkips(s) \/ FireBegins(s)

SchedNext ==
    \/ \E p \in Specs : RegisterSchedule(p)
    \/ \E s \in Schedules : RemoveSchedule(s)
    \/ \E s \in Schedules, on \in BOOLEAN : SetEnabled(s, on)
    \/ HostStep
    \/ CrashAndLoad \/ StopAndLoad \/ ClockTick

SchedSpec == SchedInit /\ [][SchedNext]_schedVars

\* The executor answers every task and the event loop resumes what is ready.
SchedFairness == WF_schedVars(HostStep)

-----------------------------------------------------------------------------
(* What the host promises.                                                 *)

\* Types; no schedule has more runs than there were instants to run it at.
SchedTypeOK ==
    /\ clock \in 0..MaxClock
    /\ spec \in [Schedules -> {p \in Specs : p.valid} \cup {NoSpec}]
    /\ enabled \in [Schedules -> BOOLEAN]
    /\ nextRun \in [Schedules -> Nat]
    /\ history \in [Schedules -> Seq(1..MaxClock)]
    /\ \A s \in Schedules : Len(history[s]) <= MaxRuns
    /\ seq \in [Schedules -> 0..MaxClock]
    /\ due \subseteq Schedules /\ firing \in Schedules \cup {NoSpec}
    /\ unsaved \in BOOLEAN

\* Missed instants are not caught up: whoever plans a schedule, the end of a
\* long run, a user or a restart, plans it for an instant still to come, and
\* no run ends without planning the next one (the comment at the end of _fire
\* and the module's docstring: no storm of repeated runs).
NoCatchUp ==
    [][\A s \in Schedules :
         /\ nextRun'[s] # nextRun[s] \/ (firing = s /\ firing' # s)
         /\ spec'[s] # NoSpec /\ enabled'[s]
         => nextRun'[s] > clock]_schedVars

\* What register, remove and set_enabled have answered survives a crash at
\* any point, also in the middle of a run, unless the disk refused it.
AnsweredIsDurable ==
    ~unsaved => file.spec = spec /\ file.enabled = enabled

\* A schedule whose time has come is run, or is removed, paused or planned
\* anew: neither the runs of the others nor restarts starve it.
DueIsServed == \A s \in Schedules : IsDue(s) ~> ~IsDue(s)
=============================================================================
