---------------------------- MODULE TimeWindows ----------------------------
(***************************************************************************)
(* Daily time windows, as the three parts that read them do: the scheduler *)
(* policy (intervals of minutes), the agent's hourly forecast (one sample  *)
(* per hour) and the agent's local planner (the current minute in the      *)
(* window's own time zone).                                                *)
(*                                                                         *)
(* A window is the pair of minutes its two HH:MM strings parse to; windows *)
(* that do not parse are skipped by every reader and are left out.         *)
(***************************************************************************)
EXTENDS Integers

CONSTANTS HoursPerDay,     \* 24
          MinutesPerHour   \* 60

ASSUME DayAssumption ==
  /\ HoursPerDay \in Nat \ {0}
  /\ MinutesPerHour \in Nat \ {0}

Day == HoursPerDay * MinutesPerHour

Hours == 0..(HoursPerDay - 1)
Minutes == 0..(Day - 1)

\* offset: what the window's time zone is ahead of the node's clock.
Window == [start : Minutes, end : Minutes, offset : Minutes]

-----------------------------------------------------------------------------
(* internal/scheduler/policy *)

\* timeWindowIntervals: half-open intervals that do not cross midnight.
timeWindowIntervals(w) ==
  IF w.start = w.end THEN {[start |-> 0, end |-> Day]}
  ELSE IF w.start < w.end THEN {[start |-> w.start, end |-> w.end]}
  ELSE {[start |-> w.start, end |-> Day], [start |-> 0, end |-> w.end]}

intervalsOverlap(left, right) ==
  \E l \in left, r \in right : l.start < r.end /\ r.start < l.end

timeWindowsOverlap(left, right) ==
  \E l \in left, r \in right : intervalsOverlap(timeWindowIntervals(l), timeWindowIntervals(r))

\* hourInTimeWindows: the first minute of the hour is in an interval.
hourInTimeWindows(windows, hour) ==
  \E w \in windows : \E i \in timeWindowIntervals(w) :
    i.start <= hour * MinutesPerHour /\ hour * MinutesPerHour < i.end

-----------------------------------------------------------------------------
(* internal/agent *)

\* minuteInWindow of the planner, minuteInForecastWindow of the forecast.
minuteInWindow(current, start, end) ==
  IF start = end THEN TRUE
  ELSE IF start < end THEN start <= current /\ current < end
  ELSE start <= current \/ current < end

\* hourInForecastWindows: again the first minute of the hour.
hourInForecastWindows(windows, hour) ==
  \E w \in windows : minuteInWindow(hour * MinutesPerHour, w.start, w.end)

\* activeTimeWindow: the minute of day now has in the window's time zone.
activeTimeWindow(windows, now) ==
  \E w \in windows : minuteInWindow((now + w.offset) % Day, w.start, w.end)

=============================================================================
