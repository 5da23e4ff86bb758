------------------------- MODULE TimeWindowsProofs -------------------------
(***************************************************************************)
(* The scheduler and the agent read a time window the same way, for every   *)
(* length of the day.                                                       *)
(***************************************************************************)
EXTENDS TimeWindows, TLAPS

\* A day has at least one minute.
LEMMA DayIsPositive == Day \in Nat /\ Day > 0
BY DayAssumption DEF Day

\* The first minute of an hour of the day is a minute of the day.
LEMMA HourInDay ==
  ASSUME NEW hour \in Hours PROVE hour * MinutesPerHour \in Minutes
<1> DEFINE M == MinutesPerHour
           H == HoursPerDay
<1>1. H \in Nat /\ M \in Nat /\ M > 0 /\ hour \in Nat /\ hour <= H - 1
  BY DayAssumption DEF Hours
<1>2. hour * M \in Nat /\ hour * M <= (H - 1) * M /\ (H - 1) * M = H * M - M
  BY <1>1
<1> QED
  BY <1>1, <1>2 DEF Minutes, Day

\* Minute m is covered by the intervals of window w.
Covers(w, m) == \E i \in timeWindowIntervals(w) : i.start <= m /\ m < i.end

\* timeWindowIntervals of the scheduler policy and minuteInWindow of the agent
\* agree on every minute of the day, overnight and whole-day windows included.
THEOREM IntervalsAreWindow ==
  ASSUME NEW w \in Window, NEW m \in Minutes
  PROVE  Covers(w, m) <=> minuteInWindow(m, w.start, w.end)
<1>1. /\ w.start \in Nat /\ w.start < Day
      /\ w.end \in Nat /\ w.end < Day
      /\ m \in Nat /\ m < Day
  BY DayIsPositive DEF Window, Minutes
<1>2. CASE w.start = w.end
  <2>1. timeWindowIntervals(w) = {[start |-> 0, end |-> Day]}
    BY <1>2 DEF timeWindowIntervals
  <2>2. Covers(w, m) <=> 0 <= m /\ m < Day
    BY <2>1 DEF Covers
  <2> QED
    BY <1>1, <1>2, <2>2 DEF minuteInWindow
<1>3. CASE w.start < w.end
  <2>1. timeWindowIntervals(w) = {[start |-> w.start, end |-> w.end]}
    BY <1>1, <1>3 DEF timeWindowIntervals
  <2>2. Covers(w, m) <=> w.start <= m /\ m < w.end
    BY <2>1 DEF Covers
  <2> QED
    BY <1>1, <1>3, <2>2 DEF minuteInWindow
<1>4. CASE w.start > w.end
  <2>1. timeWindowIntervals(w)
          = {[start |-> w.start, end |-> Day], [start |-> 0, end |-> w.end]}
    BY <1>1, <1>4 DEF timeWindowIntervals
  <2>2. Covers(w, m) <=> \/ w.start <= m /\ m < Day
                         \/ 0 <= m /\ m < w.end
    BY <2>1 DEF Covers
  <2> QED
    BY <1>1, <1>4, <2>2 DEF minuteInWindow
<1> QED
  BY <1>1, <1>2, <1>3, <1>4

\* Hence the hours the scheduler adds a workload's max budget to in its
\* envelope check are the hours the agent puts it in the forecast.
THEOREM SameHours ==
  ASSUME NEW windows \in SUBSET Window, NEW hour \in Hours
  PROVE  hourInTimeWindows(windows, hour) <=> hourInForecastWindows(windows, hour)
<1>1. hour * MinutesPerHour \in Minutes
  BY HourInDay
<1>2. \A w \in windows :
        Covers(w, hour * MinutesPerHour)
          <=> minuteInWindow(hour * MinutesPerHour, w.start, w.end)
  BY <1>1, IntervalsAreWindow
<1> QED
  BY <1>2 DEF Covers, hourInTimeWindows, hourInForecastWindows

\* An interval of timeWindowIntervals is not empty unless it ends at the
\* midnight it starts from.
LEMMA IntervalBounds ==
  ASSUME NEW w \in Window, NEW i \in timeWindowIntervals(w)
  PROVE  /\ i.start \in Nat /\ i.end \in Nat
         /\ i.end <= Day
<1>1. w.start \in Nat /\ w.end \in Nat /\ w.start < Day /\ w.end < Day
  BY DayIsPositive DEF Window, Minutes
<1> QED
  BY <1>1, DayIsPositive DEF timeWindowIntervals

\* timeWindowsOverlap finds an overlap exactly when some minute of the day is
\* in a window of either list: no overlap across midnight is missed.
THEOREM OverlapIsCommonMinute ==
  ASSUME NEW left \in SUBSET Window, NEW right \in SUBSET Window
  PROVE  timeWindowsOverlap(left, right)
           <=> \E m \in Minutes : /\ \E l \in left : minuteInWindow(m, l.start, l.end)
                                  /\ \E r \in right : minuteInWindow(m, r.start, r.end)
<1> DEFINE Common == \E m \in Minutes : \E l \in left, r \in right :
                       Covers(l, m) /\ Covers(r, m)
<1>1. ASSUME NEW l \in left, NEW r \in right,
             NEW i \in timeWindowIntervals(l), NEW j \in timeWindowIntervals(r),
             i.start < j.end, j.start < i.end,
             i.start < i.end, j.start < j.end
      PROVE  Common
  <2> DEFINE m == IF i.start < j.start THEN j.start ELSE i.start
  <2>1. /\ i.start \in Nat /\ i.end \in Nat /\ i.end <= Day
        /\ j.start \in Nat /\ j.end \in Nat /\ j.end <= Day
    BY IntervalBounds
  <2>2. i.start <= m /\ m < i.end /\ j.start <= m /\ m < j.end
    BY <1>1, <2>1
  <2>3. m \in Minutes
    BY <1>1, <2>1, <2>2, DayIsPositive DEF Minutes
  <2>4. Covers(l, m) /\ Covers(r, m)
    BY <2>2 DEF Covers
  <2> QED
    BY <2>3, <2>4
<1>2. ASSUME NEW l \in left, NEW i \in timeWindowIntervals(l), ~(i.start < i.end)
      PROVE  i.start = 0 /\ i.end = 0
  <2>1. l.start \in Nat /\ l.end \in Nat /\ l.start < Day
    BY DayIsPositive DEF Window, Minutes
  <2> QED
    BY <1>2, <2>1, DayIsPositive DEF timeWindowIntervals
<1>3. ASSUME NEW r \in right, NEW j \in timeWindowIntervals(r), ~(j.start < j.end)
      PROVE  j.start = 0 /\ j.end = 0
  <2>1. r.start \in Nat /\ r.end \in Nat /\ r.start < Day
    BY DayIsPositive DEF Window, Minutes
  <2> QED
    BY <1>3, <2>1, DayIsPositive DEF timeWindowIntervals
<1>4. ASSUME timeWindowsOverlap(left, right) PROVE Common
  <2>1. PICK l \in left, r \in right :
          intervalsOverlap(timeWindowIntervals(l), timeWindowIntervals(r))
    BY <1>4 DEF timeWindowsOverlap
  <2>2. PICK i \in timeWindowIntervals(l), j \in timeWindowIntervals(r) :
          i.start < j.end /\ j.start < i.end
    BY <2>1 DEF intervalsOverlap
  <2>3. i.start \in Nat /\ i.end \in Nat /\ j.start \in Nat /\ j.end \in Nat
    BY IntervalBounds
  <2>4. i.start < i.end /\ j.start < j.end
    BY <1>2, <1>3, <2>2, <2>3
  <2> QED
    BY <1>1, <2>2, <2>4
<1>5. ASSUME Common PROVE timeWindowsOverlap(left, right)
  <2>1. PICK m \in Minutes, l \in left, r \in right : Covers(l, m) /\ Covers(r, m)
    BY <1>5
  <2>2. PICK i \in timeWindowIntervals(l) : i.start <= m /\ m < i.end
    BY <2>1 DEF Covers
  <2>3. PICK j \in timeWindowIntervals(r) : j.start <= m /\ m < j.end
    BY <2>1 DEF Covers
  <2>4. /\ i.start \in Nat /\ i.end \in Nat
        /\ j.start \in Nat /\ j.end \in Nat /\ m \in Nat
    BY IntervalBounds, DayIsPositive DEF Minutes
  <2>5. i.start < j.end /\ j.start < i.end
    BY <2>2, <2>3, <2>4
  <2> QED
    BY <2>5 DEF timeWindowsOverlap, intervalsOverlap
<1>6. Common <=> \E m \in Minutes : /\ \E l \in left : minuteInWindow(m, l.start, l.end)
                                    /\ \E r \in right : minuteInWindow(m, r.start, r.end)
  BY IntervalsAreWindow
<1> QED
  BY <1>4, <1>5, <1>6

\* A window whose two ends are full hours.
Aligned(w) == w.start % MinutesPerHour = 0 /\ w.end % MinutesPerHour = 0

\* One sample per hour is enough for windows that start and end on the hour:
\* a minute of an hour is in the window exactly when the hour's first one is.
THEOREM AlignedSampling ==
  ASSUME NEW w \in Window, Aligned(w),
         NEW hour \in Hours, NEW past \in 0..(MinutesPerHour - 1)
  PROVE  minuteInWindow(hour * MinutesPerHour + past, w.start, w.end)
           <=> minuteInWindow(hour * MinutesPerHour, w.start, w.end)
<1> DEFINE M == MinutesPerHour
<1>1. M \in Nat /\ M > 0 /\ hour \in Nat /\ past \in Nat /\ past < M
  BY DayAssumption DEF Hours
<1>2. w.start \in Nat /\ w.end \in Nat
  BY DayIsPositive DEF Window, Minutes
<1>3. ASSUME NEW t \in Nat, t % M = 0
      PROVE  t <= hour * M + past <=> t <= hour * M
  <2>1. t = M * (t \div M) /\ t \div M \in Nat
    BY <1>1, <1>3
  <2> DEFINE k == t \div M
  <2>2. CASE k <= hour
    BY <1>1, <2>1, <2>2
  <2>3. CASE k >= hour + 1
    <3>1. M * k >= M * (hour + 1)
      BY <1>1, <2>1, <2>3
    <3>2. M * (hour + 1) = hour * M + M
      BY <1>1
    <3> QED
      BY <1>1, <2>1, <3>1, <3>2
  <2> QED
    BY <1>1, <2>1, <2>2, <2>3
<1>4. /\ w.start <= hour * M + past <=> w.start <= hour * M
      /\ w.end <= hour * M + past <=> w.end <= hour * M
  BY <1>2, <1>3 DEF Aligned
<1>5. hour * M \in Nat /\ hour * M + past \in Nat
  BY <1>1
<1> QED
  BY <1>2, <1>4, <1>5 DEF minuteInWindow

=============================================================================
