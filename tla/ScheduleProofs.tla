--------------------------- MODULE ScheduleProofs ---------------------------
(***************************************************************************)
(* No schedule is missed (NoMissedSchedule), for any table and any number  *)
(* of slots, whatever the light thread, the editors, crashes and the       *)
(* device do, if a minute holds the longest cycle: the minutes they spoil  *)
(* are those the property leaves out (grace).  It takes a day of more than *)
(* one minute: otherwise the time of a slot that has fired never passes,   *)
(* and nothing arms it again.                                              *)
(***************************************************************************)
EXTENDS SprinklerProofs

MinuteHoldsCycle ==
  /\ TicksPerMinute >= 6
  /\ \A v \in ConfigValues \cup {DefaultRunningTime} : v + 6 <= TicksPerMinute

(* What the thread has to do for a slot in this minute: nothing is left      *)
(* (Good), or it has not been looked at, and a mark is no older (Open).  In  *)
(* a minute of grace it can have been marked without firing.                 *)
Filled    == {i \in Slots : schedules[i] # NULL}
Marked(i) == schedules[i].is_run = 1
Due(i)    == At(schedules[i], now)
Good(i)   == (Marked(i) <=> Due(i)) /\ (grace = 0 /\ Due(i) => i \in served)
Open(i)   == grace = 0 /\ Marked(i) /\ Due(i) => i \in served
Done      == \A i \in Filled : Good(i)

(* The iterations there can have been in a minute without a whole scan, at   *)
(* each point of the cycle; one more has been counted after the sleep.       *)
Slept(n) == IF pc = "sleep" THEN n - 1 ELSE n
Budget ==
  CASE state = "SCHEDULED"  -> Slept(1)
    [] state = "START"      -> Slept(2)
    [] state = "RUNNING"    -> Slept(t + 3)
    [] state = "END"        -> Slept(TicksPerMinute - 2)
    [] state = "SCHEDULING" -> Slept(TicksPerMinute - 1)
    [] OTHER -> 0

Started == pc \notin {"down", "init"} => state # "INIT"

(* Between scans: this minute's is over, or it is still in time.  (Nothing   *)
(* is said of the minute of a disturbance.)                                  *)
Between ==
  pc \notin ScanPCs \cup {"down", "init"} /\ grace < 2 =>
    Done \/ (ticks <= Budget /\ \A i \in Filled : Open(i))

(* During a scan of this minute.                                             *)
InScan ==
  pc \in ScanPCs /\ timer = now /\ grace < 2 =>
    /\ clean
    /\ \/ Done
       \/ /\ ticks < TicksPerMinute
          /\ \A i \in Filled : IF i < slot THEN Good(i) ELSE Open(i)

(* A scan that the end of the minute has overtaken is one that had nothing   *)
(* left to do, if it was undisturbed.                                        *)
Overtaken ==
  pc \in ScanPCs /\ timer # now =>
    /\ ticks = 0
    /\ grace = 0 => /\ clean
                    /\ \A i \in Filled : Marked(i) <=> At(schedules[i], timer)

PunctualInv == Started /\ Between /\ InScan /\ Overtaken

-----------------------------------------------------------------------------
(* The next minute is another time of the day.                              *)
LEMMA MinutePasses ==
  ASSUME HOURS > 1 \/ MINS > 1, NEW time \in Times
  PROVE  NextMinute(time) # time
<1> USE ConstantsAssumption DEF Times, NextMinute
<1>1. time.min \in 0 .. MINS - 1 /\ time.hour \in 0 .. HOURS - 1
  OBVIOUS
<1>2. CASE time.min < MINS - 1
  <2>1. NextMinute(time).min = time.min + 1
    BY <1>2
  <2> QED BY <1>1, <2>1
<1>3. CASE ~(time.min < MINS - 1)
  <2>1. /\ NextMinute(time).min = 0
        /\ NextMinute(time).hour = IF time.hour < HOURS - 1 THEN time.hour + 1 ELSE 0
    BY <1>3
  <2>2. CASE MINS > 1
    BY <1>1, <1>3, <2>1, <2>2
  <2>3. CASE HOURS > 1
    BY <1>1, <2>1, <2>3
  <2> QED BY <2>2, <2>3
<1> QED BY <1>2, <1>3

(* Two times of the day that have hour and minute in common are one.        *)
LEMMA SameTime ==
  ASSUME NEW s, NEW a \in Times, NEW b \in Times, At(s, a), At(s, b)
  PROVE  a = b
<1>1. \A x \in Times : x = [hour |-> x.hour, min |-> x.min]
  BY DEF Times
<1>2. a.hour = b.hour /\ a.min = b.min
  BY DEF At
<1> QED BY <1>1, <1>2

(* The slots look the same when the table, the minute and what has fired in *)
(* it do.                                                                   *)
LEMMA SlotsKept ==
  UNCHANGED <<schedules, now, served, grace>> =>
    /\ Filled' = Filled /\ Done' = Done
    /\ \A i \in Slots : /\ Marked(i)' = Marked(i) /\ Good(i)' = Good(i)
                        /\ Open(i)' = Open(i)
BY DEF Filled, Done, Marked, Good, Open, Due, At

(* Time is not up before this minute's scan: the cycle fits.                *)
LEMMA BudgetFits ==
  ASSUME TypeOK, CycleTimer, MinuteHoldsCycle
  PROVE  /\ t + 6 <= TicksPerMinute /\ Budget \in Int
         /\ state # "INIT" => Budget < TicksPerMinute
<1>1. t \in Nat /\ TicksPerMinute \in Nat /\ state \in States
  BY ConstantsAssumption DEF TypeOK
<1>2. t + 6 <= TicksPerMinute
  <2>1. CASE t = 0
    BY <2>1, <1>1 DEF MinuteHoldsCycle
  <2>2. CASE t # 0
    <3>1. PICK v \in ConfigValues \cup {DefaultRunningTime} : t <= v
      BY <2>2 DEF CycleTimer
    <3>2. v \in Int /\ v + 6 <= TicksPerMinute
      BY ConstantsAssumption DEF MinuteHoldsCycle
    <3> QED BY <1>1, <3>1, <3>2
  <2> QED BY <2>1, <2>2
<1> QED BY <1>1, <1>2 DEF Budget, Slept, States, MinuteHoldsCycle

-----------------------------------------------------------------------------
(* The assumptions, and what is known of the thread already.                *)
Punctual == MinuteHoldsCycle /\ (HOURS > 1 \/ MINS > 1)

Known == TypeOK /\ HoldsCopy /\ OwnTime /\ FlagsInv /\ PcState /\ CycleTimer

LEMMA KnownInvariance == Spec => []Known
<1>1. Init => HoldsCopy /\ FlagsInv
  BY DEF Init, HoldsCopy, FlagsInv, Comparing, AtSlot, ScanPCs, ReadPCs
<1> QED BY <1>1, Typing, CycleTimerBound, PcStateInit, PcStateStep,
           HoldsCopyStep, OwnTimeInit, OwnTimeStep, FlagsInvStep, PTL
        DEF Spec, Known

(* A minute ends only when nothing is left to do in it.                     *)
LEMMA MinuteIsOver ==
  ASSUME Punctual, Known, PunctualInv, ClockTick, pc \notin {"down", "init"}
  PROVE  /\ pc \in ScanPCs => timer = now
         /\ grace < 2 => Done /\ (pc \in ScanPCs => clean)
<1> USE DEF Known, PunctualInv
<1>1. /\ ticks >= TicksPerMinute /\ ticks \in Int /\ TicksPerMinute \in Nat
      /\ TicksPerMinute >= 6
  BY ConstantsAssumption DEF ClockTick, TypeOK, Punctual, MinuteHoldsCycle
<1>2. state # "INIT" => Budget \in Int /\ Budget < TicksPerMinute
  BY BudgetFits DEF Punctual
<1>3. pc \in ScanPCs => timer = now
  BY <1>1 DEF Overtaken
<1>4. CASE pc \in ScanPCs
  BY <1>1, <1>3, <1>4 DEF InScan
<1>5. CASE pc \notin ScanPCs
  BY <1>1, <1>2, <1>5 DEF Started, Between
<1> QED BY <1>1, <1>3, <1>4, <1>5

(* The end of a minute: its scan is over, or it would still be the minute.  *)
LEMMA ClockTickStep ==
  ASSUME Punctual, Known, PunctualInv, ClockTick PROVE PunctualInv'
<1> USE DEF Known, PunctualInv
<1>1. /\ now' = NextMinute(now) /\ now' # now /\ now' \in Times /\ now \in Times
      /\ ticks' = 0 /\ UNCHANGED <<pc, state, schedules, slot, timer, t>>
  BY MinutePasses, NextMinuteType
     DEF Punctual, TypeOK, ClockTick, scanVars, waterVars
<1>2. clean' <=> clean
  BY DEF ClockTick, tmVars
<1>3. grace' = 0 => grace < 2
  BY DEF ClockTick, TypeOK
<1>4. Started'
  BY <1>1 DEF Started
<1>5. CASE pc \in {"down", "init"}
  BY <1>1, <1>4, <1>5 DEF Between, InScan, Overtaken, ScanPCs, ReadPCs
<1>6. CASE pc \notin {"down", "init"}
  <2>1. pc \in ScanPCs => timer = now
    BY <1>6, MinuteIsOver
  <2>2. grace' = 0 => Done /\ (pc \in ScanPCs => clean)
    BY <1>3, <1>6, MinuteIsOver
  <2>3. grace' = 0 => \A i \in Filled : Marked(i) <=> At(schedules[i], now)
    BY <2>2 DEF Done, Good, Due
  <2>4. Filled' = Filled /\ \A i \in Filled : Marked(i)' <=> Marked(i)
    BY <1>1 DEF Filled, Marked
  <2>5. InScan'
    BY <1>1, <2>1 DEF InScan
  <2>6. Overtaken'
    BY <1>1, <1>2, <2>1, <2>2, <2>3, <2>4 DEF Overtaken
  <2>7. \A i \in Filled : Open(i)'
    BY <1>1, <2>3, <2>4, SameTime DEF Open, Due
  <2>8. state # "INIT" => ticks' <= Budget'
    <3>1. t + 6 <= TicksPerMinute /\ t \in Nat /\ TicksPerMinute \in Nat
      BY BudgetFits, ConstantsAssumption DEF Punctual, TypeOK
    <3> QED BY <1>1, <3>1 DEF Budget, Slept, TypeOK, States
  <2>9. Between'
    BY <1>1, <1>6, <2>4, <2>7, <2>8 DEF Started, Between
  <2> QED BY <1>4, <2>5, <2>6, <2>9
<1> QED BY <1>5, <1>6

(* Steps of the thread that touch neither the table nor the minute: a part  *)
(* of the cycle, each within its budget.                                    *)
LEMMA CycleStep ==
  ASSUME Punctual, Known, PunctualInv,
         \/ Scheduled \/ PubStart \/ PubRunning \/ MotorOn
         \/ Running \/ MotorOff \/ PubEnd
  PROVE  PunctualInv'
<1> USE DEF Known, PunctualInv
<1>1. /\ UNCHANGED <<schedules, now, served, ticks, grace>>
      /\ pc \notin ScanPCs \cup {"down", "init"}
      /\ pc' \notin ScanPCs \cup {"down", "init"}
  BY DEF Scheduled, PubStart, PubRunning, MotorOn, Running, MotorOff, PubEnd,
     clockVars, ScanPCs, ReadPCs
<1>2. state' # "INIT"
  BY DEF Scheduled, PubStart, PubRunning, MotorOn, Running, MotorOff, PubEnd,
     Started, PcState
<1>3. ticks <= Budget => ticks <= Budget'
  <2>1. t + 6 <= TicksPerMinute /\ TicksPerMinute \in Nat /\ t \in Nat /\ ticks \in Int
    BY BudgetFits, ConstantsAssumption DEF Punctual, TypeOK
  <2>2. CASE Scheduled \/ PubStart \/ PubRunning
    BY <2>1, <2>2 DEF Scheduled, PubStart, PubRunning, Budget, Slept, PcState, waterVars
  <2>3. CASE MotorOn
    <3>1. t = 0 /\ state = "START" /\ pc # "sleep"
      BY <2>3 DEF MotorOn, PcState, CycleTimer
    <3> QED BY <2>1, <2>3, <3>1 DEF MotorOn, Budget, Slept, waterVars
  <2>4. CASE Running
    BY <2>1, <2>4 DEF Running, Budget, Slept
  <2>5. CASE MotorOff \/ PubEnd
    BY <2>1, <2>5 DEF MotorOff, PubEnd, Budget, Slept, PcState, waterVars
  <2> QED BY <2>2, <2>3, <2>4, <2>5
<1>4. Between'
  BY <1>1, <1>3, SlotsKept DEF Between, Filled
<1> QED BY <1>1, <1>2, <1>4 DEF Started, InScan, Overtaken

(* sleepu(100000): one iteration more.                                      *)
LEMMA SleepStep == ASSUME Punctual, Known, PunctualInv, Sleep PROVE PunctualInv'
<1> USE DEF Known, PunctualInv
<1>1. /\ UNCHANGED <<schedules, now, served, grace, state, t>>
      /\ pc = "sleep" /\ pc' = "state" /\ ticks' <= ticks + 1
      /\ ticks \in Int /\ ticks' \in Int
  BY ConstantsAssumption DEF Sleep, TypeOK, waterVars
<1>2. Budget \in Int /\ (state # "INIT" => Budget' = Budget + 1)
  <2>1. t \in Nat /\ TicksPerMinute \in Nat /\ state \in States
    BY ConstantsAssumption DEF TypeOK
  <2> QED BY <1>1, <2>1 DEF Budget, Slept, States
<1>3. Between'
  BY <1>1, <1>2, SlotsKept DEF Started, Between, ScanPCs, ReadPCs, Filled
<1> QED BY <1>1, <1>3 DEF Started, InScan, Overtaken, ScanPCs, ReadPCs

(* What disturbs a scan or the table gives the minute, and the next, grace. *)
LEMMA DisturbStep ==
  ASSUME PunctualInv, grace' = 2, UNCHANGED <<now, ticks, pc, state, timer>>
  PROVE  PunctualInv'
BY DEF PunctualInv, Started, Between, InScan, Overtaken

(* A daemon that dies, or is not in its loop yet, has nothing to do.        *)
LEMMA OutsideStep ==
  ASSUME pc' \in {"down", "init"} PROVE PunctualInv'
BY DEF PunctualInv, Started, Between, InScan, Overtaken, ScanPCs, ReadPCs

-----------------------------------------------------------------------------
(* A scan begins in time, or with nothing left to do.                       *)
LEMMA SchedulingStep ==
  ASSUME Punctual, Known, PunctualInv, Scheduling PROVE PunctualInv'
<1> USE DEF Known, PunctualInv
<1>1. /\ UNCHANGED <<schedules, now, served, ticks, grace, state>>
      /\ pc = "state" /\ state = "SCHEDULING" /\ pc' = "slot"
      /\ slot' = 0 /\ timer' = now
  BY DEF Scheduling, clockVars
<1>2. clean'
  BY DEF Scheduling
<1>3. grace < 2 => Done \/ (ticks < TicksPerMinute /\ \A i \in Filled : Open(i))
  <2>1. Budget < TicksPerMinute /\ Budget \in Int
    BY <1>1, BudgetFits DEF Punctual
  <2>2. ticks \in Int /\ TicksPerMinute \in Int
    BY ConstantsAssumption DEF TypeOK
  <2> QED BY <1>1, <2>1, <2>2 DEF Between, ScanPCs, ReadPCs
<1>4. InScan'
  <2>1. \A i \in Filled : ~(i < 0)
    BY ConstantsAssumption DEF Filled, Slots
  <2> QED BY <1>1, <1>2, <1>3, <2>1, SlotsKept DEF InScan, Filled
<1> QED BY <1>1, <1>4 DEF Started, Between, Overtaken, ScanPCs, ReadPCs

(* What an undisturbed scan does with a slot depends on its time and mark.  *)
LEMMA SlotLooked ==
  ASSUME Known, Fire \/ Rearm \/ Skip, clean
  PROVE  /\ slot \in Filled
         /\ Fire  => At(schedules[slot], timer) /\ ~Marked(slot)
         /\ Rearm => ~At(schedules[slot], timer) /\ Marked(slot)
         /\ Skip  => (Marked(slot) <=> At(schedules[slot], timer))
<1> USE DEF Known
<1>1. /\ pc \in Comparing /\ pc \in AtSlot /\ pc \in ScanPCs
      /\ pc \in {"dueMin", "elseHour", "elseMin"}
  BY DEF Fire, Rearm, Skip, IsDue, IsPast, Comparing, AtSlot, ScanPCs, ReadPCs
<1>2. /\ slot \in Slots /\ schedules[slot] = cur /\ cur \in Schedule
      /\ sources = {timer}
  BY <1>1 DEF HoldsCopy, OwnTime, FlagsInv
<1>3. /\ tm = timer /\ cur.is_run \in {0, 1} /\ slot \in Filled
      /\ pc \in {"dueMin", "elseMin"} => cur.hour = timer.hour
      /\ pc \in {"elseHour", "elseMin"} => ~(At(cur, timer) /\ cur.is_run = 0)
  BY <1>1, <1>2, NullAssumption DEF OwnTime, Schedule, Filled
<1>4. Fire => At(cur, timer) /\ cur.is_run = 0
  BY <1>3 DEF Fire, IsDue, At
<1>5. Rearm => ~At(cur, timer) /\ cur.is_run = 1
  BY <1>3 DEF Rearm, IsPast, At
<1>6. Skip => (cur.is_run = 1 <=> At(cur, timer))
  BY <1>3 DEF Skip, IsPast, At
<1> QED BY <1>2, <1>3, <1>4, <1>5, <1>6 DEF Marked

(* A slot is looked at: nothing is left to do for it, or it was not due.    *)
LEMMA SlotStep ==
  ASSUME Punctual, Known, PunctualInv, Fire \/ Rearm \/ Skip PROVE PunctualInv'
<1> USE DEF Known, PunctualInv
<1>1. /\ pc \in ScanPCs /\ slot \in Slots /\ slot \in Nat
      /\ pc' = "slot" /\ slot' = slot + 1
      /\ UNCHANGED <<now, ticks, grace, timer>> /\ served \subseteq served'
  BY DEF Fire, Rearm, Skip, IsDue, IsPast, NextSlot, HoldsCopy, clockVars,
     Comparing, AtSlot, ScanPCs, ReadPCs, Slots
<1>2. clean' <=> clean
  BY DEF Fire, Rearm, Skip, tmVars
<1>3. Started' /\ Between'
  BY <1>1 DEF Started, Between, ScanPCs, ReadPCs, Fire, Rearm, Skip, PcState
<1>4. CASE ~clean
  BY <1>1, <1>2, <1>3, <1>4 DEF InScan, Overtaken
<1>5. CASE clean
  <2>1. /\ slot \in Filled /\ schedules[slot] \in Schedule
        /\ Fire  => At(schedules[slot], timer) /\ ~Marked(slot)
        /\ Rearm => ~At(schedules[slot], timer) /\ Marked(slot)
        /\ Skip  => (Marked(slot) <=> At(schedules[slot], timer))
    BY <1>5, SlotLooked DEF TypeOK, Filled
  <2>2. /\ \A j \in Slots \ {slot} : schedules'[j] = schedules[j]
        /\ schedules'[slot] # NULL
        /\ \A time : At(schedules'[slot], time) <=> At(schedules[slot], time)
        /\ schedules'[slot].is_run = 1 <=> At(schedules[slot], timer)
    <3>1. CASE Fire
      <4>1. schedules' = [schedules EXCEPT ![slot].is_run = 1]
        BY <3>1 DEF Fire
      <4> QED BY <1>1, <2>1, <3>1, <4>1, StoreFlag, NullAssumption DEF At, Filled
    <3>2. CASE Rearm
      <4>1. schedules' = [schedules EXCEPT ![slot].is_run = 0]
        BY <3>2 DEF Rearm
      <4> QED BY <1>1, <2>1, <3>2, <4>1, StoreFlag, NullAssumption DEF At, Filled
    <3>3. CASE Skip
      BY <2>1, <3>3 DEF Skip, Marked, Filled
    <3> QED BY <3>1, <3>2, <3>3
  <2>3. Filled' = Filled
    BY <2>1, <2>2 DEF Filled
  <2>4. \A j \in Filled \ {slot} :
          /\ Good(j) => Good(j)'
          /\ Open(j) => Open(j)'
          /\ Marked(j)' = Marked(j)
    BY <1>1, <2>2 DEF Filled, Good, Open, Marked, Due
  <2>5. CASE timer = now /\ grace < 2
    <3>5. PICK s \in Filled : s = slot
      BY <2>1
    <3>1. Open(s) => Good(s)'
      <4>1. CASE Fire
        BY <1>1, <2>1, <2>2, <2>5, <3>5, <4>1 DEF Fire, Good, Marked, Due
      <4>2. CASE Rearm \/ Skip
        BY <1>1, <2>1, <2>2, <2>5, <3>5, <4>2 DEF Good, Open, Marked, Due
      <4> QED BY <4>1, <4>2
    <3>2. Good(s) => Open(s)
      BY DEF Good, Open
    <3>3. CASE Done
      <4>1. \A j \in Filled : Good(j)'
        BY <2>4, <3>1, <3>2, <3>3, <3>5 DEF Done
      <4> QED BY <1>1, <1>2, <1>3, <1>5, <2>3, <2>5, <4>1 DEF Done, InScan, Overtaken
    <3>4. CASE ~Done
      <4>1. \A j \in Filled : j < slot + 1 <=> j < slot \/ j = slot
        BY <1>1 DEF Filled, Slots
      <4>2. /\ ticks < TicksPerMinute
            /\ \A j \in Filled : IF j < slot THEN Good(j) ELSE Open(j)
        BY <1>1, <2>5, <3>4 DEF InScan
      <4>3. ~(s < slot)
        BY <1>1, <3>5
      <4>4. Good(s)'
        BY <3>1, <4>2, <4>3
      <4>5. \A j \in Filled : IF j < slot + 1 THEN Good(j)' ELSE Open(j)'
        BY <2>4, <3>5, <4>1, <4>2, <4>4
      <4> QED BY <1>1, <1>2, <1>3, <1>5, <2>3, <2>5, <4>2, <4>5 DEF InScan, Overtaken
    <3> QED BY <3>3, <3>4
  <2>6. CASE timer = now /\ ~(grace < 2)
    BY <1>1, <1>3, <2>6 DEF InScan, Overtaken
  <2>7. CASE timer # now
    <3>3. PICK s \in Filled : s = slot
      BY <2>1
    <3>1. grace = 0 => Marked(s)' = Marked(s)
      BY <1>1, <2>1, <2>2, <2>7, <3>3 DEF Overtaken, Marked
    <3>2. \A j \in Filled : At(schedules[j], timer)' <=> At(schedules[j], timer)
      BY <1>1, <2>2 DEF Filled, At
    <3> QED BY <1>1, <1>2, <1>3, <2>3, <2>4, <2>7, <3>1, <3>2, <3>3
            DEF InScan, Overtaken
  <2> QED BY <2>5, <2>6, <2>7
<1> QED BY <1>4, <1>5

(* The other steps of a scan, which store nothing.                          *)
LEMMA LookStep ==
  ASSUME Punctual, Known, PunctualInv, LoadSlot \/ LoadField \/ Compare
  PROVE  PunctualInv'
<1> USE DEF Known, PunctualInv
<1>1. /\ UNCHANGED <<schedules, now, served, ticks, grace, timer, state>>
      /\ pc \in ScanPCs /\ pc' \in ScanPCs /\ slot \in Nat
  BY ConstantsAssumption
     DEF LoadSlot, LoadField, Compare, clockVars, scanVars, ScanPCs, ReadPCs, TypeOK
<1>2. slot' = slot \/ (slot' = slot + 1 /\ slot \notin Filled)
  BY DEF LoadSlot, LoadField, Compare, scanVars, Filled
<1>3. \A j \in Filled : j < slot' <=> j < slot
  BY <1>1, <1>2 DEF Filled, Slots
<1>4. clean' <=> clean
  BY DEF LoadSlot, LoadField, Compare, tmVars
<1>5. InScan'
  <2>1. /\ Filled' = Filled /\ Done' = Done
        /\ \A j \in Filled : Good(j)' = Good(j) /\ Open(j)' = Open(j)
    BY <1>1, SlotsKept DEF Filled
  <2> QED BY <1>1, <1>3, <1>4, <2>1 DEF InScan
<1>6. Overtaken'
  BY <1>1, <1>4, SlotsKept DEF Overtaken, Filled
<1> QED BY <1>1, <1>5, <1>6 DEF Started, Between, ScanPCs, ReadPCs

(* A whole scan has looked at every slot; what is left to do after one that *)
(* was overtaken is there for the next, at once.                            *)
LEMMA ScanDoneStep ==
  ASSUME Punctual, Known, PunctualInv, ScanDone PROVE PunctualInv'
<1> USE DEF Known, PunctualInv
<1>1. /\ UNCHANGED <<schedules, now, served, ticks, grace, state, t>>
      /\ pc = "slot" /\ pc \in ScanPCs /\ pc' = "sleep"
      /\ slot = SCHEDULE_SIZE /\ slot \in Nat
  BY ConstantsAssumption DEF ScanDone, clockVars, waterVars, ScanPCs
<1>2. grace < 2 => Done \/ (ticks <= Budget' /\ \A i \in Filled : Open(i))
  <2>1. CASE timer = now
    <3>1. \A i \in Filled : i < slot
      BY <1>1 DEF Filled, Slots
    <3> QED BY <1>1, <2>1, <3>1 DEF InScan, Done
  <2>2. CASE timer # now
    <3>1. timer \in Times /\ now \in Times
      BY <1>1, NullAssumption DEF OwnTime, TypeOK
    <3>2. \A i \in Filled : Open(i)
      BY <1>1, <2>2, <3>1, SameTime DEF Overtaken, Open, Due
    <3>3. ticks = 0 /\ state \in {"SCHEDULING", "SCHEDULED"} /\ state' = state
      BY <1>1, <2>2 DEF Overtaken, PcState
    <3>4. 0 <= Budget'
      BY <1>1, <3>3, ConstantsAssumption
         DEF Budget, Slept, Punctual, MinuteHoldsCycle
    <3> QED BY <3>2, <3>3, <3>4
  <2> QED BY <2>1, <2>2
<1>3. Between'
  BY <1>1, <1>2, SlotsKept DEF Between, Filled
<1> QED BY <1>1, <1>3 DEF Started, InScan, Overtaken, ScanPCs, ReadPCs

(* The thread enters its loop, at any point of a minute.                    *)
LEMMA SprinklerInitStep ==
  ASSUME SprinklerInit PROVE PunctualInv'
BY DEF PunctualInv, SprinklerInit, Started, Between, InScan, Overtaken, ScanPCs, ReadPCs

(* A store of the light thread is a disturbance, or the scan and the        *)
(* schedules do not notice it.                                              *)
LEMMA LightStoreStep ==
  ASSUME Punctual, Known, PunctualInv, NEW field \in {"hour", "min"},
         LightStore(field)
  PROVE  PunctualInv'
<1>1. UNCHANGED <<now, ticks, pc, state, timer, slot, t, schedules>>
  BY DEF LightStore, scanVars, waterVars
<1>2. CASE Disturbs
  BY <1>1, <1>2, DisturbStep DEF LightStore
<1>3. CASE ~Disturbs
  <2>1. UNCHANGED <<served, grace>>
    BY <1>3 DEF LightStore
  <2>2. clean' <=> clean
    BY <1>3 DEF LightStore
  <2> QED BY <1>1, <2>1, <2>2, SlotsKept
          DEF PunctualInv, Started, Between, InScan, Overtaken, Budget, Slept, Filled
<1> QED BY <1>2, <1>3

(* Steps that the scan and the schedules do not notice.                     *)
LEMMA QuietStep ==
  ASSUME Punctual, Known, PunctualInv,
         LightTime \/ (\E value \in ConfigValues : OnReceiver(value)) \/ UNCHANGED vars
  PROVE  PunctualInv'
<1>1. UNCHANGED <<now, ticks, served, grace, pc, state, timer, slot, t, schedules>>
  BY DEF LightTime, OnReceiver, vars, clockVars, scanVars, waterVars
<1>2. clean' <=> clean
  BY DEF LightTime, OnReceiver, vars, tmVars
<1> QED BY <1>1, <1>2, SlotsKept
        DEF PunctualInv, Started, Between, InScan, Overtaken, Budget, Slept, Filled

LEMMA PunctualInvInit == Init => PunctualInv
BY DEF Init, PunctualInv, Started, Between, InScan, Overtaken, ScanPCs, ReadPCs

LEMMA PunctualInvStep ==
  ASSUME Punctual, Known, PunctualInv, [Next]_vars PROVE PunctualInv'
<1>1. ASSUME NEW i, NEW value, SetSlot(i, value) PROVE PunctualInv'
  BY <1>1, DisturbStep DEF SetSlot, scanVars
<1>2. CASE \/ \E time \in Times : AddSchedule(time)
           \/ \E id \in Slots, time \in Times : EditSchedule(id, time)
           \/ \E id \in Slots : DeleteSchedule(id)
  BY <1>1, <1>2 DEF AddSchedule, EditSchedule, DeleteSchedule
<1>3. CASE Start \/ Crash \/ NullAccess
  BY <1>3, OutsideStep DEF Start, Crash, NullAccess, Die
<1> QED
  BY <1>2, <1>3, ClockTickStep, CycleStep, SleepStep, SchedulingStep, SlotStep,
     LookStep, ScanDoneStep, SprinklerInitStep, LightStoreStep, QuietStep
  DEF Next, Environment, Local, Publish

(* No minute without grace ends with a due schedule that has not fired in   *)
(* it.  This is what NoMissedSchedule says: nothing but ClockTick changes   *)
(* the time.                                                                *)
THEOREM NoScheduleMissed == ASSUME Punctual PROVE Spec => NoMissedSchedule
<1>1. Known /\ PunctualInv /\ [Next]_vars
        => (now' # now /\ pc \notin {"down", "init"} /\ grace = 0 =>
              \A i \in Slots : schedules[i] # NULL /\ At(schedules[i], now)
                                => i \in served)
  <2> SUFFICES ASSUME Known, PunctualInv, [Next]_vars, now' # now,
                      pc \notin {"down", "init"}, grace = 0
               PROVE  Done
    BY DEF Done, Filled, Good, Due
  <2>1. ClockTick
    BY DEF Next, Environment, Local, Publish, LightTime, LightStore, OnReceiver,
           AddSchedule, EditSchedule, DeleteSchedule, SetSlot, Start, Crash, Die,
           Scheduling, ScanDone, LoadSlot, LoadField, Compare, Fire, Rearm, Skip,
           NullAccess, MotorOn, Running, MotorOff, Sleep, SprinklerInit, Scheduled,
           PubStart, PubRunning, PubEnd, vars, clockVars
  <2> QED BY <2>1, MinuteIsOver
<1>2. QED
  BY <1>1, KnownInvariance, PunctualInvInit, PunctualInvStep, PTL
  DEF Spec, NoMissedSchedule
=============================================================================
