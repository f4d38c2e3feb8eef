--------------------------- MODULE SprinklerProofs ---------------------------
(***************************************************************************)
(* Theorems about the sprinkler thread, for every value of the constants:  *)
(* the type invariant, the safety of the pump, the promise of              *)
(* Irrigation.tla (its safety part), and when a schedule fires.            *)
(***************************************************************************)
EXTENDS Sprinkler, TLAPS

(* One minute on is a time of the day again. *)
LEMMA NextMinuteType == \A time \in Times : NextMinute(time) \in Times
<1> SUFFICES ASSUME NEW time \in Times PROVE NextMinute(time) \in Times
  OBVIOUS
<1> USE ConstantsAssumption DEF Times, NextMinute
<1>1. CASE time.min < MINS - 1
  <2>1. time.min + 1 \in 0 .. MINS - 1
    BY <1>1
  <2> QED BY <1>1, <2>1
<1>2. CASE ~(time.min < MINS - 1)
  <2>1. 0 \in 0 .. MINS - 1 /\ 0 \in 0 .. HOURS - 1
    OBVIOUS
  <2>2. time.hour < HOURS - 1 => time.hour + 1 \in 0 .. HOURS - 1
    OBVIOUS
  <2> QED BY <1>2, <2>1, <2>2
<1> QED BY <1>1, <1>2

LEMMA MidnightType == Midnight \in Times
BY ConstantsAssumption DEF Midnight, Times

(* While the thread reads a slot there is one, and from the first read on   *)
(* it holds a copy.                                                         *)
AtSlot    == ScanPCs \ {"slot"}
Comparing == AtSlot \ {"readHour"}
HoldsCopy == /\ pc \in AtSlot => slot \in Slots
             /\ pc \in Comparing => cur \in Schedule

LEMMA HoldsCopyStep == TypeOK /\ HoldsCopy /\ [Next]_vars => HoldsCopy'
<1> SUFFICES ASSUME TypeOK, HoldsCopy, [Next]_vars PROVE HoldsCopy'
  OBVIOUS
<1> USE DEF AtSlot, Comparing, ScanPCs, ReadPCs,
            clockVars, tmVars, scanVars, waterVars, pinVars
<1>1. CASE LoadSlot
  BY <1>1, ConstantsAssumption DEF LoadSlot, TypeOK, Slots, HoldsCopy
<1>2. CASE Compare
  BY <1>2 DEF Compare, HoldsCopy, IsDue
<1>3. CASE UNCHANGED <<pc, slot, cur>>
  BY <1>3 DEF HoldsCopy
<1>4. CASE Environment
  BY <1>3, <1>4 DEF Environment, ClockTick, LightTime, LightStore, OnReceiver,
       AddSchedule, EditSchedule, DeleteSchedule, SetSlot, Start, Crash, Die, HoldsCopy
<1>5. CASE Publish
  BY <1>5 DEF Publish, SprinklerInit, Scheduled, PubStart, PubRunning, PubEnd, HoldsCopy
<1>6. CASE LoadField
  <2>1. slot \in Slots /\ slot' = slot /\ pc \in ReadPCs /\ pc' \in Comparing
    BY <1>6 DEF LoadField, HoldsCopy
  <2>2. schedules[slot] \in Schedule
    BY <1>6, <2>1 DEF LoadField, TypeOK
  <2>3. cur' \in Schedule
    BY <1>6, <2>2 DEF LoadField, HoldsCopy, Schedule
  <2> QED BY <2>1, <2>3 DEF HoldsCopy
<1>7. CASE Local
  BY <1>1, <1>2, <1>6, <1>7 DEF Local, Scheduling, ScanDone, Fire, Rearm, Skip,
       NextSlot, NullAccess, Die, MotorOn, Running, MotorOff, Sleep, HoldsCopy
<1> QED BY <1>3, <1>4, <1>5, <1>7 DEF Next, vars

(* What a dying process leaves is well typed. *)
LEMMA DieType == ASSUME TypeOK, Die, crashes' \in 0 .. MaxCrashes
                 PROVE  TypeOK'
<1>1. tm' \in Times /\ lightTime' \in Times /\ now' \in Times
  BY MidnightType DEF Die, TypeOK
<1>2. schedules' \in [Slots -> Schedule \cup {NULL}]
  BY DEF Die
<1>3. slot' \in 0 .. SCHEDULE_SIZE /\ ticks' \in 0 .. TicksPerMinute
  BY ConstantsAssumption DEF Die, TypeOK
<1>4. orphaned' \in BOOLEAN /\ motor' \in {0, 1} /\ fd' \in BOOLEAN
  BY DEF Die, TypeOK
<1>5. /\ served' \subseteq Slots /\ sources' \subseteq Times /\ clean' \in BOOLEAN
      /\ grace' \in 0 .. 2
      /\ lightTodo' \subseteq {"hour", "min"}
      /\ pc' \in PCs /\ state' \in States /\ t' \in Nat
      /\ cur' \in Schedule \cup {NULL} /\ timer' \in Times \cup {NULL}
      /\ running_time' \in ConfigValues \cup {DefaultRunningTime}
      /\ status' \in Statuses
  BY DEF Die, TypeOK, PCs, States
<1> QED BY <1>1, <1>2, <1>3, <1>4, <1>5 DEF TypeOK

(* The schedule calls store well-typed slots. *)
LEMMA SetSlotType ==
  ASSUME TypeOK, NEW i \in Slots, NEW value \in Schedule \cup {NULL},
         SetSlot(i, value)
  PROVE  TypeOK'
<1>1. schedules' \in [Slots -> Schedule \cup {NULL}]
  BY DEF TypeOK, SetSlot
<1>2. served' \subseteq Slots
  BY DEF TypeOK, SetSlot
<1>4. grace' \in 0 .. 2
  BY DEF SetSlot
<1>5. clean' \in BOOLEAN
  BY DEF SetSlot
<1>3. UNCHANGED <<now, ticks, tm, lightTime, lightTodo, sources, slot, cur, timer,
                  t, running_time, fd, motor, orphaned, pc, state, status, crashes>>
  BY DEF SetSlot, tmVars, scanVars, waterVars, pinVars
<1> QED BY <1>1, <1>2, <1>3, <1>4, <1>5 DEF TypeOK

(* Every variable keeps its type (sprinkler.c's statics and locals, the     *)
(* shared struct tm, the pin), whatever the other threads do.               *)
THEOREM Typing == Spec => []TypeOK
<1> USE ConstantsAssumption DEF TypeOK
<1>1. Init => TypeOK /\ HoldsCopy
  <2>1. ASSUME Init PROVE TypeOK
    <3>1. now \in Times /\ tm \in Times /\ lightTime \in Times
      BY <2>1, MidnightType DEF Init
    <3>2. schedules \in [Slots -> Schedule \cup {NULL}]
      BY <2>1 DEF Init
    <3>3. slot \in 0 .. SCHEDULE_SIZE /\ ticks \in 0 .. TicksPerMinute
          /\ crashes \in 0 .. MaxCrashes
      BY <2>1 DEF Init
    <3>5. grace \in 0 .. 2
      BY <2>1 DEF Init
    <3>6. clean \in BOOLEAN
      BY <2>1 DEF Init
    <3>4. /\ served \subseteq Slots /\ sources \subseteq Times
          /\ lightTodo \subseteq {"hour", "min"}
          /\ pc \in PCs /\ state \in States /\ t \in Nat
          /\ cur \in Schedule \cup {NULL} /\ timer \in Times \cup {NULL}
          /\ running_time \in ConfigValues \cup {DefaultRunningTime}
          /\ fd \in BOOLEAN /\ motor \in {0, 1} /\ orphaned \in BOOLEAN
          /\ status \in Statuses
      BY <2>1 DEF Init, PCs, States, Statuses
    <3> QED BY <3>1, <3>2, <3>3, <3>4, <3>5, <3>6
  <2>2. Init => HoldsCopy
    BY DEF Init, HoldsCopy, Comparing, AtSlot, ScanPCs, ReadPCs
  <2> QED BY <2>1, <2>2
<1>2. TypeOK /\ HoldsCopy /\ [Next]_vars => TypeOK'
  <2> SUFFICES ASSUME TypeOK, HoldsCopy, [Next]_vars PROVE TypeOK'
    OBVIOUS
  <2> USE DEF clockVars, tmVars, scanVars, waterVars, pinVars
  <2>1. CASE ClockTick
    <3>1. grace' \in 0 .. 2 /\ ticks' \in 0 .. TicksPerMinute
      BY <2>1 DEF ClockTick
    <3> QED BY <2>1, <3>1, NextMinuteType DEF ClockTick
  <2>2. CASE LightTime
    BY <2>2 DEF LightTime
  <2>3. ASSUME NEW field \in {"hour", "min"}, LightStore(field) PROVE TypeOK'
    <3>1. tm' \in Times /\ lightTime' \in Times
      BY <2>3, MidnightType DEF LightStore, Times
    <3>2. lightTodo' \subseteq {"hour", "min"} /\ sources' \subseteq Times
      BY <2>3 DEF LightStore
    <3>3. served' \subseteq Slots /\ grace' \in 0 .. 2 /\ clean' \in BOOLEAN
      BY <2>3 DEF LightStore, Disturbs
    <3> QED BY <2>3, <3>1, <3>2, <3>3 DEF LightStore
  <2>4. ASSUME NEW value \in ConfigValues, OnReceiver(value) PROVE TypeOK'
    BY <2>4 DEF OnReceiver
  <2>5. ASSUME NEW time \in Times, AddSchedule(time) PROVE TypeOK'
    BY <2>5, SetSlotType DEF AddSchedule, Times, Schedule
  <2>6. ASSUME NEW id \in Slots, NEW time \in Times, EditSchedule(id, time)
        PROVE  TypeOK'
    BY <2>6, SetSlotType DEF EditSchedule, Times, Schedule
  <2>7. ASSUME NEW id \in Slots, DeleteSchedule(id) PROVE TypeOK'
    BY <2>7, SetSlotType DEF DeleteSchedule
  <2>8. CASE Start
    BY <2>8 DEF Start, PCs
  <2>9. CASE Crash
    <3>1. crashes' \in 0 .. MaxCrashes
      BY <2>9 DEF Crash
    <3> QED BY <2>9, <3>1, DieType DEF Crash
  <2>10. CASE Local
    <3>1. CASE Scheduling
      <4>1. slot' \in 0 .. SCHEDULE_SIZE /\ pc' \in PCs
        BY <3>1 DEF Scheduling, PCs, ScanPCs
      <4>2. clean' \in BOOLEAN
        BY <3>1 DEF Scheduling
      <4> QED BY <3>1, <4>1, <4>2 DEF Scheduling
    <3>2. CASE ScanDone
      <4>1. clean' \in BOOLEAN
        BY <3>2 DEF ScanDone
      <4> QED BY <3>2, <4>1 DEF ScanDone, PCs
    <3>3. CASE LoadSlot
      BY <3>3 DEF LoadSlot, PCs, ScanPCs, ReadPCs, Slots
    <3>4. CASE Compare
      BY <3>4 DEF Compare, PCs, ScanPCs
    <3>5. ASSUME NextSlot, pc \in Comparing
          PROVE  /\ slot' \in 0 .. SCHEDULE_SIZE /\ slot \in Slots
                 /\ cur' \in Schedule \cup {NULL} /\ pc' \in PCs
      BY <3>5 DEF NextSlot, Slots, PCs, ScanPCs, HoldsCopy, Comparing, AtSlot
    <3>6. CASE Fire
      <4>1. pc \in Comparing /\ NextSlot
        BY <3>6 DEF Fire, IsDue, Comparing, AtSlot, ScanPCs, ReadPCs
      <4>2. schedules' \in [Slots -> Schedule \cup {NULL}]
        BY <3>5, <3>6, <4>1 DEF Fire, Schedule
      <4> QED BY <3>5, <3>6, <4>1, <4>2 DEF Fire, States
    <3>7. CASE Rearm
      <4>1. pc \in Comparing /\ NextSlot
        BY <3>7 DEF Rearm, IsPast, Comparing, AtSlot, ScanPCs, ReadPCs
      <4>2. schedules' \in [Slots -> Schedule \cup {NULL}]
        BY <3>5, <3>7, <4>1 DEF Rearm, Schedule
      <4> QED BY <3>5, <3>7, <4>1, <4>2 DEF Rearm
    <3>8. CASE Skip
      <4>1. pc \in Comparing /\ NextSlot
        BY <3>8 DEF Skip, IsPast, Comparing, AtSlot, ScanPCs, ReadPCs
      <4> QED BY <3>5, <3>8, <4>1 DEF Skip
    <3>9. CASE NullAccess
      BY <3>9, DieType DEF NullAccess
    <3>10. CASE MotorOn
      BY <3>10 DEF MotorOn, Ioctl, PCs, States
    <3>11. CASE Running
      BY <3>11 DEF Running, PCs, States
    <3>12. CASE MotorOff
      BY <3>12 DEF MotorOff, Ioctl, PCs
    <3>13. CASE Sleep
      BY <3>13 DEF Sleep, PCs
    <3>14. CASE LoadField
      <4>1. pc' \in PCs /\ cur' \in Schedule
        BY <3>14, HoldsCopyStep DEF LoadField, HoldsCopy, Comparing, AtSlot, PCs,
           ScanPCs, ReadPCs
      <4> QED BY <3>14, <4>1 DEF LoadField
    <3> QED BY <2>10, <3>1, <3>2, <3>3, <3>4, <3>6, <3>7, <3>8, <3>9,
               <3>10, <3>11, <3>12, <3>13, <3>14 DEF Local
  <2>11. CASE Publish
    <3>1. ticks' \in 0 .. TicksPerMinute /\ grace' \in 0 .. 2
      BY <2>11 DEF Publish, SprinklerInit, Scheduled, PubStart, PubRunning, PubEnd
    <3> QED BY <2>11, <3>1 DEF Publish, SprinklerInit, Scheduled, PubStart, PubRunning,
                 PubEnd, PCs, States, Statuses
  <2>12. CASE UNCHANGED vars
    BY <2>12 DEF vars
  <2> QED BY <2>1, <2>2, <2>3, <2>4, <2>5, <2>6, <2>7, <2>8, <2>9, <2>10,
             <2>11, <2>12 DEF Next, Environment
<1> QED BY <1>1, <1>2, HoldsCopyStep, PTL DEF Spec

-----------------------------------------------------------------------------
(* Where the thread is, and what its state variable says then.             *)
PcState ==
  /\ pc \in {"down", "init"} => state = "INIT"
  /\ pc \in {"pubRunning", "motorOn"} => state = "START"
  /\ pc = "pubEnd" => state = "END"
  /\ pc \in ScanPCs => state \in {"SCHEDULING", "SCHEDULED"}

LEMMA PcStateInit == Init => PcState
BY DEF Init, PcState, ScanPCs, ReadPCs

LEMMA PcStateStep == PcState /\ [Next]_vars => PcState'
<1> SUFFICES ASSUME PcState, [Next]_vars PROVE PcState'
  OBVIOUS
<1> USE DEF PcState, ScanPCs, ReadPCs, pinVars
<1>1. CASE UNCHANGED <<pc, state>>
  BY <1>1
<1>2. CASE Environment
  BY <1>1, <1>2 DEF Environment, ClockTick, LightTime, LightStore, OnReceiver,
       AddSchedule, EditSchedule, DeleteSchedule, SetSlot, Start, Crash, Die
<1>3. CASE Local
  <2>1. CASE Scheduling \/ ScanDone \/ LoadSlot \/ LoadField \/ Compare
    BY <2>1 DEF Scheduling, ScanDone, LoadSlot, LoadField, Compare
  <2>2. CASE Fire \/ Rearm \/ Skip
    BY <2>2 DEF Fire, Rearm, Skip, IsDue, IsPast, NextSlot
  <2>3. CASE NullAccess
    BY <2>3 DEF NullAccess, Die
  <2>4. CASE MotorOn \/ Running \/ MotorOff \/ Sleep
    BY <2>4 DEF MotorOn, Running, MotorOff, Sleep
  <2> QED BY <1>3, <2>1, <2>2, <2>3, <2>4 DEF Local
<1>4. CASE Publish
  BY <1>4 DEF Publish, SprinklerInit, Scheduled, PubStart, PubRunning, PubEnd
<1> QED BY <1>1, <1>2, <1>3, <1>4 DEF Next, vars

(* PumpOnlyInCycle is inductive once a pump that is on and not orphaned is *)
(* known to be within the reach of motor_off: the device is open.          *)
PumpInv == PumpOnlyInCycle /\ (motor = 1 /\ ~orphaned => fd)

LEMMA PumpInvStep ==
  TypeOK /\ PcState /\ PumpInv /\ [Next]_vars => PumpInv'
<1> SUFFICES ASSUME TypeOK, PcState, PumpInv, [Next]_vars PROVE PumpInv'
  OBVIOUS
<1> USE DEF PumpInv, PumpOnlyInCycle, pinVars
<1>1. motor \in {0, 1} /\ fd \in BOOLEAN /\ orphaned \in BOOLEAN
  BY DEF TypeOK
<1>2. CASE UNCHANGED <<pc, state, motor, orphaned, fd>>
  BY <1>2
<1>3. CASE Die
  BY <1>1, <1>3 DEF Die
<1>4. CASE Start
  BY <1>1, <1>4 DEF Start, PcState
<1>5. CASE Environment
  BY <1>2, <1>3, <1>4, <1>5 DEF Environment, ClockTick, LightTime, LightStore,
       OnReceiver, AddSchedule, EditSchedule, DeleteSchedule, SetSlot, Crash
<1>6. CASE MotorOn
  BY <1>1, <1>6 DEF MotorOn, Ioctl, PcState
<1>7. CASE MotorOff
  BY <1>1, <1>7 DEF MotorOff, Ioctl
<1>8. CASE Running
  BY <1>8 DEF Running
<1>9. CASE Scheduling \/ ScanDone \/ LoadSlot \/ LoadField \/ Compare
  BY <1>9 DEF Scheduling, ScanDone, LoadSlot, LoadField, Compare, PcState, ScanPCs, ReadPCs
<1>10. CASE Fire \/ Rearm \/ Skip
  BY <1>10 DEF Fire, Rearm, Skip, IsDue, IsPast, NextSlot, PcState, ScanPCs, ReadPCs
<1>11. CASE Sleep
  BY <1>11 DEF Sleep
<1>12. CASE Publish
  BY <1>12 DEF Publish, SprinklerInit, Scheduled, PubStart, PubRunning, PubEnd,
       PcState
<1> QED BY <1>2, <1>3, <1>5, <1>6, <1>7, <1>8, <1>9, <1>10, <1>11, <1>12
        DEF Next, Local, NullAccess, vars

(* The pump is on only between motor_on and motor_off, or left on by a      *)
(* daemon that died: for every table, every edit, every failure to open     *)
(* the device, every number of crashes.                                     *)
THEOREM PumpSafety == Spec => []PumpOnlyInCycle
<1>1. Init => PumpInv
  BY DEF Init, PumpInv, PumpOnlyInCycle
<1>2. PumpInv => PumpOnlyInCycle
  BY DEF PumpInv
<1> QED BY <1>1, <1>2, Typing, PcStateInit, PcStateStep, PumpInvStep, PTL DEF Spec

(* No message is due while the pump of this daemon is on.                   *)
THEOREM QuietPump == Spec => []QuietWhilePumpOn
<1>1. PcState /\ PumpOnlyInCycle => QuietWhilePumpOn
  BY DEF PcState, PumpOnlyInCycle, QuietWhilePumpOn, AtPublish
<1> QED BY <1>1, PumpSafety, PcStateInit, PcStateStep, PTL DEF Spec

(* t starts every cycle at zero and stays within the largest setting.       *)
THEOREM CycleTimerBound == Spec => []CycleTimer
<1>1. Init => CycleTimer
  BY DEF Init, CycleTimer
<1>2. TypeOK /\ PcState /\ CycleTimer /\ [Next]_vars => CycleTimer'
  <2> SUFFICES ASSUME TypeOK, PcState, CycleTimer, [Next]_vars
               PROVE  CycleTimer'
    OBVIOUS
  <2> USE DEF CycleTimer, waterVars
  <2>1. CASE UNCHANGED <<t, state>>
    BY <2>1
  <2>2. CASE Running
    <3>1. CASE StillRunning
      <4>1. /\ running_time \in ConfigValues \cup {DefaultRunningTime}
            /\ running_time \in Int /\ t \in Nat
        BY ConstantsAssumption DEF TypeOK
      <4>2. t' = t + 1 /\ t' <= running_time /\ state' = "RUNNING"
        BY <2>2, <3>1, <4>1 DEF Running, StillRunning
      <4> QED BY <4>1, <4>2
    <3>2. CASE ~StillRunning
      BY <2>2, <3>2 DEF Running
    <3> QED BY <3>1, <3>2
  <2>3. CASE Die
    BY <2>3 DEF Die
  <2>4. CASE Environment
    BY <2>1, <2>3, <2>4 DEF Environment, ClockTick, LightTime, LightStore,
         OnReceiver, AddSchedule, EditSchedule, DeleteSchedule, SetSlot, Start, Crash
  <2>5. CASE Fire
    BY <2>5 DEF Fire, IsDue, PcState, ScanPCs, ReadPCs
  <2>6. CASE MotorOn
    BY <2>6 DEF MotorOn
  <2>7. CASE Publish
    BY <2>1, <2>7 DEF Publish, SprinklerInit, Scheduled, PubStart, PubRunning,
         PubEnd, PcState
  <2>8. CASE Scheduling \/ ScanDone \/ LoadSlot \/ LoadField \/ Compare
    BY <2>1, <2>8 DEF Scheduling, ScanDone, LoadSlot, LoadField, Compare
  <2>9. CASE Rearm \/ Skip \/ MotorOff \/ Sleep
    BY <2>1, <2>9 DEF Rearm, Skip, MotorOff, Sleep
  <2> QED BY <2>1, <2>2, <2>3, <2>4, <2>5, <2>6, <2>7, <2>8, <2>9
          DEF Next, Local, NullAccess, vars
<1> QED BY <1>1, <1>2, Typing, PcStateInit, PcStateStep, PTL DEF Spec

-----------------------------------------------------------------------------
(* The last message sent, in every state of a running thread; with a device *)
(* that opens, motor_off has done its work before "END!".                   *)
StatusInv ==
  /\ pc # "down" => fd
  /\ pc = "pubEnd" => motor = 0
  /\ pc = "pubRunning" => status = "START!"
  /\ pc = "motorOn" => status = "RUNNING"
  /\ pc \notin {"down", "init"} =>
       /\ state \in {"SCHEDULING", "SCHEDULED"} => status \in {"Init", "END!"}
       /\ state = "START" /\ pc \in {"sleep", "state"} => status = "Scheduled!"
       /\ state \in {"RUNNING", "END"} => status = "RUNNING"

LEMMA StatusInvStep ==
  ASSUME OpenResults \subseteq {TRUE}
  PROVE  TypeOK /\ PcState /\ StatusInv /\ [Next]_vars => StatusInv'
<1> SUFFICES ASSUME TypeOK, PcState, StatusInv, [Next]_vars PROVE StatusInv'
  OBVIOUS
<1> USE DEF StatusInv, pinVars
<1>1. CASE UNCHANGED <<pc, state, motor, fd, status>>
  BY <1>1
<1>2. CASE Die
  BY <1>2 DEF Die
<1>3. CASE Start
  BY <1>3 DEF Start
<1>4. CASE Environment
  BY <1>1, <1>2, <1>3, <1>4 DEF Environment, ClockTick, LightTime, LightStore,
       OnReceiver, AddSchedule, EditSchedule, DeleteSchedule, SetSlot, Crash
<1>5. CASE Publish
  BY <1>5 DEF Publish, SprinklerInit, Scheduled, PubStart, PubRunning, PubEnd,
       PcState
<1>6. CASE MotorOn \/ Running
  BY <1>6 DEF MotorOn, Running, PcState
<1>7. CASE MotorOff
  BY <1>7 DEF MotorOff, Ioctl
<1>8. CASE Scheduling \/ ScanDone \/ LoadSlot \/ LoadField \/ Compare
  BY <1>8 DEF Scheduling, ScanDone, LoadSlot, LoadField, Compare, PcState, ScanPCs, ReadPCs
<1>9. CASE Fire \/ Rearm \/ Skip
  BY <1>9 DEF Fire, Rearm, Skip, IsDue, IsPast, NextSlot, PcState, ScanPCs, ReadPCs
<1>10. CASE Sleep
  <2>1. pc = "sleep" /\ pc' = "state" /\ UNCHANGED <<state, motor, fd, status>>
    BY <1>10 DEF Sleep
  <2> QED BY <2>1
<1> QED BY <1>1, <1>2, <1>4, <1>5, <1>6, <1>7, <1>8, <1>9, <1>10
        DEF Next, Local, NullAccess, vars

(* Every step of the daemon is one that Irrigation.tla allows, or leaves    *)
(* the pump and the last message as they are.  It takes a device that opens:*)
(* otherwise "RUNNING" is published while no ioctl reaches the pump.        *)
THEOREM KeepsPromise ==
  ASSUME OpenResults \subseteq {TRUE}
  PROVE  Spec => IrrigationSafety
<1>1. Init => Promise!Init /\ StatusInv
  BY DEF Init, Promise!Init, StatusInv
<1>2. TypeOK /\ PcState /\ StatusInv /\ [Next]_vars
        => [Promise!Next]_(Promise!vars)
  <2> SUFFICES ASSUME TypeOK, PcState, StatusInv, [Next]_vars
               PROVE  Promise!Next \/ UNCHANGED <<status, motor>>
    BY DEF Promise!vars
  <2> USE DEF StatusInv, pinVars
  <2>1. CASE UNCHANGED <<status, motor>>
    BY <2>1
  <2>2. CASE SprinklerInit
    BY <2>2 DEF SprinklerInit, Promise!Next, Promise!Restart
  <2>3. CASE Scheduled \/ PubStart \/ PubRunning
    BY <2>3 DEF Scheduled, PubStart, PubRunning, Promise!Next, Promise!Announce
  <2>4. CASE PubEnd
    BY <2>4 DEF PubEnd, PcState, Promise!Next, Promise!Finish
  <2>5. CASE MotorOn
    BY <2>5 DEF MotorOn, Ioctl, Promise!Next, Promise!PumpOn
  <2>6. CASE MotorOff
    <3>1. motor' = 0 /\ status = "RUNNING" /\ UNCHANGED status
      BY <2>6 DEF MotorOff, Ioctl
    <3>2. motor \in {0, 1}
      BY DEF TypeOK
    <3> QED BY <3>1, <3>2 DEF Promise!Next, Promise!PumpOff
  <2>7. CASE Environment
    BY <2>1, <2>7 DEF Environment, ClockTick, LightTime, LightStore, OnReceiver,
         AddSchedule, EditSchedule, DeleteSchedule, SetSlot, Start, Crash, Die
  <2>8. CASE Local
    BY <2>1, <2>5, <2>6, <2>8 DEF Local, Scheduling, ScanDone, LoadSlot, LoadField, Compare,
         Fire, Rearm, Skip, NullAccess, Die, Running, Sleep
  <2> QED BY <2>1, <2>2, <2>3, <2>4, <2>7, <2>8 DEF Next, Publish, vars
<1> QED BY <1>1, <1>2, Typing, PcStateInit, PcStateStep, StatusInvStep, PTL
        DEF Spec, IrrigationSafety

-----------------------------------------------------------------------------
(* Only Fire takes the thread from the test of the minute to the next slot. *)
LEMMA FiresIsFire == [Next]_vars /\ Fires => Fire
<1> SUFFICES ASSUME [Next]_vars, Fires PROVE Fire
  OBVIOUS
<1> USE DEF Fires
<1>1. ~UNCHANGED pc /\ ~Die
  BY DEF Die
<1>2. ~Environment
  BY <1>1 DEF Environment, ClockTick, LightTime, LightStore, OnReceiver,
       AddSchedule, EditSchedule, DeleteSchedule, SetSlot, Start, Crash
<1>3. ~Publish
  BY DEF Publish, SprinklerInit, Scheduled, PubStart, PubRunning, PubEnd
<1>4. CASE Local
  BY <1>1, <1>4 DEF Local, Scheduling, ScanDone, LoadSlot, LoadField, Compare, Rearm, Skip,
       IsPast, NullAccess, MotorOn, Running, MotorOff, Sleep
<1> QED BY <1>1, <1>2, <1>3, <1>4 DEF Next, vars

(* The two fields of the shared struct tm, and the hour the thread has      *)
(* already compared, come from times stored since the scan began.           *)
FromSources ==
  /\ pc \in ScanPCs => /\ \E a \in sources : tm.hour = a.hour
                       /\ \E b \in sources : tm.min = b.min
  /\ pc = "dueMin" => \E a \in sources : cur.hour = a.hour

LEMMA FromSourcesStep == TypeOK /\ FromSources /\ [Next]_vars => FromSources'
<1> SUFFICES ASSUME TypeOK, FromSources, [Next]_vars PROVE FromSources'
  OBVIOUS
<1> USE DEF FromSources, ScanPCs, ReadPCs, tmVars, scanVars
<1>1. CASE UNCHANGED <<pc, tm, sources, cur>>
  BY <1>1
<1>2. CASE pc' \notin ScanPCs
  BY <1>2
<1>3. ASSUME NEW field \in {"hour", "min"}, LightStore(field)
      PROVE  FromSources'
  <2>1. tm \in Times /\ UNCHANGED <<pc, cur>>
    BY <1>3 DEF LightStore, TypeOK
  <2>2. CASE pc \in ScanPCs
    <3>1. sources' = sources \cup {lightTime}
      BY <1>3, <2>2 DEF LightStore
    <3>2. /\ tm'.hour \in {tm.hour, lightTime.hour}
          /\ tm'.min \in {tm.min, lightTime.min}
      BY <1>3, <2>1 DEF LightStore, Times
    <3> QED BY <2>1, <2>2, <3>1, <3>2
  <2> QED BY <1>2, <2>1, <2>2
<1>4. CASE Environment
  BY <1>1, <1>2, <1>3, <1>4 DEF Environment, ClockTick, LightTime, OnReceiver,
       AddSchedule, EditSchedule, DeleteSchedule, SetSlot, Start, Crash, Die
<1>5. CASE Scheduling
  BY <1>5 DEF Scheduling
<1>6. CASE LoadSlot \/ LoadField
  BY <1>6 DEF LoadSlot, LoadField
<1>7. CASE Compare
  BY <1>7 DEF Compare
<1>8. CASE Fire \/ Rearm \/ Skip
  BY <1>8 DEF Fire, Rearm, Skip, IsDue, IsPast, NextSlot
<1>9. CASE Publish
  BY <1>2, <1>9 DEF Publish, SprinklerInit, Scheduled, PubStart, PubRunning, PubEnd
<1>10. CASE ScanDone \/ NullAccess \/ MotorOn \/ Running \/ MotorOff \/ Sleep
  BY <1>2, <1>10 DEF ScanDone, NullAccess, Die, MotorOn, Running, MotorOff, Sleep
<1> QED BY <1>1, <1>4, <1>5, <1>6, <1>7, <1>8, <1>9, <1>10 DEF Next, Local, vars

(* Whatever the light thread and the editors do, the hour and the minute at *)
(* which a schedule fires were each a time of this scan, maybe not the same.*)
THEOREM FiresOnMixture == Spec => FireIsMixture
<1>1. Init => FromSources
  BY DEF Init, FromSources, ScanPCs, ReadPCs
<1>2. FromSources /\ [Next]_vars
        => [Fires => \E a, b \in sources : cur.hour = a.hour /\ cur.min = b.min]_vars
  <2> SUFFICES ASSUME FromSources, [Next]_vars, Fires
               PROVE  \E a, b \in sources : cur.hour = a.hour /\ cur.min = b.min
    OBVIOUS
  <2>1. pc = "dueMin" /\ tm.min = cur.min
    BY FiresIsFire DEF Fire, IsDue
  <2> QED BY <2>1 DEF FromSources, ScanPCs
<1> QED BY <1>1, <1>2, Typing, FromSourcesStep, PTL DEF Spec, FireIsMixture

-----------------------------------------------------------------------------
(* As long as no other time has been stored under the scan the struct tm is *)
(* its own, and the comparisons made so far tell where the slot's time      *)
(* stands.                                                                  *)
OwnTime ==
  /\ pc \in ScanPCs => timer \in sources /\ (clean => sources = {timer})
  /\ pc \in ScanPCs /\ sources = {timer} =>
       /\ tm = timer
       /\ pc \in {"dueMin", "elseMin"} => cur.hour = timer.hour
       /\ pc \in {"elseHour", "elseMin"} => ~(At(cur, timer) /\ cur.is_run = 0)

LEMMA OwnTimeStep == TypeOK /\ OwnTime /\ [Next]_vars => OwnTime'
<1> SUFFICES ASSUME TypeOK, OwnTime, [Next]_vars PROVE OwnTime'
  OBVIOUS
<1> USE DEF OwnTime, ScanPCs, ReadPCs, tmVars, scanVars
<1>1. CASE UNCHANGED <<pc, tm, timer, cur, sources>> /\ (clean' => clean)
  BY <1>1 DEF At
<1>2. CASE pc' \notin ScanPCs
  BY <1>2
<1>3. ASSUME NEW field \in {"hour", "min"}, LightStore(field) PROVE OwnTime'
  <2>1. UNCHANGED <<pc, timer, cur>> /\ (clean' => clean /\ ~Disturbs)
    BY <1>3 DEF LightStore
  <2>2. CASE pc \notin ScanPCs
    BY <1>2, <2>1, <2>2
  <2>3. CASE pc \in ScanPCs /\ lightTime # timer
    <3>1. sources' = sources \cup {lightTime} /\ ~clean'
      BY <1>3, <2>3 DEF LightStore, Disturbs
    <3> QED BY <2>1, <2>3, <3>1
  <2>4. CASE pc \in ScanPCs /\ lightTime = timer
    <3>1. sources' = sources
      BY <1>3, <2>4 DEF LightStore
    <3>2. sources = {timer} => tm' = tm
      BY <1>3, <2>4 DEF LightStore, TypeOK, Times
    <3>3. sources = {timer} => UNCHANGED <<tm, sources>>
      BY <3>1, <3>2
    <3> QED BY <1>1, <2>1, <2>4, <3>1, <3>3
  <2> QED BY <2>2, <2>3, <2>4
<1>4. CASE Environment
  BY <1>1, <1>2, <1>3, <1>4 DEF Environment, ClockTick, LightTime,
       OnReceiver, AddSchedule, EditSchedule, DeleteSchedule, SetSlot, Start,
       Crash, Die
<1>5. CASE Scheduling
  BY <1>5 DEF Scheduling
<1>6. CASE LoadSlot \/ LoadField
  BY <1>6 DEF LoadSlot, LoadField
<1>7. CASE Compare
  BY <1>7 DEF Compare, IsDue, At
<1>8. CASE Fire \/ Rearm \/ Skip
  BY <1>8 DEF Fire, Rearm, Skip, IsDue, IsPast, NextSlot
<1>9. CASE Publish
  BY <1>2, <1>9 DEF Publish, SprinklerInit, Scheduled, PubStart, PubRunning, PubEnd
<1>10. CASE ScanDone \/ NullAccess \/ MotorOn \/ Running \/ MotorOff \/ Sleep
  BY <1>2, <1>10 DEF ScanDone, NullAccess, Die, MotorOn, Running, MotorOff, Sleep
<1> QED BY <1>1, <1>4, <1>5, <1>6, <1>7, <1>8, <1>9, <1>10 DEF Next, Local, vars

LEMMA OwnTimeInit == Init => OwnTime
BY DEF Init, OwnTime, ScanPCs, ReadPCs

(* The flags of the slots an undisturbed scan has passed are those of its   *)
(* minute, and its copy is what the table says.                             *)
FlagsInv ==
  pc \in ScanPCs /\ clean =>
    /\ \A i \in Slots : i < slot /\ schedules[i] # NULL =>
         (schedules[i].is_run = 1 <=> At(schedules[i], timer))
    /\ pc \in AtSlot => schedules[slot] # NULL
    /\ pc \in Comparing => cur = schedules[slot]

(* A store through schedules[slot]->is_run changes that field alone.        *)
LEMMA StoreFlag ==
  ASSUME TypeOK, slot \in Slots, schedules[slot] # NULL, NEW v \in {0, 1},
         schedules' = [schedules EXCEPT ![slot].is_run = v]
  PROVE  /\ schedules[slot] \in Schedule /\ schedules'[slot] \in Schedule
         /\ schedules'[slot].hour = schedules[slot].hour
         /\ schedules'[slot].min = schedules[slot].min
         /\ schedules'[slot].is_run = v
         /\ \A j \in Slots \ {slot} : schedules'[j] = schedules[j]
<1>1. schedules \in [Slots -> Schedule \cup {NULL}]
  BY DEF TypeOK
<1>2. schedules[slot] \in Schedule
  BY <1>1
<1>3. schedules'[slot] = [schedules[slot] EXCEPT !.is_run = v]
  BY <1>1
<1>4. \A j \in Slots \ {slot} : schedules'[j] = schedules[j]
  BY <1>1
<1> QED BY <1>2, <1>3, <1>4 DEF Schedule

LEMMA FlagsInvStep ==
  TypeOK /\ HoldsCopy /\ OwnTime /\ FlagsInv /\ [Next]_vars => FlagsInv'
<1> SUFFICES ASSUME TypeOK, HoldsCopy, OwnTime, FlagsInv, [Next]_vars,
                    pc' \in ScanPCs, clean'
             PROVE  FlagsInv'
  BY DEF FlagsInv
<1> USE DEF FlagsInv, Comparing, AtSlot, ReadPCs
<1>1. CASE UNCHANGED <<pc, timer, slot, cur, schedules>> /\ clean
  BY <1>1 DEF At
<1>2. CASE Environment
  <2>1. ASSUME NEW i, NEW value, SetSlot(i, value) PROVE FALSE
    BY <2>1 DEF SetSlot
  <2> QED BY <1>1, <1>2, <2>1 DEF Environment, ClockTick, LightTime, LightStore,
          OnReceiver, AddSchedule, EditSchedule, DeleteSchedule, Start, Crash, Die,
          ScanPCs, scanVars, tmVars
<1>3. CASE Scheduling
  BY <1>3 DEF Scheduling, Slots
<1>4. CASE LoadSlot
  <2>4. clean
    BY <1>4 DEF LoadSlot, tmVars
  <2>1. slot \in Nat /\ UNCHANGED <<timer, schedules>>
    BY <1>4 DEF LoadSlot, TypeOK
  <2>2. CASE schedules[slot] = NULL
    BY <1>4, <2>1, <2>2, <2>4 DEF LoadSlot, At, Slots, ScanPCs
  <2>3. CASE schedules[slot] # NULL
    BY <1>4, <2>1, <2>3, <2>4 DEF LoadSlot, At, ScanPCs
  <2> QED BY <2>2, <2>3
<1>5. CASE Compare
  BY <1>5 DEF Compare, scanVars, tmVars, At, ScanPCs
<1>9. CASE LoadField
  <2>1. /\ UNCHANGED <<slot, timer, schedules, clean>> /\ slot \in Slots
        /\ schedules[slot] \in Schedule /\ pc \in ScanPCs
    BY <1>9 DEF LoadField, HoldsCopy, TypeOK, tmVars, ScanPCs
  <2>2. cur' = schedules[slot]
    BY <1>9, <2>1 DEF LoadField, Schedule, ScanPCs
  <2> QED BY <2>1, <2>2, NullAssumption DEF At
<1>6. CASE Fire \/ Rearm \/ Skip
  <2>7. clean /\ sources' = sources
    BY <1>6 DEF Fire, Rearm, Skip, tmVars
  <2>8. pc \in Comparing /\ pc \in ScanPCs /\ NextSlot /\ UNCHANGED timer
    BY <1>6 DEF Fire, Rearm, Skip, IsDue, IsPast, ScanPCs
  <2>1. /\ slot \in Slots /\ slot \in Nat /\ cur = schedules[slot]
        /\ cur \in Schedule /\ sources = {timer} /\ tm = timer
        /\ pc \in Comparing /\ pc \in ScanPCs /\ NextSlot /\ UNCHANGED timer
    BY <2>7, <2>8 DEF HoldsCopy, OwnTime, Slots
  <2>2. pc' = "slot" /\ slot' = slot + 1
    BY <2>1 DEF NextSlot
  <2>9. /\ pc \in {"dueMin", "elseMin"} => cur.hour = timer.hour
        /\ pc \in {"elseHour", "elseMin"} => ~(At(cur, timer) /\ cur.is_run = 0)
    BY <2>1 DEF OwnTime
  <2> SUFFICES ASSUME NEW i \in Slots, i < slot', schedules'[i] # NULL
               PROVE  schedules'[i].is_run = 1 <=> At(schedules'[i], timer)
    BY <2>1, <2>2 DEF At, ScanPCs
  <2>3. i < slot \/ i = slot
    BY <2>1, <2>2 DEF Slots
  <2>4. CASE Fire
    <3>1. /\ \A j \in Slots \ {slot} : schedules'[j] = schedules[j]
          /\ schedules'[slot].hour = cur.hour /\ schedules'[slot].min = cur.min
          /\ schedules'[slot].is_run = 1
      BY <2>1, <2>4, StoreFlag DEF Fire
    <3>2. At(cur, timer)
      BY <2>1, <2>4, <2>9 DEF Fire, IsDue, At
    <3> QED BY <2>1, <2>3, <2>7, <3>1, <3>2 DEF At
  <2>5. CASE Rearm
    <3>1. /\ \A j \in Slots \ {slot} : schedules'[j] = schedules[j]
          /\ schedules'[slot].hour = cur.hour /\ schedules'[slot].min = cur.min
          /\ schedules'[slot].is_run = 0
      BY <2>1, <2>5, StoreFlag DEF Rearm
    <3>2. ~At(cur, timer)
      <4>1. IsPast
        BY <2>5 DEF Rearm
      <4> QED BY <2>1, <2>9, <4>1 DEF IsPast, At
    <3> QED BY <2>1, <2>3, <2>7, <3>1, <3>2 DEF At
  <2>6. CASE Skip
    <3>1. UNCHANGED schedules
      BY <2>6 DEF Skip
    <3>2. cur.is_run = 1 <=> At(cur, timer)
      <4>1. cur.is_run \in {0, 1}
        BY <2>1 DEF Schedule
      <4>2. CASE IsPast /\ cur.is_run = 0
        BY <2>1, <2>9, <4>2 DEF IsPast, At
      <4>3. CASE pc = "elseMin" /\ ~IsPast
        BY <2>1, <2>9, <4>1, <4>3 DEF IsPast, At
      <4> QED BY <2>6, <4>2, <4>3 DEF Skip
    <3> QED BY <2>1, <2>3, <2>7, <3>1, <3>2
  <2> QED BY <1>6, <2>4, <2>5, <2>6
<1>7. CASE ScanDone \/ NullAccess \/ MotorOn \/ Running \/ MotorOff \/ Sleep
  BY <1>7 DEF ScanDone, NullAccess, Die, MotorOn, Running, MotorOff, Sleep, ScanPCs
<1>8. CASE Publish
  BY <1>8 DEF Publish, SprinklerInit, Scheduled, PubStart, PubRunning, PubEnd,
       ScanPCs
<1> QED BY <1>1, <1>2, <1>3, <1>4, <1>5, <1>6, <1>7, <1>8, <1>9
        DEF Next, Local, vars, scanVars, tmVars

(* A schedule fires only at its hour and minute, unless another time came   *)
(* into the struct tm under the scan, and only as the table has it, unless  *)
(* it was edited under the scan: for any number of slots, crashes, edits.   *)
THEOREM FiresOnTime == Spec => FireOnTime
<1>1. Init => HoldsCopy /\ FlagsInv
  BY DEF Init, HoldsCopy, FlagsInv, Comparing, AtSlot, ScanPCs, ReadPCs
<1>2. OwnTime /\ FlagsInv /\ [Next]_vars
        => [Fires /\ sources = {timer} =>
              At(cur, timer) /\ (clean => cur = schedules[slot])]_vars
  <2> SUFFICES ASSUME OwnTime, FlagsInv, [Next]_vars, Fires, sources = {timer}
               PROVE  At(cur, timer) /\ (clean => cur = schedules[slot])
    OBVIOUS
  <2>1. pc = "dueMin" /\ tm.min = cur.min
    BY FiresIsFire DEF Fire, IsDue
  <2>2. At(cur, timer)
    BY <2>1 DEF OwnTime, At, ScanPCs
  <2>3. clean => cur = schedules[slot]
    BY <2>1 DEF FlagsInv, Comparing, AtSlot, ScanPCs, ReadPCs
  <2> QED BY <2>2, <2>3
<1> QED BY <1>1, <1>2, Typing, HoldsCopyStep, OwnTimeInit, OwnTimeStep, FlagsInvStep,
           PTL DEF Spec, FireOnTime

(* A whole undisturbed scan leaves exactly the due slots marked, so every   *)
(* other one is armed for its next time: for any table.                     *)
THEOREM FlagsAfterScan == Spec => []FlagsMatchScan
<1>1. Init => HoldsCopy /\ FlagsInv
  BY DEF Init, HoldsCopy, FlagsInv, Comparing, AtSlot, ScanPCs, ReadPCs
<1>2. TypeOK /\ FlagsInv => FlagsMatchScan
  BY ConstantsAssumption DEF TypeOK, FlagsInv, FlagsMatchScan, ScanPCs, Slots
<1> QED BY <1>1, <1>2, Typing, HoldsCopyStep, OwnTimeInit, OwnTimeStep,
           FlagsInvStep, PTL DEF Spec

(* A slot that fired in this minute is still marked, or is not due any more *)
(* (a Rearm of a scan that looks at this minute found it past); a scan that *)
(* looks at an earlier minute, or was given another time, can do no harm to *)
(* those below its index, and there are no others.                          *)
ServedInv ==
  /\ \A i \in served : /\ schedules[i] # NULL
                       /\ schedules[i].is_run = 1 \/ ~At(schedules[i], now)
  /\ pc \in ScanPCs /\ ~(timer = now /\ sources = {timer}) =>
       \A i \in served : i < slot
  /\ pc \in Comparing /\ slot \in served => cur = schedules[slot]

LEMMA ServedInvStep ==
  TypeOK /\ HoldsCopy /\ OwnTime /\ ServedInv /\ [Next]_vars => ServedInv'
<1> SUFFICES ASSUME TypeOK, HoldsCopy, OwnTime, ServedInv, [Next]_vars
             PROVE  ServedInv'
  OBVIOUS
<1> USE DEF ServedInv, Comparing, AtSlot, ScanPCs, ReadPCs, clockVars, tmVars, scanVars
<1>1. CASE UNCHANGED <<pc, now, timer, slot, cur, schedules, served, sources>>
  BY <1>1 DEF At
<1>2. CASE UNCHANGED <<now, schedules, served>> /\ pc' \notin ScanPCs
  BY <1>2 DEF At
<1>3. CASE served' = {}
  BY <1>3
<1>4. ASSUME NEW i \in Slots, NEW value \in Schedule \cup {NULL},
             SetSlot(i, value)
      PROVE  ServedInv'
  <2>1. \A j \in served' : j # i /\ j \in served /\ j \in Slots
    BY <1>4 DEF SetSlot, TypeOK
  <2>2. \A j \in Slots \ {i} : schedules'[j] = schedules[j]
    BY <1>4 DEF SetSlot, TypeOK
  <2>3. UNCHANGED <<pc, now, timer, slot, cur, sources>>
    BY <1>4 DEF SetSlot
  <2> QED BY <2>1, <2>2, <2>3 DEF At
<1>5. CASE Environment
  <2>1. ASSUME NEW time \in Times, AddSchedule(time) PROVE ServedInv'
    BY <1>4, <2>1 DEF AddSchedule, Times, Schedule
  <2>2. ASSUME NEW id \in Slots, NEW time \in Times, EditSchedule(id, time)
        PROVE  ServedInv'
    BY <1>4, <2>2 DEF EditSchedule, Times, Schedule
  <2>3. ASSUME NEW id \in Slots, DeleteSchedule(id) PROVE ServedInv'
    BY <1>4, <2>3 DEF DeleteSchedule
  <2>4. ASSUME NEW field \in {"hour", "min"}, LightStore(field) PROVE ServedInv'
    <3>1. CASE Disturbs
      BY <1>3, <2>4, <3>1 DEF LightStore
    <3>2. CASE pc \notin ScanPCs
      BY <1>2, <2>4, <3>2 DEF LightStore, Disturbs
    <3>3. CASE pc \in ScanPCs /\ lightTime = timer
      <4>1. sources' = sources
        BY <2>4, <3>3 DEF LightStore, OwnTime
      <4> QED BY <1>1, <2>4, <3>3, <4>1 DEF LightStore, Disturbs
    <3> QED BY <3>1, <3>2, <3>3 DEF Disturbs
  <2> QED BY <1>1, <1>2, <1>3, <1>5, <2>1, <2>2, <2>3, <2>4 DEF Environment, ClockTick,
            LightTime, OnReceiver, Start, Crash, Die
<1>6. CASE Scheduling
  BY <1>6 DEF Scheduling, At
<1>7. CASE LoadSlot
  <2>1. slot \in Nat /\ served \subseteq Slots
    BY <1>7 DEF LoadSlot, TypeOK
  <2>2. CASE schedules[slot] = NULL
    BY <1>7, <2>1, <2>2 DEF LoadSlot, At, Slots
  <2>3. CASE schedules[slot] # NULL
    BY <1>7, <2>3 DEF LoadSlot, At
  <2> QED BY <2>2, <2>3
<1>8. CASE Compare
  BY <1>8 DEF Compare, At
<1>13. CASE LoadField
  <2>1. slot \in Slots /\ schedules[slot] \in Schedule
    BY <1>13 DEF LoadField, HoldsCopy, TypeOK
  <2>2. slot \in served => cur' = schedules[slot]
    BY <1>13, <2>1 DEF LoadField, Schedule
  <2> QED BY <1>13, <2>2 DEF LoadField, At
<1>9. CASE Fire \/ Rearm \/ Skip
  <2>1. slot \in Slots /\ slot \in Nat /\ served \subseteq Slots /\ NextSlot
    BY <1>9 DEF Fire, Rearm, Skip, IsDue, IsPast, HoldsCopy, TypeOK, Slots
  <2>2. CASE Fire
    <3>1. /\ \A j \in Slots \ {slot} : schedules'[j] = schedules[j]
          /\ schedules'[slot] \in Schedule /\ schedules'[slot].is_run = 1
      BY <2>1, <2>2, StoreFlag DEF Fire
    <3>2. served' = served \cup {slot} /\ UNCHANGED <<now, timer, sources>>
      BY <2>2 DEF Fire
    <3> QED BY <2>1, <2>2, <3>1, <3>2, NullAssumption
            DEF NextSlot, At, Slots, Fire, IsDue
  <2>3. CASE Rearm
    <3>1. /\ \A j \in Slots \ {slot} : schedules'[j] = schedules[j]
          /\ schedules'[slot] \in Schedule
          /\ schedules'[slot].hour = schedules[slot].hour
          /\ schedules'[slot].min = schedules[slot].min
      BY <2>1, <2>3, StoreFlag DEF Rearm
    <3>2. /\ UNCHANGED <<now, served, timer, sources>> /\ pc \in Comparing
          /\ sources = {timer} => ~At(cur, timer)
      BY <2>3 DEF Rearm, IsPast, OwnTime, At
    <3>3. slot \in served => timer = now /\ sources = {timer} /\ cur = schedules[slot]
      BY <2>1, <3>2 DEF Slots
    <3> QED BY <2>1, <2>3, <3>1, <3>2, <3>3, NullAssumption DEF NextSlot, At, Slots
  <2>4. CASE Skip
    <3>1. /\ UNCHANGED <<now, served, timer, sources, schedules>>
          /\ pc \in Comparing /\ pc' = "slot" /\ slot' = slot + 1
      BY <2>4 DEF Skip, IsPast, NextSlot
    <3>2. \A i \in served : i < slot => i < slot'
      BY <2>1, <3>1 DEF Slots
    <3> QED BY <2>1, <3>1, <3>2 DEF At
  <2> QED BY <1>9, <2>2, <2>3, <2>4
<1>10. CASE ScanDone \/ MotorOn \/ Running \/ MotorOff \/ Sleep
  BY <1>2, <1>10 DEF ScanDone, MotorOn, Running, MotorOff, Sleep
<1>11. CASE NullAccess
  BY <1>3, <1>11 DEF NullAccess, Die
<1>12. CASE Publish
  BY <1>2, <1>12 DEF Publish, SprinklerInit, Scheduled, PubStart, PubRunning, PubEnd
<1> QED BY <1>1, <1>5, <1>6, <1>7, <1>8, <1>9, <1>10, <1>11, <1>12, <1>13
        DEF Next, Local, vars

(* No slot fires twice in a minute without an edit of it, or a scan that    *)
(* was given another time, in between: whenever edits, clock ticks and the  *)
(* light thread's stores come.                                              *)
THEOREM FiresOncePerMinute == Spec => OncePerMinute
<1>1. Init => HoldsCopy /\ ServedInv
  BY DEF Init, HoldsCopy, ServedInv, Comparing, AtSlot, ScanPCs, ReadPCs
<1>2. TypeOK /\ HoldsCopy /\ OwnTime /\ ServedInv /\ [Next]_vars
        => [Fires => slot \notin served]_vars
  <2> SUFFICES ASSUME TypeOK, HoldsCopy, OwnTime, ServedInv, [Next]_vars, Fires,
                      slot \in served
               PROVE  FALSE
    OBVIOUS
  <2> USE DEF Comparing, AtSlot, ScanPCs, ReadPCs
  <2>1. pc = "dueMin" /\ tm.min = cur.min /\ cur.is_run = 0
    BY FiresIsFire DEF Fire, IsDue
  <2>2. slot \in Nat
    BY <2>1 DEF HoldsCopy, Slots
  <2>3. timer = now /\ sources = {timer} /\ cur = schedules[slot]
    BY <2>1, <2>2 DEF ServedInv
  <2>4. At(cur, timer)
    BY <2>1, <2>3 DEF OwnTime, At
  <2> QED BY <2>1, <2>3, <2>4 DEF ServedInv
<1> QED BY <1>1, <1>2, Typing, HoldsCopyStep, OwnTimeInit, OwnTimeStep,
           ServedInvStep, PTL DEF Spec, OncePerMinute
=============================================================================
