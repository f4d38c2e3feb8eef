------------------------------ MODULE Sprinkler ------------------------------
(***************************************************************************)
(* The sprinkler thread (daemon/sprinkler.c) with everything it shares:    *)
(*   - the wall clock, and the struct tm that localtime() keeps for the    *)
(*     whole process and that light_handler (daemon/light.c) overwrites;   *)
(*   - running_time, stored by the MQTT receiver thread (mqtt_onReceiver); *)
(*   - schedules[], changed by add_/edit_/delete_schedule.  No file calls  *)
(*     them yet; as the thread never leaves its loop, a caller is another  *)
(*     thread, or the main thread before pthread_create;                   *)
(*   - the pump's pin, which outlives the process.                         *)
(* A step of the thread is the code between two accesses to shared state   *)
(* or two blocking calls: a publish is the first thing of its step, so a   *)
(* thread that hangs in the broker's socket is one that does not take it.  *)
(***************************************************************************)
EXTENDS Integers, FiniteSets

CONSTANTS
  SCHEDULE_SIZE,       \* slots of schedules[]                      (code: 5)
  HOURS, MINS,         \* hours of a day, minutes of an hour  (code: 24, 60)
  DefaultRunningTime,  \* initial running_time, in loop iterations (code: 50)
  ConfigValues,        \* what atoi yields for the configuration messages
  TicksPerMinute,      \* a minute lasts for at least this many iterations
  LightThread,         \* does a second thread call localtime()?
  EditPoints,          \* values of pc at which another thread edits schedules
  OpenResults,         \* can farm_open succeed (TRUE), fail (FALSE)?
  MaxCrashes,          \* bound on the crashes of the daemon
  NULL

ASSUME ConstantsAssumption ==
  /\ SCHEDULE_SIZE \in Nat
  /\ HOURS \in Nat \ {0} /\ MINS \in Nat \ {0}
  /\ DefaultRunningTime \in Nat
  /\ ConfigValues \subseteq Int
  /\ TicksPerMinute \in Nat /\ MaxCrashes \in Nat
  /\ LightThread \in BOOLEAN /\ OpenResults \subseteq BOOLEAN

VARIABLES
  now,           \* the wall clock, [hour, min]
  ticks,         \* iterations completed in this minute, up to TicksPerMinute
  served,        \* history: the slots that fired in this minute (see below)
  grace,         \* history: minutes, with this one, that may miss a schedule
  tm,            \* localtime()'s static struct tm
  lightTime,     \* the light thread's time(NULL)
  lightTodo,     \* the fields of tm its localtime() has still to store
  sources,       \* history: the times stored in tm since the scan began
  clean,         \* history: no other time and no edit since the scan began
  pc, state,     \* the sprinkler thread: next step, static state
  slot, cur,     \* sprinkler_scheduling: i, and its copies of schedules[i]
  timer,         \* sprinkler_scheduling: its time(NULL)
  t,             \* iterations the pump has run
  running_time, schedules,
  fd,            \* is farm_fd an open device?
  motor,         \* level of the pump's pin
  orphaned,      \* history: the daemon died with the pump on, still not off
  status,        \* last message handed to MQTT on the status topic
  crashes

clockVars == <<now, ticks, served, grace>>
tmVars    == <<tm, lightTime, lightTodo, sources, clean>>
scanVars  == <<slot, cur, timer>>
waterVars == <<t, running_time>>
pinVars   == <<fd, motor, orphaned>>
vars == <<clockVars, tmVars, scanVars, waterVars, pinVars,
          pc, state, schedules, status, crashes>>

Slots    == 0 .. SCHEDULE_SIZE - 1
Times    == [hour : 0 .. HOURS - 1, min : 0 .. MINS - 1]
Midnight == [hour |-> 0, min |-> 0]
Schedule == [hour : 0 .. HOURS - 1, min : 0 .. MINS - 1, is_run : {0, 1}]
States   == {"INIT", "SCHEDULING", "SCHEDULED", "START", "RUNNING", "END"}
ReadPCs  == {"readHour", "readMin", "readRun"}
ScanPCs  == {"slot", "dueHour", "dueMin", "elseHour", "elseMin"} \cup ReadPCs
PCs      == {"down", "init", "state", "pubRunning", "motorOn", "pubEnd",
             "sleep"} \cup ScanPCs
Statuses == {"none", "Init", "Scheduled!", "START!", "RUNNING", "END!"}

(* An empty slot is no schedule. *)
ASSUME NullAssumption == NULL \notin Schedule

At(s, time) == s.hour = time.hour /\ s.min = time.min

Init ==
  /\ now = Midnight /\ ticks = 0 /\ served = {} /\ grace = 2
  /\ tm = Midnight /\ lightTime = Midnight /\ lightTodo = {}
  /\ sources = {} /\ clean = FALSE
  /\ pc = "down" /\ state = "INIT"
  /\ slot = 0 /\ cur = NULL /\ timer = NULL
  /\ t = 0 /\ running_time = DefaultRunningTime
  /\ schedules = [i \in Slots |-> NULL]
  /\ fd = FALSE /\ motor = 0 /\ orphaned = FALSE
  /\ status = "none" /\ crashes = 0

-----------------------------------------------------------------------------
(* The environment: the clock, the other threads, the process's life. *)

NextMinute(time) ==
  IF time.min < MINS - 1
  THEN [time EXCEPT !.min = @ + 1]
  ELSE [hour |-> IF time.hour < HOURS - 1 THEN time.hour + 1 ELSE 0, min |-> 0]

(* The clock only moves forward.  While the thread is up, a minute lasts    *)
(* for TicksPerMinute iterations of its loop or longer (0: no assumption).  *)
ClockTick ==
  /\ pc \in {"down", "init"} \/ ticks >= TicksPerMinute
  /\ now' = NextMinute(now) /\ ticks' = 0 /\ served' = {}
  /\ grace' = IF grace > 0 THEN grace - 1 ELSE 0
  /\ UNCHANGED <<tmVars, scanVars, waterVars, pinVars,
                 pc, state, schedules, status, crashes>>

(* light_handler: timer = time(NULL); t = localtime(&timer); *)
LightTime ==
  /\ LightThread /\ pc # "down" /\ lightTodo = {}
  /\ lightTime' = now /\ lightTodo' = {"hour", "min"}
  /\ UNCHANGED <<clockVars, tm, sources, clean, scanVars, waterVars, pinVars,
                 pc, state, schedules, status, crashes>>

(* localtime() stores the fields one by one.  A store that gives a scan      *)
(* another time than its own is what the history variables are for.          *)
Disturbs == pc \in ScanPCs /\ lightTime # timer

LightStore(field) ==
  /\ field \in lightTodo
  /\ tm' = [tm EXCEPT ![field] = lightTime[field]]
  /\ lightTodo' = lightTodo \ {field}
  /\ lightTime' = IF lightTodo' = {} THEN Midnight ELSE lightTime
  /\ sources' = IF pc \in ScanPCs THEN sources \cup {lightTime} ELSE {}
  /\ clean' = (clean /\ ~Disturbs)
  /\ served' = IF Disturbs THEN {} ELSE served
  /\ grace' = IF Disturbs THEN 2 ELSE grace
  /\ UNCHANGED <<now, ticks, scanVars, waterVars, pinVars,
                 pc, state, schedules, status, crashes>>

(* mqtt_onReceiver, a "running_time" message; another key changes nothing.  *)
(* The topic test lets every message of the one subscription through.       *)
OnReceiver(value) ==
  /\ pc \notin {"down", "init"}
  /\ running_time' = value
  /\ UNCHANGED <<clockVars, tmVars, scanVars, t, pinVars,
                 pc, state, schedules, status, crashes>>

(* The schedule calls.  add_schedule takes the first free slot; on a full   *)
(* table, and edit_/delete_schedule on an empty slot, do nothing.           *)
SetSlot(i, value) ==
  /\ pc \in EditPoints
  /\ schedules' = [schedules EXCEPT ![i] = value]
  /\ served' = served \ {i} /\ grace' = 2 /\ clean' = FALSE
  /\ UNCHANGED <<now, ticks, tm, lightTime, lightTodo, sources, scanVars,
                 waterVars, pinVars, pc, state, status, crashes>>

AddScheduleDirty(time) ==                   \* mutant: is_run as malloc left it
  \E i \in Slots :
    /\ schedules[i] = NULL /\ \A j \in 0 .. i - 1 : schedules[j] # NULL
    /\ SetSlot(i, [hour |-> time.hour, min |-> time.min, is_run |-> 2])

AddSchedule(time) ==
  \E i \in Slots :
    /\ schedules[i] = NULL /\ \A j \in 0 .. i - 1 : schedules[j] # NULL
    /\ SetSlot(i, [hour |-> time.hour, min |-> time.min, is_run |-> 0])

EditSchedule(id, time) ==
  /\ schedules[id] # NULL
  /\ SetSlot(id, [hour |-> time.hour, min |-> time.min, is_run |-> 0])

DeleteSchedule(id) ==
  /\ schedules[id] # NULL
  /\ SetSlot(id, NULL)

(* main opens the device file, which works or does not, looks at no result, *)
(* and creates the threads.  (Before that it publishes for itself, which    *)
(* may hang: Mqtt.tla.)                                                     *)
Start ==
  /\ pc = "down"
  /\ pc' = "init" /\ fd' \in OpenResults
  /\ UNCHANGED <<clockVars, tmVars, scanVars, waterVars, motor, orphaned,
                 state, schedules, status, crashes>>

(* The process is gone with its memory; nothing resets the pin. *)
Die ==
  /\ tm' = Midnight /\ lightTime' = Midnight /\ lightTodo' = {}
  /\ sources' = {} /\ clean' = FALSE
  /\ pc' = "down" /\ state' = "INIT"
  /\ slot' = 0 /\ cur' = NULL /\ timer' = NULL
  /\ t' = 0 /\ running_time' = DefaultRunningTime
  /\ schedules' = [i \in Slots |-> NULL]
  /\ fd' = FALSE /\ orphaned' = (motor = 1) /\ served' = {}
  /\ UNCHANGED <<now, ticks, grace, motor, status>>

Crash ==
  /\ pc # "down" /\ crashes < MaxCrashes
  /\ crashes' = crashes + 1
  /\ Die

-----------------------------------------------------------------------------
(* The sprinkler thread. *)

(* sprinkler_init, up to its loop, which begins at any point of a minute. *)
SprinklerInit ==
  /\ pc = "init"
  /\ pc' = "state" /\ state' = "SCHEDULING" /\ status' = "Init"
  /\ ticks' \in 0 .. TicksPerMinute /\ grace' = 2
  /\ UNCHANGED <<now, served, tmVars, scanVars, waterVars, pinVars,
                 schedules, crashes>>

(* sprinkler_scheduling: t = localtime(&timer).  The library locks the      *)
(* conversion, not the struct: the call waits for another thread's stores   *)
(* to end, the reads that follow do not.                                    *)
Scheduling ==
  /\ pc = "state" /\ state = "SCHEDULING" /\ Cardinality(lightTodo) # 1
  /\ timer' = now /\ tm' = now /\ slot' = 0 /\ pc' = "slot"
  /\ sources' = {now} /\ clean' = TRUE
  /\ UNCHANGED <<clockVars, lightTime, lightTodo, cur, waterVars, pinVars,
                 state, schedules, status, crashes>>

(* The end of the loop over the slots; its locals go out of scope. *)
ScanDone ==
  /\ pc = "slot" /\ slot = SCHEDULE_SIZE
  /\ pc' = "sleep" /\ slot' = 0 /\ timer' = NULL
  /\ sources' = {} /\ clean' = FALSE
  /\ UNCHANGED <<clockVars, tm, lightTime, lightTodo, cur, waterVars, pinVars,
                 state, schedules, status, crashes>>

(* if( schedules[i] != NULL ) *)
LoadSlot ==
  /\ pc = "slot" /\ slot < SCHEDULE_SIZE
  /\ IF schedules[slot] = NULL
     THEN slot' = slot + 1 /\ UNCHANGED pc
     ELSE pc' = "readHour" /\ UNCHANGED slot
  /\ UNCHANGED <<clockVars, tmVars, cur, timer, waterVars, pinVars,
                 state, schedules, status, crashes>>

(* hour, min and is_run are read one after the other, each through the      *)
(* pointer.  (Until its turn a field of cur has a value nobody reads.)      *)
LoadField ==
  /\ pc \in ReadPCs /\ schedules[slot] # NULL
  /\ \/ pc = "readHour" /\ pc' = "readMin" /\ cur' = schedules[slot]
     \/ pc = "readMin"  /\ pc' = "readRun"
        /\ cur' = [cur EXCEPT !.min = schedules[slot].min]
     \/ pc = "readRun"  /\ pc' = "dueHour"
        /\ cur' = [cur EXCEPT !.is_run = schedules[slot].is_run]
  /\ UNCHANGED <<clockVars, tmVars, slot, timer, waterVars, pinVars,
                 state, schedules, status, crashes>>

(* The conditions of the two branches.  t is read again at each comparison; *)
(* && and || stop at the first answer.                                      *)
IsDueAnyMinute == pc = "dueMin" /\ cur.is_run = 0           \* mutant
IsDueAgain     == pc = "dueMin" /\ tm.min = cur.min         \* mutant
IsDue          == pc = "dueMin" /\ tm.min = cur.min /\ cur.is_run = 0

IsPastByHour == pc = "elseHour" /\ tm.hour # cur.hour       \* mutant
IsPast       == \/ pc = "elseHour" /\ tm.hour # cur.hour
                \/ pc = "elseMin" /\ tm.min # cur.min

Compare ==
  /\ \/ pc = "dueHour" /\ tm.hour = cur.hour /\ pc' = "dueMin"
     \/ pc = "dueHour" /\ tm.hour # cur.hour /\ pc' = "elseHour"
     \/ pc = "dueMin" /\ ~IsDue /\ pc' = "elseHour"
     \/ pc = "elseHour" /\ tm.hour = cur.hour /\ pc' = "elseMin"
  /\ UNCHANGED <<clockVars, tmVars, scanVars, waterVars, pinVars,
                 state, schedules, status, crashes>>

NextSlot == slot' = slot + 1 /\ cur' = NULL /\ pc' = "slot"

Fire ==
  /\ IsDue /\ schedules[slot] # NULL
  /\ state' = "SCHEDULED"
  /\ schedules' = [schedules EXCEPT ![slot].is_run = 1]
  /\ served' = served \cup {slot}
  /\ NextSlot
  /\ UNCHANGED <<now, ticks, grace, tmVars, timer, waterVars, pinVars,
                 status, crashes>>

Rearm ==
  /\ IsPast /\ cur.is_run = 1 /\ schedules[slot] # NULL
  /\ schedules' = [schedules EXCEPT ![slot].is_run = 0]
  /\ NextSlot
  /\ UNCHANGED <<clockVars, tmVars, timer, waterVars, pinVars,
                 state, status, crashes>>

Skip ==
  /\ \/ IsPast /\ cur.is_run = 0
     \/ pc = "elseMin" /\ ~IsPast
  /\ NextSlot
  /\ UNCHANGED <<clockVars, tmVars, timer, waterVars, pinVars,
                 state, schedules, status, crashes>>

(* delete_schedule came between the test of the pointer and a read or the   *)
(* store through it.                                                        *)
NullAccess ==
  /\ pc \in ReadPCs \/ IsDue \/ (IsPast /\ cur.is_run = 1)
  /\ schedules[slot] = NULL
  /\ Die /\ UNCHANGED crashes

ScheduledForgets ==                               \* mutant: no state = START
  /\ pc = "state" /\ state = "SCHEDULED"
  /\ status' = "Scheduled!" /\ pc' = "sleep"
  /\ UNCHANGED <<clockVars, tmVars, scanVars, waterVars, pinVars,
                 state, schedules, crashes>>

Scheduled ==
  /\ pc = "state" /\ state = "SCHEDULED"
  /\ status' = "Scheduled!" /\ state' = "START" /\ pc' = "sleep"
  /\ UNCHANGED <<clockVars, tmVars, scanVars, waterVars, pinVars,
                 schedules, crashes>>

(* sprinkler_start: two publishes, then the pump. *)
PubStart ==
  /\ pc = "state" /\ state = "START"
  /\ status' = "START!" /\ pc' = "pubRunning"
  /\ UNCHANGED <<clockVars, tmVars, scanVars, waterVars, pinVars,
                 state, schedules, crashes>>

PubRunning ==
  /\ pc = "pubRunning"
  /\ status' = "RUNNING" /\ pc' = "motorOn"
  /\ UNCHANGED <<clockVars, tmVars, scanVars, waterVars, pinVars,
                 state, schedules, crashes>>

(* ioctl(farm_fd, MOTOR_ON / MOTOR_OFF): fails, unseen, without a device. *)
IoctlFallsThrough(level) == motor' = IF fd THEN 1 ELSE motor     \* mutant
Ioctl(level)             == motor' = IF fd THEN level ELSE motor

MotorOn ==
  /\ pc = "motorOn"
  /\ state' = "RUNNING" /\ pc' = "sleep"
  /\ Ioctl(1)
  /\ UNCHANGED <<clockVars, tmVars, scanVars, waterVars, fd, orphaned,
                 schedules, status, crashes>>

StillRunningOneMore == t <= running_time                         \* mutant
StillRunning        == t < running_time

Running ==
  /\ pc = "state" /\ state = "RUNNING" /\ pc' = "sleep"
  /\ IF StillRunning
     THEN t' = t + 1 /\ UNCHANGED state
     ELSE t' = 0 /\ state' = "END"
  /\ UNCHANGED <<clockVars, tmVars, scanVars, running_time, pinVars,
                 schedules, status, crashes>>

(* sprinkler_end: the pump first, then the publish. *)
MotorOff ==
  /\ pc = "state" /\ state = "END" /\ pc' = "pubEnd"
  /\ Ioctl(0)
  /\ orphaned' = (orphaned /\ ~fd)
  /\ UNCHANGED <<clockVars, tmVars, scanVars, waterVars, fd,
                 state, schedules, status, crashes>>

PubEnd ==
  /\ pc = "pubEnd"
  /\ status' = "END!" /\ state' = "SCHEDULING" /\ pc' = "sleep"
  /\ UNCHANGED <<clockVars, tmVars, scanVars, waterVars, pinVars,
                 schedules, crashes>>

(* sleepu(100000), the end of an iteration. *)
Sleep ==
  /\ pc = "sleep" /\ pc' = "state"
  /\ ticks' = IF ticks < TicksPerMinute THEN ticks + 1 ELSE ticks
  /\ UNCHANGED <<now, served, grace, tmVars, scanVars, waterVars, pinVars,
                 state, schedules, status, crashes>>

Publish == SprinklerInit \/ Scheduled \/ PubStart \/ PubRunning \/ PubEnd
Local   == \/ Scheduling \/ ScanDone \/ LoadSlot \/ LoadField \/ Compare
           \/ Fire \/ Rearm \/ Skip \/ NullAccess
           \/ MotorOn \/ Running \/ MotorOff \/ Sleep

Environment ==
  \/ ClockTick \/ LightTime \/ \E field \in {"hour", "min"} : LightStore(field)
  \/ \E value \in ConfigValues : OnReceiver(value)
  \/ \E time \in Times : AddSchedule(time)
  \/ \E id \in Slots, time \in Times : EditSchedule(id, time)
  \/ \E id \in Slots : DeleteSchedule(id)
  \/ Start \/ Crash

Next == Environment \/ Local \/ Publish

Spec == Init /\ [][Next]_vars

(* The thread is scheduled and its own code takes finite time; nothing is   *)
(* said of the broker, whose publishes may hang for ever.                   *)
LocalFairSpec == Spec /\ WF_vars(Local)

(* Publishes return as well, time passes, a dead daemon is started, and the *)
(* light thread leaves localtime(), whose lock the scan gets in the end.    *)
FairSpec ==
  /\ LocalFairSpec /\ WF_vars(Publish) /\ WF_vars(ClockTick) /\ WF_vars(Start)
  /\ WF_vars(\E field \in {"hour", "min"} : LightStore(field))
  /\ SF_vars(Scheduling)

-----------------------------------------------------------------------------
TypeOK ==
  /\ now \in Times /\ ticks \in 0 .. TicksPerMinute /\ served \subseteq Slots
  /\ tm \in Times /\ lightTime \in Times /\ lightTodo \subseteq {"hour", "min"}
  /\ sources \subseteq Times /\ clean \in BOOLEAN /\ grace \in 0 .. 2
  /\ pc \in PCs /\ state \in States
  /\ slot \in 0 .. SCHEDULE_SIZE
  /\ cur \in Schedule \cup {NULL} /\ timer \in Times \cup {NULL}
  /\ t \in Nat /\ running_time \in ConfigValues \cup {DefaultRunningTime}
  /\ schedules \in [Slots -> Schedule \cup {NULL}]
  /\ fd \in BOOLEAN /\ motor \in {0, 1} /\ orphaned \in BOOLEAN
  /\ status \in Statuses /\ crashes \in 0 .. MaxCrashes

(* The pump is on only between motor_on and the motor_off of the same cycle *)
(* (sprinkler.c, START to END), or because a daemon died with the pump on   *)
(* and no motor_off has reached the pin since.                              *)
PumpOnlyInCycle ==
  motor = 1 => orphaned \/ (state \in {"RUNNING", "END"} /\ pc # "pubEnd")

AtPublish ==
  \/ pc \in {"init", "pubRunning", "pubEnd"}
  \/ pc = "state" /\ state \in {"SCHEDULED", "START"}

(* The thread has no message to hand to the broker while its pump is on:    *)
(* sprinkler_start publishes before motor_on, sprinkler_end after motor_off *)
(* so a publish that hangs never keeps the water running.                   *)
QuietWhilePumpOn == motor = 1 /\ ~orphaned => ~AtPublish

(* The static counter t of sprinkler_running starts every cycle at zero and *)
(* never passes the largest value there is for running_time, whenever the   *)
(* receiver thread stores another one.                                      *)
CycleTimer ==
  /\ t # 0 => state = "RUNNING"
  /\ t # 0 => \E v \in ConfigValues \cup {DefaultRunningTime} : t <= v

(* At the end of a scan the is_run flags are those of the minute the scan   *)
(* looked at: set for every slot due then, cleared for every other one, so  *)
(* each schedule is armed again before its time comes back.  This is        *)
(* promised of a scan during which no other thread stored another time in   *)
(* the struct tm (sprinkler.c:123, light.c:191) and none edited the table.  *)
FlagsMatchScan ==
  pc = "slot" /\ slot = SCHEDULE_SIZE /\ clean =>
    \A i \in Slots : schedules[i] # NULL =>
                       (schedules[i].is_run = 1 <=> At(schedules[i], timer))

Fires == pc = "dueMin" /\ pc' = "slot"

(* With the light thread in localtime() too, a schedule fires only if the   *)
(* copy of its hour and minute is the time the scan read, or another time   *)
(* came into the struct tm under the scan; and if no edit came either, the  *)
(* copy is still what the table says (the copy can be a mixture).           *)
FireOnTime ==
  [][Fires /\ sources = {timer} =>
       At(cur, timer) /\ (clean => cur = schedules[slot])]_vars

(* Of the other scans all that is left is that the hour and the minute were *)
(* each stored in the struct tm since the scan began: 7:00 can fire when    *)
(* the struct turns from 7:59 to 8:00.                                      *)
FireIsMixture ==
  [][Fires => \E a, b \in sources : cur.hour = a.hour /\ cur.min = b.min]_vars

(* A slot that fired does not fire again in the same minute, unless it was  *)
(* edited or a scan was given another time meanwhile (served drops it       *)
(* then: a light thread stopped between its time() and its stores can make  *)
(* a scan find a slot past, arm it again, and have it fire a second time).  *)
OncePerMinute == [][Fires => slot \notin served]_vars

(* No minute ends with a due schedule that has not fired in it, if a minute *)
(* holds a whole cycle (TicksPerMinute): a scan comes in every minute, even *)
(* when one schedule's cycle runs into the minute of the next.  Left out    *)
(* (grace) are the minute of an edit, of the start of the thread and of a   *)
(* scan that another thread's localtime() gave another time, and the next   *)
(* minute: such a scan may skip a slot, or mark one that comes up then.     *)
NoMissedSchedule ==
  [][now' # now /\ pc \notin {"down", "init"} /\ grace = 0 =>
       \A i \in Slots : schedules[i] # NULL /\ At(schedules[i], now)
                         => i \in served]_vars

(* What the pump and the status topic promise (Irrigation.tla). *)
Promise == INSTANCE Irrigation WITH pump <- motor
IrrigationSafety == Promise!Init /\ [][Promise!Next]_(Promise!vars)
IrrigationSpec   == Promise!Spec

(* A pump that is on is turned off, whatever the broker does.               *)
PumpEventuallyOff == motor = 1 ~> motor = 0

(* A schedule that fired gets its water, if publishes return and the daemon *)
(* lives.                                                                   *)
ScheduledGetsWater == state = "SCHEDULED" ~> motor = 1 \/ pc = "down"

(* Nothing turns off the pump of a dead daemon but the end of a later cycle *)
(* (main opens the device and never resets it).  With a schedule in the new *)
(* daemon's table, and an undisturbed minute behind it, that cycle comes,   *)
(* or is put off by another disturbance (grace) or the daemon's death.      *)
OrphanRecovered ==
  orphaned /\ grace = 0 /\ state # "INIT" /\ (\E i \in Slots : schedules[i] # NULL)
    ~> motor = 0 \/ grace = 2
=============================================================================
