# A verification of the smart farm

The repository is a small smart farm for a Raspberry Pi: a Linux kernel module
that drives GPIO pins (pump, LED, speaker, the SPI chip select, a DHT sensor),
thin user-space APIs over its ioctls, and a daemon with a sprinkler thread and a
light thread that talks to an MQTT broker. This directory holds TLA+ models of
its logic, the TLC runs that check them on small instances, and TLAPS proofs of
their most important properties for every instance.

## Inventory

| Part | State it keeps | Operations | Interacts by |
|---|---|---|---|
| sprinkler thread, `daemon/sprinkler.c` | `state`, `t`, `running_time`, `schedules[5]`, `farm_fd`, topics | `sprinkler_init`, the six state handlers, `mqtt_onReceiver`, `add_/edit_/delete_schedule` | ioctls, publishes, `localtime()`'s process-wide struct, stores of the receiver thread |
| light thread, `daemon/light.c` | `count`, `prevavglux`, `deltalux`, `season`, `nightday` | `light_init`, `light_func_test`, `light_handler` | callback from `SPI_Register_Handler`, the same struct tm |
| daemon start, `daemon/main.c` | none that matters after the start | `main` | publishes for itself (which may hang), opens the device, starts both threads |
| MQTT helpers, `daemon/util.c` | a connection, in the library and at the broker | `mqtt_create/pub/sub/topic/destroy`, `get_setting`, `destroy_setting`, `logging` | Paho client (vendored) |
| farm API, `farm_api.c` | `farm_fd` | `farm_open/close`, `sleepm`, `sleepu`, `sleepu_hard` | every other part sleeps through it |
| SPI API, `spi_api.c` | `fd`, `speeds`, the locals of the sampling loop | `SPI_SetupMode`, `SPI_Read_Value`, `SPI_Register_Handler` | spidev, ioctl for the chip select |
| motor, LED, speaker APIs | speaker: threads it creates | `*_on/_off`, `speaker_play/stop` | ioctl |
| DHT API, `dht_api.c` | `dht11_dat` | `DHT_get_data` and pin calls | ioctl, timing |
| kernel module, `farm.c` and `motor.c led.c speaker.c spi.c dht.c` | the pins, the character device | `farm_init/exit`, `farm_ioctl` | any process that has the device open |

What is hard about it: three threads share statics without a lock; libc's
`localtime` result is shared too; the pump's pin outlives the process; publishes
block; nobody looks at the result of an open, an ioctl, a publish or a sleep; time is
counted in loop iterations. `PROJECT.json` lists each hazard at its line.

What makes the parts correct:

- sprinkler: a schedule fires at its time, once, and none is missed; the pump is on
  only within a cycle and goes off again; nothing that can hang stands between on and off;
- light: an average is of its own window, deltas and checks come at an even pace, the
  season and the time of day are those of the call;
- speaker: overlapping plays leave no sound on;
- sleeps: for as long as was asked;
- kernel module: a command moves the pins of its device; loads and unloads leave the pins
  low but for calls that come between the steps of an unload, and init.sh leaves a device file that opens;
- connection: what the topic shows last is true of the pump as far as the device opened, or its loss is; settings arrive;
- settings: a message yields its key and value; DHT: a reading is one the sensor sent, and
  the call returns.

## Modules

| Module | Models | Checked by |
|---|---|---|
| `Sprinkler` | `sprinkler.c` whole, with the clock, the struct tm, the other threads, crashes | `MCSprinkler_*.cfg` |
| `Irrigation` | abstract: the pump and the status topic as an onlooker sees them | refined in `promise` |
| `SprinklerProofs` | theorems about `Sprinkler` | TLAPS |
| `ScheduleProofs` | that `Sprinkler` misses no schedule; extends `SprinklerProofs` | TLAPS |
| `Light` | `SPI_Register_Handler` and the counting part of `light_handler` | `Light_window.cfg` |
| `LightProofs` | theorems about `Light` | TLAPS |
| `Season` | the comparison chain of `light_handler` on the shared struct tm | `Season_*.cfg` |
| `SeasonProofs` | theorems about `Season` | TLAPS |
| `FarmDevice` | the pins, the command numbers of both sides, `farm_ioctl` and the devices' functions, as operators | through `Farm` and `Dht` |
| `Farm` | `farm_init`, `farm_exit`, init.sh and mknod.sh; extends `FarmDevice` | through `Speaker` |
| `Speaker` | `speaker_api.c`, `led_api.c`, `motor_api.c`: a program with its threads on the module of `Farm`, which it extends | `Speaker_*.cfg` |
| `SpeakerProofs` | theorems about `Speaker` and `Farm` | TLAPS |
| `Sleep` | `farm_api.c`'s sleeps, and a thread that calls them | through `MCDht` |
| `SleepProofs` | theorems about them | TLAPS |
| `Dht` | `dht_api.c`'s `DHT_get_data`, the sensor and the scheduler; extends `FarmDevice` | `MCDht.cfg` |
| `DhtProofs` | theorems about `Dht` | TLAPS |
| `Settings` | `get_setting` and the messages it reads, as operators | through `MCMqtt` |
| `Mqtt` | the sprinkler's connection, and `main` before it: `mqtt_create`, `mqtt_pub`, `mqtt_sub`, `mqtt_onReceiver`, the broker, an onlooker and the server; extends `Settings`, instantiates `Irrigation` | `MCMqtt_*.cfg` |
| `MqttProofs` | theorems about `Mqtt` | TLAPS |

`MCSprinkler`, `MCDht` and `MCMqtt` give TLC the constants of the instances. `MCDht`
puts the sleeps next to the reading they time; the two share nothing, so their calls come between readings only.

### Sprinkler

`pc` is the next step of the thread, `state` the static of the same name. A step is
the code between two accesses to something shared or two blocking calls:
`sprinkler_scheduling` is `Scheduling` (time and localtime), then for each slot
`LoadSlot` (the test for NULL), three times `LoadField` (the reads of hour, min and is_run,
each through the pointer), one `Compare` per condition that
reads `t->tm_hour` or `t->tm_min`, and `Fire`, `Rearm` or `Skip`; `NullAccess` is a read or a
store through a pointer that `delete_schedule` has cleared since the test. A publish is
the first thing of its step, so a thread that hangs in one is a thread that does not
take the step; `sprinkler_start` is therefore `PubStart`, `PubRunning`, `MotorOn`, and
`sprinkler_end` is `MotorOff`, `PubEnd`.

The environment: `ClockTick`; `LightTime` and `LightStore`, the light thread's
`localtime()` field by field (libc serialises the conversions, not the reads that
follow), which is on in every run, since main.c:79 always starts that thread; `OnReceiver`;
the schedule calls, which no file of the repository calls and which
`EditPoints` allows at chosen points; `Start`, `Crash`. `Die` forgets the memory and
keeps the pin.

Some variables are the model's, not the program's:

- `now`, `ticks`: the clock, and the iterations of the current minute;
- `sources`: the times stored in the struct during the scan; `clean`: neither another time nor an edit came since
  the scan began;
- `served`: the slots that fired in this minute. An edit takes its slot out, and a store of another time under a
  scan takes out all: a light thread stopped between `time()` and its stores over the end of a minute can make a scan
  find a slot past that has just fired, and arm it again. `OncePerMinute` does not hold of that;
- `grace`: 2 in the minute of the thread's start, of an edit and of such a store, 1 in the next, else 0. A schedule may
  be missed in those two: skipped at once, or marked too early and found marked when its minute comes;
- `orphaned`: the pump was left on by a dead daemon.

Bounds. A day has 2 hours of 2 minutes in `minutes`: enough for the hour and the minute to differ
separately, for a day to come back, and for slots in different minutes; elsewhere 2 minutes.
`SCHEDULE_SIZE` is 2 in `minutes` (two schedules, one of whose cycles runs into the minute of the other) and 1 elsewhere,
instead of 5; `running_time` is 0 to 2; at most one crash. `ticks` saturates at
`TicksPerMinute`, the assumption on how many iterations a minute holds: on the machine
about 600. It is 0 (no assumption) wherever a property does not need it. It is 7 in
`minutes`, where the longest cycle is 1 + 6 iterations: 6 fails, so the bound is tight,
and on the machine it means a `running_time` up to about 594.

| Run | What it shows |
|---|---|
| `edits` | with edits and deletes at every point of the thread, between the reads of a copy and before the store included, ticks inside the scan, the light thread, a device that does not open and a crash: the pump is on only within a cycle or orphaned (`PumpOnlyInCycle`), nothing is published while it is on (`QuietWhilePumpOn`), `t` never runs on into the next cycle (`CycleTimer`); a schedule fires at its time if no other time came under the scan, and as the table has it if no edit came either (`FireOnTime`), and once a minute, but for the cases `served` leaves out (`OncePerMinute`) |
| `minutes` | slots at any minutes, the light thread, ticks at any point: after every `clean` scan exactly the due slots are marked (`FlagsMatchScan`), so each is armed before its time comes back; no schedule is missed but in a minute of `grace`, when a minute holds a cycle (`NoMissedSchedule`); `FireOnTime` and `OncePerMinute` with two slots; of the other scans `FireIsMixture` is left: hour and minute were each true during the scan |
| `promise` | the thread implements `Irrigation` with its fairness (`IrrigationSpec`), so the pump goes off though publishes may hang for ever (`PumpEventuallyOff`) |
| `recovery` | an orphaned pump is turned off by the end of a later cycle, if the new daemon has a schedule and once a minute is undisturbed, or another disturbance puts it off (`OrphanRecovered`); a schedule that fired gets its water, if the daemon lives (`ScheduledGetsWater`) |

Fairness. `LocalFairSpec` is weak fairness of the thread's own steps that do not block:
an ordinary pthread is scheduled, and its code between blocking calls is finite.
Nothing is assumed of publishes. `FairSpec`, for `recovery` only, adds
that publishes return, that time passes, that somebody starts a dead daemon again, that the light thread
finishes a `localtime()` it has begun, and strong fairness of `Scheduling`: the lock in `localtime()` does not starve
the thread that waits for it.

### Light and Season

The light thread never leaves the loop in `SPI_Register_Handler`, so `Light` is that
loop: `Collect` adds a sample, `Respond` calls the handler and drops its sample. Time is
the seconds slept. The run `light_window` has the code's own parameters (1, 10, 1) with
samples 0 and 3. `Light` leaves season and time of day to `Season`, which models each
comparison as a step, since the sprinkler's `localtime()` changes the struct in between:
in `season_shared` a call that no other time disturbs gives the season of its moment
(`CallIsExact`), the others only mixtures. The clock advances by hours of the set `Hours`
(in the run before, at and after dawn and dusk of different seasons), at most one
during a call. `season_calendar` shows the
conditions to be one month off the comments.

### The kernel module and the speaker

`ApiCommand` is the numbers programs send, `MotorCommand` and its sisters those the
module's `switch` knows; `Written` is that `switch`, with the missing break of `LED_ON`.
`Farm` has one action for each command of init.sh. `Insmod` is `farm_init`: a number from the
kernel or, unseen, none; `LoadFails` is `cdev_add`'s error, which leaves the region. An rmmod works
under open files, because `farm_fops` has no `.owner`. mknod.sh makes a file only when
/proc/devices lists exactly one number.

`farm_exit` is not one step: `Rmmod` gives the region back, `ModuleExit` lowers the pins one after the other in the
order of farm.c:132-136, `FarmExited` is when the kernel frees the code. Calls through open files come at any point in
between. `lowered` is how far it has got; `late` the pins written after their own exit.

`Speaker` runs a program on it: a main thread that switches the pump and the LED, plays and
stops; each `speaker_play` runs its own loop. `main` says where the main thread is: gone (`none`), at liberty (`runs`), or in
`pthread_detach`, which speaker_api.c:40 calls with the return code of `pthread_create` for a thread. Nothing says
what becomes of that, so `PthreadDetach` returns or ends the process; the threads are never detached, and
a slot is not reused within a process. An open file becomes `stale` when the code goes. A call
through it works when another module has been loaded since (its code may have taken the place),
or kills the calling thread (`OopsMain`, `OopsPlay`). `lit` and `cut` say why the speaker's pin may
be high outside a round: a `LED_ON`, or a thread that died in one.

`speaker_overlap`: 2 threads of up to 2 rounds, 2 device numbers, deaths and runs of init.sh as often as
one likes, 479 000 states; with one thread no plays overlap, with one number a failed load leaves nothing for the next.
It shows `SoundHasCause`; `UnloadedLow`: without the module a pin is high only if a call through an open file wrote it
after its `module_*_exit` (that can happen: nothing stops a call between farm.c:132 and the end of `farm_exit`, and then
the pump stays on until the next load); `InitScript`: the script leaves a file that opens unless this load got no number or any
load since boot failed in `cdev_add`, after which no run of it ever does; and `SoundEnds`, under weak
fairness of each play thread (ordinary pthreads): a round silences what it sounded, unless the process dies or
`module_speaker_exit` came before it. A failing `cdev_alloc` (a crash of insmod in the
kernel) is left out; a failing `gpio_request_one` is not looked at by the code and the pin works or
not, so pins are those that were granted.

### Dht and Sleep

`Poll` is one `DHT_read_data() == laststate` with its sleep, `Reread` the rest of an iteration. The
sensor is `phase`, the level it is at, out of the 84 of a reading, and `left`, the polls the level still
lasts: `Elapse` after each poll, `Preempt` for as long as the thread is off the processor, `SensorStops` at any
point, which is also a device that did not open (its reads give 0). `missed` counts the edges that no
iteration was there for.

The run has bytes of 2 bits instead of 8 (10 bits of data, 25 iterations instead of 85: `MAXTIMINGS` is
2N + 5 in both), two values a byte, a timeout of 4 polls for 255, a threshold of 1 for 16 and one
preemption: enough for a lost edge at each place, for a level misjudged, and for a timeout in each
iteration. The theorems are for all sizes. Results:

- `InsideArray`: j stays at most 40, though the loop's bound would allow 41. The argument is that iteration i
  ends at level i + 1 or later, and there are 84 levels: it is about a sensor that keeps to its protocol or stops. One
  more edge on a disturbed line is outside the model, and there the code would store behind the array;
- `AcceptedMissesOne`: with two missed edges there are fewer than 40 bits. One missed edge, possible
  between the poll and the second read, is left to the checksum;
- `Honest`: a level misjudged by one preemption is found by the checksum;
- `Decodes`: undisturbed, the caller gets the reading; `Returns`: it always returns, under weak fairness
  of the thread (an ordinary thread of the program).

`Sleep` is a thread that asks for one argument after the other, with 1000 and 2^32 as parameters: TLC uses
10 and 4096, which keep the proportion that matters (a second of nanoseconds fits a long with half its range
to spare). Every argument up to 3000 microseconds, thirty seconds on this scale, is tried;
the proofs hold for all values, the real ones included.

### Mqtt and Settings

`Main` and `LoadModules` are main.c before its threads: it connects and publishes "Daemon Start" for itself, which may hang
and is then never followed by the sprinkler, and opens the device, which works or not (`device`). Then come the
sprinkler's steps. Of `Irrigation` the module takes the two that are about the status (`Promise!Restart`,
`Promise!Announce`), each with its `mqtt_pub`; the pump is its own, since the ioctls of a device that did not open fail
unseen (`Ioctl`), and `blind` says that the last `motor_off` was one of those.

`link` is the connection: `mqtt_create` gets it or not (nobody looks at the result), `LoseLink` loses it: there is no
callback, no ping and no retry in the code, so it stays lost until the process is restarted. `mqtt_sub` may fail or be
refused while the link is up, which nobody looks at either (`refused`). `wire` is what the broker still has to hand
to the onlooker. All is QoS 0: when a connection ends, by a loss or because the next process takes its client id, some
beginning of it survives (`AtMostOnce`), and `old` counts the statuses that are of earlier connections; `mine` says
that the one seen last is not. `lost` says that the thread's last status will never arrive. `Rejoin`
is an onlooker that subscribes anew and gets no retained message.

A payload is a sequence of symbols: words, spaces, zero bytes and single digits. `get_setting` copies it without a terminator
and cuts it with `strtok`, so its text goes on into whatever was freed there before (`Memory`, `Before`, `Words`).
`heap` is what the freed buffers of messages, copies and topic names hold, each without its head, where `free` keeps its
links. The receiver is `mqtt_onReceiver` on one message of `inbox`: fewer than three words end the process
(`strlen(NULL)`), a payload of no length is NULL and does nothing.

`mqtt_session`: 2 statuses under way, 2 settings, 2 losses, 2 deaths, five messages: two settings of one and two digits,
one of another key with a terminator, one cut short, one empty. Two of each is what it takes for a status of an
earlier connection to be followed by one of the present, and for a message to be read on into an earlier one;
1.3 million states. It shows

- `EndMeansOff`: whoever has seen "END!" last, with nothing more to come and nothing lost, sees a pump that is off,
  unless the `motor_off` of that cycle had no device to reach; over deaths, restarts and late statuses of earlier
  connections as well (each process begins with "Init"). Without the exception it does not hold: a daemon dies with
  the pump on, the next one's device does not open, and its cycle ends with "END!";
- `AnswersAreHeard`: a setting that answers a status of the present connection is received while that is up,
  unless it answers "Init", which is published before the subscription, or the subscription was refused;
- `RunningEnds`: "RUNNING" does not stay the last status, unless one is lost.

`FairSpec` is weak fairness of the thread's steps, `main`'s included (pthreads whose publishes return; `Main` is also the restart
of a dead daemon, without which `RunningEnds` does not hold, and which is up to whoever runs it), and of the broker's
deliveries. No fairness for the receiver, and none for `Due`: no schedule need ever come.

## Findings

Each is a violation run whose trace is the disagreement:

1. `LED_ON` runs on into `SPEAKER_PLAY` (farm.c:52): run `speaker_led`.
2. Seasons compare the 0-based `tm_mon` with calendar months (light.c:199): run `season_calendar`.
3. `get_setting` reads an unterminated payload on into the heap, and "SET running_time 3" may give 30 (util.c:83, 89;
   example at 78): run `setting_example`.

Two more follow from properties that hold:

- The light check comes every 66 seconds instead of the minute of light.c:106 and :153, since the handler's
  iteration drops its sample (spi_api.c:93): `ChecksEvenlySpaced` gives `ticcnt * (ResponseTime + 1)`.
- `sleepu(1000000)`, the example of farm_api.c:43, does not sleep (farm_api.c:54): `SleepuBelowASecond` is
  exact below one second only.

## Proofs

All theorems are checked by TLAPS for every value of the constants that satisfies the
named assumptions in the modules (`ConstantsAssumption`, `NullAssumption`,
`LightAssumption`, `SeasonAssumption`, `FarmAssumption`, `SpeakerAssumption`, `SleepAssumption`,
`DhtAssumption`, `MqttAssumption`). Every invariant and action property of the passing runs is stated by one;
the properties left to TLC are those of liveness.

`SprinklerProofs`:

- `Typing`: TypeOK is inductive once it is known that the thread holds a copy of an
  existing slot while it compares (`HoldsCopy`).
- `PumpSafety`, `QuietPump`: `PcState` ties `pc` to `state`; `PumpInv` adds that a pump
  that is on and not orphaned belongs to an open device, without which `motor_off`
  could leave it on outside a cycle.
- `CycleTimerBound`: from `PcState`.
- `KeepsPromise`: the safety part of the refinement of `Irrigation`, assuming
  `OpenResults \subseteq {TRUE}`; `StatusInv` gives the last message in every state.
- `FiresOnMixture`: no assumption; the fields of the struct and the hour already
  compared come from the times stored since the scan began (`FromSources`).
- `FiresOnTime`, `FiresOncePerMinute`, `FlagsAfterScan`: no assumption either; light thread, edits, crashes at any point.
  `OwnTime`: as long as no other time came under the scan the struct is its own, and what the comparisons so far have
  established. `FlagsInv`: in a `clean` scan the slots passed have the flags of its minute, and the copy is what the table
  says. `ServedInv` says why a served slot does not fire again: it is marked, or it was found past by a scan of this
  very minute, or a scan that looks at an earlier minute, or was given another time, has already passed it.

`ScheduleProofs`: `NoScheduleMissed`, under `Punctual`: `v + 6 <= TicksPerMinute` for every running_time v
(`MinuteHoldsCycle`), and a day of more than one minute (with one, the time of a
slot that fired never passes and nothing arms it again). Nothing is assumed of the light thread, edits and crashes: what
they spoil are minutes of `grace`, which the property leaves out. `PunctualInv` follows a minute through the loop:

- `Between`: between scans, either nothing is left to do for any slot in this minute (`Done`: marked exactly if due, and
  then fired in it), or no mark is older than the minute (`Open`) and the iterations counted so far fit `Budget`, which is
  what the cycle that runs can have taken: at most t + 3 while the pump runs, one less than a minute when it is over. Every
  budget is less than a minute, so a minute that ends has had its scan (`MinuteIsOver`);
- `InScan`: nothing is left to do for the slots the scan has passed (`Good`), the others are `Open`;
- `Overtaken`: a scan that the end of the minute overtakes has nothing left to store, so it can neither fire for the
  old minute nor spoil the marks for the new one, and the next begins with the minute's whole budget;
- `Started`: a thread in its loop has left the state INIT.

`LightProofs`: the sum of n samples lies between n times the least and n times the largest
(`WindowInv`), hence the average (`AveragesWindow`, for one sample a second); `PaceInv`
counts iterations since the last check, hence `EvenChecks` and `DeltaSpans` for all
parameters.

`SeasonProofs`: no assumption but that of `Hours`. `FromSeen`: each field of the struct was stored from a time seen
since the call began; `Passed`: so were the fields the conditions passed so far have read. That gives
`SeasonFromMixture` and `DayFromMixture`. `OneTime` adds, for a call that has seen one time only, where in the chain of
conditions that time can be, `else` branches included; `UndisturbedIsExact` is its end.

`SpeakerProofs`: `SpeakerTyping`, `SoundCaused` for any number of threads; `UnloadedIsLow`, for which
the pins already lowered are high only if written late, and an open file and a running `farm_exit` imply a loaded module
(`UnloadInv`); `ScriptWorks`, from what `regions` holds at each command of the script: the
loaded module's number and those of failed loads, nothing else.

`DhtProofs`: `DhtInv` is inductive: `Position` says that iteration i began at level i + missed, with `laststate` the
level of that, and ends at a later one; `Stored` how many bits i iterations have stored. `StaysInsideArray` and
`AcceptedIsComplete` are then arithmetic on 84 levels (the assumption on the sensor, above). `ReadingInv` is about what is stored, in readings with at most one
preemption and no missed edge:

- `Measure`: the polls counted of a level, with those it still lasts, are as many as the sensor's level has (`Counted`),
  or fewer after the preemption, and then only while all bits are right: the one preemption is spent on one wrong bit;
- `Bytes`: each byte is the prefix of the sent one (`Prefix`, the first n bits of a message as a quotient), except that
  one may be less;
- `Prompt`: an undisturbed iteration ends at the next level, so the reading gets to the last.

`UndisturbedDecodes` follows at once. For `DisturbedIsHonest`, a byte of four that is less by 0 < d < 2^W gives
another remainder (`OtherRemainder`), and a fifth that is less is not the checksum. `OneBitMore`, `BytePlace` and
`NextPrefix` are the arithmetic of storing a bit; the provers know no exponents, so `PowerOfTwo` gets
2^(n+1) = 2 * 2^n from the library's theorem on the number of subsets.

`SleepProofs`: `SleepmIsExact`, `SleepuIsSafe`, from what division and the wrap do to any argument.

`MqttProofs`: `EndIsOff` from `OrderInv`: unless the last status is lost, it is the last on the wire or, if that is
empty, what the onlooker has seen; and once the status is "END!", or about to be, a pump that is on is one the
`motor_off` could not reach. `AnswersHeard` from `SessionInv`: behind the statuses of earlier connections (`old`) nothing but "Init" is on
the wire before the subscription, and a thread past it with the link up is subscribed or was refused.

Only model-checked: liveness (`PumpEventuallyOff`, `ScheduledGetsWater`, `OrphanRecovered`, `SoundEnds`, `Returns`,
`RunningEnds`, the fairness part of `IrrigationSpec`), which is out of TLAPS's reach here.

## Plan

What is left is proof:

1. The pump's safety over the connection: that the statuses `Mqtt` takes from `Irrigation` (its `Restart` and `Announce`)
   and its own pump steps are those of `Sprinkler`, as one theorem (today `KeepsPromise`, and the instance in `Mqtt`).
2. The invariants behind the liveness that TLC checks (a bound on the steps a cycle has left).
3. `SoundHasCause` and `EndMeansOff` together: `Mqtt`'s pump replaced by the pin of `Farm`.

## Not modelled

- `logging` and `mqtt_destroy`, called by nobody.
- The schedule calls store by store: nothing in the repository calls them, so neither the thread nor the lock of a
  caller is known; `Sprinkler` takes each as one step.
- The schedule's own `running_time` field, stored and never read.
- The heap's size: settings of other keys, play calls without a thread and receivers leak.
- The bytes of an SPI transfer and the chip select, which nothing else reads or writes; the wording of messages and
  prints; what becomes of main's own "Daemon Start" (the connection is a step of `Mqtt`), and its commented-out forking;
  `module_dht_exit`, since the DHT's pin is an input of the readings.
- Paho itself, of which the repository has the headers only, and MQTTAsync and the persistence interface, which are
  included and not used.
- The Makefile. Signals: the daemon handles none.
