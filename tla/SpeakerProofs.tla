---------------------------- MODULE SpeakerProofs ----------------------------
(* Theorems about the kernel module under init.sh, and about the speaker's *)
(* threads on it, for any number of threads and of device numbers.         *)
EXTENDS Speaker, FiniteSetTheorems, TLAPS

Commands == {"SPEAKER_PLAY", "SPEAKER_STOP", "LED_ON", "LED_OFF",
             "MOTOR_ON", "MOTOR_OFF"}

(* What the commands do to the pins, and to the speaker's.                  *)
LEMMA IoctlEffect ==
  ASSUME level \in [Pins -> {0, 1}]
  PROVE  /\ \A cmd \in Commands : Ioctl(level, cmd) \in [Pins -> {0, 1}]
         /\ Ioctl(level, "SPEAKER_STOP").speaker = 0
         /\ \A cmd \in {"LED_OFF", "MOTOR_ON", "MOTOR_OFF"} :
              Ioctl(level, cmd).speaker = level.speaker
<1> USE DEF Ioctl, Written, Pins, ApiCommand, MotorCommand, LedCommand,
            SpeakerCommand, SpiCommand, MotorDriver, LedDriver, SpeakerDriver,
            SpiDriver
<1>1. Ioctl(level, "SPEAKER_PLAY") \in [Pins -> {0, 1}]
  OBVIOUS
<1>2. /\ Ioctl(level, "SPEAKER_STOP") \in [Pins -> {0, 1}]
      /\ Ioctl(level, "SPEAKER_STOP").speaker = 0
  OBVIOUS
<1>3. Ioctl(level, "LED_ON") \in [Pins -> {0, 1}]
  OBVIOUS
<1>4. /\ Ioctl(level, "LED_OFF") \in [Pins -> {0, 1}]
      /\ Ioctl(level, "LED_OFF").speaker = level.speaker
  OBVIOUS
<1>5. /\ Ioctl(level, "MOTOR_ON") \in [Pins -> {0, 1}]
      /\ Ioctl(level, "MOTOR_ON").speaker = level.speaker
  OBVIOUS
<1>6. /\ Ioctl(level, "MOTOR_OFF") \in [Pins -> {0, 1}]
      /\ Ioctl(level, "MOTOR_OFF").speaker = level.speaker
  OBVIOUS
<1> HIDE DEF Ioctl
<1> QED BY <1>1, <1>2, <1>3, <1>4, <1>5, <1>6 DEF Commands

(* Every init and every exit of a device leaves its pin low.                *)
LEMMA DriversLow == Each("init") = Low /\ \A pin \in Pins : Drivers[pin].exit = 0
<1>1. ASSUME NEW pin \in Pins
      PROVE  Drivers[pin]["init"] = 0 /\ Drivers[pin].exit = 0
  BY DEF Pins, Drivers, MotorDriver, LedDriver, SpeakerDriver, SpiDriver
<1> QED BY <1>1 DEF Each, Low

LEMMA LowType == Low \in [Pins -> {0, 1}] /\ Low.speaker = 0
BY DEF Low, Pins

(* Threads and process: what TypeOK says beside the kernel's part.          *)
ThreadTypeOK ==
  /\ pc \in [Threads -> {"free", "on", "off", "ended"}]
  /\ left \in [Threads -> 0 .. MaxDelay]
  /\ \A th \in Threads : pc[th] \in {"on", "off"} <=> left[th] > 0

ProcessTypeOK ==
  /\ up \in BOOLEAN /\ main \in {"none", "runs", "detach"}
  /\ fd \in {"none", "open", "stale"}
  /\ lit \in BOOLEAN /\ cut \in BOOLEAN

LEMMA TypeParts == TypeOK <=> KernelTypeOK /\ ThreadTypeOK /\ ProcessTypeOK
BY DEF TypeOK, ThreadTypeOK, ProcessTypeOK

Script == \/ Rmmod \/ (\E pin \in Pins : ModuleExit(pin)) \/ FarmExited
          \/ Insmod \/ RmNode \/ Mknod

LEMMA KernelStep == ASSUME KernelTypeOK, Script PROVE KernelTypeOK'
<1> USE FarmAssumption, LowType DEF KernelTypeOK
<1>1. CASE Rmmod
  BY <1>1 DEF Rmmod, Unregister
<1>5. ASSUME NEW pin \in Pins, ModuleExit(pin) PROVE KernelTypeOK'
  BY <1>5, DriversLow DEF ModuleExit
<1>6. CASE FarmExited
  BY <1>6 DEF FarmExited
<1>2. CASE Insmod
  BY <1>2, DriversLow DEF Insmod, FarmLoaded, LoadFails
<1>3. CASE RmNode
  BY <1>3 DEF RmNode
<1>4. CASE Mknod
  <2>1. node' \in Majors \cup {0}
    <3>1. CASE Cardinality(regions) = 1
      <4>1. IsFiniteSet(regions)
        BY FS_Subset
      <4>2. PICK n : regions = {n}
        BY <3>1, <4>1, FS_Singleton
      <4>3. (CHOOSE k \in regions : TRUE) \in regions
        BY <4>2
      <4> QED BY <1>4, <3>1, <4>3 DEF Mknod
    <3>2. CASE Cardinality(regions) # 1
      BY <1>4, <3>2 DEF Mknod
    <3> QED BY <3>1, <3>2
  <2> QED BY <1>4, <2>1 DEF Mknod
<1> QED BY <1>1, <1>2, <1>3, <1>4, <1>5, <1>6 DEF Script

(* A call keeps the types, for every command of the program.                *)
LEMMA CallStep ==
  ASSUME TypeOK, NEW cmd \in Commands, Call(cmd)
  PROVE  KernelTypeOK' /\ ProcessTypeOK'
<1>1. level' \in [Pins -> {0, 1}]
  BY IoctlEffect DEF Call, TypeOK, KernelTypeOK, processVars, causeVars
<1>2. lit' \in BOOLEAN /\ cut' \in BOOLEAN
  BY DEF Call, TypeOK
<1>3. late' \subseteq Pins
  BY DEF Call, TypeOK, KernelTypeOK
<1> QED BY <1>1, <1>2, <1>3
        DEF Call, TypeOK, KernelTypeOK, ProcessTypeOK, kernelVars, processVars

(* Every variable keeps its type, and a thread is in a round exactly while  *)
(* it has rounds left.                                                      *)
THEOREM SpeakerTyping == Spec => []TypeOK
<1> USE SpeakerAssumption
<1>1. Init => TypeOK
  <2> SUFFICES ASSUME Init PROVE TypeOK
    OBVIOUS
  <2>1. KernelTypeOK
    BY LowType DEF Init, FarmInit, KernelTypeOK
  <2>2. ThreadTypeOK
    BY DEF Init, NoThreads, ThreadTypeOK
  <2>3. ProcessTypeOK
    BY DEF Init, ProcessTypeOK
  <2> QED BY <2>1, <2>2, <2>3, TypeParts
<1>2. TypeOK /\ [Next]_vars => TypeOK'
  <2> SUFFICES ASSUME TypeOK, [Next]_vars
               PROVE  KernelTypeOK' /\ ThreadTypeOK' /\ ProcessTypeOK'
    BY TypeParts DEF TypeOK, KernelTypeOK, ThreadTypeOK, ProcessTypeOK
  <2> USE DEF KernelTypeOK, ThreadTypeOK, ProcessTypeOK
  <2>0. KernelTypeOK /\ ThreadTypeOK /\ ProcessTypeOK
    BY TypeParts
  <2> HIDE DEF KernelTypeOK, ThreadTypeOK, ProcessTypeOK
  <2>1. CASE Start
    BY <2>0, <2>1 DEF Start, kernelVars, threadVars, causeVars, KernelTypeOK,
                      ThreadTypeOK, ProcessTypeOK
  <2>2. CASE Exit
    <3>1. ThreadTypeOK'
      BY <2>2 DEF Exit, ThreadTypeOK
    <3>3. cut' \in BOOLEAN /\ lit' \in BOOLEAN
      BY <2>0, <2>2 DEF Exit, ProcessTypeOK
    <3>4. ProcessTypeOK'
      BY <2>2, <3>3 DEF Exit, ProcessTypeOK
    <3> QED BY <2>0, <2>2, <3>1, <3>4 DEF Exit, kernelVars, KernelTypeOK
  <2>12. CASE SpeakerPlayFails
    BY <2>0, <2>12 DEF SpeakerPlayFails, kernelVars, threadVars, causeVars,
                       KernelTypeOK, ThreadTypeOK, ProcessTypeOK
  <2>13. CASE PthreadDetach
    BY <2>0, <2>2, <2>13 DEF PthreadDetach, kernelVars, threadVars, causeVars,
                       KernelTypeOK, ThreadTypeOK, ProcessTypeOK
  <2>3. CASE Unload
    <3>1. KernelTypeOK'
      BY <2>0, <2>3, KernelStep DEF Unload, Script
    <3>2. ThreadTypeOK' /\ ProcessTypeOK'
      BY <2>0, <2>3 DEF Unload, threadVars, ThreadTypeOK, ProcessTypeOK
    <3> QED BY <3>1, <3>2
  <2>4. CASE Reload
    <3>1. KernelTypeOK'
      BY <2>0, <2>4, KernelStep DEF Reload, Script
    <3>2. ThreadTypeOK' /\ ProcessTypeOK'
      BY <2>0, <2>4 DEF Reload, threadVars, processVars, causeVars,
                        ThreadTypeOK, ProcessTypeOK
    <3> QED BY <3>1, <3>2
  <2>5. CASE OopsMain
    BY <2>0, <2>5 DEF OopsMain, kernelVars, threadVars, causeVars,
                      KernelTypeOK, ThreadTypeOK, ProcessTypeOK
  <2>6. ASSUME NEW cmd \in Commands, Main(cmd)
        PROVE  KernelTypeOK' /\ ThreadTypeOK' /\ ProcessTypeOK'
    BY <2>0, <2>6, CallStep DEF Main, threadVars, ThreadTypeOK
  <2>7. ASSUME NEW th \in Threads, NEW delay \in 0 .. MaxDelay,
               SpeakerPlay(th, delay)
        PROVE  KernelTypeOK' /\ ThreadTypeOK' /\ ProcessTypeOK'
    <3>1. ThreadTypeOK'
      BY <2>0, <2>7 DEF SpeakerPlay, ThreadTypeOK
    <3> QED BY <2>0, <2>7, <3>1 DEF SpeakerPlay, kernelVars, causeVars,
                                    KernelTypeOK, ProcessTypeOK
  <2>8. ASSUME NEW th \in Threads, PlayOn(th)
        PROVE  KernelTypeOK' /\ ThreadTypeOK' /\ ProcessTypeOK'
    <3>1. ThreadTypeOK'
      BY <2>0, <2>8 DEF PlayOn, ThreadTypeOK
    <3> QED BY <2>8, <3>1, CallStep DEF PlayOn, Commands
  <2>9. ASSUME NEW th \in Threads, PlayOff(th)
        PROVE  KernelTypeOK' /\ ThreadTypeOK' /\ ProcessTypeOK'
    <3>1. left[th] \in 1 .. MaxDelay
      BY <2>0, <2>9 DEF PlayOff, ThreadTypeOK
    <3>2. ThreadTypeOK'
      BY <2>0, <2>9, <3>1 DEF PlayOff, ThreadTypeOK
    <3> QED BY <2>9, <3>2, CallStep DEF PlayOff, Commands
  <2>10. ASSUME NEW th \in Threads, OopsPlay(th)
         PROVE  KernelTypeOK' /\ ThreadTypeOK' /\ ProcessTypeOK'
    BY <2>0, <2>10 DEF OopsPlay, kernelVars, processVars, KernelTypeOK,
                       ThreadTypeOK, ProcessTypeOK
  <2>11. CASE UNCHANGED vars
    BY <2>0, <2>11 DEF vars, kernelVars, threadVars, processVars, causeVars,
                       KernelTypeOK, ThreadTypeOK, ProcessTypeOK
  <2> QED BY <2>1, <2>2, <2>3, <2>4, <2>5, <2>6, <2>7, <2>8, <2>9, <2>10, <2>11,
             <2>12, <2>13
          DEF Next, Die, Play, motor_on, motor_off, led_on, led_off, speaker_stop,
              Commands
<1> QED BY <1>1, <1>2, PTL DEF Spec

(* A program without the device cannot silence the speaker by any round: a  *)
(* sound it finds has an older cause.                                       *)
SoundInv ==
  /\ SoundHasCause
  /\ fd = "none" /\ level.speaker = 1 => lit \/ cut
  /\ ~up => fd = "none"

(* A sound has a cause: a round under way, an LED_ON, or a thread that died *)
(* in a round; however the plays overlap and whenever init.sh runs.         *)
THEOREM SoundCaused == Spec => []SoundHasCause
<1> USE DEF SoundInv, SoundHasCause
<1>1. Init => SoundInv
  BY LowType DEF Init, FarmInit
<1>2. TypeOK /\ SoundInv /\ [Next]_vars => SoundInv'
  <2> SUFFICES ASSUME TypeOK, SoundInv, [Next]_vars PROVE SoundInv'
    OBVIOUS
  <2>0. level \in [Pins -> {0, 1}]
    BY DEF TypeOK, KernelTypeOK
  <2>1. CASE Start
    BY <2>1 DEF Start, threadVars, causeVars
  <2>2. CASE Exit
    BY <2>2 DEF Exit
  <2>14. CASE SpeakerPlayFails
    BY <2>14 DEF SpeakerPlayFails, threadVars, causeVars
  <2>15. CASE PthreadDetach
    BY <2>2, <2>15 DEF PthreadDetach, threadVars, causeVars
  <2>3. CASE Unload
    <3>1. CASE Rmmod \/ FarmExited
      BY <2>3, <3>1 DEF Unload, Rmmod, ModuleExit, FarmExited, threadVars
    <3>2. ASSUME NEW pin \in Pins, ModuleExit(pin), lit' = (lit /\ pin # "speaker"),
                 cut' = (cut /\ pin # "speaker"), UNCHANGED <<fd, threadVars, up>>
          PROVE  SoundInv'
      <4>1. CASE pin = "speaker"
        BY <2>0, <3>2, <4>1, DriversLow DEF ModuleExit, threadVars
      <4>2. CASE pin # "speaker"
        <5>1. level'.speaker = level.speaker
          BY <2>0, <3>2, <4>2 DEF ModuleExit, Pins
        <5>2. (lit' <=> lit) /\ (cut' <=> cut)
          BY <3>2, <4>2
        <5> QED BY <3>2, <5>1, <5>2 DEF threadVars
      <4> QED BY <4>1, <4>2
    <3> QED BY <2>3, <3>1, <3>2 DEF Unload
  <2>4. CASE Reload
    BY <2>4, LowType, DriversLow
       DEF Reload, Insmod, RmNode, Mknod, FarmLoaded, LoadFails,
           threadVars, processVars, causeVars
  <2>5. CASE OopsMain
    BY <2>5 DEF OopsMain, threadVars, causeVars
  <2>6. ASSUME NEW cmd \in {"LED_OFF", "MOTOR_ON", "MOTOR_OFF"}, Main(cmd)
        PROVE  SoundInv'
    <3>1. level'.speaker = level.speaker
      BY <2>0, <2>6, IoctlEffect DEF Main, Call
    <3>2. (lit' <=> lit) /\ (cut' <=> cut)
      BY <2>6 DEF Main, Call
    <3> QED BY <2>6, <3>1, <3>2 DEF Main, Call, threadVars, processVars
  <2>7. CASE led_on
    <3>1. CASE fd = "none"
      BY <2>7, <3>1 DEF led_on, Main, Call, threadVars, processVars
    <3>2. CASE fd # "none"
      BY <2>7, <3>2 DEF led_on, Main, Call, processVars
    <3> QED BY <3>1, <3>2
  <2>8. CASE speaker_stop
    <3>1. CASE fd = "none"
      BY <2>8, <3>1 DEF speaker_stop, Main, Call, threadVars, processVars
    <3>2. CASE fd # "none"
      BY <2>0, <2>8, <3>2, IoctlEffect DEF speaker_stop, Main, Call, processVars
    <3> QED BY <3>1, <3>2
  <2>9. ASSUME NEW th \in Threads, NEW delay \in 0 .. MaxDelay,
               SpeakerPlay(th, delay)
        PROVE  SoundInv'
    BY <2>9 DEF SpeakerPlay, causeVars, TypeOK
  <2>10. ASSUME NEW th \in Threads, PlayOn(th) PROVE SoundInv'
    <3>1. CASE fd = "none"
      BY <2>10, <3>1 DEF PlayOn, Call, processVars
    <3>2. CASE fd # "none"
      BY <2>10, <3>2 DEF PlayOn, Call, processVars, TypeOK
    <3> QED BY <3>1, <3>2
  <2>11. ASSUME NEW th \in Threads, PlayOff(th) PROVE SoundInv'
    <3>1. CASE fd = "none"
      BY <2>11, <3>1 DEF PlayOff, Call, processVars
    <3>2. CASE fd # "none"
      BY <2>0, <2>11, <3>2, IoctlEffect DEF PlayOff, Call, processVars
    <3> QED BY <3>1, <3>2
  <2>12. ASSUME NEW th \in Threads, OopsPlay(th) PROVE SoundInv'
    BY <2>12 DEF OopsPlay, processVars
  <2>13. CASE UNCHANGED vars
    BY <2>13 DEF vars, threadVars, processVars, causeVars
  <2> QED BY <2>1, <2>2, <2>3, <2>4, <2>5, <2>6, <2>7, <2>8, <2>9, <2>10,
             <2>11, <2>12, <2>13, <2>14, <2>15
          DEF Next, Die, Play, motor_on, motor_off, led_off
<1>3. SoundInv => SoundHasCause
  OBVIOUS
<1> QED BY <1>1, <1>2, <1>3, SpeakerTyping, PTL DEF Spec

-----------------------------------------------------------------------------
(* A pin that farm_exit has lowered stays low, or is one that a call wrote   *)
(* since; and calls reach the pins only while there is code.                 *)
UnloadInv ==
  /\ UnloadedLow
  /\ \A pin \in lowered : level[pin] = 1 => pin \in late
  /\ fd = "open" => loaded
  /\ script = "exit" => loaded

(* Without the module a pin is high only if a call came through an open file *)
(* between the exit of its device and the end of farm_exit.                  *)
THEOREM UnloadedIsLow == Spec => []UnloadedLow
<1> USE DEF UnloadInv, UnloadedLow
<1>1. Init => UnloadInv
  BY DEF Init, FarmInit, Low
<1>2. TypeOK /\ UnloadInv /\ [Next]_vars => UnloadInv'
  <2> SUFFICES ASSUME TypeOK, UnloadInv, [Next]_vars PROVE UnloadInv'
    OBVIOUS
  <2>0. level \in [Pins -> {0, 1}] /\ lowered \subseteq Pins
    BY DEF TypeOK, KernelTypeOK
  <2>1. CASE Start
    BY <2>1 DEF Start, Opens, kernelVars
  <2>2. CASE Exit
    BY <2>2 DEF Exit, kernelVars
  <2>3. CASE Unload
    <3>1. CASE Rmmod
      BY <2>3, <3>1 DEF Unload, Rmmod, ModuleExit, FarmExited
    <3>2. ASSUME NEW pin \in Pins, ModuleExit(pin), UNCHANGED fd PROVE UnloadInv'
      BY <2>0, <3>2, DriversLow DEF ModuleExit
    <3>3. CASE FarmExited
      BY <2>3, <3>3 DEF Unload, Rmmod, ModuleExit, FarmExited, Exits
    <3> QED BY <2>3, <3>1, <3>2, <3>3 DEF Unload
  <2>4. CASE Reload
    <3>1. CASE Insmod
      <4>1. PICK number : FarmLoaded(number) \/ LoadFails(number)
        BY <3>1 DEF Insmod
      <4>2. CASE FarmLoaded(number)
        BY <2>0, <2>4, <3>1, <4>2, DriversLow
           DEF Reload, Insmod, RmNode, Mknod, FarmLoaded, processVars, Low
      <4>3. CASE LoadFails(number)
        BY <2>4, <3>1, <4>3 DEF Reload, Insmod, RmNode, Mknod, LoadFails, processVars
      <4> QED BY <4>1, <4>2, <4>3
    <3>2. CASE RmNode \/ Mknod
      BY <2>4, <3>2 DEF Reload, Insmod, RmNode, Mknod, processVars
    <3> QED BY <2>4, <3>1, <3>2 DEF Reload
  <2>5. CASE OopsMain
    BY <2>5 DEF OopsMain, kernelVars
  <2>6. ASSUME NEW cmd \in Commands, Call(cmd) PROVE UnloadInv'
    <3>1. CASE fd = "none"
      BY <2>6, <3>1 DEF Call, processVars
    <3>2. CASE fd # "none"
      <4>1. loaded
        BY <2>6, <3>2 DEF Call, TypeOK
      <4>2. \A pin \in Pins : pin \notin DOMAIN Written(ApiCommand[cmd])
                                => level'[pin] = level[pin]
        BY <2>6, <3>2 DEF Call, Ioctl
      <4>3. /\ late' = late \cup (lowered \cap DOMAIN Written(ApiCommand[cmd]))
            /\ UNCHANGED <<loaded, script, lowered, fd>>
        BY <2>6, <3>2 DEF Call, processVars
      <4> QED BY <2>0, <4>1, <4>2, <4>3
    <3> QED BY <3>1, <3>2
  <2>7. ASSUME NEW th \in Threads, NEW delay \in 0 .. MaxDelay,
               SpeakerPlay(th, delay)
        PROVE  UnloadInv'
    BY <2>7 DEF SpeakerPlay, kernelVars
  <2>8. ASSUME NEW th \in Threads, OopsPlay(th) PROVE UnloadInv'
    BY <2>8 DEF OopsPlay, kernelVars, processVars
  <2>9. CASE UNCHANGED vars
    BY <2>9 DEF vars, kernelVars, processVars
  <2>10. CASE SpeakerPlayFails \/ PthreadDetach
    BY <2>2, <2>10 DEF SpeakerPlayFails, PthreadDetach, kernelVars
  <2> QED BY <2>1, <2>2, <2>3, <2>4, <2>5, <2>6, <2>7, <2>8, <2>9, <2>10
          DEF Next, Die, Play, PlayOn, PlayOff, Main, motor_on, motor_off, led_on,
              led_off, speaker_stop, Commands
<1>3. UnloadInv => UnloadedLow
  OBVIOUS
<1> QED BY <1>1, <1>2, <1>3, SpeakerTyping, PTL DEF Spec

-----------------------------------------------------------------------------
(* The script, step by step.  Without a failed load the listed region is    *)
(* the module's own; after one, a region of nobody is listed for good, so   *)
(* that a device file, if mknod makes one, is never the module's.           *)
ScriptInv ==
  /\ major # 0 => loaded
  /\ script \in {"exit", "insmod"} => major = 0
  /\ ~failed => regions = {major} \ {0}
  /\ failed => \E n \in regions : n # major
  /\ script = "done" =>
       node = IF Cardinality(regions) = 1 THEN CHOOSE n \in regions : TRUE ELSE 0

LEMMA ScriptStep == ASSUME KernelTypeOK, ScriptInv, Script PROVE ScriptInv'
<1> USE FarmAssumption DEF ScriptInv, KernelTypeOK
<1>1. CASE Rmmod
  <2>1. CASE loaded
    BY <1>1, <2>1 DEF Rmmod, Unregister
  <2>2. CASE ~loaded
    BY <1>1, <2>2 DEF Rmmod
  <2> QED BY <2>1, <2>2
<1>5. ASSUME NEW pin \in Pins, ModuleExit(pin) PROVE ScriptInv'
  BY <1>5 DEF ModuleExit
<1>6. CASE FarmExited
  BY <1>6 DEF FarmExited
<1>2. CASE Insmod
  <2>1. PICK number \in (Majors \ regions) \cup {0} :
               FarmLoaded(number) \/ (number # 0 /\ LoadFails(number))
    BY <1>2 DEF Insmod
  <2>2. major = 0 /\ script' = "rm" /\ 0 \notin regions
    BY <1>2 DEF Insmod
  <2>3. CASE FarmLoaded(number)
    BY <2>1, <2>2, <2>3 DEF FarmLoaded
  <2>4. CASE number # 0 /\ LoadFails(number)
    BY <2>1, <2>2, <2>4 DEF LoadFails
  <2> QED BY <2>1, <2>3, <2>4
<1>3. CASE RmNode
  BY <1>3 DEF RmNode
<1>4. CASE Mknod
  BY <1>4 DEF Mknod
<1> QED BY <1>1, <1>2, <1>3, <1>4, <1>5, <1>6 DEF Script

(* init.sh leaves a device file that opens, unless this load got no number; *)
(* and after a load that failed in cdev_add, never again before a reboot.   *)
THEOREM ScriptWorks == Spec => []InitScript
<1>1. Init => ScriptInv
  BY DEF Init, FarmInit, ScriptInv
<1>2. TypeOK /\ ScriptInv /\ [Next]_vars => ScriptInv'
  <2> SUFFICES ASSUME TypeOK, ScriptInv, [Next]_vars PROVE ScriptInv'
    OBVIOUS
  <2>1. KernelTypeOK
    BY DEF TypeOK
  <2>2. CASE Unload \/ Reload
    BY <2>1, <2>2, ScriptStep DEF Unload, Reload, Script
  <2>3. CASE UNCHANGED <<loaded, major, regions, node, script, failed>>
    BY <2>3 DEF ScriptInv
  <2> QED BY <2>2, <2>3
          DEF Next, Play, PlayOn, PlayOff, Main, Call, motor_on, motor_off,
              led_on, led_off, speaker_stop, Start, Die, Exit, OopsMain, OopsPlay,
              SpeakerPlay, SpeakerPlayFails, PthreadDetach, vars, kernelVars
<1>3. TypeOK /\ ScriptInv => InitScript
  <2> SUFFICES ASSUME KernelTypeOK, ScriptInv, script = "done"
               PROVE  Opens <=> major # 0 /\ ~failed
    BY DEF TypeOK, InitScript
  <2> USE FarmAssumption DEF ScriptInv, KernelTypeOK, Opens
  <2>1. IsFiniteSet(regions)
    BY FS_Subset
  <2>2. \A n : regions = {n} => node = n
    BY FS_Singleton
  <2>3. CASE ~failed
    <3>1. CASE major = 0
      BY <3>1
    <3>2. CASE major # 0
      <4>1. regions = {major}
        BY <2>3, <3>2
      <4> QED BY <2>2, <2>3, <3>2, <4>1
    <3> QED BY <3>1, <3>2
  <2>4. CASE failed
    <3>1. CASE Cardinality(regions) = 1
      <4>1. PICK n : regions = {n}
        BY <2>1, <3>1, FS_Singleton
      <4> QED BY <2>2, <2>4, <4>1
    <3>2. CASE Cardinality(regions) # 1
      BY <2>4, <3>2
    <3> QED BY <3>1, <3>2
  <2> QED BY <2>3, <2>4
<1> QED BY <1>1, <1>2, <1>3, SpeakerTyping, PTL DEF Spec
=============================================================================
