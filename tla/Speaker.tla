------------------------------ MODULE Speaker ------------------------------
(***************************************************************************)
(* A program that uses the pump, the LED and the speaker (motor_api.c,     *)
(* led_api.c, speaker_api.c, as gpio_test of test.c does), on the kernel   *)
(* module of Farm.tla: speaker_play returns at once and leaves a thread    *)
(* that toggles the pin; plays overlap with each other, with every call of *)
(* the main thread, and with init.sh; the process may die at any point.    *)
(***************************************************************************)
EXTENDS Farm

CONSTANTS
  Threads,      \* play threads a process can have
  MaxDelay      \* bound on the rounds of a play loop

ASSUME SpeakerAssumption == MaxDelay \in Nat

VARIABLES
  up,           \* is a process running?
  main,         \* its main thread: "none", "runs", or in speaker_play's "detach"
  fd,           \* farm_fd: "none" (the open failed), "open", or "stale": open
                \* since before an rmmod
  pc,           \* of each play thread
  left,         \* rounds a play thread has still to do
  lit,          \* history: LED_ON came after the last SPEAKER_STOP
  cut           \* history: a thread died in a round, no SPEAKER_STOP since

threadVars  == <<pc, left>>
processVars == <<up, main, fd>>
causeVars   == <<lit, cut>>
vars == <<level, kernelVars, threadVars, processVars, causeVars>>

NoThreads == pc = [th \in Threads |-> "free"] /\ left = [th \in Threads |-> 0]

Init ==
  /\ FarmInit /\ NoThreads
  /\ up = FALSE /\ main = "none" /\ fd = "none"
  /\ lit = FALSE /\ cut = FALSE

(* farm_open; the process then has all its threads to create. *)
Start ==
  /\ ~up /\ up' = TRUE /\ main' = "runs"
  /\ fd' = IF Opens THEN "open" ELSE "none"
  /\ UNCHANGED <<level, kernelVars, threadVars, causeVars>>

(* ioctl(farm_fd, cmd, 0): fails, unseen, without a device.  A stale file's *)
(* operations are where the old module was: a module loaded since may have  *)
(* taken the place, and the call works.                                     *)
Call(cmd) ==
  /\ fd = "stale" => loaded
  /\ IF fd = "none"
     THEN UNCHANGED <<level, late, lit, cut>>
     ELSE /\ level' = Ioctl(level, cmd)
          /\ late' = late \cup (lowered \cap DOMAIN Written(ApiCommand[cmd]))
          /\ lit' = (cmd = "LED_ON" \/ (lit /\ cmd # "SPEAKER_STOP"))
          /\ cut' = (cut /\ cmd # "SPEAKER_STOP")
  /\ UNCHANGED <<loaded, major, regions, node, script, failed, lowered,
                 processVars>>

Main(cmd) == main = "runs" /\ Call(cmd) /\ UNCHANGED threadVars

motor_on     == Main("MOTOR_ON")
motor_off    == Main("MOTOR_OFF")
led_on       == Main("LED_ON")
led_off      == Main("LED_OFF")
(* It silences the pin for this instant, not the threads. *)
speaker_stop == Main("SPEAKER_STOP")

(* speaker_play creates a thread, if the process can have another.          *)
SpeakerPlayOnce(th, delay) ==             \* mutant: plays before it counts
  /\ main = "runs" /\ main' = "detach" /\ pc[th] = "free"
  /\ left' = [left EXCEPT ![th] = delay]
  /\ pc' = [pc EXCEPT ![th] = "on"]
  /\ UNCHANGED <<level, kernelVars, up, fd, causeVars>>

SpeakerPlay(th, delay) ==
  /\ main = "runs" /\ main' = "detach" /\ pc[th] = "free"
  /\ left' = [left EXCEPT ![th] = delay]
  /\ pc' = [pc EXCEPT ![th] = IF delay > 0 THEN "on" ELSE "ended"]
  /\ UNCHANGED <<level, kernelVars, up, fd, causeVars>>

SpeakerPlayFails ==
  /\ main = "runs" /\ main' = "detach" /\ \A th \in Threads : pc[th] # "free"
  /\ UNCHANGED <<level, kernelVars, threadVars, up, fd, causeVars>>

(* The threads go with the process; the pins stay as they are. *)
Exit ==
  /\ up' = FALSE /\ main' = "none" /\ fd' = "none"
  /\ pc' = [th \in Threads |-> "free"] /\ left' = [th \in Threads |-> 0]
  /\ cut' = (cut \/ level.speaker = 1)
  /\ UNCHANGED <<level, kernelVars, lit>>

(* pthread_detach gets the return code of pthread_create and not the        *)
(* thread: it looks for a thread at address 0 (or EAGAIN), which the C      *)
(* library may survive or not; and a thread that ended is never given back. *)
PthreadDetach ==
  /\ main = "detach"
  /\ \/ main' = "runs" /\ UNCHANGED <<level, kernelVars, threadVars, up, fd, causeVars>>
     \/ Exit

(* The loop of play: SPEAKER_PLAY, usleep, SPEAKER_STOP, usleep. *)
PlayOn(th) ==
  /\ pc[th] = "on" /\ Call("SPEAKER_PLAY")
  /\ pc' = [pc EXCEPT ![th] = "off"]
  /\ UNCHANGED left

PlayOffSilentEnd(th) ==                   \* mutant: the last round has no STOP
  /\ pc[th] = "off"
  /\ IF left[th] > 1
     THEN Call("SPEAKER_STOP") /\ pc' = [pc EXCEPT ![th] = "on"]
     ELSE /\ pc' = [pc EXCEPT ![th] = "ended"]
          /\ UNCHANGED <<level, kernelVars, processVars, causeVars>>
  /\ left' = [left EXCEPT ![th] = @ - 1]

PlayOff(th) ==
  /\ pc[th] = "off" /\ Call("SPEAKER_STOP")
  /\ left' = [left EXCEPT ![th] = @ - 1]
  /\ pc' = [pc EXCEPT ![th] = IF left[th] > 1 THEN "on" ELSE "ended"]

Play(th) == PlayOn(th) \/ PlayOff(th)

-----------------------------------------------------------------------------
(* A call through a stale file runs into freed memory: the kernel kills the *)
(* thread that made it, and only that.                                      *)
OopsMain ==
  /\ main = "runs" /\ fd = "stale" /\ main' = "none"
  /\ UNCHANGED <<level, kernelVars, threadVars, up, fd, causeVars>>

OopsPlay(th) ==
  /\ fd = "stale" /\ pc[th] \in {"on", "off"}
  /\ pc' = [pc EXCEPT ![th] = "ended"] /\ left' = [left EXCEPT ![th] = 0]
  /\ cut' = (cut \/ level.speaker = 1)
  /\ UNCHANGED <<level, kernelVars, processVars, lit>>

Die == up /\ Exit

(* init.sh.  Files that are open when the module's code goes become stale.  *)
Unload ==
  /\ \/ Rmmod /\ UNCHANGED <<fd, lit, cut>>
     \/ \E pin \in Pins :
          /\ ModuleExit(pin)
          /\ lit' = (lit /\ pin # "speaker") /\ cut' = (cut /\ pin # "speaker")
          /\ UNCHANGED fd
     \/ /\ FarmExited
        /\ fd' = IF fd = "open" THEN "stale" ELSE fd
        /\ UNCHANGED <<lit, cut>>
  /\ UNCHANGED <<threadVars, up, main>>

Reload ==
  /\ Insmod \/ RmNode \/ Mknod
  /\ UNCHANGED <<threadVars, processVars, causeVars>>

Next ==
  \/ Start \/ Die \/ Unload \/ Reload \/ OopsMain
  \/ SpeakerPlayFails \/ PthreadDetach
  \/ motor_on \/ motor_off \/ led_on \/ led_off \/ speaker_stop
  \/ \E th \in Threads, delay \in 0 .. MaxDelay : SpeakerPlay(th, delay)
  \/ \E th \in Threads : Play(th) \/ OopsPlay(th)

Spec == Init /\ [][Next]_vars

(* Every play thread is scheduled. *)
FairSpec == Spec /\ \A th \in Threads : WF_vars(Play(th))

-----------------------------------------------------------------------------
TypeOK ==
  /\ KernelTypeOK
  /\ pc \in [Threads -> {"free", "on", "off", "ended"}]
  /\ left \in [Threads -> 0 .. MaxDelay]
  /\ \A th \in Threads : pc[th] \in {"on", "off"} <=> left[th] > 0
  /\ up \in BOOLEAN /\ main \in {"none", "runs", "detach"}
  /\ fd \in {"none", "open", "stale"}
  /\ lit \in BOOLEAN /\ cut \in BOOLEAN

(* The pin of the speaker is high only while a play thread is in a round    *)
(* that ends with SPEAKER_STOP, or since an LED_ON, or since a thread died  *)
(* in a round: overlapping plays and speaker_stop leave no sound on.        *)
SoundHasCause ==
  level.speaker = 1 => (\E th \in Threads : pc[th] = "off") \/ lit \/ cut

(* A round that made the speaker sound silences it, for any overlap, unless *)
(* the process dies; an rmmod that overtakes it does so as well, but not if *)
(* module_speaker_exit came first: then the sound can stay for good.        *)
SoundEnds ==
  \A th \in Threads :
    pc[th] = "off" /\ fd = "open" /\ "speaker" \notin lowered
      ~> level.speaker = 0 \/ ~up

(* farm_api.h:12-18 lists LED_ON under "LED IOCTL Commands" and the speaker *)
(* under commands of its own: led_on leaves the speaker alone.              *)
LedOnlyLed == [][led_on => level'.speaker = level.speaker]_vars
=============================================================================
