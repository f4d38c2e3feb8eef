-------------------------------- MODULE Farm --------------------------------
(***************************************************************************)
(* The kernel module's life (farm_init and farm_exit of farm.c) under      *)
(* init.sh, which anyone may run at any time: rmmod, insmod, rm, mknod.sh. *)
(* A load may fail half way, and the script never stops at a failure.      *)
(***************************************************************************)
EXTENDS FarmDevice, FiniteSets

CONSTANT Majors          \* device numbers the kernel can give out; 0: none

ASSUME FarmAssumption == Majors \subseteq Nat \ {0} /\ IsFiniteSet(Majors)

VARIABLES
  level,       \* the output pins
  loaded,      \* is the module in the kernel?
  major,       \* its dev_num, 0 when alloc_chrdev_region failed unseen
  regions,     \* numbers /proc/devices lists under FARM_DEV
  node,        \* the number of /dev/farm_dev, 0: there is no such file
  script,      \* the next command of init.sh
  failed,      \* history: a load has failed in cdev_add since boot
  lowered,     \* the pins whose module_*_exit a running farm_exit has called
  late         \* history: pins written since their module_*_exit

kernelVars == <<loaded, major, regions, node, script, failed, lowered, late>>

FarmInit ==
  /\ level = Low /\ loaded = FALSE /\ major = 0 /\ regions = {} /\ node = 0
  /\ script = "boot" /\ failed = FALSE
  /\ lowered = {} /\ late = {}

(* rmmod runs farm_exit, which begins with cdev_del and the region.  The     *)
(* operations have no .owner, so open files do not keep the module in the    *)
(* kernel.  Without a module it fails, and the script goes on.               *)
KeepRegion == major' = 0 /\ UNCHANGED regions  \* mutant: no unregister
Unregister == major' = 0 /\ regions' = regions \ {major}

Rmmod ==
  /\ script \in {"boot", "done"}
  /\ \/ loaded /\ script' = "exit" /\ Unregister
     \/ ~loaded /\ script' = "insmod" /\ UNCHANGED <<major, regions>>
  /\ UNCHANGED <<level, loaded, node, failed, lowered, late>>

(* The exits of the devices follow one by one; calls through files that are  *)
(* open come in between (Speaker.tla).                                       *)
ExitOrder == [motor |-> 1, led |-> 2, speaker |-> 3, spi |-> 4]
AllButSpeaker == Pins \ {"speaker"}            \* mutant: a forgotten exit
Exits == Pins

ModuleExit(pin) ==
  /\ script = "exit" /\ pin \in Exits \ lowered
  /\ \A other \in Exits \ lowered : ExitOrder[pin] <= ExitOrder[other]
  /\ level' = [level EXCEPT ![pin] = Drivers[pin].exit]
  /\ lowered' = lowered \cup {pin}
  /\ UNCHANGED <<loaded, major, regions, node, script, failed, late>>

(* farm_exit has returned: the kernel frees the module's code. *)
FarmExited ==
  /\ script = "exit" /\ Exits \subseteq lowered
  /\ script' = "insmod" /\ loaded' = FALSE /\ lowered' = {}
  /\ UNCHANGED <<level, major, regions, node, failed, late>>

(* insmod.  Nobody looks at the result of alloc_chrdev_region; when         *)
(* cdev_add fails, farm_init leaves without giving its region back.         *)
FarmLoaded(number) ==
  /\ loaded' = TRUE /\ major' = number /\ level' = Each("init")
  /\ regions' = regions \cup ({number} \ {0}) /\ late' = {}
  /\ UNCHANGED failed

LoadFails(number) ==
  /\ regions' = regions \cup ({number} \ {0}) /\ failed' = TRUE
  /\ UNCHANGED <<level, loaded, major, late>>

Insmod ==
  /\ script = "insmod" /\ script' = "rm"
  /\ \E number \in (Majors \ regions) \cup {0} :
       FarmLoaded(number) \/ (number # 0 /\ LoadFails(number))
  /\ UNCHANGED <<node, lowered>>

RmNode ==
  /\ script = "rm" /\ script' = "mknod"
  /\ node' = 0
  /\ UNCHANGED <<level, loaded, major, regions, failed, lowered, late>>

(* mknod.sh pastes every number listed for FARM_DEV into mknod's arguments: *)
(* with none, or with two, mknod refuses.                                   *)
Mknod ==
  /\ script = "mknod" /\ script' = "done"
  /\ node' = IF Cardinality(regions) = 1 THEN CHOOSE n \in regions : TRUE
                                         ELSE 0
  /\ UNCHANGED <<level, loaded, major, regions, failed, lowered, late>>

Opens == loaded /\ node # 0 /\ node = major

-----------------------------------------------------------------------------
KernelTypeOK ==
  /\ level \in [Pins -> {0, 1}] /\ loaded \in BOOLEAN
  /\ major \in Majors \cup {0} /\ regions \subseteq Majors
  /\ node \in Majors \cup {0} /\ failed \in BOOLEAN
  /\ script \in {"boot", "exit", "insmod", "rm", "mknod", "done"}
  /\ lowered \subseteq Pins /\ late \subseteq Pins

(* init.sh can be run as often as one likes, with programs running or not:  *)
(* it leaves a device file that opens the module, unless this load got no   *)
(* number.  And a load that failed in cdev_add once is for good: no later   *)
(* run, whatever it loads, leaves a device file that opens before a reboot. *)
InitScript == script = "done" => (Opens <=> major # 0 /\ ~failed)

(* A pin that is high without the module was driven by a call through an     *)
(* open file that came after the pin's module_*_exit and before the code was *)
(* gone (rmmod does not wait for open files): otherwise unloading turns the  *)
(* pump and the sound off, and none comes on before the next load.           *)
UnloadedLow == ~loaded => \A pin \in Pins : level[pin] = 1 => pin \in late
=============================================================================
