----------------------------- MODULE FarmDevice -----------------------------
(***************************************************************************)
(* What the kernel module's commands do to its pins (farm.c and the files  *)
(* of the devices).  A command is a number that is written down twice: in  *)
(* farm_api.h for the programs, and in a header of the device for the      *)
(* module.                                                                 *)
(***************************************************************************)
EXTENDS Integers

(* The output pins.  dht.c's pin changes direction and is a case of its own. *)
Pins == {"motor", "led", "speaker", "spi"}

ApiCommand ==
  [MOTOR_OFF |-> 10, MOTOR_ON |-> 11, LED_OFF |-> 15, LED_ON |-> 16,
   SPEAKER_PLAY |-> 20, SPEAKER_STOP |-> 21, SPI_OFF |-> 30, SPI_ON |-> 31,
   DHT_OFF |-> 60, DHT_ON |-> 61, DHT_SET_INPUT |-> 62, DHT_SET_OUTPUT |-> 63]

MotorCommand   == [MOTOR_OFF |-> 10, MOTOR_ON |-> 11]
LedCommand     == [LED_OFF |-> 15, LED_ON |-> 16]
SpeakerCommand == [SPEAKER_PLAY |-> 20, SPEAKER_STOP |-> 21]
SpiCommand     == [SPI_OFF |-> 30, SPI_ON |-> 31]
DhtCommand     == [DHT_OFF |-> 60, DHT_ON |-> 61,
                   DHT_SET_INPUT |-> 62, DHT_SET_OUTPUT |-> 63]

(* The level each function of an output device leaves at its pin: the two   *)
(* commands, module_*_init, which requests the pin as an output that is low *)
(* (and looks at no result), and module_*_exit.                             *)
MotorDriver   == [off |-> 0, on |-> 1, init |-> 0, exit |-> 0]
LedDriver     == [off |-> 0, on |-> 1, init |-> 0, exit |-> 0]
SpeakerDriver == [stop |-> 0, play |-> 1, init |-> 0, exit |-> 0]
SpiDriver     == [off |-> 0, on |-> 1, init |-> 0, exit |-> 0]

(* farm_ioctl: the pins a command writes.  case LED_ON has no break and     *)
(* runs on into SPEAKER_PLAY.                                               *)
Written(number) ==
  CASE number = MotorCommand.MOTOR_OFF      -> [motor |-> MotorDriver.off]
    [] number = MotorCommand.MOTOR_ON       -> [motor |-> MotorDriver.on]
    [] number = LedCommand.LED_OFF          -> [led |-> LedDriver.off]
    [] number = LedCommand.LED_ON           -> [led |-> LedDriver.on,
                                                speaker |-> SpeakerDriver.play]
    [] number = SpeakerCommand.SPEAKER_PLAY -> [speaker |-> SpeakerDriver.play]
    [] number = SpeakerCommand.SPEAKER_STOP -> [speaker |-> SpeakerDriver.stop]
    [] number = SpiCommand.SPI_ON           -> [spi |-> SpiDriver.on]
    [] number = SpiCommand.SPI_OFF          -> [spi |-> SpiDriver.off]

Ioctl(level, cmd) ==
  LET written == Written(ApiCommand[cmd])
  IN  [pin \in Pins |-> IF pin \in DOMAIN written THEN written[pin]
                                                  ELSE level[pin]]

Drivers == [motor |-> MotorDriver, led |-> LedDriver,
            speaker |-> SpeakerDriver, spi |-> SpiDriver]

(* All four, when the module is loaded. *)
Each(function) == [pin \in Pins |-> Drivers[pin][function]]
Low            == [pin \in Pins |-> 0]

(* The DHT's pin: its direction, and the level the farm gives it.  It is    *)
(* requested as it is, an input; as an output it starts low; as an input    *)
(* the farm's level does not reach it.                                      *)
DhtRequested == [out |-> FALSE, level |-> 0]
DhtDriver(pin, number) ==
  CASE number = DhtCommand.DHT_OFF        -> [pin EXCEPT !.level = 0]
    [] number = DhtCommand.DHT_ON         -> [pin EXCEPT !.level = 1]
    [] number = DhtCommand.DHT_SET_INPUT  -> [pin EXCEPT !.out = FALSE]
    [] number = DhtCommand.DHT_SET_OUTPUT -> [out |-> TRUE, level |-> 0]

(* DHT_GET_DATA reads the pin: an output gives back the farm's own level.   *)
DhtValue(pin, line) == IF pin.out THEN pin.level ELSE line
=============================================================================
