-------------------------------- MODULE Light --------------------------------
(***************************************************************************)
(* The light thread's sampling: SPI_Register_Handler (spi_api.c) collects  *)
(* samples of the light sensor, one every collect_time seconds, and calls  *)
(* light_handler (daemon/light.c) with their average; every ticcnt calls   *)
(* the handler takes the change since the last check.  light_init never    *)
(* comes back from its first light_state, so this loop is the thread.      *)
(* What the handler prints, and the season and the time of day that choose *)
(* the words (module Season), change none of this state.                   *)
(***************************************************************************)
EXTENDS Integers, Sequences

CONSTANTS
  CollectTime,     \* seconds between two samples                 (code: 1)
  ResponseTime,    \* samples of one average                      (code: 10)
  AvgInterval,     \* minutes the check should span               (code: 1)
  Samples          \* values of the sensor                        (code: 0..4095)

divider == ResponseTime \div CollectTime
ticcnt  == ((AvgInterval * 60) \div CollectTime) \div ResponseTime

(* With other arguments the code divides by zero. *)
ASSUME LightAssumption ==
  /\ CollectTime \in Nat \ {0} /\ ResponseTime \in Nat \ {0}
  /\ AvgInterval \in Nat \ {0} /\ Samples \subseteq Nat
  /\ divider > 0 /\ ticcnt > 0

VARIABLES
  resCount, average,    \* SPI_Register_Handler: samples taken, their sum
  count,                \* light_handler: calls since the last check
  prevavglux, deltalux,
  lo, hi,               \* history: least and largest sample of the sum
  averages,             \* history: what the handler got since the last check
  elapsed               \* history: seconds since the last check

vars == <<resCount, average, count, prevavglux, deltalux,
          lo, hi, averages, elapsed>>

(* A transfer that fails, for one after an SPI_SetupMode that could not     *)
(* open the device (main does not look), leaves the request in the buffer:  *)
(* channel 0 gives a zero, which nothing tells from darkness.               *)
FailedRead     == 0
SPI_Read_Value == Samples \cup {FailedRead}

Init ==
  /\ resCount = 0 /\ average = 0 /\ count = 0 /\ prevavglux = 0 /\ deltalux = 0
  /\ lo = 0 /\ hi = 0 /\ averages = <<>> /\ elapsed = 0

Collect(value) ==
  /\ resCount # ResponseTime
  /\ resCount' = resCount + 1 /\ average' = average + value
  /\ lo' = IF resCount = 0 \/ value < lo THEN value ELSE lo
  /\ hi' = IF resCount = 0 \/ value > hi THEN value ELSE hi
  /\ elapsed' = elapsed + CollectTime
  /\ UNCHANGED <<count, prevavglux, deltalux, averages>>

CheckDue == count % ticcnt = 0

light_handler_drifts(avg) ==              \* mutant: prevavglux at every call
  /\ prevavglux' = avg /\ averages' = Append(IF CheckDue THEN <<>> ELSE averages, avg)
  /\ IF CheckDue
     THEN deltalux' = prevavglux - avg /\ count' = 1 /\ elapsed' = CollectTime
     ELSE count' = count + 1 /\ elapsed' = elapsed + CollectTime /\ UNCHANGED deltalux

light_handler_late(avg) ==                \* mutant: count++ only between checks
  IF CheckDue
  THEN /\ deltalux' = prevavglux - avg /\ prevavglux' = avg
       /\ count' = IF averages = <<>> THEN 1 ELSE 0
       /\ averages' = <<avg>> /\ elapsed' = CollectTime
  ELSE /\ count' = count + 1
       /\ averages' = Append(averages, avg) /\ elapsed' = elapsed + CollectTime
       /\ UNCHANGED <<prevavglux, deltalux>>

light_handler(avg) ==
  IF CheckDue
  THEN /\ deltalux' = prevavglux - avg /\ prevavglux' = avg
       /\ count' = 1
       /\ averages' = <<avg>> /\ elapsed' = CollectTime
  ELSE /\ count' = count + 1
       /\ averages' = Append(averages, avg) /\ elapsed' = elapsed + CollectTime
       /\ UNCHANGED <<prevavglux, deltalux>>

RespondKeepsSum ==                        \* mutant: no average = 0
  /\ resCount = ResponseTime
  /\ light_handler(average \div divider)
  /\ resCount' = 0
  /\ UNCHANGED <<average, lo, hi>>

(* The call of the handler takes an iteration of its own, whose sample is   *)
(* read and dropped.                                                        *)
Respond ==
  /\ resCount = ResponseTime
  /\ light_handler(average \div divider)
  /\ average' = 0 /\ resCount' = 0
  /\ UNCHANGED <<lo, hi>>

SPI_Register_Handler == (\E value \in SPI_Read_Value : Collect(value)) \/ Respond

Next == SPI_Register_Handler

Spec == Init /\ [][Next]_vars

-----------------------------------------------------------------------------
Responds == resCount = ResponseTime /\ resCount' = 0
Checks   == Responds /\ CheckDue

(* The handler's argument lies between the darkest and the brightest of the *)
(* samples since its last call: nothing of an earlier window leaks into it. *)
(* (True of a collect_time of one second: otherwise the sum of ResponseTime *)
(* samples is divided by fewer.)                                            *)
AverageOfWindow ==
  [][Responds => lo <= average \div divider /\ average \div divider <= hi]_vars

(* deltalux compares two averages that are exactly ticcnt handler calls     *)
(* apart, all of them taken between the two checks.  The first check has    *)
(* nothing to compare with and takes the difference to zero.                *)
DeltaSpansInterval ==
  [][Checks =>
       IF averages = <<>>
       THEN deltalux' = 0 - average \div divider
       ELSE /\ Len(averages) = ticcnt
            /\ deltalux' = Head(averages) - average \div divider]_vars

(* Checks are evenly spaced: ticcnt calls, each after ResponseTime samples  *)
(* and the iteration that drops one: 66 seconds with the code's parameters, *)
(* where light.c:106 and :153 have a minute.                                *)
ChecksEvenlySpaced ==
  [][Checks /\ averages # <<>> =>
       elapsed = ticcnt * (ResponseTime + 1) * CollectTime]_vars
=============================================================================
