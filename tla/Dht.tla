-------------------------------- MODULE Dht --------------------------------
(***************************************************************************)
(* A reading of the temperature and humidity sensor (DHT_get_data of       *)
(* dht_api.c): the program polls the sensor's line, measures each level by *)
(* the number of polls and packs the long and short ones into five bytes.  *)
(* The sensor does not wait: when the thread is scheduled away, the line   *)
(* goes on without it.                                                     *)
(***************************************************************************)
EXTENDS FarmDevice

CONSTANTS
  W,                   \* bits of a byte                         (code: 8)
  Readings,            \* values of the sensor's first four bytes
  TIMEOUT,             \* polls after which the program gives up (code: 255)
  THRESHOLD,           \* polls of the longest high that is a 0  (code: 16)
  LowPolls,            \* polls of a low, and of the first two levels
  ShortPolls,          \* polls of the high of a 0
  LongPolls,           \* polls of the high of a 1
  MaxPreempts          \* bound on the times the thread loses the processor

N          == 5 * W                                            \* (code: 40)
MAXTIMINGS == 2 * N + 5                                        \* (code: 85)

(* Undisturbed, the polls tell a long high from a short one. *)
ASSUME DhtAssumption ==
  /\ W \in Nat \ {0} /\ TIMEOUT \in Nat /\ THRESHOLD \in Nat
  /\ MaxPreempts \in Nat /\ Readings \subseteq 0 .. 2 ^ W - 1
  /\ LowPolls \subseteq 1 .. TIMEOUT - 1 /\ LowPolls # {}
  /\ ShortPolls \subseteq 1 .. THRESHOLD /\ ShortPolls # {}
  /\ LongPolls \subseteq THRESHOLD + 1 .. TIMEOUT - 1 /\ LongPolls # {}

VARIABLES
  pin,               \* the farm's side of the pin
  sent,              \* the five bytes the sensor sends
  phase, left,       \* the level the line is at, and its polls to come
  alive,             \* FALSE: the line stays as it is (no answer, no device)
  pc, i, counter, laststate, j, dht11_dat,
  data,              \* what the caller gets
  preempts,          \* history: of this call
  missed             \* history: edges that no iteration was there for

sensorVars == <<sent, phase, left, alive>>
hostVars   == <<pc, i, counter, laststate, j, dht11_dat, data>>
vars       == <<pin, sensorVars, hostVars, preempts, missed>>

(* The levels of the line: high until the sensor answers, low, high, then   *)
(* for each bit a low and a high, a last low, and high for good.            *)
Last       == 2 * N + 4
Level(p)   == IF p % 2 = 0 THEN 1 ELSE 0
Bit(k)     == (sent[k \div W] \div 2 ^ (W - 1 - (k % W))) % 2
Polls(p)   == IF p < 4 \/ p % 2 = 1 \/ p = Last THEN LowPolls
              ELSE IF Bit((p - 4) \div 2) = 1 THEN LongPolls ELSE ShortPolls
Checksum(b) == (b[0] + b[1] + b[2] + b[3]) % 2 ^ W

Messages == {b \in [0 .. 4 -> 0 .. 2 ^ W - 1] :
               (\A k \in 0 .. 3 : b[k] \in Readings) /\ b[4] = Checksum(b)}

NoData  == [humidity |-> 0, temperature |-> 0]
Nothing == [k \in 0 .. 4 |-> 0]

Init ==
  /\ pin = DhtRequested
  /\ sent \in Messages /\ phase = Last /\ left = 1 /\ alive = TRUE
  /\ pc = "idle" /\ i = 0 /\ counter = 0 /\ laststate = 1 /\ j = 0
  /\ dht11_dat = Nothing /\ data = NoData
  /\ preempts = 0 /\ missed = 0

DHT_set_input(p)  == DhtDriver(p, ApiCommand.DHT_SET_INPUT)
DHT_set_output(p) == DhtDriver(p, ApiCommand.DHT_SET_OUTPUT)
DHT_on(p)         == DhtDriver(p, ApiCommand.DHT_ON)
DHT_off(p)        == DhtDriver(p, ApiCommand.DHT_OFF)

(* The bytes are cleared and the pin is pulled down for 18 ms. *)
Request ==
  /\ pc \in {"idle", "done"} /\ pc' = "request"
  /\ pin' = DHT_off(DHT_set_output(pin))
  /\ sent' \in Messages /\ phase' = 0 /\ left' \in LowPolls /\ alive' = TRUE
  /\ i' = 0 /\ counter' = 0 /\ laststate' = 1 /\ j' = 0
  /\ dht11_dat' = Nothing /\ data' = NoData
  /\ preempts' = 0 /\ missed' = 0

ReleaseDriven ==                                 \* mutant: no DHT_set_input
  /\ pc = "request" /\ pc' = "poll"
  /\ pin' = DHT_on(pin)
  /\ phase' \in {0, 1}
  /\ UNCHANGED <<sent, left, alive, i, counter, laststate, j, dht11_dat, data,
                 preempts, missed>>

(* Up for 40 us, and to input: the sensor has answered by then or not. *)
Release ==
  /\ pc = "request" /\ pc' = "poll"
  /\ pin' = DHT_set_input(DHT_on(pin))
  /\ phase' \in {0, 1}
  /\ UNCHANGED <<sent, left, alive, i, counter, laststate, j, dht11_dat, data,
                 preempts, missed>>

Line == DhtValue(pin, Level(phase))

Elapse ==
  IF left > 1 \/ ~alive \/ phase = Last
  THEN left' = (IF left > 1 THEN left - 1 ELSE left) /\ UNCHANGED phase
  ELSE phase' = phase + 1 /\ left' \in Polls(phase + 1)

PollWraps ==                                     \* mutant: no break
  /\ pc = "poll"
  /\ IF Line = laststate
     THEN counter' = (counter + 1) % TIMEOUT /\ Elapse /\ UNCHANGED pc
     ELSE pc' = "reread" /\ UNCHANGED <<counter, phase, left>>
  /\ UNCHANGED <<pin, sent, alive, i, laststate, j, dht11_dat, data,
                 preempts, missed>>

PollBreaksLate ==                         \* mutant: looks, then counts
  /\ pc = "poll"
  /\ IF Line = laststate
     THEN /\ counter' = counter + 1 /\ Elapse
          /\ pc' = IF counter = TIMEOUT THEN "reread" ELSE "poll"
     ELSE pc' = "reread" /\ UNCHANGED <<counter, phase, left>>
  /\ UNCHANGED <<pin, sent, alive, i, laststate, j, dht11_dat, data,
                 preempts, missed>>

(* while( DHT_read_data() == laststate ) *)
Poll ==
  /\ pc = "poll"
  /\ IF Line = laststate
     THEN /\ counter' = counter + 1 /\ Elapse
          /\ pc' = IF counter + 1 = TIMEOUT THEN "reread" ELSE "poll"
     ELSE pc' = "reread" /\ UNCHANGED <<counter, phase, left>>
  /\ UNCHANGED <<pin, sent, alive, i, laststate, j, dht11_dat, data,
                 preempts, missed>>

IsBitEarly == i >= 2 /\ i % 2 = 0                \* mutant
IsBit      == i >= 4 /\ i % 2 = 0

(* dht11_dat[j / 8]; a bit behind the array is none of the reading. *)
Store ==
  /\ j' = j + 1
  /\ dht11_dat' = [k \in 0 .. 4 |->
       IF k = j \div W
       THEN 2 * dht11_dat[k] + (IF counter > THRESHOLD THEN 1 ELSE 0)
       ELSE dht11_dat[k]]

(* The rest of an iteration, which reads the line again. *)
Reread ==
  /\ pc = "reread"
  /\ laststate' = Line
  /\ IF counter = TIMEOUT
     THEN pc' = "check" /\ UNCHANGED <<i, counter, j, dht11_dat, missed>>
     ELSE /\ IF IsBit THEN Store ELSE UNCHANGED <<j, dht11_dat>>
          /\ missed' = phase - (i + 1)
          /\ i' = i + 1 /\ counter' = 0
          /\ pc' = IF i + 1 < MAXTIMINGS THEN "poll" ELSE "check"
  /\ UNCHANGED <<pin, sensorVars, data, preempts>>

AcceptedAnySum   == j >= N                                        \* mutant
AcceptedOneShort == j >= N - 1 /\ dht11_dat[4] = Checksum(dht11_dat) \* mutant
Accepted         == j >= N /\ dht11_dat[4] = Checksum(dht11_dat)

Check ==
  /\ pc = "check" /\ pc' = "done"
  /\ data' = IF Accepted
             THEN [humidity |-> dht11_dat[0], temperature |-> dht11_dat[2]]
             ELSE NoData
  /\ UNCHANGED <<pin, sensorVars, i, counter, laststate, j, dht11_dat,
                 preempts, missed>>

-----------------------------------------------------------------------------
(* Another process gets the processor for as long as it likes. *)
Preempt ==
  /\ pc \in {"poll", "reread"} /\ alive /\ preempts < MaxPreempts
  /\ preempts' = preempts + 1
  /\ \/ left > 1 /\ left' \in 1 .. left - 1 /\ UNCHANGED phase
     \/ phase' \in phase + 1 .. Last /\ left' \in 1 .. TIMEOUT
        /\ \E polls \in Polls(phase') : left' <= polls
  /\ UNCHANGED <<pin, sent, alive, hostVars, missed>>

(* No sensor, or one that stops; a file that is not the device's reads 0,   *)
(* as a line does that stays low.                                           *)
SensorStops ==
  /\ pc \in {"poll", "reread"} /\ alive /\ alive' = FALSE
  /\ UNCHANGED <<pin, sent, phase, left, hostVars, preempts, missed>>

DHT_get_data == Request \/ Release \/ Poll \/ Reread \/ Check

Next == DHT_get_data \/ Preempt \/ SensorStops

Spec == Init /\ [][Next]_vars

(* The thread is scheduled. *)
FairSpec == Spec /\ WF_vars(DHT_get_data)

-----------------------------------------------------------------------------
TypeOK ==
  /\ pin \in [out : BOOLEAN, level : {0, 1}]
  /\ phase \in 0 .. Last /\ left \in Nat /\ alive \in BOOLEAN
  /\ pc \in {"idle", "request", "poll", "reread", "check", "done"}
  /\ i \in 0 .. MAXTIMINGS /\ counter \in 0 .. TIMEOUT /\ laststate \in {0, 1}
  /\ j \in Nat /\ missed \in Int /\ preempts \in 0 .. MaxPreempts

(* The loop runs to 85 and would store a 41st bit behind dht11_dat in its   *)
(* last iteration: the 84 levels of a sensor that keeps to its protocol or  *)
(* stops anywhere in it, however many of them the program misses, do not    *)
(* take it there.  One edge more, from a disturbed line, is outside this    *)
(* model, and with it the code does store behind the array.                 *)
InsideArray == j <= N

(* Of a reading that is accepted the program has missed at most one edge    *)
(* (between the poll that ends the loop and the one that sets laststate);   *)
(* after two there are not enough bits left.                                *)
AcceptedMissesOne == pc = "check" /\ Accepted => missed \in {0, 1}

(* Undisturbed, the caller gets the sensor's reading.                       *)
Decodes ==
  pc = "done" /\ preempts = 0 /\ alive =>
    data = [humidity |-> sent[0], temperature |-> sent[2]]

(* One preemption that loses no edge can turn a long high into a short one: *)
(* the checksum finds it, and the caller gets the reading or nothing.       *)
Honest ==
  pc = "done" /\ preempts <= 1 /\ missed = 0 =>
    data \in {NoData, [humidity |-> sent[0], temperature |-> sent[2]]}

(* Whatever the sensor does, the call ends.                                 *)
Returns == pc = "poll" ~> pc = "done"
=============================================================================
