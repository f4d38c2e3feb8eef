------------------------------- MODULE Sleep -------------------------------
(***************************************************************************)
(* farm_api.c's sleeps, on which every loop of the daemon and the timing   *)
(* of the DHT protocol rest.  The numbers of the code, 1000 and 2^32, are  *)
(* parameters, so that TLC can go through every argument on a small scale. *)
(***************************************************************************)
EXTENDS Integers

CONSTANTS
  THOUSAND,    \* milli, micro and nano are powers of it       (code: 1000)
  WORD,        \* values of an unsigned int, and of a long     (code: 2^32)
  HARD,        \* below, sleepu waits in a loop                (code: 100)
  MaxSize      \* bound on the arguments

VARIABLE asked \* the argument of the call under way

Second == THOUSAND * THOUSAND                          \* in microseconds
Nanos  == THOUSAND * Second                            \* of a second

(* A second of nanoseconds fits a long. *)
ASSUME SleepAssumption ==
  /\ THOUSAND \in Nat /\ THOUSAND > 1 /\ MaxSize \in Nat /\ HARD \in Nat
  /\ WORD \in Nat /\ WORD \div 2 > Nanos

(* A long of the target has as many bits as the unsigned product. *)
ToLong(n) == IF n < WORD \div 2 THEN n ELSE n - WORD

(* Microseconds slept: nothing at all (EINVAL) unless 0 <= tv_nsec < a      *)
(* second.  No signal is handled, so nothing else ends the sleep early.     *)
nanosleep(tv_sec, tv_nsec) ==
  IF 0 <= tv_nsec /\ tv_nsec < Nanos
  THEN tv_sec * Second + tv_nsec \div THOUSAND
  ELSE 0

SleepmNoRest(n) ==                                \* mutant: whole seconds only
  nanosleep(n \div THOUSAND, 0)

(* size milliseconds. *)
Sleepm(n) ==
  nanosleep(n \div THOUSAND, (n % THOUSAND) * Second)

SleepuSeconds(n) ==                               \* mutant: tv_nsec in micros
  nanosleep(0, ToLong(n % WORD))

(* size microseconds; the product is one of unsigned ints. *)
Sleepu(n) ==
  IF n < HARD THEN n
  ELSE nanosleep(0, ToLong((n * THOUSAND) % WORD))

-----------------------------------------------------------------------------
(* A thread asks and comes back; 0 is no call (sleepu(0) returns at once). *)
SleepInit == asked = 0
Call == asked = 0 /\ asked' \in 1 .. MaxSize
Back == asked # 0 /\ asked' = 0

SleepSpec == SleepInit /\ [][Call \/ Back]_asked

-----------------------------------------------------------------------------
(* sleepm sleeps for its argument, whatever it is.                          *)
SleepmExact == Sleepm(asked) = asked * THOUSAND

(* sleepu sleeps for its argument below one second, and never for longer    *)
(* than it was asked to: a longer argument is refused or cut short (one     *)
(* second exactly, the example of farm_api.c:43, does not sleep at all).    *)
SleepuBelowASecond ==
  Sleepu(asked) <= asked /\ (asked < Second => Sleepu(asked) = asked)
=============================================================================
