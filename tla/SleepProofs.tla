----------------------------- MODULE SleepProofs -----------------------------
(* Theorems about the sleeps, for every word size and every argument.      *)
EXTENDS Sleep, TLAPS

LEMMA Units == THOUSAND \in Nat \ {0} /\ Second \in Nat \ {0} /\ Nanos \in Nat \ {0}
<1>1. THOUSAND \in Nat \ {0}
  BY SleepAssumption
<1>2. \A a, b \in Nat \ {0} : a * b \in Nat \ {0}
  OBVIOUS
<1>3. Second \in Nat \ {0}
  BY <1>1, <1>2 DEF Second
<1> QED BY <1>1, <1>2, <1>3 DEF Nanos

(* Dividing a multiple, and something below a multiple, by its factor.      *)
LEMMA DivideMultiple ==
  \A d \in Nat \ {0}, q \in Nat : (q * d) \div d = q
OBVIOUS

LEMMA DivideBelow ==
  \A d \in Nat \ {0}, q, r \in Nat : r <= q * d => r \div d <= q
<1> SUFFICES ASSUME NEW d \in Nat \ {0}, NEW q \in Nat, NEW r \in Nat, r <= q * d
             PROVE  r \div d <= q
  OBVIOUS
<1>1. PICK k \in Nat : k = r \div d /\ k * d <= r
  OBVIOUS
<1>2. CASE k > q
  <2>1. PICK e \in Nat : k = q + 1 + e
    <3>1. k - (q + 1) \in Nat /\ k = q + 1 + (k - (q + 1))
      BY <1>2
    <3> QED BY <3>1
  <2>2. k * d = q * d + d + e * d /\ q * d \in Nat /\ e * d \in Nat
    BY <2>1
  <2> QED BY <1>1, <2>2
<1> QED BY <1>1, <1>2

(* sleepm: the whole seconds and the rest, which is below a second.         *)
LEMMA SleepmValue == \A n \in Nat : Sleepm(n) = n * THOUSAND
<1> SUFFICES ASSUME NEW n \in Nat PROVE Sleepm(n) = n * THOUSAND
  OBVIOUS
<1> DEFINE q == n \div THOUSAND
           r == n % THOUSAND
<1>1. q \in Nat /\ r \in Nat /\ r < THOUSAND /\ n = q * THOUSAND + r
  BY Units
<1> HIDE DEF q, r
<1>2. r * Second < Nanos /\ r * Second \in Nat
  <2>1. PICK e \in Nat : THOUSAND = r + 1 + e
    <3>1. THOUSAND - (r + 1) \in Nat /\ THOUSAND = r + 1 + (THOUSAND - (r + 1))
      BY <1>1, Units
    <3> QED BY <3>1
  <2>2. Nanos = r * Second + Second + e * Second
    BY <1>1, <2>1, Units DEF Nanos
  <2>3. e * Second \in Nat /\ r * Second \in Nat
    BY <1>1, Units
  <2> QED BY <2>2, <2>3, Units
<1>3. (r * Second) \div THOUSAND = r * THOUSAND
  <2>1. r * Second = (r * THOUSAND) * THOUSAND
    BY <1>1, Units DEF Second
  <2>2. r * THOUSAND \in Nat
    BY <1>1, Units
  <2> QED BY <2>1, <2>2, DivideMultiple, Units
<1>4. Sleepm(n) = q * Second + r * THOUSAND
  BY <1>2, <1>3 DEF Sleepm, nanosleep, q, r
<1>5. n * THOUSAND = q * Second + r * THOUSAND
  BY <1>1, Units DEF Second
<1> QED BY <1>4, <1>5

(* sleepu: the product fits below one second; above, what is left of it     *)
(* after the wrap is less than what was asked for.                          *)
LEMMA SleepuValue ==
  \A n \in Nat : Sleepu(n) <= n /\ (n < Second => Sleepu(n) = n)
<1> SUFFICES ASSUME NEW n \in Nat
             PROVE  Sleepu(n) <= n /\ (n < Second => Sleepu(n) = n)
  OBVIOUS
<1> DEFINE p == n * THOUSAND
           w == p % WORD
<1>1. p \in Nat
  BY Units
<1>2. WORD \in Nat \ {0} /\ WORD \div 2 \in Nat /\ Nanos < WORD \div 2 /\ WORD \div 2 <= WORD
  BY SleepAssumption, Units
<1>3. w \in Nat /\ w <= p
  BY <1>1, <1>2
<1>4. CASE n < HARD
  BY <1>4 DEF Sleepu
<1>5. CASE ~(n < HARD)
  <2>1. Sleepu(n) = nanosleep(0, ToLong(w))
    BY <1>5 DEF Sleepu
  <2>2. 0 * Second = 0
    BY Units
  <2>3. w \div THOUSAND <= n /\ w \div THOUSAND \in Nat
    BY <1>3, DivideBelow, Units
  <2> HIDE DEF w
  <2>4. Sleepu(n) \in {0, w \div THOUSAND}
    <3>1. CASE w < WORD \div 2
      BY <2>1, <2>2, <2>3, <3>1 DEF nanosleep, ToLong
    <3>2. CASE ~(w < WORD \div 2)
      <4>1. w < WORD
        BY <1>1, <1>2 DEF w
      <4>2. ToLong(w) \in Int /\ ToLong(w) < 0
        BY <1>2, <1>3, <3>2, <4>1 DEF ToLong
      <4> QED BY <2>1, <4>2 DEF nanosleep
    <3> QED BY <3>1, <3>2
  <2>5. Sleepu(n) <= n
    BY <2>3, <2>4
  <2>6. ASSUME n < Second PROVE Sleepu(n) = n
    <3>1. p < Nanos
      <4>1. PICK e \in Nat : Second = n + 1 + e
        <5>1. Second - (n + 1) \in Nat /\ Second = n + 1 + (Second - (n + 1))
          BY <2>6, Units
        <5> QED BY <5>1
      <4>2. Nanos = n * THOUSAND + THOUSAND + e * THOUSAND
        BY <4>1, Units DEF Nanos
      <4>3. n * THOUSAND \in Nat /\ e * THOUSAND \in Nat
        BY Units
      <4> QED BY <4>2, <4>3, Units
    <3>2. w = p
      BY <1>1, <1>2, <3>1, Units DEF w
    <3>3. p \div THOUSAND = n
      BY DivideMultiple, Units
    <3> HIDE DEF p
    <3>4. ToLong(w) = p
      BY <1>2, <3>1, <3>2, <1>1, Units DEF ToLong
    <3> QED BY <1>1, <2>1, <2>2, <3>1, <3>3, <3>4 DEF nanosleep
  <2> QED BY <2>5, <2>6
<1> QED BY <1>4, <1>5

LEMMA AskedNat == SleepSpec => [](asked \in Nat)
<1>1. SleepInit => asked \in Nat
  BY DEF SleepInit
<1>2. asked \in Nat /\ [Call \/ Back]_asked => (asked \in Nat)'
  BY SleepAssumption DEF Call, Back
<1> QED BY <1>1, <1>2, PTL DEF SleepSpec

(* sleepm is exact for every argument.                                      *)
THEOREM SleepmIsExact == SleepSpec => []SleepmExact
<1>1. asked \in Nat => SleepmExact
  BY SleepmValue DEF SleepmExact
<1> QED BY <1>1, AskedNat, PTL

(* sleepu is exact below one second and never too long, for every argument  *)
(* and every word that holds the nanoseconds of a second.                   *)
THEOREM SleepuIsSafe == SleepSpec => []SleepuBelowASecond
<1>1. asked \in Nat => SleepuBelowASecond
  BY SleepuValue DEF SleepuBelowASecond
<1> QED BY <1>1, AskedNat, PTL
=============================================================================
