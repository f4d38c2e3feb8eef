----------------------------- MODULE LightProofs -----------------------------
(* Theorems about the light thread's averages, for every set of samples.   *)
EXTENDS Light, TLAPS

(* The sum of resCount samples lies between resCount times the least and    *)
(* resCount times the largest of them.                                      *)
WindowInv ==
  /\ resCount \in 0 .. ResponseTime /\ average \in Nat
  /\ lo \in Nat /\ hi \in Nat
  /\ resCount * lo <= average /\ average <= resCount * hi

LEMMA TimesMonotone == \A a, b, c \in Nat : a <= b => c * a <= c * b
<1> SUFFICES ASSUME NEW a \in Nat, NEW b \in Nat, NEW c \in Nat, a <= b
             PROVE  c * a <= c * b
  OBVIOUS
<1>1. PICK d \in Nat : b = a + d
  <2>1. b - a \in Nat /\ b = a + (b - a)
    OBVIOUS
  <2> QED BY <2>1
<1>2. c * b = c * a + c * d
  BY <1>1
<1>3. c * a \in Nat /\ c * d \in Nat
  OBVIOUS
<1> QED BY <1>2, <1>3

(* One more sample, no less than the new least one: the bound moves along. *)
LEMMA LowerBound ==
  \A n, l, m, s, v \in Nat :
    n * l <= s /\ (n = 0 \/ m <= l) /\ m <= v => (n + 1) * m <= s + v
<1> SUFFICES ASSUME NEW n \in Nat, NEW l \in Nat, NEW m \in Nat, NEW s \in Nat,
                    NEW v \in Nat, n * l <= s, n = 0 \/ m <= l, m <= v
             PROVE  (n + 1) * m <= s + v
  OBVIOUS
<1>1. n * m <= s /\ n * m \in Nat
  <2>1. CASE n = 0
    BY <2>1
  <2>2. CASE m <= l
    <3>1. n * m <= n * l /\ n * l \in Nat /\ n * m \in Nat
      BY <2>2, TimesMonotone
    <3> QED BY <3>1
  <2> QED BY <2>1, <2>2
<1>2. (n + 1) * m = n * m + m
  OBVIOUS
<1> QED BY <1>1, <1>2

(* And from above. *)
LEMMA UpperBound ==
  \A n, h, m, s, v \in Nat :
    s <= n * h /\ (n = 0 \/ h <= m) /\ v <= m => s + v <= (n + 1) * m
<1> SUFFICES ASSUME NEW n \in Nat, NEW h \in Nat, NEW m \in Nat, NEW s \in Nat,
                    NEW v \in Nat, s <= n * h, n = 0 \/ h <= m, v <= m
             PROVE  s + v <= (n + 1) * m
  OBVIOUS
<1>1. s <= n * m /\ n * m \in Nat
  <2>1. CASE n = 0
    <3>1. n * h = 0 /\ n * m = 0
      BY <2>1
    <3> QED BY <3>1
  <2>2. CASE h <= m
    <3>1. n * h <= n * m /\ n * h \in Nat /\ n * m \in Nat
      BY <2>2, TimesMonotone
    <3> QED BY <3>1
  <2> QED BY <2>1, <2>2
<1>2. (n + 1) * m = n * m + m
  OBVIOUS
<1> QED BY <1>1, <1>2

LEMMA CollectWindow ==
  ASSUME WindowInv, NEW value \in Nat, Collect(value)
  PROVE  WindowInv'
<1>1. /\ resCount \in Nat /\ average \in Nat /\ lo \in Nat /\ hi \in Nat
      /\ resCount * lo <= average /\ average <= resCount * hi
  BY DEF WindowInv
<1>2. /\ resCount' = resCount + 1 /\ resCount' \in 0 .. ResponseTime
      /\ average' = average + value /\ average' \in Nat
  BY LightAssumption DEF WindowInv, Collect
<1>3. /\ lo' \in Nat /\ lo' <= value /\ (resCount = 0 \/ lo' <= lo)
      /\ hi' \in Nat /\ value <= hi' /\ (resCount = 0 \/ hi <= hi')
  BY DEF WindowInv, Collect
<1>4. (resCount + 1) * lo' <= average + value
  BY <1>1, <1>3, LowerBound
<1>5. average + value <= (resCount + 1) * hi'
  BY <1>1, <1>3, UpperBound
<1> QED BY <1>2, <1>3, <1>4, <1>5 DEF WindowInv

LEMMA WindowStep == WindowInv /\ [Next]_vars => WindowInv'
<1> SUFFICES ASSUME WindowInv, [Next]_vars PROVE WindowInv'
  OBVIOUS
<1>1. ASSUME NEW value \in SPI_Read_Value, Collect(value) PROVE WindowInv'
  <2>1. value \in Nat
    BY LightAssumption DEF SPI_Read_Value, FailedRead
  <2> QED BY <1>1, <2>1, CollectWindow
<1>2. CASE Respond
  BY <1>2, LightAssumption DEF Respond, WindowInv
<1>3. CASE UNCHANGED vars
  BY <1>3 DEF vars, WindowInv
<1> QED BY <1>1, <1>2, <1>3 DEF Next, SPI_Register_Handler

(* The integer quotient of a sum that lies between n * a and n * b.         *)
LEMMA Quotient ==
  \A n \in Nat \ {0}, s, a, b \in Nat :
    n * a <= s /\ s <= n * b => a <= s \div n /\ s \div n <= b
<1> SUFFICES ASSUME NEW n \in Nat \ {0}, NEW s \in Nat, NEW a \in Nat, NEW b \in Nat,
                    n * a <= s, s <= n * b
             PROVE  a <= s \div n /\ s \div n <= b
  OBVIOUS
<1> DEFINE q == s \div n
<1>1. q \in Nat /\ n * q <= s /\ s < n * q + n
  OBVIOUS
<1> HIDE DEF q
<1>2. \A x, y \in Nat : n * x < n * y + n => x <= y
  <2> SUFFICES ASSUME NEW x \in Nat, NEW y \in Nat, y + 1 <= x
               PROVE  ~(n * x < n * y + n)
    OBVIOUS
  <2>1. PICK d \in Nat : x = y + 1 + d
    <3>1. x - (y + 1) \in Nat /\ x = y + 1 + (x - (y + 1))
      OBVIOUS
    <3> QED BY <3>1
  <2>2. n * x = n * y + n + n * d /\ n * d \in Nat /\ n * y \in Nat
    BY <2>1
  <2> QED BY <2>2
<1>3. n * a < n * q + n /\ n * q < n * b + n
  <2>1. n * a \in Nat /\ n * q \in Nat /\ n * b \in Nat
    BY <1>1
  <2> QED BY <1>1, <2>1
<1>4. a <= q /\ q <= b
  BY <1>1, <1>2, <1>3
<1> QED BY <1>4 DEF q

(* With one sample a second, as the code asks for, the handler gets an      *)
(* average of the samples since its last call.                              *)
THEOREM AveragesWindow ==
  ASSUME CollectTime = 1
  PROVE  Spec => AverageOfWindow
<1>1. Init => WindowInv
  BY LightAssumption DEF Init, WindowInv
<1>2. WindowInv /\ [Next]_vars
        => [Responds => lo <= average \div divider /\ average \div divider <= hi]_vars
  <2> SUFFICES ASSUME WindowInv, Responds
               PROVE  lo <= average \div divider /\ average \div divider <= hi
    OBVIOUS
  <2>1. divider = ResponseTime /\ resCount = ResponseTime
    BY LightAssumption DEF divider, Responds
  <2> QED BY <2>1, Quotient, LightAssumption DEF WindowInv
<1> QED BY <1>1, <1>2, WindowStep, PTL DEF Spec, AverageOfWindow

-----------------------------------------------------------------------------
(* count is the number of averages since the last check, prevavglux is the  *)
(* first of them, and elapsed counts the iterations since it was taken.     *)
PaceInv ==
  /\ averages \in Seq(Int)
  /\ averages = <<>> => count = 0 /\ prevavglux = 0
  /\ averages # <<>> =>
       /\ count \in 1 .. ticcnt /\ Len(averages) = count
       /\ prevavglux = Head(averages)
       /\ elapsed = ((count - 1) * (ResponseTime + 1) + resCount + 1) * CollectTime

LEMMA ParametersType ==
  divider \in Nat \ {0} /\ ticcnt \in Nat \ {0}
<1>1. divider \in Int
  BY LightAssumption DEF divider
<1>2. (AvgInterval * 60) \div CollectTime \in Int
  BY LightAssumption
<1>3. ticcnt \in Int
  BY <1>2, LightAssumption DEF ticcnt
<1> QED BY <1>1, <1>3, LightAssumption

(* Of the counts up to ticcnt only ticcnt itself is a check. *)
LEMMA CheckAtTiccnt == \A n \in 1 .. ticcnt : n % ticcnt = 0 <=> n = ticcnt
<1> SUFFICES ASSUME NEW k \in Nat \ {0}, NEW n \in 1 .. k
             PROVE  n % k = 0 <=> n = k
  BY ParametersType
<1>1. CASE n < k
  <2>1. n % k = n
    BY <1>1
  <2> QED BY <1>1, <2>1
<1>2. CASE n = k
  <2>1. k % k = 0
    OBVIOUS
  <2> QED BY <1>2, <2>1
<1> QED BY <1>1, <1>2

LEMMA PaceStep == WindowInv /\ PaceInv /\ [Next]_vars => PaceInv'
<1> SUFFICES ASSUME WindowInv, PaceInv, [Next]_vars PROVE PaceInv'
  OBVIOUS
<1> DEFINE avg == average \div divider
           done == (count - 1) * (ResponseTime + 1)
<1>1. ASSUME NEW value \in SPI_Read_Value, Collect(value) PROVE PaceInv'
  <2>1. CASE averages = <<>>
    BY <1>1, <2>1 DEF PaceInv, Collect
  <2>2. CASE averages # <<>>
    <3>1. /\ elapsed = (done + resCount + 1) * CollectTime
          /\ elapsed' = elapsed + CollectTime /\ resCount' = resCount + 1
      BY <1>1, <2>2 DEF PaceInv, Collect
    <3>2. done \in Int /\ resCount \in Int /\ CollectTime \in Int
      BY <2>2, LightAssumption, ParametersType DEF PaceInv, WindowInv
    <3> HIDE DEF done
    <3>3. elapsed' = (done + resCount' + 1) * CollectTime
      BY <3>1, <3>2
    <3> QED BY <1>1, <2>2, <3>3 DEF PaceInv, Collect, done
  <2> QED BY <2>1, <2>2
<1>2. CASE Respond
  <2>1. avg \in Int
    BY ParametersType DEF WindowInv
  <2>2. resCount = ResponseTime /\ resCount' = 0 /\ light_handler(avg)
    BY <1>2 DEF Respond
  <2> HIDE DEF avg
  <2>3. CASE CheckDue
    <3>1. /\ averages' = <<avg>> /\ count' = 1 /\ prevavglux' = avg
          /\ elapsed' = CollectTime
      BY <2>2, <2>3 DEF light_handler
    <3>2. (0 * (ResponseTime + 1) + 0 + 1) * CollectTime = CollectTime
      BY LightAssumption
    <3>3. averages' \in Seq(Int) /\ averages' # <<>> /\ Len(averages') = 1
          /\ Head(averages') = avg
      BY <2>1, <3>1
    <3> QED BY <2>2, <3>1, <3>2, <3>3, ParametersType DEF PaceInv
  <2>4. CASE ~CheckDue
    <3>1. averages # <<>>
      <4>1. 0 % ticcnt = 0
        BY ParametersType
      <4> QED BY <2>4, <4>1 DEF PaceInv, CheckDue
    <3>2. count \in 1 .. ticcnt /\ count # ticcnt
      BY <2>4, <3>1, CheckAtTiccnt DEF PaceInv, CheckDue
    <3>3. /\ averages' = Append(averages, avg) /\ count' = count + 1
          /\ elapsed' = elapsed + CollectTime /\ prevavglux' = prevavglux
      BY <2>2, <2>4 DEF light_handler
    <3>4. /\ averages' \in Seq(Int) /\ averages' # <<>>
          /\ Len(averages') = Len(averages) + 1
          /\ Head(averages') = Head(averages)
      BY <2>1, <3>1, <3>3 DEF PaceInv
    <3>5. elapsed' = (count * (ResponseTime + 1) + 0 + 1) * CollectTime
      <4>1. elapsed' = (done + ResponseTime + 1) * CollectTime + CollectTime
        BY <2>2, <3>1, <3>3 DEF PaceInv
      <4>2. done + ResponseTime + 1 = count * (ResponseTime + 1)
        BY <3>2, ParametersType, LightAssumption
      <4>3. count * (ResponseTime + 1) \in Int
        BY <3>2, ParametersType, LightAssumption
      <4>4. \A x \in Int : x * CollectTime + CollectTime = (x + 0 + 1) * CollectTime
        BY LightAssumption
      <4> HIDE DEF done
      <4> QED BY <4>1, <4>2, <4>3, <4>4
    <3>6. count' \in 1 .. ticcnt /\ count' - 1 = count
      BY <3>2, <3>3, ParametersType
    <3> QED BY <2>2, <3>1, <3>3, <3>4, <3>5, <3>6 DEF PaceInv
  <2> QED BY <2>3, <2>4
<1>3. CASE UNCHANGED vars
  BY <1>3 DEF vars, PaceInv
<1> QED BY <1>1, <1>2, <1>3 DEF Next, SPI_Register_Handler

LEMMA LightInit == Init => WindowInv /\ PaceInv
BY LightAssumption DEF Init, WindowInv, PaceInv

(* Checks come after exactly ticcnt * (ResponseTime + 1) iterations, for    *)
(* every choice of the parameters: the iteration that drops its sample is   *)
(* in every one of them.                                                    *)
THEOREM EvenChecks == Spec => ChecksEvenlySpaced
<1>1. PaceInv /\ [Next]_vars
        => [Checks /\ averages # <<>> =>
              elapsed = ticcnt * (ResponseTime + 1) * CollectTime]_vars
  <2> SUFFICES ASSUME PaceInv, Checks, averages # <<>>
               PROVE  elapsed = ticcnt * (ResponseTime + 1) * CollectTime
    OBVIOUS
  <2>1. count = ticcnt /\ resCount = ResponseTime
    BY CheckAtTiccnt DEF PaceInv, Checks, CheckDue, Responds
  <2>2. elapsed = ((ticcnt - 1) * (ResponseTime + 1) + ResponseTime + 1) * CollectTime
    BY <2>1 DEF PaceInv
  <2>3. (ticcnt - 1) * (ResponseTime + 1) + ResponseTime + 1
          = ticcnt * (ResponseTime + 1)
    BY ParametersType, LightAssumption
  <2> QED BY <2>2, <2>3
<1> QED BY <1>1, LightInit, WindowStep, PaceStep, PTL DEF Spec, ChecksEvenlySpaced

(* Each delta but the first is between two averages ticcnt calls apart.     *)
THEOREM DeltaSpans == Spec => DeltaSpansInterval
<1>1. PaceInv /\ [Next]_vars
        => [Checks =>
              IF averages = <<>>
              THEN deltalux' = 0 - average \div divider
              ELSE /\ Len(averages) = ticcnt
                   /\ deltalux' = Head(averages) - average \div divider]_vars
  <2> SUFFICES ASSUME PaceInv, [Next]_vars, Checks
               PROVE  IF averages = <<>>
                      THEN deltalux' = 0 - average \div divider
                      ELSE /\ Len(averages) = ticcnt
                           /\ deltalux' = Head(averages) - average \div divider
    OBVIOUS
  <2>1. Respond
    <3>1. resCount # 0
      BY LightAssumption DEF Checks, Responds
    <3> QED BY <3>1 DEF Checks, Responds, Next, SPI_Register_Handler, Collect, vars
  <2>2. deltalux' = prevavglux - average \div divider
    BY <2>1 DEF Respond, light_handler, Checks
  <2>3. averages # <<>> => count = ticcnt
    BY CheckAtTiccnt DEF PaceInv, Checks, CheckDue
  <2> QED BY <2>2, <2>3 DEF PaceInv
<1> QED BY <1>1, LightInit, WindowStep, PaceStep, PTL DEF Spec, DeltaSpansInterval
=============================================================================
