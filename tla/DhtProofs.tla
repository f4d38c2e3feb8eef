------------------------------ MODULE DhtProofs ------------------------------
(* Theorems about a reading, for every size of a byte, every number of     *)
(* polls and of preemptions, and a sensor that may stop at any point.      *)
EXTENDS Dht, FiniteSetTheorems, FunctionTheorems, TLAPS

(* The four commands reach the functions of their names. *)
LEMMA PinCalls ==
  ASSUME NEW p
  PROVE  /\ DHT_off(p) = [p EXCEPT !.level = 0]
         /\ DHT_on(p) = [p EXCEPT !.level = 1]
         /\ DHT_set_input(p) = [p EXCEPT !.out = FALSE]
         /\ DHT_set_output(p) = [out |-> TRUE, level |-> 0]
<1>1. /\ ApiCommand.DHT_OFF = 60 /\ ApiCommand.DHT_ON = 61
      /\ ApiCommand.DHT_SET_INPUT = 62 /\ ApiCommand.DHT_SET_OUTPUT = 63
  BY DEF ApiCommand
<1>2. /\ DhtCommand.DHT_OFF = 60 /\ DhtCommand.DHT_ON = 61
      /\ DhtCommand.DHT_SET_INPUT = 62 /\ DhtCommand.DHT_SET_OUTPUT = 63
  BY DEF DhtCommand
<1> QED
  BY <1>1, <1>2 DEF DHT_off, DHT_on, DHT_set_input, DHT_set_output, DhtDriver

(* The numbers of bits, levels and iterations.                              *)
LEMMA Sizes ==
  /\ N \in Nat /\ N > 0 /\ Last \in Nat /\ Last = 2 * N + 4
  /\ MAXTIMINGS = 2 * N + 5
<1>1. W \in Nat /\ W > 0
  BY DhtAssumption
<1>2. N \in Nat /\ N > 0
  BY <1>1 DEF N
<1> QED BY <1>2 DEF Last, MAXTIMINGS

(* No level lasts for as long as the program would wait.                    *)
LEMMA PollsType == \A p : Polls(p) \subseteq 1 .. TIMEOUT - 1
<1>1. LongPolls \subseteq 1 .. TIMEOUT - 1 /\ ShortPolls \subseteq 1 .. TIMEOUT - 1
  <2>1. /\ LongPolls \subseteq THRESHOLD + 1 .. TIMEOUT - 1 /\ LongPolls # {}
        /\ ShortPolls \subseteq 1 .. THRESHOLD
        /\ TIMEOUT \in Nat /\ THRESHOLD \in Nat
    BY DhtAssumption
  <2>2. \A m \in LongPolls : m \in 1 .. TIMEOUT - 1
    BY <2>1
  <2>3. \A m \in ShortPolls : m \in 1 .. TIMEOUT - 1
    <3>1. PICK m \in LongPolls : m \in THRESHOLD + 1 .. TIMEOUT - 1
      BY <2>1
    <3> QED BY <2>1, <3>1
  <2> QED BY <2>2, <2>3
<1>2. LowPolls \subseteq 1 .. TIMEOUT - 1
  BY DhtAssumption
<1> QED BY <1>1, <1>2 DEF Polls

(* The program waits for one poll at least, a low level lasts for one.      *)
LEMMA Timeout == TIMEOUT \in Nat /\ TIMEOUT > 0 /\ LowPolls \subseteq Nat \ {0}
<1>1. TIMEOUT \in Nat /\ LowPolls \subseteq 1 .. TIMEOUT - 1 /\ LowPolls # {}
  BY DhtAssumption
<1>2. PICK p : p \in LowPolls
  BY <1>1
<1> QED BY <1>1, <1>2

(* The bound on the preemptions is a number.                                *)
LEMMA Bound == MaxPreempts \in Nat
BY DhtAssumption

(* Iteration i began at level i + missed, which is laststate, and can only  *)
(* end at a later one: edges that are missed stay missed.  All 85           *)
(* iterations would take one level more than there are.                     *)
Position ==
  /\ missed >= 0 /\ i + missed <= phase /\ left >= 1
  /\ pc = "request" => /\ i = 0 /\ missed = 0 /\ counter = 0 /\ laststate = 1
                       /\ preempts = 0 /\ left \in LowPolls
  /\ pc = "poll" => counter < TIMEOUT /\ laststate = Level(i + missed)
  /\ pc \in {"poll", "reread"} => ~pin.out
  /\ pc = "reread" /\ counter # TIMEOUT => i + 1 + missed <= phase

(* The bits that i iterations have stored. *)
Stored == IF i <= 4 THEN j = 0 ELSE 2 * j \in {i - 3, i - 4}

DhtInv == TypeOK /\ Position /\ Stored

(* A poll takes the line on by one level at most.                           *)
LEMMA ElapseStep ==
  ASSUME TypeOK, left >= 1, Elapse
  PROVE  left' \in Nat /\ left' >= 1 /\ phase' \in 0 .. Last /\ phase' \in {phase, phase + 1}
<1> USE Sizes DEF TypeOK
<1>1. CASE left > 1 \/ ~alive \/ phase = Last
  BY <1>1 DEF Elapse
<1>2. CASE ~(left > 1 \/ ~alive \/ phase = Last)
  BY <1>2, PollsType, Timeout DEF Elapse
<1> QED BY <1>1, <1>2

(* DhtInv is inductive.                                                     *)
LEMMA DhtInvariance == Spec => []DhtInv
<1>1. Init => DhtInv
  BY Sizes, Timeout, Bound DEF Init, DhtRequested, DhtInv, TypeOK, Position, Stored
<1>2. DhtInv /\ [Next]_vars => DhtInv'
  <2> SUFFICES ASSUME DhtInv, [Next]_vars PROVE DhtInv'
    OBVIOUS
  <2> USE Sizes, Timeout, Bound DEF DhtInv
  <2>1. CASE Request
    <3>1. pin' \in [out : BOOLEAN, level : {0, 1}]
      <4>1. pin' = [[out |-> TRUE, level |-> 0] EXCEPT !.level = 0]
        BY <2>1, PinCalls, Zenon DEF Request
      <4> QED BY <4>1
    <3> QED BY <2>1, <3>1 DEF Request, TypeOK, Position, Stored
  <2>2. CASE Release
    <3>1. pin' \in [out : BOOLEAN, level : {0, 1}] /\ pin'.out = FALSE
      <4>1. pin' = [[pin EXCEPT !.level = 1] EXCEPT !.out = FALSE]
        BY <2>2, PinCalls, Zenon DEF Release
      <4> QED BY <4>1 DEF TypeOK
    <3>2. phase' \in {0, 1} /\ i' = 0 /\ missed' = 0 /\ counter' = 0
          /\ laststate' = 1 /\ pc' = "poll"
      BY <2>2 DEF Release, Position
    <3>3. TypeOK'
      BY <2>2, <3>1, <3>2 DEF Release, TypeOK
    <3>4. Position' /\ Stored'
      BY <2>2, <3>1, <3>2 DEF Release, Position, Stored, Level
    <3> QED BY <3>3, <3>4
  <2>3. CASE Poll
    <3>1. CASE Line = laststate
      <4>1. /\ left' \in Nat /\ left' >= 1
            /\ phase' \in 0 .. Last /\ phase' \in {phase, phase + 1}
        BY <2>3, <3>1, ElapseStep DEF Poll, Position
      <4>2. TypeOK'
        BY <2>3, <3>1, <4>1 DEF Poll, TypeOK, Position
      <4>3. Position'
        BY <2>3, <3>1, <4>1 DEF Poll, TypeOK, Position
      <4> QED BY <2>3, <4>2, <4>3 DEF Poll, Stored
    <3>2. CASE Line # laststate
      <4>1. phase # i + missed
        BY <2>3, <3>2 DEF Poll, Position, Line, DhtValue
      <4>2. i + 1 + missed <= phase
        BY <4>1 DEF TypeOK, Position
      <4> QED BY <2>3, <3>2, <4>2 DEF Poll, TypeOK, Position, Stored
    <3> QED BY <3>1, <3>2
  <2>4. CASE Reread
    <3>1. Line = Level(phase) /\ Line \in {0, 1}
      BY <2>4 DEF Reread, Line, DhtValue, Level, Position
    <3>2. CASE counter = TIMEOUT
      BY <2>4, <3>1, <3>2 DEF Reread, TypeOK, Position, Stored, sensorVars
    <3>3. CASE counter # TIMEOUT
      <4>1. i + 1 + missed <= phase /\ phase <= Last /\ missed >= 0
        BY <2>4, <3>3 DEF Reread, Position, TypeOK
      <4>2. i' = i + 1 /\ i' < MAXTIMINGS /\ pc' = "poll" /\ counter' = 0
        BY <2>4, <3>3, <4>1 DEF Reread, TypeOK
      <4>3. missed' = phase - (i + 1) /\ phase' = phase /\ laststate' = Line
        BY <2>4, <3>3 DEF Reread, sensorVars
      <4>4. Stored' /\ j' \in Nat
        <5>1. CASE IsBit
          BY <2>4, <3>3, <4>2, <5>1 DEF Reread, IsBit, Store, Stored, TypeOK
        <5>2. CASE ~IsBit
          BY <2>4, <3>3, <4>2, <5>2 DEF Reread, IsBit, Stored, TypeOK
        <5> QED BY <5>1, <5>2
      <4>5. Position'
        <5>1. i' + missed' = phase
          BY <4>1, <4>2, <4>3 DEF TypeOK
        <5>2. laststate' = Level(i' + missed')
          BY <3>1, <4>3, <5>1
        <5> QED BY <2>4, <4>1, <4>2, <4>3, <5>1, <5>2
                DEF Reread, Position, TypeOK, sensorVars
      <4>6. TypeOK'
        BY <2>4, <3>1, <4>1, <4>2, <4>3, <4>4 DEF Reread, TypeOK, sensorVars
      <4> QED BY <4>4, <4>5, <4>6
    <3> QED BY <3>2, <3>3
  <2>5. CASE Check
    BY <2>5 DEF Check, TypeOK, Position, Stored, sensorVars
  <2>6. CASE Preempt
    <3>1. left' \in Nat /\ phase' \in 0 .. Last /\ phase' >= phase
      BY <2>6 DEF Preempt, TypeOK
    <3> QED BY <2>6, <3>1 DEF Preempt, TypeOK, Position, Stored, hostVars
  <2>7. CASE SensorStops
    BY <2>7 DEF SensorStops, TypeOK, Position, Stored, hostVars
  <2>8. CASE UNCHANGED vars
    BY <2>8 DEF vars, sensorVars, hostVars, TypeOK, Position, Stored
  <2> QED BY <2>1, <2>2, <2>3, <2>4, <2>5, <2>6, <2>7, <2>8
          DEF Next, DHT_get_data
<1> QED BY <1>1, <1>2, PTL DEF Spec

(* Every variable keeps its type; the counter never passes what a uint8_t   *)
(* holds.                                                                   *)
THEOREM DhtTyping == Spec => []TypeOK
<1>1. DhtInv => TypeOK
  BY DEF DhtInv
<1> QED BY <1>1, DhtInvariance, PTL

(* No bit is stored behind the five bytes, by a sensor that sends at most   *)
(* its 84 levels (Dht.tla's Last), wherever it stops, however many of them  *)
(* the program misses.                                                      *)
THEOREM StaysInsideArray == Spec => []InsideArray
<1>1. DhtInv => InsideArray
  BY Sizes DEF DhtInv, TypeOK, Position, Stored, InsideArray
<1> QED BY <1>1, DhtInvariance, PTL

(* A reading that is accepted has missed at most one edge of the line.      *)
THEOREM AcceptedIsComplete == Spec => []AcceptedMissesOne
<1>1. DhtInv => AcceptedMissesOne
  <2> SUFFICES ASSUME DhtInv, Accepted PROVE missed \in {0, 1}
    BY DEF AcceptedMissesOne
  <2>1. j >= N
    BY DEF Accepted
  <2>2. i >= 2 * N + 3
    BY <2>1, Sizes DEF DhtInv, TypeOK, Stored
  <2> QED BY <2>2, Sizes DEF DhtInv, TypeOK, Position
<1> QED BY <1>1, DhtInvariance, PTL

-----------------------------------------------------------------------------
(* The provers know no exponents; the library counts subsets with one.     *)
LEMMA PowerOfTwo ==
  ASSUME NEW n \in Nat
  PROVE  2 ^ (n + 1) = 2 * 2 ^ n /\ 2 ^ n \in Nat /\ 2 ^ n > 0
<1> DEFINE A == 1 .. n
           Below == SUBSET A
           With == {B \cup {n + 1} : B \in Below}
<1>1. /\ IsFiniteSet(A) /\ Cardinality(A) = n
      /\ IsFiniteSet(1 .. n + 1) /\ Cardinality(1 .. n + 1) = n + 1
  BY FS_Interval
<1>2. /\ IsFiniteSet(Below) /\ Cardinality(Below) = 2 ^ n
      /\ Cardinality(SUBSET (1 .. n + 1)) = 2 ^ (n + 1)
  <2>1. /\ IsFiniteSet(SUBSET A) /\ Cardinality(SUBSET A) = 2 ^ Cardinality(A)
    BY <1>1, FS_SUBSET
  <2>2. Cardinality(SUBSET (1 .. n + 1)) = 2 ^ Cardinality(1 .. n + 1)
    BY <1>1, FS_SUBSET
  <2> QED BY <1>1, <2>1, <2>2
<1>3. IsFiniteSet(With) /\ Cardinality(With) = Cardinality(Below)
  <2> DEFINE f == [B \in Below |-> B \cup {n + 1}]
  <2>1. f \in Bijection(Below, With)
    <3>1. \A B \in Below : n + 1 \notin B
      OBVIOUS
    <3>2. \A B, C \in Below : B \cup {n + 1} = C \cup {n + 1} => B = C
      <4> SUFFICES ASSUME NEW B \in Below, NEW C \in Below,
                          B \cup {n + 1} = C \cup {n + 1}
                   PROVE  B = C
        OBVIOUS
      <4>1. \A x : x \in B <=> x \in C
        BY <3>1
      <4> QED BY <4>1
    <3>3. f \in [Below -> With] /\ \A B \in Below : f[B] = B \cup {n + 1}
      OBVIOUS
    <3>4. \A D \in With : \E B \in Below : f[B] = D
      OBVIOUS
    <3> HIDE DEF f, Below, With
    <3>5. \A B, C \in Below : f[B] = f[C] => B = C
      BY <3>2, <3>3
    <3> QED BY <3>3, <3>4, <3>5, Fun_IsBij
  <2>2. ExistsBijection(Below, With)
    BY <2>1 DEF ExistsBijection
  <2> QED BY <1>2, <2>2, FS_Bijection
<1>4. SUBSET (1 .. n + 1) = Below \cup With
  <2>1. 1 .. n + 1 = A \cup {n + 1}
    OBVIOUS
  <2>2. ASSUME NEW B \in SUBSET (1 .. n + 1) PROVE B \in Below \cup With
    <3>1. CASE n + 1 \in B
      <4>1. B \ {n + 1} \in Below /\ B = (B \ {n + 1}) \cup {n + 1}
        BY <2>1, <3>1
      <4> QED BY <4>1
    <3>2. CASE n + 1 \notin B
      BY <2>1, <3>2
    <3> QED BY <3>1, <3>2
  <2>3. Below \cup With \subseteq SUBSET (1 .. n + 1)
    BY <2>1
  <2> QED BY <2>2, <2>3
<1>5. Below \cap With = {}
  <2>1. \A B \in Below : n + 1 \notin B
    OBVIOUS
  <2>2. \A B \in With : n + 1 \in B
    OBVIOUS
  <2> QED BY <2>1, <2>2
<1>6. 2 ^ n \in Nat /\ 2 ^ n > 0
  <2>1. Below # {}
    OBVIOUS
  <2> HIDE DEF Below
  <2>2. Cardinality(Below) \in Nat /\ Cardinality(Below) # 0
    BY <1>2, <2>1, FS_CardinalityType, FS_EmptySet
  <2> QED BY <1>2, <2>2
<1>7. 2 ^ (n + 1) = 2 ^ n + 2 ^ n
  <2> HIDE DEF Below, With
  <2>1. Cardinality(Below \cup With)
          = Cardinality(Below) + Cardinality(With) - Cardinality(Below \cap With)
    BY <1>2, <1>3, FS_Union
  <2>2. Cardinality(Below \cap With) = 0
    BY <1>5, FS_EmptySet
  <2>3. Cardinality(Below \cup With) = 2 ^ (n + 1)
    BY <1>2, <1>4
  <2> QED BY <1>2, <1>3, <1>6, <2>1, <2>2, <2>3
<1> QED BY <1>6, <1>7

(* What a division yields. *)
LEMMA Quotient ==
  ASSUME NEW s \in Nat, NEW d \in Nat, d > 0, NEW q \in Nat, NEW r \in Nat,
         r < d, s = d * q + r
  PROVE  s \div d = q /\ s % d = r
OBVIOUS

(* A prefix of a number's bits, one bit longer.                             *)
LEMMA OneBitMore ==
  ASSUME NEW s \in Nat, NEW P \in Nat, P > 0
  PROVE  s \div P = 2 * (s \div (2 * P)) + ((s \div P) % 2)
<1> DEFINE q == s \div P
           r == s % P
<1>1. q \in Nat /\ r \in 0 .. P - 1 /\ s = P * q + r
  OBVIOUS
<1> DEFINE a == q \div 2
           b == q % 2
<1>2. a \in Nat /\ b \in {0, 1} /\ q = 2 * a + b
  BY <1>1
<1> HIDE DEF q, r, a, b
<1>3. s = (2 * P) * a + (P * b + r)
  BY <1>1, <1>2
<1>4. P * b + r \in Nat /\ P * b + r < 2 * P
  BY <1>1, <1>2
<1>5. s \div (2 * P) = a
  <2> DEFINE d == 2 * P
             e == P * b + r
  <2>1. d \in Nat /\ d > 0 /\ e \in Nat /\ e < d /\ s = d * a + e
    BY <1>3, <1>4
  <2> HIDE DEF d, e
  <2>2. s \div d = a
    BY <1>2, <2>1, Quotient
  <2> QED BY <2>2 DEF d
<1> QED BY <1>2, <1>5 DEF q, a, b

(* A sum that is wrong by less than the modulus has another remainder.      *)
LEMMA OtherRemainder ==
  ASSUME NEW M \in Nat, NEW S \in Nat, NEW e \in Nat, 0 < e, e < M, e <= S
  PROVE  (S - e) % M # S % M
<1> DEFINE p == S \div M
           q == (S - e) \div M
           r == S % M
<1>1. p \in Int /\ r \in Int /\ S = M * p + r
  OBVIOUS
<1>2. q \in Int /\ S - e = M * q + ((S - e) % M)
  OBVIOUS
<1> HIDE DEF p, q, r
<1>3. ASSUME (S - e) % M = r PROVE FALSE
  <2>1. e = M * p - M * q
    BY <1>1, <1>2, <1>3
  <2>2. e = M * (p - q)
    BY <1>1, <1>2, <2>1
  <2>3. CASE p - q <= 0
    BY <1>1, <1>2, <2>2, <2>3
  <2>4. CASE p - q >= 1
    BY <1>1, <1>2, <2>2, <2>4
  <2> QED BY <1>1, <1>2, <2>3, <2>4
<1> QED BY <1>3 DEF r

(* What there is in the first n bits of a message, byte by byte.            *)
Taken(k, n) == IF n <= k * W THEN 0 ELSE IF n >= (k + 1) * W THEN W ELSE n - k * W
BitOf(b, n) == (b[n \div W] \div 2 ^ (W - 1 - (n % W))) % 2
Prefix(b, k, n) == b[k] \div 2 ^ (W - Taken(k, n))

(* A message is five bytes, the last of them the sum of the others.         *)
LEMMA SentBytes ==
  ASSUME NEW b \in Messages
  PROVE  /\ b \in [0 .. 4 -> Nat] /\ 2 ^ W \in Nat /\ 2 ^ W > 0
         /\ \A k \in 0 .. 4 : b[k] < 2 ^ W
         /\ b[4] = Checksum(b)
<1>1. 2 ^ W \in Nat /\ 2 ^ W > 0
  BY PowerOfTwo, DhtAssumption
<1> QED BY <1>1 DEF Messages

(* No bits are 0, all bits are the message.                                 *)
LEMMA PrefixEnds ==
  ASSUME NEW b \in Messages, NEW k \in 0 .. 4
  PROVE  /\ Prefix(b, k, 0) = 0
         /\ Prefix(b, k, N) = b[k]
<1>1. W \in Nat /\ W > 0 /\ N = 5 * W
  BY DhtAssumption DEF N
<1>2. b[k] \in Nat /\ b[k] < 2 ^ W /\ 2 ^ W \in Nat /\ 2 ^ W > 0
  BY SentBytes
<1>3. Taken(k, 0) = 0 /\ Taken(k, N) = W
  BY <1>1 DEF Taken
<1>4. b[k] \div 2 ^ W = 0
  <2>1. \A M \in Nat : M > 0 /\ b[k] < M => b[k] \div M = 0
    BY <1>2
  <2> QED BY <1>2, <2>1
<1>5. 2 ^ 0 = 1
  OBVIOUS
<1>6. b[k] \div 1 = b[k]
  BY <1>2
<1>7. W - 0 = W /\ W - W = 0
  BY <1>1
<1> QED BY <1>3, <1>4, <1>5, <1>6, <1>7 DEF Prefix

(* The byte and the place in it of the n-th bit. *)
LEMMA BytePlace ==
  ASSUME NEW n \in 0 .. N - 1
  PROVE  /\ n \div W \in 0 .. 4
         /\ n % W = n - (n \div W) * W
         /\ (n \div W) * W <= n /\ n < (n \div W + 1) * W
<1>1. W \in Nat /\ W > 0 /\ N = 5 * W
  BY DhtAssumption DEF N
<1> DEFINE b == n \div W
           r == n % W
<1>2. b \in Nat /\ r \in 0 .. W - 1 /\ n = W * b + r
  BY <1>1
<1> HIDE DEF b, r
<1>3. b \in 0 .. 4
  <2>1. ASSUME b >= 5 PROVE FALSE
    <3>1. W * b >= W * 5
      BY <1>1, <1>2, <2>1
    <3> QED BY <1>1, <1>2, <3>1
  <2> QED BY <1>2, <2>1
<1>4. r = n - b * W /\ b * W <= n /\ n < (b + 1) * W
  BY <1>1, <1>2
<1> QED BY <1>3, <1>4 DEF b, r

(* One bit more: its byte is shifted and gets it, the others stay.          *)
LEMMA NextPrefix ==
  ASSUME NEW b \in Messages, NEW n \in 0 .. N - 1, NEW k \in 0 .. 4
  PROVE  Prefix(b, k, n + 1) =
           IF k = n \div W THEN 2 * Prefix(b, k, n) + BitOf(b, n)
                      ELSE Prefix(b, k, n)
<1>1. W \in Nat /\ W > 0 /\ N = 5 * W /\ n \in Nat
  BY DhtAssumption DEF N
<1>2. /\ n \div W \in 0 .. 4 /\ n % W = n - (n \div W) * W
      /\ (n \div W) * W <= n /\ n < (n \div W + 1) * W
  BY BytePlace
<1>3. CASE k = n \div W
  <2> DEFINE P == 2 ^ (W - 1 - (n % W))
  <2>1. /\ k * W <= n /\ n < (k + 1) * W /\ n % W = n - k * W
        /\ n % W \in 0 .. W - 1
    BY <1>1, <1>2, <1>3
  <2>2. Taken(k, n) = n % W /\ Taken(k, n + 1) = (n % W) + 1
    BY <1>1, <2>1 DEF Taken
  <2>3. P \in Nat /\ P > 0 /\ 2 ^ (W - (n % W)) = 2 * P
    <3>1. W - 1 - (n % W) \in Nat /\ W - (n % W) = (W - 1 - (n % W)) + 1
      BY <1>1, <2>1
    <3> QED BY <3>1, PowerOfTwo
  <2>4. W - ((n % W) + 1) = W - 1 - (n % W)
    BY <1>1, <2>1
  <2>5. b[k] \div P = 2 * (b[k] \div (2 * P)) + ((b[k] \div P) % 2)
    BY <2>3, SentBytes, OneBitMore
  <2> QED BY <1>3, <2>2, <2>3, <2>4, <2>5 DEF Prefix, BitOf
<1>4. CASE k # n \div W
  <2>1. Taken(k, n + 1) = Taken(k, n)
    <3>1. n < k * W \/ n >= (k + 1) * W
      <4>1. CASE k < n \div W
        BY <1>1, <1>2, <4>1
      <4>2. CASE k > n \div W
        BY <1>1, <1>2, <4>2
      <4> QED BY <1>2, <1>4, <4>1, <4>2
    <3> QED BY <1>1, <3>1 DEF Taken
  <2> QED BY <1>4, <2>1 DEF Prefix
<1> QED BY <1>3, <1>4

(* A prefix is a number.                                                    *)
LEMMA PrefixType ==
  ASSUME NEW b \in Messages, NEW k \in 0 .. 4, NEW n \in 0 .. N
  PROVE  Prefix(b, k, n) \in Nat
<1>1. W \in Nat /\ W > 0 /\ n \in Nat
  BY Sizes, DhtAssumption
<1>2. W - Taken(k, n) \in Nat
  BY <1>1 DEF Taken
<1>3. 2 ^ (W - Taken(k, n)) \in Nat /\ 2 ^ (W - Taken(k, n)) > 0
  BY <1>2, PowerOfTwo
<1> QED BY <1>3, SentBytes DEF Prefix

(* The sensor's bit is the next one of its message.                         *)
LEMMA BitType ==
  ASSUME sent \in Messages, NEW n \in 0 .. N - 1
  PROVE  Bit(n) \in {0, 1} /\ Bit(n) = BitOf(sent, n)
<1>1. n \div W \in 0 .. 4 /\ n % W \in 0 .. W - 1 /\ W \in Nat /\ W > 0
  <2>1. W \in Nat /\ W > 0 /\ n \in Nat
    BY Sizes, DhtAssumption
  <2> QED BY <2>1, BytePlace
<1>2. sent[n \div W] \in Nat
  BY <1>1, SentBytes
<1>3. W - 1 - (n % W) \in Nat
  BY <1>1
<1>4. 2 ^ (W - 1 - (n % W)) \in Nat /\ 2 ^ (W - 1 - (n % W)) > 0
  BY <1>3, PowerOfTwo
<1>5. sent[n \div W] \div 2 ^ (W - 1 - (n % W)) \in Nat
  BY <1>2, <1>4
<1> QED BY <1>5 DEF Bit, BitOf

-----------------------------------------------------------------------------
(* The highs that are bits, and how a measured level compares with what the *)
(* sensor does: no difference in a reading that is undisturbed, or that has *)
(* a wrong bit already; never too long.                                     *)
BitLevel(p) == p >= 4 /\ p % 2 = 0
Clean == \A k \in 0 .. 4 : dht11_dat[k] = Prefix(sent, k, j)
Counted(p, m) ==
  /\ preempts = 0 \/ (BitLevel(p) /\ ~Clean) => m \in Polls(p)
  /\ BitLevel(p) => \E q \in Polls(p) : m <= q

(* The polls of the levels an iteration is concerned with: those it has and *)
(* will have taken of the level it is at, and the next one's.               *)
Taking(p, m) ==
  \/ phase = i /\ pc = "poll" /\ alive /\ p = i /\ p < Last /\ m = counter + left
  \/ phase = i + 1 /\ p = i /\ BitLevel(p) /\ m = counter
  \/ phase = i + 1 /\ alive /\ p = i + 1 /\ p < Last /\ m = left

Measure ==
  pc \in {"poll", "reread"} /\ preempts <= 1 /\ missed = 0 /\ counter < TIMEOUT =>
    \A p \in 0 .. Last, m \in Nat : Taking(p, m) => Counted(p, m)

(* Of the bytes at most one differs from what was sent, by a 1 that was     *)
(* taken for a 0; none in an undisturbed reading.                           *)
OneShort ==
  \E e \in 0 .. 4 : \A k \in 0 .. 4 :
    /\ dht11_dat[k] <= Prefix(sent, k, j)
    /\ k # e => dht11_dat[k] = Prefix(sent, k, j)

Bytes ==
  /\ sent \in Messages /\ dht11_dat \in [0 .. 4 -> Nat]
  /\ preempts <= 1 /\ missed = 0 => OneShort /\ (preempts = 0 => Clean)

(* An undisturbed reading follows every edge, and goes on to the last level. *)
Prompt ==
  preempts = 0 /\ alive =>
    /\ missed = 0
    /\ pc = "poll" => phase \in {i, i + 1}
    /\ pc = "reread" => IF counter = TIMEOUT THEN i = Last ELSE phase = i + 1
    /\ pc \in {"check", "done"} => i = Last

Result ==
  pc = "done" =>
    data = IF Accepted
           THEN [humidity |-> dht11_dat[0], temperature |-> dht11_dat[2]]
           ELSE NoData

ReadingInv == Measure /\ Bytes /\ Prompt /\ Result

(* A high that was counted stands for its bit, or for a 0.                  *)
LEMMA LevelBit ==
  ASSUME sent \in Messages, NEW n \in 0 .. N - 1, NEW m \in Nat,
         NEW p \in Nat, p = 2 * n + 4
  PROVE  /\ m \in Polls(p) => (m > THRESHOLD <=> Bit(n) = 1)
         /\ (\E q \in Polls(p) : m <= q) /\ m > THRESHOLD => Bit(n) = 1
<1>1. p % 2 = 0 /\ p # Last /\ p >= 4 /\ (p - 4) \div 2 = n
  BY Sizes
<1>2. Polls(p) = IF Bit(n) = 1 THEN LongPolls ELSE ShortPolls
  BY <1>1 DEF Polls
<1>3. /\ \A q \in LongPolls : q > THRESHOLD
      /\ \A q \in ShortPolls : q \in Nat /\ q <= THRESHOLD
      /\ THRESHOLD \in Nat
  BY DhtAssumption
<1>4. CASE Bit(n) = 1
  BY <1>2, <1>3, <1>4
<1>5. CASE Bit(n) # 1
  <2>1. Polls(p) = ShortPolls
    BY <1>2, <1>5
  <2>2. ASSUME NEW q \in ShortPolls, m <= q PROVE ~(m > THRESHOLD)
    BY <1>3, <2>2
  <2>3. ASSUME m \in ShortPolls PROVE ~(m > THRESHOLD)
    BY <1>3, <2>3
  <2> QED BY <1>5, <2>1, <2>2, <2>3
<1> QED BY <1>4, <1>5

(* What stays when the sensor's message and the bytes do.                   *)
LEMMA ReadingKept ==
  UNCHANGED <<sent, j, dht11_dat>> =>
    /\ Clean' = Clean /\ OneShort' = OneShort /\ Accepted' = Accepted
    /\ \A p : Polls(p)' = Polls(p)
BY DEF Clean, OneShort, Accepted, Polls, Bit

-----------------------------------------------------------------------------
(* A bit goes to its byte as it was sent, or as a 0, and the latter only if *)
(* all bits before were right.                                              *)
LEMMA StoreStep ==
  ASSUME DhtInv, ReadingInv, Reread, counter < TIMEOUT, IsBit,
         preempts <= 1, missed' = 0, phase = i + 1
  PROVE  OneShort' /\ (preempts = 0 => Clean')
<1> DEFINE bit == IF counter > THRESHOLD THEN 1 ELSE 0
<1>1. /\ i \in Nat /\ j \in Nat /\ i >= 4 /\ i % 2 = 0 /\ i < Last /\ counter \in Nat
      /\ missed = 0 /\ pc = "reread" /\ TIMEOUT \in Nat
  BY Sizes, Timeout DEF DhtInv, TypeOK, Position, Reread, IsBit
<1>2. j \in 0 .. N - 1 /\ i = 2 * j + 4
  BY <1>1, Sizes DEF DhtInv, Stored
<1>3. /\ sent \in Messages /\ dht11_dat \in [0 .. 4 -> Nat] /\ UNCHANGED sent
      /\ OneShort /\ (preempts = 0 => Clean)
  BY <1>1 DEF ReadingInv, Bytes, Reread, sensorVars
<1>4. Bit(j) \in {0, 1} /\ bit <= Bit(j) /\ (preempts = 0 \/ ~Clean => bit = Bit(j))
  <2>1. i \in 0 .. Last /\ BitLevel(i) /\ Taking(i, counter)
    BY <1>1, Sizes DEF Taking, BitLevel
  <2>2. Counted(i, counter)
    BY <1>1, <2>1 DEF ReadingInv, Measure
  <2>3. /\ \E q \in Polls(i) : counter <= q
        /\ preempts = 0 \/ ~Clean => counter \in Polls(i)
    BY <2>1, <2>2 DEF Counted
  <2>4. /\ counter \in Polls(i) => (counter > THRESHOLD <=> Bit(j) = 1)
        /\ counter > THRESHOLD => Bit(j) = 1
    BY <1>1, <1>2, <1>3, <2>3, LevelBit
  <2>5. Bit(j) \in {0, 1}
    BY <1>2, <1>3, BitType
  <2> QED BY <2>3, <2>4, <2>5
<1>5. /\ j' = j + 1 /\ j \div W \in 0 .. 4
      /\ \A k \in 0 .. 4 : dht11_dat'[k] = IF k = j \div W THEN 2 * dht11_dat[k] + bit
                                                          ELSE dht11_dat[k]
  <2>1. j' = j + 1 /\ j \div W \in 0 .. 4
    BY <1>1, <1>2, BytePlace DEF Reread, Store
  <2>2. dht11_dat' = [k \in 0 .. 4 |-> IF k = j \div W THEN 2 * dht11_dat[k] + bit
                                                       ELSE dht11_dat[k]]
    BY <1>1 DEF Reread, Store
  <2> QED BY <2>1, <2>2
<1>6. \A k \in 0 .. 4 :
        Prefix(sent', k, j') = IF k = j \div W THEN 2 * Prefix(sent, k, j) + Bit(j)
                                              ELSE Prefix(sent, k, j)
  <2>1. \A k \in 0 .. 4 :
          Prefix(sent, k, j + 1) =
            IF k = j \div W THEN 2 * Prefix(sent, k, j) + BitOf(sent, j)
                            ELSE Prefix(sent, k, j)
    BY <1>2, <1>3, NextPrefix
  <2>2. sent' = sent /\ j' = j + 1 /\ Bit(j) = BitOf(sent, j)
    BY <1>2, <1>3, <1>5, BitType
  <2> QED BY <2>1, <2>2
<1>7. \A k \in 0 .. 4 : Prefix(sent, k, j) \in Nat /\ dht11_dat[k] \in Nat
  <2>1. j \in 0 .. N
    BY <1>2, Sizes
  <2> QED BY <1>3, <2>1, PrefixType
<1> HIDE DEF bit
<1>8. bit \in {0, 1}
  BY DEF bit
<1>9. CASE Clean
  <2>1. \A k \in 0 .. 4 : /\ dht11_dat'[k] <= Prefix(sent', k, j')
                          /\ k # j \div W => dht11_dat'[k] = Prefix(sent', k, j')
    BY <1>4, <1>5, <1>6, <1>7, <1>8, <1>9 DEF Clean
  <2>2. OneShort'
    BY <1>5, <2>1 DEF OneShort
  <2>3. ASSUME preempts = 0 PROVE Clean'
    <3>1. bit = Bit(j)
      BY <1>4, <2>3
    <3> QED BY <1>5, <1>6, <1>9, <3>1 DEF Clean
  <2> QED BY <2>2, <2>3
<1>10. CASE ~Clean
  <2>1. bit = Bit(j) /\ preempts # 0
    BY <1>3, <1>4, <1>10
  <2>2. PICK e \in 0 .. 4 : \A k \in 0 .. 4 :
          /\ dht11_dat[k] <= Prefix(sent, k, j)
          /\ k # e => dht11_dat[k] = Prefix(sent, k, j)
    BY <1>3 DEF OneShort
  <2>3. \A k \in 0 .. 4 : /\ dht11_dat'[k] <= Prefix(sent', k, j')
                          /\ k # e => dht11_dat'[k] = Prefix(sent', k, j')
    BY <1>5, <1>6, <1>7, <1>8, <2>1, <2>2
  <2> QED BY <2>1, <2>3 DEF OneShort
<1> QED BY <1>9, <1>10

(* Only Reread stores into the bytes; Request clears them.                  *)
LEMMA BytesStep == ASSUME DhtInv, ReadingInv, [Next]_vars PROVE Bytes'
<1> USE DEF DhtInv, ReadingInv
<1>1. CASE Request
  <2>1. /\ sent' \in Messages /\ j' = 0
        /\ dht11_dat' \in [0 .. 4 -> Nat] /\ \A k \in 0 .. 4 : dht11_dat'[k] = 0
    BY <1>1 DEF Request, Nothing
  <2>2. \A k \in 0 .. 4 : Prefix(sent', k, j') = 0
    BY <2>1, PrefixEnds
  <2> QED BY <2>1, <2>2 DEF Bytes, OneShort, Clean
<1>2. CASE Reread
  <2>1. UNCHANGED <<sent, preempts>> /\ preempts \in Nat
    BY <1>2, Bound DEF Reread, sensorVars, TypeOK
  <2>2. dht11_dat' \in [0 .. 4 -> Nat]
    <3>1. dht11_dat \in [0 .. 4 -> Nat]
      BY DEF Bytes
    <3>2. CASE counter # TIMEOUT /\ IsBit
      BY <1>2, <3>1, <3>2 DEF Reread, Store
    <3>3. CASE ~(counter # TIMEOUT /\ IsBit)
      BY <1>2, <3>1, <3>3 DEF Reread
    <3> QED BY <3>2, <3>3
  <2>3. ASSUME preempts <= 1, missed' = 0 PROVE OneShort' /\ (preempts = 0 => Clean')
    <3>1. CASE counter = TIMEOUT
      BY <1>2, <2>1, <2>3, <3>1, ReadingKept DEF Reread, Bytes
    <3>2. CASE counter # TIMEOUT
      <4>1. missed = 0 /\ phase = i + 1 /\ counter < TIMEOUT
        BY <1>2, <2>3, <3>2, Timeout, Sizes DEF Reread, Position, TypeOK
      <4>2. CASE IsBit
        BY <1>2, <2>3, <4>1, <4>2, StoreStep
      <4>3. CASE ~IsBit
        BY <1>2, <2>1, <2>3, <3>2, <4>1, <4>3, ReadingKept DEF Reread, Bytes
      <4> QED BY <4>2, <4>3
    <3> QED BY <3>1, <3>2
  <2> QED BY <2>1, <2>2, <2>3 DEF Bytes
<1>3. CASE Release \/ Poll \/ Check \/ Preempt \/ SensorStops \/ UNCHANGED vars
  <2>1. UNCHANGED <<sent, j, dht11_dat, missed>> /\ preempts' \in {preempts, preempts + 1}
    BY <1>3 DEF Release, Poll, Check, Preempt, SensorStops, vars, sensorVars, hostVars
  <2>2. preempts \in Nat
    BY Bound DEF TypeOK
  <2> QED BY <2>1, <2>2, ReadingKept DEF Bytes
<1> QED BY <1>1, <1>2, <1>3 DEF Next, DHT_get_data

(* A level that is taken in a poll is one that ends with it or goes on.     *)
LEMMA PolledLevel ==
  ASSUME DhtInv, pc = "poll", missed = 0
  PROVE  /\ phase = i => Line = laststate
         /\ phase = i + 1 => Line # laststate
<1>1. Line = Level(phase) /\ laststate = Level(i) /\ i \in Nat
  BY Sizes DEF DhtInv, Position, TypeOK, Line, DhtValue
<1> QED BY <1>1 DEF Level

(* What is counted of a level and what it still lasts add up.               *)
LEMMA MeasureStep == ASSUME DhtInv, ReadingInv, [Next]_vars PROVE Measure'
<1> USE Sizes DEF DhtInv, ReadingInv
<1> SUFFICES ASSUME pc' \in {"poll", "reread"}, preempts' <= 1, missed' = 0,
                    counter' < TIMEOUT,
                    NEW p \in 0 .. Last, NEW m \in Nat, Taking(p, m)'
             PROVE  Counted(p, m)'
  BY DEF Measure
<1>1. /\ i \in Nat /\ phase \in Nat /\ counter \in Nat /\ left \in Nat /\ left >= 1
      /\ missed \in Int /\ preempts \in Nat /\ missed >= 0 /\ i + missed <= phase
      /\ phase <= Last /\ TIMEOUT \in Nat /\ Last \in Nat
  BY Timeout, Bound DEF TypeOK, Position
<1>2. UNCHANGED <<sent, j, dht11_dat, preempts>> => Counted(p, m)' = Counted(p, m)
  BY ReadingKept DEF Counted
<1>3. CASE Release
  <2>1. /\ i' = 0 /\ counter' = 0 /\ left' = left /\ left \in LowPolls
        /\ p \in {0, 1} /\ m = left
    BY <1>1, <1>3 DEF Release, Position, Taking, BitLevel
  <2>2. Polls(p)' = LowPolls /\ ~BitLevel(p)
    BY <2>1 DEF Polls, BitLevel
  <2> QED BY <2>1, <2>2 DEF Counted
<1>4. CASE Poll
  <2>1. /\ UNCHANGED <<sent, alive, i, j, dht11_dat, preempts, missed>> /\ pc = "poll"
        /\ missed = 0 /\ preempts <= 1 /\ counter < TIMEOUT
    BY <1>4 DEF Poll, Position
  <2>2. CASE phase = i
    <3>1. Line = laststate /\ counter' = counter + 1 /\ Elapse
      BY <1>4, <2>1, <2>2, PolledLevel DEF Poll
    <3>2. CASE left > 1 \/ ~alive \/ phase = Last
      <4>1. Taking(p, m)
        BY <1>1, <2>1, <2>2, <3>1, <3>2 DEF Elapse, Taking
      <4> QED BY <1>2, <2>1, <4>1 DEF Measure
    <3>3. CASE ~(left > 1 \/ ~alive \/ phase = Last)
      <4>1. phase' = phase + 1 /\ left' \in Polls(i + 1) /\ left = 1 /\ alive
        BY <1>1, <2>2, <3>1, <3>3 DEF Elapse
      <4>2. (p = i /\ m = counter + left) \/ (p = i + 1 /\ m \in Polls(p))
        BY <1>1, <2>1, <2>2, <3>1, <4>1 DEF Taking
      <4>3. CASE p = i /\ m = counter + left
        <5>1. Taking(p, m)
          BY <1>1, <2>1, <2>2, <3>3, <4>1, <4>3 DEF Taking
        <5> QED BY <1>2, <2>1, <5>1 DEF Measure
      <4>4. CASE p = i + 1 /\ m \in Polls(p)
        <5>1. Counted(p, m)
          BY <4>4 DEF Counted
        <5> QED BY <1>2, <2>1, <5>1
      <4> QED BY <4>2, <4>3, <4>4
    <3> QED BY <3>2, <3>3
  <2>3. CASE phase # i
    <3>1. CASE Line = laststate
      <4>1. phase' \in {phase, phase + 1} /\ phase # i + 1
        BY <1>4, <2>1, <3>1, PolledLevel, ElapseStep DEF Poll, Position
      <4> QED BY <1>1, <2>1, <2>3, <4>1 DEF Taking
    <3>2. CASE Line # laststate
      <4>1. UNCHANGED <<counter, phase, left>>
        BY <1>4, <3>2 DEF Poll
      <4>2. Taking(p, m)
        BY <2>1, <2>3, <4>1 DEF Taking
      <4> QED BY <1>2, <2>1, <4>2 DEF Measure
    <3> QED BY <3>1, <3>2
  <2> QED BY <2>2, <2>3
<1>5. CASE Reread
  <2>1. /\ UNCHANGED <<sent, alive, phase, left, preempts>> /\ pc = "reread"
        /\ counter < TIMEOUT /\ counter' = 0 /\ i' = i + 1
        /\ missed = 0 /\ phase = i + 1 /\ preempts <= 1
    <3>1. counter # TIMEOUT
      BY <1>5 DEF Reread
    <3> QED BY <1>1, <1>5, <3>1 DEF Reread, Position, sensorVars, TypeOK
  <2>2. alive /\ p = i + 1 /\ p < Last /\ m = left
    BY <1>1, <2>1 DEF Taking
  <2>3. Taking(p, m)
    BY <2>1, <2>2 DEF Taking
  <2>4. Counted(p, m)
    BY <2>1, <2>3 DEF Measure
  <2>5. CASE IsBit
    <3>1. ~BitLevel(p)
      BY <1>1, <2>2, <2>5 DEF IsBit, BitLevel
    <3>2. Polls(p)' = Polls(p)
      BY <2>1 DEF Polls, Bit
    <3> QED BY <2>1, <2>4, <3>1, <3>2 DEF Counted
  <2>6. CASE ~IsBit
    <3>1. UNCHANGED <<j, dht11_dat>>
      BY <1>5, <2>1, <2>6 DEF Reread
    <3> QED BY <1>2, <2>1, <2>4, <3>1
  <2> QED BY <2>5, <2>6
<1>6. CASE Preempt
  <2>1. /\ UNCHANGED <<sent, j, dht11_dat, i, counter, pc, alive, missed>>
        /\ pc \in {"poll", "reread"} /\ alive /\ missed = 0 /\ counter < TIMEOUT
        /\ preempts = 0 /\ preempts' = 1
    BY <1>1, <1>6 DEF Preempt, hostVars
  <2>2. \/ phase' = i /\ pc = "poll" /\ p = i /\ p < Last /\ m = counter + left'
        \/ phase' = i + 1 /\ p = i /\ BitLevel(p) /\ m = counter
        \/ phase' = i + 1 /\ p = i + 1 /\ p < Last /\ m = left'
    BY <2>1 DEF Taking
  <2>3. Clean' /\ Polls(p)' = Polls(p)
    BY <2>1, ReadingKept DEF Bytes
  <2>4. ASSUME BitLevel(p) PROVE \E q \in Polls(p) : m <= q
    <3>1. ASSUME NEW n \in Nat, Taking(p, n), m <= n PROVE \E q \in Polls(p) : m <= q
      <4>1. Counted(p, n)
        BY <2>1, <3>1 DEF Measure
      <4>2. PICK q \in Polls(p) : n <= q
        BY <2>4, <4>1 DEF Counted
      <4>3. q \in Nat
        BY <4>2, PollsType, Timeout
      <4> QED BY <3>1, <4>2, <4>3
    <3>2. CASE phase' = phase
      <4>1. left' \in Nat /\ left' < left
        BY <1>1, <1>6, <3>2 DEF Preempt
      <4>2. CASE phase = i
        <5>1. pc = "poll" /\ p = i /\ p < Last /\ m = counter + left'
          BY <1>1, <2>2, <3>2, <4>2
        <5>2. Taking(p, counter + left)
          BY <2>1, <4>2, <5>1 DEF Taking
        <5>3. counter + left \in Nat /\ m <= counter + left
          <6>1. counter \in Nat /\ left \in Nat
            BY <1>1
          <6>2. \A k \in Nat : k < left => counter + k <= counter + left
            BY <6>1
          <6>3. counter + left' <= counter + left
            BY <4>1, <6>2
          <6>4. m = counter + left'
            BY <5>1
          <6> QED BY <6>1, <6>3, <6>4
        <5> QED BY <3>1, <5>2, <5>3
      <4>3. CASE phase # i /\ p = i
        <5>1. phase = i + 1 /\ m = counter
          BY <1>1, <2>2, <3>2, <4>3
        <5>2. Taking(p, counter)
          BY <2>4, <4>3, <5>1 DEF Taking
        <5> QED BY <1>1, <3>1, <5>1, <5>2
      <4>4. CASE phase # i /\ p # i
        <5>1. phase = i + 1 /\ p = i + 1 /\ p < Last /\ m = left'
          BY <1>1, <2>2, <3>2, <4>4
        <5>2. Taking(p, left)
          BY <2>1, <5>1 DEF Taking
        <5> QED BY <1>1, <3>1, <4>1, <5>1, <5>2
      <4> QED BY <4>2, <4>3, <4>4
    <3>3. CASE phase' # phase
      <4>1. /\ phase' \in Nat /\ phase' > phase /\ phase' <= Last /\ left' \in Nat
            /\ \E polls \in Polls(phase') : left' <= polls
        BY <1>1, <1>6, <3>3 DEF Preempt
      <4>2. i <= phase /\ (pc = "reread" => i + 1 <= phase)
        BY <1>1, <2>1 DEF Position
      <4>3. phase = i /\ phase' = i + 1 /\ pc = "poll"
        <5>1. phase' = i \/ phase' = i + 1
          BY <2>2
        <5>2. phase = i /\ phase' = i + 1
          BY <1>1, <4>1, <4>2, <5>1
        <5>3. pc # "reread"
          BY <1>1, <4>2, <5>2
        <5> QED BY <2>1, <5>2, <5>3
      <4>4. CASE p = i
        <5>1. p < Last
          BY <1>1, <4>1, <4>3, <4>4
        <5>2. m = counter
          BY <1>1, <2>2, <4>3, <4>4
        <5>3. Taking(p, counter + left)
          BY <2>1, <4>3, <4>4, <5>1 DEF Taking
        <5>4. counter + left \in Nat /\ m <= counter + left
          BY <1>1, <5>2
        <5> QED BY <3>1, <5>3, <5>4
      <4>5. CASE p # i
        <5>1. p = phase' /\ m = left'
          BY <1>1, <2>2, <4>3, <4>5
        <5> QED BY <4>1, <5>1
      <4> QED BY <4>4, <4>5
    <3> QED BY <3>2, <3>3
  <2> QED BY <2>1, <2>3, <2>4 DEF Counted
<1>7. CASE SensorStops \/ UNCHANGED vars
  <2>1. /\ UNCHANGED <<sent, phase, left, preempts, missed, pc, i, counter, j, dht11_dat>>
        /\ alive' => alive
    BY <1>7 DEF SensorStops, vars, sensorVars, hostVars, TypeOK
  <2>2. Taking(p, m)
    BY <2>1 DEF Taking
  <2> QED BY <1>2, <2>1, <2>2 DEF Measure
<1>8. CASE Request \/ Check
  BY <1>8 DEF Request, Check
<1> QED BY <1>3, <1>4, <1>5, <1>6, <1>7, <1>8 DEF Next, DHT_get_data

(* A level that the sensor ends is never one that times out.                *)
LEMMA PromptStep == ASSUME DhtInv, ReadingInv, [Next]_vars PROVE Prompt'
<1> USE Sizes, Timeout, Bound DEF DhtInv, ReadingInv
<1> SUFFICES ASSUME preempts' = 0, alive'
             PROVE  /\ missed' = 0
                    /\ pc' = "poll" => phase' \in {i', i' + 1}
                    /\ pc' = "reread" => IF counter' = TIMEOUT THEN i' = Last
                                                              ELSE phase' = i' + 1
                    /\ pc' \in {"check", "done"} => i' = Last
  BY DEF Prompt
<1>1. CASE Request
  BY <1>1 DEF Request
<1>2. CASE Release
  BY <1>2 DEF Release, Position
<1>3. CASE Poll
  <2>1. /\ UNCHANGED <<i, missed>> /\ alive /\ preempts = 0 /\ pc = "poll"
        /\ missed = 0 /\ phase \in {i, i + 1} /\ counter < TIMEOUT
    BY <1>3 DEF Poll, Prompt, Position
  <2>2. /\ i \in Nat /\ counter \in Nat /\ left \in Nat /\ left >= 1
        /\ phase \in 0 .. Last
    BY DEF TypeOK, Position
  <2>3. CASE phase = i + 1
    <3>1. Line # laststate
      BY <2>1, <2>3, PolledLevel
    <3> QED BY <1>3, <2>1, <2>2, <2>3, <3>1 DEF Poll
  <2>4. CASE phase = i /\ i = Last
    <3>1. Line = laststate
      BY <2>1, <2>4, PolledLevel
    <3> QED BY <1>3, <2>1, <2>2, <2>4, <3>1 DEF Poll, Elapse
  <2>5. CASE phase = i /\ i # Last
    <3>1. Line = laststate
      BY <2>1, <2>5, PolledLevel
    <3>2. Taking(i, counter + left) /\ i \in 0 .. Last /\ counter + left \in Nat
      BY <2>1, <2>2, <2>5 DEF Taking
    <3>3. Counted(i, counter + left)
      BY <2>1, <3>2 DEF Measure
    <3>4. counter + left \in 1 .. TIMEOUT - 1
      BY <2>1, <3>3, PollsType DEF Counted
    <3>5. pc' = "poll" /\ phase' \in {phase, phase + 1}
      BY <1>3, <2>2, <3>1, <3>4, ElapseStep DEF Poll
    <3> QED BY <2>1, <2>5, <3>5
  <2> QED BY <2>1, <2>3, <2>4, <2>5
<1>4. CASE Reread
  <2>1. /\ UNCHANGED <<phase, alive, preempts>> /\ pc = "reread"
        /\ missed = 0 /\ IF counter = TIMEOUT THEN i = Last ELSE phase = i + 1
    BY <1>4 DEF Reread, Prompt, sensorVars
  <2>2. i \in Nat /\ phase \in 0 .. Last
    BY DEF TypeOK
  <2>3. CASE counter = TIMEOUT
    BY <1>4, <2>1, <2>3 DEF Reread
  <2>4. CASE counter # TIMEOUT
    BY <1>4, <2>1, <2>2, <2>4 DEF Reread
  <2> QED BY <2>3, <2>4
<1>5. CASE Check
  BY <1>5 DEF Check, Prompt, sensorVars
<1>6. CASE Preempt
  BY <1>6 DEF Preempt, TypeOK
<1>7. CASE SensorStops
  BY <1>7 DEF SensorStops
<1>8. CASE UNCHANGED vars
  BY <1>8 DEF vars, sensorVars, hostVars, Prompt
<1> QED BY <1>1, <1>2, <1>3, <1>4, <1>5, <1>6, <1>7, <1>8 DEF Next, DHT_get_data

(* The caller's data are decided by Check alone.                            *)
LEMMA ResultStep == ASSUME ReadingInv, [Next]_vars PROVE Result'
<1>1. CASE Check
  <2>1. Accepted' = Accepted
    BY <1>1, ReadingKept DEF Check, sensorVars
  <2> QED BY <1>1, <2>1 DEF Check, Result
<1>2. CASE UNCHANGED vars
  <2>1. Accepted' = Accepted
    BY <1>2, ReadingKept DEF vars, sensorVars, hostVars
  <2> QED BY <1>2, <2>1 DEF vars, sensorVars, hostVars, ReadingInv, Result
<1>3. CASE Request \/ Release \/ Poll \/ Reread \/ Preempt \/ SensorStops
  BY <1>3 DEF Request, Release, Poll, Reread, Preempt, SensorStops, hostVars, Result
<1> QED BY <1>1, <1>2, <1>3 DEF Next, DHT_get_data

(* With DhtInv, ReadingInv is inductive.                                    *)
LEMMA ReadingInvariance == Spec => []ReadingInv
<1>1. Init => ReadingInv
  <2> SUFFICES ASSUME Init PROVE ReadingInv
    OBVIOUS
  <2>1. /\ dht11_dat \in [0 .. 4 -> Nat] /\ \A k \in 0 .. 4 : dht11_dat[k] = 0
        /\ sent \in Messages /\ j = 0 /\ pc = "idle" /\ missed = 0
    BY DEF Init, Nothing
  <2>2. \A k \in 0 .. 4 : Prefix(sent, k, j) = 0
    BY <2>1, PrefixEnds
  <2> QED BY <2>1, <2>2
          DEF ReadingInv, Measure, Bytes, OneShort, Clean, Prompt, Result
<1>2. DhtInv /\ ReadingInv /\ [Next]_vars => ReadingInv'
  BY BytesStep, MeasureStep, PromptStep, ResultStep DEF ReadingInv
<1> QED BY <1>1, <1>2, DhtInvariance, PTL DEF Spec

-----------------------------------------------------------------------------
(* All bits are there: each byte is what was sent, but for one at most.     *)
LEMMA WholeReading ==
  ASSUME DhtInv, ReadingInv, preempts <= 1, missed = 0, j = N
  PROVE  /\ sent \in [0 .. 4 -> Nat] /\ dht11_dat \in [0 .. 4 -> Nat]
         /\ Clean => \A k \in 0 .. 4 : dht11_dat[k] = sent[k]
         /\ \E e \in 0 .. 4 : \A k \in 0 .. 4 :
              /\ dht11_dat[k] <= sent[k]
              /\ k # e => dht11_dat[k] = sent[k]
<1>1. sent \in Messages /\ dht11_dat \in [0 .. 4 -> Nat] /\ OneShort
  BY DEF ReadingInv, Bytes
<1>2. \A k \in 0 .. 4 : Prefix(sent, k, j) = sent[k]
  BY <1>1, PrefixEnds
<1> QED BY <1>1, <1>2, SentBytes DEF Clean, OneShort

(* An undisturbed reading ends with what the sensor sent.                   *)
THEOREM UndisturbedDecodes == Spec => []Decodes
<1>1. DhtInv /\ ReadingInv => Decodes
  <2> SUFFICES ASSUME DhtInv, ReadingInv, pc = "done", preempts = 0, alive
               PROVE  data = [humidity |-> sent[0], temperature |-> sent[2]]
    BY DEF Decodes
  <2>1. i = Last /\ missed = 0
    BY DEF ReadingInv, Prompt
  <2>2. j = N
    BY <2>1, Sizes DEF DhtInv, Stored, TypeOK
  <2>3. \A k \in 0 .. 4 : dht11_dat[k] = sent[k]
    BY <2>1, <2>2, WholeReading DEF ReadingInv, Bytes
  <2>4. Accepted
    <3>1. sent[4] = Checksum(sent)
      BY SentBytes DEF ReadingInv, Bytes
    <3> QED BY <2>2, <2>3, <3>1, Sizes DEF Accepted, Checksum
  <2> QED BY <2>3, <2>4 DEF ReadingInv, Result
<1> QED BY <1>1, DhtInvariance, ReadingInvariance, PTL

(* One preemption that loses no edge does not turn into a wrong reading:    *)
(* the byte it spoils takes the checksum with it.                           *)
THEOREM DisturbedIsHonest == Spec => []Honest
<1>1. DhtInv /\ ReadingInv => Honest
  <2> SUFFICES ASSUME DhtInv, ReadingInv, pc = "done", preempts <= 1, missed = 0,
                      Accepted
               PROVE  data = [humidity |-> sent[0], temperature |-> sent[2]]
    BY DEF Honest, ReadingInv, Result
  <2>1. j = N /\ dht11_dat[4] = Checksum(dht11_dat)
    BY Sizes DEF Accepted, DhtInv, Stored, TypeOK, Position
  <2>2. /\ sent \in [0 .. 4 -> Nat] /\ dht11_dat \in [0 .. 4 -> Nat]
        /\ sent[4] = Checksum(sent)
        /\ 2 ^ W \in Nat /\ \A k \in 0 .. 4 : sent[k] < 2 ^ W
    BY <2>1, WholeReading, SentBytes DEF ReadingInv, Bytes
  <2>3. PICK e \in 0 .. 4 : \A k \in 0 .. 4 :
          /\ dht11_dat[k] <= sent[k]
          /\ k # e => dht11_dat[k] = sent[k]
    BY <2>1, WholeReading, Zenon
  <2>4. dht11_dat[e] = sent[e]
    <3> SUFFICES ASSUME dht11_dat[e] # sent[e] PROVE FALSE
      OBVIOUS
    <3> DEFINE S == sent[0] + sent[1] + sent[2] + sent[3]
               d == sent[e] - dht11_dat[e]
    <3>1. d \in Nat /\ 0 < d /\ d < 2 ^ W /\ S \in Nat
      BY <2>2, <2>3
    <3>2. CASE e = 4
      BY <2>1, <2>2, <2>3, <3>2 DEF Checksum
    <3>3. CASE e # 4
      <4>1. /\ dht11_dat[0] + dht11_dat[1] + dht11_dat[2] + dht11_dat[3] = S - d
            /\ d <= S
        BY <2>2, <2>3, <3>3
      <4>2. (S - d) % 2 ^ W = S % 2 ^ W
        BY <2>1, <2>2, <2>3, <3>3, <4>1 DEF Checksum
      <4> HIDE DEF S, d
      <4> QED BY <2>2, <3>1, <4>1, <4>2, OtherRemainder
    <3> QED BY <3>2, <3>3
  <2> QED BY <2>3, <2>4 DEF ReadingInv, Result
<1> QED BY <1>1, DhtInvariance, ReadingInvariance, PTL
=============================================================================
