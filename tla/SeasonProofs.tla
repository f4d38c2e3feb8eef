---------------------------- MODULE SeasonProofs ----------------------------
(***************************************************************************)
(* Theorems about the season and the time of day, for any set of hours and *)
(* with or without a second thread that calls localtime().                 *)
(***************************************************************************)
EXTENDS Season, TLAPS

SeasonTypeOK ==
  /\ now \in Times /\ tm \in Times /\ otherTime \in Times
  /\ otherTodo \subseteq {"mon", "hour"} /\ seen \subseteq Times
  /\ pc \in {"call", "from", "to", "dusk", "dawn"} /\ branch \in Seasons

(* The bounds of the four conditions. *)
LEMMA Tables ==
  /\ From("SPRING") = 3 /\ From("SUMMER") = 6 /\ From("FALL") = 9
  /\ From("WINTER") = 12
  /\ To("SPRING") = 5 /\ To("SUMMER") = 8 /\ To("FALL") = 11 /\ To("WINTER") = 2
  /\ Else("SPRING") = "SUMMER" /\ Else("SUMMER") = "FALL"
  /\ Else("FALL") = "WINTER" /\ Else("WINTER") = "none"
BY DEF From, To, Else

LEMMA DayBounds == \A s \in Seasons : Dawn(s) \in Nat /\ Dusk(s) \in Nat
BY DEF Seasons, Dawn, Dusk

LEMMA InSeasonValues ==
  \A mon \in Months : /\ InSeason(mon, "SPRING") <=> mon \in 3 .. 5
                      /\ InSeason(mon, "SUMMER") <=> mon \in 6 .. 8
                      /\ InSeason(mon, "FALL") <=> mon \in 9 .. 11
                      /\ InSeason(mon, "WINTER") <=> mon \in 0 .. 2
BY DEF InSeason

LEMMA Fields == \A time \in Times : time.mon \in Months /\ time.hour \in Int
<1>1. Hours \subseteq 0 .. 23
  BY SeasonAssumption
<1>2. 0 .. 23 \subseteq Int
  OBVIOUS
<1> QED BY <1>1, <1>2 DEF Times

(* Hours is a finite set, so that it has a first element and the later      *)
(* hours have one as well.                                                  *)
LEMMA FirstOfHours ==
  \A S \in SUBSET Hours : S # {} =>
    (CHOOSE h \in S : \A k \in S : h <= k) \in S
<1> SUFFICES ASSUME NEW S \in SUBSET Hours, S # {}
             PROVE  \E h \in S : \A k \in S : h <= k
  OBVIOUS
<1>1. S \subseteq 0 .. 23
  BY SeasonAssumption
<1>2. PICK x \in S : TRUE
  OBVIOUS
<1>3. S \cap (0 .. 23) = S
  BY <1>1
<1> QED BY <1>1, <1>2

LEMMA NextHourType == \A time \in Times : NextHour(time) \in Times
<1> SUFFICES ASSUME NEW time \in Times PROVE NextHour(time) \in Times
  OBVIOUS
<1> DEFINE later == {h \in Hours : h > time.hour}
<1>1. CASE later = {}
  <2>1. NextHour(time) = [mon |-> (time.mon + 1) % 12, hour |-> FirstHour]
    BY <1>1 DEF NextHour
  <2>2. FirstHour \in Hours
    BY FirstOfHours, SeasonAssumption DEF FirstHour
  <2>3. (time.mon + 1) % 12 \in Months
    BY Fields DEF Months
  <2> QED BY <2>1, <2>2, <2>3 DEF Times
<1>2. CASE later # {}
  <2>1. (CHOOSE h \in later : \A k \in later : h <= k) \in Hours
    BY <1>2, FirstOfHours
  <2>2. NextHour(time) =
          [time EXCEPT !.hour = CHOOSE h \in later : \A k \in later : h <= k]
    BY <1>2 DEF NextHour
  <2> QED BY <2>1, <2>2 DEF Times
<1> QED BY <1>1, <1>2

LEMMA MidnightInTimes == Midnight \in Times
<1>1. FirstHour \in Hours
  BY FirstOfHours, SeasonAssumption DEF FirstHour
<1> QED BY <1>1 DEF Midnight, Times, Months

-----------------------------------------------------------------------------
(* What another thread's stores leave of the struct tm.                     *)
FromSeen ==
  pc # "call" => /\ \E a \in seen : tm.mon = a.mon
                 /\ \E b \in seen : tm.hour = b.hour

(* What the conditions passed so far say of the times of the call.          *)
Passed ==
  /\ pc = "to" /\ branch # "WINTER" => \E a \in seen : a.mon >= From(branch)
  /\ pc \in {"dusk", "dawn"} => season = branch
  /\ pc = "dawn" => \E a \in seen : a.hour <= Dusk(branch)

(* And if it was one time all along, where that time stands.                *)
Stands(time) ==
  /\ pc \in {"from", "to"} =>
       /\ branch = "SUMMER" => time.mon \notin 3 .. 5
       /\ branch = "FALL" => time.mon \notin 3 .. 8
       /\ branch = "WINTER" => time.mon \notin 3 .. 11
  /\ pc = "to" /\ branch # "WINTER" => time.mon >= From(branch)
  /\ pc \in {"dusk", "dawn"} => InSeason(time.mon, branch)
  /\ pc = "dawn" => time.hour <= Dusk(branch)

OneTime == \A time \in seen : seen = {time} => Stands(time)

SeasonInv == SeasonTypeOK /\ FromSeen /\ Passed /\ OneTime

(* A call that has seen one time reads it.                                  *)
LEMMA ReadsIt ==
  ASSUME SeasonTypeOK, FromSeen, pc # "call", NEW time \in seen, seen = {time}
  PROVE  tm.mon = time.mon /\ tm.hour = time.hour
BY DEF FromSeen

LEMMA SeasonTypeStep == SeasonTypeOK /\ [Next]_vars => SeasonTypeOK'
<1> SUFFICES ASSUME SeasonTypeOK, [Next]_vars PROVE SeasonTypeOK'
  OBVIOUS
<1> USE DEF SeasonTypeOK
<1>1. CASE ClockTick
  BY <1>1, NextHourType DEF ClockTick
<1>2. CASE OtherCall
  BY <1>2 DEF OtherCall
<1>3. ASSUME NEW field \in {"mon", "hour"}, OtherStore(field) PROVE SeasonTypeOK'
  <2>1. tm' \in Times
    BY <1>3 DEF OtherStore, Times
  <2> QED BY <1>3, <2>1 DEF OtherStore
<1>4. CASE LocalTime
  BY <1>4 DEF LocalTime, Seasons
<1>5. CASE TestMonth
  <2>1. NextBranch => branch' \in Seasons /\ pc' \in {"call", "from"}
    BY DEF NextBranch, Seasons, Else
  <2> QED BY <1>5, <2>1 DEF TestMonth, TestFrom, TestTo, EnterBranch
<1>6. CASE TestDay
  BY <1>6 DEF TestDay, TestHour
<1>7. CASE UNCHANGED vars
  BY <1>7 DEF vars
<1> QED BY <1>1, <1>2, <1>3, <1>4, <1>5, <1>6, <1>7 DEF Next

LEMMA SeasonInvInit == Init => SeasonInv
<1> SUFFICES ASSUME Init PROVE SeasonInv
  OBVIOUS
<1>1. SeasonTypeOK
  BY MidnightInTimes DEF Init, SeasonTypeOK, Seasons
<1> QED BY <1>1 DEF Init, SeasonInv, FromSeen, Passed, OneTime

LEMMA SeasonInvStep == SeasonInv /\ [Next]_vars => SeasonInv'
<1> SUFFICES ASSUME SeasonInv, [Next]_vars PROVE FromSeen' /\ Passed' /\ OneTime'
  BY SeasonTypeStep DEF SeasonInv
<1> USE DEF SeasonInv
<1>1. CASE UNCHANGED <<tm, pc, branch, season, seen>>
  BY <1>1 DEF FromSeen, Passed, OneTime, Stands
<1>2. CASE pc' = "call"
  BY <1>2 DEF FromSeen, Passed, OneTime, Stands
<1>3. ASSUME NEW field \in {"mon", "hour"}, OtherStore(field), pc # "call"
      PROVE  FromSeen' /\ Passed' /\ OneTime'
  <2>1. seen' = seen \cup {otherTime} /\ UNCHANGED <<pc, branch, season>>
    BY <1>3 DEF OtherStore
  <2>2. FromSeen'
    <3>1. /\ tm'.mon \in {tm.mon, otherTime.mon}
          /\ tm'.hour \in {tm.hour, otherTime.hour}
      BY <1>3 DEF OtherStore, SeasonTypeOK, Times
    <3> QED BY <1>3, <2>1, <3>1 DEF FromSeen
  <2>3. Passed'
    BY <2>1 DEF Passed
  <2>4. OneTime'
    <3>1. \A time \in seen' : seen' = {time} => seen = {time}
      BY <1>3, <2>1 DEF FromSeen
    <3> QED BY <2>1, <3>1 DEF OneTime, Stands
  <2> QED BY <2>2, <2>3, <2>4
<1>4. CASE LocalTime
  BY <1>4 DEF LocalTime, FromSeen, Passed, OneTime, Stands
<1>5. CASE TestMonth /\ pc' # "call"
  <2>1. UNCHANGED <<tm, seen>> /\ pc # "call"
    BY <1>5 DEF TestMonth, TestFrom, TestTo
  <2>2. FromSeen'
    BY <2>1 DEF FromSeen
  <2>3. Passed'
    BY <1>5, <2>1 DEF TestMonth, TestFrom, TestTo, EnterBranch, NextBranch,
         FromSeen, Passed
  <2>4. OneTime'
    <3> SUFFICES ASSUME NEW time \in seen, seen = {time} PROVE Stands(time)'
      BY <2>1 DEF OneTime
    <3>1. tm.mon = time.mon /\ time.mon \in Months /\ Stands(time)
      BY <2>1, ReadsIt, Fields DEF OneTime, SeasonTypeOK
    <3>2. branch \in {"SPRING", "SUMMER", "FALL", "WINTER"}
      BY DEF SeasonTypeOK, Seasons
    <3>3. CASE TestFrom
      BY <1>5, <3>1, <3>2, <3>3, Tables
         DEF TestFrom, NextBranch, EnterBranch, Stands, Months
    <3>4. CASE TestTo
      BY <1>5, <3>1, <3>2, <3>4, Tables, InSeasonValues
         DEF TestTo, NextBranch, EnterBranch, Stands, Months
    <3> QED BY <1>5, <3>3, <3>4 DEF TestMonth
  <2> QED BY <2>2, <2>3, <2>4
<1>6. CASE TestDay /\ pc' # "call"
  <2>1. /\ pc = "dusk" /\ pc' = "dawn" /\ tm.hour <= Dusk(branch)
        /\ UNCHANGED <<tm, seen, branch, season>>
    BY <1>6 DEF TestDay, TestHour
  <2>2. FromSeen' /\ Passed'
    BY <2>1 DEF FromSeen, Passed
  <2>3. OneTime'
    <3> SUFFICES ASSUME NEW time \in seen, seen = {time} PROVE Stands(time)'
      BY <2>1 DEF OneTime
    <3>1. tm.hour = time.hour /\ Stands(time)
      BY <2>1, ReadsIt DEF OneTime
    <3> QED BY <2>1, <3>1 DEF Stands
  <2> QED BY <2>2, <2>3
<1>7. CASE ClockTick \/ OtherCall \/ UNCHANGED vars
  BY <1>1, <1>7 DEF ClockTick, OtherCall, vars
<1>8. ASSUME NEW field \in {"mon", "hour"}, OtherStore(field), pc = "call"
      PROVE  pc' = "call"
  BY <1>8 DEF OtherStore
<1> QED BY <1>2, <1>3, <1>4, <1>5, <1>6, <1>7, <1>8 DEF Next

(* Types, and what is known of the struct tm, in every state.               *)
LEMMA SeasonInvariance == Spec => []SeasonInv
BY SeasonInvInit, SeasonInvStep, PTL DEF Spec

-----------------------------------------------------------------------------
(* Only the four conditions enter a branch.                                 *)
LEMMA EntersByTest ==
  [Next]_vars /\ pc # "dusk" /\ pc' = "dusk" =>
    TestMonth /\ EnterBranch /\ pc \in {"from", "to"}
BY DEF Next, vars, ClockTick, OtherCall, OtherStore, LocalTime, TestMonth,
   TestFrom, TestTo, NextBranch, EnterBranch, TestDay, TestHour

(* A call ends after a comparison of the hour or after the last condition.  *)
LEMMA ReturnsByTest ==
  [Next]_vars /\ Returns => \/ TestDay /\ pc \in {"dusk", "dawn"}
                            \/ TestMonth /\ NextBranch /\ pc \in {"from", "to"}
BY DEF Returns, Next, vars, ClockTick, OtherCall, OtherStore, LocalTime, TestMonth,
   TestFrom, TestTo, NextBranch, EnterBranch, TestDay, TestHour

(* Whatever the other thread stores, the season entered has its lower bound *)
(* from one time of the call and its upper bound from another.              *)
THEOREM SeasonFromMixture == Spec => SeasonIsMixture
<1>1. SeasonInv /\ [Next]_vars =>
        [pc # "dusk" /\ pc' = "dusk" =>
           /\ season' # "WINTER" => \E a, b \in seen : /\ a.mon >= From(season')
                                                       /\ b.mon <= To(season')
           /\ season' = "WINTER" => \E a \in seen : InSeason(a.mon, "WINTER")]_vars
  <2> SUFFICES ASSUME SeasonInv, [Next]_vars, pc # "dusk", pc' = "dusk"
               PROVE  /\ season' # "WINTER" => \E a, b \in seen :
                                                 /\ a.mon >= From(season')
                                                 /\ b.mon <= To(season')
                      /\ season' = "WINTER" =>
                           \E a \in seen : InSeason(a.mon, "WINTER")
    OBVIOUS
  <2>1. TestMonth /\ season' = branch /\ pc # "call"
    BY EntersByTest DEF EnterBranch
  <2>2. PICK b \in seen : tm.mon = b.mon
    BY <2>1 DEF SeasonInv, FromSeen
  <2>3. b.mon \in 0 .. 11
    BY Fields DEF SeasonInv, SeasonTypeOK, Months
  <2>4. pc = "to" /\ tm.mon <= To(branch)
    <3>1. ~TestFrom
      BY <2>2, <2>3, Tables DEF TestFrom, EnterBranch, NextBranch
    <3> QED BY <2>1, <3>1 DEF TestMonth, TestTo, NextBranch
  <2>5. CASE branch # "WINTER"
    BY <2>1, <2>2, <2>4, <2>5 DEF SeasonInv, Passed
  <2>6. CASE branch = "WINTER"
    BY <2>1, <2>2, <2>3, <2>4, <2>6, Tables, InSeasonValues DEF Months
  <2> QED BY <2>5, <2>6
<1> QED BY <1>1, SeasonInvariance, PTL DEF Spec, SeasonIsMixture

(* Whatever the other thread stores, DAY means that the call has seen an    *)
(* hour before dusk and one after dawn.                                     *)
THEOREM DayFromMixture == Spec => DayIsMixture
<1>1. SeasonInv /\ [Next]_vars =>
        [Returns /\ nightday' = "DAY" /\ pc \in {"dusk", "dawn"} =>
           \E a, b \in seen : a.hour <= Dusk(season) /\ b.hour >= Dawn(season)]_vars
  <2> SUFFICES ASSUME SeasonInv, [Next]_vars, Returns, nightday' = "DAY",
                      pc \in {"dusk", "dawn"}
               PROVE  \E a, b \in seen : /\ a.hour <= Dusk(season)
                                         /\ b.hour >= Dawn(season)
    OBVIOUS
  <2>1. pc = "dawn" /\ tm.hour >= Dawn(branch)
    BY ReturnsByTest DEF Returns, TestDay, TestHour
  <2>2. season = branch /\ \E a \in seen : a.hour <= Dusk(branch)
    BY <2>1 DEF SeasonInv, Passed
  <2>3. \E b \in seen : tm.hour = b.hour
    BY <2>1 DEF SeasonInv, FromSeen
  <2> QED BY <2>1, <2>2, <2>3
<1> QED BY <1>1, SeasonInvariance, PTL DEF Spec, DayIsMixture

(* A call that sees one time only gives the season and the time of day of   *)
(* that moment, at every hour of every month.                               *)
THEOREM UndisturbedIsExact == Spec => CallIsExact
<1>1. SeasonInv /\ [Next]_vars =>
        [Returns => \A time \in seen : seen = {time} =>
           /\ InSeason(time.mon, season')
           /\ nightday' = IF time.hour \in Dawn(season') .. Dusk(season')
                          THEN "DAY" ELSE "NIGHT"]_vars
  <2> SUFFICES ASSUME SeasonInv, [Next]_vars, Returns,
                      NEW time \in seen, seen = {time}
               PROVE  /\ InSeason(time.mon, season')
                      /\ nightday' = IF time.hour \in Dawn(season') .. Dusk(season')
                                     THEN "DAY" ELSE "NIGHT"
    OBVIOUS
  <2>1. /\ tm.mon = time.mon /\ tm.hour = time.hour /\ Stands(time)
        /\ time.mon \in 0 .. 11 /\ time.hour \in Int
    BY ReadsIt, Fields DEF Returns, SeasonInv, SeasonTypeOK, OneTime, Months
  <2>2. branch \in Seasons
    BY DEF SeasonInv, SeasonTypeOK
  <2>3. CASE TestMonth /\ NextBranch /\ pc \in {"from", "to"}
    <3>1. branch = "WINTER"
      BY <2>2, <2>3, Tables DEF NextBranch, Returns, Seasons
    <3> QED BY <2>1, <2>3, <3>1, Tables
            DEF TestMonth, TestFrom, TestTo, EnterBranch, Stands, Returns
  <2>4. CASE TestDay /\ pc \in {"dusk", "dawn"}
    <3>1. season' = branch /\ InSeason(time.mon, branch)
      BY <2>1, <2>4 DEF TestDay, Stands, SeasonInv, Passed
    <3>2. Dawn(branch) \in Nat /\ Dusk(branch) \in Nat
      BY <2>2, DayBounds
    <3>3. CASE pc = "dusk"
      BY <2>1, <2>4, <3>1, <3>2, <3>3 DEF TestDay, TestHour, Returns
    <3>4. CASE pc = "dawn"
      BY <2>1, <2>4, <3>1, <3>2, <3>4 DEF TestDay, TestHour, Stands
    <3> QED BY <2>4, <3>1, <3>3, <3>4
  <2> QED BY <2>3, <2>4, ReturnsByTest
<1> QED BY <1>1, SeasonInvariance, PTL DEF Spec, CallIsExact
=============================================================================
