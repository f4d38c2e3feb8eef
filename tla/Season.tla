------------------------------- MODULE Season -------------------------------
(***************************************************************************)
(* light_handler (daemon/light.c) choosing the season and the time of day. *)
(* It reads the struct tm of localtime() field by field and again at each  *)
(* comparison, and the struct is one for the process: the sprinkler thread *)
(* calls localtime() ten times a second (sprinkler_scheduling).            *)
(***************************************************************************)
EXTENDS Integers, FiniteSets

CONSTANTS
  Hours,            \* the hours of a day the clock shows   (code: 0..23)
  SprinklerThread   \* does a second thread call localtime()?

ASSUME SeasonAssumption ==
  /\ Hours \subseteq 0 .. 23 /\ IsFiniteSet(Hours) /\ Hours # {}
  /\ SprinklerThread \in BOOLEAN

Months  == 0 .. 11                     \* struct tm counts them from zero
Seasons == {"SPRING", "SUMMER", "FALL", "WINTER"}
Times   == [mon : Months, hour : Hours]

VARIABLES
  now,                      \* the wall clock, by the hour
  tm,                       \* localtime()'s static struct tm
  otherTime, otherTodo,     \* the other thread's time, its stores to come
  pc, branch,               \* next comparison, and the season it is about
  season, nightday,
  seen                      \* history: the times stored in tm during the call

vars == <<now, tm, otherTime, otherTodo, pc, branch, season, nightday, seen>>

FirstHour == CHOOSE h \in Hours : \A k \in Hours : h <= k
Midnight  == [mon |-> 0, hour |-> FirstHour]

Init ==
  /\ now \in Times /\ tm = Midnight
  /\ otherTime = Midnight /\ otherTodo = {}
  /\ pc = "call" /\ branch = "SPRING"
  /\ season = "SPRING" /\ nightday = "NIGHT" /\ seen = {}

-----------------------------------------------------------------------------
NextHour(time) ==
  LET later == {h \in Hours : h > time.hour}
  IN  IF later = {}
      THEN [mon |-> (time.mon + 1) % 12, hour |-> FirstHour]
      ELSE [time EXCEPT !.hour = CHOOSE h \in later : \A k \in later : h <= k]

(* An hour passes; the calls take far less, so at most one during a call    *)
(* and between another thread's time() and its stores.                      *)
ClockTick ==
  /\ pc = "call" \/ now \in seen
  /\ otherTodo = {} \/ otherTime = now
  /\ now' = NextHour(now)
  /\ UNCHANGED <<tm, otherTime, otherTodo, pc, branch, season, nightday, seen>>

(* sprinkler_scheduling: timer = time(NULL); localtime(&timer); *)
OtherCall ==
  /\ SprinklerThread /\ otherTodo = {}
  /\ otherTime' = now /\ otherTodo' = {"mon", "hour"}
  /\ UNCHANGED <<now, tm, pc, branch, season, nightday, seen>>

OtherStore(field) ==
  /\ field \in otherTodo
  /\ tm' = [tm EXCEPT ![field] = otherTime[field]]
  /\ otherTodo' = otherTodo \ {field}
  /\ seen' = IF pc = "call" THEN {} ELSE seen \cup {otherTime}
  /\ UNCHANGED <<now, otherTime, pc, branch, season, nightday>>

-----------------------------------------------------------------------------
(* The chain of conditions: SPRING from 3 to 5, SUMMER from 6 to 8, FALL    *)
(* from 9 to 11, and WINTER from 12 or up to 2.                             *)
From(s) == [SPRING |-> 3, SUMMER |-> 6, FALL |-> 9, WINTER |-> 12][s]
To(s)   == [SPRING |-> 5, SUMMER |-> 8, FALL |-> 11, WINTER |-> 2][s]
Dawn(s) == [SPRING |-> 5, SUMMER |-> 5, FALL |-> 5, WINTER |-> 6][s]
Dusk(s) == [SPRING |-> 18, SUMMER |-> 19, FALL |-> 18, WINTER |-> 17][s]
Else(s) == [SPRING |-> "SUMMER", SUMMER |-> "FALL", FALL |-> "WINTER",
            WINTER |-> "none"][s]

LocalTime ==
  /\ pc = "call" /\ Cardinality(otherTodo) # 1
  /\ tm' = now /\ seen' = {now}
  /\ pc' = "from" /\ branch' = "SPRING"
  /\ UNCHANGED <<now, otherTime, otherTodo, season, nightday>>

(* A condition that fails leads to the next one; after the last, the        *)
(* handler is done and leaves season and nightday as they were.             *)
NextBranch ==
  /\ IF Else(branch) = "none" THEN pc' = "call" /\ UNCHANGED branch
                              ELSE pc' = "from" /\ branch' = Else(branch)
  /\ UNCHANGED season

EnterBranch == season' = branch /\ pc' = "dusk" /\ UNCHANGED branch

(* t->tm_mon>=3 && ..., and for the winter t->tm_mon>=12 || ... *)
TestFrom ==
  /\ pc = "from"
  /\ IF branch = "WINTER"
     THEN IF tm.mon >= From(branch)
          THEN EnterBranch
          ELSE pc' = "to" /\ UNCHANGED <<branch, season>>
     ELSE IF tm.mon >= From(branch)
          THEN pc' = "to" /\ UNCHANGED <<branch, season>>
          ELSE NextBranch

TestToAny == pc = "to" /\ EnterBranch      \* mutant: the upper bound forgotten

TestTo ==
  /\ pc = "to"
  /\ IF tm.mon <= To(branch) THEN EnterBranch ELSE NextBranch

TestMonth ==
  /\ TestFrom \/ TestTo
  /\ UNCHANGED <<now, tm, otherTime, otherTodo, nightday, seen>>

(* t->tm_hour <= dusk && t->tm_hour >= dawn *)
TestHourUnchecked ==                             \* mutant: no second comparison
  \/ pc = "dusk" /\ tm.hour <= Dusk(branch) /\ pc' = "call" /\ nightday' = "DAY"
  \/ pc = "dusk" /\ tm.hour > Dusk(branch) /\ pc' = "call" /\ nightday' = "NIGHT"

TestHour ==
  \/ pc = "dusk" /\ tm.hour <= Dusk(branch) /\ pc' = "dawn" /\ UNCHANGED nightday
  \/ pc = "dusk" /\ tm.hour > Dusk(branch) /\ pc' = "call" /\ nightday' = "NIGHT"
  \/ /\ pc = "dawn" /\ pc' = "call"
     /\ nightday' = IF tm.hour >= Dawn(branch) THEN "DAY" ELSE "NIGHT"

TestDay ==
  /\ TestHour
  /\ UNCHANGED <<now, tm, otherTime, otherTodo, branch, season, seen>>

Next ==
  \/ ClockTick \/ OtherCall \/ \E field \in {"mon", "hour"} : OtherStore(field)
  \/ LocalTime \/ TestMonth \/ TestDay

Spec == Init /\ [][Next]_vars

-----------------------------------------------------------------------------
InSeason(mon, s) ==
  mon \in [SPRING |-> 3 .. 5, SUMMER |-> 6 .. 8, FALL |-> 9 .. 11,
           WINTER |-> 0 .. 2][s]

Returns == pc # "call" /\ pc' = "call"

(* A call during which the struct tm held no other time than its own finds  *)
(* a branch, and its season and time of day are those of the moment of the  *)
(* call, even when the clock moved and the other thread was half way.       *)
CallIsExact ==
  [][Returns => \A time \in seen : seen = {time} =>
       /\ InSeason(time.mon, season')
       /\ nightday' = IF time.hour \in Dawn(season') .. Dusk(season')
                      THEN "DAY" ELSE "NIGHT"]_vars

(* With the sprinkler's localtime() in between, the season entered is that  *)
(* of two times of the call, one late enough in the year and one early      *)
(* enough, maybe different: December turning into January gives SPRING, and *)
(* February turning into March, or back, may enter no branch at all.        *)
SeasonIsMixture ==
  [][pc # "dusk" /\ pc' = "dusk" =>
       /\ season' # "WINTER" => \E a, b \in seen : /\ a.mon >= From(season')
                                                   /\ b.mon <= To(season')
       /\ season' = "WINTER" => \E a \in seen : InSeason(a.mon, "WINTER")]_vars

(* A call that says DAY has seen an hour before dusk and one after dawn.    *)
DayIsMixture ==
  [][Returns /\ nightday' = "DAY" /\ pc \in {"dusk", "dawn"} =>
       \E a, b \in seen : a.hour <= Dusk(season) /\ b.hour >= Dawn(season)]_vars

(* light.c:50-53 and 196: SPRING is March to May, SUMMER June to August,    *)
(* FALL September to November, WINTER December to February, and the month   *)
(* of the calendar is tm_mon + 1.                                           *)
SeasonOfCalendar ==
  [][Returns => \A time \in seen :
       time.mon + 1 \in [SPRING |-> 3 .. 5, SUMMER |-> 6 .. 8, FALL |-> 9 .. 11,
                         WINTER |-> {12, 1, 2}][season']]_vars
=============================================================================
