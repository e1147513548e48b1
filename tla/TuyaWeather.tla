---------------------------- MODULE TuyaWeather ----------------------------
(***************************************************************************)
(* The weather service (libraries/TuyaIoT, TuyaIoTWeatherClass) and the    *)
(* sketch weatherGet, which asks for everything, one function after the    *)
(* other, and starts over in the next loop() when one of them fails.       *)
(*                                                                         *)
(* A function is what it asks for and which items of the answer it reads.  *)
(* An item is <<code, 0>>, or <<code, i + 1>> for what the cloud names     *)
(* "code.i", i days from today.                                            *)
(***************************************************************************)
EXTENDS Naturals, Sequences, FiniteSets

CONSTANTS
  Days        \* numbers of days a sketch may ask for

VARIABLES
  days,       \* how many this sketch asks for
  abroad,     \* the device is not in Mainland China
  ready,      \* activated, connected and with the time
  next,       \* the function that is called next, by its place in Demo
  out,        \* the codes whose variable the last function has filled
  list,       \* per code: its vector, the day each entry is of, 0 for padding
  whole       \* the last answer had everything that was to be had

weatherVars == <<days, abroad, ready, next, out, list, whole>>

-----------------------------------------------------------------------------
Ask(codes, dates, reads, lists, pads) ==
  [codes |-> codes, dates |-> dates, reads |-> reads, lists |-> lists, pads |-> pads]
Undated(codes) == {<<c, 0>> : c \in codes}
(* What is asked for and not read: the date the answer is of. *)
Current(codes, extra) == Ask(codes \cup extra, 0, Undated(codes), {}, {})
(* A vector per code; a code in pads gets 0 for a day without its item. *)
Forecast(codes, pads) == Ask(codes, days, {}, codes, pads)

getCurrentConditions ==
  Current({"w.conditionNum", "w.temp", "w.humidity", "w.realFeel", "w.pressure", "w.uvi"},
          {"w.currdate"})
getTodayHighLowTemp ==
  Ask({"w.thigh", "w.tlow"}, 1, {<<"w.thigh", 1>>, <<"w.tlow", 1>>}, {}, {})
getCurrentWind == Current({"w.windDir", "w.windSpeed"}, {"w.currdate"})
getCurrentWindCN == Current({"w.windDir", "w.windSpeed", "w.windLevel"}, {"w.currdate"})
getCurrentSunriseSunsetGMT == Current({"w.sunrise", "w.sunset"}, {"t.unix", "w.currdate"})
getCurrentSunriseSunsetLocal == Current({"w.sunrise", "w.sunset"}, {"t.local", "w.currdate"})
getCurrentAQI ==
  Current({"w.aqi", "w.qualityLevel", "w.pm25", "w.pm10", "w.o3", "w.no2", "w.co", "w.so2"},
          {"w.currdate"})
getCurrentAQICN ==
  Current({"w.aqi", "w.rank", "w.qualityLevel", "w.pm25", "w.pm10", "w.o3", "w.no2", "w.co",
           "w.so2"}, {"w.currdate"})
(* Mutant of getForecastConditions: no padding. *)
getForecastConditionsBare ==
  Forecast({"w.conditionNum", "w.humidity", "w.temp", "w.uvi", "w.pressure"}, {})
getForecastConditions ==
  Forecast({"w.conditionNum", "w.humidity", "w.temp", "w.uvi", "w.pressure"},
           {"w.temp", "w.pressure"})
getForecastConditionsCN == Forecast({"w.conditionNum", "w.humidity", "w.uvi"}, {})
getForecastWind == Forecast({"w.windDir", "w.windSpeed"}, {})
getForecastHighLowTemp == Forecast({"w.thigh", "w.tlow"}, {})
getCity == Current({"c.province", "c.city", "c.area"}, {})

(* weatherGetDemo(): the order of its calls. *)
Demo == <<getCurrentConditions, getTodayHighLowTemp, getCurrentWind, getCurrentWindCN,
          getCurrentSunriseSunsetGMT, getCurrentSunriseSunsetLocal, getCurrentAQI,
          getCurrentAQICN, getForecastConditions, getForecastConditionsCN,
          getForecastWind, getForecastHighLowTemp, getCity>>
Done == Len(Demo) + 1

Code == UNION {Demo[n].codes : n \in DOMAIN Demo}

(* What the cloud has for a function: some codes are for Mainland China     *)
(* only, some have no forecast there (weatherGet.ino:199, 241, 260).        *)
Has(f) ==
  LET here == f.codes \ (IF abroad THEN {"w.windLevel", "w.rank"}
                         ELSE IF f.dates > 0 THEN {"w.temp", "w.pressure"} ELSE {})
  IN here \X (IF f.dates = 0 THEN {0} ELSE 1 .. f.dates)

NoDays == [c \in Code |-> <<>>]

Init ==
  /\ days \in Days /\ abroad \in BOOLEAN /\ ready = FALSE
  /\ next = 1 /\ out = {} /\ list = NoDays
  /\ whole = FALSE

-----------------------------------------------------------------------------
(* The device is activated and gets the time and the network, or loses it. *)
Network ==
  /\ ready' = ~ ready
  /\ UNCHANGED <<days, abroad, next, out, list, whole>>

(* The sketch gives up this round, and its variables with it. *)
StartOver == next' = 1 /\ out' = {} /\ list' = NoDays /\ whole' = FALSE

(* A number of days that is not 1 to 7 is refused, and nothing is asked     *)
(* of a cloud that cannot be.  get() can fail for more reasons: the network *)
(* is lost since, no memory, no answer, or one without success (which       *)
(* weighs on the heap from then on: nobody frees it).                       *)
Fails ==
  /\ next # Done
  /\ StartOver
  /\ UNCHANGED <<days, abroad, ready>>

Asks(f) == next # Done /\ ready /\ (f.lists # {} => days \in 1 .. 7)

(* A vector is cleared, and given an entry per day that has its item or is  *)
(* padded: the n-th entry is of the n-th such day.                          *)
Entries(f, c, answer) ==
  LET kept == {i \in 1 .. f.dates : <<c, i>> \in answer \/ c \in f.pads}
      day(n) == CHOOSE i \in kept : Cardinality({j \in kept : j <= i}) = n
  IN [n \in 1 .. Cardinality(kept) |-> IF <<c, day(n)>> \in answer THEN day(n) ELSE 0]

(* What an answer holds: all, all but one item, or no "data".  A forecast   *)
(* that lacks one lacks it on the first day, which moves the others up.     *)
Later(f) == f.codes \X (2 .. f.dates)

Answered(f) ==
  /\ Asks(f)
  /\ \E missing \in {{}} \cup {{x} : x \in Has(f) \ Later(f)} \cup {Has(f)} :
       LET answer == Has(f) \ missing
           data   == missing # Has(f)
       IN /\ out' = {x[1] : x \in answer \cap f.reads}
          /\ list' = [c \in Code |-> IF c \notin f.lists THEN list[c]
                                     ELSE IF data THEN Entries(f, c, answer) ELSE <<>>]
          /\ whole' = (missing = {})
  /\ next' = next + 1
  /\ UNCHANGED <<days, abroad, ready>>

Next == Network \/ Fails \/ (next # Done /\ Answered(Demo[next]))
-----------------------------------------------------------------------------
TypeOK ==
  /\ days \in Days /\ {abroad, ready, whole} \subseteq BOOLEAN
  /\ next \in 1 .. Done
  /\ out \subseteq Code
  /\ \A c \in Code : \A n \in DOMAIN list[c] : list[c][n] \in 0 .. 7

(* An answer that has everything there is for this device fills what the    *)
(* sketch then prints: every variable of the function whose code the region *)
(* has is from this very answer, and every vector has an entry for each day *)
(* the sketch counts to, the right one, whether or not the region has a     *)
(* forecast of it; the sketch does not read past a vector's end.            *)
WholeAnswerFills ==
  next > 1 /\ whole =>
    LET f == Demo[next - 1]
    IN /\ \A x \in f.reads : x \in Has(f) => x[1] \in out
       /\ \A c \in f.lists :
            /\ Len(list[c]) = days
            /\ \A n \in 1 .. days : list[c][n] = IF <<c, n>> \in Has(f) THEN n ELSE 0
=============================================================================
