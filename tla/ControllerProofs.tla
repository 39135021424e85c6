-------------------------- MODULE ControllerProofs --------------------------
(***************************************************************************)
(* Proofs about Controller, for every configuration, every body and query  *)
(* and every number of refreshes under way:                                *)
(*   - the youngest setpoint reaches the heater (NewestSetpoint),          *)
(*   - without values smart mode does not raise it (NeverBlind),           *)
(*   - it rises slowly and keeps to the limits (SlowRaise, TypesKept), if  *)
(*     no limit is NaN.                                                    *)
(***************************************************************************)
EXTENDS Controller, WellFoundedInduction, TLAPS

\* A set of natural numbers that is not empty has a least one.
LEMMA Least ==
  ASSUME NEW T, T \subseteq Nat, T # {}
  PROVE  \E x \in T : \A y \in T : ~(y < x)
<1>1. PICK x \in T : \A y \in T : ~(<<y, x>> \in OpToRel(<, Nat))
  BY WFMin, NatLessThanWellFounded
<1> QED
  BY <1>1 DEF OpToRel

\* A table whose last pair applies yields the second member of one of its pairs.
LEMMA FirstOfSecond ==
  ASSUME NEW n \in Nat \ {0}, NEW table, DOMAIN table = 1..n, table[n][1]
  PROVE  \E i \in 1..n : FirstOf(table) = table[i][2]
<1> DEFINE S == {i \in 1..n : table[i][1]}
<1>1. S \subseteq Nat /\ n \in S
  OBVIOUS
<1>2. S # {}
  BY <1>1
<1>3. PICK x \in S : \A y \in S : ~(y < x)
  <2> HIDE DEF S
  <2> QED BY <1>1, <1>2, Least
<1>4. \A j \in 1..(x - 1) : ~table[j][1]
  BY <1>3
<1>5. \E i \in DOMAIN table : table[i][1] /\ \A j \in 1..(i - 1) : ~table[j][1]
  BY <1>3, <1>4
<1> QED
  BY <1>5 DEF FirstOf

-----------------------------------------------------------------------------
(***************************************************************************)
(* What the constructors of the data records let through.                  *)
(***************************************************************************)
SmartParameters ==
  [minEBatPercent : 0..100 \cup {NaN}, minWatts : 0..2500 \cup {NaN},
   maxWatts : 0..2500 \cup {NaN}, minPBatLoadWatts : 0..2500 \cup {NaN}]

Parameters ==
  [mode : Modes, desiredWatts : Nat \cup {NaN}, minWatts : 0..2000, maxWatts : 0..2500,
   smart : SmartParameters]

Parsed(d, min, max) == ParseNumber(d, TRUE, min, max)

\* A number that parseNumber lets through lies within its limits, or is NaN.
LEMMA ParsedPercent ==
  ASSUME NEW d \in Data, Parsed(d, 0, 100) # Rejected
  PROVE  Parsed(d, 0, 100) \in 0..100 \cup {NaN}
BY NotNumbers DEF Parsed, ParseNumber, Data, Numbers

LEMMA ParsedWatts ==
  ASSUME NEW d \in Data, Parsed(d, 0, 2500) # Rejected
  PROVE  Parsed(d, 0, 2500) \in 0..2500 \cup {NaN}
BY NotNumbers DEF Parsed, ParseNumber, Data, Numbers

LEMMA ParsedAbove ==
  ASSUME NEW d \in Data, Parsed(d, 0, Unlimited) # Rejected
  PROVE  Parsed(d, 0, Unlimited) \in Nat \cup {NaN}
BY NotNumbers DEF Parsed, ParseNumber, Data, Numbers

LEMMA ParsedNumber ==
  ASSUME NEW d \in Data, Parsed(d, Unlimited, Unlimited) # Rejected
  PROVE  Parsed(d, Unlimited, Unlimited) \in Numbers
BY NotNumbers DEF Parsed, ParseNumber, Data, Numbers

\* A limit that is missing, too high or NaN is replaced by the default.
LEMMA LimitedWithin ==
  ASSUME NEW d \in Data
  PROVE  /\ Limited(d, 2000, 0) # Rejected => Limited(d, 2000, 0) \in 0..2000
         /\ Limited(d, 2500, 2500) # Rejected => Limited(d, 2500, 2500) \in 0..2500
<1> DEFINE n == IF d = Absent THEN NaN ELSE Parsed(d, 0, Unlimited)
<1>1. n # Rejected => n \in Nat \cup {NaN}
  BY ParsedAbove
<1>2. /\ Limited(d, 2000, 0) = IF n = Rejected THEN Rejected
                                ELSE IF n = NaN THEN 0 ELSE IF n > 2000 THEN 0 ELSE n
      /\ Limited(d, 2500, 2500) = IF n = Rejected THEN Rejected
                                   ELSE IF n = NaN THEN 2500 ELSE IF n > 2500 THEN 2500 ELSE n
  BY DEF Limited, Parsed
<1> HIDE DEF n
<1> QED
  BY <1>1, <1>2

\* A record of which no attribute is rejected.
LEMMA NoneRejected ==
  ASSUME NEW r, NEW x, x = (IF AnyRejected(r) THEN Rejected ELSE r), x # Rejected
  PROVE  x = r /\ \A a \in DOMAIN r : r[a] # Rejected
BY DEF AnyRejected

\* The constructor of the smart mode parameter lets numbers within its limits through, or NaN.
LEMMA SmartModeAccepted ==
  ASSUME NEW data \in SmartBodies, SmartModeParameter(data) # Rejected
  PROVE  SmartModeParameter(data) \in SmartParameters
<1> DEFINE load == IF data.minPBatLoadWatts = Absent THEN 0
                   ELSE Parsed(data.minPBatLoadWatts, 0, 2500)
           r == [minEBatPercent   |-> Parsed(data.minEBatPercent, 0, 100),
                 minWatts         |-> Parsed(data.minWatts, 0, 2500),
                 maxWatts         |-> Parsed(data.maxWatts, 0, 2500),
                 minPBatLoadWatts |-> load]
<1>1. /\ data.minEBatPercent \in Data /\ data.minWatts \in Data
      /\ data.maxWatts \in Data /\ data.minPBatLoadWatts \in Data
  BY DEF SmartBodies
<1>2. SmartModeParameter(data) = IF AnyRejected(r) THEN Rejected ELSE r
  BY DEF SmartModeParameter, Parsed
<1>3. DOMAIN r = {"minEBatPercent", "minWatts", "maxWatts", "minPBatLoadWatts"}
  OBVIOUS
<1>4. SmartModeParameter(data) = r /\ \A a \in DOMAIN r : r[a] # Rejected
  <2> HIDE DEF r
  <2> QED BY <1>2, NoneRejected
<1>5. /\ r["minEBatPercent"] # Rejected /\ r["minWatts"] # Rejected
      /\ r["maxWatts"] # Rejected /\ r["minPBatLoadWatts"] # Rejected
  <2> HIDE DEF r
  <2> QED BY <1>3, <1>4
<1>6. /\ Parsed(data.minEBatPercent, 0, 100) \in 0..100 \cup {NaN}
      /\ Parsed(data.minWatts, 0, 2500) \in 0..2500 \cup {NaN}
      /\ Parsed(data.maxWatts, 0, 2500) \in 0..2500 \cup {NaN}
  BY <1>1, <1>5, ParsedPercent, ParsedWatts
<1>7. load \in 0..2500 \cup {NaN}
  <2>1. CASE data.minPBatLoadWatts = Absent
    BY <2>1
  <2>2. CASE data.minPBatLoadWatts # Absent
    BY <2>2, <1>1, <1>5, ParsedWatts
  <2> QED BY <2>1, <2>2
<1> HIDE DEF load
<1>8. r \in SmartParameters
  BY <1>6, <1>7 DEF SmartParameters
<1> HIDE DEF r
<1> QED
  BY <1>4, <1>8

\* And so does the constructor of the parameter, which replaces limits it does not take.
LEMMA BodyAccepted ==
  ASSUME NEW data \in Bodies, ControllerParameter(data) # Rejected
  PROVE  ControllerParameter(data) \in Parameters
<1> DEFINE r == [mode         |-> ParseMode(data.mode),
                 desiredWatts |-> Parsed(data.desiredWatts, 0, Unlimited),
                 minWatts     |-> Limited(data.minWatts, 2000, 0),
                 maxWatts     |-> Limited(data.maxWatts, 2500, 2500),
                 smart        |-> SmartModeParameter(data.smart)]
<1>1. /\ data.desiredWatts \in Data /\ data.minWatts \in Data
      /\ data.maxWatts \in Data /\ data.smart \in SmartBodies
  BY DEF Bodies
<1>2. ControllerParameter(data) = IF AnyRejected(r) THEN Rejected ELSE r
  BY DEF ControllerParameter, Parsed
<1>3. DOMAIN r = {"mode", "desiredWatts", "minWatts", "maxWatts", "smart"}
  OBVIOUS
<1>4. ControllerParameter(data) = r /\ \A a \in DOMAIN r : r[a] # Rejected
  <2> HIDE DEF r
  <2> QED BY <1>2, NoneRejected
<1>5. /\ r["mode"] # Rejected /\ r["desiredWatts"] # Rejected /\ r["minWatts"] # Rejected
      /\ r["maxWatts"] # Rejected /\ r["smart"] # Rejected
  <2> HIDE DEF r
  <2> QED BY <1>3, <1>4
<1>6. ParseMode(data.mode) \in Modes
  BY <1>5 DEF ParseMode
<1>7. Parsed(data.desiredWatts, 0, Unlimited) \in Nat \cup {NaN}
  BY <1>1, <1>5, ParsedAbove
<1>8. /\ Limited(data.minWatts, 2000, 0) \in 0..2000
      /\ Limited(data.maxWatts, 2500, 2500) \in 0..2500
  BY <1>1, <1>5, LimitedWithin
<1>9. SmartModeParameter(data.smart) \in SmartParameters
  BY <1>1, <1>5, SmartModeAccepted
<1>10. r \in Parameters
  BY <1>6, <1>7, <1>8, <1>9 DEF Parameters
<1> HIDE DEF r
<1> QED
  BY <1>4, <1>10

\* Every parameter that the program takes over has numbers within the limits, or NaN.
LEMMA AcceptedParameters == Accepted \cup {StartParameter} \subseteq Parameters
BY BodyAccepted, ConfigAccepted, InputsAssumption DEF Accepted, StartParameter

\* Values that a query brings are numbers, and the state of the battery is one of six.
LEMMA QuerySound ==
  ASSUME NEW query \in QueryData, NEW time, SmartModeValues(CompletedQuery(query, time)) # Rejected
  PROVE  Sound(SmartModeValues(CompletedQuery(query, time)))
<1> DEFINE data == CompletedQuery(query, time)
<1>1. \A d \in Data : OrZero(d) \in Data
  BY DEF OrZero, Text, Data, Numbers
<1>2. Null \in Data
  BY DEF Null, Data, Numbers
<1>3. /\ data.eBatPercent \in Data /\ data.pBatWatt \in Data /\ data.pGridWatt \in Data
      /\ data.pPvSouthWatt \in Data /\ data.pPvEastWestWatt \in Data
      /\ data.pHeatSystemWatt \in Data /\ data.pOthersWatt \in Data
  BY <1>1, <1>2 DEF CompletedQuery, QueryData
<1> DEFINE values ==
         [createdAt       |-> IF data.createdAt = NaN THEN Rejected ELSE data.createdAt,
          eBatPercent     |-> Parsed(data.eBatPercent, 0, 100),
          pBatWatt        |-> Parsed(data.pBatWatt, Unlimited, Unlimited),
          pGridWatt       |-> Parsed(data.pGridWatt, Unlimited, Unlimited),
          pPvSouthWatt    |-> Parsed(data.pPvSouthWatt, Unlimited, Unlimited),
          pPvEastWestWatt |-> Parsed(data.pPvEastWestWatt, Unlimited, Unlimited),
          pHeatSystemWatt |-> Parsed(data.pHeatSystemWatt, Unlimited, Unlimited),
          pOthersWatt     |-> Parsed(data.pOthersWatt, Unlimited, Unlimited),
          batState        |-> ParseBatState(data.batState)]
<1> HIDE DEF data
<1>4. SmartModeValues(data) = IF AnyRejected(values) THEN Rejected ELSE values
  BY DEF SmartModeValues, Parsed
<1>5. DOMAIN values = {"createdAt", "eBatPercent", "pBatWatt", "pGridWatt", "pPvSouthWatt",
                       "pPvEastWestWatt", "pHeatSystemWatt", "pOthersWatt", "batState"}
  OBVIOUS
<1>6. SmartModeValues(data) = values /\ \A a \in DOMAIN values : values[a] # Rejected
  <2>1. SmartModeValues(data) # Rejected
    BY DEF data
  <2> HIDE DEF values
  <2> QED BY <2>1, <1>4, NoneRejected
<1>7. /\ values["eBatPercent"] # Rejected /\ values["pBatWatt"] # Rejected
      /\ values["pGridWatt"] # Rejected /\ values["pPvSouthWatt"] # Rejected
      /\ values["pPvEastWestWatt"] # Rejected /\ values["pHeatSystemWatt"] # Rejected
      /\ values["pOthersWatt"] # Rejected
  <2> HIDE DEF values
  <2> QED BY <1>5, <1>6
<1>8. values.eBatPercent \in Numbers
  <2>1. Parsed(data.eBatPercent, 0, 100) \in 0..100 \cup {NaN}
    BY <1>3, <1>7, ParsedPercent
  <2> QED BY <2>1 DEF Numbers
<1>9. /\ values.pBatWatt \in Numbers /\ values.pGridWatt \in Numbers
      /\ values.pPvSouthWatt \in Numbers /\ values.pPvEastWestWatt \in Numbers
      /\ values.pHeatSystemWatt \in Numbers /\ values.pOthersWatt \in Numbers
  BY <1>3, <1>7, ParsedNumber
<1>10. values.batState \in BatStates
  BY DEF ParseBatState, BatStates
<1>11. Sound(values)
  BY <1>8, <1>9, <1>10 DEF Sound
<1> HIDE DEF values
<1> QED
  BY <1>6, <1>11 DEF data

\* The values that stand in for missing ones are sound too.
LEMMA ValuesSound ==
  ASSUME NEW values, values = NoValues \/ Sound(values)
  PROVE  Sound(ValuesOrZero(values))
BY DEF Sound, ValuesOrZero, Numbers, BatStates

-----------------------------------------------------------------------------
(***************************************************************************)
(* The steps of smart mode and the results of calcSetpointPower.           *)
(***************************************************************************)
\* In each state of the battery a step raises the setpoint by 10 W at most, if at all.
Steps(limit) == {n \in Int : n <= limit} \cup {NaN}

\* The tables of smart mode, one for each state of the battery.
LEMMA ChargingTable ==
  ASSUME NEW p, NEW v, NEW level, p.smart.minEBatPercent # 1
  PROVE  ChargingStep(p, v, level) \in Steps(10)
<1> DEFINE table == << <<Less(200, v.pGridWatt), -20>>, <<Less(100, v.pGridWatt), -5>>,
                  <<Less(200, level), 10>>, <<Less(level, -200), -100>>,
                  <<Less(30, level), 5>>, <<Less(level, -30), -10>>,
                  <<Less(10, v.pGridWatt), -5>>, <<TRUE, 0>> >>
<1>1. DOMAIN table = 1..8 /\ table[8][1]
  OBVIOUS
<1>2. PICK i \in 1..8 : FirstOf(table) = table[i][2]
  <2> HIDE DEF table
  <2> QED BY <1>1, FirstOfSecond, 8 \in Nat \ {0}
<1>3. i \in {1, 2, 3, 4, 5, 6, 7, 8}
  OBVIOUS
<1>4. table[i][2] \in {-20, -5, 10, -100, 5, -10, 0}
  BY <1>3
<1>5. FirstOf(table) \in Steps(10)
  <2> HIDE DEF table
  <2> QED BY <1>2, <1>4 DEF Steps
<1> QED
  BY <1>5 DEF ChargingStep

LEMMA FullTable ==
  ASSUME NEW v
  PROVE  FullStep(v) \in Steps(10)
<1> DEFINE table == << <<Less(300, v.pGridWatt) \/ Less(300, v.pBatWatt), -50>>,
             <<Less(100, v.pGridWatt) \/ Less(100, v.pBatWatt), -25>>,
             <<Less(0, v.pGridWatt), -5>>, <<Less(-20, v.pGridWatt), -1>>,
             <<Less(v.pGridWatt, -40), 1>>, <<TRUE, 0>> >>
<1>1. DOMAIN table = 1..6 /\ table[6][1]
  OBVIOUS
<1>2. PICK i \in 1..6 : FirstOf(table) = table[i][2]
  <2> HIDE DEF table
  <2> QED BY <1>1, FirstOfSecond, 6 \in Nat \ {0}
<1>3. i \in {1, 2, 3, 4, 5, 6}
  OBVIOUS
<1>4. table[i][2] \in {-50, -25, -5, -1, 1, 0}
  BY <1>3
<1>5. FirstOf(table) \in Steps(10)
  <2> HIDE DEF table
  <2> QED BY <1>2, <1>4 DEF Steps
<1> QED
  BY <1>5 DEF FullStep

LEMMA HoldingTable ==
  ASSUME NEW v
  PROVE  HoldingStep(v) \in Steps(10)
<1> DEFINE table == << <<Less(300, v.pGridWatt), -50>>, <<Less(100, v.pGridWatt), -10>>,
             <<Less(10, v.pGridWatt), -5>>, <<Less(v.pGridWatt, -10), 5>>, <<TRUE, 0>> >>
<1>1. DOMAIN table = 1..5 /\ table[5][1]
  OBVIOUS
<1>2. PICK i \in 1..5 : FirstOf(table) = table[i][2]
  <2> HIDE DEF table
  <2> QED BY <1>1, FirstOfSecond, 5 \in Nat \ {0}
<1>3. i \in {1, 2, 3, 4, 5}
  OBVIOUS
<1>4. table[i][2] \in {-50, -10, -5, 5, 0}
  BY <1>3
<1>5. FirstOf(table) \in Steps(10)
  <2> HIDE DEF table
  <2> QED BY <1>2, <1>4 DEF Steps
<1> QED
  BY <1>5 DEF HoldingStep

\* With the defect meter a step is 100 W.
LEMMA DefectTable ==
  ASSUME NEW level
  PROVE  DefectStep(level) \in Steps(100)
<1> DEFINE table == << <<Less(level, 0), -100>>, <<Less(100, level), 100>>, <<TRUE, 0>> >>
<1>1. DOMAIN table = 1..3 /\ table[3][1]
  OBVIOUS
<1>2. PICK i \in 1..3 : FirstOf(table) = table[i][2]
  <2> HIDE DEF table
  <2> QED BY <1>1, FirstOfSecond, 3 \in Nat \ {0}
<1>3. i \in {1, 2, 3}
  OBVIOUS
<1>4. table[i][2] \in {-100, 100, 0}
  BY <1>3
<1>5. FirstOf(table) \in Steps(100)
  <2> HIDE DEF table
  <2> QED BY <1>2, <1>4 DEF Steps
<1> QED
  BY <1>5 DEF DefectStep

\* A minimum charge of 1 % selects a step in proportion to the surplus.
LEMMA TestStepLimited ==
  ASSUME NEW v, Sound(v)
  PROVE  TestStep(v) \in Steps(10)
<1>1. v.pPvSouthWatt \in Numbers /\ v.pBatWatt \in Numbers
  BY DEF Sound
<1> DEFINE diff == Minus(Plus(v.pPvSouthWatt, v.pBatWatt))
<1>2. diff \in Numbers
  BY <1>1, NotNumbers DEF Minus, Plus, Numbers
<1>3. CASE diff = NaN
  BY <1>3 DEF TestStep, Steps
<1>4. CASE diff # NaN /\ diff >= 0
  <2>1. Div(diff, 20) \in Int
    BY <1>2, <1>4 DEF Div, Numbers
  <2>2. TestStep(v) = IF Div(diff, 20) > 10 THEN 10 ELSE Div(diff, 20)
    BY <1>4 DEF TestStep
  <2> QED BY <2>1, <2>2 DEF Steps
<1>5. CASE diff # NaN /\ ~(diff >= 0)
  <2>1. Div(0 - diff, 10) \in Nat
    BY <1>2, <1>5 DEF Div, Numbers
  <2>2. TestStep(v) = 0 - (IF Div(0 - diff, 10) > 20 THEN 20 ELSE Div(0 - diff, 10))
    BY <1>5 DEF TestStep
  <2> QED BY <2>1, <2>2 DEF Steps
<1> QED
  BY <1>3, <1>4, <1>5

\* Whatever the state of the battery, a step raises the setpoint by 10 W at most.
LEMMA SmartStepLimited ==
  ASSUME NEW p, NEW v, NEW level, Sound(v)
  PROVE  SmartStep(p, v, level) \in Steps(10)
<1>1. v.batState \in BatStates
  BY DEF Sound
<1>2. ChargingStep(p, v, level) \in Steps(10)
  BY ChargingTable, TestStepLimited DEF ChargingStep
<1>3. -100 \in Steps(10)
  BY DEF Steps
<1> QED
  BY <1>1, <1>2, <1>3, FullTable, HoldingTable DEF SmartStep, BatStates

\* A step may lead to NaN, and raises by the limit of the steps at most.
LEMMA PlusStep ==
  ASSUME NEW rv \in Numbers, NEW limit \in Int, NEW step \in Steps(limit)
  PROVE  /\ Plus(rv, step) \in Numbers
         /\ rv = NaN => Plus(rv, step) = NaN
         /\ Plus(rv, step) # NaN => Plus(rv, step) <= rv + limit
BY NotNumbers DEF Plus, Steps, Numbers

\* What a result may be after a setpoint rv, in a mode with the limits min and max.
Bounded(y, rv, step, min, max) ==
  y # NaN => /\ y \in 0..2500
             /\ y <= max
             /\ rv # NaN => y <= rv + step \/ y <= min

NumberLimits(p) == p.smart.minEBatPercent # NaN /\ p.smart.minWatts # NaN /\ p.smart.maxWatts # NaN

SmartRaise(defect) == IF defect THEN 100 ELSE 10

\* Smart mode yields a number or NaN, and with numbers for limits keeps to its bounds.
LEMMA SmartResult ==
  ASSUME NEW p \in Parameters, NEW v, Sound(v), NEW rv \in Numbers, NEW level,
         NEW defect \in BOOLEAN
  PROVE  /\ SmartModeSetpoint(defect, p, v, rv, level) \in Numbers
         /\ NumberLimits(p) /\ rv \in Nat \cup {NaN} =>
              Bounded(SmartModeSetpoint(defect, p, v, rv, level), rv,
                      SmartRaise(defect), p.smart.minWatts, p.smart.maxWatts)
<1> DEFINE min == p.smart.minWatts
           max == p.smart.maxWatts
<1>1. min \in 0..2500 \cup {NaN} /\ max \in 0..2500 \cup {NaN}
  <2>1. p.smart \in SmartParameters
    BY DEF Parameters
  <2> DEFINE s == p.smart
  <2> HIDE DEF s
  <2>2. s \in SmartParameters
    BY <2>1 DEF s
  <2>3. s.minWatts \in 0..2500 \cup {NaN} /\ s.maxWatts \in 0..2500 \cup {NaN}
    BY <2>2 DEF SmartParameters
  <2> QED BY <2>3 DEF s
<1> DEFINE y == SmartModeSetpoint(defect, p, v, rv, level)
           numbers == NumberLimits(p)
<1>5. numbers => min # NaN /\ max # NaN
  BY DEF NumberLimits
<1>2. CASE BatteryLow(defect, p, v)
  <2>1. y = 0
    BY <1>2 DEF SmartModeSetpoint
  <2>2. SmartRaise(defect) \in Nat
    BY DEF SmartRaise
  <2> HIDE DEF min, max, y, numbers
  <2>3. y \in Numbers
    BY <2>1 DEF Numbers
  <2>4. ASSUME numbers, rv \in Nat \cup {NaN}
        PROVE  Bounded(y, rv, SmartRaise(defect), min, max)
    BY <1>1, <1>5, <2>1, <2>2, <2>4 DEF Bounded
  <2> QED BY <2>3, <2>4 DEF min, max, y, numbers
<1>3. CASE ~BatteryLow(defect, p, v) /\ defect
  <2> DEFINE x == Plus(rv, DefectStep(level))
  <2>1. y = Clamped(x, 0, max)
    BY <1>3 DEF SmartModeSetpoint
  <2>2. x \in Numbers /\ (rv = NaN \/ x = NaN \/ x <= rv + 100)
    BY DefectTable, PlusStep
  <2>3. SmartRaise(defect) = 100
    BY <1>3 DEF SmartRaise
  <2> HIDE DEF x, min, max, y, numbers
  <2>4. y \in Numbers
    BY <1>1, <2>1, <2>2, NotNumbers DEF Clamped, Less, Numbers
  <2>5. ASSUME numbers, rv \in Nat \cup {NaN}
        PROVE  Bounded(y, rv, SmartRaise(defect), min, max)
    <3>1. min \in 0..2500 /\ max \in 0..2500
      BY <1>1, <1>5, <2>5
    <3> QED BY <2>1, <2>2, <2>3, <2>5, <3>1, NotNumbers DEF Clamped, Less, Numbers, Bounded
  <2> QED BY <2>4, <2>5 DEF min, max, y, numbers
<1>4. CASE ~BatteryLow(defect, p, v) /\ ~defect
  <2> DEFINE x == Plus(rv, SmartStep(p, v, level))
  <2>1. y = Clamped(x, min, max)
    BY <1>4 DEF SmartModeSetpoint
  <2>2. x \in Numbers /\ (rv = NaN \/ x = NaN \/ x <= rv + 10)
    BY SmartStepLimited, PlusStep
  <2>3. SmartRaise(defect) = 10
    BY <1>4 DEF SmartRaise
  <2> HIDE DEF x, min, max, y, numbers
  <2>4. y \in Numbers
    BY <1>1, <2>1, <2>2, NotNumbers DEF Clamped, Less, Numbers
  <2>5. ASSUME numbers, rv \in Nat \cup {NaN}
        PROVE  Bounded(y, rv, SmartRaise(defect), min, max)
    <3>1. min \in 0..2500 /\ max \in 0..2500
      BY <1>1, <1>5, <2>5
    <3> QED BY <2>1, <2>2, <2>3, <2>5, <3>1, NotNumbers DEF Clamped, Less, Numbers, Bounded
  <2> QED BY <2>4, <2>5 DEF min, max, y, numbers
<1> QED
  BY <1>2, <1>3, <1>4

\* So does the mode "power", whose limits are always numbers.
LEMMA PowerResult ==
  ASSUME NEW p \in Parameters, NEW rv \in Numbers
  PROVE  /\ PowerModeSetpoint(p, rv) \in Numbers
         /\ rv \in Nat \cup {NaN} =>
              Bounded(PowerModeSetpoint(p, rv), rv, 25, p.minWatts, p.maxWatts)
<1> DEFINE min == p.minWatts
           max == p.maxWatts
           desired == p.desiredWatts
           y == PowerModeSetpoint(p, rv)
           x == IF Less(rv, desired) THEN rv + 25 ELSE desired
<1>1. min \in 0..2000 /\ max \in 0..2500 /\ desired \in Nat \cup {NaN}
  BY DEF Parameters
<1>2. y = Clamped(x, min, max)
  BY DEF PowerModeSetpoint
<1> HIDE DEF min, max, desired, y
<1>3. x \in Numbers /\ (rv = NaN \/ x = NaN \/ x <= rv + 25)
  BY <1>1, NotNumbers DEF Less, Numbers
<1> HIDE DEF x
<1>4. y \in Numbers
  BY <1>1, <1>2, <1>3, NotNumbers DEF Clamped, Less, Numbers
<1>5. ASSUME rv \in Nat \cup {NaN} PROVE Bounded(y, rv, 25, min, max)
  BY <1>1, <1>2, <1>3, <1>5, NotNumbers DEF Clamped, Less, Numbers, Bounded
<1> QED
  BY <1>4, <1>5 DEF min, max, y

\* A setpoint the heater can take.
Safe(y) == y \in 0..2500 \cup {NaN}

\* What calcSetpointPower may leave: a number or NaN; with numbers for limits, and after a
\* setpoint the heater can take, no more than a step above that setpoint.
LEMMA CalcResult ==
  ASSUME NEW p \in Parameters, NEW values, values = NoValues \/ Sound(values),
         NEW setpoint \in Numbers, NEW level, NEW defect \in BOOLEAN,
         NEW result \in CalcSetpointPower(defect, p, values, setpoint, level)
  PROVE  /\ result[1] \in Numbers
         /\ NumberLimits(p) /\ Safe(setpoint) =>
              /\ Safe(result[1])
              /\ p.mode = "power" => Bounded(result[1], setpoint, 25, p.minWatts, p.maxWatts)
              /\ p.mode = "smart" => Bounded(result[1], setpoint, SmartRaise(defect),
                                             p.smart.minWatts, p.smart.maxWatts)
<1> DEFINE v == ValuesOrZero(values)
           rv == Usable(setpoint)
<1>1. Sound(v)
  BY ValuesSound
<1>2. rv \in Numbers /\ (Safe(setpoint) => rv = setpoint /\ rv \in Nat \cup {NaN})
  BY NotNumbers DEF Usable, Less, Numbers, Safe
<1>3. p.mode \in Modes
  BY DEF Parameters
<1>4. CASE p.mode \in {"off", "on"}
  <2>1. result[1] \in {0, 2000}
    BY <1>4 DEF CalcSetpointPower
  <2> QED BY <1>4, <2>1 DEF Numbers, Safe
<1>5. CASE p.mode = "power"
  <2>1. result[1] = PowerModeSetpoint(p, rv)
    BY <1>5 DEF CalcSetpointPower
  <2> HIDE DEF rv
  <2>2. /\ result[1] \in Numbers
        /\ rv \in Nat \cup {NaN} => Bounded(result[1], rv, 25, p.minWatts, p.maxWatts)
    BY <1>2, <2>1, PowerResult
  <2>3. ASSUME Safe(setpoint)
        PROVE  Bounded(result[1], setpoint, 25, p.minWatts, p.maxWatts)
    BY <1>2, <2>2, <2>3
  <2>4. Safe(setpoint) => Safe(result[1])
    BY <2>3 DEF Bounded, Safe
  <2> QED BY <1>5, <2>2, <2>3, <2>4
<1>6. CASE p.mode = "smart"
  <2>1. PICK l : result[1] = SmartModeSetpoint(defect, p, v, rv, l)
    BY <1>6 DEF CalcSetpointPower
  <2> HIDE DEF rv, v
  <2>2. /\ result[1] \in Numbers
        /\ NumberLimits(p) /\ rv \in Nat \cup {NaN} =>
             Bounded(result[1], rv, SmartRaise(defect), p.smart.minWatts, p.smart.maxWatts)
    BY <1>1, <1>2, <2>1, SmartResult
  <2>3. ASSUME NumberLimits(p), Safe(setpoint)
        PROVE  Bounded(result[1], setpoint, SmartRaise(defect), p.smart.minWatts, p.smart.maxWatts)
    BY <1>2, <2>2, <2>3
  <2>4. NumberLimits(p) /\ Safe(setpoint) => Safe(result[1])
    BY <2>3 DEF Bounded, Safe
  <2> QED BY <1>6, <2>2, <2>3, <2>4
<1>7. CASE p.mode \in {"test", "shutdown"}
  <2>1. result[1] = rv
    BY <1>7 DEF CalcSetpointPower
  <2> HIDE DEF rv
  <2> QED BY <1>2, <1>7, <2>1
<1> QED
  BY <1>3, <1>4, <1>5, <1>6, <1>7 DEF Modes

-----------------------------------------------------------------------------
(***************************************************************************)
(* The heater and the register of its setpoint.                            *)
(***************************************************************************)
\* The power of the heater at a whole current.
LEMMA PowerValues ==
  /\ PowerAt(6) = 28     /\ PowerAt(7) = 57     /\ PowerAt(8) = 260    /\ PowerAt(9) = 480
  /\ PowerAt(10) = 1220  /\ PowerAt(11) = 2570  /\ PowerAt(12) = 4600  /\ PowerAt(13) = 7160
  /\ PowerAt(14) = 10450 /\ PowerAt(15) = 12920 /\ PowerAt(16) = 15530 /\ PowerAt(17) = 17300
  /\ PowerAt(18) = 18700 /\ PowerAt(19) = 19350 /\ PowerAt(20) = 19500
BY DEF PowerAt, PowerTable

LEMMA PowerIsInt == \A i \in 6..20 : PowerAt(i) \in Int
<1> TAKE i \in 6..20
<1>1. i \in {6, 7, 8, 9, 10, 11, 12, 13, 14, 15, 16, 17, 18, 19, 20}
  OBVIOUS
<1> QED
  BY <1>1, PowerValues

Holds(i, x) == x \in PowerAt(i)..PowerAt(i + 1) /\ \A j \in 6..(i - 1) : x > PowerAt(j + 1)

\* Between the ends of the table there is a first section that holds a power.
LEMMA SectionHolds ==
  ASSUME NEW x \in Int, x > 28, x < 19500
  PROVE  \E i \in 6..19 : Holds(i, x)
<1> DEFINE S == {i \in 6..19 : x <= PowerAt(i + 1)}
<1>1. S \subseteq Nat /\ 19 \in S
  BY PowerValues
<1>2. S # {}
  BY <1>1
<1>3. PICK i \in S : \A y \in S : ~(y < i)
  <2> HIDE DEF S
  <2> QED BY <1>1, <1>2, Least
<1>4a. \A j \in 6..(i - 1) : x > PowerAt(j + 1)
  <2> TAKE j \in 6..(i - 1)
  <2>1. j \in 6..19 /\ j < i /\ j + 1 \in 6..20
    OBVIOUS
  <2> QED BY <1>3, <2>1, PowerIsInt
<1>4. x >= PowerAt(i)
  <2>1. CASE i = 6
    BY <2>1, PowerValues
  <2>2. CASE i # 6
    <3>1. i - 1 \in 6..(i - 1) /\ (i - 1) + 1 = i
      BY <2>2
    <3>2. x > PowerAt((i - 1) + 1)
      BY <1>4a, <3>1
    <3> QED BY <3>1, <3>2, PowerIsInt
  <2> QED BY <2>1, <2>2
<1>5. x \in PowerAt(i)..PowerAt(i + 1)
  BY <1>4, PowerIsInt
<1> QED
  BY <1>4a, <1>5 DEF Holds

\* That section holds the power above its lower end.
LEMMA SectionBounds ==
  ASSUME NEW x \in Int, x > 28, NEW i \in 6..19, Holds(i, x)
  PROVE  PowerAt(i) < x /\ x <= PowerAt(i + 1)
<1>1. CASE i = 6
  BY <1>1, PowerValues DEF Holds
<1>2. CASE i # 6
  <2>1. i - 1 \in 6..(i - 1) /\ (i - 1) + 1 = i
    BY <1>2
  <2>2. x > PowerAt((i - 1) + 1)
    BY <2>1 DEF Holds
  <2> QED BY <2>1, <2>2, PowerIsInt DEF Holds
<1> QED BY <1>1, <1>2

\* The register of a power in a section of the table.
Scaled(mA, low, high, x) == (2048 * (100 * mA + Div(100 * (x - low), high - low))) \div 100

Between(register, low, high) == low + ((high - low) * (register % 2048)) \div 2048

Near(a, b) == a - b \in -50..50

\* A register that holds a current of mA and a part of the next milliampere, or exactly mA.
WholePart(register, mA) == register \div 2048 = mA
Exactly(register, mA)   == register \div 2048 = mA /\ register % 2048 = 0

InRange(register) == register \in Nat /\ register <= 40960

Followed(register, mA, low, high, x) ==
  \/ WholePart(register, mA) /\ Near(Between(register, low, high), x)
  \/ Exactly(register, mA + 1) /\ Near(high, x)

Fits(mA, low, high, x) ==
  LET register == Scaled(mA, low, high, x)
  IN  register \in Int /\ Followed(register, mA, low, high, x)

\* In each of the 14 sections rounding and cutting cost less than 5 W.
LEMMA SectionFollowed ==
  ASSUME NEW x \in Int, NEW i \in 6..19, PowerAt(i) < x, x <= PowerAt(i + 1)
  PROVE  Fits(i, PowerAt(i), PowerAt(i + 1), x)
<1>6. CASE i = 6
  <2>1. PowerAt(i) = 28 /\ PowerAt(i + 1) = 57 /\ i = 6
    BY <1>6, PowerValues
  <2>2. ASSUME 28 < x, x <= 57 PROVE Fits(6, 28, 57, x)
    BY <2>2, SMTT(60) DEF Fits, Scaled, Followed, WholePart, Exactly, Between, Near, Div
  <2> QED BY <2>1, <2>2
<1>7. CASE i = 7
  <2>1. PowerAt(i) = 57 /\ PowerAt(i + 1) = 260 /\ i = 7
    BY <1>7, PowerValues
  <2>2. ASSUME 57 < x, x <= 260 PROVE Fits(7, 57, 260, x)
    BY <2>2, SMTT(60) DEF Fits, Scaled, Followed, WholePart, Exactly, Between, Near, Div
  <2> QED BY <2>1, <2>2
<1>8. CASE i = 8
  <2>1. PowerAt(i) = 260 /\ PowerAt(i + 1) = 480 /\ i = 8
    BY <1>8, PowerValues
  <2>2. ASSUME 260 < x, x <= 480 PROVE Fits(8, 260, 480, x)
    BY <2>2, SMTT(60) DEF Fits, Scaled, Followed, WholePart, Exactly, Between, Near, Div
  <2> QED BY <2>1, <2>2
<1>9. CASE i = 9
  <2>1. PowerAt(i) = 480 /\ PowerAt(i + 1) = 1220 /\ i = 9
    BY <1>9, PowerValues
  <2>2. ASSUME 480 < x, x <= 1220 PROVE Fits(9, 480, 1220, x)
    BY <2>2, SMTT(60) DEF Fits, Scaled, Followed, WholePart, Exactly, Between, Near, Div
  <2> QED BY <2>1, <2>2
<1>10. CASE i = 10
  <2>1. PowerAt(i) = 1220 /\ PowerAt(i + 1) = 2570 /\ i = 10
    BY <1>10, PowerValues
  <2>2. ASSUME 1220 < x, x <= 2570 PROVE Fits(10, 1220, 2570, x)
    BY <2>2, SMTT(60) DEF Fits, Scaled, Followed, WholePart, Exactly, Between, Near, Div
  <2> QED BY <2>1, <2>2
<1>11. CASE i = 11
  <2>1. PowerAt(i) = 2570 /\ PowerAt(i + 1) = 4600 /\ i = 11
    BY <1>11, PowerValues
  <2>2. ASSUME 2570 < x, x <= 4600 PROVE Fits(11, 2570, 4600, x)
    BY <2>2, SMTT(60) DEF Fits, Scaled, Followed, WholePart, Exactly, Between, Near, Div
  <2> QED BY <2>1, <2>2
<1>12. CASE i = 12
  <2>1. PowerAt(i) = 4600 /\ PowerAt(i + 1) = 7160 /\ i = 12
    BY <1>12, PowerValues
  <2>2. ASSUME 4600 < x, x <= 7160 PROVE Fits(12, 4600, 7160, x)
    BY <2>2, SMTT(60) DEF Fits, Scaled, Followed, WholePart, Exactly, Between, Near, Div
  <2> QED BY <2>1, <2>2
<1>13. CASE i = 13
  <2>1. PowerAt(i) = 7160 /\ PowerAt(i + 1) = 10450 /\ i = 13
    BY <1>13, PowerValues
  <2>2. ASSUME 7160 < x, x <= 10450 PROVE Fits(13, 7160, 10450, x)
    BY <2>2, SMTT(60) DEF Fits, Scaled, Followed, WholePart, Exactly, Between, Near, Div
  <2> QED BY <2>1, <2>2
<1>14. CASE i = 14
  <2>1. PowerAt(i) = 10450 /\ PowerAt(i + 1) = 12920 /\ i = 14
    BY <1>14, PowerValues
  <2>2. ASSUME 10450 < x, x <= 12920 PROVE Fits(14, 10450, 12920, x)
    BY <2>2, SMTT(60) DEF Fits, Scaled, Followed, WholePart, Exactly, Between, Near, Div
  <2> QED BY <2>1, <2>2
<1>15. CASE i = 15
  <2>1. PowerAt(i) = 12920 /\ PowerAt(i + 1) = 15530 /\ i = 15
    BY <1>15, PowerValues
  <2>2. ASSUME 12920 < x, x <= 15530 PROVE Fits(15, 12920, 15530, x)
    BY <2>2, SMTT(60) DEF Fits, Scaled, Followed, WholePart, Exactly, Between, Near, Div
  <2> QED BY <2>1, <2>2
<1>16. CASE i = 16
  <2>1. PowerAt(i) = 15530 /\ PowerAt(i + 1) = 17300 /\ i = 16
    BY <1>16, PowerValues
  <2>2. ASSUME 15530 < x, x <= 17300 PROVE Fits(16, 15530, 17300, x)
    BY <2>2, SMTT(60) DEF Fits, Scaled, Followed, WholePart, Exactly, Between, Near, Div
  <2> QED BY <2>1, <2>2
<1>17. CASE i = 17
  <2>1. PowerAt(i) = 17300 /\ PowerAt(i + 1) = 18700 /\ i = 17
    BY <1>17, PowerValues
  <2>2. ASSUME 17300 < x, x <= 18700 PROVE Fits(17, 17300, 18700, x)
    BY <2>2, SMTT(60) DEF Fits, Scaled, Followed, WholePart, Exactly, Between, Near, Div
  <2> QED BY <2>1, <2>2
<1>18. CASE i = 18
  <2>1. PowerAt(i) = 18700 /\ PowerAt(i + 1) = 19350 /\ i = 18
    BY <1>18, PowerValues
  <2>2. ASSUME 18700 < x, x <= 19350 PROVE Fits(18, 18700, 19350, x)
    BY <2>2, SMTT(60) DEF Fits, Scaled, Followed, WholePart, Exactly, Between, Near, Div
  <2> QED BY <2>1, <2>2
<1>19. CASE i = 19
  <2>1. PowerAt(i) = 19350 /\ PowerAt(i + 1) = 19500 /\ i = 19
    BY <1>19, PowerValues
  <2>2. ASSUME 19350 < x, x <= 19500 PROVE Fits(19, 19350, 19500, x)
    BY <2>2, SMTT(60) DEF Fits, Scaled, Followed, WholePart, Exactly, Between, Near, Div
  <2> QED BY <2>1, <2>2
<1> QED
  BY <1>6, <1>7, <1>8, <1>9, <1>10, <1>11, <1>12, <1>13, <1>14, <1>15, <1>16, <1>17, <1>18, <1>19

\* Registers of a section, and the power of the heater at them.
LEMMA RegisterRange ==
  ASSUME NEW register \in Int, NEW i \in Int, 6 <= i, i <= 19,
         WholePart(register, i) \/ Exactly(register, i + 1)
  PROVE  InRange(register)
BY DEF WholePart, Exactly, InRange

LEMMA PowerBetween ==
  ASSUME NEW register \in Int, NEW i \in 6..19, WholePart(register, i)
  PROVE  HeaterPower(register) = Between(register, PowerAt(i), PowerAt(i + 1))
<1> DEFINE mA == register \div 2048
<1>1. HeaterPower(register) = IF mA < 6 THEN 0 ELSE IF mA >= 20 THEN FullPower
                              ELSE Between(register, PowerAt(mA), PowerAt(mA + 1))
  BY DEF HeaterPower, Between
<1>2. mA = i
  BY DEF WholePart
<1> HIDE DEF mA
<1> QED
  BY <1>1, <1>2

LEMMA PowerAtEnd ==
  ASSUME NEW register \in Int, NEW i \in 6..19, Exactly(register, i + 1)
  PROVE  HeaterPower(register) = PowerAt(i + 1)
<1> DEFINE mA == register \div 2048
           high == PowerAt(i + 1)
           next == PowerAt((i + 1) + 1)
<1>1. HeaterPower(register) = IF mA < 6 THEN 0 ELSE IF mA >= 20 THEN FullPower
                              ELSE Between(register, PowerAt(mA), PowerAt(mA + 1))
  BY DEF HeaterPower, Between
<1>2. mA = i + 1 /\ register % 2048 = 0
  BY DEF Exactly
<1>3. CASE i = 19
  <2> HIDE DEF mA
  <2> QED BY <1>1, <1>2, <1>3 DEF FullPower
<1>4. CASE i # 19
  <2>1. HeaterPower(register) = Between(register, high, next)
    <3> HIDE DEF mA
    <3> QED BY <1>1, <1>2, <1>4
  <2>2. high \in Int /\ next \in Int
    BY <1>4, PowerIsInt
  <2> HIDE DEF high, next
  <2>3. Between(register, high, next) = high
    BY <1>2, <2>2 DEF Between
  <2> QED BY <2>1, <2>3 DEF high
<1> QED
  BY <1>3, <1>4

\* The register of a power leads the heater to it.
LEMMA FollowedPower ==
  ASSUME NEW register \in Int, NEW i \in 6..19, NEW x,
         Followed(register, i, PowerAt(i), PowerAt(i + 1), x)
  PROVE  InRange(register) /\ Near(HeaterPower(register), x)
<1>1. i \in Int /\ 6 <= i /\ i <= 19
  OBVIOUS
<1>2. CASE WholePart(register, i) /\ Near(Between(register, PowerAt(i), PowerAt(i + 1)), x)
  BY <1>1, <1>2, RegisterRange, PowerBetween, Zenon
<1>3. CASE Exactly(register, i + 1) /\ Near(PowerAt(i + 1), x)
  BY <1>1, <1>3, RegisterRange, PowerAtEnd, Zenon
<1> QED
  BY <1>2, <1>3, Zenon DEF Followed

\* The power of a setpoint, as the invariant HeaterFollows takes it.
WantedFor(watts) == IF watts = NaN THEN 0
                    ELSE IF 10 * watts > FullPower THEN FullPower
                    ELSE IF watts < 0 THEN 0 ELSE 10 * watts

\* At the register of a setpoint the heater takes the power of the setpoint, within 5 W,
\* although the current is rounded and the fraction of the register is cut off.
LEMMA RegisterFollows ==
  ASSUME NEW watts \in Numbers
  PROVE  /\ InRange(SetpointRegister(watts))
         /\ Near(HeaterPower(SetpointRegister(watts)), WantedFor(watts))
<1>1. PowerAt(6) = 28 /\ FullPower = 19500
  BY PowerValues DEF FullPower
<1>2. CASE watts = NaN \/ (watts \in Int /\ 10 * watts <= 28)
  <2>1. PowerWattsToCurrent(watts) = 0
    BY <1>1, <1>2 DEF PowerWattsToCurrent
  <2>2. SetpointRegister(watts) = 0
    BY <2>1 DEF SetpointRegister
  <2>3. HeaterPower(0) = 0
    BY DEF HeaterPower
  <2>4. WantedFor(watts) \in 0..28
    BY <1>1, <1>2, NotNumbers DEF WantedFor
  <2> QED BY <2>2, <2>3, <2>4 DEF Near, InRange
<1>3. CASE watts \in Int /\ 10 * watts >= 19500
  <2>1. PowerWattsToCurrent(watts) = 2000
    BY <1>1, <1>3, NotNumbers DEF PowerWattsToCurrent
  <2>2. SetpointRegister(watts) = 40960
    BY <2>1 DEF SetpointRegister
  <2>3. HeaterPower(40960) = 19500
    BY <1>1 DEF HeaterPower
  <2>4. WantedFor(watts) = 19500
    BY <1>1, <1>3, NotNumbers DEF WantedFor
  <2> QED BY <2>2, <2>3, <2>4 DEF Near, InRange
<1>4. CASE watts \in Int /\ 28 < 10 * watts /\ 10 * watts < 19500
  <2> DEFINE x == 10 * watts
             i == CHOOSE k \in 6..19 : Holds(k, x)
  <2>1. i \in 6..19 /\ Holds(i, x)
    BY <1>4, SectionHolds
  <2>2. SetpointRegister(watts) = Scaled(i, PowerAt(i), PowerAt(i + 1), x)
    BY <1>1, <1>4, NotNumbers DEF SetpointRegister, PowerWattsToCurrent, Holds, Scaled
  <2>3. WantedFor(watts) = x
    BY <1>1, <1>4, NotNumbers DEF WantedFor
  <2>4. x \in Int /\ 28 < x
    BY <1>4
  <2> HIDE DEF i, x
  <2>5. PowerAt(i) < x /\ x <= PowerAt(i + 1)
    BY <2>1, <2>4, SectionBounds
  <2> DEFINE register == Scaled(i, PowerAt(i), PowerAt(i + 1), x)
  <2>6. register \in Int /\ Followed(register, i, PowerAt(i), PowerAt(i + 1), x)
    BY <2>1, <2>4, <2>5, SectionFollowed DEF Fits
  <2> HIDE DEF register
  <2>7. InRange(register) /\ Near(HeaterPower(register), x)
    BY <2>1, <2>4, <2>6, FollowedPower, Zenon
  <2> QED BY <2>2, <2>3, <2>7, Zenon DEF register
<1> QED
  <2> DEFINE goal == /\ InRange(SetpointRegister(watts))
                     /\ Near(HeaterPower(SetpointRegister(watts)), WantedFor(watts))
  <2>1. /\ watts = NaN \/ (watts \in Int /\ 10 * watts <= 28) => goal
        /\ watts \in Int /\ 10 * watts >= 19500 => goal
        /\ watts \in Int /\ 28 < 10 * watts /\ 10 * watts < 19500 => goal
    BY <1>2, <1>3, <1>4
  <2> HIDE DEF goal
  <2>2. goal
    BY <2>1 DEF Numbers
  <2> QED BY <2>2 DEF goal

-----------------------------------------------------------------------------
(***************************************************************************)
(* The types, and the setpoint on its way to the heater: the youngest      *)
(* write that waits is the one of the setpoint, and when none waits the    *)
(* heater has it.                                                          *)
(***************************************************************************)
Awaited == [op : {"write", "read"}, register : {r \in Nat : InRange(r)}]

Types ==
  /\ parameter \in Accepted \cup {StartParameter}
  /\ smartModeValues = NoValues \/ Sound(smartModeValues)
  /\ setpointPower \in Numbers
  /\ requests \in Seq(Awaited)

IsWrite(i) == requests[i].op = "write"

Newest ==
  \A i \in 1..Len(requests) :
    IsWrite(i) => \/ requests[i].register = SetpointRegister(setpointPower)
                  \/ \E j \in (i + 1)..Len(requests) : IsWrite(j)

Caught == inStep /\ Writes = {} => heater = SetpointRegister(setpointPower)

IInv == Types /\ Newest /\ Caught

\* Both kinds of request carry a register the heater knows.
LEMMA AwaitedRequests ==
  /\ \A watts \in Numbers : Write(watts) \in Awaited
  /\ Read \in Awaited
<1>1. \A watts \in Numbers : InRange(SetpointRegister(watts))
  BY RegisterFollows
<1>2. \A r : InRange(r) => r \in Nat
  BY DEF InRange
<1>3. InRange(0)
  BY DEF InRange
<1>4. ASSUME NEW watts \in Numbers PROVE Write(watts) \in Awaited
  BY <1>1, <1>2 DEF Write, Awaited
<1>5. Read \in Awaited
  BY <1>2, <1>3 DEF Read, Awaited
<1> QED
  BY <1>4, <1>5

\* Values that have grown old are dropped, the others are sound.
LEMMA CurrentSound ==
  ASSUME Types
  PROVE  Current(smartModeValues) = NoValues \/ Sound(Current(smartModeValues))
BY DEF Types, Current

\* A refresh computes one result, which the setpoint and the new request share.
LEMMA RefreshResult ==
  ASSUME Types, NEW p \in Accepted \cup {StartParameter},
         RefreshWith(p, smartModeValues, setpointPower)
  PROVE  \E result \in CalcSetpointPower(MeterDefect, p, Current(smartModeValues),
                                         setpointPower, availPower) :
           /\ result[1] \in Numbers
           /\ setpointPower' = result[1] /\ availPower' = result[2]
           /\ requests' = Append(requests, Write(result[1]))
<1>1. PICK result \in CalcSetpointPower(MeterDefect, p, Current(smartModeValues),
                                        setpointPower, availPower) :
        /\ setpointPower' = result[1] /\ availPower' = result[2]
        /\ requests' = Append(requests, Write(result[1]))
  BY DEF RefreshWith
<1>2. p \in Parameters
  BY AcceptedParameters
<1>3. setpointPower \in Numbers
  BY DEF Types
<1>4. result[1] \in Numbers
  BY <1>1, <1>2, <1>3, CurrentSound, CalcResult, InputsAssumption
<1> QED
  BY <1>1, <1>4

\* A refresh keeps the invariant: its write is the youngest.
LEMMA RefreshKeeps ==
  ASSUME IInv, NEW p \in Accepted \cup {StartParameter},
         RefreshWith(p, smartModeValues, setpointPower)
  PROVE  IInv'
<1>1. Types
  BY DEF IInv
<1>2. PICK result : /\ result[1] \in Numbers
                    /\ setpointPower' = result[1]
                    /\ requests' = Append(requests, Write(result[1]))
  BY <1>1, RefreshResult
<1> DEFINE new == Write(setpointPower')
<1>3. new \in Awaited /\ new.op = "write" /\ new.register = SetpointRegister(setpointPower')
  BY <1>2, AwaitedRequests DEF Write
<1>4. requests' = Append(requests, new)
  BY <1>2
<1> HIDE DEF new
<1>5. requests \in Seq(Awaited)
  BY <1>1 DEF Types
<1>6. /\ Len(requests') = Len(requests) + 1 /\ requests'[Len(requests')] = new
      /\ requests' \in Seq(Awaited) /\ Len(requests) \in Nat
  BY <1>3, <1>4, <1>5
<1>7. Types'
  <2>1. parameter' = p /\ smartModeValues' = Current(smartModeValues)
    BY DEF RefreshWith
  <2>2. Current(smartModeValues) = NoValues \/ Sound(Current(smartModeValues))
    BY <1>1, CurrentSound
  <2> QED BY <1>2, <1>6, <2>1, <2>2 DEF Types
<1>8. IsWrite(Len(requests))'
  BY <1>3, <1>6 DEF IsWrite
<1>9. Newest'
  BY <1>3, <1>6, <1>8 DEF Newest
<1>10. Writes' # {}
  BY <1>3, <1>6 DEF Writes
<1> QED
  BY <1>7, <1>9, <1>10 DEF IInv, Caught

\* Without its head the line keeps the youngest write.
LEMMA TailKeeps ==
  ASSUME requests \in Seq(Awaited), requests # <<>>, Newest,
         requests' = Tail(requests), setpointPower' = setpointPower
  PROVE  requests' \in Seq(Awaited) /\ Newest'
<1>1. /\ Len(requests) \in Nat /\ Len(requests) > 0 /\ Len(requests') = Len(requests) - 1
      /\ requests' \in Seq(Awaited)
      /\ \A i \in 1..Len(requests') : requests'[i] = requests[i + 1]
  OBVIOUS
<1>2. ASSUME NEW i \in 1..Len(requests'), IsWrite(i)'
      PROVE  \/ requests'[i].register = SetpointRegister(setpointPower)
             \/ \E j \in (i + 1)..Len(requests') : IsWrite(j)'
  <2>1. i + 1 \in 1..Len(requests) /\ IsWrite(i + 1) /\ requests'[i] = requests[i + 1]
    BY <1>1, <1>2 DEF IsWrite
  <2>2. CASE requests[i + 1].register = SetpointRegister(setpointPower)
    BY <2>1, <2>2
  <2>3. CASE \E j \in ((i + 1) + 1)..Len(requests) : IsWrite(j)
    <3>1. PICK j \in ((i + 1) + 1)..Len(requests) : IsWrite(j)
      BY <2>3
    <3>2. j - 1 \in (i + 1)..Len(requests') /\ requests'[j - 1] = requests[j]
      BY <1>1, <1>2
    <3> QED BY <3>1, <3>2 DEF IsWrite
  <2> QED BY <2>1, <2>2, <2>3 DEF Newest
<1> QED
  BY <1>1, <1>2 DEF Newest

\* A read behind the others changes nothing for the writes.
LEMMA AppendReadKeeps ==
  ASSUME requests \in Seq(Awaited), requests # <<>>, Newest,
         requests' = Append(Tail(requests), Read), setpointPower' = setpointPower
  PROVE  requests' \in Seq(Awaited) /\ Newest'
<1>1. Read \in Awaited /\ Read.op # "write"
  BY AwaitedRequests DEF Read
<1> DEFINE read == Read
<1>2. read \in Awaited /\ read.op # "write" /\ requests' = Append(Tail(requests), read)
  BY <1>1
<1> HIDE DEF read
<1>3. /\ Len(requests) \in Nat /\ Len(requests) > 0 /\ Len(requests') = Len(requests)
      /\ requests' \in Seq(Awaited)
      /\ \A i \in 1..(Len(requests) - 1) : requests'[i] = requests[i + 1]
      /\ requests'[Len(requests)] = read
  BY <1>2
<1>4. ASSUME NEW i \in 1..Len(requests), IsWrite(i)'
      PROVE  \/ requests'[i].register = SetpointRegister(setpointPower)
             \/ \E j \in (i + 1)..Len(requests) : IsWrite(j)'
  <2>1. i # Len(requests)
    BY <1>2, <1>3, <1>4 DEF IsWrite
  <2>2. i \in 1..(Len(requests) - 1) /\ i + 1 \in 1..Len(requests)
    <3> DEFINE n == Len(requests)
    <3>1. n \in Nat /\ i \in 1..n /\ i # n
      BY <1>3, <2>1
    <3> HIDE DEF n
    <3>2. i \in 1..(n - 1) /\ i + 1 \in 1..n
      BY <3>1
    <3> QED BY <3>2 DEF n
  <2>3. requests'[i] = requests[i + 1]
    BY <1>3, <2>2
  <2>4. IsWrite(i + 1)
    BY <1>4, <2>3 DEF IsWrite
  <2>5. CASE requests[i + 1].register = SetpointRegister(setpointPower)
    BY <2>3, <2>5
  <2>6. CASE \E j \in ((i + 1) + 1)..Len(requests) : IsWrite(j)
    <3>1. PICK j \in ((i + 1) + 1)..Len(requests) : IsWrite(j)
      BY <2>6
    <3>2. j - 1 \in (i + 1)..Len(requests) /\ requests'[j - 1] = requests[j]
      BY <1>3, <1>4
    <3> QED BY <3>1, <3>2 DEF IsWrite
  <2> QED BY <2>2, <2>4, <2>5, <2>6 DEF Newest
<1> QED
  BY <1>3, <1>4 DEF Newest

\* The invariant holds in the beginning, and every step keeps it.
LEMMA InitKeeps == Init => IInv
<1> SUFFICES ASSUME Init PROVE IInv
  OBVIOUS
<1>1. requests = <<>> /\ setpointPower = 0 /\ inStep = FALSE
      /\ parameter = StartParameter /\ smartModeValues = NoValues
  BY DEF Init, Fresh
<1>2. requests \in Seq(Awaited) /\ Len(requests) = 0
  BY <1>1
<1>3. Types
  BY <1>1, <1>2 DEF Types, Numbers
<1>4. Newest
  BY <1>2 DEF Newest
<1>5. Caught
  BY <1>1 DEF Caught
<1> QED
  BY <1>3, <1>4, <1>5 DEF IInv

\* A step that leaves the line, the setpoint and the heater alone.
LEMMA UnchangedKeeps ==
  ASSUME IInv, UNCHANGED <<parameter, setpointPower, requests, heater, inStep>>,
         smartModeValues' = NoValues \/ Sound(smartModeValues')
  PROVE  IInv'
BY DEF IInv, Types, Newest, IsWrite, Caught, Writes

LEMMA NextKeeps == IInv /\ [Next]_vars => IInv'
<1> SUFFICES ASSUME IInv, [Next]_vars PROVE IInv'
  OBVIOUS
<1> USE DEF inputVars, outputVars, energyVars, lineVars
<1>0. /\ parameter \in Accepted \cup {StartParameter}
      /\ smartModeValues = NoValues \/ Sound(smartModeValues)
      /\ requests \in Seq(Awaited) /\ Types /\ Newest /\ Caught
  BY DEF IInv, Types
<1>1. CASE TimerFires
  BY <1>0, <1>1, RefreshKeeps DEF TimerFires
<1>2. ASSUME NEW p \in Accepted, PostParameter(p) PROVE IInv'
  BY <1>2, RefreshKeeps DEF PostParameter
<1>3. ASSUME NEW query \in Queries, GetMonitor(query) PROVE IInv'
  <2>1. query \in QueryData
    BY InputsAssumption
  <2>2. Sound(smartModeValues')
    BY <1>3, <2>1, QuerySound DEF GetMonitor
  <2> QED BY <1>3, <2>2, UnchangedKeeps DEF GetMonitor
<1>4. CASE WriteAnswered
  <2>1. requests' \in Seq(Awaited) /\ Newest'
    BY <1>0, <1>4, AppendReadKeeps DEF WriteAnswered
  <2>2. Types'
    BY <1>0, <1>4, <2>1 DEF WriteAnswered, Types
  <2>3. Caught'
    <3>1. SUFFICES ASSUME Writes' = {} PROVE heater' = SetpointRegister(setpointPower)
      BY <1>4 DEF Caught, WriteAnswered
    <3>2. /\ Len(requests) \in Nat /\ Len(requests) > 0 /\ Head(requests) = requests[1]
          /\ Len(requests') = Len(requests)
          /\ \A j \in 2..Len(requests) : requests'[j - 1] = requests[j]
      BY <1>0, <1>4, AwaitedRequests DEF WriteAnswered
    <3>3. ~ \E j \in 2..Len(requests) : IsWrite(j)
      BY <2>1, <3>1, <3>2 DEF IsWrite, Writes
    <3>4. requests[1].register = SetpointRegister(setpointPower)
      BY <1>0, <1>4, <3>2, <3>3 DEF WriteAnswered, Newest, IsWrite
    <3> QED BY <1>4, <3>2, <3>4 DEF WriteAnswered
  <2> QED BY <2>1, <2>2, <2>3 DEF IInv
<1>5. ASSUME NEW timer \in Timers, ReadAnswered(timer) PROVE IInv'
  <2>1. requests' \in Seq(Awaited) /\ Newest'
    BY <1>0, <1>5, TailKeeps DEF ReadAnswered
  <2>2. Types'
    BY <1>0, <1>5, <2>1 DEF ReadAnswered, Types
  <2>3. Caught'
    <3>1. SUFFICES ASSUME Writes' = {} PROVE Writes = {}
      BY <1>0, <1>5 DEF Caught, ReadAnswered
    <3>2. /\ Len(requests) \in Nat /\ Len(requests) > 0 /\ Head(requests) = requests[1]
          /\ Len(requests') = Len(requests) - 1
          /\ \A j \in 2..Len(requests) : requests'[j - 1] = requests[j]
      BY <1>0, <1>5 DEF ReadAnswered
    <3>3. ~ IsWrite(1)
      BY <1>5, <3>2 DEF ReadAnswered, IsWrite
    <3>4. ASSUME NEW j \in 2..Len(requests) PROVE ~ IsWrite(j)
      BY <2>1, <3>1, <3>2 DEF IsWrite, Writes
    <3> QED BY <3>2, <3>3, <3>4 DEF Writes, IsWrite
  <2> QED BY <2>1, <2>2, <2>3 DEF IInv
<1>6. CASE RequestFails
  <2>1. requests' \in Seq(Awaited) /\ Newest'
    BY <1>0, <1>6, TailKeeps DEF RequestFails
  <2>2. Types'
    BY <1>0, <1>6, <2>1 DEF RequestFails, Types
  <2>3. Caught'
    BY <1>6 DEF RequestFails, Caught
  <2> QED BY <2>1, <2>2, <2>3 DEF IInv
<1>7. CASE Shutdown
  BY <1>0, <1>7, UnchangedKeeps DEF Shutdown
<1>8. CASE Tick
  BY <1>0, <1>8, UnchangedKeeps DEF Tick
<1>9. CASE UNCHANGED vars
  BY <1>0, <1>9, UnchangedKeeps DEF vars
<1> QED
  BY <1>1, <1>2, <1>3, <1>4, <1>5, <1>6, <1>7, <1>8, <1>9 DEF Next

LEMMA Invariance == Spec => []IInv
BY InitKeeps, NextKeeps, PTL DEF Spec

\* The youngest setpoint reaches the heater: however refreshes overlap, and whatever fails
\* on the way, when no write is under way and the line has not failed since the last answer
\* the heater takes the power of the setpoint, within 5 W.
THEOREM NewestSetpoint == Spec => []HeaterFollows
<1>1. IInv => HeaterFollows
  <2> SUFFICES ASSUME IInv, inStep, Writes = {} PROVE HeaterPower(heater) - Wanted \in -50..50
    BY DEF HeaterFollows
  <2>1. heater = SetpointRegister(setpointPower)
    BY DEF IInv, Caught
  <2>2. Near(HeaterPower(SetpointRegister(setpointPower)), WantedFor(setpointPower))
    BY RegisterFollows DEF IInv, Types
  <2>3. Wanted = WantedFor(setpointPower)
    BY DEF Wanted, WantedFor
  <2> QED BY <2>1, <2>2, <2>3 DEF Near
<1> QED
  BY <1>1, Invariance, PTL

-----------------------------------------------------------------------------
(***************************************************************************)
(* Without values.  With the defect meter a parameter whose minimum charge *)
(* is NaN would never count as low, so that case is left out.              *)
(***************************************************************************)
ChargeLimits == \A p \in Accepted \cup {StartParameter} : p.smart.minEBatPercent # NaN

NotRaised(y, setpoint, min) ==
  y = NaN \/ ~Less(Usable(setpoint), y) \/ y = min \/ Less(y, min)

\* Without values the step of smart mode is 100 W down, or the battery counts as low.
LEMMA BlindResult ==
  ASSUME NEW p \in Parameters, p.mode = "smart", NEW setpoint \in Numbers, NEW level,
         NEW defect \in BOOLEAN, ~defect \/ p.smart.minEBatPercent # NaN,
         NEW result \in CalcSetpointPower(defect, p, NoValues, setpoint, level)
  PROVE  NotRaised(result[1], setpoint, p.smart.minWatts)
<1> DEFINE v == ValuesOrZero(NoValues)
           rv == Usable(setpoint)
           min == p.smart.minWatts
           max == p.smart.maxWatts
           charge == p.smart.minEBatPercent
<1>1. v.batState = "UNKNOWN" /\ v.eBatPercent = 0
  BY DEF ValuesOrZero
<1>2. PICK l : result[1] = SmartModeSetpoint(defect, p, v, rv, l)
  BY DEF CalcSetpointPower
<1>3. rv \in Nat \cup {NaN}
  BY NotNumbers DEF Usable, Less, Numbers
<1>4. min \in 0..2500 \cup {NaN} /\ max \in 0..2500 \cup {NaN} /\ charge \in 0..100 \cup {NaN}
  <2>1. p.smart \in SmartParameters
    BY DEF Parameters
  <2> DEFINE s == p.smart
  <2> HIDE DEF s
  <2>2. s \in SmartParameters
    BY <2>1 DEF s
  <2>3. /\ s.minWatts \in 0..2500 \cup {NaN} /\ s.maxWatts \in 0..2500 \cup {NaN}
        /\ s.minEBatPercent \in 0..100 \cup {NaN}
    BY <2>2 DEF SmartParameters
  <2> QED BY <2>3 DEF s
<1>5. CASE BatteryLow(defect, p, v)
  <2>1. result[1] = 0
    BY <1>2, <1>5 DEF SmartModeSetpoint
  <2> HIDE DEF rv
  <2>2. ~Less(rv, 0)
    BY <1>3 DEF Less
  <2> QED BY <2>1, <2>2 DEF NotRaised, rv
<1>6. CASE ~BatteryLow(defect, p, v) /\ defect
  <2>1. ~Less(0, charge) /\ ~(charge = 0 /\ 0 # NaN)
    BY <1>1, <1>6 DEF BatteryLow
  <2>2. charge # NaN
    BY <1>6
  <2> HIDE DEF charge
  <2> QED BY <1>4, <2>1, <2>2, NotNumbers DEF Less
<1>7. CASE ~BatteryLow(defect, p, v) /\ ~defect
  <2> DEFINE x == Plus(rv, -100)
  <2>1. result[1] = Clamped(x, min, max)
    BY <1>1, <1>2, <1>7 DEF SmartModeSetpoint, SmartStep
  <2> HIDE DEF rv, min, max
  <2>2. (rv = NaN /\ x = NaN) \/ (rv # NaN /\ x = rv - 100)
    BY <1>3, NotNumbers DEF Plus
  <2> HIDE DEF x
  <2>3. \/ Clamped(x, min, max) = NaN \/ ~Less(rv, Clamped(x, min, max))
        \/ Clamped(x, min, max) = min \/ Less(Clamped(x, min, max), min)
    BY <1>3, <1>4, <2>2, NotNumbers DEF Clamped, Less
  <2> QED BY <2>1, <2>3 DEF NotRaised, rv, min
<1> QED
  BY <1>5, <1>6, <1>7

\* A refresh without values that are young enough does not raise the setpoint.
LEMMA NoBlindStep ==
  ASSUME ~MeterDefect \/ ChargeLimits, IInv, NEW p \in Accepted \cup {StartParameter},
         RefreshWith(p, smartModeValues, setpointPower), parameter'.mode = "smart",
         smartModeValues = NoValues \/ now - smartModeValues.createdAt > MaxAge
  PROVE  NotRaised(setpointPower', setpointPower, parameter'.smart.minWatts)
<1>1. Types /\ setpointPower \in Numbers
  BY DEF IInv, Types
<1>2. Current(smartModeValues) = NoValues
  BY DEF Current
<1>3. parameter' = p /\ p \in Parameters
  BY AcceptedParameters DEF RefreshWith
<1>4. PICK result \in CalcSetpointPower(MeterDefect, p, NoValues, setpointPower, availPower) :
        setpointPower' = result[1]
  BY <1>1, <1>2, RefreshResult
<1>5. ~MeterDefect \/ p.smart.minEBatPercent # NaN
  BY DEF ChargeLimits
<1> QED
  BY <1>1, <1>3, <1>4, <1>5, BlindResult, InputsAssumption

\* Without values that are young enough smart mode never raises the setpoint, save to its
\* lower limit, whatever the parameters are and however the refreshes interleave.
THEOREM NeverBlind ==
  ASSUME ~MeterDefect \/ ChargeLimits
  PROVE  Spec => NoBlindIncrease
<1> DEFINE Blind == smartModeValues = NoValues \/ now - smartModeValues.createdAt > MaxAge
           Longer == requests' # requests /\ Len(requests') > Len(requests)
<1>1. IInv /\ [Next]_vars =>
        [Longer /\ parameter'.mode = "smart" /\ Blind =>
           NotRaised(setpointPower', setpointPower, parameter'.smart.minWatts)]_vars
  <2> SUFFICES ASSUME IInv, [Next]_vars, Longer, parameter'.mode = "smart", Blind
               PROVE  NotRaised(setpointPower', setpointPower, parameter'.smart.minWatts)
    OBVIOUS
  <2> USE DEF inputVars, outputVars, energyVars, lineVars
  <2>1. requests \in Seq(Awaited) /\ parameter \in Accepted \cup {StartParameter}
    BY DEF IInv, Types
  <2>2. requests # <<>> => /\ Len(Tail(requests)) < Len(requests)
                           /\ Len(Append(Tail(requests), Read)) = Len(requests)
    BY <2>1
  <2>3. CASE TimerFires
    BY <2>1, <2>3, NoBlindStep DEF TimerFires
  <2>4. ASSUME NEW p \in Accepted, PostParameter(p)
        PROVE  NotRaised(setpointPower', setpointPower, parameter'.smart.minWatts)
    BY <2>4, NoBlindStep DEF PostParameter
  <2>5. CASE WriteAnswered
    BY <2>1, <2>2, <2>5 DEF WriteAnswered
  <2>6. CASE \E timer \in Timers : ReadAnswered(timer)
    BY <2>1, <2>2, <2>6 DEF ReadAnswered
  <2>7. CASE RequestFails
    BY <2>1, <2>2, <2>7 DEF RequestFails
  <2>8. CASE \E query \in Queries : GetMonitor(query)
    BY <2>8 DEF GetMonitor
  <2>9. CASE Shutdown \/ Tick \/ UNCHANGED vars
    BY <2>9 DEF Shutdown, Tick, vars
  <2> QED BY <2>3, <2>4, <2>5, <2>6, <2>7, <2>8, <2>9 DEF Next
<1>2. [Longer /\ parameter'.mode = "smart" /\ Blind =>
         NotRaised(setpointPower', setpointPower, parameter'.smart.minWatts)]_vars
      => [Longer /\ parameter'.mode = "smart" /\ Blind =>
           \/ setpointPower' = NaN
           \/ ~Less(Usable(setpointPower), setpointPower')
           \/ setpointPower' = parameter'.smart.minWatts
           \/ Less(setpointPower', parameter'.smart.minWatts)]_vars
  BY DEF NotRaised
<1> QED
  BY <1>1, <1>2, Invariance, PTL DEF Spec, NoBlindIncrease

-----------------------------------------------------------------------------
(***************************************************************************)
(* Limits that are numbers.  The constructors let NaN through, and with it *)
(* the setpoint may leave every range; without it all values keep theirs.  *)
(***************************************************************************)
NumbersOnly == \A p \in Accepted \cup {StartParameter} : NumberLimits(p)

Ranges ==
  /\ mode \in Modes
  /\ smartModeValues # Rejected
  /\ Safe(setpointPower)
  /\ availPower \in Levels \cup {NaN}
  /\ Len(requests) <= MaxRefreshes
  /\ InRange(heater)
  /\ now \in 0..MaxTime

EnergyInv ==
  /\ activePower \in Nat /\ activePower <= 25000
  /\ energyTotal \in Nat /\ energyDaily \in Nat /\ energyDaily <= energyTotal
  /\ \/ lastRefresh = Never
     \/ lastRefresh.at \in Nat /\ lastRefresh.at <= now /\ lastRefresh.activePower \in Nat

\* The filter keeps to its levels, in smart mode and in the others.
LEMMA CalcLevel ==
  ASSUME NEW p \in Parameters, NEW values, NEW setpoint, NEW level \in Levels \cup {NaN},
         NEW defect, NEW result \in CalcSetpointPower(defect, p, values, setpoint, level)
  PROVE  result[2] \in Levels \cup {NaN}
<1>1. p.mode \in Modes
  BY DEF Parameters
<1>2. CASE p.mode = "smart"
  <2> DEFINE v == ValuesOrZero(values)
             rv == Usable(setpoint)
             input == FilterInput(defect, p, v, rv)
  <2>1. PICK l \in (IF BatteryLow(defect, p, v) THEN {level} ELSE Filtered(level, input)) :
          result[2] = l
    BY <1>2 DEF CalcSetpointPower
  <2> HIDE DEF input
  <2>2. Filtered(level, input) \subseteq Levels \cup {NaN}
    BY DEF Filtered
  <2> QED BY <2>1, <2>2
<1>3. CASE p.mode # "smart"
  <2>1. result[2] = level
    BY <1>1, <1>3 DEF CalcSetpointPower, Modes
  <2> QED BY <2>1
<1> QED
  BY <1>2, <1>3

\* A refresh keeps the ranges, and so do all other steps.
LEMMA RefreshRanges ==
  ASSUME NumbersOnly, IInv, Ranges, Len(requests) < MaxRefreshes,
         NEW p \in Accepted \cup {StartParameter},
         RefreshWith(p, smartModeValues, setpointPower), UNCHANGED <<heater, now>>
  PROVE  Ranges'
<1>1. Types /\ setpointPower \in Numbers /\ requests \in Seq(Awaited)
  BY DEF IInv, Types
<1>2. p \in Parameters /\ NumberLimits(p)
  BY AcceptedParameters DEF NumbersOnly
<1>3. PICK result \in CalcSetpointPower(MeterDefect, p, Current(smartModeValues),
                                        setpointPower, availPower) :
        /\ setpointPower' = result[1] /\ availPower' = result[2]
        /\ requests' = Append(requests, Write(result[1]))
  BY <1>1, RefreshResult
<1>4. Safe(setpointPower')
  BY <1>1, <1>2, <1>3, CurrentSound, CalcResult, InputsAssumption DEF Ranges
<1>5. availPower' \in Levels \cup {NaN}
  BY <1>2, <1>3, CalcLevel DEF Ranges
<1>6. Len(requests') <= MaxRefreshes
  <2>1. Len(requests') = Len(requests) + 1 /\ Len(requests) \in Nat
    BY <1>1, <1>3
  <2> QED BY <2>1, BoundsAssumption
<1>7. mode' \in Modes
  BY <1>2 DEF RefreshWith, ModeAfter, Parameters, Ranges
<1>8. smartModeValues' # Rejected
  BY BoundsAssumption DEF RefreshWith, Current, Ranges
<1>9. InRange(heater)' /\ now' \in 0..MaxTime
  BY DEF Ranges, InRange
<1> QED
  BY <1>4, <1>5, <1>6, <1>7, <1>8, <1>9 DEF Ranges

LEMMA NextRanges == NumbersOnly /\ IInv /\ Ranges /\ [Next]_vars => Ranges'
<1> SUFFICES ASSUME NumbersOnly, IInv, Ranges, [Next]_vars PROVE Ranges'
  OBVIOUS
<1> USE DEF inputVars, outputVars, energyVars, lineVars
<1>0. /\ requests \in Seq(Awaited) /\ parameter \in Accepted \cup {StartParameter}
      /\ Len(requests) <= MaxRefreshes
  BY DEF IInv, Types, Ranges
<1>1. CASE TimerFires
  BY <1>0, <1>1, RefreshRanges DEF TimerFires, MayRefresh
<1>2. ASSUME NEW p \in Accepted, PostParameter(p) PROVE Ranges'
  BY <1>2, RefreshRanges DEF PostParameter, MayRefresh
<1>3. ASSUME NEW query \in Queries, GetMonitor(query) PROVE Ranges'
  BY <1>3 DEF GetMonitor, Ranges, InRange, Safe
<1>4. ASSUME requests # <<>>
      PROVE  /\ InRange(Head(requests).register)
             /\ Len(Tail(requests)) <= MaxRefreshes
             /\ Len(Append(Tail(requests), Read)) <= MaxRefreshes
  <2>1. Head(requests) \in Awaited
    BY <1>0, <1>4
  <2>2. InRange(Head(requests).register)
    BY <2>1 DEF Awaited
  <2>3. Len(Tail(requests)) = Len(requests) - 1 /\ Len(requests) \in Nat
        /\ Len(Append(Tail(requests), Read)) = Len(requests)
    BY <1>0, <1>4
  <2> QED BY <1>0, <2>2, <2>3, BoundsAssumption
<1>5. CASE WriteAnswered
  BY <1>4, <1>5 DEF WriteAnswered, Ranges, Safe
<1>6. ASSUME NEW timer \in Timers, ReadAnswered(timer) PROVE Ranges'
  BY <1>4, <1>6 DEF ReadAnswered, Ranges, Safe, InRange
<1>7. CASE RequestFails
  <2>1. InRange(0)
    BY DEF InRange
  <2>2. InRange(heater')
    BY <1>4, <1>7, <2>1 DEF RequestFails, Ranges
  <2> QED BY <1>4, <1>7, <2>2 DEF RequestFails, Ranges, Safe
<1>8. CASE Shutdown
  BY <1>8 DEF Shutdown, Ranges, Safe, InRange, Modes
<1>9. CASE Tick
  BY <1>9, BoundsAssumption DEF Tick, Ranges, Safe, InRange
<1>10. CASE UNCHANGED vars
  BY <1>10 DEF vars, Ranges, Safe, InRange
<1> QED
  BY <1>1, <1>2, <1>3, <1>5, <1>6, <1>7, <1>8, <1>9, <1>10 DEF Next

LEMMA InitRanges == Init => Ranges
<1> SUFFICES ASSUME Init PROVE Ranges
  OBVIOUS
<1>1. /\ mode = parameter.mode /\ parameter = StartParameter /\ smartModeValues = NoValues
      /\ setpointPower = 0 /\ availPower = 0 /\ requests = <<>> /\ heater = 0 /\ now = 0
  BY DEF Init, Fresh
<1>2. mode \in Modes
  BY <1>1, AcceptedParameters DEF Parameters
<1>3. InRange(heater)
  BY <1>1 DEF InRange
<1>4. Len(requests) = 0
  BY <1>1
<1> QED
  BY <1>1, <1>2, <1>3, <1>4, BoundsAssumption DEF Ranges, Safe, Levels

LEMMA RangesInvariant ==
  ASSUME NumbersOnly
  PROVE  Spec => []Ranges
<1>1. IInv /\ Ranges /\ [Next]_vars => Ranges'
  BY NextRanges
<1> QED
  BY <1>1, InitRanges, Invariance, PTL DEF Spec

\* "Step slowly high to avoid power from grid": in every state that can be reached, and
\* for every reading, a refresh raises the setpoint by no more than the step of its mode
\* or up to the lower limit, and never above the upper one.
THEOREM SlowRaise ==
  ASSUME NumbersOnly
  PROVE  Spec => []RaisesSlowly
<1>1. IInv /\ Ranges => RaisesSlowly
  <2> SUFFICES ASSUME IInv, Ranges, parameter.mode \in {"power", "smart"}, setpointPower # NaN,
                      NEW defect \in BOOLEAN, NEW values \in Readings,
                      NEW result \in CalcSetpointPower(defect, parameter, values,
                                                       setpointPower, availPower)
               PROVE  LET limits == IF parameter.mode = "power" THEN parameter ELSE parameter.smart
                      IN  \/ result[1] = NaN
                          \/ /\ result[1] <= limits.maxWatts
                             /\ \/ result[1] <= setpointPower + Raised(parameter, defect)
                                \/ result[1] <= limits.minWatts
    BY DEF RaisesSlowly
  <2>1. parameter \in Parameters /\ NumberLimits(parameter)
    BY AcceptedParameters DEF IInv, Types, NumbersOnly
  <2>2. Safe(setpointPower) /\ setpointPower \in Numbers /\ Sound(values)
    BY InputsAssumption DEF Ranges, IInv, Types
  <2>3. /\ parameter.mode = "power" =>
             Bounded(result[1], setpointPower, 25, parameter.minWatts, parameter.maxWatts)
        /\ parameter.mode = "smart" =>
             Bounded(result[1], setpointPower, SmartRaise(defect),
                     parameter.smart.minWatts, parameter.smart.maxWatts)
    BY <2>1, <2>2, CalcResult
  <2>4. CASE parameter.mode = "power"
    BY <2>3, <2>4 DEF Bounded, Raised
  <2>5. CASE parameter.mode = "smart"
    BY <2>3, <2>5 DEF Bounded, Raised, SmartRaise
  <2> QED BY <2>4, <2>5
<1> QED
  BY <1>1, Invariance, RangesInvariant, PTL

-----------------------------------------------------------------------------
(***************************************************************************)
(* The energy: a sum of products of powers and times that are no less than *)
(* zero, the day's part of it no more than the whole.                      *)
(***************************************************************************)
\* A measured power is at most 2500 W, one that is not plausible counts as none.
LEMMA PlausiblePower ==
  ASSUME NEW timer \in Nat
  PROVE  Plausible(ActivePower(timer)) \in Nat /\ Plausible(ActivePower(timer)) <= 25000
<1> DEFINE power == ActivePower(timer)
<1>1. power = Infinity \/ power \in Int
  BY DEF ActivePower, Div
<1> HIDE DEF power
<1>2. Plausible(power) \in Nat /\ Plausible(power) <= 25000
  BY <1>1 DEF Plausible
<1> QED
  BY <1>2 DEF power

\* What a read adds is no less than zero.
LEMMA EnergyNatural ==
  ASSUME EnergyInv, lastRefresh # Never, now \in Nat, NEW power \in Nat
  PROVE  Energy(power) \in Nat
<1> DEFINE dt == now - lastRefresh.at
           sum == power + lastRefresh.activePower
<1>1. dt \in Nat /\ sum \in Nat
  BY DEF EnergyInv
<1>2. Energy(power) = IF dt > MaxGap THEN 0 ELSE sum * dt
  BY DEF Energy
<1> HIDE DEF dt, sum
<1>3. sum * dt \in Nat
  BY <1>1
<1> QED
  BY <1>2, <1>3

\* A read keeps the order of the two sums, also at midnight, and so do the other steps.
LEMMA ReadEnergy ==
  ASSUME EnergyInv, now \in Nat, NEW timer \in Timers, ReadAnswered(timer)
  PROVE  EnergyInv'
<1> DEFINE power == Plausible(ActivePower(timer))
<1>1. power \in Nat /\ power <= 25000
  BY PlausiblePower, BoundsAssumption
<1>2. /\ activePower' = power /\ now' = now
      /\ lastRefresh' = [at |-> now, activePower |-> power]
  BY DEF ReadAnswered
<1>3. lastRefresh = Never => energyTotal' = energyTotal /\ energyDaily' = energyDaily
  BY DEF ReadAnswered
<1>4. lastRefresh # Never =>
        /\ energyTotal' = energyTotal + Energy(power)
        /\ energyDaily' = Energy(power) + (IF Day(lastRefresh.at) # Day(now) THEN 0 ELSE energyDaily)
  BY DEF ReadAnswered
<1> HIDE DEF power
<1>5. energyTotal' \in Nat /\ energyDaily' \in Nat /\ energyDaily' <= energyTotal'
  <2>1. CASE lastRefresh = Never
    BY <1>3, <2>1 DEF EnergyInv
  <2>2. CASE lastRefresh # Never
    <3> DEFINE e == Energy(power)
               daily == IF Day(lastRefresh.at) # Day(now) THEN 0 ELSE energyDaily
    <3>1. e \in Nat
      BY <1>1, <2>2, EnergyNatural
    <3>2. daily \in Nat /\ daily <= energyTotal /\ energyTotal \in Nat
      BY DEF EnergyInv
    <3>3. energyTotal' = energyTotal + e /\ energyDaily' = e + daily
      BY <1>4, <2>2
    <3> HIDE DEF e, daily
    <3> QED BY <3>1, <3>2, <3>3
  <2> QED BY <2>1, <2>2
<1>6. lastRefresh'.at \in Nat /\ lastRefresh'.at <= now' /\ lastRefresh'.activePower \in Nat
  BY <1>1, <1>2
<1> QED
  BY <1>1, <1>2, <1>5, <1>6 DEF EnergyInv

LEMMA NextEnergy == EnergyInv /\ now \in Nat /\ [Next]_vars => EnergyInv'
<1> SUFFICES ASSUME EnergyInv, now \in Nat, [Next]_vars PROVE EnergyInv'
  OBVIOUS
<1> USE DEF inputVars, outputVars, energyVars, lineVars
<1>1. ASSUME UNCHANGED energyVars, now' = now PROVE EnergyInv'
  BY <1>1 DEF EnergyInv
<1>2. CASE TimerFires
  BY <1>1, <1>2 DEF TimerFires
<1>3. CASE \E p \in Accepted : PostParameter(p)
  BY <1>1, <1>3 DEF PostParameter
<1>4. CASE \E query \in Queries : GetMonitor(query)
  BY <1>1, <1>4 DEF GetMonitor
<1>5. CASE WriteAnswered
  BY <1>1, <1>5 DEF WriteAnswered
<1>6. CASE \E timer \in Timers : ReadAnswered(timer)
  BY <1>6, ReadEnergy
<1>7. CASE RequestFails \/ Shutdown
  BY <1>1, <1>7 DEF RequestFails, Shutdown
<1>8. CASE Tick
  <2>1. UNCHANGED energyVars /\ now' = now + 1
    BY <1>8 DEF Tick
  <2>2. lastRefresh = Never \/ (lastRefresh'.at \in Nat /\ lastRefresh'.at <= now')
    <3> DEFINE at == lastRefresh.at
    <3>1. lastRefresh'.at = at /\ (lastRefresh = Never \/ (at \in Nat /\ at <= now))
      BY <2>1 DEF EnergyInv
    <3> HIDE DEF at
    <3> QED BY <2>1, <3>1
  <2> QED BY <2>1, <2>2 DEF EnergyInv
<1>9. CASE UNCHANGED vars
  BY <1>1, <1>9 DEF vars
<1> QED
  BY <1>2, <1>3, <1>4, <1>5, <1>6, <1>7, <1>8, <1>9 DEF Next

\* With limits that are numbers every variable keeps its type: the setpoint stays between
\* 0 and 2500 W, or is NaN, and the energy of the day never exceeds the total.
THEOREM TypesKept ==
  ASSUME NumbersOnly
  PROVE  Spec => []TypeOK
<1>1. Init => EnergyInv
  BY DEF Init, Fresh, EnergyInv
<1>2. Ranges => now \in Nat
  BY BoundsAssumption DEF Ranges
<1>3. Ranges /\ EnergyInv /\ [Next]_vars => EnergyInv'
  BY <1>2, NextEnergy
<1>4. IInv /\ Ranges /\ EnergyInv => TypeOK
  BY BoundsAssumption DEF IInv, Types, Ranges, EnergyInv, Safe, InRange, TypeOK
<1> QED
  BY <1>1, <1>3, <1>4, Invariance, RangesInvariant, PTL DEF Spec
=============================================================================
