--------------------------- MODULE SetpointPower ---------------------------
(***************************************************************************)
(* Controller.calcSetpointPower: the setpoint in watts that follows from   *)
(* the parameter, the smart mode values, the setpoint before and the       *)
(* filtered power that is available.                                       *)
(*                                                                         *)
(* The filter is a moving average, its value is used in comparisons only.  *)
(* The module keeps the interval between two of the thresholds it is       *)
(* compared with, by one member, and lets a step lead anywhere between the *)
(* old value and the input.  defect is config.froniusMeterDefect.          *)
(***************************************************************************)
EXTENDS DataRecords

CONSTANT NoValues   \* _smartModeValues = null

Levels == {-300, -100, -10, 0, 50, 150, 300}

LevelOf(watts) ==
  CASE watts < -200         -> -300
    [] watts \in -200..-31  -> -100
    [] watts \in -30..-1    -> -10
    [] watts \in 0..30      -> 0
    [] watts \in 31..100    -> 50
    [] watts \in 101..200   -> 150
    [] watts > 200          -> 300

\* filterAvailablePower: once NaN, always NaN.
Filtered(level, input) ==
  IF level = NaN \/ input = NaN THEN {NaN}
  ELSE {l \in Levels : \/ level <= l /\ l <= LevelOf(input)
                       \/ LevelOf(input) <= l /\ l <= level}

\* What calcSetpointPower takes for values that are not available.
ValuesOrZero(values) ==
  IF values # NoValues THEN values
  ELSE [eBatPercent |-> 0, pBatWatt |-> 0, pGridWatt |-> 0, pPvSouthWatt |-> 0,
        pPvEastWestWatt |-> 0, pHeatSystemWatt |-> 0, pOthersWatt |-> 0, batState |-> "UNKNOWN"]

Usable(setpoint) == IF Less(setpoint, 0) THEN 0 ELSE setpoint

\* Two comparisons, the upper limit last; a limit that is NaN is none.
Clamped(x, min, max) ==
  LET y == IF Less(x, min) THEN min ELSE x
  IN  IF Less(max, y) THEN max ELSE y

\* The second member of the first pair whose first member is true.
FirstOf(table) ==
  table[CHOOSE i \in DOMAIN table : table[i][1] /\ \A j \in 1..(i - 1) : ~table[j][1]][2]

PowerModeSetpoint(p, rv) ==
  Clamped(IF Less(rv, p.desiredWatts) THEN rv + 25 ELSE p.desiredWatts, p.minWatts, p.maxWatts)

\* The power that is left to the battery: none unless load >= 0, which NaN is not.
BatteryLoad(p, v) ==
  LET load == p.smart.minPBatLoadWatts
  IN  IF v.batState \in {"FULL", "HOLDING"} \/ load = NaN \/ Less(load, 0) THEN 0 ELSE load

BatteryLow(defect, p, v) ==
  \/ Less(v.eBatPercent, p.smart.minEBatPercent)
  \/ defect /\ v.eBatPercent = p.smart.minEBatPercent /\ v.eBatPercent # NaN

PvPower(v) == Plus(v.pPvSouthWatt, v.pPvEastWestWatt)

NotNeeded(p, v) ==
  Plus(Plus(PvPower(v), v.pBatWatt),
       Minus(Plus(Plus(v.pHeatSystemWatt, v.pOthersWatt), BatteryLoad(p, v))))

Reserve(p) == IF Less(250, p.smart.minWatts) THEN p.smart.minWatts ELSE 250

FilterInput(defect, p, v, rv) ==
  IF defect
  THEN Plus(NotNeeded(p, v), Minus(Plus(Reserve(p), rv)))
  ELSE Minus(Plus(Plus(v.pGridWatt, v.pBatWatt), BatteryLoad(p, v)))

TestStep(v) ==
  LET diff == Minus(Plus(v.pPvSouthWatt, v.pBatWatt))
      step(n, limit) == IF n > limit THEN limit ELSE n
  IN  IF diff = NaN THEN NaN
      ELSE IF diff >= 0 THEN step(Div(diff, 20), 10)
      ELSE 0 - step(Div(0 - diff, 10), 20)

ChargingStep(p, v, level) ==
  IF p.smart.minEBatPercent = 1 THEN TestStep(v)
  ELSE FirstOf(<< <<Less(200, v.pGridWatt), -20>>, <<Less(100, v.pGridWatt), -5>>,
                  <<Less(200, level), 10>>, <<Less(level, -200), -100>>,
                  <<Less(30, level), 5>>, <<Less(level, -30), -10>>,
                  <<Less(10, v.pGridWatt), -5>>, <<TRUE, 0>> >>)

FullStep(v) ==
  FirstOf(<< <<Less(300, v.pGridWatt) \/ Less(300, v.pBatWatt), -50>>,
             <<Less(100, v.pGridWatt) \/ Less(100, v.pBatWatt), -25>>,
             <<Less(0, v.pGridWatt), -5>>, <<Less(-20, v.pGridWatt), -1>>,
             <<Less(v.pGridWatt, -40), 1>>, <<TRUE, 0>> >>)

HoldingStep(v) ==
  FirstOf(<< <<Less(300, v.pGridWatt), -50>>, <<Less(100, v.pGridWatt), -10>>,
             <<Less(10, v.pGridWatt), -5>>, <<Less(v.pGridWatt, -10), 5>>, <<TRUE, 0>> >>)

SmartStep(p, v, level) ==
  CASE v.batState \in {"CHARGING", "DISCHARGING"} -> ChargingStep(p, v, level)
    [] v.batState = "FULL"                        -> FullStep(v)
    [] v.batState \in {"HOLDING", "CALIBRATING"}  -> HoldingStep(v)
    [] v.batState = "UNKNOWN"                     -> -100

DefectStep(level) == FirstOf(<< <<Less(level, 0), -100>>, <<Less(100, level), 100>>, <<TRUE, 0>> >>)

\* Mutants of SmartModeSetpoint: without the limits; holding the setpoint while the state
\* of the battery is unknown.
SmartModeUnlimited(defect, p, v, rv, level) ==
  IF BatteryLow(defect, p, v) THEN 0 ELSE Plus(rv, SmartStep(p, v, level))

SmartModeHolds(defect, p, v, rv, level) ==
  IF v.batState = "UNKNOWN" THEN rv
  ELSE IF BatteryLow(defect, p, v) THEN 0
  ELSE Clamped(Plus(rv, SmartStep(p, v, level)), p.smart.minWatts, p.smart.maxWatts)

SmartModeSetpoint(defect, p, v, rv, level) ==
  IF BatteryLow(defect, p, v) THEN 0
  ELSE IF defect THEN Clamped(Plus(rv, DefectStep(level)), 0, p.smart.maxWatts)
  ELSE Clamped(Plus(rv, SmartStep(p, v, level)), p.smart.minWatts, p.smart.maxWatts)

(***************************************************************************)
(* The pairs of setpoint and filter value that a call may leave.  Test     *)
(* mode clears the setpoint, and the caller overwrites it with rv.         *)
(***************************************************************************)
CalcSetpointPower(defect, p, values, setpoint, level) ==
  LET v  == ValuesOrZero(values)
      rv == Usable(setpoint)
  IN  CASE p.mode = "off"   -> {<<0, level>>}
        [] p.mode = "on"    -> {<<2000, level>>}
        [] p.mode = "power" -> {<<PowerModeSetpoint(p, rv), level>>}
        [] p.mode = "smart" ->
             {<<SmartModeSetpoint(defect, p, v, rv, l), l>> :
                l \in IF BatteryLow(defect, p, v) THEN {level}
                       ELSE Filtered(level, FilterInput(defect, p, v, rv))}
        [] p.mode \in {"test", "shutdown"} -> {<<rv, level>>}
=============================================================================
