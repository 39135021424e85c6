------------------------ MODULE HotWaterController ------------------------
(***************************************************************************)
(* HotWaterController, the server's picture of the heater: what it makes   *)
(* of a power before it writes the register, and of the registers it       *)
(* reads.  Pure functions; sending is part of the module Controller.       *)
(*                                                                         *)
(* Units: watts for a setpoint, tenths of a watt in the power table and    *)
(* for a measured power, hundredths of a milliampere for a current.        *)
(***************************************************************************)
EXTENDS DataRecords, Sequences

CONSTANT Infinity   \* 1 / 0

\* The power of the heater at 6, 7, ... 20 mA.
PowerTable == <<28, 57, 260, 480, 1220, 2570, 4600, 7160, 10450, 12920,
                15530, 17300, 18700, 19350, 19500>>

PowerAt(mA) == PowerTable[mA - 5]

FullPower == PowerAt(20)

(***************************************************************************)
(* powerWattsToCurrentMilliAmps: interpolated in the first section of the  *)
(* table that holds the power.                                             *)
(***************************************************************************)
PowerWattsToCurrent(watts) ==
  IF watts = NaN THEN 0
  ELSE IF 10 * watts <= PowerAt(6) THEN 0
  ELSE IF 10 * watts >= FullPower THEN 2000
  ELSE LET section == CHOOSE i \in 6..19 :
                        /\ 10 * watts \in PowerAt(i)..PowerAt(i + 1)
                        /\ \A j \in 6..(i - 1) : 10 * watts > PowerAt(j + 1)
       IN  100 * section + Div(100 * (10 * watts - PowerAt(section)),
                               PowerAt(section + 1) - PowerAt(section))

\* Mutant of SetpointRegister: hundredths of a milliampere taken for milliamperes.
RegisterUnscaled(watts) == 2048 * PowerWattsToCurrent(watts)

\* writeActivePower: the register counts 1/2048 mA, its fraction is cut off.
SetpointRegister(watts) == (2048 * PowerWattsToCurrent(watts)) \div 100

\* What the heater takes at a setpoint register, in tenths of a watt.
HeaterPower(register) ==
  LET mA == register \div 2048 IN
  IF mA < 6 THEN 0
  ELSE IF mA >= 20 THEN FullPower
  ELSE PowerAt(mA) + ((PowerAt(mA + 1) - PowerAt(mA)) * (register % 2048)) \div 2048

(***************************************************************************)
(* readHoldRegister: register 3 holds the milliseconds between two pulses  *)
(* of the energy meter, 4000 pulses make one kWh, and 65535 means none.    *)
(***************************************************************************)
ActivePower(timer) ==
  IF timer = 65535 THEN 0
  ELSE IF timer = 0 THEN Infinity
  ELSE Div(9000000, timer)
=============================================================================
