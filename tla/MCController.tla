---------------------------- MODULE MCController ----------------------------
(***************************************************************************)
(* Instances of Controller for TLC.  Limits of a few watts keep the number *)
(* of setpoints small; times are in model seconds.                         *)
(***************************************************************************)
EXTENDS Controller

Body(m, desired, smartMax) ==
  [mode |-> m, desiredWatts |-> desired, minWatts |-> Absent, maxWatts |-> Number(50),
   smart |-> [minEBatPercent |-> Number(20), minWatts |-> Number(10), maxWatts |-> smartMax,
              minPBatLoadWatts |-> Absent]]

\* The power that is to be left to the battery is text that is no number.
SmartBody ==
  [Body("smart", Number(0), Number(20)) EXCEPT !.smart.minPBatLoadWatts = Text(NaN)]

Query(charge, grid, state) ==
  [createdAt |-> Absent, eBatPercent |-> charge, pBatWatt |-> Absent, pGridWatt |-> grid,
   pPvSouthWatt |-> Absent, pPvEastWestWatt |-> Absent, pHeatSystemWatt |-> Absent,
   pOthersWatt |-> Absent, batState |-> state]

MCConfig == Body("off", Number(0), Number(20))

MCRequests == {Body("off", Number(0), Number(20)), Body("power", Number(20), Number(20)),
               SmartBody, Body("power", Text(-1), Number(20)),
               Body("power", Text(NaN), Number(20))}

MCQueries == {Query(Text(50), Text(-300), "CHARGING"), Query(Text(10), Text(250), "HOLDING"),
              Query(Absent, Text(0), "FULL")}

MCReadings ==
  {[ValuesOrZero(NoValues) EXCEPT !.eBatPercent = 50, !.batState = s, !.pGridWatt = g, !.pPvSouthWatt = 900] :
     s \in BatStates, g \in {-300, -30, 50, 400}}
=============================================================================
