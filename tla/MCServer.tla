------------------------------ MODULE MCServer ------------------------------
(***************************************************************************)
(* Server for TLC.  The meter reports 2500 W all the time, whatever the    *)
(* setpoint, so that every second counts; the setpoint is always 0 W, it   *)
(* has a run of its own.                                                   *)
(***************************************************************************)
EXTENDS Server

MCConfig ==
  [mode |-> "off", desiredWatts |-> Number(0), minWatts |-> Absent, maxWatts |-> Absent,
   smart |-> [minEBatPercent |-> Number(20), minWatts |-> Number(0), maxWatts |-> Number(1500),
              minPBatLoadWatts |-> Absent]]

MCQueries ==
  {[createdAt |-> Text(0), eBatPercent |-> Text(50), pBatWatt |-> Absent, pGridWatt |-> Absent,
    pPvSouthWatt |-> Absent, pPvEastWestWatt |-> Absent, pHeatSystemWatt |-> Absent,
    pOthersWatt |-> Absent, batState |-> "FULL"]}
=============================================================================
