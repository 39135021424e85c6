---------------------------- MODULE DataRecords ----------------------------
(***************************************************************************)
(* What the server accepts from outside: the number parser of              *)
(* DataRecord, and the records that are built from the body of             *)
(* POST /controller/parameter, from the query of GET /monitor, from the    *)
(* configuration and from a temporary file.                                *)
(*                                                                         *)
(* A datum is a JavaScript value: its type and, for a number or a string,  *)
(* the number it converts to (NaN for "abc").  Dates, names and wording    *)
(* are left out.                                                           *)
(***************************************************************************)
EXTENDS Integers

CONSTANTS NaN,        \* the number that no comparison holds for
          Rejected,   \* the constructor throws
          Unlimited   \* no upper limit

ASSUME NotNumbers == NaN \notin Int /\ Rejected \notin Int /\ Unlimited \notin Int /\ NaN # Rejected

Number(n) == [type |-> "number", value |-> n]
Text(n)   == [type |-> "string", value |-> n]
Null      == [type |-> "object", value |-> NaN]
Absent    == [type |-> "undefined", value |-> NaN]

Numbers == Int \cup {NaN}
Data    == [type : {"number", "string", "object", "undefined"}, value : Numbers]

(***************************************************************************)
(* Arithmetic of JavaScript on integers and NaN.                           *)
(***************************************************************************)
Less(a, b) == a # NaN /\ b # NaN /\ a < b
Plus(a, b) == IF a = NaN \/ b = NaN THEN NaN ELSE a + b
Minus(a)   == IF a = NaN THEN NaN ELSE 0 - a
Div(a, b)  == (2 * a + b) \div (2 * b)   \* Math.round(a / b) for b > 0

(***************************************************************************)
(* DataRecord.parseNumber, with the options the program uses.  allowNull   *)
(* has no effect: a null is no number when line 27 is reached.             *)
(***************************************************************************)
ParseNumber(d, allowString, min, max) ==
  IF d.type # "number" /\ ~(allowString /\ d.type = "string") THEN Rejected
  ELSE IF d.value = NaN THEN NaN
  ELSE IF min # Unlimited /\ d.value < min THEN Rejected
  ELSE IF max # Unlimited /\ d.value > max THEN Rejected
  ELSE d.value

AnyRejected(r) == \E a \in DOMAIN r : r[a] = Rejected

BatStates == {"FULL", "CHARGING", "DISCHARGING", "HOLDING", "CALIBRATING", "UNKNOWN"}

\* DataRecord.parseString with a list of allowed values and a default.
ParseBatState(s) == IF s \in BatStates THEN s ELSE "UNKNOWN"

Modes == {"off", "on", "power", "smart", "test", "shutdown"}

\* DataRecord.parseEnum
ParseMode(s) == IF s \in Modes THEN s ELSE Rejected

\* What a client or a configuration may hold.
SmartBodies == [minEBatPercent : Data, minWatts : Data, maxWatts : Data, minPBatLoadWatts : Data]

Bodies == [mode : STRING, desiredWatts : Data, minWatts : Data, maxWatts : Data, smart : SmartBodies]

QueryData == [createdAt : Data, eBatPercent : Data, pBatWatt : Data, pGridWatt : Data,
              pPvSouthWatt : Data, pPvEastWestWatt : Data, pHeatSystemWatt : Data,
              pOthersWatt : Data, batState : STRING]

(***************************************************************************)
(* new SmartModeParameter(data): minPBatLoadWatts may be missing.          *)
(***************************************************************************)
SmartModeParameter(data) ==
  LET r == [minEBatPercent   |-> ParseNumber(data.minEBatPercent, TRUE, 0, 100),
            minWatts         |-> ParseNumber(data.minWatts, TRUE, 0, 2500),
            maxWatts         |-> ParseNumber(data.maxWatts, TRUE, 0, 2500),
            minPBatLoadWatts |-> IF data.minPBatLoadWatts = Absent THEN 0
                                 ELSE ParseNumber(data.minPBatLoadWatts, TRUE, 0, 2500)]
  IN  IF AnyRejected(r) THEN Rejected ELSE r

(***************************************************************************)
(* new ControllerParameter(data): minWatts and maxWatts may be missing; a  *)
(* value beyond the limits of the heater, or NaN, is replaced.             *)
(***************************************************************************)
Limited(d, limit, default) ==
  LET n == IF d = Absent THEN NaN ELSE ParseNumber(d, TRUE, 0, Unlimited) IN
  IF n = Rejected THEN Rejected
  ELSE IF n = NaN THEN default
  ELSE IF n > limit THEN default ELSE n

ControllerParameter(data) ==
  LET r == [mode         |-> ParseMode(data.mode),
            desiredWatts |-> ParseNumber(data.desiredWatts, TRUE, 0, Unlimited),
            minWatts     |-> Limited(data.minWatts, 2000, 0),
            maxWatts     |-> Limited(data.maxWatts, 2500, 2500),
            smart        |-> SmartModeParameter(data.smart)]
  IN  IF AnyRejected(r) THEN Rejected ELSE r

(***************************************************************************)
(* new SmartModeValues(data).  createdAt is a time or Absent; a time that  *)
(* is 0 or NaN is falsy and rejected by parseDate.                         *)
(***************************************************************************)
SmartModeValues(data) ==
  LET watts(d) == ParseNumber(d, TRUE, Unlimited, Unlimited)
      r == [createdAt       |-> IF data.createdAt = NaN THEN Rejected ELSE data.createdAt,
            eBatPercent     |-> ParseNumber(data.eBatPercent, TRUE, 0, 100),
            pBatWatt        |-> watts(data.pBatWatt),
            pGridWatt       |-> watts(data.pGridWatt),
            pPvSouthWatt    |-> watts(data.pPvSouthWatt),
            pPvEastWestWatt |-> watts(data.pPvEastWestWatt),
            pHeatSystemWatt |-> watts(data.pHeatSystemWatt),
            pOthersWatt     |-> watts(data.pOthersWatt),
            batState        |-> ParseBatState(data.batState)]
  IN  IF AnyRejected(r) THEN Rejected ELSE r

(***************************************************************************)
(* new ControllerStatus(data): without values for the smart mode there is  *)
(* no status (toObject() of null), and a negative setpoint is refused.     *)
(***************************************************************************)
ControllerStatus(data) ==
  LET r == [data EXCEPT !.setpointPower = ParseNumber(Number(data.setpointPower), FALSE, 0, Unlimited)]
  IN  IF r.smartModeValues = Null \/ AnyRejected(r) THEN Rejected ELSE r

\* The numbers of the accepted values that the computation of the setpoint uses.
Sound(v) ==
  /\ {v.eBatPercent, v.pBatWatt, v.pGridWatt, v.pPvSouthWatt, v.pPvEastWestWatt,
      v.pHeatSystemWatt, v.pOthersWatt} \subseteq Numbers
  /\ v.batState \in BatStates

\* What a number is after it was written to a file and read again: NaN becomes null.
Reread(n) == IF n = NaN THEN Null ELSE Number(n)

RereadValues(v) ==
  [a \in DOMAIN v |-> IF a \in {"createdAt", "batState"} THEN v[a] ELSE Reread(v[a])]

RereadParameter(p) ==
  [a \in DOMAIN p |-> CASE a = "mode"  -> p.mode
                        [] a = "smart" -> [b \in DOMAIN p.smart |-> Reread(p.smart[b])]
                        [] OTHER       -> Reread(p[a])]

(***************************************************************************)
(* Router.getMonitor fills in what a query leaves out, except the charge   *)
(* of the battery: without it the constructor above throws.                *)
(***************************************************************************)
OrZero(d) == IF d = Absent THEN Text(0) ELSE d

CompletedQuery(q, now) ==
  [createdAt       |-> IF q.createdAt = Absent THEN now ELSE q.createdAt.value,
   eBatPercent     |-> IF q.eBatPercent = Absent THEN Null ELSE q.eBatPercent,
   pBatWatt        |-> OrZero(q.pBatWatt),
   pGridWatt       |-> OrZero(q.pGridWatt),
   pPvSouthWatt    |-> OrZero(q.pPvSouthWatt),
   pPvEastWestWatt |-> OrZero(q.pPvEastWestWatt),
   pHeatSystemWatt |-> OrZero(q.pHeatSystemWatt),
   pOthersWatt     |-> OrZero(q.pOthersWatt),
   batState        |-> q.batState]
=============================================================================
