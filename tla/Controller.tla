----------------------------- MODULE Controller -----------------------------
(***************************************************************************)
(* The Controller of the server with the requests that reach it: the timer *)
(* refreshes it every second, POST /controller/parameter refreshes it too, *)
(* and GET /monitor brings the values for the smart mode.                  *)
(*                                                                         *)
(* A refresh computes the setpoint, writes it to the heater, awaits the    *)
(* answer, reads the energy meter, awaits that, and adds up the energy.    *)
(* Nothing keeps two refreshes apart: each that is under way waits for one *)
(* request of the Modbus master, which handles them in the order sent.     *)
(***************************************************************************)
EXTENDS SetpointPower, HotWaterController

CONSTANTS Config,        \* the parameter of the configuration
          MeterDefect,   \* config.froniusMeterDefect === true
          Readings,      \* bound: values that RaisesSlowly tries
          Requests,      \* bodies of POST /controller/parameter
          Queries,       \* queries of GET /monitor
          Timers,        \* what register 3 of the heater may hold
          MaxAge,        \* 60 s: smart mode values live as long
          MaxGap,        \* 10 s: longest time energy is added up for
          DayLength,     \* seconds of a day
          MaxRefreshes,  \* bound: refreshes under way
          MaxTime,       \* bound: last second
          Never          \* _lastRefresh is undefined

StartParameter == ControllerParameter(Config)

\* What setParameter makes of a body; one that it rejects changes nothing.
Accepted == {ControllerParameter(body) : body \in Requests} \ {Rejected}

ASSUME ConfigAccepted == StartParameter # Rejected

ASSUME InputsAssumption ==
  /\ Config \in Bodies /\ Requests \subseteq Bodies /\ Queries \subseteq QueryData
  /\ \A v \in Readings : Sound(v)
  /\ MeterDefect \in BOOLEAN

ASSUME BoundsAssumption ==
  /\ MaxRefreshes \in Nat /\ MaxTime \in Nat /\ Timers \subseteq Nat
  /\ NoValues # Rejected

VARIABLES
  parameter, mode, smartModeValues, setpointPower,
  availPower,       \* _availPowerFilter
  activePower, energyDaily, energyTotal, lastRefresh,
  running,          \* _timer is set
  requests,         \* the Modbus requests that refreshes await
  heater,           \* the setpoint register of the heater
  inStep,           \* the last write was answered and nothing failed since
  now

inputVars  == <<parameter, smartModeValues>>
outputVars == <<mode, setpointPower, availPower>>
energyVars == <<activePower, energyDaily, energyTotal, lastRefresh>>
lineVars   == <<requests, heater, inStep>>
vars == <<inputVars, outputVars, energyVars, lineVars, running, now>>

Write(watts) == [op |-> "write", register |-> SetpointRegister(watts)]
Read         == [op |-> "read", register |-> 0]

Day(t) == t \div DayLength

(***************************************************************************)
(* new Controller(), then start().                                         *)
(***************************************************************************)
Fresh ==
  /\ parameter = StartParameter
  /\ mode = parameter.mode
  /\ smartModeValues = NoValues
  /\ setpointPower = 0
  /\ availPower = 0
  /\ activePower = 0
  /\ energyDaily = 0
  /\ energyTotal = 0
  /\ lastRefresh = Never
  /\ requests = <<>>

Init == Fresh /\ running = TRUE /\ heater = 0 /\ inStep = FALSE /\ now = 0

(***************************************************************************)
(* refresh() up to its first await, from the parameter and the values that *)
(* are current then.                                                       *)
(***************************************************************************)
\* Mutant of Current: values never grow old.
NeverStale(values) == values

Current(values) ==
  IF values # NoValues /\ now - values.createdAt > MaxAge THEN NoValues ELSE values

ModeAfter(p) == IF p.mode = "shutdown" THEN mode ELSE p.mode

\* Mutant of RefreshWith: writes the setpoint before it computes the new one.
RefreshWritesFirst(p, values, setpoint) ==
  LET v == Current(values) IN
  \E result \in CalcSetpointPower(MeterDefect, p, v, setpoint, availPower) :
    /\ parameter' = p
    /\ smartModeValues' = v
    /\ mode' = ModeAfter(p)
    /\ setpointPower' = result[1]
    /\ availPower' = result[2]
    /\ requests' = Append(requests, Write(setpoint))

RefreshWith(p, values, setpoint) ==
  LET v == Current(values) IN
  \E result \in CalcSetpointPower(MeterDefect, p, v, setpoint, availPower) :
    /\ parameter' = p
    /\ smartModeValues' = v
    /\ mode' = ModeAfter(p)
    /\ setpointPower' = result[1]
    /\ availPower' = result[2]
    /\ requests' = Append(requests, Write(result[1]))

MayRefresh == Len(requests) < MaxRefreshes

\* Mutant of TimerFires: nothing to do while the heater is to be off.
TimerUnlessOff ==
  /\ running /\ MayRefresh /\ parameter.mode # "off"
  /\ RefreshWith(parameter, smartModeValues, setpointPower)
  /\ UNCHANGED <<energyVars, running, heater, inStep, now>>

\* handleTimer
TimerFires ==
  /\ running
  /\ MayRefresh
  /\ RefreshWith(parameter, smartModeValues, setpointPower)
  /\ UNCHANGED <<energyVars, running, heater, inStep, now>>

\* Router.postControllerParameter and setParameter.
PostParameter(p) ==
  /\ MayRefresh
  /\ RefreshWith(p, smartModeValues, setpointPower)
  /\ UNCHANGED <<energyVars, running, heater, inStep, now>>

\* Router.getMonitor with a query, setSmartModeValues.
GetMonitor(query) ==
  LET values == SmartModeValues(CompletedQuery(query, now)) IN
  /\ values # Rejected
  /\ smartModeValues' = values
  /\ UNCHANGED <<parameter, outputVars, energyVars, lineVars, running, now>>

(***************************************************************************)
(* The answer of the heater, and what the refresh that awaits it does.     *)
(***************************************************************************)
WriteAnswered ==
  /\ requests # <<>>
  /\ Head(requests).op = "write"
  /\ heater' = Head(requests).register
  /\ inStep' = TRUE
  /\ requests' = Append(Tail(requests), Read)
  /\ UNCHANGED <<inputVars, outputVars, energyVars, running, now>>

Plausible(power) ==
  IF power = Infinity THEN 0 ELSE IF 0 <= power /\ power <= 25000 THEN power ELSE 0

\* Twice the energy, in tenths of a watt second: the mean of two powers times a time.
Energy(power) ==
  LET dt == now - lastRefresh.at IN
  IF dt > MaxGap THEN 0 ELSE (power + lastRefresh.activePower) * dt

\* Mutant of ReadAnswered: the time of the last refresh is kept once it is set.
ReadKeepsTime(timer) ==
  LET power == Plausible(ActivePower(timer)) IN
  /\ requests # <<>> /\ Head(requests).op = "read"
  /\ activePower' = power
  /\ IF lastRefresh = Never
     THEN lastRefresh' = [at |-> now, activePower |-> power] /\ UNCHANGED <<energyDaily, energyTotal>>
     ELSE /\ energyTotal' = energyTotal + Energy(power)
          /\ energyDaily' = energyDaily + Energy(power)
          /\ UNCHANGED lastRefresh
  /\ requests' = Tail(requests)
  /\ UNCHANGED <<inputVars, outputVars, heater, inStep, running, now>>

ReadAnswered(timer) ==
  LET power == Plausible(ActivePower(timer)) IN
  /\ requests # <<>>
  /\ Head(requests).op = "read"
  /\ activePower' = power
  /\ IF lastRefresh = Never
     THEN UNCHANGED <<energyDaily, energyTotal>>
     ELSE /\ energyTotal' = energyTotal + Energy(power)
          /\ energyDaily' = Energy(power) +
               (IF Day(lastRefresh.at) # Day(now) THEN 0 ELSE energyDaily)
  /\ lastRefresh' = [at |-> now, activePower |-> power]
  /\ requests' = Tail(requests)
  /\ UNCHANGED <<inputVars, outputVars, heater, inStep, running, now>>

\* The refresh ends with the error.  The write may have reached the heater,
\* and a reset of the heater may have been part of the failure.
RequestFails ==
  /\ requests # <<>>
  /\ heater' \in {heater, 0} \cup (IF Head(requests).op = "write" THEN {Head(requests).register} ELSE {})
  /\ inStep' = FALSE
  /\ requests' = Tail(requests)
  /\ UNCHANGED <<inputVars, outputVars, energyVars, running, now>>

\* shutdown()
Shutdown ==
  /\ running
  /\ running' = FALSE
  /\ mode' = "shutdown"
  /\ UNCHANGED <<inputVars, setpointPower, availPower, energyVars, lineVars, now>>

Tick ==
  /\ now < MaxTime
  /\ now' = now + 1
  /\ UNCHANGED <<inputVars, outputVars, energyVars, lineVars, running>>

Next ==
  \/ TimerFires
  \/ \E p \in Accepted : PostParameter(p)
  \/ \E query \in Queries : GetMonitor(query)
  \/ WriteAnswered
  \/ \E timer \in Timers : ReadAnswered(timer)
  \/ RequestFails
  \/ Shutdown
  \/ Tick

(***************************************************************************)
(* The interval timer fires, a request settles, and a line that is tried   *)
(* over and over answers some time.                                        *)
(***************************************************************************)
Fairness ==
  /\ WF_vars(TimerFires)
  /\ WF_vars(WriteAnswered \/ RequestFails \/ \E timer \in Timers : ReadAnswered(timer))
  /\ SF_vars(WriteAnswered)

Spec == Init /\ [][Next]_vars /\ Fairness

-----------------------------------------------------------------------------
(***************************************************************************)
(* Properties.                                                             *)
(***************************************************************************)
\* The variables keep their types: setpoints are whole numbers or NaN, and no more
\* requests wait than refreshes are under way.
TypeOK ==
  /\ parameter \in Accepted \cup {StartParameter}
  /\ mode \in Modes
  /\ smartModeValues # Rejected
  /\ setpointPower \in 0..2500 \cup {NaN}
  /\ availPower \in Levels \cup {NaN}
  /\ activePower \in Nat /\ activePower <= 25000
  /\ energyDaily \in 0..energyTotal
  /\ lastRefresh = Never \/ lastRefresh.at <= now
  /\ Len(requests) <= MaxRefreshes
  /\ heater \in Nat /\ heater <= 40960
  /\ now \in 0..MaxTime

Writes == {i \in DOMAIN requests : requests[i].op = "write"}

Wanted == IF setpointPower = NaN THEN 0
          ELSE IF 10 * setpointPower > FullPower THEN FullPower
          ELSE IF setpointPower < 0 THEN 0 ELSE 10 * setpointPower

\* However the refreshes of the timer and of a POST interleave, an older setpoint never
\* overtakes a newer one: when no write is under way and the line has not failed since,
\* the heater takes the power of the newest setpoint, within 5 W.
HeaterFollows ==
  inStep /\ Writes = {} => HeaterPower(heater) - Wanted \in -50..50

\* Without values that are young enough smart mode never raises the setpoint, save to
\* its lower limit: a refresh looks at the age before it computes.
NoBlindIncrease ==
  [][requests' # requests /\ Len(requests') > Len(requests) /\ parameter'.mode = "smart"
      /\ (smartModeValues = NoValues \/ now - smartModeValues.createdAt > MaxAge)
     => \/ setpointPower' = NaN
        \/ ~Less(Usable(setpointPower), setpointPower')
        \/ setpointPower' = parameter'.smart.minWatts
        \/ Less(setpointPower', parameter'.smart.minWatts)]_vars

\* "Step slowly high to avoid power from grid": whatever the values say, with and
\* without the defect meter, a refresh in power or smart mode raises the setpoint by no
\* more than its step, or up to the lower limit, and never above the upper one.
Raised(p, defect) == IF p.mode = "power" THEN 25 ELSE IF defect THEN 100 ELSE 10

RaisesSlowly ==
  requests = <<>> /\ parameter.mode \in {"power", "smart"} /\ setpointPower # NaN =>
    LET limits == IF parameter.mode = "power" THEN parameter ELSE parameter.smart IN
    \A defect \in BOOLEAN, values \in Readings :
      \A result \in CalcSetpointPower(defect, parameter, values, setpointPower, availPower) :
        \/ result[1] = NaN
        \/ /\ result[1] <= limits.maxWatts
           /\ \/ result[1] <= setpointPower + Raised(parameter, defect)
              \/ result[1] <= limits.minWatts

\* Parameter "off" that stays gets through to the heater, even if requests fail now and
\* then and refreshes overlap, as long as the timer runs.
OffReachesHeater == <>[](running /\ parameter.mode = "off") => <>[](heater = 0)

\* Smart mode that gets no values any more falls to its lower limit.
StarvedSmartModeFalls ==
  <>[](running /\ parameter.mode = "smart" /\ smartModeValues = NoValues)
    => <>[](setpointPower = NaN \/ setpointPower <= parameter.smart.minWatts)
=============================================================================
