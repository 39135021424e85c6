------------------------------- MODULE Server -------------------------------
(***************************************************************************)
(* The life of the server process around its Controller: startup, the      *)
(* Monitor that saves the energy in temporary files and restores it,       *)
(* shutdown on SIGINT, and a crash at any time.                            *)
(*                                                                         *)
(* Files survive, the heater goes on with its last setpoint, everything    *)
(* else is gone with the process.                                          *)
(***************************************************************************)
EXTENDS Controller

CONSTANTS Backups,     \* config.monitor.tempFile.backups
          MaxStarts    \* bound: starts of the process

ASSUME BackupsAssumption == Backups \in Nat \ {0}

ASSUME LivesAssumption == MaxStarts \in Nat

VARIABLES
  phase,         \* "down", "opening" the serial port, or "running"
  monitoring,    \* the timer of the Monitor is set
  files,         \* the temporary files, by index
  lastTempCnt,
  saving,        \* the saves under way, [index, number, record, opened]
  stopping,      \* a SIGINT was caught: shutdowns are under way
  gpioUsed,      \* the first shutdown found the GPIO driver loaded, by the reset of a device
  \* history
  starts,
  latest,        \* when the newest save was begun
  saved,         \* the newest record that was completely written
  count,         \* saves that this run of the process has begun
  kept,          \* the number of the newest of them that was completed, or 0
  cut            \* no save was completed since a run ended UnderFirst or ComeRound

fileVars    == <<files, lastTempCnt, saving>>
historyVars == <<latest, saved, count, kept, cut>>
processVars == <<phase, monitoring, stopping, gpioUsed, starts>>
serverVars  == <<processVars, fileVars, historyVars>>
allVars     == <<vars, serverVars>>

Indices == 0..(Backups - 1)

\* A file that does not exist, and one that was opened for writing and not completed.
AbsentFile == [content |-> "absent"]
Torn       == [content |-> "torn"]

Empty == [content |-> "none", at |-> 0, energyDaily |-> 0, energyTotal |-> 0]

ServerInit ==
  /\ Fresh
  /\ running = FALSE /\ heater = 0 /\ inStep = FALSE /\ now = 0
  /\ phase = "down" /\ monitoring = FALSE /\ stopping = FALSE /\ gpioUsed = FALSE /\ starts = 0
  /\ files = [i \in Indices |-> AbsentFile] /\ lastTempCnt = 0 /\ saving = {}
  /\ latest = 0 /\ saved = Empty /\ count = 0 /\ kept = 0 /\ cut = FALSE

(***************************************************************************)
(* doStartup: the serial port is opened first.                             *)
(***************************************************************************)
Boot ==
  /\ phase = "down"
  /\ starts < MaxStarts
  /\ starts' = starts + 1
  /\ phase' = "opening"
  /\ UNCHANGED <<vars, monitoring, stopping, gpioUsed, fileVars, historyVars>>

(***************************************************************************)
(* The rest of the startup awaits nothing that could let another event in: *)
(* Controller.createInstance and start, Monitor.init, Server.start.        *)
(***************************************************************************)
Readable == {i \in Indices : files[i].content = "complete"}

Newest == CHOOSE i \in Readable : \A j \in Readable : files[j].at <= files[i].at

\* NaN is null in a file.  null >= 0 holds, so the code takes it over; the refresh that
\* comes next computes with 0 instead.
Restorable(setpoint) == IF setpoint \in 0..2000 THEN setpoint ELSE 0

\* ctrl.setSmartModeValues, setSetpointPower and setParameter, which starts a refresh;
\* the first that throws ends it.
RestoreControl(file) ==
  LET values == SmartModeValues(RereadValues(file.smartModeValues))
      p      == ControllerParameter(RereadParameter(file.parameter))
  IN  IF values = Rejected
      THEN UNCHANGED <<inputVars, outputVars, requests>>
      ELSE IF p = Rejected
      THEN /\ smartModeValues' = values
           /\ setpointPower' = Restorable(file.setpointPower)
           /\ UNCHANGED <<parameter, mode, availPower, requests>>
      ELSE RefreshWith(p, values, Restorable(file.setpointPower))

RestoreEnergy(file) ==
  /\ energyTotal' = file.energyTotal
  /\ IF Day(file.at) = Day(now)
     THEN energyDaily' = file.energyDaily /\ lastRefresh' = [at |-> file.at, activePower |-> 0]
     ELSE UNCHANGED <<energyDaily, lastRefresh>>

StartupFinishes ==
  /\ phase = "opening"
  /\ phase' = "running"
  /\ running' = TRUE
  /\ monitoring' = TRUE
  /\ IF Readable = {}
     THEN UNCHANGED <<inputVars, outputVars, energyVars, requests>>
     ELSE /\ RestoreControl(files[Newest])
          /\ RestoreEnergy(files[Newest])
          /\ UNCHANGED activePower
  /\ UNCHANGED <<heater, inStep, now, stopping, gpioUsed, starts, fileVars, historyVars>>

(***************************************************************************)
(* Monitor.refresh and saveTemp.  Without a status there is no record; the *)
(* energy is rounded to 0.01 Wh and to Wh.                                 *)
(***************************************************************************)
Status ==
  ControllerStatus([parameter       |-> parameter,
                    mode            |-> mode,
                    smartModeValues |-> IF smartModeValues = NoValues THEN Null ELSE smartModeValues,
                    setpointPower   |-> setpointPower])

TempFileRecord ==
  [content         |-> "complete",
   at              |-> now,
   energyDaily     |-> 720 * Div(energyDaily, 720),
   energyTotal     |-> 72000 * Div(energyTotal, 72000),
   parameter       |-> parameter,
   smartModeValues |-> smartModeValues,
   setpointPower   |-> setpointPower]

\* Mutants of NextIndex: no modulo; always the same file.
IndexNotWrapped == lastTempCnt + 1

SameIndex == 0

NextIndex == (lastTempCnt + 1) % Backups

\* The polling period is longer than a second.  Bound: a save takes no longer than the
\* rotation, that is, its file does not come round while it is under way.
SaveTemp ==
  /\ monitoring
  /\ latest < now
  /\ \A s \in saving : s.index # NextIndex
  /\ Status # Rejected
  /\ lastTempCnt' = NextIndex
  /\ saving' = saving \cup {[index  |-> NextIndex,      number |-> count + 1,
                              record |-> TempFileRecord, opened |-> FALSE]}
  /\ count' = count + 1
  /\ latest' = now
  /\ UNCHANGED <<vars, processVars, files, saved, kept, cut>>

\* fs.writeFile opens the file, which empties it, and writes.
SaveOpens(s) ==
  /\ ~s.opened
  /\ saving' = (saving \ {s}) \cup {[s EXCEPT !.opened = TRUE]}
  /\ files' = [files EXCEPT ![s.index] = Torn]
  /\ UNCHANGED <<vars, processVars, lastTempCnt, historyVars>>

\* A save may be overtaken by a newer one.
SaveCompletes(s) ==
  /\ s.opened
  /\ saving' = saving \ {s}
  /\ files' = [files EXCEPT ![s.index] = s.record]
  /\ IF s.number > kept THEN saved' = s.record /\ kept' = s.number
                        ELSE UNCHANGED <<saved, kept>>
  /\ cut' = FALSE
  /\ UNCHANGED <<vars, processVars, lastTempCnt, latest, count>>

\* The file cannot be opened, or the disk is full: the error is logged, the file stays as
\* it is.
SaveFails(s) ==
  /\ saving' = saving \ {s}
  /\ UNCHANGED <<vars, processVars, files, lastTempCnt, historyVars>>

\* What the next process finds in the constructor of its Controller.
NothingKept ==
  /\ parameter' = StartParameter
  /\ mode' = parameter'.mode
  /\ smartModeValues' = NoValues
  /\ setpointPower' = 0
  /\ availPower' = 0
  /\ activePower' = 0
  /\ energyDaily' = 0
  /\ energyTotal' = 0
  /\ lastRefresh' = Never
  /\ requests' = <<>>

(***************************************************************************)
(* The process ends: by process.exit, a kill, or the power.  There are two *)
(* ways to end that may leave no file with the newest save.  Either this   *)
(* run has begun saves and completed none, because it was killed or they   *)
(* failed: it started at the same index as every run, which may be that of *)
(* the newest save.  Or the rotation has come round since the last save    *)
(* that was completed, as all that followed failed, on a full disk, or     *)
(* were still under way.                                                   *)
(***************************************************************************)
UnderFirst == count > 0 /\ kept = 0
ComeRound  == count - kept >= Backups

Ends ==
  /\ phase' = "down"
  /\ NothingKept
  /\ running' = FALSE
  /\ monitoring' = FALSE
  /\ stopping' = FALSE
  /\ saving' = {}
  /\ cut' = (cut \/ UnderFirst \/ ComeRound)
  /\ inStep' = FALSE
  /\ count' = 0
  /\ kept' = 0
  /\ lastTempCnt' = 0
  /\ gpioUsed' = FALSE
  /\ UNCHANGED <<heater, now, files, starts, latest, saved>>

Crash == phase # "down" /\ Ends

(***************************************************************************)
(* shutdown() in main.  Controller, web server, Monitor and serial port    *)
(* are left without an await that lets another event in; Gpio.shutdown     *)
(* settles only if the reset of a device has loaded the driver, which is   *)
(* chosen when it matters.  A second SIGINT begins a second shutdown,      *)
(* which finds the controller and the Monitor stopped: what the first one  *)
(* throws is caught, and the process now has two timers to end it.         *)
(***************************************************************************)
Interrupt ==
  /\ phase = "running"
  /\ stopping' = TRUE
  /\ gpioUsed' \in IF stopping THEN {gpioUsed} ELSE BOOLEAN
  /\ IF running THEN Shutdown ELSE UNCHANGED vars
  /\ monitoring' = FALSE
  /\ UNCHANGED <<phase, starts, fileVars, historyVars>>

GpioShutdown == stopping /\ gpioUsed /\ Ends

\* Mutant of ShutdownTimeout: the shutdown has no timer.
AwaitsGpio == GpioShutdown

ShutdownTimeout == stopping /\ Ends

(***************************************************************************)
(* Steps of the Controller while the process runs, and of the clock.       *)
(***************************************************************************)
ControllerStep ==
  /\ phase = "running"
  /\ \/ TimerFires
     \/ \E p \in Accepted : PostParameter(p)
     \/ \E query \in Queries : GetMonitor(query)
     \/ WriteAnswered
     \/ \E timer \in Timers : ReadAnswered(timer)
     \/ RequestFails
  /\ UNCHANGED serverVars

ServerNext ==
  \/ Boot
  \/ StartupFinishes
  \/ ControllerStep
  \/ SaveTemp
  \/ \E s \in saving : SaveOpens(s) \/ SaveCompletes(s) \/ SaveFails(s)
  \/ Crash
  \/ Interrupt
  \/ GpioShutdown
  \/ ShutdownTimeout
  \/ Tick /\ UNCHANGED serverVars

\* The timer of the shutdown fires.
ServerSpec == ServerInit /\ [][ServerNext]_allVars /\ WF_allVars(ShutdownTimeout)

-----------------------------------------------------------------------------
(***************************************************************************)
(* Properties.                                                             *)
(***************************************************************************)
\* The variables keep their types; a file whose save has opened it is torn, and no two saves
\* write the same file.
ServerTypeOK ==
  /\ phase \in {"down", "opening", "running"}
  /\ running => phase = "running"
  /\ monitoring <=> running
  /\ lastTempCnt \in Indices
  /\ \A i \in Readable : files[i].at <= now /\ files[i].energyTotal % 72000 = 0
  /\ \A s \in saving : s.opened => files[s.index] = Torn
  /\ \A s, t \in saving : s # t => s.index # t.index
  /\ stopping \in BOOLEAN /\ gpioUsed \in BOOLEAN
  /\ kept \in 0..count
  /\ energyTotal >= 0 /\ energyDaily >= 0

\* The total keeps up with the newest save that was completed, but for the rounding, in
\* whichever run that was, however saves overtake each other, fail or are torn, and
\* wherever a run ends, with two exceptions.  If a run ends that has begun saves and
\* completed none, or that has begun as many as there are files since the last one it
\* completed, the newest save may have been overwritten (a full disk, or a kill during the
\* first save), and nothing is said until another save is completed.
NothingLost == phase = "running" /\ ~cut => energyTotal >= saved.energyTotal - 36000

\* However refreshes overlap and fail, no time is counted twice, nor after a restart: the
\* total is at most full power since the first start and half a Wh a start for rounding.
CountedOnce == energyTotal <= 50000 * now + 36000 * starts

\* A shutdown ends the process, also if Gpio.shutdown never settles or SIGINT comes again.
ShutdownEnds == stopping ~> phase = "down"
=============================================================================
