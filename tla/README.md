# Hot water controller: TLA+ models and proofs

The repository holds the software of a hot water controller: a Raspberry Pi
server (TypeScript, `software/rpi/hwc-server-ngx/server`), the firmware of the
ATmega324P board U1 that drives the heater (C, `software/atmega324p_u1/hwc_u1`),
its bootloader, and the tool that flashes it (`software/rpi/flashuc`).  This
directory models the parts of it that are hard to test, checks them with TLC on
small instances and proves the most important results with TLAPS.

Paths below are relative to `src/`; `SRV` is
`software/rpi/hwc-server-ngx/server/src`, `FW` is
`software/atmega324p_u1/hwc_u1/src`, `FL` is `software/rpi/flashuc/src`, `BL`
is `software/atmega324p_u1/bootloader_u1/src`.

## 1. The system

    browser / home automation
          | HTTP (express: SRV/server.ts, SRV/routers/router.ts)
    Controller  --- every second, and on POST: refresh() ----+
    Monitor     --- record, temp files, Statistics (CSV) ----|
          |                                                  |
    HotWaterController (proxy: write setpoint, read registers)
          |  send(request, timeout)
    ModbusSerial (queue, timers, echo, answer, reset of the target)
          |  RS485 line, the target echoes every byte       GPIO pin: reset
    U1 firmware: USART1 interrupt -> frame buffer -> main loop -> registers
    U1 bootloader <--- flashuc Serial (base64 commands over the same line)

| Component | State | Operations | Hard behaviour | Correct when |
|---|---|---|---|---|
| Modbus master `SRV/modbus/modbus-serial.ts`, `modbus-request.ts`, `gpio.ts` | job queue, two timers per request, error counter, lock, receive mode, nextTick queue, promises | open, close, send, write callback, data event, timeout, resetTargets, resetTarget | callbacks in any order, lost / garbled / late frames, ten errors in a row, reset that fails | every promise is settled, with the request's own answer; the queue never wedges; one reset at a time, callers locked out |
| Frames `modbus-ascii-frame.ts` | - | hex + LRC coding | alphabet, length, checksum | decode(encode(x)) = x |
| Proxy `hot-water-controller.ts` | last values | write setpoint, read registers | answer parsed after an await | values belong to one reading |
| Controller `SRV/controller.ts` | parameter, mode, setpoint, energies, last refresh | setParameter, refresh, timer, getStatus, shutdown | refreshes overlap at their awaits; stale smart mode values | setpoint in range, energy never counted twice, "off" reaches the heater |
| Monitor `SRV/monitor.ts` | rotation index, temp files | refresh, saveTemp, init | crash during an asynchronous write, a rotation that starts at the same index again | a restart finds the newest save that was completed |
| Statistics `SRV/statistics.ts` | current record, queue of lines | handleMonitorRecord, handleTimer, append | appends that overlap, a file created without its header | each record counts once, lines in order below one header |
| Start / stop `SRV/main.ts` | instances | startup in sequence, shutdown with limit | a step that never settles | the process ends, the line is closed |
| Firmware interrupts `FW/sys.c`, `FW/app.c`, `FW/main.c` | SREG.I, `sys.flags`, `sys.eventFlag` | main loop, USART1 and TIMER0 interrupts, setEvent, clearEvent | nested interrupts, critical sections with a shared saved flag | no event is lost, main never runs with interrupts off |
| Firmware Modbus `FW/modbus_ascii.c`, `FW/modbus.c` | buffer, index, error counters | byte, frame, read/write register | noise, truncated or overlong frames | only complete, checked frames are executed; buffer bounds |
| Bootloader `BL/bootloader_atmega324p.c` | channel, receive buffer, flash pages | commands w, r, x, b | commands misread on the line, page bounds | a page answered with 0 holds its bytes |
| Flash tool `FL/serial.ts`, `FL/devices/device.ts` | waiting queue, pending request, timer | send, reset, data, timeout | echo/answer out of order or missing, no timeouts | success is reported only for a flash that holds the program |
| Data records `ngx/src/app/data/common` | - | parse and validate | limits | accepted values are in range |

Section 6 names the parts that are not modelled.

## 2. Plan

| # | Module | Models | Composes / refines | Proved about it | State |
|---|---|---|---|---|---|
| 1 | `ModbusSerial` | the master | implements `RequestService` | types, no forgotten caller, queue never wedges; on a line that loses frames it implements the service | done |
| 2 | `SysEvent` | firmware interrupts and events | - | critical sections are atomic, main keeps interrupts enabled | done |
| 3 | `ModbusAscii` | firmware receiver and frame handling | - | buffer bounds, ownership of the buffer, only setpoints that were sent | done |
| 4 | `DataRecords`, `HotWaterController`, `SetpointPower` | pure functions: records and parsers, power table, power and smart mode | - | ranges of what they return | done |
| 5 | `Controller` | refreshes of timer and POST, shutdown | composes the modules of row 4 | the heater follows, the setpoint rises slowly and never blindly | done |
| 6 | `Server` | startup, Monitor and its files, crash, shutdown | extends `Controller` | the newest save is found again, energy is counted once | done |
| 7 | `Statistics` | records to lines of CSV files | uses `DataRecords` | files are well-formed, each record counts once, bounds and mean of a line | done |
| 8 | `FlashTool` | flash tool and bootloader over a line | composes both ends | a page or a program reported as written is in the flash | done |
| 9 | `Link` | master, line and firmware receiver | rows 1 and 3 | own answer end to end | open |
| 10 | hex/LRC and base64 coding on the side of node.js | reference definitions | - | - | open |

`Link` would multiply the states of `ModbusSerial` (messages) by those of
`ModbusAscii` (characters); it needs an abstraction of the receiver to frames
that are taken or not, which `FrameWhole` and `CleanFrameTaken` suggest.  The
coding of row 10 has no state; the firmware's half of it is in `ModbusAscii`.

## 3. The modules

### 3.1 ModbusSerial, RequestService (the master)

node.js runs one callback to its end, then the queue of `process.nextTick`,
then the next callback.  An action of `ModbusSerial` is one callback, one
nextTick entry, or one turn of the loop over the frames of a data event;
`Idle` and the guards built on it (`Settled`, `TimerTurn`, `ResetTurn`) say when
the event loop may go on.  Between them everything interleaves.

| Code (`SRV/modbus/modbus-serial.ts`) | Model |
|---|---|
| `_pending`, `_errCnt`, `_lockedBy`, `_receive` | `pending`, `errCnt`, `lockedBy`, `receive` |
| `timer` (armed by `send`), `timerModbus` (800 ms) | `timer`, `timerModbus`: the requests whose timer runs |
| `_sentAt`, `_requestReceived`, `_error`, `_response` of a request | `sentAt`, `echoed`, `failed`, `response` |
| the promise of `send` | `outcome` |
| `process.nextTick` | `ticks`, taken one by one: `WriteTick`, `RejectTick`, `ResetTargetsTick` |
| `serialPort.write` and its callback | `writing`, `WriteDone` |
| the `data` event | `handleOnSerialData(n)` takes n frames, `FrameStep` handles them |
| the two timers | `handleTimeout(r, modbusTimeout)` |
| `handleError`, `executeNextRequest` | operators used by the actions, every call included |
| `resetTarget` | stages `off`, `first`, `second`: an attempt is repeated once |

What the line does to a frame is decided when it is written (`LineOutcomes`);
the constant `Faults` names what may happen in a run.  A request object is a
name that is used again once nothing refers to it any more, so a run is not
limited to one use of each object.  `open` runs once, for one device per line.
An exception that leaves a callback is recorded in `escaped`, because
`main.ts` keeps the process alive only for rejected promises.

`RequestService` is the promise to the callers of `send()`: open, then either
resolved with the own answer or rejected, once, and that does happen.

| Run | Instance | Shows |
|---|---|---|
| `serial_all` | all faults, 2 writes of one setpoint, 2 resets, 10 errors | `TypeOK`, `CallerGuarded` (no await can hang), `HeadInProgress` (no wedge), `WrittenOnce`, `ResetExclusive` |
| `serial_own` | lost frames and write errors, 2 polls and 1 write | `NothingEscapes`, `LeavesWhenSettled`, and that the master implements `RequestService` (a caller gets the answer to its own request, or a rejection) |
| `serial_live` | lost frames, failing boot, different timeouts | each promise settles, each request leaves, the lock is released |

Two objects of a kind are enough for one job to be taken for another; the third
of `serial_own` is a frame that differs.  The tenth error in a row is reached in
every run, and the two resets exist because a repeated attempt and a new
`resetTargets` can meet.  Fairness: a nextTick entry and the frames of a data
event are handled (WF, the event loop does nothing else first); the write
callback, data that is on the line, a running timer and a stage of a reset come
eventually although other callbacks may disable them for a while (SF: each is
an event of its own, and node.js serves events in order).

`WrittenOnce` and `ResetExclusive` hold because the requests that are alive are too
few for the errors that a second reset needs: `send` is locked during a reset, so
only requests that are alive already can fail then, each of them at most twice
(section 5 proves both from `FewRequests`, `2 * Cardinality(Requests) < ErrLimit`).
With two requests TLC finds a second reset under the lock of the first one for
`ErrLimit = 3`.  Callers are the refresh of the controller every second and one
refresh for each POST in progress, and each waits at most 1 s: the code's limit of
10 covers four requests at a time, as many as can be expected.

`NothingEscapes` and `LeavesWhenSettled` are stated for a line that is never
slower than a timer; what a late frame does is described in section 4.  After a
second failed attempt the reset job stays at the head of the queue until the
next job is executed.

### 3.2 SysEvent (interrupts and events of the firmware)

Three contexts: the main loop, the TIMER0 interrupt, which sets SREG.I again
while it runs a task, and the USART1 interrupt, which does not.  A step is a
piece of code no interrupt can split: a test of SREG.I, the update of
`sys.flags`, `cli`, the load of the event byte, its store, and so on (`SaveI`,
`Cli`, `Load`, `Store`, `Restore`, `Sei`).  `stack` is the nesting, `at` the
place of a context in its own code, `step` the place in a `sys_` function.
The same pattern guards the copy of the 32-bit energy counter (`low`,
`snapshot`), 16 bits of which are one value of `Base`.

| Run | Instance | Shows |
|---|---|---|
| `events` | 3 pulses, halves of one bit | `LoadedIsCurrent`: no access between `sys_cli` and `sys_sei` is torn; `EventsOwned`: no event is lost or comes back; `EnergyMonotonic`; until a byte is damaged, `EnabledUntilDamage` and `FrameHandled` |
| `events_disabled` | the same | the finding: interrupts stay off for ever |

`damaged` is history: a byte was damaged or came while a frame was handled, so that
an error counter has been counted up; the counters themselves (`errSeen`) may be
cleared again by switch SW2.  The registers of a context are set to nothing when
an access is over, which keeps equal states equal.  `Base = 2` and `MaxCount = 3`
let the lower half of the counter overflow.
Fairness: the running context goes on, the main loop gets its turn again and
again (SF: interrupt code is short and interrupts come at a bounded rate), an
enabled TIMER0 interrupt comes (SF: the hardware keeps the request), and one of
its tasks in 128 is the 128 ms one (SF).  Bytes need not arrive.

### 3.3 ModbusAscii (receiver and registers of the firmware)

Characters are their ASCII codes, because noise, decoding and checksum are what
the properties are about.  The line sends `Frames` in any order and loses or
replaces at most one character of each.  `UartByte` is the whole interrupt, its
disjuncts the branches of `modbusAscii_handleModbusAsciiByte()`; the main loop
goes through `poll`, `frame` (`HandleFrame`: decode in place, checksum, execute,
answer), `reset` and `clear`, and the interrupt may come between any two.
`heard` is a history variable: the characters since the frame began.
`ByteAt` places the two last error counters in front of the buffer, as
`struct ModbusAscii` does.  A character in front of a colon is stored at index 0
(lines 169 to 173 do not return), the test of line 195 is never true, and the
flag `isLastByteCR` survives any character but a colon and a line feed: the
model does all that.

| Run | Instance | Shows |
|---|---|---|
| `ascii_receiver` | 2 frames of 4 kinds; a colon, CR, LF or digit in any place | `TypeOK`, `FrameWhole`, `CleanFrameTaken`, `SetpointSent` |
| `ascii_not_hex` | 1 frame, an X in any place | the finding: a frame without a checksum is executed |

`BufSize = 16` holds a request of the master (15 characters before CR LF) and
not two of them, so merged frames overflow; `MaxErr = 1` separates a counter
that is 0 from one that is not.  All frames end, so deadlock is not checked.

### 3.4 DataRecords, HotWaterController, SetpointPower (pure functions)

`DataRecords` holds what the classes under `ngx/src/app/data/common` make of a
JSON body, a query or a file: a field is a `Data` record, its JavaScript type and
its number, and a constructor that throws yields `Rejected`.  `ParseNumber` is
`DataRecord.parseNumber` with its quirks: `"abc"` becomes NaN and passes every
limit, because no comparison with NaN is true.  `HotWaterController` is the power
table with the conversion of watts to the register and of the meter's pulse time
to a power.  `SetpointPower` is `calcSetpointPower`, `powerMode` and `smartMode`
of `SRV/controller.ts`: each table of conditions (`ChargingStep`, `FullStep`,
`HoldingStep`, `TestStep`, `DefectStep`) is a sequence whose first true row
decides.  The filter of the available power is kept as an interval (`Levels`) and
its next interval is any one the exact average can reach (`Filtered`), so the
model has every behaviour of the code and a few more.

### 3.5 Controller

| Code (`SRV/controller.ts`, `SRV/routers/router.ts`) | Model |
|---|---|
| `_parameter`, `_mode`, `_smartModeValues`, `_setpointPower`, `_availPowerFilter` | `parameter`, `mode`, `smartModeValues`, `setpointPower`, `availPower` |
| `_activePower`, `_energyDaily`, `_energyTotal`, `_lastRefresh` | `activePower`, `energyDaily`, `energyTotal` (in units of 0.05 Ws), `lastRefresh` |
| `refresh()` up to its first `await` | `RefreshWith`, part of `TimerFires` and `PostParameter` |
| the first `await`: the write of the setpoint | `WriteAnswered`, which sends the read |
| the second `await`: reading the registers | `ReadAnswered`: energy and `_lastRefresh` |
| either of them rejected | `RequestFails`: the write may have reached the heater, or the heater was reset |
| `handleTimer`, `setParameter` | `TimerFires`, `PostParameter(p)` |
| `setSmartModeValues` with the query of GET /monitor | `GetMonitor(query)` |
| `shutdown` | `Shutdown` |

`requests` is the queue of the master as the controller sees it: one entry for
each refresh under way, answered in the order sent.  That each entry is answered
or rejected is what `RequestService` promises (section 3.1).  A refresh reads
the parameter and the values when it starts, never at its awaits, so several
refreshes are told apart by their request only.  `inStep` is a history variable.

Run `controller`: five bodies (off, power, smart with a battery load of NaN, which
counts as 0, and two whose watts are -1 or NaN), three queries, `MaxRefreshes = 2`, `MaxTime = 1`, `MaxAge = MaxGap = 0`.
Two refreshes are enough to overtake each other; one second makes every value
too old and every gap too long; limits of 10 to 50 W let the setpoint meet all
its limits in steps of 10 and 25 W.  The run shows `HeaterFollows` (an older
setpoint never overtakes a newer one, and rounding and cutting the register
costs less than 5 W), `RaisesSlowly` and `NoBlindIncrease`, and under fairness
`OffReachesHeater` and `StarvedSmartModeFalls`.  `RaisesSlowly` tries every
result of `CalcSetpointPower` for the `Readings` in each idle state, not only for
values that a query of the run has brought.  `CountedOnce` of `Server` is about
the energy.  Fairness: the interval timer fires and a request settles (WF), and
a line that is tried over and over answers some time (SF): otherwise "off" need
not get through.  Time stops at `MaxTime`, so a behaviour may stutter at the end
and deadlock is not checked.

### 3.6 Server (start, Monitor, shutdown, crash)

`Server` extends `Controller`: its steps are those of the controller while the
process runs, and the following.

| Code | Model |
|---|---|
| `main.ts` `doStartup`, opening the port | `Boot` |
| the rest of the startup, `Monitor.init`, `Controller.start` | `StartupFinishes`, with `RestoreControl` and `RestoreEnergy` |
| `Monitor.refresh`, `saveTemp`: record, index, call of `fs.writeFile` | `SaveTemp`: the index moves on, the save joins `saving` |
| `fs.writeFile` opens the file, its callback comes | `SaveOpens`: the file is torn; `SaveCompletes`, `SaveFails` |
| `shutdown()` on SIGINT | `Interrupt`, then `GpioShutdown` or `ShutdownTimeout` |
| a kill, a power failure | `Crash`, possible whenever the process is not down |
| what survives | `files`, the heater; `NothingKept` is the next constructor |

The code does not wait for a save before it begins the next, so `saving` is a set:
saves overlap, overtake each other and fail at any moment.  One bound is put on
them: a save takes no longer than the rotation, that is, its file does not come
round while it is under way.

Run `server`: 2 files, 3 starts, 3 seconds, a day of 2 seconds, SIGINT any number
of times.  With two files the next save hits the file that is not the newest, three
starts allow a crash in a life that was itself restored, and the day changes once
in the middle.

`NothingLost`: the restored total keeps up with the newest save that was completed
(`saved`), in whichever life that was.  It does not hold of every end of a life, and
`cut` marks the two ends after which it says nothing until another save is
completed:

- `UnderFirst`: this life had begun saves and completed none, because it was killed
  in the first or because they failed.  The rotation starts at the same index in
  every life, so the first save may hit the newest file.
- `ComeRound`: since its last completed save this life had begun as many saves as
  there are files.  They failed or were still under way; a save that fails after
  it opened its file has emptied it, so a full disk wipes out one file after the other.

In both the energy of the newest save is really lost, and the code does nothing
about it: without either exclusion TLC finds `NothingLost` violated.

`CountedOnce`: no second is counted twice, whatever overlaps, fails or restarts;
the meter reports 2500 W all the time, so each second counts.  `ShutdownEnds`
needs the timer of the shutdown only (WF); with `GpioShutdown` in its place it
fails, because `Gpio.shutdown` never settles when the driver was not loaded.

### 3.7 Statistics

| Code (`SRV/statistics.ts`) | Model |
|---|---|
| `_current`, `_handleMonitorRecordCount` | `current`, `recordCount` |
| `handleMonitorRecord`, `addMonitorRecord` | `HandleMonitorRecord`, `WithReading` |
| `handleTimer`, `writeToCsvFile`, `writeToFile` | `HandleTimer`: whether a header is due is looked up at once |
| `fs.appendFile`: create, write, error | `AppendOpens`, `AppendWrites`, `AppendFails`; `AppendSpoilt`: a line written behind a row in part |
| CSVHEADER, `toHeader`, `toLine` | `CsvHeader`, `ToHeader`, `ToLine`: numbers of columns |
| midnight; kill and restart | `NextDay`; `Crash` |
| an error or a kill in the middle of writing | `BreakOff`, part of `AppendFails` and `Crash` |

`received`, `slotReadings`, `lost`, `overlapped` and `spoilt` are history.  The
records of the Monitor are numbered as they come in; a slot is made of the
records from `from` on, `count` of them, and `lost` holds the numbers of the
records whose line got lost.  `torn` is the set of days whose file ends with a row
written in part: the next append writes onto that row, and loses its header or,
if it has none, its line (`AppendSpoilt`).  Bound: appends that break off together
leave one header a day.  Run `statistics`: three records that are NaN, 1 or
6, two appends under way, two days, one crash.  Three records put two into one
slot and one into another, and two appends are enough to overlap.
`EveryRecordOnce` says that a record is in the slot, in an append, in a line or
lost (`InOnePlace`), and in one append or line only (`InOneLine`);
`RecordsGetOut` says that it leaves the slot.  `LinesAreRight` compares the
running minimum, mean and maximum with those of the readings: `LineBounds` for
readings that may be NaN, and the exact mean and the number of columns for those
that are not.  The code keeps the mean as a floating-point number, the model in
whole parts of the unit.  `Parts` is divisible by every number
of records up to `MaxRecords` (`MeanAssumption`; 12 in the run), so no mean of
a slot without NaN is ever rounded.  `WellFormed` says what an unlucky pair of appends or
a crash may do and nothing else may: two headers, a line in front of the header,
or no header at all.  Fairness: the interval timer fires and a file operation
settles (WF).

### 3.8 FlashTool (flashuc and the bootloader of U1)

| Code | Model |
|---|---|
| `FL/main.ts`, `Serial.reset`, `Device.flash` | `Start`, `ResetTarget`, `ResetFails`, `ReceiveId`, `QueuePages`, `Close` |
| `Device`: check and order of the segments, `flashMemory` | `ValidElf`, `ProgramOf`, `MemoryOf`: one step of `Continued` for each segment |
| `Serial.send`, `sendNextRequest`, `finalizePendingSendRequest` | `SendNextRequest`, `Finalize` |
| the callback of `port.write` | `WriteDone`, `WriteFails` |
| `handleData`, `handleReceivedCmd`, `handleReceivedResponse` | `ReceiveEcho`, `ReceiveResponse`, `ReceivedCmd`, `ReceivedResponse` |
| bootloader `executeCommand`, `writeFlashSegment` | `ReadCommand`, `CommandLost`, `Execute`, `Answered` |
| no byte for a while | `StartApplication` |

The line may change a string, hide the character it begins with, or lose a
command; a page may fail to verify; what is sent while the target still answers
may overrun its receiver.  The queue is the set of the pages that wait, because
they are queued by their addresses and the first is the least.

Run `flash`: pages of two bytes, three ELF files (two
segments that share a page and a last page that is not full; a page of the
bootloader; a file that is refused), both types of reset, one fault at any place
(two faults, 357 000 states, pass as well).  `OkMeansProgrammed` and
`SuccessMeansFlashed` are about late echoes and answers: none of them is taken for
that of another page, since a command carries its address and no two pages have
the same.  The programs of this run are `SideBySide`: a segment begins with a page
or where another one ends.  Run `flash_gap` has one with a gap inside a page and
finds that the bytes after the gap are not flashed (section 4).  `FlashEnds` excepts a command that vanished: there are no
timeouts, so the tool waits for ever then.  Fairness: every callback of the tool
and the loop of the bootloader get their turn (WF).  The tool ends, so deadlock
is not checked.

## 4. Where the code and its own statements differ

Each of these runs ends with a counterexample.

| Run | Where | What happens |
|---|---|---|
| `events_disabled` | `FW/sys.c:139` | The saved interrupt flag is global and is saved before `cli()`; once an error counter is not 0, interrupts can stay off for ever. |
| `ascii_not_hex` | `FW/modbus_ascii.c:98` | The result -1 of the decoder is used as a size; the checksum then compares 0 with an error counter. |
| `flash_gap` | `FL/devices/device.ts:151` | A segment that begins inside a page, behind a gap, is left out of that page: the branch that is to fill the gap (154 to 159) is never taken.  The tool reports success. |

Seen while modelling; the models behave like the code, but nothing in the
repository states the contrary, or the part is not modelled, so there is no run:

- Master: `handleError` takes the head off the queue whatever request failed
  (`SRV/modbus/modbus-serial.ts:319`; `handleSuccess` guards against that, line
  297).  A response set on a request that has timed out throws out of the data
  event (457); so does a second frame of one data event when the first has
  emptied the queue (435).  A target with a "user" reset is skipped before the
  `try` whose `finally` gives back the lock (191).
- Firmware: `frameCnt` is never incremented, so line 170 of `modbus_ascii.c` never
  counts; `sendErrorResponse` merges the exception code into `buffer[2]` by `|=`;
  `modbus_writeHoldRegister` ends without a return value for the addresses 1 to
  1023 (a choice in the model); `modbus.c:56` reads `sensor0Time` without
  protection.
- Records: NaN passes `parseNumber`.  A desired power of NaN writes 0 mA; NaN as a
  limit of the smart mode switches clamping off, and with a defect meter a minimum
  charge of NaN lets the setpoint rise without values; a grid power of NaN
  spoils the filter for good.  `data-record.ts:49` compares with the wrong limit.
  A query without `eBatPercent` is always rejected although the parser means to
  allow it.  Values whose `createdAt` lies in the future never age.
- Controller: `getStatus` throws while there are no smart mode values, so a POST
  answers with an error after it was applied, and no record, no temporary file and
  no line of statistics is made.  In mode test the setpoint 0 for a missing value is
  overwritten with the former one.  A shutdown leaves the heater at its setpoint.
- Monitor and main: the rotation starts at the same index in every life, and a save
  that fails has emptied its file, so the first save of a life, or a full disk, can
  cost the newest record (section 3.6).  A setpoint above 2000 W is not restored;
  one that is NaN is saved as null, which passes the check as a number and stays
  null until the next refresh (0 in the model).  A pause shorter than 10 s is
  counted with half the power.  A save between midnight and the first refresh of
  the day stores yesterday's daily energy under today; `getDate()` compares
  the day of the month only.  `Gpio.shutdown` never settles when the driver was
  not loaded.
- Statistics: overlapping appends can write two headers; a crash or an error
  after the file was created leaves it without one, and a line written in part
  damages the next one too; `_history` is never emptied.
- Flash tool: an empty answer `$` counts as success (`FL/serial.ts` 375 to 383;
  with `MisreadAnswers = {None}` TLC finds `OkMeansProgrammed` violated);
  `timeoutMillis` is forced to 0, so a lost command hangs the tool; the errors of
  pages are logged and the exit code is 0.  The bootloader admits the page at
  `BOOTADR` itself.

## 5. Proofs

| Theorem | Module | Inductive invariant |
|---|---|---|
| `TypeCorrect` | `ModbusSerialProofs` | `TypeOK` itself |
| `CallersStayGuarded` | `ModbusSerialProofs` | `TypeOK` and `CallerGuarded`: every operator that stops timers queues the rejection or settles the promise in the same step |
| `HeadAlwaysInProgress` | `ModbusSerialProofs` | `HeadInv`: `HeadInProgress` speaks of an idle event loop; in between, the write of the head may still be a nextTick entry |
| `WrittenAtMostOnce` | `ModbusSerialProofs` | `LockInv`, assuming `FewRequests` |
| `OneResetAtATime` | `ModbusSerialProofs` | `LockInv`, assuming `FewRequests` |
| `TypeCorrect` | `SysEventProofs` | `Inv` |
| `AccessesAreAtomic` | `SysEventProofs` | `Inv`: a context between `cli` and `sei` is alone with interrupts off, USART1 runs with interrupts off, a context that is not in progress is in no call |
| `EventsHaveOwners` | `SysEventProofs` | `Inv` with `CallsOwned`: which context calls which operation |
| `EnergyNeverBack` | `SysEventProofs` | `Inv` with `Behind` |
| `MainStaysEnabled` | `SysEventProofs` | `Inv` and, until a byte is damaged, `Calm`: whenever main is inside `sys_cli`, BUSY is pending, so USART1 calls nothing that could overwrite the saved flag |
| `FramesAreWhole` | `ModbusAsciiProofs` | `IInv`: `heard` and the buffer agree up to the end of the buffer; BUSY belongs to the main loop until it gives the buffer back empty |
| `TypesKept` | `ModbusAsciiProofs` | `IInv` and `Held`; assumes `ReadsFit` |
| `IntactFramesTaken` | `ModbusAsciiProofs` | `IInv` and `Clean`: without noise the line holds the rest of the last frame, and in front of its LF the CR has been seen, if a colon has; assumes `MasterFrames` |
| `SetpointsWereSent` | `ModbusAsciiProofs` | `IInv` and `SafeSetpoint`; assumes `Requests` and `HexNoise` |
| `NewestSetpoint` | `ControllerProofs` | `IInv`: the youngest write among the waiting requests carries the register of the current setpoint, and when none waits and nothing failed the heater holds it |
| `NeverBlind` | `ControllerProofs` | `IInv`; assumes that the meter is not defect or that no accepted minimum charge is NaN (`ChargeLimits`) |
| `SlowRaise` | `ControllerProofs` | `IInv` and `Ranges`, assuming that no accepted limit of the smart mode is NaN (`NumbersOnly`) |
| `TypesKept` | `ControllerProofs` | `IInv`, `Ranges` and `EnergyInv`: the energy of the day is part of the total, and no reading is older than the clock; assumes `NumbersOnly` |
| `FilesWellFormed` | `StatisticsProofs` | `IInv`: slots are numbered in the order they began; on a day that is neither overlapped nor spoilt there is at most one append, it decides for a header only if the file does not exist, and an existing file has begun with its header; `Fragments`: such a day has no row in part |
| `RecordsCountOnce` | `StatisticsProofs` | `Ledger`: the property and that the slot ends with the last record received |
| `StatisticsTypes` | `StatisticsProofs` | `IInv` and `Ledger` |
| `LinesHoldTheirReadings` | `StatisticsProofs` | `Ledger` and `Bounds`: slot, appends and lines have the bounds (`BoundsOf`) and the mean (`MeanOf`) of their readings; a slot never counts more than `MaxRecords` |
| `NoEscape` | `RequestServiceProofs` | `LineInv`, assuming `OwnLine` |
| `LeavesSettled` | `RequestServiceProofs` | `LineInv`, assuming `OwnLine` |
| `Implements` | `RequestServiceProofs` | `LineInv`, assuming `OwnLine`: each step is `Submit`, `Resolve` or `Reject` of the service, or changes nothing of it |
| `NothingIsLost` | `ServerProofs` | `IInv`, its part `Kept`: the newest completed save is `count - kept` files behind the index; `Saves`, one index for each save under way; and `KeepsUp` |
| `CountedAtMostOnce` | `ServerProofs` | `IInv`, its part `Counted`: bounds of the energy, of each file and of the saves under way by the time of their reading |
| `ServerTypes` | `ServerProofs` | `IInv` |
| `QueueInOrder` | `FlashToolProofs` | `QInv`: `QueueOf` and what holds before the pages are queued |
| `ReportedPagesHold` | `FlashToolProofs` | `IInv`, assuming `Hypothesis` |
| `SuccessIsReal` | `FlashToolProofs` | `IInv`, assuming `Hypothesis`, and the lemma `ByteFound` |

The assumptions are those of the modules: finite-width constants are any
natural numbers, queues, sets of requests and sets of frames are arbitrary.  In
`ControllerProofs` the configuration, the bodies, the queries, the readings of the
meter, all times and the number of refreshes under way are arbitrary
(`InputsAssumption`, `BoundsAssumption`); the configuration is one that the
constructor accepts (`ConfigAccepted`), and NaN and the other markers are no
numbers (`NotNumbers`).  `ServerProofs` adds that there is a file
(`BackupsAssumption`) and that the bounds are numbers.  `StatisticsProofs` uses
`DaysAssumption`, `SlotAssumption`, `ReadingsAssumption`, `BoundAssumption` and
`MeanAssumption`,
`FlashToolProofs` `AddressAssumption`, `NoiseAssumption` and `GarbageAssumption`
(a garbled string is no command), `RequestServiceProofs` `SerialAssumption` and
`NoMsgAssumption`.  `FramesAreWhole` needs that the size of the buffer is even: a
frame that was cut off keeps the index at `BufSize`, and only an odd index ends a
frame.

`WrittenAtMostOnce` and `OneResetAtATime` hold for every fault, every order of
callbacks and every way of resetting, under one hypothesis: the set of requests is
finite and `2 * Cardinality(Requests) < ErrLimit` (`FewRequests`; the runs use 2
requests and the code's limit of 10).  `LockInv` has five parts.  `Once`: a request
that is to be written or is being written stands there once and has not been sent.
`Queued`: only the head of the queue was ever started, and resets stand nowhere
else.  `ResetNext`: a reset at the error limit is the first nextTick entry, with
the counter back at 0 and nobody in the lock.  `Early`: nothing runs before the
port is open.  `Locked`: a reset that has the line is the only job, and the errors
counted so far with those still ahead stay below the limit.  Those ahead are
`Load`, a sum of two cardinalities: each running timer and each unfinished write can
fail once, so a write that succeeds only moves its request from one set to the
other, and every error takes one element away (`LoadFalls`).

`IntactFramesTaken` is about frames as the master builds them (`MasterFrames`): a
colon, pairs of characters that fit into the buffer, CR LF.  What came before is
arbitrary.

`TypesKept` of `ModbusAscii` says that nothing is ever written behind the buffer,
whatever arrives, and needs one hypothesis, `ReadsFit`: no read of debug registers
is executed whose answer is longer than the buffer.  The code compares the number
of registers with the bytes of the buffer (`FW/modbus_ascii.c` 117), so a read of 62
registers from address 1024 on passes and needs 127 of 64 bytes.  The master asks
for the 5 registers of the heater only; in `ascii_receiver`, where noise does make
such reads of one register, `ReadsFit` holds.  The even size of the buffer is at least
14, so that an answer with the 5 registers (13 bytes) has room (`BufferAssumption`).

`SetpointsWereSent` is the receiver's part in "the heater gets what was wanted".  Its
two hypotheses describe the traffic.  `Requests`: frames go to device 1, with a
function from 2 to 15, a register 0 or 1, any value and the right checksum, as the
frames of the run and those of the master do (`SRV/modbus/modbus-request.ts` 85 to
115, `SRV/modbus/hot-water-controller.ts` 76 to 129).  `HexNoise`: a character that is
damaged becomes a digit, a colon, CR or LF; with other characters the property is
false (`ascii_not_hex`).  One character of a frame may be damaged or missing, in
every frame.  A frame whose CR or LF is damaged is not ended, and what is left of it
merges with the next frame if that one loses its colon.
The proof shows that what it merges is `Harmless`: if its digits begin as a command
for the setpoint, they are a frame that was sent with something behind it, or such
a frame with just one wrong digit.  In the first case the value is the one
that was sent; in the second the checksum is wrong, because one digit moves the
sum of the bytes by less than 256 (`OneByteOff`, `LrcOfBytes`).  A frame cut so short
that the checksum stands where the value belongs is excluded by arithmetic
(`ShortLrc`), and no rest of a request looks like the beginning of a command
(`FrameDigits`); for that the register and the function have to be in their ranges.
`Gathered` says what the buffer holds while it is being filled (the beginning of the
frame on the line, a rest of the last frame, or characters whose harm is already
decided), `Given` what the main loop gets.  The theorem does not need `ReadsFit`
because the model has no memory behind the buffer; that nothing is written there
is `TypesKept`.

`LinesHoldTheirReadings` needs the sum of a sequence, a recursive function
(`Total`); that appending a reading adds it (`TotalOfAppend`) is proved by
`SetInduction`, described below.  The mean is exact because it was so
before the reading came and `MeanAssumption` makes the division come out even
(`MeanExact`); in a slot with a NaN it lies between the bounds, rounding included
(`MeanBetween`).

`NewestSetpoint` has two parts.  That the register is the newest one is the
invariant, an argument about the order of the queue.  That the register means the
power that was wanted is `RegisterFollows`, a lemma about arithmetic: in each of
the fourteen sections of the power table, rounding to 0.01 mA and cutting to
1/2048 mA stay below 5 W.  `NeverBlind` and `SlowRaise` rest on one lemma for each
table of conditions (`ChargingTable`, `FullTable`, ...) and on `SmartResult` and
`PowerResult`, which say how far a result can be from the former setpoint.  The two
assumptions on NaN are needed: without them the limits are no limits (section 4).

`LoadedIsCurrent` does not depend on the saved flag being right: the proof never
uses it, so the interrupt flag can be lost (section 4) but no access be torn.

`RequestServiceProofs` is about a line that loses frames and fails to write, for
any number of requests, resets and callers.  `OwnLine` is a hypothesis of its
theorems and no assumption of the module, because the other runs use other lines.
It says that frames come unchanged and before the timers that wait for them, that
all callers use one timeout (the code passes 1000 ms everywhere), and that
`ErrLimit > 1`: the code's limit is 10, and with 1 every error starts a reset.
`LineInv` describes whom the line belongs to.  While callers are not locked out
(`Open4All`) it is the head of the queue, whose write is due, under way, or awaited
by the frames on the bus.  While they are (`LockedOut`) it may belong to a ghost:
the write of a request was queued behind the tenth error, and is sent although the
reset has cancelled the request; the timers of the ghost are over before the
reset is.

In `ServerProofs` the files are a ring and the saves of a life are numbered.  `Saves`
says that the index of a save under way follows from its number, and that no two
under way are a whole ring apart.  `Kept` follows one file through the ring: as long
as fewer than `Backups` saves have begun since the newest completed one, none of them
has its index (`OwnIndex`), so none opens its file.  What is left are the two cases of
`cut`: the ring has come round to that file (`ComeRound`), or the life began its ring
anew while the newest record is from an earlier one (`UnderFirst`).  `Counted` bounds the energy by
full power up to the last reading, and `Roundings` counts what each restart may add
by the conversion of the energy to the unit of the file.

In `FlashToolProofs` nothing on the line tells which command an echo or an answer
belongs to but the bytes of the echo.  `LockStep` says that as long as no page failed
tool and bootloader are in step, and that once a command was echoed as it was
sent, the answer behind it is its own.  After the first failure they may be out of
step for ever; `Stuck` says that the tool then never gets as far as waiting for an
answer, as `main` closes the port at the first rejection.  `Hypothesis` has two
parts: the program has no gap inside a page (otherwise `flash_gap`), and no answer
is misread as a success (otherwise an answer says nothing).  That the flash holds
every byte of every segment needs what `FlashMemory` computes, a recursive function
over the segments; `ByteFound` is proved by `SetInduction`, the induction over
numbers stated for a set instead of an operator, which the provers can use.

Every safety property of the passing runs is stated by a theorem.  Only checked by
TLC are the liveness properties and the liveness part of `ImplementsService`, as
fairness and ENABLED are out of the prover's reach: `EverySendSettles`,
`EveryRequestLeaves`, `LockIsReleased`, `FrameHandled`, `OffReachesHeater`,
`StarvedSmartModeFalls`, `ShutdownEnds`, `RecordsGetOut`, `FlashEnds`.

## 6. Not modelled

`PROJECT.json` names every part with the reason.

- Never run or without logic of its own: the Angular client (a template stub),
  git and build helpers, page templates, logging, the class of
  `SRV/modbus/modbus-ascii.ts` (no instance is ever created) and `old.c` (not
  built).
- The frame classes of the server: hex and LRC coding without state.  A frame is
  one message in `ModbusSerial`; its characters are the matter of `ModbusAscii`.
- Web server: express, pages, PIN and error pages; the two requests that reach
  the controller are actions of `Controller`.
- `MonitorRecord`, `Value` and `EnergyRecord`, which copy fields; the readings
  of current and pulse counter, which are only displayed.
- Flash tool and bootloader: the tables of an ELF file, base64, the hex dump, the
  commands r, x and b, which the tool never sends, and the SPI slaves.
- Firmware: LEDs, PWM, ADC, the USART0 console, the debug registers from address
  1024 on, and the echo the firmware writes while it may be sending an answer.
- `ModbusSerial` does not tell two concurrent resets through one request object
  apart, and leaves out the statistics counters that nothing reads.
