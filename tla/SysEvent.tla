------------------------------ MODULE SysEvent ------------------------------
(***************************************************************************)
(* Interrupts and events of the U1 firmware (sys.c, app.c, main.c and the  *)
(* event side of modbus_ascii.c).                                          *)
(*                                                                         *)
(* Three contexts share one processor: the main loop, the TIMER0 interrupt *)
(* (which enables interrupts again while it runs a task) and the USART1    *)
(* receive interrupt (which does not).  They share the byte sys.eventFlag  *)
(* and protect it with sys_cli() and sys_sei(), which keep the former      *)
(* value of the interrupt flag SREG.I in one global, sys.flags.  A step of *)
(* this module is a piece of code that no interrupt can split.             *)
(***************************************************************************)
EXTENDS Naturals, Sequences

CONSTANTS
  Base,      \* values of one half of the energy counter (2^16)
  MaxCount   \* where the energy counter stays (2^32 - 1)

ASSUME SysEventAssumption ==
  /\ Base \in Nat \ {0}
  /\ MaxCount \in Nat

VARIABLES
  iflag,     \* SREG.I: interrupts are enabled
  savedI,    \* SYS_FLAG_SREG_I in sys.flags
  eventFlag, \* sys.eventFlag, the set of pending events
  stack,     \* the contexts in progress, the running one last
  at,        \* where each context is in its own code
  step,      \* where each context is in a sys_ function
  op,        \* what that sys_ function is for
  loaded,    \* the copy of eventFlag in a register of each context
  errSeen,   \* an error counter of modbus_ascii is not 0
  damaged,   \* history: a byte was damaged or came while a frame was handled
  count,     \* app.sensor0Cnt, the pulses of the energy meter
  low,       \* the half of it that is already copied
  snapshot   \* the copy that is sent to the server

sysVars  == <<iflag, savedI, stack>>
callVars == <<at, step, op>>
errVars  == <<errSeen, damaged>>
dataVars == <<eventFlag, loaded, errSeen, damaged, count, low, snapshot>>
vars == <<sysVars, callVars, dataVars>>

Contexts == {"main", "timer", "uart"}
Events   == {"FRAME", "ERROR", "BUSY"}
Ops      == [kind : {"set", "clear"}, event : Events]
              \cup [kind : {"read"}, event : {"none"}]
Labels   == {"scan", "switch", "poll", "frame", "answered",
             "task", "led", "byte", "return"}
Steps    == {"none", "mark", "unmark", "cli", "load", "store", "restore", "sei"}

Op(kind, event) == [kind |-> kind, event |-> event]

TypeOK ==
  /\ iflag \in BOOLEAN
  /\ savedI \in BOOLEAN
  /\ eventFlag \subseteq Events
  /\ stack \in {<<"main">>, <<"main", "timer">>, <<"main", "uart">>,
                <<"main", "timer", "uart">>}
  /\ at \in [Contexts -> Labels]
  /\ step \in [Contexts -> Steps]
  /\ op \in [Contexts -> Ops]
  /\ loaded \in [Contexts -> SUBSET Events]
  /\ errSeen \in BOOLEAN /\ damaged \in BOOLEAN
  /\ count \in 0..MaxCount
  /\ low \in 0..(Base - 1)
  /\ snapshot \in Nat

Init ==
  /\ iflag = TRUE
  /\ savedI = FALSE
  /\ eventFlag = {}
  /\ stack = <<"main">>
  /\ at = [c \in Contexts |->
             CASE c = "main" -> "scan" [] c = "timer" -> "task" [] OTHER -> "byte"]
  /\ step = [c \in Contexts |-> "none"]
  /\ op = [c \in Contexts |-> Op("read", "none")]
  /\ loaded = [c \in Contexts |-> {}]
  /\ errSeen = FALSE /\ damaged = FALSE
  /\ count = 0
  /\ low = 0
  /\ snapshot = 0

Top == stack[Len(stack)]

\* The running context c is in its own code, at label l.
Runs(c, l) == Top = c /\ step[c] = "none" /\ at[c] = l

-----------------------------------------------------------------------------
(* sys_cli(), the access it protects, sys_sei().                           *)

\* c calls sys_setEvent, sys_clearEvent or its own protected read and goes on
\* at label l afterwards.  The call begins with the test of SREG.I.
Call(c, o, l) ==
  /\ step' = [step EXCEPT ![c] = IF iflag THEN "mark" ELSE "unmark"]
  /\ op' = [op EXCEPT ![c] = o]
  /\ at' = [at EXCEPT ![c] = l]

Goto(c, l) ==
  /\ at' = [at EXCEPT ![c] = l]
  /\ UNCHANGED <<step, op>>

To(c, s) == step' = [step EXCEPT ![c] = s] /\ UNCHANGED <<at, op>>

\* sys_cli(): the flag is saved ...
SaveI(c) ==
  /\ Top = c /\ step[c] \in {"mark", "unmark"}
  /\ savedI' = (step[c] = "mark")
  /\ To(c, "cli")
  /\ UNCHANGED <<iflag, stack, dataVars>>

\* A changed program: the access is not protected.
CliForgotten(c) ==
  /\ Top = c /\ step[c] = "cli"
  /\ To(c, "load")
  /\ UNCHANGED <<iflag, savedI, stack, dataVars>>

\* ... and then cleared.  An interrupt may come in between.
Cli(c) ==
  /\ Top = c /\ step[c] = "cli"
  /\ iflag' = FALSE
  /\ To(c, "load")
  /\ UNCHANGED <<savedI, stack, dataVars>>

Load(c) ==
  /\ Top = c /\ step[c] = "load"
  /\ IF op[c].kind = "read"
     THEN low' = count % Base /\ UNCHANGED loaded
     ELSE loaded' = [loaded EXCEPT ![c] = eventFlag] /\ UNCHANGED low
  /\ To(c, "store")
  /\ UNCHANGED <<sysVars, eventFlag, errVars, count, snapshot>>

\* The registers of the context are free again.
Store(c) ==
  /\ Top = c /\ step[c] = "store"
  /\ \/ /\ op[c].kind = "set"
        /\ eventFlag' = loaded[c] \cup {op[c].event}
        /\ UNCHANGED snapshot
     \/ /\ op[c].kind = "clear"
        /\ eventFlag' = loaded[c] \ {op[c].event}
        /\ UNCHANGED snapshot
     \/ /\ op[c].kind = "read"
        /\ snapshot' = (count \div Base) * Base + low
        /\ UNCHANGED eventFlag
  /\ To(c, "restore")
  /\ loaded' = [loaded EXCEPT ![c] = {}] /\ low' = 0
  /\ UNCHANGED <<sysVars, errVars, count>>

\* A changed program: the saved flag is taken the wrong way round.
RestoreInverted(c) ==
  /\ Top = c /\ step[c] = "restore"
  /\ To(c, IF savedI THEN "none" ELSE "sei")
  /\ UNCHANGED <<sysVars, dataVars>>

\* sys_sei(): the test of the saved flag ...
Restore(c) ==
  /\ Top = c /\ step[c] = "restore"
  /\ To(c, IF savedI THEN "sei" ELSE "none")
  /\ UNCHANGED <<sysVars, dataVars>>

\* ... and sei.
Sei(c) ==
  /\ Top = c /\ step[c] = "sei"
  /\ iflag' = TRUE
  /\ To(c, "none")
  /\ UNCHANGED <<savedI, stack, dataVars>>

Protected(c) == SaveI(c) \/ Cli(c) \/ Load(c) \/ Store(c) \/ Restore(c) \/ Sei(c)

-----------------------------------------------------------------------------
(* The main loop.                                                          *)

\* modbusAscii_main() looks at its error counters.
MainScan ==
  /\ Runs("main", "scan")
  /\ IF errSeen THEN Call("main", Op("set", "ERROR"), "switch")
                ELSE Goto("main", "poll")
  /\ UNCHANGED <<sysVars, dataVars>>

\* With switch SW2 on the counters are cleared.
MainSwitch ==
  /\ Runs("main", "switch")
  /\ errSeen' \in {errSeen, FALSE}
  /\ Goto("main", "poll")
  /\ UNCHANGED <<sysVars, eventFlag, loaded, damaged, count, low, snapshot>>

\* A frame is handed over by the event BUSY.
MainPoll ==
  /\ Runs("main", "poll")
  /\ IF "BUSY" \in eventFlag THEN Call("main", Op("set", "FRAME"), "frame")
                             ELSE Goto("main", "scan")
  /\ UNCHANGED <<sysVars, dataVars>>

\* A damaged byte, or one that comes while a frame is handled, is counted.
Damaged == errSeen' = TRUE /\ damaged' = TRUE

\* modbusAscii_handleFrame(): some frame, a read of the energy counter, or a
\* frame with a wrong checksum.
MainFrame ==
  /\ Runs("main", "frame")
  /\ \/ /\ Goto("main", "answered")
        /\ Damaged \/ UNCHANGED errVars
     \/ /\ Call("main", Op("read", "none"), "answered")
        /\ UNCHANGED errVars
  /\ UNCHANGED <<sysVars, eventFlag, loaded, count, low, snapshot>>

\* A changed program: the wrong event is cleared.
FrameDone == Op("clear", "FRAME")

Done == Op("clear", "BUSY")

MainAnswered ==
  /\ Runs("main", "answered")
  /\ Call("main", Done, "scan")
  /\ UNCHANGED <<sysVars, dataVars>>

MainStep == MainScan \/ MainSwitch \/ MainPoll \/ MainFrame \/ MainAnswered

-----------------------------------------------------------------------------
(* Interrupts.                                                             *)

\* An interrupt disables further ones; the contexts below keep their place.
Enter(c, l, i) ==
  /\ iflag
  /\ stack' = Append(stack, c)
  /\ iflag' = i
  /\ Goto(c, l)
  /\ UNCHANGED <<savedI, dataVars>>

\* reti enables interrupts.
Return(c) ==
  /\ Runs(c, "return")
  /\ stack' = SubSeq(stack, 1, Len(stack) - 1)
  /\ iflag' = TRUE
  /\ UNCHANGED <<savedI, callVars, dataVars>>

\* TIMER0 begins a task (unless one is in progress, which is only counted) and
\* enables interrupts for as long as it runs.
TimerEnter ==
  /\ \A i \in 1..Len(stack) : stack[i] # "timer"
  /\ Enter("timer", "task", TRUE)

\* A task without events; the 2 ms task counts the pulses of the meter.
TimerTask ==
  /\ Runs("timer", "task")
  /\ count' \in {count, IF count < MaxCount THEN count + 1 ELSE count}
  /\ Goto("timer", "return")
  /\ UNCHANGED <<sysVars, eventFlag, loaded, errVars, low, snapshot>>

\* The 128 ms task: LEDs for FRAME and ERROR.
TimerTask128 ==
  /\ Runs("timer", "task")
  /\ Call("timer", Op("clear", "FRAME"), "led")
  /\ UNCHANGED <<sysVars, dataVars>>

TimerLed ==
  /\ Runs("timer", "led")
  /\ Call("timer", Op("clear", "ERROR"), "return")
  /\ UNCHANGED <<sysVars, dataVars>>

UartEnter == Enter("uart", "byte", FALSE)

\* A changed program: bytes are taken while a frame is handled.
TakesAlways == TRUE

\* modbusAscii_handleModbusAsciiByte() takes no byte while BUSY is pending.
TakesByte == "BUSY" \notin eventFlag

\* A byte in the middle of a frame, a damaged one or one too many, or the last
\* byte of a frame.
UartByte ==
  /\ Runs("uart", "byte")
  /\ \/ /\ Goto("uart", "return")
        /\ Damaged \/ UNCHANGED errVars
     \/ /\ TakesByte
        /\ Call("uart", Op("set", "BUSY"), "return")
        /\ UNCHANGED errVars
  /\ UNCHANGED <<sysVars, eventFlag, loaded, count, low, snapshot>>

TimerStep == TimerTask \/ TimerTask128 \/ TimerLed \/ Return("timer")
UartStep  == UartByte \/ Return("uart")

Next ==
  \/ \E c \in Contexts : Protected(c)
  \/ MainStep
  \/ TimerEnter
  \/ TimerStep
  \/ UartEnter
  \/ UartStep

Spec == Init /\ [][Next]_vars

(***************************************************************************)
(* The processor never stops: the running context makes its next step.     *)
(* Interrupts come at a bounded rate and their code is short, so the main  *)
(* loop gets its turn again and again; TIMER0 fires every 100 us, and one  *)
(* of its tasks in 128 is the 128 ms one.  Nothing makes bytes arrive.     *)
(***************************************************************************)
Fairness ==
  /\ SF_vars(MainStep \/ Protected("main"))
  /\ WF_vars(TimerStep \/ UartStep \/ Protected("timer") \/ Protected("uart"))
  /\ SF_vars(TimerEnter)
  /\ SF_vars(TimerStep \/ Protected("timer"))
  /\ SF_vars(TimerTask128)

FairSpec == Spec /\ Fairness

-----------------------------------------------------------------------------
(* Safety.                                                                 *)

\* What a context has loaded in order to change it is still what memory holds
\* when it stores: no read-modify-write of eventFlag and no copy of the 32-bit
\* counter is torn by an interrupt.
LoadedIsCurrent ==
  \A c \in Contexts : step[c] = "store" =>
    IF op[c].kind = "read" THEN low = count % Base ELSE loaded[c] = eventFlag

\* An event is only set by its producer and only cleared by its consumer:
\* none is lost or comes back because two contexts write the byte.
EventsOwned ==
  [][ /\ "BUSY" \in eventFlag /\ "BUSY" \notin eventFlag' =>
           op["main"] = Done /\ step["main"] = "store"
      /\ "BUSY" \notin eventFlag /\ "BUSY" \in eventFlag' =>
           op["uart"] = Op("set", "BUSY") /\ step["uart"] = "store"
      /\ \A e \in {"FRAME", "ERROR"} :
           /\ e \in eventFlag /\ e \notin eventFlag' =>
                op["timer"] = Op("clear", e) /\ step["timer"] = "store"
           /\ e \notin eventFlag /\ e \in eventFlag' =>
                op["main"] = Op("set", e) /\ step["main"] = "store" ]_vars

\* The energy the server reads never runs ahead of the meter and never back.
EnergyMonotonic == [][snapshot' >= snapshot /\ snapshot' <= count']_vars

\* Once enabled, interrupts stay enabled for the main loop: whenever it is in
\* its own code and no interrupt is in progress, the next one can come.
MainRunsEnabled == Top = "main" /\ step["main"] = "none" => iflag

\* That is so as long as no byte is damaged.
EnabledUntilDamage == damaged \/ MainRunsEnabled

-----------------------------------------------------------------------------
(* Liveness.                                                               *)

\* As long as no byte is damaged, every frame that is handed over is handled and the
\* receiver is free again.
FrameHandled == "BUSY" \in eventFlag ~> "BUSY" \notin eventFlag \/ damaged

=============================================================================
