----------------------------- MODULE FlashTool ------------------------------
(***************************************************************************)
(* The tool that flashes U1 over the serial line (flashuc) and the         *)
(* bootloader at the other end of the line.                                *)
(*                                                                         *)
(* Every page of the program is a request of its own; all are queued at    *)
(* once and sent one at a time.  The bootloader echoes the command while   *)
(* it reads it ('@...'), programs the page and answers ('$...').  A        *)
(* request is known by the address of its page.  There are no timers:      *)
(* the constructor of Serial sets timeoutMillis to 0.                      *)
(*                                                                         *)
(* A string is handled when the character after it comes in: the echo      *)
(* with the '$' of the answer, the answer with its line end.               *)
(***************************************************************************)
EXTENDS Integers, Sequences, FiniteSetsExt, TLC

CONSTANTS Elfs,             \* the program tables an ELF file may hold
          PageSize, FlashStart, FlashEnd, BootAddr,
          ResetModes,       \* types of reset in the configuration
          None, Garbage,
          ResetRequest,     \* pending while the target is reset
          MisreadAnswers,   \* what an answer may be taken for by a bad line
          MaxNoise          \* bound: faults of the line and of the flash

ASSUME AddressAssumption ==
  /\ PageSize \in Nat \ {0} /\ FlashStart \in Nat /\ FlashEnd \in Nat /\ BootAddr \in Nat
  /\ {None, ResetRequest} \cap Int = {}

ASSUME NoiseAssumption == MaxNoise \in Nat

\* Garbage is no command.
ASSUME GarbageAssumption == Garbage \notin [address : Int, bytes : Seq(Int)] \cup {None}

VARIABLES
  elf, mode,     \* input: the ELF file and the type of the reset
  stage,         \* how far main() is
  serial,        \* Serial: its queue and what was written to the port
  target,        \* the bootloader
  flash,         \* the flash of the target, page by page
  answers,       \* what the target sent and the tool has not handled
  noise,         \* history: faults so far
  lost           \* history: a command vanished without a trace

vars == <<elf, mode, stage, serial, target, flash, answers, noise, lost>>

Pages == {a \in FlashStart..FlashEnd : (a - FlashStart) % PageSize = 0}

(***************************************************************************)
(* Device: the program is what the segments of type load hold, by address. *)
(***************************************************************************)
Loadable(p) == p.type = "load" /\ p.data # <<>> /\ p.paddr >= 0 /\ p.memsz > 0

ValidElf(e) ==
  /\ \A i \in DOMAIN e : Loadable(e[i]) => Len(e[i].data) = e[i].memsz
  /\ \E i \in DOMAIN e : Loadable(e[i])

\* The constructor of Device refuses any other file.
ProgramOf(e) == IF ValidElf(e)
                THEN SortSeq(SelectSeq(e, Loadable), LAMBDA p, q : p.paddr < q.paddr)
                ELSE <<>>

Program == ProgramOf(elf)

\* Mutant of Continued: a segment is always read from its first byte.
FromSegmentStart(bytes, p, addr) ==
  LET a == addr + Len(bytes) IN
  IF a \in p.paddr .. p.paddr + p.memsz - 1
  THEN bytes \o SubSeq(p.data, 1, Min({p.memsz, PageSize - Len(bytes)}))
  ELSE bytes

\* The bytes of a page found so far, continued by a segment that covers the address that
\* comes next.
Continued(bytes, p, addr) ==
  LET a == addr + Len(bytes) IN
  IF a \in p.paddr .. p.paddr + p.memsz - 1
  THEN bytes \o SubSeq(p.data, a - p.paddr + 1,
                       Min({p.memsz, a - p.paddr + PageSize - Len(bytes)}))
  ELSE bytes

\* The bytes of the program from addr on, at most a page of them.
MemoryOf(program, addr) ==
  LET bytes[n \in 0..Len(program)] ==
        IF n = 0 THEN <<>> ELSE Continued(bytes[n - 1], program[n], addr)
  IN  bytes[Len(program)]

FlashMemory(addr) == MemoryOf(Program, addr)

\* A program as a linker writes it: segments side by side in the flash, and each begins
\* with a page or where another one ends.  A gap inside a page is not filled by flashMemory:
\* the lines that would do so are never reached, and the bytes after the gap are left out.
SideBySide(program) ==
  /\ program \in Seq([type : {"load"}, paddr : Nat, memsz : Nat \ {0}, data : Seq(Int)])
  /\ \A i \in DOMAIN program :
       LET p == program[i] IN
       /\ Len(p.data) = p.memsz
       /\ FlashStart <= p.paddr /\ p.paddr + p.memsz - 1 <= FlashEnd
       /\ \A j \in DOMAIN program : i < j => p.paddr + p.memsz <= program[j].paddr
       /\ \/ (p.paddr - FlashStart) % PageSize = 0
          \/ \E j \in DOMAIN program : program[j].paddr + program[j].memsz = p.paddr

RegularElfs == \A e \in Elfs : SideBySide(ProgramOf(e))

Requests == {a \in Pages : FlashMemory(a) # <<>>}

\* The command '@0w': the address and the bytes, filled up to a multiple of 3.
Command(a) ==
  LET bytes   == FlashMemory(a)
      missing == (3 - ((Len(bytes) + 4) % 3)) % 3
  IN  [address |-> a, bytes |-> bytes \o [i \in 1..missing |-> 255]]

(***************************************************************************)
(* Serial.  Each operator yields the state of Serial after a call.         *)
(***************************************************************************)
Init ==
  /\ elf \in Elfs /\ mode \in ResetModes
  /\ stage = "start"
  /\ serial = [waiting |-> {}, pending |-> None, line |-> <<>>, writing |-> {},
               state |-> [a \in Pages |-> "none"], outcome |-> [a \in Pages |-> "none"]]
  /\ target \in [application : BOOLEAN, phase : {"idle"}, command : {None}]
  /\ flash = [a \in Pages |-> [i \in 1..PageSize |-> 0]]
  /\ answers = <<>> /\ noise = 0 /\ lost = FALSE

\* A promise is settled by the first call only.
Settled(outcome, addresses, value) ==
  [a \in Pages |-> IF a \in addresses /\ outcome[a] = "open" THEN value ELSE outcome[a]]

\* Mutant of SendNextRequest: the request stays in the queue.
SendWithoutRemoval(s) ==
  IF s.pending # None \/ s.waiting = {} THEN s
  ELSE LET a == Min(s.waiting) IN
       [s EXCEPT !.pending = a, !.writing = @ \union {a},
                 !.state[a] = "waitingForBytesWritten",
                 !.line = Append(@, [command |-> Command(a), overrun |-> FALSE])]

\* sendNextRequest.  The pages came in by their addresses, so the first one is the least.
\* What is sent while the target still answers may overrun the receiver of the target,
\* which does not read meanwhile.
SendNextRequest(s) ==
  IF s.pending # None \/ s.waiting = {} THEN s
  ELSE IF stage = "closed"
  THEN [s EXCEPT !.waiting = {}, !.outcome = Settled(@, s.waiting, "error")]
  ELSE LET a == Min(s.waiting) IN
       [s EXCEPT !.waiting = @ \ {a}, !.pending = a, !.writing = @ \union {a},
                 !.state[a] = "waitingForBytesWritten",
                 !.line = Append(@, [command |-> Command(a),
                                     overrun |-> target.phase = "answering"])]

\* The loop of Device.flash over the pages and the calls of send.
QueuePages ==
  SendNextRequest([serial EXCEPT
    !.pending = None,
    !.waiting = Requests,
    !.state   = [a \in Pages |-> IF a \in Requests THEN "waitingForSend" ELSE @[a]],
    !.outcome = [a \in Pages |-> IF a \in Requests THEN "open" ELSE @[a]]])

\* Mutant of Finalize: the next request is not sent.
FinalizeOnly(value) ==
  [serial EXCEPT !.pending = None, !.state[serial.pending] = "done",
                 !.outcome = Settled(@, {serial.pending}, value)]

\* finalizePendingSendRequest.
Finalize(value) ==
  SendNextRequest([serial EXCEPT !.pending = None, !.state[serial.pending] = "done",
                                 !.outcome = Settled(@, {serial.pending}, value)])

Pending(state) == serial.pending \in Pages /\ serial.state[serial.pending] = state

\* Mutant of ReceivedCmd: the echo is not compared with the command.
EchoUnchecked(command) ==
  IF serial.pending \notin Pages THEN serial
  ELSE IF Pending("waitingForCommand")
  THEN [serial EXCEPT !.state[serial.pending] = "waitingForResponse"]
  ELSE Finalize("error")

\* handleReceivedCmd.
ReceivedCmd(command) ==
  IF serial.pending \notin Pages THEN serial
  ELSE IF Pending("waitingForCommand") /\ command = Command(serial.pending)
  THEN [serial EXCEPT !.state[serial.pending] = "waitingForResponse"]
  ELSE Finalize("error")

\* handleReceivedResponse.  An answer without a byte counts as success: the
\* error made of it is lost in the variable of the catch clause.
ReceivedResponse(status) ==
  IF serial.pending \notin Pages THEN serial
  ELSE Finalize(IF Pending("waitingForResponse") /\ status \in {0, None} THEN "ok" ELSE "error")

(***************************************************************************)
(* main(): the ELF file is checked, the target is reset, the pages are     *)
(* queued, and when all are written or one failed the port is closed.      *)
(***************************************************************************)
\* Promise.all in Device.flash is settled.
Returned == \/ \E a \in Requests : serial.outcome[a] = "error"
            \/ \A a \in Requests : serial.outcome[a] = "ok"

\* Device and Serial.reset: a target with a reset of type user is not reset.
Start ==
  /\ stage = "start"
  /\ IF ~ValidElf(elf) THEN stage' = "failed" /\ UNCHANGED serial
     ELSE IF mode = "user" THEN stage' = "flashing" /\ serial' = QueuePages
     ELSE stage' = "reset" /\ serial' = [serial EXCEPT !.pending = ResetRequest]
  /\ UNCHANGED <<elf, mode, target, flash, answers, noise, lost>>

\* Gpio.setup and Gpio.setPin; the bootloader starts and sends its id.
ResetTarget ==
  /\ stage = "reset" /\ stage' = "awaitId"
  /\ target' = [application |-> FALSE, phase |-> "idle", command |-> None]
  /\ answers' = <<[kind |-> "id"]>>
  /\ UNCHANGED <<elf, mode, serial, flash, noise, lost>>

\* An error of the GPIO, or no id within 500 ms: main() ends the process.
ResetFails ==
  /\ stage \in {"reset", "awaitId"} /\ stage' = "failed"
  /\ UNCHANGED <<elf, mode, serial, target, flash, answers, noise, lost>>

Close ==
  /\ stage = "flashing" /\ Returned /\ stage' = "closed"
  /\ UNCHANGED <<elf, mode, serial, target, flash, answers, noise, lost>>

\* The callback of port.write; what follows the last promise comes before it.
Callback(a) == a \in serial.writing /\ (stage = "closed" \/ ~Returned)

WriteDone(a) ==
  /\ Callback(a)
  /\ serial' = [serial EXCEPT !.state[a] = "waitingForCommand", !.writing = @ \ {a}]
  /\ UNCHANGED <<elf, mode, stage, target, flash, answers, noise, lost>>

Without(line, a) == SelectSeq(line, LAMBDA w : w.command.address # a)

WriteFails(a) ==
  /\ Callback(a) /\ noise < MaxNoise /\ noise' = noise + 1
  /\ \E i \in DOMAIN serial.line : serial.line[i].command.address = a
  /\ serial' = SendNextRequest(
       [serial EXCEPT !.writing = @ \ {a}, !.outcome = Settled(@, {a}, "error"),
                      !.pending = IF @ = a THEN None ELSE @,
                      !.line = Without(@, a)])
  /\ UNCHANGED <<elf, mode, stage, target, flash, answers, lost>>

(***************************************************************************)
(* handleData: the next string is complete.  A bad line may change it, or  *)
(* hide the character it begins with, so that it is not seen or belongs    *)
(* to the string before (of an echo and its answer, one of the two).       *)
(***************************************************************************)
Complete == answers # <<>> /\ (Len(answers) > 1 \/ target.phase # "answering")
Listening == stage \in {"awaitId", "flashing"}
Fault == noise < MaxNoise /\ noise' = noise + 1

\* updateId, which the promise of reset() waits for.
ReceiveId ==
  /\ Listening /\ Complete /\ Head(answers).kind = "id"
  /\ IF stage = "awaitId" THEN stage' = "flashing" /\ serial' = QueuePages
                          ELSE UNCHANGED <<stage, serial>>
  /\ answers' = Tail(answers)
  /\ UNCHANGED <<elf, mode, target, flash, noise, lost>>

ReceiveEcho ==
  /\ Listening /\ Len(answers) > 1 /\ Head(answers).kind = "echo"
  /\ \/ /\ serial' = ReceivedCmd(Head(answers).command)
        /\ answers' = Tail(answers) /\ UNCHANGED noise
     \/ Fault /\ serial' = ReceivedCmd(Garbage) /\ answers' = Tail(answers)
     \/ Fault /\ UNCHANGED serial /\ answers' = Tail(answers)
     \/ Fault /\ serial' = ReceivedCmd(Garbage) /\ answers' = Tail(Tail(answers))
  /\ UNCHANGED <<elf, mode, stage, target, flash, lost>>

ReceiveResponse ==
  /\ Listening /\ Complete /\ Head(answers).kind = "response"
  /\ answers' = Tail(answers)
  /\ \/ serial' = ReceivedResponse(Head(answers).status) /\ UNCHANGED noise
     \/ Fault /\ \E status \in MisreadAnswers : serial' = ReceivedResponse(status)
  /\ UNCHANGED <<elf, mode, stage, target, flash, lost>>

(***************************************************************************)
(* The bootloader of the target.                                           *)
(***************************************************************************)
\* What may be read instead of a command: another address, another byte, or
\* something that is no command at all.
Misread(c) ==
  {[c EXCEPT !.address = a] : a \in Pages \ {c.address}}
    \union {[c EXCEPT !.bytes[1] = 255 - @], Garbage}

Sent == Head(serial.line)
TakeCommand == /\ serial.line # <<>> /\ target.phase = "idle"
               /\ serial' = [serial EXCEPT !.line = Tail(@)]

\* executeCommand reads up to the line end and echoes what it reads.
ReadCommand ==
  /\ TakeCommand /\ ~target.application
  /\ \E c \in {Sent.command} \union Misread(Sent.command) :
       /\ c = Sent.command \/ Sent.overrun \/ noise < MaxNoise
       /\ noise' = IF c = Sent.command \/ Sent.overrun THEN noise ELSE noise + 1
       /\ target' = [target EXCEPT !.phase = "busy", !.command = c]
       /\ answers' = Append(answers, [kind |-> "echo", command |-> c])
  /\ UNCHANGED <<elf, mode, stage, flash, lost>>

\* The '@' or the line end is not seen, or the application runs, which does
\* not know the command.
CommandLost ==
  /\ TakeCommand /\ lost' = TRUE
  /\ target.application \/ Sent.overrun \/ noise < MaxNoise
  /\ noise' = IF target.application \/ Sent.overrun THEN noise ELSE noise + 1
  /\ UNCHANGED <<elf, mode, stage, target, flash, answers>>

\* writeFlashSegment: missing bytes are filled, the page is programmed and
\* verified.  The page at BootAddr itself is let through.
Filled(bytes) == [i \in 1..PageSize |-> IF i <= Len(bytes) THEN bytes[i] ELSE 255]

Respond(status) ==
  /\ target' = [target EXCEPT !.phase = "answering", !.command = None]
  /\ answers' = Append(answers, [kind |-> "response", status |-> status])

Execute ==
  /\ target.phase = "busy"
  /\ LET c == target.command IN
     \/ c = Garbage /\ Respond(1) /\ UNCHANGED <<flash, noise>>
     \/ c # Garbage /\ c.address > BootAddr /\ Respond(5) /\ UNCHANGED <<flash, noise>>
     \/ /\ c # Garbage /\ c.address <= BootAddr
        /\ flash' = [flash EXCEPT ![c.address] = Filled(c.bytes)]
        /\ Respond(0) /\ UNCHANGED noise
     \/ /\ c # Garbage /\ c.address <= BootAddr /\ Fault
        /\ flash' = [flash EXCEPT ![c.address] = [Filled(c.bytes) EXCEPT ![1] = 255 - @]]
        /\ Respond(3)
  /\ UNCHANGED <<elf, mode, stage, serial, lost>>

Answered ==
  /\ target.phase = "answering" /\ target' = [target EXCEPT !.phase = "idle"]
  /\ UNCHANGED <<elf, mode, stage, serial, flash, answers, noise, lost>>

\* No byte for a while: the application is started.
StartApplication ==
  /\ ~target.application /\ target.phase = "idle"
  /\ target' = [target EXCEPT !.application = TRUE]
  /\ UNCHANGED <<elf, mode, stage, serial, flash, answers, noise, lost>>

Tool == \/ Start \/ ResetTarget \/ ResetFails \/ Close
        \/ ReceiveId \/ ReceiveEcho \/ ReceiveResponse
        \/ \E a \in Pages : WriteDone(a) \/ WriteFails(a)

Bootloader == ReadCommand \/ CommandLost \/ Execute \/ Answered

Next == Tool \/ Bootloader \/ StartApplication

\* Every promise, callback and timer of the tool gets its turn, and so does
\* the loop of the bootloader.
Spec == Init /\ [][Next]_vars /\ WF_vars(Tool) /\ WF_vars(Bootloader)

(***************************************************************************)
(* Properties.                                                             *)
(***************************************************************************)
\* The queue holds the requests that were not sent yet, and the request under way is not done (serial.ts 246-446).
TypeOK ==
  /\ stage \in {"start", "reset", "awaitId", "flashing", "closed", "failed"}
  /\ serial.pending \in Requests \union {None, ResetRequest}
  /\ serial.pending \in Pages => serial.state[serial.pending] # "done"
  /\ serial.waiting = {a \in Pages : serial.state[a] = "waitingForSend"
                                     /\ serial.outcome[a] = "open"}
  /\ target.phase \in {"idle", "busy", "answering"}
  /\ noise \in 0..MaxNoise

\* A page is reported as written only when the flash holds its bytes, also
\* when echoes and answers of an earlier page come late (serial.ts 311-402).
OkMeansProgrammed ==
  [][\A a \in Pages : serial.outcome[a] = "open" /\ serial'.outcome[a] = "ok"
       => flash[a] = Filled(FlashMemory(a))]_vars

\* When the tool reports success, every byte of the program is in the flash:
\* no command misread before has spoilt a page that was written already
\* (device.ts 51-95, 144-174).
SuccessMeansFlashed ==
  stage = "closed" /\ (\A a \in Requests : serial.outcome[a] = "ok") =>
    \A i \in DOMAIN Program : \A k \in 1..Program[i].memsz :
      LET addr   == Program[i].paddr + k - 1
          offset == (addr - FlashStart) % PageSize
      IN  flash[addr - offset][offset + 1] = Program[i].data[k]

\* As long as no command vanishes on the line, the tool ends (serial.ts 404-446).
FlashEnds == <>(lost \/ stage \in {"closed", "failed"})
=============================================================================
