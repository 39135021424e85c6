---------------------------- MODULE ModbusSerial ----------------------------
(***************************************************************************)
(* The Modbus-ASCII master of the hot water controller server (class       *)
(* ModbusSerial, modbus-serial.ts): one queue of pending jobs in front of  *)
(* one serial line, a timer per request and a timer per transmission, the  *)
(* reset of the target over a GPIO pin, and the lock that keeps callers    *)
(* out while a reset runs.                                                 *)
(*                                                                         *)
(* The program runs on the node.js event loop.  A callback runs to         *)
(* completion, then the process.nextTick queue is drained, then the next   *)
(* callback runs.  Every action below is one callback, one nextTick entry, *)
(* or one turn of the loop over the frames of a data event.                *)
(***************************************************************************)
EXTENDS Naturals, Sequences, FiniteSets

CONSTANTS
  Requests,    \* ModbusRequest objects that can be alive at the same time
  Resets,      \* IResetRequest objects that can be alive at the same time
  NoJob,       \* the job of a nextTick entry that has none
  NoMsg,       \* "no response yet"
  Frames,      \* the byte strings a request can be made of
  FrameOf,     \* the bytes of each request
  Writes,      \* requests whose regular answer repeats the request (code 0x06)
  ErrLimit,    \* consecutive errors after which the target is reset (10)
  ResetMode,   \* what the configuration says about resetting the target
  SameTimeout, \* every send() passes the same timeoutMillis, shorter than 5 s
  Callers,     \* callers of send() that wait for an answer at the same time
  Faults       \* what may go wrong on the line and around it

(***************************************************************************)
(* "lost" a request or its answer does not arrive; "garbled" the echo or   *)
(* the answer arrives as some other frame; "late" a frame may arrive after *)
(* a timer that waits for it; "writeError" the write callback reports an   *)
(* error; "slowWrite" the write callback may come after other events;      *)
(* "noBoot" the bootloader text is not heard; "gpio" a GPIO call fails.    *)
(***************************************************************************)
AllFaults ==
  {"lost", "garbled", "late", "writeError", "slowWrite", "noBoot", "gpio"}

ASSUME SerialAssumption ==
  /\ Requests \cap Resets = {}
  /\ NoJob \notin Requests \cup Resets
  /\ FrameOf \in [Requests -> Frames]
  /\ Writes \subseteq Requests
  /\ ErrLimit \in Nat \ {0}
  /\ ResetMode \in {"noDevice", "none", "user", "gpio"}
  /\ SameTimeout \in BOOLEAN
  /\ Callers \in Nat \ {0}
  /\ Faults \subseteq AllFaults

VARIABLES
  port,        \* the serial port and the promise of open()
  lockedBy,    \* _lockedBy
  receive,     \* _receive: what handleOnSerialData does with bytes
  pending,     \* _pending, the job queue
  timer,       \* requests whose timer (armed by send) is running
  timerModbus, \* requests whose timerModbus (800 ms) is running
  errCnt,      \* _errCnt
  sentAt,      \* requests with _sentAt set
  echoed,      \* requests with _requestReceived set
  failed,      \* requests with _error set
  response,    \* _response of each request
  outcome,     \* the promise send() returned for each request
  ticks,       \* the process.nextTick queue
  writing,     \* frames given to serialPort.write, callback outstanding
  bus,         \* frames on their way to the master
  chunk,       \* frames of the data event being handled
  resetAt,     \* how far resetTarget has got for each reset request
  escaped,     \* exceptions that left a callback
  alive        \* the process is running

requVars  == <<sentAt, echoed, failed, response, outcome>>
timerVars == <<timer, timerModbus>>
resetVars == <<lockedBy, receive, resetAt>>
lineVars  == <<writing, bus>>
procVars  == <<escaped, alive>>
vars == <<port, pending, errCnt, ticks, chunk, requVars, timerVars, resetVars,
          lineVars, procVars>>

Jobs     == Requests \cup Resets
Messages == [kind : {"echo", "answer", "noise"}, src : Requests]
ASSUME NoMsgAssumption == NoMsg \notin Messages

Ticks    == [kind : {"write", "reject"}, job : Jobs]
              \cup [kind : {"resetTargets"}, job : {NoJob}]
Stages   == {"off", "first", "second"}
Escapes  == {"sentAt already set", "response/error already set",
             "no pending request"}

TypeOK ==
  /\ port \in {"new", "opening", "open", "failed", "closed"}
  /\ lockedBy \in {"none", "resetTargets", "resetTarget"}
  /\ receive \in {"drop", "chars", "frames"}
  /\ pending \in Seq(Jobs)
  /\ timer \subseteq Requests
  /\ timerModbus \subseteq Requests
  /\ errCnt \in 0..(ErrLimit - 1)
  /\ sentAt \subseteq Requests
  /\ echoed \subseteq Requests
  /\ failed \subseteq Requests
  /\ response \in [Requests -> Messages \cup {NoMsg}]
  /\ outcome \in [Requests -> {"fresh", "open", "resolved", "rejected"}]
  /\ ticks \in Seq(Ticks)
  /\ writing \in Seq([requ : Requests, ok : BOOLEAN])
  /\ bus \in Seq(Messages)
  /\ chunk \in Seq(Messages)
  /\ resetAt \in [Resets -> Stages]
  /\ escaped \subseteq Escapes
  /\ alive \in BOOLEAN

Init ==
  /\ port = "new"
  /\ lockedBy = "none"
  /\ receive = "drop"
  /\ pending = <<>>
  /\ timer = {}
  /\ timerModbus = {}
  /\ errCnt = 0
  /\ sentAt = {}
  /\ echoed = {}
  /\ failed = {}
  /\ response = [r \in Requests |-> NoMsg]
  /\ outcome = [r \in Requests |-> "fresh"]
  /\ ticks = <<>>
  /\ writing = <<>>
  /\ bus = <<>>
  /\ chunk = <<>>
  /\ resetAt = [x \in Resets |-> "off"]
  /\ escaped = {}
  /\ alive = TRUE

-----------------------------------------------------------------------------
Elements(s) == {s[i] : i \in 1..Len(s)}

\* The call stack is empty and the nextTick queue is drained: the event loop
\* picks the next callback.
Idle == alive /\ chunk = <<>> /\ ticks = <<>>

\* Without slowWrite the write callback is the next one.
Settled == Idle /\ ("slowWrite" \in Faults \/ writing = <<>>)

\* Without late frames a timer waits for what is still on the line.
TimerTurn == Settled /\ ("late" \in Faults \/ bus = <<>>)

\* A reset waits 5 s or more behind a lock: shorter timers expire before.
ResetTurn == Settled /\ (SameTimeout => timer \cup timerModbus = {})

Tick(kind, job) == [kind |-> kind, job |-> job]

\* A changed program: only the job at the head of the queue is told.
SettleHead(j, how) ==
  outcome' = IF j \in Requests /\ outcome[j] = "open" /\ pending # <<>> /\ Head(pending) = j
             THEN [outcome EXCEPT ![j] = how] ELSE outcome

\* Promise settlement: only the first resolve or reject counts.  Nobody holds
\* the promise of a reset request.
Settle(j, how) ==
  outcome' = IF j \in Requests /\ outcome[j] = "open"
             THEN [outcome EXCEPT ![j] = how] ELSE outcome

\* A changed program: the transmission timer keeps running.
ClearTimersHalf(jobs) ==
  /\ timer' = timer \ jobs
  /\ UNCHANGED timerModbus

ClearTimers(jobs) ==
  /\ timer' = timer \ jobs
  /\ timerModbus' = timerModbus \ jobs

Rest(s) == IF s = <<>> THEN s ELSE Tail(s)

\* A changed program: the counter passes the limit.
CountErrorLate == IF errCnt > ErrLimit THEN 0 ELSE errCnt + 1

CountError == IF errCnt + 1 >= ErrLimit THEN 0 ELSE errCnt + 1

\* A changed program: an error leaves the rest of the queue alone.
WriteNextForgotten(q) == <<>>

\* The write() of the queue's new head.
WriteNext(q) == IF q = <<>> THEN <<>> ELSE <<Tick("write", Head(q))>>

(***************************************************************************)
(* handleError(r): drops the head of the queue, counts the error, settles  *)
(* r and has the new head written.  q is the nextTick queue it adds to.    *)
(***************************************************************************)
handleError(r, q) ==
  LET reset == IF errCnt + 1 >= ErrLimit
               THEN <<Tick("resetTargets", NoJob)>> ELSE <<>>
  IN  /\ pending' = Rest(pending)
      /\ errCnt' = CountError
      /\ ticks' = q \o reset \o WriteNext(Rest(pending))
      /\ failed' = failed \cup ({r} \cap Requests)
      /\ ClearTimers({r})
      /\ Settle(r, "rejected")

\* resetTarget(x) up to its first await; with a "user" reset it returns at once.
resetTarget(x) ==
  IF ResetMode = "gpio"
  THEN /\ lockedBy' = "resetTarget"
       /\ receive' = "chars"
       /\ resetAt' = [resetAt EXCEPT ![x] = "first"]
  ELSE UNCHANGED resetVars

\* execute(pending[0]) when the queue is p, if it has a head: a request is
\* written on a later tick, a reset starts at once.
ExecuteTicks(p, q) ==
  IF p # <<>> /\ Head(p) \in Requests THEN q \o WriteNext(p) ELSE q

ExecuteHead(p, q) ==
  /\ ticks' = ExecuteTicks(p, q)
  /\ IF p # <<>> /\ Head(p) \in Resets
     THEN resetTarget(Head(p)) ELSE UNCHANGED resetVars

\* A changed program: an answered request stays in the queue.
WithoutHeadKept(r) == pending

\* What handleSuccess(r) leaves of the queue: only r itself is removed.
WithoutHead(r) ==
  IF pending # <<>> /\ Head(pending) = r THEN Tail(pending) ELSE pending

-----------------------------------------------------------------------------
(* Opening and closing the port, resetTargets.                             *)

FreeReset(x) ==
  /\ resetAt[x] = "off"
  /\ x \notin Elements(pending)
  /\ \A t \in Elements(ticks) : t.job # x

\* A changed program: the last job is not told.
RejectsButLast(jobs) == [i \in 1..(Len(jobs) - 1) |-> Tick("reject", jobs[i])]

Rejects(jobs) == [i \in 1..Len(jobs) |-> Tick("reject", jobs[i])]

(***************************************************************************)
(* resetTargets(): takes the lock, cancels every pending job (each promise *)
(* is rejected on a later tick) and queues one reset for the device of     *)
(* this line, which starts at once.  Where the device has no reset, or a   *)
(* "user" one, nobody gives the lock back.  q is the nextTick queue.       *)
(***************************************************************************)
resetTargets(q) ==
  IF ResetMode = "noDevice"
  THEN /\ ticks' = q
       /\ UNCHANGED <<pending, errCnt, requVars, timerVars, resetVars>>
  ELSE /\ ClearTimers(Elements(pending))
       /\ failed' = failed \cup (Elements(pending) \cap Requests)
       /\ ticks' = q \o Rejects(pending)
       /\ \E x \in Resets :
            /\ FreeReset(x)
            /\ pending' = IF ResetMode = "none" THEN <<>> ELSE <<x>>
            /\ IF ResetMode = "gpio" THEN resetTarget(x)
               ELSE lockedBy' = "resetTargets" /\ UNCHANGED <<receive, resetAt>>
       /\ UNCHANGED <<errCnt, sentAt, echoed, response, outcome>>

Open ==
  /\ Idle /\ port = "new"
  /\ port' = "opening"
  /\ receive' = "drop"
  /\ UNCHANGED <<pending, errCnt, ticks, chunk, requVars, timerVars, lockedBy,
                 resetAt, lineVars, procVars>>

PortOpened ==
  /\ Idle /\ port = "opening"
  /\ port' = "open"
  /\ resetTargets(ticks)
  /\ UNCHANGED <<chunk, lineVars, procVars>>

\* The open callback reports an error: _openPromise is rejected but kept.
PortOpenFails ==
  /\ Idle /\ port = "opening"
  /\ port' = "failed"
  /\ UNCHANGED <<pending, errCnt, ticks, chunk, requVars, timerVars, resetVars,
                 lineVars, procVars>>

\* close() leaves pending jobs alone; later writes report an error.
Close ==
  /\ Idle /\ port = "open"
  /\ port' = "closed"
  /\ UNCHANGED <<pending, errCnt, ticks, chunk, requVars, timerVars, resetVars,
                 lineVars, procVars>>

-----------------------------------------------------------------------------
(* send() and the transmission of a request.                               *)

\* Nothing refers to r any more: the name may stand for a new object.
Unused(r) ==
  /\ outcome[r] # "open"
  /\ r \notin Elements(pending)
  /\ r \notin timer \cup timerModbus
  /\ \A t \in Elements(ticks) : t.job # r
  /\ \A w \in Elements(writing) : w.requ # r
  /\ \A m \in Elements(bus \o chunk) : m.src # r

Waiting == {r \in Requests : outcome[r] = "open"}

(***************************************************************************)
(* send(): refused (and nothing changes) before the port is open and while *)
(* it is locked.  Two sends in one callback commute with the write ticks   *)
(* they queue, so it is enough to let the ticks run first.                 *)
(***************************************************************************)
send(r) ==
  /\ Idle
  /\ port \in {"open", "closed"}
  /\ lockedBy = "none"
  /\ Unused(r)
  /\ Cardinality(Waiting) < Callers
  /\ pending' = Append(pending, r)
  /\ timer' = timer \cup {r}
  /\ outcome' = [outcome EXCEPT ![r] = "open"]
  /\ sentAt' = sentAt \ {r}
  /\ echoed' = echoed \ {r}
  /\ failed' = failed \ {r}
  /\ response' = [response EXCEPT ![r] = NoMsg]
  /\ ticks' = IF pending = <<>> THEN <<Tick("write", r)>> ELSE ticks
  /\ UNCHANGED <<port, errCnt, chunk, timerModbus, resetVars, lineVars, procVars>>

Msg(kind, r) == [kind |-> kind, src |-> r]

\* What comes back for a request: the target echoes every byte, then answers.
LineOutcomes(r) ==
  {<<Msg("echo", r), Msg("answer", r)>>}
    \cup (IF "lost" \in Faults
          THEN {<<>>, <<Msg("echo", r)>>} ELSE {})
    \cup (IF "garbled" \in Faults
          THEN {<<Msg("noise", r), Msg("answer", r)>>,
                <<Msg("echo", r), Msg("noise", r)>>} ELSE {})

WriteFails == port # "open" \/ "writeError" \in Faults

\* The nextTick of write(): gives the frame to the serial port.
WriteTick ==
  /\ alive /\ chunk = <<>> /\ ticks # <<>> /\ Head(ticks).kind = "write"
  /\ LET j == Head(ticks).job IN
     IF j \in Requests
     THEN /\ \/ /\ port = "open"
                /\ writing' = Append(writing, [requ |-> j, ok |-> TRUE])
                /\ \E out \in LineOutcomes(j) : bus' = bus \o out
             \/ /\ WriteFails
                /\ writing' = Append(writing, [requ |-> j, ok |-> FALSE])
                /\ bus' = bus
          /\ ticks' = Tail(ticks)
          /\ UNCHANGED <<pending, errCnt, requVars, timerVars>>
     ELSE /\ handleError(j, Tail(ticks))
          /\ UNCHANGED <<sentAt, echoed, response, lineVars>>
  /\ UNCHANGED <<port, chunk, resetVars, procVars>>

\* An exception leaves the callback: the process ends, or the library that
\* called it swallows the exception (the stream reader runs it in a promise).
Escape(what) ==
  /\ escaped' = escaped \cup {what}
  /\ alive' \in BOOLEAN

\* The callback of serialPort.write.
WriteDone ==
  /\ Idle /\ writing # <<>>
  /\ writing' = Tail(writing)
  /\ LET r == Head(writing).requ IN
     \/ /\ ~Head(writing).ok
        /\ handleError(r, ticks)
        /\ UNCHANGED <<sentAt, echoed, response, procVars>>
     \/ /\ Head(writing).ok
        /\ IF r \in sentAt
           THEN /\ Escape("sentAt already set")
                /\ UNCHANGED <<sentAt, timerModbus>>
           ELSE /\ sentAt' = sentAt \cup {r}
                /\ timerModbus' = timerModbus \cup {r}
                /\ UNCHANGED procVars
        /\ UNCHANGED <<pending, errCnt, ticks, echoed, failed, response, outcome, timer>>
  /\ UNCHANGED <<port, chunk, resetVars, bus>>

\* Requests that send() queued before r and whose timers still run: those that
\* left the queue unsettled and those ahead of r in it.
TimersBefore(r) ==
  {s \in timer : \/ s \notin Elements(pending) /\ r \in Elements(pending)
                 \/ \E i, j \in 1..Len(pending) :
                      i < j /\ pending[i] = s /\ pending[j] = r}

\* One of the timers of r expires; handleTimeout() clears the other one.
\* Timers of the same length expire in the order in which they were started.
handleTimeout(r, modbusTimeout) ==
  /\ TimerTurn
  /\ IF modbusTimeout THEN r \in timerModbus
     ELSE r \in timer /\ (SameTimeout => TimersBefore(r) = {})
  /\ handleError(r, ticks)
  /\ UNCHANGED <<port, chunk, sentAt, echoed, response, resetVars, lineVars, procVars>>

\* process.nextTick of resetTargets(): reject the promise of a cancelled job.
RejectTick ==
  /\ alive /\ chunk = <<>> /\ ticks # <<>> /\ Head(ticks).kind = "reject"
  /\ Settle(Head(ticks).job, "rejected")
  /\ ticks' = Tail(ticks)
  /\ UNCHANGED <<port, pending, errCnt, chunk, sentAt, echoed, failed, response,
                 timerVars, resetVars, lineVars, procVars>>

\* process.nextTick of handleError() at the error limit.
ResetTargetsTick ==
  /\ alive /\ chunk = <<>> /\ ticks # <<>> /\ Head(ticks).kind = "resetTargets"
  /\ resetTargets(Tail(ticks))
  /\ UNCHANGED <<port, chunk, lineVars, procVars>>

-----------------------------------------------------------------------------
(* Reception.                                                              *)

\* The bytes of m are those of request r.
SameBytes(m, r) ==
  /\ \/ m.kind = "echo"
     \/ m.kind = "answer" /\ m.src \in Writes
  /\ FrameOf[m.src] = FrameOf[r]

\* A data event with the next n frames.
handleOnSerialData(n) ==
  /\ Settled /\ n \in 1..Len(bus)
  /\ bus' = SubSeq(bus, n + 1, Len(bus))
  /\ chunk' = IF receive = "frames" /\ pending # <<>>
              THEN SubSeq(bus, 1, n) ELSE <<>>
  /\ UNCHANGED <<port, pending, errCnt, ticks, requVars, timerVars, resetVars,
                 writing, procVars>>

\* A changed program: the first frame is already taken for the response.
NoEchoAwaited(r) == FALSE

AwaitsEcho(r) == r \notin echoed

(***************************************************************************)
(* One frame of the data event, taken to belong to the head of the queue:  *)
(* the echo of the request first, then the response.                       *)
(***************************************************************************)
FrameWithoutHead ==
  /\ alive /\ chunk # <<>> /\ pending = <<>>
  /\ Escape("no pending request")
  /\ chunk' = <<>>
  /\ UNCHANGED <<port, pending, errCnt, ticks, requVars, timerVars, resetVars, lineVars>>

FrameForReset ==
  /\ alive /\ chunk # <<>> /\ pending # <<>> /\ Head(pending) \in Resets
  /\ handleError(Head(pending), ticks)
  /\ chunk' = <<>>
  /\ UNCHANGED <<port, sentAt, echoed, response, resetVars, lineVars, procVars>>

FrameAsEcho ==
  /\ alive /\ chunk # <<>> /\ pending # <<>>
  /\ LET r == Head(pending) IN
     /\ r \in Requests /\ AwaitsEcho(r)
     /\ echoed' = IF SameBytes(Head(chunk), r) THEN echoed \cup {r} ELSE echoed
  /\ errCnt' = 0
  /\ chunk' = Tail(chunk)
  /\ UNCHANGED <<port, pending, ticks, sentAt, failed, response, outcome, timerVars,
                 resetVars, lineVars, procVars>>

FrameAsResponse ==
  /\ alive /\ chunk # <<>> /\ pending # <<>>
  /\ LET r == Head(pending)
         m == Head(chunk)
     IN  /\ r \in Requests /\ ~AwaitsEcho(r)
         /\ IF r \in failed \/ response[r] # NoMsg
            THEN /\ Escape("response/error already set")
                 /\ chunk' = <<>>
                 /\ UNCHANGED <<pending, ticks, response, outcome, timerVars, resetVars>>
            ELSE /\ response' = [response EXCEPT ![r] = m]
                 /\ chunk' = Tail(chunk)
                 /\ pending' = WithoutHead(r)
                 /\ ClearTimers({r})
                 /\ Settle(r, "resolved")
                 /\ ExecuteHead(WithoutHead(r), ticks)
                 /\ UNCHANGED procVars
  /\ errCnt' = 0
  /\ UNCHANGED <<port, sentAt, echoed, failed, lineVars>>

-----------------------------------------------------------------------------
(* resetTarget(x) after its awaits.                                        *)

\* A changed program: the lock is not given back.
ReleaseForgotten ==
  /\ UNCHANGED lockedBy
  /\ receive' = "frames"

\* The finally block of resetTarget.
Release ==
  /\ lockedBy' = "none"
  /\ receive' = "frames"

\* The bootloader text was heard: handleSuccess(x), then the finally block,
\* which also undoes what a reset started by handleSuccess has set up.
ResetHeard(x) ==
  /\ ResetTurn /\ resetAt[x] # "off"
  /\ pending' = WithoutHead(x)
  /\ ticks' = ExecuteTicks(WithoutHead(x), ticks)
  /\ resetAt' = [y \in Resets |->
                   IF WithoutHead(x) # <<>> /\ y = Head(WithoutHead(x)) THEN "first"
                   ELSE IF y = x THEN "off" ELSE resetAt[y]]
  /\ Release
  /\ UNCHANGED <<port, errCnt, chunk, requVars, timerVars, lineVars, procVars>>

\* A changed program: the second attempt runs without the lock.
ResetAgainUnlocked(x) ==
  /\ ResetTurn /\ resetAt[x] = "first" /\ "noBoot" \in Faults
  /\ resetAt' = [resetAt EXCEPT ![x] = "second"]
  /\ lockedBy' = "none" /\ receive' = "chars"
  /\ UNCHANGED <<port, pending, errCnt, ticks, chunk, requVars, timerVars,
                 lineVars, procVars>>

\* Nothing heard after 5 s: a second, longer reset.
ResetAgain(x) ==
  /\ ResetTurn /\ resetAt[x] = "first" /\ "noBoot" \in Faults
  /\ resetAt' = [resetAt EXCEPT ![x] = "second"]
  /\ receive' = "chars"
  /\ UNCHANGED <<port, pending, errCnt, ticks, chunk, requVars, timerVars, lockedBy,
                 lineVars, procVars>>

\* Nothing heard again: the lock is released, the job stays in the queue.
ResetFails(x) ==
  /\ ResetTurn /\ resetAt[x] = "second" /\ "noBoot" \in Faults
  /\ resetAt' = [resetAt EXCEPT ![x] = "off"]
  /\ Release
  /\ UNCHANGED <<port, pending, errCnt, ticks, chunk, requVars, timerVars,
                 lineVars, procVars>>

\* A GPIO call rejects: handleError(x), then the finally block.
ResetThrows(x) ==
  /\ Settled /\ resetAt[x] # "off" /\ "gpio" \in Faults
  /\ handleError(x, ticks)
  /\ resetAt' = [resetAt EXCEPT ![x] = "off"]
  /\ Release
  /\ UNCHANGED <<port, chunk, sentAt, echoed, response, lineVars, procVars>>

\* The process has ended or the program never got its port.
Stopped ==
  /\ ~alive \/ port = "failed"
  /\ UNCHANGED vars

ResetStep(x) ==
  \/ ResetHeard(x)
  \/ ResetAgain(x)
  \/ ResetFails(x)
  \/ ResetThrows(x)

TickStep == WriteTick \/ RejectTick \/ ResetTargetsTick

FrameStep ==
  \/ FrameWithoutHead
  \/ FrameForReset
  \/ FrameAsEcho
  \/ FrameAsResponse

Next ==
  \/ Open
  \/ PortOpened
  \/ PortOpenFails
  \/ Close
  \/ \E r \in Requests : send(r)
  \/ \E r \in Requests, modbusTimeout \in BOOLEAN : handleTimeout(r, modbusTimeout)
  \/ \E n \in 1..Len(bus) : handleOnSerialData(n)
  \/ WriteDone
  \/ TickStep
  \/ FrameStep
  \/ \E x \in Resets : ResetStep(x)
  \/ Stopped

Spec == Init /\ [][Next]_vars

(***************************************************************************)
(* The event loop runs every callback that stays due: the nextTick queue,  *)
(* write callbacks, received data, expired timers and the GPIO and delay   *)
(* callbacks of a reset.  Other callbacks come in between, so the ones     *)
(* that wait for an empty call stack are strongly fair.  Nothing makes a   *)
(* caller send or the target answer.                                       *)
(***************************************************************************)
Fairness ==
  /\ WF_vars(PortOpened \/ PortOpenFails)
  /\ WF_vars(TickStep)
  /\ WF_vars(FrameStep)
  /\ SF_vars(WriteDone)
  /\ SF_vars(\E n \in 1..Len(bus) : handleOnSerialData(n))
  /\ \A r \in Requests :
       SF_vars(\E modbusTimeout \in BOOLEAN : handleTimeout(r, modbusTimeout))
  /\ \A x \in Resets : SF_vars(ResetStep(x))

FairSpec == Spec /\ Fairness

-----------------------------------------------------------------------------
(* Safety.                                                                 *)

\* A caller of send() that still waits is guarded: its timer runs, or its
\* rejection by resetTargets is already queued.  No await of send() can hang.
CallerGuarded ==
  \A r \in Waiting : r \in timer \/ Tick("reject", r) \in Elements(ticks)

\* Whenever the event loop waits, the request at the head of the queue is on
\* its way: its frame is being written or its 800 ms timer runs.  The queue
\* cannot wedge behind a request that nobody writes.
HeadInProgress ==
  /\ Idle
  /\ pending # <<>> /\ Head(pending) \in Requests
  /\ "sentAt already set" \notin escaped
  => \/ Head(pending) \in timerModbus
     \/ \E w \in Elements(writing) : w.requ = Head(pending)

\* However errors, cancellations and resets interleave, no request object is
\* given to the serial port a second time once it was sent.
WrittenOnce == "sentAt already set" \notin escaped

\* At most one reset sequence drives the GPIO pin, and callers are locked out
\* for as long as it runs.
ResetExclusive ==
  /\ \A x, y \in Resets : resetAt[x] # "off" /\ resetAt[y] # "off" => x = y
  /\ (\E x \in Resets : resetAt[x] # "off") => lockedBy # "none"

\* A request leaves the queue only when its own promise is settled or about
\* to be: no request is thrown out for the sake of another job.
LeavesWhenSettled ==
  [][\A r \in Requests :
       r \in Elements(pending) /\ r \notin Elements(pending')
         => \/ outcome'[r] # "open"
            \/ Tick("reject", r) \in Elements(ticks')]_vars

\* No exception of the model's setters leaves a callback of the event loop.
NothingEscapes == escaped = {}

-----------------------------------------------------------------------------
(* Liveness.                                                               *)

\* Every promise that send() returns is settled while the process runs.
EverySendSettles ==
  \A r \in Requests : outcome[r] = "open" ~> outcome[r] # "open" \/ ~alive

\* Every request leaves the queue, also one whose caller has given up.
EveryRequestLeaves ==
  \A r \in Requests :
    r \in Elements(pending) ~> r \notin Elements(pending) \/ ~alive

\* The line does not stay locked: each reset gives the lock back.
LockIsReleased == lockedBy # "none" ~> lockedBy = "none" \/ ~alive

-----------------------------------------------------------------------------
(* What callers of send() are promised.                                    *)

Service == INSTANCE RequestService WITH
  state  <- outcome,
  answer <- [r \in Requests |->
               IF response[r] = NoMsg THEN "none"
               ELSE IF response[r] = Msg("answer", r) THEN "own" ELSE "foreign"]

\* The queue implements the request service, liveness included: a request is
\* resolved with the target's answer to this very request or rejected, once.
ImplementsService == Service!FairSpec

=============================================================================
