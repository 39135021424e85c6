------------------------- MODULE ModbusSerialProofs -------------------------
(***************************************************************************)
(* Theorems about ModbusSerial, for every value of its constants.          *)
(***************************************************************************)
EXTENDS ModbusSerial, FiniteSetTheorems, TLAPS

-----------------------------------------------------------------------------
(* Sequences and the sets of their elements.                               *)

LEMMA ElementsConcat ==
  ASSUME NEW S, NEW s \in Seq(S), NEW t \in Seq(S)
  PROVE  /\ s \o t \in Seq(S)
         /\ Elements(s) \subseteq Elements(s \o t)
         /\ Elements(t) \subseteq Elements(s \o t)
<1>1. s \o t \in Seq(S)
  OBVIOUS
<1>2. Elements(s) \subseteq Elements(s \o t)
  BY DEF Elements
<1>3. ASSUME NEW i \in 1..Len(t)
      PROVE  t[i] \in Elements(s \o t)
  <2>1. /\ Len(s) + i \in 1..Len(s \o t)
        /\ (s \o t)[Len(s) + i] = t[i]
    OBVIOUS
  <2>. QED  BY <2>1 DEF Elements
<1>. QED  BY <1>1, <1>2, <1>3 DEF Elements

LEMMA ElementsAppend ==
  ASSUME NEW S, NEW s \in Seq(S), NEW e \in S
  PROVE  /\ Append(s, e) \in Seq(S)
         /\ Elements(s) \subseteq Elements(Append(s, e))
         /\ e \in Elements(Append(s, e))
<1>1. /\ Append(s, e) \in Seq(S)
      /\ Len(Append(s, e)) = Len(s) + 1
      /\ Append(s, e)[Len(s) + 1] = e
      /\ \A i \in 1..Len(s) : Append(s, e)[i] = s[i]
  OBVIOUS
<1>. QED  BY <1>1 DEF Elements

\* Taking the head off a queue keeps every other element.
LEMMA ElementsTail ==
  ASSUME NEW S, NEW s \in Seq(S), s # <<>>
  PROVE  /\ Head(s) \in S
         /\ Tail(s) \in Seq(S)
         /\ \A e \in Elements(s) : e = Head(s) \/ e \in Elements(Tail(s))
<1>1. Head(s) \in S /\ Tail(s) \in Seq(S)
  OBVIOUS
<1>2. ASSUME NEW i \in 1..Len(s)
      PROVE  s[i] = Head(s) \/ s[i] \in Elements(Tail(s))
  <2>1. CASE i = 1
    BY <2>1
  <2>2. CASE i # 1
    <3>1. /\ i - 1 \in 1..Len(Tail(s))
          /\ Tail(s)[i - 1] = s[i]
      BY <2>2
    <3>. QED  BY <3>1 DEF Elements
  <2>. QED  BY <2>1, <2>2
<1>. QED  BY <1>1, <1>2 DEF Elements

-----------------------------------------------------------------------------
(* The shared parts of several actions keep the types.                     *)

LEMMA QueueTypes ==
  ASSUME SerialAssumption, TypeOK
  PROVE  /\ \A q \in Seq(Jobs) : WriteNext(q) \in Seq(Ticks)
         /\ \A q \in Seq(Jobs) : Rejects(q) \in Seq(Ticks)
         /\ \A q \in Seq(Jobs), t \in Seq(Ticks) : ExecuteTicks(q, t) \in Seq(Ticks)
         /\ Rest(pending) \in Seq(Jobs)
         /\ \A r \in Jobs : WithoutHead(r) \in Seq(Jobs)
         /\ CountError \in 0..(ErrLimit - 1)
<1>1. ASSUME NEW q \in Seq(Jobs)
      PROVE  WriteNext(q) \in Seq(Ticks)
  <2>1. q # <<>> => Tick("write", Head(q)) \in Ticks
    BY DEF Ticks, Tick
  <2>. QED  BY <2>1 DEF WriteNext
<1>2. ASSUME NEW q \in Seq(Jobs)
      PROVE  Rejects(q) \in Seq(Ticks)
  <2>1. \A i \in 1..Len(q) : Tick("reject", q[i]) \in Ticks
    BY DEF Ticks, Tick
  <2>. QED  BY <2>1 DEF Rejects
<1>3. ASSUME NEW q \in Seq(Jobs), NEW t \in Seq(Ticks)
      PROVE  ExecuteTicks(q, t) \in Seq(Ticks)
  BY <1>1, ElementsConcat DEF ExecuteTicks
<1>4. /\ Rest(pending) \in Seq(Jobs)
      /\ \A r \in Jobs : WithoutHead(r) \in Seq(Jobs)
  BY DEF TypeOK, Rest, WithoutHead
<1>5. CountError \in 0..(ErrLimit - 1)
  BY DEF TypeOK, CountError, SerialAssumption
<1>. QED  BY <1>1, <1>2, <1>3, <1>4, <1>5

LEMMA HandleErrorType ==
  ASSUME SerialAssumption, TypeOK,
         NEW r \in Jobs, NEW q \in Seq(Ticks), handleError(r, q)
  PROVE  /\ pending' \in Seq(Jobs)
         /\ errCnt' \in 0..(ErrLimit - 1)
         /\ ticks' \in Seq(Ticks)
         /\ failed' \subseteq Requests
         /\ timer' \subseteq Requests
         /\ timerModbus' \subseteq Requests
         /\ outcome' \in [Requests -> {"fresh", "open", "resolved", "rejected"}]
<1>1. pending' \in Seq(Jobs) /\ errCnt' \in 0..(ErrLimit - 1)
  BY QueueTypes DEF handleError
<1>2. ticks' \in Seq(Ticks)
  <2>. DEFINE reset == IF errCnt + 1 >= ErrLimit
                       THEN <<Tick("resetTargets", NoJob)>> ELSE <<>>
  <2>1. reset \in Seq(Ticks)
    <3>1. Tick("resetTargets", NoJob) \in Ticks
      BY DEF Ticks, Tick
    <3>. QED  BY <3>1
  <2>2. WriteNext(Rest(pending)) \in Seq(Ticks)
    BY QueueTypes
  <2>3. ticks' = q \o reset \o WriteNext(Rest(pending))
    BY DEF handleError
  <2>. HIDE DEF reset
  <2>. QED  BY <2>1, <2>2, <2>3
<1>3. /\ failed' \subseteq Requests
      /\ timer' \subseteq Requests
      /\ timerModbus' \subseteq Requests
  BY DEF handleError, ClearTimers, TypeOK
<1>4. outcome' \in [Requests -> {"fresh", "open", "resolved", "rejected"}]
  BY DEF handleError, Settle, TypeOK
<1>. QED  BY <1>1, <1>2, <1>3, <1>4

LEMMA ResetTargetsType ==
  ASSUME SerialAssumption, TypeOK, NEW q \in Seq(Ticks), resetTargets(q)
  PROVE  /\ pending' \in Seq(Jobs)
         /\ ticks' \in Seq(Ticks)
         /\ failed' \subseteq Requests
         /\ timer' \subseteq Requests
         /\ timerModbus' \subseteq Requests
         /\ lockedBy' \in {"none", "resetTargets", "resetTarget"}
         /\ receive' \in {"drop", "chars", "frames"}
         /\ resetAt' \in [Resets -> Stages]
         /\ UNCHANGED <<errCnt, sentAt, echoed, response, outcome>>
<1>1. CASE ResetMode = "noDevice"
  BY <1>1 DEF resetTargets, TypeOK, requVars, timerVars, resetVars
<1>2. CASE ResetMode # "noDevice"
  <2>1. PICK x \in Resets :
          /\ pending' = IF ResetMode = "none" THEN <<>> ELSE <<x>>
          /\ IF ResetMode = "gpio" THEN resetTarget(x)
             ELSE lockedBy' = "resetTargets" /\ UNCHANGED <<receive, resetAt>>
    BY <1>2 DEF resetTargets
  <2>2. pending' \in Seq(Jobs)
    <3>1. x \in Jobs
      BY DEF Jobs
    <3>. QED  BY <2>1, <3>1
  <2>3. ticks' \in Seq(Ticks)
    <3>1. Rejects(pending) \in Seq(Ticks)
      BY QueueTypes DEF TypeOK
    <3>2. ticks' = q \o Rejects(pending)
      BY <1>2 DEF resetTargets
    <3>. QED  BY <3>1, <3>2
  <2>4. /\ failed' \subseteq Requests
        /\ timer' \subseteq Requests
        /\ timerModbus' \subseteq Requests
        /\ UNCHANGED <<errCnt, sentAt, echoed, response, outcome>>
    BY <1>2 DEF resetTargets, ClearTimers, TypeOK
  <2>5. /\ lockedBy' \in {"none", "resetTargets", "resetTarget"}
        /\ receive' \in {"drop", "chars", "frames"}
        /\ resetAt' \in [Resets -> Stages]
    BY <2>1 DEF resetTarget, resetVars, TypeOK, Stages
  <2>. QED  BY <2>2, <2>3, <2>4, <2>5
<1>. QED  BY <1>1, <1>2

\* What a nextTick entry holds, and what is left when it is taken.
LEMMA TickTypes ==
  ASSUME SerialAssumption, TypeOK, ticks # <<>>
  PROVE  /\ Head(ticks) \in Ticks
         /\ Tail(ticks) \in Seq(Ticks)
         /\ Head(ticks).kind # "resetTargets" => Head(ticks).job \in Jobs
<1>1. Head(ticks) \in Ticks /\ Tail(ticks) \in Seq(Ticks)
  BY ElementsTail DEF TypeOK
<1>2. \A t \in Ticks : t.kind # "resetTargets" => t.job \in Jobs
  BY DEF Ticks
<1>. QED  BY <1>1, <1>2

-----------------------------------------------------------------------------
(* Type correctness.                                                       *)

\* send() keeps the types.
LEMMA SendType ==
  ASSUME SerialAssumption, TypeOK, NEW r \in Requests, send(r)
  PROVE  TypeOK'
<1>1. r \in Jobs /\ Tick("write", r) \in Ticks
  BY DEF Jobs, Ticks, Tick
<1>2. pending' \in Seq(Jobs)
  BY <1>1 DEF send, TypeOK
<1>3. ticks' \in Seq(Ticks)
  BY <1>1 DEF send, TypeOK
<1>4. /\ timer' \subseteq Requests
      /\ sentAt' \subseteq Requests
      /\ echoed' \subseteq Requests
      /\ failed' \subseteq Requests
  BY DEF send, TypeOK
<1>5. /\ outcome' \in [Requests -> {"fresh", "open", "resolved", "rejected"}]
      /\ response' \in [Requests -> Messages \cup {NoMsg}]
  BY DEF send, TypeOK
<1>. QED  BY <1>2, <1>3, <1>4, <1>5 DEF send, TypeOK, resetVars, lineVars, procVars

\* The write on a nextTick keeps the types.
LEMMA WriteTickType ==
  ASSUME SerialAssumption, TypeOK, WriteTick
  PROVE  TypeOK'
<1>. DEFINE j == Head(ticks).job
<1>1. j \in Jobs /\ Tail(ticks) \in Seq(Ticks)
  BY TickTypes DEF WriteTick
<1>2. CASE j \in Requests
  <2>2. writing' \in Seq([requ : Requests, ok : BOOLEAN])
    <3>1. PICK ok \in BOOLEAN : writing' = Append(writing, [requ |-> j, ok |-> ok])
      BY <1>2 DEF WriteTick
    <3>2. [requ |-> j, ok |-> ok] \in [requ : Requests, ok : BOOLEAN]
      BY <1>2
    <3>3. writing \in Seq([requ : Requests, ok : BOOLEAN])
      BY DEF TypeOK
    <3>. QED  BY <3>1, <3>2, <3>3, ElementsAppend
  <2>3. bus' \in Seq(Messages)
    <3>1. \A kind \in {"echo", "answer", "noise"} : Msg(kind, j) \in Messages
      BY <1>2 DEF Msg, Messages
    <3>2. LineOutcomes(j) \subseteq Seq(Messages)
      <4>. DEFINE echo == Msg("echo", j)
                  answer == Msg("answer", j)
                  noise == Msg("noise", j)
                  frames == {<<echo, answer>>, <<>>, <<echo>>, <<noise, answer>>,
                             <<echo, noise>>}
      <4>1. LineOutcomes(j) \subseteq frames
        BY Zenon DEF LineOutcomes
      <4>2. echo \in Messages /\ answer \in Messages /\ noise \in Messages
        BY <3>1
      <4>. HIDE DEF echo, answer, noise
      <4>3. /\ <<>> \in Seq(Messages)
            /\ \A m \in Messages : <<m>> \in Seq(Messages)
            /\ \A m, n \in Messages : <<m, n>> \in Seq(Messages)
        OBVIOUS
      <4>4. frames \subseteq Seq(Messages)
        BY <4>2, <4>3, Zenon
      <4>. QED  BY <4>1, <4>4
    <3>3. bus' = bus \/ \E out \in LineOutcomes(j) : bus' = bus \o out
      BY <1>2 DEF WriteTick
    <3>4. bus \in Seq(Messages)
      BY DEF TypeOK
    <3>5. \A out \in Seq(Messages) : bus \o out \in Seq(Messages)
      BY <3>4
    <3>. QED  BY <3>2, <3>3, <3>4, <3>5
  <2>. QED  BY <1>1, <1>2, <2>2, <2>3
            DEF WriteTick, TypeOK, requVars, timerVars, resetVars, procVars
<1>3. CASE j \notin Requests
  <2>1. handleError(j, Tail(ticks)) /\ UNCHANGED <<sentAt, echoed, response, lineVars>>
    BY <1>3 DEF WriteTick
  <2>. HIDE DEF j
  <2>. QED  BY <1>1, <2>1, HandleErrorType
            DEF WriteTick, TypeOK, resetVars, lineVars, procVars
<1>. QED  BY <1>2, <1>3

\* The write callback keeps the types.
LEMMA WriteDoneType ==
  ASSUME SerialAssumption, TypeOK, WriteDone
  PROVE  TypeOK'
<1>. DEFINE r == Head(writing).requ
<1>1. r \in Requests /\ writing' \in Seq([requ : Requests, ok : BOOLEAN])
  <2>1. /\ Head(writing) \in [requ : Requests, ok : BOOLEAN]
        /\ Tail(writing) \in Seq([requ : Requests, ok : BOOLEAN])
    BY ElementsTail DEF WriteDone, TypeOK
  <2>. QED  BY <2>1 DEF WriteDone
<1>2. CASE ~Head(writing).ok
  <2>1. /\ handleError(r, ticks)
        /\ UNCHANGED <<sentAt, echoed, response, procVars>>
    BY <1>2 DEF WriteDone
  <2>2. r \in Jobs /\ ticks \in Seq(Ticks)
    BY <1>1 DEF Jobs, TypeOK
  <2>. HIDE DEF r
  <2>. QED  BY <1>1, <2>1, <2>2, HandleErrorType
            DEF WriteDone, TypeOK, resetVars, procVars
<1>3. CASE Head(writing).ok
  <2>1. /\ sentAt' \subseteq Requests
        /\ timerModbus' \subseteq Requests
        /\ escaped' \subseteq Escapes
        /\ alive' \in BOOLEAN
    BY <1>1, <1>3 DEF WriteDone, TypeOK, Escape, Escapes, procVars
  <2>. QED  BY <1>1, <1>3, <2>1 DEF WriteDone, TypeOK, resetVars
<1>. QED  BY <1>2, <1>3

\* A timer keeps the types.
LEMMA HandleTimeoutType ==
  ASSUME SerialAssumption, TypeOK,
         NEW r \in Requests, NEW modbusTimeout \in BOOLEAN, handleTimeout(r, modbusTimeout)
  PROVE  TypeOK'
<1>1. r \in Jobs /\ ticks \in Seq(Ticks)
  BY DEF Jobs, TypeOK
<1>. QED  BY <1>1, HandleErrorType
          DEF handleTimeout, TypeOK, resetVars, lineVars, procVars

\* The two other nextTick entries and the open callback keep the types.
LEMMA ResetTargetsStepsType ==
  ASSUME SerialAssumption, TypeOK, RejectTick \/ ResetTargetsTick \/ PortOpened
  PROVE  TypeOK'
<1>1. CASE RejectTick
  <2>1. ticks' \in Seq(Ticks)
    BY <1>1, TickTypes DEF RejectTick
  <2>2. outcome' \in [Requests -> {"fresh", "open", "resolved", "rejected"}]
    BY <1>1 DEF RejectTick, Settle, TypeOK
  <2>. QED  BY <1>1, <2>1, <2>2
            DEF RejectTick, TypeOK, timerVars, resetVars, lineVars, procVars
<1>2. CASE ResetTargetsTick
  <2>1. resetTargets(Tail(ticks)) /\ Tail(ticks) \in Seq(Ticks)
    BY <1>2, TickTypes DEF ResetTargetsTick
  <2>. QED  BY <1>2, <2>1, ResetTargetsType
            DEF ResetTargetsTick, TypeOK, lineVars, procVars
<1>3. CASE PortOpened
  <2>1. resetTargets(ticks) /\ ticks \in Seq(Ticks)
    BY <1>3 DEF PortOpened, TypeOK
  <2>. QED  BY <1>3, <2>1, ResetTargetsType
            DEF PortOpened, TypeOK, lineVars, procVars
<1>. QED  BY <1>1, <1>2, <1>3

\* A data event and the frames in it keep the types.
LEMMA ReceptionType ==
  ASSUME SerialAssumption, TypeOK,
         \/ \E n \in 1..Len(bus) : handleOnSerialData(n)
         \/ FrameStep
  PROVE  TypeOK'
<1>1. CASE \E n \in 1..Len(bus) : handleOnSerialData(n)
  <2>1. PICK n \in 1..Len(bus) : handleOnSerialData(n)
    BY <1>1
  <2>2. /\ bus \in Seq(Messages)
        /\ SubSeq(bus, 1, n) \in Seq(Messages)
        /\ SubSeq(bus, n + 1, Len(bus)) \in Seq(Messages)
    BY DEF TypeOK
  <2>3. bus' \in Seq(Messages) /\ chunk' \in Seq(Messages)
    BY <2>1, <2>2 DEF handleOnSerialData
  <2>. QED  BY <2>1, <2>3
            DEF handleOnSerialData, TypeOK, requVars, timerVars, resetVars, procVars
<1>2. CASE FrameWithoutHead
  <2>1. escaped' \subseteq Escapes /\ alive' \in BOOLEAN
    BY <1>2 DEF FrameWithoutHead, Escape, Escapes, TypeOK
  <2>2. chunk' \in Seq(Messages)
    <3>1. chunk' = <<>>
      BY <1>2 DEF FrameWithoutHead
    <3>. QED  BY <3>1
  <2>. QED  BY <1>2, <2>1, <2>2
            DEF FrameWithoutHead, TypeOK, requVars, timerVars, resetVars, lineVars
<1>3. CASE FrameForReset
  <2>1. /\ handleError(Head(pending), ticks)
        /\ Head(pending) \in Jobs
        /\ ticks \in Seq(Ticks)
    BY <1>3 DEF FrameForReset, TypeOK
  <2>2. chunk' \in Seq(Messages)
    BY <1>3 DEF FrameForReset
  <2>. QED  BY <1>3, <2>1, <2>2, HandleErrorType
            DEF FrameForReset, TypeOK, resetVars, lineVars, procVars
<1>4. CASE FrameAsEcho
  <2>1. echoed' \subseteq Requests
    BY <1>4 DEF FrameAsEcho, TypeOK
  <2>2. errCnt' \in 0..(ErrLimit - 1) /\ chunk' \in Seq(Messages)
    BY <1>4 DEF FrameAsEcho, TypeOK, SerialAssumption
  <2>. QED  BY <1>4, <2>1, <2>2
            DEF FrameAsEcho, TypeOK, timerVars, resetVars, lineVars, procVars
<1>5. CASE FrameAsResponse
  <2>. DEFINE r == Head(pending)
              m == Head(chunk)
              Late == r \in failed \/ response[r] # NoMsg
  <2>1. /\ r \in Requests
        /\ r \in Jobs
        /\ m \in Messages
        /\ Tail(chunk) \in Seq(Messages)
    BY <1>5, ElementsTail DEF FrameAsResponse, TypeOK, Jobs
  <2>2. errCnt' \in 0..(ErrLimit - 1)
    <3>1. errCnt' = 0
      BY <1>5, Zenon DEF FrameAsResponse
    <3>. QED  BY <3>1 DEF SerialAssumption
  <2>3. CASE Late
    <3>1. /\ Escape("response/error already set")
          /\ chunk' = <<>>
      BY <1>5, <2>3, Zenon DEF FrameAsResponse
    <3>2. escaped' \subseteq Escapes /\ alive' \in BOOLEAN
      BY <3>1 DEF Escape, Escapes, TypeOK
    <3>3. chunk' \in Seq(Messages)
      <4>1. chunk' = <<>>
        BY <3>1
      <4>. QED  BY <4>1
    <3>. QED  BY <1>5, <2>2, <2>3, <3>2, <3>3
              DEF FrameAsResponse, TypeOK, timerVars, resetVars, lineVars
  <2>4. CASE ~Late
    <3>1. /\ response' = [response EXCEPT ![r] = m]
          /\ chunk' = Tail(chunk)
          /\ pending' = WithoutHead(r)
          /\ ClearTimers({r})
          /\ Settle(r, "resolved")
          /\ ExecuteHead(WithoutHead(r), ticks)
          /\ UNCHANGED procVars
      BY <1>5, <2>4 DEF FrameAsResponse
    <3>2. /\ pending' \in Seq(Jobs)
          /\ ticks' \in Seq(Ticks)
      <4>1. ticks \in Seq(Ticks)
        BY DEF TypeOK
      <4>. QED  BY <2>1, <3>1, <4>1, QueueTypes DEF ExecuteHead
    <3>3. /\ response' \in [Requests -> Messages \cup {NoMsg}]
          /\ outcome' \in [Requests -> {"fresh", "open", "resolved", "rejected"}]
      BY <2>1, <3>1 DEF TypeOK, Settle
    <3>4. /\ timer' \subseteq Requests
          /\ timerModbus' \subseteq Requests
      BY <3>1 DEF TypeOK, ClearTimers
    <3>5. /\ lockedBy' \in {"none", "resetTargets", "resetTarget"}
          /\ receive' \in {"drop", "chars", "frames"}
          /\ resetAt' \in [Resets -> Stages]
      BY <3>1 DEF ExecuteHead, resetTarget, TypeOK, Stages, resetVars
    <3>. QED  BY <1>5, <2>1, <2>2, <3>1, <3>2, <3>3, <3>4, <3>5
              DEF FrameAsResponse, TypeOK, lineVars, procVars
  <2>. QED  BY <2>3, <2>4
<1>. QED  BY <1>1, <1>2, <1>3, <1>4, <1>5 DEF FrameStep

\* The continuations of resetTarget keep the types.
LEMMA ResetStepType ==
  ASSUME SerialAssumption, TypeOK, NEW x \in Resets, ResetStep(x)
  PROVE  TypeOK'
<1>1. x \in Jobs /\ ticks \in Seq(Ticks)
  BY DEF Jobs, TypeOK
<1>2. CASE ResetHeard(x)
  <2>1. pending' \in Seq(Jobs) /\ ticks' \in Seq(Ticks)
    BY <1>1, <1>2, QueueTypes DEF ResetHeard
  <2>2. resetAt' \in [Resets -> Stages]
    BY <1>2 DEF ResetHeard, TypeOK, Stages
  <2>. QED  BY <1>2, <2>1, <2>2
            DEF ResetHeard, Release, TypeOK, requVars, timerVars, lineVars, procVars
<1>3. CASE ResetAgain(x) \/ ResetFails(x)
  <2>1. resetAt' \in [Resets -> Stages]
    BY <1>3 DEF ResetAgain, ResetFails, TypeOK, Stages
  <2>. QED  BY <1>3, <2>1
            DEF ResetAgain, ResetFails, Release, TypeOK, requVars, timerVars, lineVars, procVars
<1>4. CASE ResetThrows(x)
  <2>1. resetAt' \in [Resets -> Stages]
    BY <1>4 DEF ResetThrows, TypeOK, Stages
  <2>2. handleError(x, ticks)
    BY <1>4 DEF ResetThrows
  <2>. QED  BY <1>1, <1>4, <2>1, <2>2, HandleErrorType
            DEF ResetThrows, Release, TypeOK, lineVars, procVars
<1>. QED  BY <1>2, <1>3, <1>4 DEF ResetStep

\* Every step keeps the types, one case per disjunct of Next.
LEMMA TypeInductive ==
  ASSUME SerialAssumption, TypeOK, [Next]_vars
  PROVE  TypeOK'
<1>1. CASE Open
  BY <1>1 DEF Open, TypeOK, requVars, timerVars, lineVars, procVars
<1>2. CASE PortOpenFails \/ Close
  BY <1>2 DEF PortOpenFails, Close, TypeOK, requVars, timerVars, resetVars, lineVars, procVars
<1>3. CASE PortOpened \/ TickStep
  BY <1>3, WriteTickType, ResetTargetsStepsType DEF TickStep
<1>4. CASE \E r \in Requests : send(r)
  BY <1>4, SendType
<1>5. CASE \E r \in Requests, modbusTimeout \in BOOLEAN : handleTimeout(r, modbusTimeout)
  BY <1>5, HandleTimeoutType
<1>6. CASE (\E n \in 1..Len(bus) : handleOnSerialData(n)) \/ FrameStep
  BY <1>6, ReceptionType
<1>7. CASE WriteDone
  BY <1>7, WriteDoneType
<1>8. CASE \E x \in Resets : ResetStep(x)
  BY <1>8, ResetStepType
<1>9. CASE Stopped \/ UNCHANGED vars
  BY <1>9 DEF Stopped, vars, TypeOK, requVars, timerVars, resetVars, lineVars, procVars
<1>. QED  BY <1>1, <1>2, <1>3, <1>4, <1>5, <1>6, <1>7, <1>8, <1>9 DEF Next

\* The queue, the timers, the reset and the promises keep their shapes through
\* every callback; in particular the error counter is always taken back to 0
\* before it reaches the limit.
THEOREM TypeCorrect == Spec => []TypeOK
<1>1. Init => TypeOK
  BY SerialAssumption DEF Init, TypeOK, SerialAssumption, Stages, Messages
<1>2. TypeOK /\ [Next]_vars => TypeOK'
  BY SerialAssumption, TypeInductive
<1>. QED  BY <1>1, <1>2, PTL DEF Spec

-----------------------------------------------------------------------------
(* Callers are guarded.                                                    *)

\* handleError(r) stops no timer but r's own, and r's promise is settled with it.
LEMMA HandleErrorGuards ==
  ASSUME SerialAssumption, TypeOK, CallerGuarded,
         NEW r \in Jobs, NEW q \in Seq(Ticks), handleError(r, q),
         \A s \in Requests : Tick("reject", s) \in Elements(ticks)
                             => Tick("reject", s) \in Elements(q)
  PROVE  CallerGuarded'
<1>. SUFFICES ASSUME NEW s \in Requests, outcome'[s] = "open"
              PROVE  s \in timer' \/ Tick("reject", s) \in Elements(ticks')
  BY DEF CallerGuarded, Waiting
<1>1. outcome[s] = "open" /\ s # r
  BY DEF handleError, Settle, TypeOK
<1>2. CASE s \in timer
  BY <1>1, <1>2 DEF handleError, ClearTimers
<1>3. CASE Tick("reject", s) \in Elements(ticks)
  <2>. DEFINE reset == IF errCnt + 1 >= ErrLimit
                       THEN <<Tick("resetTargets", NoJob)>> ELSE <<>>
              next == WriteNext(Rest(pending))
  <2>1. reset \in Seq(Ticks) /\ next \in Seq(Ticks)
    <3>1. Tick("resetTargets", NoJob) \in Ticks
      BY DEF Ticks, Tick
    <3>. QED  BY <3>1, QueueTypes
  <2>2. ticks' = q \o reset \o next
    BY DEF handleError
  <2>. HIDE DEF reset, next
  <2>3. Elements(q) \subseteq Elements(q \o reset) /\ q \o reset \in Seq(Ticks)
    BY <2>1, ElementsConcat
  <2>4. Elements(q \o reset) \subseteq Elements(ticks')
    BY <2>1, <2>2, <2>3, ElementsConcat
  <2>. QED  BY <1>3, <2>3, <2>4
<1>. QED  BY <1>1, <1>2, <1>3 DEF CallerGuarded, Waiting

\* resetTargets() stops the timers of the queued requests and queues their
\* rejection at the same time.
LEMMA ResetTargetsGuards ==
  ASSUME SerialAssumption, TypeOK, CallerGuarded,
         NEW q \in Seq(Ticks), resetTargets(q),
         \A s \in Requests : Tick("reject", s) \in Elements(ticks)
                             => Tick("reject", s) \in Elements(q)
  PROVE  CallerGuarded'
<1>. SUFFICES ASSUME NEW s \in Requests, outcome'[s] = "open"
              PROVE  s \in timer' \/ Tick("reject", s) \in Elements(ticks')
  BY DEF CallerGuarded, Waiting
<1>1. outcome[s] = "open"
  BY DEF resetTargets, requVars
<1>2. CASE ResetMode = "noDevice"
  BY <1>1, <1>2 DEF resetTargets, timerVars, CallerGuarded, Waiting
<1>3. CASE ResetMode # "noDevice"
  <2>1. ticks' = q \o Rejects(pending) /\ timer' = timer \ Elements(pending)
    BY <1>3 DEF resetTargets, ClearTimers
  <2>2. pending \in Seq(Jobs) /\ Rejects(pending) \in Seq(Ticks)
    BY QueueTypes DEF TypeOK
  <2>3. /\ Elements(q) \subseteq Elements(ticks')
        /\ Elements(Rejects(pending)) \subseteq Elements(ticks')
    BY <2>1, <2>2, ElementsConcat
  <2>4. s \in Elements(pending) => Tick("reject", s) \in Elements(Rejects(pending))
    BY <2>2 DEF Elements, Rejects
  <2>. QED  BY <1>1, <2>1, <2>3, <2>4 DEF CallerGuarded, Waiting
<1>. QED  BY <1>2, <1>3

\* A step that only adds entries to the nextTick queue, keeps the timers of the
\* callers that still wait and opens no promise keeps them guarded.
LEMMA GuardsKept ==
  ASSUME CallerGuarded,
         \A s \in Requests : outcome'[s] = "open" => outcome[s] = "open" /\ (s \in timer => s \in timer'),
         Elements(ticks) \subseteq Elements(ticks')
  PROVE  CallerGuarded'
BY DEF CallerGuarded, Waiting

LEMMA GuardedInductive ==
  ASSUME SerialAssumption, TypeOK, CallerGuarded, [Next]_vars
  PROVE  CallerGuarded'
<1>. DEFINE Same == UNCHANGED <<outcome, timer, ticks>>
<1>1. ASSUME Same
      PROVE  CallerGuarded'
  BY <1>1 DEF CallerGuarded, Waiting
<1>2. CASE Open \/ PortOpenFails \/ Close \/ Stopped \/ UNCHANGED vars
  BY <1>1, <1>2
     DEF Open, PortOpenFails, Close, Stopped, vars, requVars, timerVars
<1>3. CASE PortOpened
  BY <1>3, ResetTargetsGuards DEF PortOpened, TypeOK
<1>4. ASSUME NEW r \in Requests, send(r)
      PROVE  CallerGuarded'
  <2>1. Elements(ticks) \subseteq Elements(ticks')
    <3>1. CASE pending = <<>>
      <4>1. ticks' = <<Tick("write", r)>> /\ ticks = <<>>
        BY <1>4, <3>1 DEF send, Idle
      <4>. QED  BY <4>1 DEF Elements
    <3>2. CASE pending # <<>>
      BY <1>4, <3>2 DEF send
    <3>. QED  BY <3>1, <3>2
  <2>2. \A s \in Requests : s # r => outcome'[s] = outcome[s]
    BY <1>4 DEF send, TypeOK
  <2>3. timer' = timer \cup {r}
    BY <1>4 DEF send
  <2>. QED  BY <2>1, <2>2, <2>3 DEF CallerGuarded, Waiting
<1>5. ASSUME NEW r \in Requests, NEW modbusTimeout \in BOOLEAN,
             handleTimeout(r, modbusTimeout)
      PROVE  CallerGuarded'
  <2>1. handleError(r, ticks) /\ r \in Jobs /\ ticks \in Seq(Ticks)
    BY <1>5 DEF handleTimeout, Jobs, TypeOK
  <2>. QED  BY <2>1, HandleErrorGuards
<1>6. CASE \E n \in 1..Len(bus) : handleOnSerialData(n)
  BY <1>1, <1>6 DEF handleOnSerialData, requVars, timerVars
<1>7. CASE WriteDone
  <2>. DEFINE r == Head(writing).requ
  <2>1. CASE Head(writing).ok
    BY <1>1, <1>7, <2>1 DEF WriteDone
  <2>2. CASE ~Head(writing).ok
    <3>1. handleError(r, ticks)
      BY <1>7, <2>2 DEF WriteDone
    <3>2. r \in Jobs /\ ticks \in Seq(Ticks)
      <4>1. Head(writing) \in [requ : Requests, ok : BOOLEAN]
        BY <1>7, ElementsTail DEF WriteDone, TypeOK
      <4>. QED  BY <4>1 DEF Jobs, TypeOK
    <3>. HIDE DEF r
    <3>. QED  BY <3>1, <3>2, HandleErrorGuards
  <2>. QED  BY <2>1, <2>2
<1>8. CASE TickStep
  <2>1. /\ ticks # <<>>
        /\ ticks \in Seq(Ticks)
        /\ Tail(ticks) \in Seq(Ticks)
        /\ \A e \in Elements(ticks) : e = Head(ticks) \/ e \in Elements(Tail(ticks))
    <3>1. ticks # <<>> /\ ticks \in Seq(Ticks)
      BY <1>8 DEF TickStep, WriteTick, RejectTick, ResetTargetsTick, TypeOK
    <3>. QED  BY <3>1, ElementsTail
  <2>2. \A s \in Requests :
          Head(ticks).kind # "reject" => Tick("reject", s) # Head(ticks)
    BY DEF Tick
  <2>3. CASE WriteTick
    <3>. DEFINE j == Head(ticks).job
    <3>1. \A s \in Requests : Tick("reject", s) \in Elements(ticks)
                             => Tick("reject", s) \in Elements(Tail(ticks))
      <4>1. Head(ticks).kind = "write"
        BY <2>3 DEF WriteTick
      <4>. QED  BY <2>1, <2>2, <4>1
    <3>2. CASE j \in Requests
      <4>1. ticks' = Tail(ticks) /\ UNCHANGED <<outcome, timer>>
        BY <2>3, <3>2 DEF WriteTick, requVars, timerVars
      <4>. QED  BY <3>1, <4>1 DEF CallerGuarded, Waiting
    <3>3. CASE j \notin Requests
      <4>1. handleError(j, Tail(ticks)) /\ j \in Jobs
        BY <2>3, <3>3, TickTypes DEF WriteTick
      <4>. HIDE DEF j
      <4>. QED  BY <2>1, <3>1, <4>1, HandleErrorGuards
    <3>. QED  BY <3>2, <3>3
  <2>4. CASE RejectTick
    <3>. DEFINE j == Head(ticks).job
    <3>1. /\ Settle(j, "rejected")
          /\ ticks' = Tail(ticks)
          /\ timer' = timer
      BY <2>4 DEF RejectTick, timerVars
    <3>2. ASSUME NEW s \in Requests, outcome'[s] = "open"
          PROVE  outcome[s] = "open" /\ s # j
      BY <3>1, <3>2 DEF Settle, TypeOK
    <3>3. \A s \in Requests : s # j => Tick("reject", s) # Head(ticks)
      BY DEF Tick
    <3>. HIDE DEF j
    <3>. QED  BY <2>1, <3>1, <3>2, <3>3 DEF CallerGuarded, Waiting
  <2>5. CASE ResetTargetsTick
    <3>1. resetTargets(Tail(ticks)) /\ Head(ticks).kind = "resetTargets"
      BY <2>5 DEF ResetTargetsTick
    <3>. QED  BY <2>1, <2>2, <3>1, ResetTargetsGuards
  <2>. QED  BY <1>8, <2>3, <2>4, <2>5 DEF TickStep
<1>9. CASE FrameStep
  <2>1. CASE FrameWithoutHead \/ FrameAsEcho
    BY <1>1, <2>1 DEF FrameWithoutHead, FrameAsEcho, requVars, timerVars
  <2>2. CASE FrameForReset
    <3>1. /\ handleError(Head(pending), ticks)
          /\ Head(pending) \in Jobs
          /\ ticks \in Seq(Ticks)
      BY <2>2 DEF FrameForReset, TypeOK
    <3>. QED  BY <3>1, HandleErrorGuards
  <2>3. CASE FrameAsResponse
    <3>. DEFINE r == Head(pending)
    <3>1. CASE r \in failed \/ response[r] # NoMsg
      BY <1>1, <2>3, <3>1 DEF FrameAsResponse, timerVars
    <3>2. CASE ~(r \in failed \/ response[r] # NoMsg)
      <4>1. /\ r \in Requests
            /\ ClearTimers({r})
            /\ Settle(r, "resolved")
            /\ ExecuteHead(WithoutHead(r), ticks)
        BY <2>3, <3>2 DEF FrameAsResponse
      <4>2. Elements(ticks) \subseteq Elements(ticks')
        <5>1. WithoutHead(r) \in Seq(Jobs) /\ WriteNext(WithoutHead(r)) \in Seq(Ticks)
          BY <4>1, QueueTypes DEF Jobs
        <5>2. ticks' = ticks \/ ticks' = ticks \o WriteNext(WithoutHead(r))
          BY <4>1 DEF ExecuteHead, ExecuteTicks
        <5>3. ticks \in Seq(Ticks)
          BY DEF TypeOK
        <5>. QED  BY <5>1, <5>2, <5>3, ElementsConcat
      <4>3. \A s \in Requests : outcome'[s] = "open"
                               => outcome[s] = "open" /\ (s \in timer => s \in timer')
        BY <4>1 DEF Settle, ClearTimers, TypeOK
      <4>. QED  BY <4>2, <4>3, GuardsKept
    <3>. QED  BY <3>1, <3>2
  <2>. QED  BY <1>9, <2>1, <2>2, <2>3 DEF FrameStep
<1>10. ASSUME NEW x \in Resets, ResetStep(x)
       PROVE  CallerGuarded'
  <2>1. x \in Jobs /\ ticks \in Seq(Ticks)
    BY DEF Jobs, TypeOK
  <2>2. CASE ResetHeard(x)
    <3>1. /\ UNCHANGED <<outcome, timer>>
          /\ ticks' = ExecuteTicks(WithoutHead(x), ticks)
      BY <2>2 DEF ResetHeard, requVars, timerVars
    <3>2. Elements(ticks) \subseteq Elements(ticks')
      <4>1. WithoutHead(x) \in Seq(Jobs) /\ WriteNext(WithoutHead(x)) \in Seq(Ticks)
        BY <2>1, QueueTypes
      <4>2. ticks' = ticks \/ ticks' = ticks \o WriteNext(WithoutHead(x))
        BY <3>1 DEF ExecuteTicks
      <4>. QED  BY <2>1, <4>1, <4>2, ElementsConcat
    <3>. QED  BY <3>1, <3>2, GuardsKept
  <2>3. CASE ResetAgain(x) \/ ResetFails(x)
    BY <1>1, <2>3 DEF ResetAgain, ResetFails, requVars, timerVars
  <2>4. CASE ResetThrows(x)
    <3>1. handleError(x, ticks)
      BY <2>4 DEF ResetThrows
    <3>. QED  BY <2>1, <3>1, HandleErrorGuards
  <2>. QED  BY <1>10, <2>2, <2>3, <2>4 DEF ResetStep
<1>. QED  BY <1>2, <1>3, <1>4, <1>5, <1>6, <1>7, <1>8, <1>9, <1>10 DEF Next

\* No caller of send() can be forgotten: whatever the line, the timers and the
\* resets do, as long as its promise is open either its timer runs or its
\* rejection is queued.
THEOREM CallersStayGuarded == Spec => []CallerGuarded
<1>1. Init => CallerGuarded
  BY DEF Init, CallerGuarded, Waiting
<1>2. TypeOK /\ CallerGuarded /\ [Next]_vars => CallerGuarded'
  BY SerialAssumption, GuardedInductive
<1>. QED  BY <1>1, <1>2, TypeCorrect, PTL DEF Spec

-----------------------------------------------------------------------------
(* The head of the queue is on its way.                                    *)

\* r waits for its write, is being written, or waits for the target.
OnItsWay(r) ==
  \/ r \in timerModbus
  \/ \E w \in Elements(writing) : w.requ = r
  \/ Tick("write", r) \in Elements(ticks)
  \/ "sentAt already set" \in escaped

\* HeadInProgress speaks of an idle event loop only; this holds in between, too.
HeadInv == pending # <<>> /\ Head(pending) \in Requests => OnItsWay(Head(pending))

\* execute() of a queue with a request at its head has it written.
LEMMA HeadExecuted ==
  ASSUME SerialAssumption, TypeOK, NEW p \in Seq(Jobs), NEW q \in Seq(Ticks),
         p # <<>>, Head(p) \in Requests
  PROVE  Tick("write", Head(p)) \in Elements(ExecuteTicks(p, q))
<1>1. WriteNext(p) = <<Tick("write", Head(p))>> /\ WriteNext(p) \in Seq(Ticks)
  BY QueueTypes DEF WriteNext
<1>2. Tick("write", Head(p)) \in Elements(WriteNext(p))
  BY <1>1 DEF Elements
<1>. QED  BY <1>1, <1>2, ElementsConcat DEF ExecuteTicks

\* handleError() has the new head written, whatever became of the old one.
LEMMA HandleErrorHead ==
  ASSUME SerialAssumption, TypeOK,
         NEW r \in Jobs, NEW q \in Seq(Ticks), handleError(r, q)
  PROVE  HeadInv'
<1>. DEFINE p == Rest(pending)
            reset == IF errCnt + 1 >= ErrLimit
                     THEN <<Tick("resetTargets", NoJob)>> ELSE <<>>
<1>1. pending' = p /\ ticks' = (q \o reset) \o WriteNext(p)
  BY DEF handleError
<1>2. p \in Seq(Jobs) /\ WriteNext(p) \in Seq(Ticks)
  BY QueueTypes
<1>3. reset \in Seq(Ticks)
  <2>1. Tick("resetTargets", NoJob) \in Ticks
    BY DEF Ticks, Tick
  <2>. QED  BY <2>1
<1>. HIDE DEF p, reset
<1>4. ASSUME p # <<>>, Head(p) \in Requests
      PROVE  Tick("write", Head(p)) \in Elements(ticks')
  <2>1. q \o reset \in Seq(Ticks)
    BY <1>3
  <2>2. ticks' = ExecuteTicks(p, q \o reset)
    BY <1>1, <1>4 DEF ExecuteTicks
  <2>. QED  BY <1>2, <1>4, <2>1, <2>2, HeadExecuted
<1>. QED  BY <1>1, <1>4 DEF HeadInv, OnItsWay

\* A step that leaves the head in place, and takes it neither off the line nor
\* off the nextTick queue.
LEMMA HeadKept ==
  ASSUME HeadInv,
         pending' # <<>> => pending # <<>> /\ Head(pending') = Head(pending),
         timerModbus \subseteq timerModbus',
         Elements(writing) \subseteq Elements(writing'),
         \A r \in Requests : Tick("write", r) \in Elements(ticks)
                             => Tick("write", r) \in Elements(ticks'),
         escaped \subseteq escaped'
  PROVE  HeadInv'
BY DEF HeadInv, OnItsWay

\* resetTargets() leaves no request in the queue.
LEMMA ResetTargetsHead ==
  ASSUME SerialAssumption, TypeOK, HeadInv,
         NEW q \in Seq(Ticks), resetTargets(q), UNCHANGED <<writing, escaped>>,
         \A r \in Requests : Tick("write", r) \in Elements(ticks)
                             => Tick("write", r) \in Elements(q)
  PROVE  HeadInv'
<1>1. CASE ResetMode = "noDevice"
  <2>1. ticks' = q /\ UNCHANGED <<pending, timerModbus>>
    BY <1>1 DEF resetTargets, timerVars
  <2>. QED  BY <2>1, HeadKept
<1>2. CASE ResetMode # "noDevice"
  <2>1. PICK x \in Resets : pending' = IF ResetMode = "none" THEN <<>> ELSE <<x>>
    BY <1>2 DEF resetTargets
  <2>2. pending' # <<>> => Head(pending') \notin Requests
    BY <2>1 DEF SerialAssumption
  <2>. QED  BY <2>2 DEF HeadInv
<1>. QED  BY <1>1, <1>2

LEMMA HeadInductive ==
  ASSUME SerialAssumption, TypeOK, HeadInv, [Next]_vars
  PROVE  HeadInv'
<1>. DEFINE Same == /\ UNCHANGED <<pending, timerModbus, writing, ticks>>
                    /\ escaped \subseteq escaped'
<1>1. ASSUME Same
      PROVE  HeadInv'
  BY <1>1 DEF HeadInv, OnItsWay
<1>2. CASE Open \/ PortOpenFails \/ Close \/ Stopped \/ UNCHANGED vars
  BY <1>1, <1>2
     DEF Open, PortOpenFails, Close, Stopped, vars, requVars, timerVars, lineVars, procVars
<1>3. CASE PortOpened
  BY <1>3, ResetTargetsHead DEF PortOpened, TypeOK, lineVars, procVars
<1>4. ASSUME NEW r \in Requests, send(r)
      PROVE  HeadInv'
  <2>1. /\ pending \in Seq(Jobs)
        /\ r \in Jobs
        /\ pending' = Append(pending, r)
    BY <1>4 DEF send, TypeOK, Jobs
  <2>2. CASE pending = <<>>
    <3>1. ticks' = <<Tick("write", r)>> /\ Head(pending') = r
      BY <1>4, <2>1, <2>2 DEF send
    <3>2. Tick("write", r) \in Elements(ticks')
      BY <3>1 DEF Elements
    <3>. QED  BY <3>1, <3>2 DEF HeadInv, OnItsWay
  <2>3. CASE pending # <<>>
    <3>1. Head(pending') = Head(pending)
      BY <2>1, <2>3
    <3>2. UNCHANGED <<timerModbus, writing, ticks, escaped>>
      BY <1>4, <2>3 DEF send, lineVars, procVars
    <3>. QED  BY <2>3, <3>1, <3>2, HeadKept
  <2>. QED  BY <2>2, <2>3
<1>5. ASSUME NEW r \in Requests, NEW modbusTimeout \in BOOLEAN,
             handleTimeout(r, modbusTimeout)
      PROVE  HeadInv'
  <2>1. handleError(r, ticks) /\ r \in Jobs /\ ticks \in Seq(Ticks)
    BY <1>5 DEF handleTimeout, Jobs, TypeOK
  <2>. QED  BY <2>1, HandleErrorHead
<1>6. CASE \E n \in 1..Len(bus) : handleOnSerialData(n)
  BY <1>1, <1>6 DEF handleOnSerialData, timerVars, procVars
<1>7. CASE WriteDone
  <2>. DEFINE w == Head(writing)
  <2>1. /\ w.requ \in Requests
        /\ \A e \in Elements(writing) : e = w \/ e \in Elements(writing')
    <3>1. /\ w \in [requ : Requests, ok : BOOLEAN]
          /\ \A e \in Elements(writing) : e = w \/ e \in Elements(Tail(writing))
      BY <1>7, ElementsTail DEF WriteDone, TypeOK
    <3>. QED  BY <1>7, <3>1 DEF WriteDone
  <2>2. CASE ~w.ok
    <3>. DEFINE r == w.requ
    <3>1. handleError(r, ticks) /\ r \in Jobs /\ ticks \in Seq(Ticks)
      BY <1>7, <2>1, <2>2 DEF WriteDone, Jobs, TypeOK
    <3>. HIDE DEF r
    <3>. QED  BY <3>1, HandleErrorHead
  <2>3. CASE w.ok
    <3>1. UNCHANGED <<pending, ticks>>
      BY <1>7, <2>3 DEF WriteDone
    <3>2. \/ "sentAt already set" \in escaped'
          \/ /\ timerModbus' = timerModbus \cup {w.requ}
             /\ UNCHANGED escaped
      BY <1>7, <2>3 DEF WriteDone, Escape, procVars
    <3>. HIDE DEF w
    <3>. QED  BY <2>1, <3>1, <3>2 DEF HeadInv, OnItsWay
  <2>. QED  BY <2>2, <2>3
<1>8. CASE TickStep
  <2>1. /\ ticks # <<>>
        /\ ticks \in Seq(Ticks)
        /\ Tail(ticks) \in Seq(Ticks)
        /\ \A e \in Elements(ticks) : e = Head(ticks) \/ e \in Elements(Tail(ticks))
    <3>1. ticks # <<>> /\ ticks \in Seq(Ticks)
      BY <1>8 DEF TickStep, WriteTick, RejectTick, ResetTargetsTick, TypeOK
    <3>. QED  BY <3>1, ElementsTail
  <2>2. \A r \in Requests : Tick("write", r) = Head(ticks)
          => Head(ticks).kind = "write" /\ Head(ticks).job = r
    BY DEF Tick
  <2>3. CASE WriteTick
    <3>. DEFINE j == Head(ticks).job
    <3>1. CASE j \in Requests
      <4>1. /\ UNCHANGED <<pending, timerModbus, escaped>>
            /\ ticks' = Tail(ticks)
        BY <2>3, <3>1 DEF WriteTick, timerVars, procVars
      <4>2. PICK ok \in BOOLEAN : writing' = Append(writing, [requ |-> j, ok |-> ok])
        BY <2>3, <3>1 DEF WriteTick
      <4>3. /\ Elements(writing) \subseteq Elements(writing')
            /\ \E w \in Elements(writing') : w.requ = j
        <5>1. [requ |-> j, ok |-> ok] \in [requ : Requests, ok : BOOLEAN]
          BY <3>1
        <5>2. writing \in Seq([requ : Requests, ok : BOOLEAN])
          BY DEF TypeOK
        <5>3. /\ Elements(writing) \subseteq Elements(writing')
              /\ [requ |-> j, ok |-> ok] \in Elements(writing')
          BY <4>2, <5>1, <5>2, ElementsAppend
        <5>. QED  BY <5>3
      <4>. HIDE DEF j
      <4>. QED  BY <2>1, <2>2, <4>1, <4>3 DEF HeadInv, OnItsWay, j
    <3>2. CASE j \notin Requests
      <4>1. handleError(j, Tail(ticks)) /\ j \in Jobs
        BY <2>3, <3>2, TickTypes DEF WriteTick
      <4>. HIDE DEF j
      <4>. QED  BY <2>1, <4>1, HandleErrorHead
    <3>. QED  BY <3>1, <3>2
  <2>4. CASE RejectTick
    <3>1. /\ UNCHANGED <<pending, timerModbus, writing, escaped>>
          /\ ticks' = Tail(ticks)
          /\ Head(ticks).kind = "reject"
      BY <2>4 DEF RejectTick, timerVars, lineVars, procVars
    <3>. QED  BY <2>1, <2>2, <3>1, HeadKept
  <2>5. CASE ResetTargetsTick
    <3>1. /\ resetTargets(Tail(ticks))
          /\ UNCHANGED <<writing, escaped>>
          /\ Head(ticks).kind = "resetTargets"
      BY <2>5 DEF ResetTargetsTick, lineVars, procVars
    <3>. QED  BY <2>1, <2>2, <3>1, ResetTargetsHead
  <2>. QED  BY <1>8, <2>3, <2>4, <2>5 DEF TickStep
<1>9. CASE FrameStep
  <2>1. CASE FrameWithoutHead \/ FrameAsEcho
    BY <1>1, <2>1
       DEF FrameWithoutHead, FrameAsEcho, Escape, requVars, timerVars, lineVars, procVars
  <2>2. CASE FrameForReset
    <3>1. /\ handleError(Head(pending), ticks)
          /\ Head(pending) \in Jobs
          /\ ticks \in Seq(Ticks)
      BY <2>2 DEF FrameForReset, TypeOK
    <3>. QED  BY <3>1, HandleErrorHead
  <2>3. CASE FrameAsResponse
    <3>. DEFINE r == Head(pending)
    <3>1. CASE r \in failed \/ response[r] # NoMsg
      <4>1. /\ Escape("response/error already set")
            /\ UNCHANGED <<pending, timerModbus, writing, ticks>>
        BY <2>3, <3>1 DEF FrameAsResponse, timerVars, lineVars
      <4>. QED  BY <1>1, <4>1 DEF Escape
    <3>2. CASE ~(r \in failed \/ response[r] # NoMsg)
      <4>1. /\ pending' = WithoutHead(r)
            /\ ticks' = ExecuteTicks(WithoutHead(r), ticks)
            /\ WithoutHead(r) \in Seq(Jobs)
            /\ ticks \in Seq(Ticks)
        BY <2>3, <3>2, QueueTypes DEF FrameAsResponse, ExecuteHead, Jobs, TypeOK
      <4>. QED  BY <4>1, HeadExecuted DEF HeadInv, OnItsWay
    <3>. QED  BY <3>1, <3>2
  <2>. QED  BY <1>9, <2>1, <2>2, <2>3 DEF FrameStep
<1>10. ASSUME NEW x \in Resets, ResetStep(x)
       PROVE  HeadInv'
  <2>1. x \in Jobs /\ ticks \in Seq(Ticks)
    BY DEF Jobs, TypeOK
  <2>2. CASE ResetHeard(x)
    <3>1. /\ pending' = WithoutHead(x)
          /\ ticks' = ExecuteTicks(WithoutHead(x), ticks)
          /\ WithoutHead(x) \in Seq(Jobs)
      BY <2>1, <2>2, QueueTypes DEF ResetHeard
    <3>. QED  BY <2>1, <3>1, HeadExecuted DEF HeadInv, OnItsWay
  <2>3. CASE ResetAgain(x) \/ ResetFails(x)
    BY <1>1, <2>3 DEF ResetAgain, ResetFails, timerVars, lineVars, procVars
  <2>4. CASE ResetThrows(x)
    <3>1. handleError(x, ticks)
      BY <2>4 DEF ResetThrows
    <3>. QED  BY <2>1, <3>1, HandleErrorHead
  <2>. QED  BY <1>10, <2>2, <2>3, <2>4 DEF ResetStep
<1>. QED  BY <1>2, <1>3, <1>4, <1>5, <1>6, <1>7, <1>8, <1>9, <1>10 DEF Next

\* The queue never wedges: whenever the event loop waits with a request at the
\* head of the queue, that request is being written or its transmission timer
\* runs, unless an exception of the sentAt setter has cost it that timer.
THEOREM HeadAlwaysInProgress == Spec => []HeadInProgress
<1>1. Init => HeadInv
  BY DEF Init, HeadInv
<1>2. TypeOK /\ HeadInv /\ [Next]_vars => HeadInv'
  BY SerialAssumption, HeadInductive
<1>3. HeadInv => HeadInProgress
  <2>1. ticks = <<>> => Elements(ticks) = {}
    BY DEF Elements
  <2>. QED  BY <2>1 DEF HeadInv, OnItsWay, HeadInProgress, Idle
<1>. QED  BY <1>1, <1>2, <1>3, TypeCorrect, PTL DEF Spec

-----------------------------------------------------------------------------
(***************************************************************************)
(* Each request is written once, and one reset runs at a time, whatever    *)
(* the line does and however late callbacks come.                          *)
(*                                                                         *)
(* FewRequests is what both need: while a reset has the line, the errors   *)
(* of the requests that are still alive must not reach the limit again.    *)
(* Each of them has at most two errors ahead, one by its timers and one by *)
(* its write callback.                                                     *)
(***************************************************************************)
FewRequests == IsFiniteSet(Requests) /\ 2 * Cardinality(Requests) < ErrLimit

\* Requests that are to be given to the serial port, or wait for the callback of its write().
Writing(r) == \E w \in Elements(writing) : w.requ = r
ToWrite == {r \in Requests : Tick("write", r) \in Elements(ticks) \/ Writing(r)}

Unique(s, e) == \A i, j \in 1..Len(s) : s[i] = e /\ s[j] = e => i = j

Once ==
  /\ \A r \in Requests : Unique(ticks, Tick("write", r))
  /\ \A i, j \in 1..Len(writing) : writing[i].requ = writing[j].requ => i = j
  /\ \A r \in Requests : Writing(r) => Tick("write", r) \notin Elements(ticks)
  /\ \A t \in Elements(ticks) : t.kind = "write" => t.job \in Requests
  /\ ToWrite \cap sentAt = {}

\* Only the first job of the queue has been started; resets stand nowhere else.
Queued ==
  /\ \A r \in Jobs : Unique(pending, r)
  /\ \A i \in 2..Len(pending) : pending[i] \in Requests /\ pending[i] \notin ToWrite \cup sentAt

Reset == Tick("resetTargets", NoJob)

\* The reset at the error limit is the next thing that happens.
ResetNext ==
  /\ \A i \in 1..Len(ticks) : ticks[i] = Reset => i = 1
  /\ Reset \in Elements(ticks) =>
       errCnt = 0 /\ chunk = <<>> /\ (ResetMode = "gpio" => lockedBy = "none")
  /\ chunk # <<>> /\ ticks # <<>> => pending = <<>> \/ Head(pending) \in Requests

Early ==
  port \in {"new", "opening"} =>
    /\ lockedBy = "none" /\ errCnt = 0 /\ pending = <<>> /\ ticks = <<>> /\ chunk = <<>>
    /\ timer \cup timerModbus = {} /\ writing = <<>>

\* What the errors that are still ahead can count.
Load == Cardinality(timer \cup timerModbus) + Cardinality(ToWrite)

\* The reset is alone with the line, and the error limit is out of reach.
OneReset ==
  /\ pending = <<>> \/ \E x \in Resets : pending = <<x>>
  /\ \A x \in Resets : resetAt[x] # "off" =>
       /\ pending \in {<<>>, <<x>>}
       /\ \A y \in Resets : resetAt[y] # "off" => y = x

AllOff == \A x \in Resets : resetAt[x] = "off"

Locked ==
  /\ ResetMode # "gpio" => receive = "drop" /\ AllOff
  /\ lockedBy = "none" => AllOff
  /\ lockedBy # "none" =>
       /\ chunk = <<>> /\ receive # "frames"
       /\ OneReset
       /\ ResetMode = "gpio" => errCnt + Load < ErrLimit

LockInv == Once /\ Queued /\ ResetNext /\ Early /\ Locked /\ WrittenOnce

-----------------------------------------------------------------------------
(* Sequences whose elements occur once.                                    *)

LEMMA ElementIs ==
  ASSUME NEW s, NEW e
  PROVE  e \in Elements(s) <=> \E i \in 1..Len(s) : s[i] = e
BY DEF Elements

LEMMA TailOnce ==
  ASSUME NEW S, NEW s \in Seq(S), s # <<>>
  PROVE  /\ Elements(Tail(s)) \subseteq Elements(s) /\ Head(s) \in Elements(s)
         /\ \A e : Unique(s, e) => /\ Unique(Tail(s), e)
                                   /\ Head(s) = e => e \notin Elements(Tail(s))
<1>1. /\ Len(Tail(s)) = Len(s) - 1 /\ Len(s) \in Nat /\ Len(s) >= 1 /\ Head(s) = s[1]
      /\ \A i \in 1..Len(Tail(s)) : i + 1 \in 1..Len(s) /\ Tail(s)[i] = s[i + 1]
  OBVIOUS
<1>2. Elements(Tail(s)) \subseteq Elements(s) /\ Head(s) \in Elements(s)
  BY <1>1 DEF Elements
<1>3. ASSUME NEW e, Unique(s, e)
      PROVE  Unique(Tail(s), e) /\ (Head(s) = e => e \notin Elements(Tail(s)))
  <2>1. Unique(Tail(s), e)
    <3> SUFFICES ASSUME NEW i \in 1..Len(Tail(s)), NEW j \in 1..Len(Tail(s)),
                        Tail(s)[i] = e, Tail(s)[j] = e
                 PROVE  i = j
      BY DEF Unique
    <3>1. i + 1 = j + 1
      BY <1>1, <1>3 DEF Unique
    <3> QED BY <1>1, <3>1
  <2>2. ASSUME Head(s) = e, NEW i \in 1..Len(Tail(s)), Tail(s)[i] = e PROVE FALSE
    <3>1. i + 1 = 1
      BY <1>1, <1>3, <2>2 DEF Unique
    <3> QED BY <1>1, <3>1
  <2> QED BY <2>1, <2>2, ElementIs
<1> QED BY <1>2, <1>3

LEMMA ConcatOnce ==
  ASSUME NEW S, NEW s \in Seq(S), NEW t \in Seq(S)
  PROVE  /\ s \o t \in Seq(S)
         /\ Elements(s \o t) = Elements(s) \cup Elements(t)
         /\ \A e : Unique(s, e) /\ Unique(t, e) /\ ~(e \in Elements(s) /\ e \in Elements(t))
                     => Unique(s \o t, e)
         /\ \A e : (\A i \in 1..Len(s) : s[i] = e => i = 1) /\ e \notin Elements(t)
                     => \A i \in 1..Len(s \o t) : (s \o t)[i] = e => i = 1
<1>1. /\ s \o t \in Seq(S) /\ Len(s \o t) = Len(s) + Len(t) /\ Len(s) \in Nat /\ Len(t) \in Nat
      /\ \A i \in 1..Len(s) : (s \o t)[i] = s[i]
      /\ \A i \in 1..Len(s \o t) : i \notin 1..Len(s) =>
            i - Len(s) \in 1..Len(t) /\ (s \o t)[i] = t[i - Len(s)]
      /\ \A i \in 1..Len(t) : Len(s) + i \in 1..Len(s \o t) /\ (s \o t)[Len(s) + i] = t[i]
  OBVIOUS
<1>2. Elements(s \o t) \subseteq Elements(s) \cup Elements(t)
  <2> SUFFICES ASSUME NEW i \in 1..Len(s \o t)
               PROVE  (s \o t)[i] \in Elements(s) \cup Elements(t)
    BY DEF Elements
  <2> QED BY <1>1 DEF Elements
<1>3. Elements(s) \cup Elements(t) \subseteq Elements(s \o t)
  BY ElementsConcat
<1>4. ASSUME NEW e, Unique(s, e), Unique(t, e), ~(e \in Elements(s) /\ e \in Elements(t))
      PROVE  Unique(s \o t, e)
  <2> SUFFICES ASSUME NEW i \in 1..Len(s \o t), NEW j \in 1..Len(s \o t),
                      (s \o t)[i] = e, (s \o t)[j] = e
               PROVE  i = j
    BY DEF Unique
  <2>1. CASE i \in 1..Len(s) /\ j \in 1..Len(s)
    BY <1>1, <1>4, <2>1 DEF Unique
  <2>2. CASE i \notin 1..Len(s) /\ j \notin 1..Len(s)
    <3>1. i - Len(s) = j - Len(s)
      BY <1>1, <1>4, <2>2 DEF Unique
    <3> QED BY <1>1, <3>1
  <2>3. CASE (i \in 1..Len(s)) # (j \in 1..Len(s))
    BY <1>1, <1>4, <2>3 DEF Elements
  <2> QED BY <2>1, <2>2, <2>3
<1>5. ASSUME NEW e, \A i \in 1..Len(s) : s[i] = e => i = 1, e \notin Elements(t)
      PROVE  \A i \in 1..Len(s \o t) : (s \o t)[i] = e => i = 1
  <2> SUFFICES ASSUME NEW i \in 1..Len(s \o t), (s \o t)[i] = e
               PROVE  i = 1
    OBVIOUS
  <2> QED BY <1>1, <1>5 DEF Elements
<1> QED BY <1>1, <1>2, <1>3, <1>4, <1>5

LEMMA SingleOnce ==
  ASSUME NEW f
  PROVE  /\ Elements(<<f>>) = {f} /\ \A e : Unique(<<f>>, e)
         /\ Elements(<<>>) = {} /\ \A e : Unique(<<>>, e)
<1>1. Len(<<f>>) = 1 /\ <<f>>[1] = f /\ Len(<<>>) = 0 /\ 1..1 = {1} /\ 1..0 = {}
  OBVIOUS
<1> QED BY <1>1 DEF Elements, Unique

\* append is a concatenation.
LEMMA AppendOnce ==
  ASSUME NEW S, NEW s \in Seq(S), NEW f \in S
  PROVE  /\ Append(s, f) \in Seq(S)
         /\ Elements(Append(s, f)) = Elements(s) \cup {f}
         /\ \A e : Unique(s, e) /\ (f = e => e \notin Elements(s)) => Unique(Append(s, f), e)
<1> DEFINE t == <<f>>
<1>1. Append(s, f) = s \o t /\ t \in Seq(S)
  OBVIOUS
<1>2. Elements(t) = {f} /\ \A e : Unique(t, e)
  BY SingleOnce
<1> HIDE DEF t
<1>3. Elements(Append(s, f)) = Elements(s) \cup {f}
  BY <1>1, <1>2, ConcatOnce
<1>4. ASSUME NEW e, Unique(s, e), f = e => e \notin Elements(s) PROVE Unique(Append(s, f), e)
  <2>1. Unique(t, e) /\ ~(e \in Elements(s) /\ e \in Elements(t))
    BY <1>2, <1>4
  <2> QED BY <1>1, <1>4, <2>1, ConcatOnce
<1> QED BY <1>1, <1>3, <1>4, ConcatOnce

\* The cardinalities behind Load.
LEMMA CountLess ==
  ASSUME NEW S, IsFiniteSet(S), NEW T, NEW x
  PROVE  /\ Cardinality(S) \in Nat
         /\ T \subseteq S => IsFiniteSet(T) /\ Cardinality(T) \in Nat /\ Cardinality(T) <= Cardinality(S)
         /\ T \subseteq S \ {x} /\ x \in S => Cardinality(T) + 1 <= Cardinality(S)
         /\ T \subseteq S \cup {x} => Cardinality(T) <= Cardinality(S) + 1
<1>1. Cardinality(S) \in Nat
  BY FS_CardinalityType
<1>2. T \subseteq S => IsFiniteSet(T) /\ Cardinality(T) \in Nat /\ Cardinality(T) <= Cardinality(S)
  BY FS_Subset, FS_CardinalityType
<1>3. ASSUME T \subseteq S \ {x}, x \in S PROVE Cardinality(T) + 1 <= Cardinality(S)
  <2>1. IsFiniteSet(S \ {x}) /\ Cardinality(S \ {x}) = Cardinality(S) - 1
    BY <1>3, FS_RemoveElement
  <2>2. Cardinality(T) \in Nat /\ Cardinality(T) <= Cardinality(S \ {x})
    BY <1>3, <2>1, FS_Subset, FS_CardinalityType
  <2> QED BY <1>1, <2>1, <2>2
<1>4. ASSUME T \subseteq S \cup {x} PROVE Cardinality(T) <= Cardinality(S) + 1
  <2>1. /\ IsFiniteSet(S \cup {x})
        /\ Cardinality(S \cup {x}) \in {Cardinality(S), Cardinality(S) + 1}
    BY FS_AddElement
  <2>2. Cardinality(T) \in Nat /\ Cardinality(T) <= Cardinality(S \cup {x})
    BY <1>4, <2>1, FS_Subset, FS_CardinalityType
  <2> QED BY <1>1, <2>1, <2>2
<1> QED BY <1>1, <1>2, <1>3, <1>4

LEMMA LoadBound ==
  ASSUME FewRequests, TypeOK
  PROVE  /\ IsFiniteSet(timer \cup timerModbus) /\ IsFiniteSet(ToWrite)
         /\ Load \in Nat /\ Load <= 2 * Cardinality(Requests)
<1>1. timer \cup timerModbus \subseteq Requests /\ ToWrite \subseteq Requests
  BY DEF TypeOK, ToWrite
<1>2. IsFiniteSet(Requests)
  BY DEF FewRequests
<1>3. /\ Cardinality(timer \cup timerModbus) \in Nat /\ Cardinality(ToWrite) \in Nat
      /\ Cardinality(timer \cup timerModbus) <= Cardinality(Requests)
      /\ Cardinality(ToWrite) <= Cardinality(Requests)
      /\ IsFiniteSet(timer \cup timerModbus) /\ IsFiniteSet(ToWrite) /\ Cardinality(Requests) \in Nat
  BY <1>1, <1>2, CountLess
<1> QED BY <1>3 DEF Load

\* A step that adds no timer and no write does not add to what is ahead; one that
\* ends a timer or a write takes something away.
LEMMA LoadFalls ==
  ASSUME FewRequests, TypeOK,
         (timer \cup timerModbus)' \subseteq timer \cup timerModbus, ToWrite' \subseteq ToWrite
  PROVE  /\ Load \in Nat /\ Load' \in Nat /\ Load' <= Load
         /\ \A r : (\/ r \in timer \cup timerModbus /\ r \notin (timer \cup timerModbus)'
                    \/ r \in ToWrite /\ r \notin ToWrite')
                     => Load' + 1 <= Load
<1> DEFINE S == timer \cup timerModbus
           T == ToWrite
           S2 == timer' \cup timerModbus'
           T2 == ToWrite'
<1>1. IsFiniteSet(S) /\ IsFiniteSet(T)
  BY LoadBound
<1>2. S2 \subseteq S /\ T2 \subseteq T /\ Load = Cardinality(S) + Cardinality(T)
      /\ Load' = Cardinality(S2) + Cardinality(T2)
  BY DEF Load
<1> HIDE DEF S, T, S2, T2
<1>3. /\ Cardinality(S) \in Nat /\ Cardinality(T) \in Nat
      /\ Cardinality(S2) \in Nat /\ Cardinality(T2) \in Nat
      /\ Cardinality(S2) <= Cardinality(S) /\ Cardinality(T2) <= Cardinality(T)
  BY <1>1, <1>2, CountLess
<1>4. ASSUME NEW r, (r \in S /\ r \notin S2) \/ (r \in T /\ r \notin T2)
      PROVE  Load' + 1 <= Load
  <2>1. CASE r \in S /\ r \notin S2
    <3>1. S2 \subseteq S \ {r}
      BY <1>2, <2>1
    <3>2. Cardinality(S2) + 1 <= Cardinality(S)
      BY <1>1, <2>1, <3>1, CountLess
    <3> QED BY <1>2, <1>3, <3>2
  <2>2. CASE r \in T /\ r \notin T2
    <3>1. T2 \subseteq T \ {r}
      BY <1>2, <2>2
    <3>2. Cardinality(T2) + 1 <= Cardinality(T)
      BY <1>1, <2>2, <3>1, CountLess
    <3> QED BY <1>2, <1>3, <3>2
  <2> QED BY <1>4, <2>1, <2>2
<1>5. Load \in Nat /\ Load' \in Nat /\ Load' <= Load
  BY <1>2, <1>3
<1>6. \A r : (r \in S /\ r \notin S2) \/ (r \in T /\ r \notin T2) => Load' + 1 <= Load
  BY <1>4
<1> QED BY <1>5, <1>6, Zenon DEF S, T, S2, T2

-----------------------------------------------------------------------------
(* Each request is written once.                                           *)

LEMMA Kinds ==
  /\ \A r, s : Tick("write", r) = Tick("write", s) => r = s
  /\ \A k, r : Tick(k, r).kind = k /\ Tick(k, r).job = r
  /\ Reset.kind = "resetTargets"
BY DEF Tick, Reset

LEMMA NextIs ==
  ASSUME SerialAssumption, NEW p \in Seq(Jobs)
  PROVE  /\ WriteNext(p) \in Seq(Ticks) /\ \A e : Unique(WriteNext(p), e)
         /\ Elements(WriteNext(p)) = IF p = <<>> THEN {} ELSE {Tick("write", Head(p))}
<1>1. CASE p = <<>>
  <2>1. WriteNext(p) = <<>>
    BY <1>1 DEF WriteNext
  <2>2. <<>> \in Seq(Ticks)
    OBVIOUS
  <2>3. Elements(<<>>) = {} /\ \A e : Unique(<<>>, e)
    BY SingleOnce, Zenon
  <2> QED BY <1>1, <2>1, <2>2, <2>3, Zenon
<1>2. CASE p # <<>>
  <2> DEFINE f == Tick("write", Head(p))
  <2>1. f \in Ticks
    BY <1>2 DEF Ticks, Tick
  <2>2. WriteNext(p) = <<f>>
    BY <1>2 DEF WriteNext
  <2> HIDE DEF f
  <2>3. WriteNext(p) \in Seq(Ticks)
    BY <2>1, <2>2
  <2>4. Elements(<<f>>) = {f} /\ \A e : Unique(<<f>>, e)
    BY SingleOnce
  <2>5. Elements(WriteNext(p)) = {f} /\ \A e : Unique(WriteNext(p), e)
    BY <2>2, <2>4, Zenon
  <2> QED BY <1>2, <2>3, <2>5 DEF f
<1> QED BY <1>1, <1>2

\* What is left of the queue behind its head has not been started.
LEMMA RestIs ==
  ASSUME SerialAssumption, TypeOK, Queued
  PROVE  /\ Rest(pending) \in Seq(Jobs) /\ \A r \in Jobs : Unique(Rest(pending), r)
         /\ \A i \in 1..Len(Rest(pending)) :
              Rest(pending)[i] \in Requests /\ Rest(pending)[i] \notin ToWrite \cup sentAt
         /\ Rest(pending) # <<>> => Head(Rest(pending)) = Rest(pending)[1] /\ Len(Rest(pending)) >= 1
<1>1. pending \in Seq(Jobs)
  BY DEF TypeOK
<1>2. CASE pending = <<>>
  <2>1. Rest(pending) = <<>>
    BY <1>2 DEF Rest
  <2>2. <<>> \in Seq(Jobs) /\ \A i \in 1..Len(<<>>) : FALSE
    OBVIOUS
  <2>3. \A e : Unique(<<>>, e)
    BY SingleOnce, Zenon
  <2> QED BY <2>1, <2>2, <2>3, Zenon
<1>3. CASE pending # <<>>
  <2>1. Rest(pending) = Tail(pending)
    BY <1>3 DEF Rest
  <2>2. \A r \in Jobs : Unique(Tail(pending), r)
    BY <1>1, <1>3, TailOnce DEF Queued
  <2>3. /\ Tail(pending) \in Seq(Jobs)
        /\ \A i \in 1..Len(Tail(pending)) : i + 1 \in 2..Len(pending) /\ Tail(pending)[i] = pending[i + 1]
        /\ Tail(pending) # <<>> => Head(Tail(pending)) = Tail(pending)[1] /\ Len(Tail(pending)) >= 1
    BY <1>1, <1>3
  <2> QED BY <2>1, <2>2, <2>3 DEF Queued
<1> QED BY <1>2, <1>3

\* The next request of the queue is to be written.
LEMMA Advance ==
  ASSUME SerialAssumption, TypeOK, Once, Queued, NEW q \in Seq(Ticks),
         \A r \in Requests : Unique(q, Tick("write", r)),
         \A t \in Elements(q) : t.kind = "write" => t \in Elements(ticks),
         pending' = Rest(pending), ticks' = q \o WriteNext(Rest(pending)), sentAt' = sentAt,
         \A r \in Requests : Writing(r)' => Writing(r),
         \A i, j \in 1..Len(writing') : writing'[i].requ = writing'[j].requ => i = j
  PROVE  /\ Once' /\ Queued'
         /\ Elements(ticks') = Elements(q) \cup
              (IF Rest(pending) = <<>> THEN {} ELSE {Tick("write", Head(Rest(pending)))})
         /\ Rest(pending) = <<>> => ToWrite' \subseteq ToWrite
<1> DEFINE p == Rest(pending)
           n == WriteNext(p)
           h == Head(p)
<1>1. /\ p \in Seq(Jobs) /\ \A r \in Jobs : Unique(p, r)
      /\ \A i \in 1..Len(p) : p[i] \in Requests /\ p[i] \notin ToWrite \cup sentAt
      /\ p # <<>> => h = p[1] /\ Len(p) >= 1
  BY RestIs
<1>2. /\ n \in Seq(Ticks) /\ \A e : Unique(n, e)
      /\ Elements(n) = IF p = <<>> THEN {} ELSE {Tick("write", h)}
  BY <1>1, NextIs
<1>3. pending' = p /\ ticks' = q \o n
  OBVIOUS
<1>4. p # <<>> => h \in Requests /\ h \notin ToWrite \cup sentAt
  BY <1>1
<1> HIDE DEF p, n, h
<1>5. Elements(ticks') = Elements(q) \cup Elements(n)
  BY <1>2, <1>3, ConcatOnce
<1>6. ToWrite' \subseteq ToWrite \cup (IF p = <<>> THEN {} ELSE {h})
  <2> SUFFICES ASSUME NEW r \in Requests, Tick("write", r) \in Elements(ticks') \/ Writing(r)',
                      r \notin ToWrite
               PROVE  p # <<>> /\ r = h
    BY DEF ToWrite
  <2>1. Tick("write", r) \notin Elements(ticks) /\ ~Writing(r)
    BY DEF ToWrite
  <2>2. Tick("write", r) \in Elements(n)
    BY <1>5, <2>1, Kinds
  <2> QED BY <1>2, <2>2, Kinds
<1>7. Once'
  <2>1. ASSUME NEW r \in Requests PROVE Unique(ticks', Tick("write", r))
    <3>1. ~(Tick("write", r) \in Elements(q) /\ Tick("write", r) \in Elements(n))
      <4> SUFFICES ASSUME Tick("write", r) \in Elements(q), Tick("write", r) \in Elements(n)
                   PROVE  FALSE
        OBVIOUS
      <4>1. Tick("write", r) \in Elements(ticks)
        BY Kinds
      <4>2. p # <<>> /\ r = h
        BY <1>2, Kinds
      <4> QED BY <1>4, <4>1, <4>2 DEF ToWrite
    <3>2. Unique(q, Tick("write", r)) /\ Unique(n, Tick("write", r))
      BY <1>2
    <3>3. Unique(q \o n, Tick("write", r))
      BY <1>2, <3>1, <3>2, ConcatOnce
    <3> QED BY <1>3, <3>3
  <2>2. ASSUME NEW r \in Requests, Writing(r)' PROVE Tick("write", r) \notin Elements(ticks')
    <3>1. Writing(r) /\ Tick("write", r) \notin Elements(ticks) /\ r \in ToWrite
      BY <2>2 DEF Once, ToWrite
    <3>2. Tick("write", r) \notin Elements(q)
      BY <3>1, Kinds
    <3>3. Tick("write", r) \notin Elements(n)
      BY <1>2, <1>4, <3>1, Kinds
    <3> QED BY <1>5, <3>2, <3>3
  <2>3. ASSUME NEW t \in Elements(ticks'), t.kind = "write" PROVE t.job \in Requests
    <3>1. CASE t \in Elements(q)
      BY <2>3, <3>1 DEF Once
    <3>2. CASE t \in Elements(n)
      BY <1>2, <1>4, <3>2, Kinds
    <3> QED BY <1>5, <2>3, <3>1, <3>2
  <2>4. (ToWrite \cap sentAt)' = {}
    BY <1>4, <1>6 DEF Once
  <2> QED BY <2>1, <2>2, <2>3, <2>4 DEF Once
<1>8. Queued'
  <2> SUFFICES ASSUME NEW i \in 2..Len(p)
               PROVE  p[i] \in Requests /\ p[i] \notin (ToWrite \cup sentAt)'
    BY <1>1, <1>3 DEF Queued
  <2>1. i \in 1..Len(p) /\ 1 \in 1..Len(p) /\ i # 1 /\ p # <<>>
    BY <1>1
  <2>2. p[i] # h
    BY <1>1, <2>1 DEF Unique, Jobs
  <2> QED BY <1>1, <1>6, <2>1, <2>2
<1> QED BY <1>2, <1>5, <1>6, <1>7, <1>8 DEF p, n, h

\* Nothing new is to be written.
LEMMA NothingNew ==
  ASSUME Once, Queued, UNCHANGED <<writing, sentAt>>,
         \A r \in Requests : Unique(ticks', Tick("write", r)),
         \A t \in Elements(ticks') : t.kind = "write" => t \in Elements(ticks)
  PROVE  /\ Once' /\ ToWrite' \subseteq ToWrite
         /\ pending' = pending => Queued'
<1>1. \A r \in Requests : Writing(r)' <=> Writing(r)
  BY DEF Writing
<1>2. \A r \in Requests : Tick("write", r) \in Elements(ticks') => Tick("write", r) \in Elements(ticks)
  BY Kinds
<1>3. ToWrite' \subseteq ToWrite
  BY <1>1, <1>2 DEF ToWrite
<1>4. Once'
  BY <1>1, <1>2, <1>3 DEF Once
<1> QED BY <1>3, <1>4 DEF Queued

\* The oldest write() is over.
LEMMA WritingTail ==
  ASSUME TypeOK, Once, writing # <<>>, writing' = Tail(writing), NEW r, r = Head(writing).requ
  PROVE  /\ r \in Requests /\ Writing(r) /\ ~Writing(r)'
         /\ \A s : Writing(s)' => Writing(s)
         /\ \A i, j \in 1..Len(writing') : writing'[i].requ = writing'[j].requ => i = j
<1> DEFINE R == [requ : Requests, ok : BOOLEAN]
<1>1. writing \in Seq(R)
  BY DEF TypeOK
<1>2. /\ Head(writing) = writing[1] /\ 1 \in 1..Len(writing) /\ Len(writing) \in Nat
      /\ \A i \in 1..Len(Tail(writing)) :
           i \in Nat /\ i + 1 \in 1..Len(writing) /\ Tail(writing)[i] = writing[i + 1]
      /\ writing[1].requ \in Requests
  <2>1. /\ Head(writing) = writing[1] /\ 1 \in 1..Len(writing) /\ Len(writing) \in Nat
        /\ \A i \in 1..Len(Tail(writing)) :
             i \in Nat /\ i + 1 \in 1..Len(writing) /\ Tail(writing)[i] = writing[i + 1]
    <3> HIDE DEF R
    <3> QED BY <1>1
  <2>2. writing[1] \in R
    <3> HIDE DEF R
    <3> QED BY <1>1, <2>1
  <2> QED BY <2>1, <2>2
<1>3. r \in Requests /\ Writing(r)
  BY <1>2 DEF Writing, Elements
<1>4. ~Writing(r)'
  <2>1. ASSUME NEW i \in 1..Len(Tail(writing)), Tail(writing)[i].requ = writing[1].requ
        PROVE  FALSE
    BY <1>2, <2>1 DEF Once
  <2>2. ASSUME NEW w \in Elements(Tail(writing)), w.requ = writing[1].requ PROVE FALSE
    BY <2>1, <2>2 DEF Elements
  <2> QED BY <1>2, <2>2, Zenon DEF Writing
<1>5. \A s : Writing(s)' => Writing(s)
  BY <1>2 DEF Writing, Elements
<1>6. ASSUME NEW i \in 1..Len(writing'), NEW j \in 1..Len(writing'),
             writing'[i].requ = writing'[j].requ
      PROVE  i = j
  <2>1. i + 1 = j + 1
    BY <1>2, <1>6 DEF Once
  <2> QED BY <1>2, <2>1
<1> QED BY <1>3, <1>4, <1>5, <1>6

-----------------------------------------------------------------------------
(* Every step keeps LockInv.                                               *)

Given == SerialAssumption /\ FewRequests /\ TypeOK /\ LockInv

LEMMA SameLine ==
  ASSUME Given, UNCHANGED <<pending, ticks, writing, sentAt, timer, timerModbus>>
  PROVE  Once' /\ Queued' /\ Load' = Load
<1>1. \A r : Writing(r)' <=> Writing(r)
  BY DEF Writing
<1>2. ToWrite' = ToWrite
  BY <1>1 DEF ToWrite
<1>3. Once' /\ Queued'
  BY <1>1, <1>2 DEF Given, LockInv, Once, Queued
<1>4. Load' = Load
  BY <1>2 DEF Load
<1> QED BY <1>3, <1>4

LEMMA NoResetInRest ==
  ASSUME TypeOK, ResetNext, ticks # <<>>
  PROVE  Reset \notin Elements(Tail(ticks))
<1>1. \A i \in 1..Len(Tail(ticks)) : i \in Nat /\ i >= 1 /\ i + 1 \in 1..Len(ticks) /\ Tail(ticks)[i] = ticks[i + 1]
  BY DEF TypeOK
<1>2. ASSUME NEW i \in 1..Len(Tail(ticks)), Tail(ticks)[i] = Reset PROVE FALSE
  <2>1. i + 1 = 1
    BY <1>1, <1>2 DEF ResetNext
  <2> QED BY <1>1, <2>1
<1> QED BY <1>2, ElementIs

\* handleError() on an empty nextTick queue.
LEMMA ErrorLine ==
  ASSUME Given, ticks = <<>>, NEW r \in Jobs, handleError(r, ticks), sentAt' = sentAt,
         \A s \in Requests : Writing(s)' => Writing(s),
         \A i, j \in 1..Len(writing') : writing'[i].requ = writing'[j].requ => i = j
  PROVE  /\ Once' /\ Queued' /\ pending' = Rest(pending)
         /\ \A i \in 1..Len(ticks') : ticks'[i] = Reset => i = 1
         /\ IF errCnt + 1 >= ErrLimit THEN errCnt' = 0
            ELSE errCnt' = errCnt + 1 /\ Reset \notin Elements(ticks')
         /\ Rest(pending) = <<>> =>
              ToWrite' \subseteq ToWrite /\ \A s \in ToWrite' : Writing(s)'
         /\ (timer \cup timerModbus)' = (timer \cup timerModbus) \ {r}
<1> DEFINE q == IF errCnt + 1 >= ErrLimit THEN <<Reset>> ELSE <<>>
           n == WriteNext(Rest(pending))
<1>1. /\ pending' = Rest(pending) /\ ticks' = (ticks \o q) \o n
      /\ errCnt' = CountError /\ timer' = timer \ {r} /\ timerModbus' = timerModbus \ {r}
  BY DEF handleError, ClearTimers, Reset
<1>2. q \in Seq(Ticks) /\ ticks \o q = q
  <2>1. Reset \in Ticks
    BY DEF Reset, Ticks, Tick
  <2>2. q \in Seq(Ticks)
    BY <2>1
  <2> HIDE DEF q
  <2> QED BY <2>2
<1>3. Elements(q) \subseteq {Reset} /\ (~(errCnt + 1 >= ErrLimit) => Elements(q) = {})
      /\ \A i \in 1..Len(q) : i = 1
  <2>1. CASE errCnt + 1 >= ErrLimit
    <3>1. q = <<Reset>>
      BY <2>1
    <3>2. Elements(<<Reset>>) = {Reset} /\ \A i \in 1..Len(<<Reset>>) : i = 1
      BY SingleOnce
    <3> HIDE DEF q
    <3> QED BY <2>1, <3>1, <3>2, Zenon
  <2>2. CASE ~(errCnt + 1 >= ErrLimit)
    <3>1. q = <<>>
      BY <2>2
    <3>2. Elements(<<>>) = {}
      BY SingleOnce, Zenon
    <3>3. \A i \in 1..Len(<<>>) : i = 1
      OBVIOUS
    <3> HIDE DEF q
    <3> QED BY <3>1, <3>2, <3>3, Zenon
  <2> HIDE DEF q
  <2> QED BY <2>1, <2>2, Zenon
<1> HIDE DEF q
<1>4. \A s : Tick("write", s) \notin Elements(q)
  BY <1>3, Kinds
<1>5. \A s : Unique(q, Tick("write", s))
  BY <1>4 DEF Unique, Elements
<1>6. \A t \in Elements(q) : t.kind # "write"
  BY <1>3, Kinds
<1>7. ticks' = q \o n
  BY <1>1, <1>2
<1>8. /\ Once' /\ Queued'
      /\ Elements(ticks') = Elements(q) \cup
           (IF Rest(pending) = <<>> THEN {} ELSE {Tick("write", Head(Rest(pending)))})
      /\ Rest(pending) = <<>> => ToWrite' \subseteq ToWrite
  BY <1>1, <1>2, <1>5, <1>6, <1>7, Advance DEF Given, LockInv
<1>9. Reset \notin Elements(n) /\ n \in Seq(Ticks)
  <2>1. Rest(pending) \in Seq(Jobs)
    BY RestIs DEF Given, LockInv
  <2> QED BY <2>1, NextIs, Kinds DEF Given
<1>10. \A i \in 1..Len(ticks') : ticks'[i] = Reset => i = 1
  BY <1>2, <1>3, <1>7, <1>9, ConcatOnce
<1>11. IF errCnt + 1 >= ErrLimit THEN errCnt' = 0
       ELSE errCnt' = errCnt + 1 /\ Reset \notin Elements(ticks')
  BY <1>1, <1>3, <1>8, Kinds DEF CountError
<1>12. ASSUME Rest(pending) = <<>>, NEW s \in ToWrite' PROVE Writing(s)'
  <2>1. Tick("write", s) \notin Elements(ticks')
    BY <1>4, <1>8, <1>12
  <2> QED BY <1>12, <2>1 DEF ToWrite
<1> QED BY <1>1, <1>8, <1>10, <1>11, <1>12

\* In a lock the queue has nothing behind its head.
LEMMA LockedRest ==
  ASSUME OneReset
  PROVE  Rest(pending) = <<>>
<1>1. \A x : Tail(<<x>>) = <<>>
  OBVIOUS
<1> QED BY <1>1 DEF OneReset, Rest

LEMMA BelowLimit ==
  ASSUME NEW e \in Nat, NEW l \in Nat, NEW m \in Nat, NEW n \in Nat, m + 1 <= l, e + l < n
  PROVE  e + 1 < n /\ ~(e + 1 >= n) /\ (e + 1) + m < n
OBVIOUS

LEMMA ErrorKeeps ==
  ASSUME Given, TypeOK', ticks = <<>>, NEW r \in Jobs, handleError(r, ticks),
         UNCHANGED <<port, sentAt, lockedBy, receive, resetAt, escaped>>, chunk' = <<>>,
         port \notin {"new", "opening"},
         \A s \in Requests : Writing(s)' => Writing(s),
         \A i, j \in 1..Len(writing') : writing'[i].requ = writing'[j].requ => i = j,
         lockedBy # "none" => \/ r \in timer \cup timerModbus
                              \/ r \in ToWrite /\ ~Writing(r)'
  PROVE  LockInv'
<1>1. /\ Once' /\ Queued' /\ pending' = Rest(pending)
      /\ \A i \in 1..Len(ticks') : ticks'[i] = Reset => i = 1
      /\ IF errCnt + 1 >= ErrLimit THEN errCnt' = 0
         ELSE errCnt' = errCnt + 1 /\ Reset \notin Elements(ticks')
      /\ Rest(pending) = <<>> =>
           ToWrite' \subseteq ToWrite /\ \A s \in ToWrite' : Writing(s)'
      /\ (timer \cup timerModbus)' = (timer \cup timerModbus) \ {r}
  BY ErrorLine
<1>2. ErrLimit \in Nat /\ errCnt \in Nat
  BY DEF Given, SerialAssumption, TypeOK
<1>3. ASSUME lockedBy # "none", ResetMode = "gpio"
      PROVE  errCnt + 1 < ErrLimit /\ errCnt' + Load' < ErrLimit
  <2>1. Rest(pending) = <<>>
    BY <1>3, LockedRest DEF Given, LockInv, Locked
  <2>2. /\ (timer \cup timerModbus)' \subseteq timer \cup timerModbus /\ ToWrite' \subseteq ToWrite
        /\ \/ r \in timer \cup timerModbus /\ r \notin (timer \cup timerModbus)'
           \/ r \in ToWrite /\ r \notin ToWrite'
    BY <1>1, <1>3, <2>1
  <2>3. Load \in Nat /\ Load' \in Nat /\ Load' + 1 <= Load
    BY <2>2, LoadFalls DEF Given
  <2>4. errCnt + Load < ErrLimit
    BY <1>3 DEF Given, LockInv, Locked
  <2>5. errCnt + 1 < ErrLimit /\ ~(errCnt + 1 >= ErrLimit)
    BY <1>2, <2>3, <2>4, BelowLimit
  <2>6. errCnt' = errCnt + 1
    BY <1>1, <2>5
  <2>7. (errCnt + 1) + Load' < ErrLimit
    BY <1>2, <2>3, <2>4, BelowLimit
  <2> QED BY <2>5, <2>6, <2>7
<1>4. ResetNext'
  BY <1>1, <1>2, <1>3 DEF ResetNext
<1>5. Locked'
  <2>1. lockedBy # "none" => pending' = <<>>
    BY <1>1, LockedRest DEF Given, LockInv, Locked
  <2> QED BY <1>3, <2>1 DEF Given, LockInv, Locked, OneReset, AllOff
<1> QED BY <1>1, <1>4, <1>5 DEF Given, LockInv, Early, WrittenOnce

LEMMA LoadBoundNext ==
  ASSUME FewRequests, TypeOK'
  PROVE  Load' \in Nat /\ Load' <= 2 * Cardinality(Requests)
<1> DEFINE S == timer' \cup timerModbus'
           T == ToWrite'
<1>1. S \subseteq Requests /\ T \subseteq Requests
  BY DEF TypeOK, ToWrite
<1>2. Load' = Cardinality(S) + Cardinality(T)
  BY DEF Load
<1> HIDE DEF S, T
<1>3. /\ Cardinality(S) \in Nat /\ Cardinality(T) \in Nat /\ Cardinality(Requests) \in Nat
      /\ Cardinality(S) <= Cardinality(Requests) /\ Cardinality(T) <= Cardinality(Requests)
  BY <1>1, CountLess DEF FewRequests
<1> QED BY <1>2, <1>3

LEMMA OnlyRejected ==
  ASSUME NEW p \in Seq(Jobs)
  PROVE  /\ Rejects(p) \in Seq(Ticks)
         /\ \A t \in Elements(Rejects(p)) : t.kind = "reject"
         /\ \A r : Tick("write", r) \notin Elements(Rejects(p))
         /\ \A r : Unique(Rejects(p), Tick("write", r))
         /\ Reset \notin Elements(Rejects(p))
<1>1. /\ Len(p) \in Nat /\ Len(Rejects(p)) = Len(p)
      /\ \A i \in 1..Len(p) : p[i] \in Jobs /\ Rejects(p)[i] = Tick("reject", p[i])
  BY DEF Rejects
<1>2. \A i \in 1..Len(p) : Tick("reject", p[i]) \in Ticks
  BY <1>1 DEF Ticks, Tick
<1>3. Rejects(p) \in Seq(Ticks)
  BY <1>1, <1>2 DEF Rejects
<1>4. \A t \in Elements(Rejects(p)) : t.kind = "reject"
  BY <1>1, Kinds DEF Elements
<1>5. \A r : Tick("write", r) \notin Elements(Rejects(p))
  BY <1>4, Kinds
<1>6. \A r : Unique(Rejects(p), Tick("write", r))
  BY <1>5 DEF Unique, Elements
<1> QED BY <1>3, <1>4, <1>5, <1>6, Kinds

\* resetTargets(), with what is left of the nextTick queue.
LEMMA ResetTargetsKeeps ==
  ASSUME Given, TypeOK', NEW q \in Seq(Ticks), resetTargets(q),
         UNCHANGED <<writing, escaped, chunk>>, port' \notin {"new", "opening"},
         chunk = <<>>, errCnt = 0, ResetMode = "gpio" => lockedBy = "none",
         Reset \notin Elements(q), Elements(q) \subseteq Elements(ticks),
         \A e : Unique(ticks, e) => Unique(q, e)
  PROVE  LockInv'
<1>1. UNCHANGED <<sentAt, errCnt>>
  BY DEF resetTargets, requVars
<1>2. \A r \in Requests : Unique(q, Tick("write", r))
  BY DEF Given, LockInv, Once
<1>3. CASE ResetMode = "noDevice"
  <2>1. ticks' = q /\ UNCHANGED <<pending, lockedBy, receive, resetAt>>
    BY <1>3 DEF resetTargets, resetVars
  <2>2. Once' /\ Queued'
    BY <1>1, <1>2, <2>1, NothingNew DEF Given, LockInv
  <2>3. ResetNext'
    BY <2>1, ElementIs DEF ResetNext
  <2>4. Locked'
    BY <1>3, <2>1 DEF Given, LockInv, Locked, OneReset, AllOff
  <2> QED BY <2>2, <2>3, <2>4 DEF Given, LockInv, Early, WrittenOnce
<1>4. CASE ResetMode # "noDevice"
  <2>1. PICK x \in Resets :
          /\ pending' = IF ResetMode = "none" THEN <<>> ELSE <<x>>
          /\ IF ResetMode = "gpio" THEN resetTarget(x)
             ELSE lockedBy' = "resetTargets" /\ UNCHANGED <<receive, resetAt>>
    BY <1>4 DEF resetTargets
  <2> DEFINE n == Rejects(pending)
  <2>2. ticks' = q \o n
    BY <1>4 DEF resetTargets
  <2>3. /\ n \in Seq(Ticks) /\ Reset \notin Elements(n)
        /\ \A t \in Elements(n) : t.kind = "reject"
        /\ \A r : Tick("write", r) \notin Elements(n)
        /\ \A r : Unique(n, Tick("write", r))
    BY OnlyRejected DEF Given, TypeOK
  <2> HIDE DEF n
  <2>4. Elements(ticks') = Elements(q) \cup Elements(n)
    BY <2>2, <2>3, ConcatOnce
  <2>5. \A r \in Requests : Unique(ticks', Tick("write", r))
    BY <1>2, <2>2, <2>3, ConcatOnce
  <2>6. \A t \in Elements(ticks') : t.kind = "write" => t \in Elements(ticks)
    BY <2>3, <2>4
  <2>7. Once'
    BY <1>1, <2>5, <2>6, NothingNew DEF Given, LockInv
  <2>8. Queued'
    <3>1. Len(pending') \in {0, 1} /\ \A r \in Jobs : Unique(pending', r)
      <4>1. Len(<<x>>) = 1 /\ Len(<<>>) = 0
        OBVIOUS
      <4>2. \A e : Unique(<<x>>, e) /\ Unique(<<>>, e)
        BY SingleOnce, Zenon
      <4> QED BY <2>1, <4>1, <4>2, Zenon
    <3>2. 2..Len(pending') = {}
      <4>1. \A k \in {0, 1} : 2..k = {}
        OBVIOUS
      <4> QED BY <3>1, <4>1, Zenon
    <3> QED BY <3>1, <3>2 DEF Queued
  <2>9. ResetNext'
    BY <2>3, <2>4, ElementIs DEF ResetNext
  <2>10. Locked'
    <3>1. CASE ResetMode # "gpio"
      BY <1>4, <2>1, <3>1 DEF Given, LockInv, Locked, OneReset, AllOff
    <3>2. CASE ResetMode = "gpio"
      <4>1. /\ lockedBy' = "resetTarget" /\ receive' = "chars" /\ pending' = <<x>>
            /\ resetAt' = [resetAt EXCEPT ![x] = "first"] /\ AllOff
        BY <2>1, <3>2 DEF resetTarget, Given, LockInv, Locked
      <4>2. \A y \in Resets : resetAt'[y] # "off" => y = x
        BY <4>1 DEF Given, TypeOK, AllOff
      <4>3. OneReset'
        BY <4>1, <4>2 DEF OneReset
      <4>4. errCnt' + Load' < ErrLimit
        <5>1. Load' \in Nat /\ Load' <= 2 * Cardinality(Requests)
          BY LoadBoundNext DEF Given
        <5>2. Cardinality(Requests) \in Nat
          BY FS_CardinalityType DEF Given, FewRequests
        <5>3. \A l, c \in Nat : l <= 2 * c /\ 2 * c < ErrLimit => 0 + l < ErrLimit
          BY DEF Given, SerialAssumption
        <5>4. errCnt' = 0 /\ 2 * Cardinality(Requests) < ErrLimit
          BY <1>1 DEF Given, FewRequests
        <5>5. 0 + Load' < ErrLimit
          BY <5>1, <5>2, <5>3, <5>4
        <5> QED BY <5>4, <5>5
      <4> QED BY <3>2, <4>1, <4>3, <4>4 DEF Locked
    <3> QED BY <3>1, <3>2
  <2> QED BY <2>7, <2>8, <2>9, <2>10 DEF Given, LockInv, Early, WrittenOnce
<1> QED BY <1>3, <1>4

\* Opening and closing the port.
LEMMA PortKeeps ==
  ASSUME Given, TypeOK', Open \/ PortOpened \/ PortOpenFails \/ Close
  PROVE  LockInv'
<1>1. CASE Open \/ PortOpenFails \/ Close
  <2>1. UNCHANGED <<pending, ticks, writing, sentAt, timer, timerModbus, errCnt, chunk,
                    escaped, lockedBy, resetAt>>
    BY <1>1 DEF Open, PortOpenFails, Close, requVars, timerVars, resetVars, lineVars, procVars
  <2>2. Once' /\ Queued' /\ Load' = Load
    BY <2>1, SameLine
  <2>3. /\ receive' = receive \/ receive' = "drop"
        /\ port' \in {"new", "opening"} => port \in {"new", "opening"}
    BY <1>1 DEF Open, PortOpenFails, Close, resetVars
  <2>4. ResetNext' /\ Early'
    BY <2>1, <2>3 DEF Given, LockInv, ResetNext, Early
  <2>5. Locked'
    BY <2>1, <2>2, <2>3 DEF Given, LockInv, Locked, OneReset, AllOff
  <2> QED BY <2>1, <2>2, <2>4, <2>5 DEF Given, LockInv, WrittenOnce
<1>2. CASE PortOpened
  <2>1. /\ ticks = <<>> /\ chunk = <<>> /\ errCnt = 0 /\ lockedBy = "none"
        /\ resetTargets(ticks) /\ port' = "open" /\ UNCHANGED <<writing, escaped, chunk>>
    BY <1>2 DEF PortOpened, Idle, Given, LockInv, Early, lineVars, procVars
  <2>2. Reset \notin Elements(ticks) /\ ticks \in Seq(Ticks)
    BY <2>1, SingleOnce DEF Given, TypeOK
  <2> QED BY <2>1, <2>2, ResetTargetsKeeps
<1> QED BY <1>1, <1>2

LEMMA ResetTargetsTickKeeps ==
  ASSUME Given, TypeOK', ResetTargetsTick
  PROVE  LockInv'
<1>1. /\ ticks # <<>> /\ Head(ticks).kind = "resetTargets" /\ chunk = <<>>
      /\ resetTargets(Tail(ticks)) /\ UNCHANGED <<port, writing, escaped, chunk>>
  BY DEF ResetTargetsTick, lineVars, procVars
<1>2. Head(ticks) \in Ticks /\ Tail(ticks) \in Seq(Ticks)
  BY <1>1, TickTypes DEF Given
<1>3. Head(ticks) = Reset
  BY <1>1, <1>2 DEF Ticks, Reset, Tick
<1>4. /\ Elements(Tail(ticks)) \subseteq Elements(ticks) /\ Reset \in Elements(ticks)
      /\ \A e : Unique(ticks, e) => Unique(Tail(ticks), e)
  BY <1>1, <1>3, TailOnce DEF Given, TypeOK
<1>5. Reset \notin Elements(Tail(ticks))
  BY <1>1, NoResetInRest DEF Given, LockInv
<1>6. errCnt = 0 /\ (ResetMode = "gpio" => lockedBy = "none")
  BY <1>4 DEF Given, LockInv, ResetNext
<1>7. port' \notin {"new", "opening"}
  BY <1>1 DEF Given, LockInv, Early
<1> QED BY <1>1, <1>2, <1>4, <1>5, <1>6, <1>7, ResetTargetsKeeps

LEMMA SendKeeps ==
  ASSUME Given, TypeOK', NEW r \in Requests, send(r)
  PROVE  LockInv'
<1>1. /\ ticks = <<>> /\ chunk = <<>> /\ lockedBy = "none" /\ port \in {"open", "closed"}
      /\ pending' = Append(pending, r) /\ sentAt' = sentAt \ {r}
      /\ ticks' = IF pending = <<>> THEN <<Tick("write", r)>> ELSE ticks
      /\ UNCHANGED <<port, chunk, writing, escaped, lockedBy, receive, resetAt>>
  BY DEF send, Idle, resetVars, lineVars, procVars
<1>2. r \notin Elements(pending) /\ ~Writing(r)
  BY DEF send, Unused, Writing
<1>3. \A s : Writing(s)' <=> Writing(s)
  BY <1>1 DEF Writing
<1>4. /\ \A e : Unique(ticks', e)
      /\ Elements(ticks') = IF pending = <<>> THEN {Tick("write", r)} ELSE {}
  <2>1. CASE pending = <<>>
    BY <1>1, <2>1, SingleOnce, Zenon
  <2>2. CASE pending # <<>>
    BY <1>1, <2>2, SingleOnce, Zenon
  <2> QED BY <2>1, <2>2
<1>5. ToWrite' = IF pending = <<>> THEN ToWrite \cup {r} ELSE ToWrite
  <2>1. Elements(ticks) = {}
    BY <1>1, SingleOnce
  <2> QED BY <1>3, <1>4, <2>1, Kinds DEF ToWrite
<1>6. r \notin ToWrite
  <2>1. Elements(ticks) = {}
    BY <1>1, SingleOnce
  <2> QED BY <1>2, <2>1 DEF ToWrite
<1>7. Once'
  <2>1. \A s \in Requests : Writing(s)' => Tick("write", s) \notin Elements(ticks')
    BY <1>2, <1>3, <1>4, Kinds
  <2>2. \A t \in Elements(ticks') : t.kind = "write" => t.job \in Requests
    BY <1>4, Kinds
  <2>3. (ToWrite \cap sentAt)' = {}
    BY <1>1, <1>5 DEF Given, LockInv, Once
  <2>4. \A i, j \in 1..Len(writing') : writing'[i].requ = writing'[j].requ => i = j
    BY <1>1 DEF Given, LockInv, Once
  <2> QED BY <1>4, <2>1, <2>2, <2>3, <2>4 DEF Once
<1>8. Queued'
  <2>1. pending \in Seq(Jobs) /\ r \in Jobs
    BY DEF Given, TypeOK, Jobs
  <2>2. \A e \in Jobs : Unique(pending', e)
    BY <1>1, <1>2, <2>1, AppendOnce DEF Given, LockInv, Queued
  <2>3. /\ Len(pending') = Len(pending) + 1 /\ Len(pending) \in Nat
        /\ pending'[Len(pending) + 1] = r
        /\ \A i \in 1..Len(pending) : pending'[i] = pending[i]
        /\ pending = <<>> => Len(pending) = 0
    BY <1>1, <2>1
  <2>4. ASSUME NEW i \in 2..Len(pending')
        PROVE  pending'[i] \in Requests /\ pending'[i] \notin (ToWrite \cup sentAt)'
    <3>1. CASE i \in 2..Len(pending)
      <4>1. pending # <<>> /\ pending'[i] = pending[i]
        BY <2>3, <3>1
      <4>2. pending[i] \in Requests /\ pending[i] \notin ToWrite \cup sentAt
        BY <3>1 DEF Given, LockInv, Queued
      <4> QED BY <1>1, <1>5, <4>1, <4>2
    <3>2. CASE i \notin 2..Len(pending)
      <4>1. i = Len(pending) + 1 /\ pending # <<>>
        BY <2>3, <2>4, <3>2
      <4> QED BY <1>1, <1>5, <1>6, <2>3, <4>1
    <3> QED BY <3>1, <3>2
  <2> QED BY <2>2, <2>4 DEF Queued
<1>9. ResetNext'
  BY <1>1, <1>4, Kinds, ElementIs DEF ResetNext
<1>10. Locked' /\ Early'
  BY <1>1 DEF Given, LockInv, Locked, AllOff, Early
<1> QED BY <1>1, <1>7, <1>8, <1>9, <1>10 DEF Given, LockInv, WrittenOnce

LEMMA StaysBelow ==
  ASSUME NEW e \in Nat, NEW l \in Nat, NEW m \in Nat, NEW n \in Nat, m <= l, e + l < n
  PROVE  e + m < n
OBVIOUS

\* A step that only takes the first nextTick entry away.
LEMMA TickTaken ==
  ASSUME Given, TypeOK', ticks # <<>>, ticks' = Tail(ticks), chunk = <<>>, Once', Queued',
         ToWrite' \subseteq ToWrite,
         UNCHANGED <<port, pending, errCnt, chunk, timer, timerModbus, lockedBy, receive,
                     resetAt, escaped>>
  PROVE  LockInv'
<1>1. Reset \notin Elements(ticks')
  BY NoResetInRest DEF Given, LockInv
<1>2. ResetNext'
  BY <1>1, ElementIs DEF ResetNext
<1>3. Load \in Nat /\ Load' \in Nat /\ Load' <= Load
  BY LoadFalls DEF Given
<1>4. errCnt + Load < ErrLimit => errCnt + Load' < ErrLimit
  <2>1. errCnt \in Nat /\ ErrLimit \in Nat
    BY DEF Given, TypeOK, SerialAssumption
  <2> QED BY <1>3, <2>1, StaysBelow
<1>5. Locked'
  BY <1>4 DEF Given, LockInv, Locked, OneReset, AllOff
<1>6. Early' /\ WrittenOnce'
  BY DEF Given, LockInv, Early, WrittenOnce
<1> QED BY <1>2, <1>5, <1>6 DEF LockInv

LEMMA WriteTickKeeps ==
  ASSUME Given, TypeOK', WriteTick
  PROVE  LockInv'
<1> DEFINE h == Head(ticks)
           j == h.job
<1>1. /\ chunk = <<>> /\ ticks # <<>> /\ h.kind = "write"
      /\ UNCHANGED <<port, chunk, lockedBy, receive, resetAt, escaped>>
  BY DEF WriteTick, resetVars, procVars
<1>2. h \in Ticks /\ Tail(ticks) \in Seq(Ticks)
  BY <1>1, TickTypes DEF Given
<1>3. /\ Elements(Tail(ticks)) \subseteq Elements(ticks) /\ h \in Elements(ticks)
      /\ \A e : Unique(ticks, e) =>
           Unique(Tail(ticks), e) /\ (h = e => e \notin Elements(Tail(ticks)))
  BY <1>1, TailOnce DEF Given, TypeOK
<1>4. j \in Requests
  BY <1>1, <1>3 DEF Given, LockInv, Once
<1>5. h = Tick("write", j)
  BY <1>1, <1>2 DEF Ticks, Tick
<1>6. /\ ticks' = Tail(ticks) /\ UNCHANGED <<pending, errCnt, sentAt, timer, timerModbus>>
      /\ \E b \in BOOLEAN : writing' = Append(writing, [requ |-> j, ok |-> b])
  BY <1>4 DEF WriteTick, requVars, timerVars
<1> HIDE DEF h, j
<1>7. ~Writing(j) /\ j \in ToWrite /\ Tick("write", j) \notin Elements(Tail(ticks))
  BY <1>3, <1>4, <1>5 DEF Given, LockInv, Once, ToWrite
<1>8. PICK b \in BOOLEAN : writing' = Append(writing, [requ |-> j, ok |-> b])
  BY <1>6
<1>9. /\ Len(writing) \in Nat /\ Len(writing') = Len(writing) + 1
      /\ \A i \in 1..Len(writing) : writing'[i] = writing[i] /\ writing[i].requ # j
      /\ writing'[Len(writing) + 1].requ = j
  <2> DEFINE w == [requ |-> j, ok |-> b]
             R == [requ : Requests, ok : BOOLEAN]
  <2>1. w.requ = j /\ writing' = Append(writing, w) /\ writing \in Seq(R) /\ w \in R
    BY <1>4, <1>8 DEF Given, TypeOK
  <2>2. \A i \in 1..Len(writing) : writing[i].requ # j
    BY <1>7 DEF Writing, Elements
  <2> HIDE DEF w, R
  <2>3. /\ Len(writing) \in Nat /\ Len(writing') = Len(writing) + 1
        /\ \A i \in 1..Len(writing) : writing'[i] = writing[i]
        /\ writing'[Len(writing) + 1] = w
    BY <2>1
  <2> QED BY <2>1, <2>2, <2>3
<1>10. \A i, k \in 1..Len(writing') : writing'[i].requ = writing'[k].requ => i = k
  <2> SUFFICES ASSUME NEW i \in 1..Len(writing'), NEW k \in 1..Len(writing'),
                      writing'[i].requ = writing'[k].requ
               PROVE  i = k
    OBVIOUS
  <2>1. CASE i \in 1..Len(writing) /\ k \in 1..Len(writing)
    BY <1>9, <2>1 DEF Given, LockInv, Once
  <2>2. CASE ~(i \in 1..Len(writing) /\ k \in 1..Len(writing))
    BY <1>9, <2>2
  <2> QED BY <2>1, <2>2
<1>11. \A s : Writing(s)' => Writing(s) \/ s = j
  <2> SUFFICES ASSUME NEW s, NEW i \in 1..Len(writing'), writing'[i].requ = s
               PROVE  Writing(s) \/ s = j
    BY DEF Writing, Elements
  <2>1. CASE i \in 1..Len(writing)
    BY <1>9, <2>1 DEF Writing, Elements
  <2>2. CASE i \notin 1..Len(writing)
    BY <1>9, <2>2
  <2> QED BY <2>1, <2>2
<1>12. ToWrite' \subseteq ToWrite
  BY <1>3, <1>6, <1>7, <1>11 DEF ToWrite
<1>13. Once'
  <2>1. \A r \in Requests : Unique(ticks', Tick("write", r))
    BY <1>3, <1>6 DEF Given, LockInv, Once
  <2>2. \A r \in Requests : Writing(r)' => Tick("write", r) \notin Elements(ticks')
    BY <1>3, <1>6, <1>7, <1>11 DEF Given, LockInv, Once
  <2>3. \A t \in Elements(ticks') : t.kind = "write" => t.job \in Requests
    BY <1>3, <1>6 DEF Given, LockInv, Once
  <2>4. (ToWrite \cap sentAt)' = {}
    BY <1>6, <1>12 DEF Given, LockInv, Once
  <2> QED BY <1>10, <2>1, <2>2, <2>3, <2>4 DEF Once
<1>14. Queued'
  BY <1>6, <1>12 DEF Given, LockInv, Queued
<1> QED BY <1>1, <1>6, <1>12, <1>13, <1>14, TickTaken

LEMMA RejectTickKeeps ==
  ASSUME Given, TypeOK', RejectTick
  PROVE  LockInv'
<1>1. /\ chunk = <<>> /\ ticks # <<>> /\ ticks' = Tail(ticks)
      /\ UNCHANGED <<port, pending, errCnt, chunk, sentAt, timer, timerModbus, lockedBy,
                     receive, resetAt, writing, escaped>>
  BY DEF RejectTick, timerVars, resetVars, lineVars, procVars
<1>2. /\ Elements(Tail(ticks)) \subseteq Elements(ticks)
      /\ \A e : Unique(ticks, e) => Unique(Tail(ticks), e)
  BY <1>1, TailOnce DEF Given, TypeOK
<1>3. Once' /\ Queued' /\ ToWrite' \subseteq ToWrite
  <2>1. \A r \in Requests : Unique(ticks', Tick("write", r))
    BY <1>1, <1>2 DEF Given, LockInv, Once
  <2> QED BY <1>1, <1>2, <2>1, NothingNew DEF Given, LockInv
<1> QED BY <1>1, <1>3, TickTaken

\* The callback of write(): a request that is sent has left ToWrite for its timer.
LEMMA WriteDoneKeeps ==
  ASSUME Given, TypeOK', WriteDone
  PROVE  LockInv'
<1>1. PICK r : r = Head(writing).requ
  OBVIOUS
<1>2. /\ ticks = <<>> /\ chunk = <<>> /\ writing # <<>> /\ writing' = Tail(writing)
      /\ UNCHANGED <<port, chunk, lockedBy, receive, resetAt>>
  BY DEF WriteDone, Idle, resetVars
<1>3. /\ r \in Requests /\ Writing(r) /\ ~Writing(r)'
      /\ \A s : Writing(s)' => Writing(s)
      /\ \A i, j \in 1..Len(writing') : writing'[i].requ = writing'[j].requ => i = j
  BY <1>1, <1>2, WritingTail DEF Given, LockInv
<1>4. r \in ToWrite /\ r \notin sentAt
  BY <1>3 DEF Given, LockInv, Once, ToWrite
<1>5. port \notin {"new", "opening"}
  BY <1>2 DEF Given, LockInv, Early
<1>6. CASE ~Head(writing).ok
  <2>1. handleError(r, ticks) /\ UNCHANGED <<sentAt, escaped>> /\ r \in Jobs
    BY <1>1, <1>3, <1>6 DEF WriteDone, procVars, Jobs
  <2> QED BY <1>2, <1>3, <1>4, <1>5, <2>1, ErrorKeeps
<1>7. CASE Head(writing).ok
  <2>1. /\ sentAt' = sentAt \cup {r} /\ timerModbus' = timerModbus \cup {r}
        /\ UNCHANGED <<pending, errCnt, ticks, timer, escaped>>
    BY <1>1, <1>4, <1>7 DEF WriteDone, procVars
  <2>2. Elements(ticks) = {}
    BY <1>2, SingleOnce
  <2>3. ToWrite' \subseteq ToWrite \ {r}
    BY <1>3, <2>1, <2>2 DEF ToWrite
  <2>4. Once'
    <3>1. (ToWrite \cap sentAt)' = {}
      BY <2>1, <2>3 DEF Given, LockInv, Once
    <3> QED BY <1>3, <2>1, <2>2, <3>1 DEF Given, LockInv, Once
  <2>5. Queued'
    BY <1>4, <2>1, <2>3 DEF Given, LockInv, Queued
  <2>6. Load \in Nat /\ Load' \in Nat /\ Load' <= Load
    <3> DEFINE S == timer \cup timerModbus
               T == ToWrite
               S2 == timer' \cup timerModbus'
               T2 == ToWrite'
    <3>1. /\ IsFiniteSet(S) /\ IsFiniteSet(T) /\ S2 \subseteq S \cup {r} /\ T2 \subseteq T \ {r}
          /\ T2 \subseteq T
      BY <2>1, <2>3, LoadBound DEF Given
    <3>2. /\ Load = Cardinality(S) + Cardinality(T) /\ Load' = Cardinality(S2) + Cardinality(T2)
          /\ Load' \in Nat
      BY LoadBoundNext DEF Load, Given
    <3>3. r \in T
      BY <1>4
    <3> HIDE DEF S, T, S2, T2
    <3>4. /\ Cardinality(S) \in Nat /\ Cardinality(T) \in Nat /\ Cardinality(T2) \in Nat
          /\ Cardinality(S2) <= Cardinality(S) + 1 /\ Cardinality(T2) + 1 <= Cardinality(T)
      BY <3>1, <3>3, CountLess
    <3>5. IsFiniteSet(S2)
      <4>1. IsFiniteSet(S \cup {r})
        BY <3>1, FS_AddElement
      <4> QED BY <3>1, <4>1, FS_Subset
    <3>6. Cardinality(S2) \in Nat
      BY <3>5, FS_CardinalityType
    <3> QED BY <3>2, <3>4, <3>6
  <2>7. errCnt + Load < ErrLimit => errCnt + Load' < ErrLimit
    <3>1. errCnt \in Nat /\ ErrLimit \in Nat
      BY DEF Given, TypeOK, SerialAssumption
    <3> QED BY <2>6, <3>1, StaysBelow
  <2>8. ResetNext' /\ Early'
    BY <1>2, <1>5, <2>1 DEF Given, LockInv, ResetNext, Early
  <2>9. Locked'
    BY <1>2, <2>1, <2>7 DEF Given, LockInv, Locked, OneReset, AllOff
  <2> QED BY <2>1, <2>4, <2>5, <2>8, <2>9 DEF Given, LockInv, WrittenOnce
<1> QED BY <1>6, <1>7

LEMMA TimeoutKeeps ==
  ASSUME Given, TypeOK', NEW r \in Requests, NEW b \in BOOLEAN, handleTimeout(r, b)
  PROVE  LockInv'
<1>1. /\ ticks = <<>> /\ chunk = <<>> /\ handleError(r, ticks) /\ r \in timer \cup timerModbus
      /\ UNCHANGED <<port, chunk, sentAt, writing, lockedBy, receive, resetAt, escaped>>
  BY DEF handleTimeout, TimerTurn, Settled, Idle, resetVars, lineVars, procVars
<1>2. port \notin {"new", "opening"} /\ r \in Jobs
  BY <1>1 DEF Given, LockInv, Early, Jobs
<1>3. /\ \A s \in Requests : Writing(s)' => Writing(s)
      /\ \A i, j \in 1..Len(writing') : writing'[i].requ = writing'[j].requ => i = j
  BY <1>1 DEF Given, LockInv, Once, Writing
<1> QED BY <1>1, <1>2, <1>3, ErrorKeeps

-----------------------------------------------------------------------------
(* Reception, and the reset after its awaits.                              *)

LEMMA DataKeeps ==
  ASSUME Given, TypeOK', NEW n, handleOnSerialData(n)
  PROVE  LockInv'
<1>1. /\ ticks = <<>> /\ (chunk' # <<>> => receive = "frames" /\ pending # <<>>)
      /\ UNCHANGED <<port, pending, errCnt, ticks, sentAt, timer, timerModbus, lockedBy,
                     receive, resetAt, writing, escaped>>
  BY DEF handleOnSerialData, Settled, Idle, requVars, timerVars, resetVars, procVars
<1>2. Once' /\ Queued' /\ Load' = Load
  BY <1>1, SameLine
<1>3. Reset \notin Elements(ticks) /\ \A i \in 1..Len(ticks) : ticks[i] # Reset
  BY <1>1, SingleOnce, ElementIs
<1>4. ResetNext' /\ Early'
  BY <1>1, <1>3 DEF Given, LockInv, ResetNext, Early
<1>5. Locked'
  BY <1>1, <1>2 DEF Given, LockInv, Locked, OneReset, AllOff
<1> QED BY <1>1, <1>2, <1>4, <1>5 DEF Given, LockInv, WrittenOnce

\* A frame that leaves queue, timers and nextTick queue alone.
LEMMA FrameKeeps ==
  ASSUME Given, TypeOK', chunk # <<>>, errCnt' \in {errCnt, 0},
         UNCHANGED <<port, pending, ticks, sentAt, timer, timerModbus, lockedBy, receive,
                     resetAt, writing>>,
         escaped' \in {escaped, escaped \cup {"no pending request"},
                       escaped \cup {"response/error already set"}}
  PROVE  LockInv'
<1>1. lockedBy = "none" /\ port \notin {"new", "opening"} /\ Reset \notin Elements(ticks)
  BY DEF Given, LockInv, Early, Locked, ResetNext
<1>2. Once' /\ Queued'
  BY SameLine
<1>3. ResetNext'
  <2>1. pending = <<>> \/ Head(pending) \in Requests \/ ticks = <<>>
    BY DEF Given, LockInv, ResetNext
  <2> QED BY <1>1, <2>1 DEF Given, LockInv, ResetNext
<1>4. Early' /\ Locked'
  BY <1>1 DEF Given, LockInv, Early, Locked, AllOff
<1> QED BY <1>2, <1>3, <1>4 DEF Given, LockInv, WrittenOnce

LEMMA ResponseKeeps ==
  ASSUME Given, TypeOK', FrameAsResponse
  PROVE  LockInv'
<1>1. PICK r : r = Head(pending)
  OBVIOUS
<1>2. /\ chunk # <<>> /\ pending # <<>> /\ r \in Requests
      /\ errCnt' = 0 /\ UNCHANGED <<port, sentAt, writing>>
  BY <1>1 DEF FrameAsResponse, lineVars
<1>3. lockedBy = "none" /\ port \notin {"new", "opening"} /\ Reset \notin Elements(ticks)
  BY <1>2 DEF Given, LockInv, Early, Locked, ResetNext
<1>4. CASE r \in failed \/ response[r] # NoMsg
  <2>1. /\ UNCHANGED <<pending, ticks, timer, timerModbus, lockedBy, receive, resetAt>>
        /\ escaped' = escaped \cup {"response/error already set"}
    BY <1>1, <1>4 DEF FrameAsResponse, Escape, timerVars, resetVars
  <2> QED BY <1>2, <2>1, FrameKeeps
<1>5. CASE ~(r \in failed \/ response[r] # NoMsg)
  <2>1. /\ pending' = WithoutHead(r) /\ ExecuteHead(WithoutHead(r), ticks)
        /\ UNCHANGED escaped
    BY <1>1, <1>5 DEF FrameAsResponse, procVars
  <2> DEFINE p == Rest(pending)
  <2>2. WithoutHead(r) = p
    BY <1>1, <1>2 DEF WithoutHead, Rest
  <2>3. /\ p \in Seq(Jobs) /\ (p # <<>> => Head(p) \in Requests)
    BY RestIs DEF Given, LockInv
  <2>4. ticks \in Seq(Ticks)
    BY DEF Given, TypeOK
  <2> HIDE DEF p
  <2>5. ticks' = ticks \o WriteNext(p) /\ UNCHANGED <<lockedBy, receive, resetAt>>
    <3>1. p = <<>> => ticks \o WriteNext(p) = ticks
      BY <2>4 DEF WriteNext
    <3> QED BY <2>1, <2>2, <2>3, <3>1
          DEF ExecuteHead, ExecuteTicks, resetVars, Given, SerialAssumption
  <2>6. /\ Once' /\ Queued'
        /\ Elements(ticks') = Elements(ticks) \cup
             (IF p = <<>> THEN {} ELSE {Tick("write", Head(p))})
    <3>1. \A s \in Requests : Unique(ticks, Tick("write", s))
      BY DEF Given, LockInv, Once
    <3>2. /\ \A s \in Requests : Writing(s)' => Writing(s)
          /\ \A i, j \in 1..Len(writing') : writing'[i].requ = writing'[j].requ => i = j
      BY <1>2 DEF Given, LockInv, Once, Writing
    <3>3. SerialAssumption /\ TypeOK /\ Once /\ Queued /\ sentAt' = sentAt
      BY <1>2 DEF Given, LockInv
    <3> QED BY <2>1, <2>2, <2>4, <2>5, <3>1, <3>2, <3>3, Advance DEF p
  <2>7. ResetNext'
    <3>1. Reset \notin Elements(ticks')
      BY <1>3, <2>6, Kinds
    <3> QED BY <2>1, <2>2, <2>3, <3>1, ElementIs DEF ResetNext
  <2>8. Early' /\ Locked'
    BY <1>2, <1>3, <2>5 DEF Given, LockInv, Early, Locked, AllOff
  <2> QED BY <2>1, <2>6, <2>7, <2>8 DEF Given, LockInv, WrittenOnce
<1> QED BY <1>4, <1>5

LEMMA FrameStepKeeps ==
  ASSUME Given, TypeOK', FrameStep
  PROVE  LockInv'
<1>1. CASE FrameWithoutHead
  BY <1>1, FrameKeeps DEF FrameWithoutHead, Escape, requVars, timerVars, resetVars, lineVars
<1>2. CASE FrameAsEcho
  BY <1>2, FrameKeeps DEF FrameAsEcho, timerVars, resetVars, lineVars, procVars
<1>3. CASE FrameAsResponse
  BY <1>3, ResponseKeeps
<1>4. CASE FrameForReset
  <2>1. PICK r : r = Head(pending)
    OBVIOUS
  <2>2. /\ chunk # <<>> /\ pending # <<>> /\ r \in Resets /\ handleError(r, ticks) /\ chunk' = <<>>
        /\ UNCHANGED <<port, sentAt, lockedBy, receive, resetAt, writing, escaped>>
    BY <1>4, <2>1 DEF FrameForReset, resetVars, lineVars, procVars
  <2>3. /\ ticks = <<>> /\ lockedBy = "none" /\ port \notin {"new", "opening"} /\ r \in Jobs
    BY <2>1, <2>2 DEF Given, LockInv, ResetNext, Early, Locked, Jobs, SerialAssumption
  <2>4. /\ \A s \in Requests : Writing(s)' => Writing(s)
        /\ \A i, j \in 1..Len(writing') : writing'[i].requ = writing'[j].requ => i = j
    BY <2>2 DEF Given, LockInv, Once, Writing
  <2> QED BY <2>2, <2>3, <2>4, ErrorKeeps
<1> QED BY <1>1, <1>2, <1>3, <1>4 DEF FrameStep

LEMMA ResetStepKeeps ==
  ASSUME Given, TypeOK', NEW x \in Resets, ResetStep(x)
  PROVE  LockInv'
<1>1. /\ ticks = <<>> /\ chunk = <<>> /\ resetAt[x] # "off"
      /\ UNCHANGED <<port, chunk, sentAt, writing, escaped>>
  BY DEF ResetStep, ResetHeard, ResetAgain, ResetFails, ResetThrows, ResetTurn, Settled, Idle,
         requVars, lineVars, procVars
<1>2. /\ lockedBy # "none" /\ ResetMode = "gpio" /\ OneReset
      /\ \A y \in Resets : resetAt[y] # "off" => y = x
      /\ pending \in {<<>>, <<x>>} /\ port \notin {"new", "opening"}
  BY <1>1 DEF Given, LockInv, Locked, AllOff, OneReset, Early
<1>3. /\ Reset \notin Elements(ticks) /\ \A i \in 1..Len(ticks) : ticks[i] # Reset
  BY <1>1, SingleOnce, ElementIs
<1>4. CASE ResetAgain(x)
  <2>1. /\ UNCHANGED <<pending, ticks, timer, timerModbus, errCnt, lockedBy>>
        /\ resetAt' = [resetAt EXCEPT ![x] = "second"] /\ receive' = "chars"
    BY <1>4 DEF ResetAgain, timerVars
  <2>2. Once' /\ Queued' /\ Load' = Load
    BY <1>1, <2>1, SameLine
  <2>3. ResetNext' /\ Early'
    BY <1>1, <1>2, <1>3, <2>1 DEF ResetNext, Early
  <2>4. \A y \in Resets : resetAt'[y] # "off" => y = x
    BY <1>2, <2>1 DEF Given, TypeOK
  <2>5. Locked'
    BY <1>1, <1>2, <2>1, <2>2, <2>4 DEF Given, LockInv, Locked, OneReset
  <2> QED BY <1>1, <2>2, <2>3, <2>5 DEF Given, LockInv, WrittenOnce
<1>5. ASSUME ~ResetAgain(x), Once', Queued', AllOff', lockedBy' = "none",
             Reset \in Elements(ticks') => errCnt' = 0,
             \A i \in 1..Len(ticks') : ticks'[i] = Reset => i = 1
      PROVE  LockInv'
  BY <1>1, <1>2, <1>5 DEF Given, LockInv, ResetNext, Early, Locked, WrittenOnce
<1>6. CASE ResetFails(x)
  <2>1. /\ UNCHANGED <<pending, ticks, timer, timerModbus>> /\ lockedBy' = "none"
        /\ resetAt' = [resetAt EXCEPT ![x] = "off"]
    BY <1>6 DEF ResetFails, timerVars, Release
  <2>2. Once' /\ Queued'
    BY <1>1, <2>1, SameLine
  <2>3. AllOff'
    BY <1>2, <2>1 DEF Given, TypeOK, AllOff
  <2> QED BY <1>3, <1>4, <1>5, <2>1, <2>2, <2>3
<1>7. CASE ResetThrows(x)
  <2>1. /\ handleError(x, ticks) /\ lockedBy' = "none"
        /\ resetAt' = [resetAt EXCEPT ![x] = "off"] /\ x \in Jobs
    BY <1>7 DEF ResetThrows, Release, Jobs
  <2>2. AllOff'
    BY <1>2, <2>1 DEF Given, TypeOK, AllOff
  <2>3. /\ \A s \in Requests : Writing(s)' => Writing(s)
        /\ \A i, j \in 1..Len(writing') : writing'[i].requ = writing'[j].requ => i = j
    BY <1>1 DEF Given, LockInv, Once, Writing
  <2>4. /\ Once' /\ Queued' /\ (Reset \in Elements(ticks') => errCnt' = 0)
        /\ \A i \in 1..Len(ticks') : ticks'[i] = Reset => i = 1
    BY <1>1, <2>1, <2>3, ErrorLine
  <2> QED BY <1>4, <1>5, <2>1, <2>2, <2>4
<1>8. CASE ResetHeard(x)
  <2>1. WithoutHead(x) = <<>>
    <3>1. Tail(<<x>>) = <<>> /\ Head(<<x>>) = x
      OBVIOUS
    <3> QED BY <1>2, <3>1 DEF WithoutHead
  <2>2. /\ pending' = <<>> /\ ticks' = ticks /\ lockedBy' = "none"
        /\ resetAt' = [y \in Resets |-> IF y = x THEN "off" ELSE resetAt[y]]
    BY <1>8, <2>1 DEF ResetHeard, ExecuteTicks, Release
  <2>3. AllOff'
    BY <1>2, <2>2 DEF AllOff
  <2>4. Once'
    <3>1. \A r \in Requests : Unique(ticks', Tick("write", r))
      BY <2>2 DEF Given, LockInv, Once
    <3> QED BY <1>1, <2>2, <3>1, NothingNew DEF Given, LockInv
  <2>5. Queued'
    <3>1. \A r \in Jobs : Unique(<<>>, r)
      BY SingleOnce
    <3>2. 2..Len(<<>>) = {}
      OBVIOUS
    <3> QED BY <2>2, <3>1, <3>2 DEF Queued
  <2> QED BY <1>3, <1>4, <1>5, <2>2, <2>3, <2>4, <2>5
<1> QED BY <1>4, <1>6, <1>7, <1>8 DEF ResetStep

LEMMA InitKeeps ==
  ASSUME SerialAssumption, Init
  PROVE  LockInv
<1>1. /\ pending = <<>> /\ ticks = <<>> /\ writing = <<>> /\ chunk = <<>> /\ sentAt = {}
      /\ lockedBy = "none" /\ receive = "drop" /\ errCnt = 0 /\ escaped = {} /\ AllOff
      /\ timer \cup timerModbus = {}
  BY DEF Init, AllOff
<1>2. /\ Elements(<<>>) = {} /\ (\A e : Unique(<<>>, e)) /\ Len(<<>>) = 0
      /\ 1..Len(<<>>) = {} /\ 2..Len(<<>>) = {}
  <2>1. Len(<<>>) = 0 /\ 1..0 = {} /\ 2..0 = {}
    OBVIOUS
  <2> QED BY <2>1, SingleOnce
<1>3. ToWrite = {}
  BY <1>1, <1>2 DEF ToWrite, Writing
<1>4. Once
  BY <1>1, <1>2, <1>3 DEF Once, Writing
<1>5. Queued
  BY <1>1, <1>2 DEF Queued
<1>6. ResetNext
  BY <1>1, <1>2 DEF ResetNext
<1>7. Early /\ Locked /\ WrittenOnce
  BY <1>1 DEF Early, Locked, WrittenOnce
<1> QED BY <1>4, <1>5, <1>6, <1>7 DEF LockInv

LEMMA LockInvariant == FewRequests => (Spec => []LockInv)
<1> SUFFICES ASSUME FewRequests PROVE Spec => []LockInv
  OBVIOUS
<1>1. Init => LockInv
  BY SerialAssumption, InitKeeps
<1>2. TypeOK /\ TypeOK' /\ LockInv /\ [Next]_vars => LockInv'
  <2> SUFFICES ASSUME TypeOK, TypeOK', LockInv, [Next]_vars PROVE LockInv'
    OBVIOUS
  <2>1. TypeOK'
    OBVIOUS
  <2>2. Given
    BY SerialAssumption DEF Given
  <2>3. CASE UNCHANGED vars
    <3>1. UNCHANGED <<port, pending, ticks, writing, sentAt, timer, timerModbus, errCnt, chunk,
                      escaped, lockedBy, receive, resetAt>>
      BY <2>3 DEF vars, requVars, timerVars, resetVars, lineVars, procVars
    <3>2. Once' /\ Queued' /\ Load' = Load
      BY <2>2, <3>1, SameLine
    <3> QED BY <2>1, <2>2, <3>1, <3>2
          DEF Given, LockInv, ResetNext, Early, Locked, OneReset, AllOff, WrittenOnce
  <2>4. CASE Open \/ PortOpened \/ PortOpenFails \/ Close
    BY <2>1, <2>2, <2>4, PortKeeps
  <2>5. ASSUME NEW r \in Requests, send(r) PROVE LockInv'
    BY <2>1, <2>2, <2>5, SendKeeps
  <2>6. ASSUME NEW r \in Requests, NEW b \in BOOLEAN, handleTimeout(r, b) PROVE LockInv'
    BY <2>1, <2>2, <2>6, TimeoutKeeps
  <2>7. ASSUME NEW n \in 1..Len(bus), handleOnSerialData(n) PROVE LockInv'
    BY <2>1, <2>2, <2>7, DataKeeps
  <2>8. CASE WriteDone
    BY <2>1, <2>2, <2>8, WriteDoneKeeps
  <2>9. CASE TickStep
    BY <2>1, <2>2, <2>9, WriteTickKeeps, RejectTickKeeps, ResetTargetsTickKeeps DEF TickStep
  <2>10. CASE FrameStep
    BY <2>1, <2>2, <2>10, FrameStepKeeps
  <2>11. ASSUME NEW x \in Resets, ResetStep(x) PROVE LockInv'
    BY <2>1, <2>2, <2>11, ResetStepKeeps
  <2>12. CASE Stopped
    BY <2>3, <2>12 DEF Stopped
  <2> QED BY <2>1, <2>3, <2>4, <2>5, <2>6, <2>7, <2>8, <2>9, <2>10, <2>11, <2>12 DEF Next
<1> QED BY <1>1, <1>2, TypeCorrect, PTL DEF Spec

\* While at most ErrLimit / 2 requests are alive, the master gives no request to
\* the serial port again once it was sent: "sentAt already set" is never thrown.
THEOREM WrittenAtMostOnce == FewRequests => (Spec => []WrittenOnce)
<1> SUFFICES ASSUME FewRequests PROVE Spec => []WrittenOnce
  OBVIOUS
<1>1. LockInv => WrittenOnce
  BY DEF LockInv
<1> QED BY <1>1, LockInvariant, PTL

\* Under the same condition the GPIO pin never has two resets, and send() stays
\* refused for as long as one runs.
THEOREM OneResetAtATime == FewRequests => (Spec => []ResetExclusive)
<1> SUFFICES ASSUME FewRequests PROVE Spec => []ResetExclusive
  OBVIOUS
<1>1. LockInv => ResetExclusive
  BY DEF LockInv, Locked, OneReset, AllOff, ResetExclusive
<1> QED BY <1>1, LockInvariant, PTL

=============================================================================
