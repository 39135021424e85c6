------------------------ MODULE RequestServiceProofs ------------------------
(***************************************************************************)
(* The serial master implements the request service (RequestService) on a  *)
(* line that loses frames and fails to write: for any number of requests,  *)
(* callers and resets, a request that is resolved has the target's answer  *)
(* to this very request (Implements), requests leave the queue only when   *)
(* they are settled (LeavesSettled), and no setter throws (NoEscape).      *)
(*                                                                         *)
(* The hypothesis OwnLine is what the argument needs: frames arrive as     *)
(* they were sent and before the timers that wait for them, all callers    *)
(* use the same timeout, and two errors in a row do not start a reset.     *)
(***************************************************************************)
EXTENDS ModbusSerialProofs, SequenceTheorems

OwnLine ==
  /\ Faults \subseteq {"lost", "writeError"}
  /\ SameTimeout
  /\ ErrLimit > 1

-----------------------------------------------------------------------------
(***************************************************************************)
(* The inductive invariant.  While callers are not locked out, the queue   *)
(* holds requests only, and the line belongs to the one at its head: it    *)
(* waits for its write, is being written, or waits for the target.         *)
(***************************************************************************)
Quiet == writing = <<>> /\ bus = <<>> /\ chunk = <<>> /\ timerModbus = {}

\* What the target sends for r, and what of it is still to be handled.
Sent(r) == {<<>>, <<Msg("echo", r)>>, <<Msg("echo", r), Msg("answer", r)>>}

Expected(r) == IF r \in echoed THEN {<<>>, <<Msg("answer", r)>>} ELSE Sent(r)

NothingToDo == Quiet /\ ticks \in {<<>>, <<Reset>>}

Due(r) ==
  /\ Quiet
  /\ r \notin sentAt \cup echoed
  /\ ticks \in {<<Tick("write", r)>>, <<Reset, Tick("write", r)>>}

BeingWritten(r) ==
  /\ ticks = <<>> /\ chunk = <<>> /\ timerModbus = {}
  /\ r \notin sentAt \cup echoed
  /\ bus \in Sent(r)
  /\ \E ok \in BOOLEAN : writing = <<[requ |-> r, ok |-> ok]>> /\ (ok \/ bus = <<>>)

Awaited(r) ==
  /\ ticks = <<>> /\ writing = <<>> /\ timerModbus = {r}
  /\ IF receive = "frames" THEN chunk \o bus \in Expected(r) ELSE chunk = <<>>

Open4All == lockedBy = "none" =>
  /\ \A x \in Resets : resetAt[x] = "off"
  /\ pending \in Seq(Requests)
  /\ Reset \in Elements(ticks) => errCnt = 0
  /\ pending = <<>> => NothingToDo
  /\ pending # <<>> =>
       Due(Head(pending)) \/ BeingWritten(Head(pending)) \/ Awaited(Head(pending))

(***************************************************************************)
(* While they are locked out, the queue holds at most the reset.  A ghost  *)
(* may be on its way: the request whose write was queued together with the *)
(* reset that cancelled it.  The reset ends after the timers of the ghost. *)
(***************************************************************************)
OnlyRejects(q) == \A i \in 1..Len(q) : q[i].kind = "reject"

NoGhost == Quiet /\ OnlyRejects(ticks)

GhostDue(g) ==
  /\ Quiet
  /\ g \notin sentAt
  /\ ticks # <<>> /\ Head(ticks) = Tick("write", g) /\ OnlyRejects(Tail(ticks))

GhostWritten(g) ==
  /\ OnlyRejects(ticks) /\ timerModbus = {}
  /\ g \notin sentAt
  /\ \E ok \in BOOLEAN : writing = <<[requ |-> g, ok |-> ok]>> /\ (ok \/ bus = <<>>)

GhostAwaited(g) == OnlyRejects(ticks) /\ writing = <<>> /\ timerModbus = {g}

LockedOut == lockedBy # "none" =>
  /\ chunk = <<>> /\ receive # "frames"
  /\ pending = <<>> \/ \E x \in Resets : pending = <<x>>
  /\ \A x \in Resets : resetAt[x] # "off" =>
       /\ pending \in {<<>>, <<x>>}
       /\ \A y \in Resets : resetAt[y] # "off" => y = x
  /\ \/ NoGhost
     \/ errCnt = 0 /\ \E g \in Requests : GhostDue(g) \/ GhostWritten(g) \/ GhostAwaited(g)

\* The queue holds each request once, open and with its timer; only its head has started.
Queue ==
  /\ \A i, j \in 1..Len(pending) : pending[i] = pending[j] => i = j
  /\ \A r \in Elements(pending) \cap Requests :
       r \in timer /\ outcome[r] = "open" /\ r \notin failed /\ response[r] = NoMsg
  /\ \A i \in 2..Len(pending) : pending[i] \notin sentAt \cup echoed
  /\ timer \subseteq Elements(pending)

Start ==
  /\ port \in {"new", "opening"} => lockedBy = "none" /\ pending = <<>> /\ ticks = <<>>
  /\ ResetMode # "gpio" => receive = "drop" /\ \A x \in Resets : resetAt[x] = "off"
  /\ escaped = {}

LineInv == Start /\ Queue /\ Open4All /\ LockedOut

-----------------------------------------------------------------------------
(***************************************************************************)
(* Sequences.                                                              *)
(***************************************************************************)
LEMMA TailIndices ==
  ASSUME NEW S, NEW s \in Seq(S), s # <<>>
  PROVE  /\ Tail(s) \in Seq(S) /\ Len(s) = Len(Tail(s)) + 1 /\ Head(s) = s[1] /\ Len(s) >= 1
         /\ \A i \in 1..Len(Tail(s)) : i + 1 \in 2..Len(s) /\ Tail(s)[i] = s[i + 1]
OBVIOUS

\* The first frame of what is handled and of what is still on the line.
LEMMA FirstFrame ==
  ASSUME NEW S, NEW s \in Seq(S), NEW t \in Seq(S), s # <<>>
  PROVE  /\ Head(s) = Head(s \o t) /\ Tail(s) \o t = Tail(s \o t)
         /\ Len(s \o t) = 1 => Tail(s) = <<>> /\ t = <<>>
<1>1. Len(s) >= 1 /\ Len(t) >= 0 /\ Len(s \o t) = Len(s) + Len(t)
  OBVIOUS
<1>2. Head(s) = Head(s \o t)
  BY <1>1
<1>3. Tail(s) \o t = Tail(s \o t)
  <2>1. /\ Tail(s) \o t \in Seq(S) /\ Tail(s \o t) \in Seq(S)
        /\ Len(Tail(s) \o t) = Len(s) + Len(t) - 1 /\ Len(Tail(s \o t)) = Len(s) + Len(t) - 1
    BY <1>1
  <2>2. ASSUME NEW i \in 1..(Len(s) + Len(t) - 1)
        PROVE  (Tail(s) \o t)[i] = Tail(s \o t)[i]
    <3>1. Tail(s \o t)[i] = (s \o t)[i + 1]
      BY <1>1
    <3>2. CASE i <= Len(s) - 1
      BY <1>1, <3>1, <3>2
    <3>3. CASE i > Len(s) - 1
      BY <1>1, <3>1, <3>3
    <3> QED BY <1>1, <3>2, <3>3
  <2> QED BY <2>1, <2>2
<1>4. Len(s \o t) = 1 => Tail(s) = <<>> /\ t = <<>>
  BY <1>1
<1> QED
  BY <1>2, <1>3, <1>4

\* A data event splits what is on the line.
LEMMA Split ==
  ASSUME NEW S, NEW s \in Seq(S), NEW n \in 1..Len(s)
  PROVE  /\ SubSeq(s, 1, n) \in Seq(S) /\ SubSeq(s, n + 1, Len(s)) \in Seq(S)
         /\ SubSeq(s, 1, n) \o SubSeq(s, n + 1, Len(s)) = s
<1>1. Len(s) \in Nat /\ 1 \in 1..(Len(s) + 1) /\ n \in (1 - 1)..Len(s) /\ Len(s) \in n..Len(s)
  OBVIOUS
<1>2. SubSeq(s, 1, n) \o SubSeq(s, n + 1, Len(s)) = s
  BY <1>1, ConcatAdjacentSubSeq, SubSeqFull
<1>3. SubSeq(s, 1, n) \in Seq(S) /\ SubSeq(s, n + 1, Len(s)) \in Seq(S)
  OBVIOUS
<1> QED
  BY <1>2, <1>3

\* write() of the next head, alone or after a reset.
LEMMA NextTicks ==
  ASSUME NEW p \in Seq(Requests)
  PROVE  /\ p = <<>> => WriteNext(p) = <<>> /\ <<Reset>> \o WriteNext(p) = <<Reset>>
         /\ p # <<>> => /\ WriteNext(p) = <<Tick("write", Head(p))>>
                        /\ <<Reset>> \o WriteNext(p) = <<Reset, Tick("write", Head(p))>>
<1>1. \A a, b \in Ticks : <<a>> \o <<b>> = <<a, b>> /\ <<a>> \o <<>> = <<a>>
  <2> TAKE a, b \in Ticks
  <2>1. <<a>> \in Seq(Ticks) /\ <<b>> \in Seq(Ticks) /\ <<a, b>> \in Seq(Ticks)
    OBVIOUS
  <2>2. <<a>> \o <<b>> = <<a, b>>
    <3>1. /\ <<a>> \o <<b>> \in Seq(Ticks) /\ Len(<<a>> \o <<b>>) = 2
          /\ (<<a>> \o <<b>>)[1] = a /\ (<<a>> \o <<b>>)[2] = b
      BY <2>1, ConcatProperties
    <3>2. \A i \in 1..2 : i = 1 \/ i = 2
      OBVIOUS
    <3>3. Len(<<a, b>>) = 2 /\ <<a, b>>[1] = a /\ <<a, b>>[2] = b
      OBVIOUS
    <3>4. \A i \in 1..Len(<<a>> \o <<b>>) : (<<a>> \o <<b>>)[i] = <<a, b>>[i]
      BY <3>1, <3>2, <3>3
    <3> QED BY <2>1, <3>1, <3>3, <3>4, SeqEqual
  <2> QED BY <2>1, <2>2, ConcatEmptySeq
<1>2. Reset \in Ticks /\ (p # <<>> => Tick("write", Head(p)) \in Ticks)
  BY DEF Reset, Ticks, Tick, Jobs
<1> QED
  BY <1>1, <1>2 DEF WriteNext

-----------------------------------------------------------------------------
(***************************************************************************)
(* The request at the head is done.                                        *)
(***************************************************************************)
\* The next request of the queue is due, whatever became of the head.
LEMMA HeadDone ==
  ASSUME SerialAssumption, TypeOK, LineInv, lockedBy = "none", pending # <<>>,
         pending' = Tail(pending), Quiet',
         \/ ticks' = WriteNext(Tail(pending))
         \/ ticks' = <<Reset>> \o WriteNext(Tail(pending)) /\ errCnt' = 0,
         timer' = timer \ {Head(pending)},
         \A r \in Requests \ {Head(pending)} :
           /\ outcome'[r] = outcome[r] /\ response'[r] = response[r]
           /\ (r \in failed') <=> (r \in failed),
         UNCHANGED <<port, lockedBy, receive, resetAt, sentAt, echoed, escaped>>
  PROVE  LineInv'
<1>1. pending \in Seq(Requests) /\ port \notin {"new", "opening"}
  BY DEF LineInv, Open4All, Start
<1>2. /\ pending' \in Seq(Requests) /\ Len(pending) = Len(pending') + 1
      /\ Head(pending) = pending[1] /\ Len(pending) >= 1 /\ Len(pending') \in Nat
      /\ \A i \in 1..Len(pending') : i + 1 \in 2..Len(pending) /\ pending'[i] = pending[i + 1]
  BY <1>1, TailIndices
<1>3. Start'
  BY <1>1 DEF LineInv, Start
<1>4. Queue'
  <2>1. \A i, j \in 1..Len(pending) : pending[i] = pending[j] => i = j
    BY DEF LineInv, Queue
  <2>2. \A i, j \in 1..Len(pending') : pending'[i] = pending'[j] => i = j
    <3> TAKE i, j \in 1..Len(pending')
    <3>1. i + 1 \in 1..Len(pending) /\ j + 1 \in 1..Len(pending)
      BY <1>2
    <3>2. pending'[i] = pending'[j] => i + 1 = j + 1
      BY <1>2, <2>1, <3>1
    <3> QED BY <3>2
  <2>3. ASSUME NEW i \in 1..Len(pending')
        PROVE  pending'[i] \in Elements(pending) \cap Requests /\ pending'[i] # Head(pending)
    <3>1. i + 1 \in 1..Len(pending) /\ 1 \in 1..Len(pending) /\ i + 1 # 1
      BY <1>2
    <3>2. pending[i + 1] \in Requests /\ pending[i + 1] # pending[1]
      BY <1>1, <2>1, <3>1
    <3> QED BY <1>2, <3>1, <3>2 DEF Elements
  <2>4. \A r \in Elements(pending') \cap Requests :
          r \in timer' /\ outcome'[r] = "open" /\ r \notin failed' /\ response'[r] = NoMsg
    BY <2>3 DEF LineInv, Queue, Elements
  <2>5. \A i \in 2..Len(pending') : pending'[i] \notin sentAt' \cup echoed'
    BY <1>2 DEF LineInv, Queue
  <2>6. timer' \subseteq Elements(pending')
    <3> SUFFICES ASSUME NEW r \in timer, r # Head(pending) PROVE r \in Elements(pending')
      OBVIOUS
    <3>1. PICK i \in 1..Len(pending) : r = pending[i]
      BY DEF LineInv, Queue, Elements
    <3>2. i # 1 /\ i - 1 \in 1..Len(pending') /\ pending'[i - 1] = pending[(i - 1) + 1] /\ (i - 1) + 1 = i
      BY <1>2, <3>1
    <3> QED BY <3>1, <3>2 DEF Elements
  <2> QED BY <2>2, <2>4, <2>5, <2>6 DEF Queue
<1>5. Open4All'
  <2>1. (\A x \in Resets : resetAt[x] = "off")'
    BY DEF LineInv, Open4All
  <2>2. pending' = <<>> => NothingToDo' /\ (Reset \in Elements(ticks') => errCnt' = 0)
    <3> SUFFICES ASSUME pending' = <<>> PROVE NothingToDo' /\ (Reset \in Elements(ticks') => errCnt' = 0)
      OBVIOUS
    <3>0. WriteNext(Tail(pending)) = <<>> /\ <<Reset>> \o WriteNext(Tail(pending)) = <<Reset>>
      BY <1>2, NextTicks
    <3>1. ticks' = <<>> \/ (ticks' = <<Reset>> /\ errCnt' = 0)
      BY <3>0
    <3>2. Elements(<<>>) = {}
      BY DEF Elements
    <3> QED BY <3>1, <3>2 DEF NothingToDo
  <2>3. pending' # <<>> => Due(Head(pending))' /\ (Reset \in Elements(ticks') => errCnt' = 0)
    <3> SUFFICES ASSUME pending' # <<>>
                 PROVE  Due(Head(pending))' /\ (Reset \in Elements(ticks') => errCnt' = 0)
      OBVIOUS
    <3> DEFINE h == Head(pending')
    <3>1. \/ ticks' = <<Tick("write", h)>>
          \/ ticks' = <<Reset, Tick("write", h)>> /\ errCnt' = 0
      BY <1>2, NextTicks
    <3>2. h \notin sentAt' \cup echoed'
      <4>1. 1 \in 1..Len(pending') /\ h = pending'[1] /\ 1 + 1 = 2
        BY <1>2
      <4>2. h = pending[2] /\ 2 \in 2..Len(pending)
        BY <1>2, <4>1
      <4> QED BY <4>2 DEF LineInv, Queue
    <3>3. Elements(<<Tick("write", h)>>) = {Tick("write", h)} /\ Reset # Tick("write", h)
      <4>1. Elements(<<Tick("write", h)>>) = {Tick("write", h)}
        BY DEF Elements
      <4> QED BY <4>1 DEF Reset, Tick
    <3> HIDE DEF h
    <3>4. Reset \in Elements(ticks') => errCnt' = 0
      BY <3>1, <3>3
    <3> QED BY <3>1, <3>2, <3>4 DEF Due, h
  <2> QED BY <1>2, <2>1, <2>2, <2>3 DEF Open4All
<1>6. LockedOut'
  BY DEF LockedOut
<1> QED
  BY <1>3, <1>4, <1>5, <1>6 DEF LineInv

\* An error of the head: the request is rejected and the next one is due.
LEMMA HeadFails ==
  ASSUME SerialAssumption, TypeOK, LineInv, lockedBy = "none", pending # <<>>,
         ticks = <<>>, handleError(Head(pending), ticks),
         timerModbus \subseteq {Head(pending)},
         writing' = <<>>, bus' = <<>>, chunk' = <<>>,
         UNCHANGED <<port, lockedBy, receive, resetAt, sentAt, echoed, response, escaped>>
  PROVE  LineInv'
<1> DEFINE p == Tail(pending)
<1>1. pending \in Seq(Requests) /\ Head(pending) \in Requests /\ p \in Seq(Requests)
  BY DEF LineInv, Open4All
<1>2. pending' = p /\ timer' = timer \ {Head(pending)} /\ timerModbus' = {}
  BY DEF handleError, Rest, ClearTimers
<1>3. /\ errCnt' = CountError
      /\ ticks' = <<>> \o (IF errCnt + 1 >= ErrLimit THEN <<Reset>> ELSE <<>>) \o WriteNext(p)
  BY DEF handleError, Rest, Reset
<1>4. WriteNext(p) \in Seq(Ticks) /\ Reset \in Ticks
  <2>1. p \in Seq(Jobs)
    BY <1>1 DEF Jobs
  <2> QED BY <2>1, QueueTypes DEF Reset, Tick, Ticks
<1>5. \/ ticks' = WriteNext(p)
      \/ ticks' = <<Reset>> \o WriteNext(p) /\ errCnt' = 0
  <2>1. \A q \in Seq(Ticks) : <<>> \o <<>> \o q = q /\ <<>> \o <<Reset>> \o q = <<Reset>> \o q
    <3>1. <<>> \o <<Reset>> = <<Reset>> /\ <<>> \o <<>> = <<>>
      OBVIOUS
    <3> QED BY <3>1
  <2>2. errCnt + 1 >= ErrLimit => errCnt' = 0
    BY <1>3 DEF CountError
  <2> HIDE DEF p
  <2> QED BY <1>3, <1>4, <2>1, <2>2
<1>6. \A r \in Requests \ {Head(pending)} :
           /\ outcome'[r] = outcome[r] /\ response'[r] = response[r]
           /\ (r \in failed') <=> (r \in failed)
  BY DEF handleError, Settle
<1>7. Quiet'
  BY <1>2 DEF Quiet
<1> QED
  BY <1>2, <1>5, <1>6, <1>7, HeadDone

\* An error of the ghost: it takes the reset out of the queue, which goes on.
LEMMA GhostFails ==
  ASSUME SerialAssumption, OwnLine, TypeOK, LineInv, lockedBy # "none", errCnt = 0,
         NEW g \in Requests, ticks = <<>>, handleError(g, ticks),
         timerModbus \subseteq {g}, chunk' = <<>>,
         writing' = <<>>, bus' = <<>>,
         UNCHANGED <<port, lockedBy, receive, resetAt, sentAt, echoed, response, escaped>>
  PROVE  LineInv'
<1>1. /\ receive # "frames" /\ port \notin {"new", "opening"}
      /\ pending = <<>> \/ \E x \in Resets : pending = <<x>>
      /\ \A x \in Resets : resetAt[x] # "off" =>
           \A y \in Resets : resetAt[y] # "off" => y = x
  BY DEF LineInv, LockedOut, Start
<1>2. pending' = <<>> /\ Rest(pending) = <<>> /\ timerModbus' = {}
  <2>1. pending' = Rest(pending) /\ timerModbus' = timerModbus \ {g}
    BY DEF handleError, ClearTimers
  <2>2. \A x : <<x>> # <<>> /\ Tail(<<x>>) = <<>>
    OBVIOUS
  <2> QED BY <1>1, <2>1, <2>2 DEF Rest
<1>3. ticks' = <<>>
  <2>1. ~(errCnt + 1 >= ErrLimit)
    BY DEF OwnLine, SerialAssumption
  <2>2. ticks' = <<>> \o <<>> \o WriteNext(Rest(pending))
    BY <2>1 DEF handleError
  <2>3. WriteNext(Rest(pending)) = <<>>
    BY <1>2 DEF WriteNext
  <2> QED BY <2>2, <2>3
<1>4. timer = {} /\ timer' = {}
  <2>1. Elements(pending) \cap Requests = {}
    BY <1>1 DEF Elements, SerialAssumption
  <2>2. timer \subseteq Elements(pending) /\ timer \subseteq Requests
    BY DEF LineInv, Queue, TypeOK
  <2> QED BY <2>1, <2>2 DEF handleError, ClearTimers
<1>5. Start'
  BY <1>1 DEF LineInv, Start
<1>6. Queue'
  BY <1>2, <1>4 DEF Queue, Elements
<1>7. Open4All'
  BY DEF Open4All
<1>8. LockedOut'
  BY <1>1, <1>2, <1>3 DEF LockedOut, NoGhost, Quiet, OnlyRejects
<1> QED
  BY <1>5, <1>6, <1>7, <1>8 DEF LineInv

-----------------------------------------------------------------------------
(***************************************************************************)
(* What the invariant says of the queue and of the timers.                 *)
(***************************************************************************)
\* A queue that is not empty while callers are not locked out has a request at its head,
\* which nothing else in the queue equals.
LEMMA HeadFacts ==
  ASSUME SerialAssumption, TypeOK, LineInv, lockedBy = "none", pending # <<>>
  PROVE  /\ Head(pending) \in Requests /\ Head(pending) = pending[1] /\ Len(pending) \in Nat
         /\ Len(pending) >= 1 /\ port \notin {"new", "opening"}
         /\ Head(pending) \in Elements(pending) /\ Head(pending) \in timer
         /\ Head(pending) \notin failed /\ response[Head(pending)] = NoMsg
         /\ outcome[Head(pending)] = "open"
         /\ \A i \in 2..Len(pending) : pending[i] # Head(pending)
<1>1. pending \in Seq(Requests) /\ port \notin {"new", "opening"}
  BY DEF LineInv, Open4All, Start
<1>2. /\ Head(pending) \in Requests /\ Head(pending) = pending[1] /\ Len(pending) \in Nat
      /\ Len(pending) >= 1
  BY <1>1, TailIndices, HeadTailProperties
<1>3. Head(pending) \in Elements(pending)
  BY <1>2 DEF Elements
<1>4. \A i \in 2..Len(pending) : pending[i] # Head(pending)
  <2>1. \A i, j \in 1..Len(pending) : pending[i] = pending[j] => i = j
    BY DEF LineInv, Queue
  <2>2. \A i \in 2..Len(pending) : i \in 1..Len(pending) /\ i # 1 /\ 1 \in 1..Len(pending)
    BY <1>2
  <2> QED BY <1>2, <2>1, <2>2
<1> QED
  BY <1>1, <1>2, <1>3, <1>4 DEF LineInv, Queue

\* While callers are locked out no request is in the queue, and no timer of send() runs.
LEMMA LockedFacts ==
  ASSUME SerialAssumption, TypeOK, LineInv, lockedBy # "none"
  PROVE  /\ Elements(pending) \cap Requests = {} /\ timer = {} /\ Len(pending) \in {0, 1}
         /\ port \notin {"new", "opening"} /\ chunk = <<>> /\ receive # "frames"
<1>1. /\ receive # "frames" /\ chunk = <<>> /\ port \notin {"new", "opening"}
      /\ pending = <<>> \/ \E x \in Resets : pending = <<x>>
  BY DEF LineInv, LockedOut, Start
<1>2. Elements(pending) \cap Requests = {} /\ Len(pending) \in {0, 1}
  BY <1>1 DEF Elements, SerialAssumption
<1>3. timer \subseteq Elements(pending) /\ timer \subseteq Requests
  BY DEF LineInv, Queue, TypeOK
<1> QED
  BY <1>1, <1>2, <1>3

\* The queue is untouched while callers are locked out.
LEMMA LockedQueue ==
  ASSUME SerialAssumption, TypeOK, LineInv, lockedBy # "none", UNCHANGED <<pending, timer>>
  PROVE  Queue'
<1>1. Elements(pending) \cap Requests = {} /\ timer = {} /\ Len(pending) \in {0, 1}
  BY LockedFacts
<1>2. \A i, j \in 1..Len(pending) : pending[i] = pending[j] => i = j
  BY DEF LineInv, Queue
<1>3. \A i \in 2..Len(pending) : FALSE
  <2>1. \A n \in {0, 1} : \A i \in 2..n : FALSE
    OBVIOUS
  <2> QED BY <1>1, <2>1
<1> QED
  BY <1>1, <1>2, <1>3 DEF Queue, Elements

LEMMA NoTicks == Elements(<<>>) = {} /\ OnlyRejects(<<>>)
BY DEF Elements, OnlyRejects

\* The nextTick queue that resetTargets leaves.
LEMMA RejectTicks ==
  ASSUME SerialAssumption, TypeOK, NEW a \in Ticks
  PROVE  LET q == <<a>> \o Rejects(pending) IN
         /\ OnlyRejects(Rejects(pending)) /\ <<>> \o Rejects(pending) = Rejects(pending)
         /\ q # <<>> /\ Head(q) = a /\ Tail(q) = Rejects(pending)
<1> DEFINE R == Rejects(pending)
<1>1. R \in Seq(Ticks)
  BY QueueTypes DEF TypeOK
<1>2. OnlyRejects(R)
  <2>1. pending \in Seq(Jobs)
    BY DEF TypeOK
  <2> QED BY <2>1 DEF Rejects, OnlyRejects, Tick
<1> HIDE DEF R
<1>3. /\ <<a>> \in Seq(Ticks) /\ <<a>> # <<>> /\ Head(<<a>>) = a /\ Tail(<<a>>) = <<>>
      /\ Len(<<a>>) = 1
  OBVIOUS
<1>4. <<>> \o R = R
  BY <1>1, ConcatEmptySeq
<1>5. Head(<<a>> \o R) = a /\ Tail(<<a>> \o R) = R
  BY <1>1, <1>3, <1>4, FirstFrame
<1>6. <<a>> \o R # <<>>
  BY <1>1, <1>3, ConcatProperties, ConcatEqualIffEmpty
<1> QED
  BY <1>2, <1>4, <1>5, <1>6 DEF R

-----------------------------------------------------------------------------
(***************************************************************************)
(* Each action keeps the invariant.                                        *)
(***************************************************************************)
LEMMA InitLine == SerialAssumption /\ Init => LineInv
<1> SUFFICES ASSUME SerialAssumption, Init PROVE LineInv
  OBVIOUS
<1> USE DEF Init
<1>1. Start
  BY DEF Start
<1>2. Queue
  BY NoTicks DEF Queue
<1>3. Open4All
  BY NoTicks DEF Open4All, NothingToDo, Quiet
<1>4. LockedOut
  BY DEF LockedOut
<1> QED
  BY <1>1, <1>2, <1>3, <1>4 DEF LineInv

\* Opening and closing of the port, and nothing.
LEMMA PortLine ==
  ASSUME LineInv, Open \/ PortOpenFails \/ Close \/ UNCHANGED vars
  PROVE  LineInv'
<1> USE DEF vars, requVars, timerVars, resetVars, lineVars, procVars
<1>1. /\ UNCHANGED <<lockedBy, pending, errCnt, ticks, chunk, requVars, timerVars, resetAt,
                     lineVars, procVars>>
      /\ port' \in {"new", "opening"} => port \in {"new", "opening"}
      /\ receive' = receive \/ (port = "new" /\ receive' = "drop")
  BY DEF Open, PortOpenFails, Close
<1>2. port = "new" => lockedBy = "none" /\ pending = <<>>
  BY DEF LineInv, Start
<1>3. Start'
  BY <1>1 DEF LineInv, Start
<1>4. Queue'
  BY <1>1 DEF LineInv, Queue, Elements
<1>5. Open4All'
  BY <1>1, <1>2
     DEF LineInv, Open4All, NothingToDo, Quiet, Due, BeingWritten, Awaited, Sent, Expected,
         Elements
<1>6. LockedOut'
  BY <1>1, <1>2
     DEF LineInv, LockedOut, NoGhost, Quiet, GhostDue, GhostWritten, GhostAwaited, OnlyRejects
<1> QED
  BY <1>3, <1>4, <1>5, <1>6 DEF LineInv

\* resetTargets() locks the callers out; the write that was queued with it goes on.
LEMMA LockLine ==
  ASSUME SerialAssumption, OwnLine, TypeOK, LineInv, lockedBy = "none", Quiet,
         NEW q, resetTargets(q), UNCHANGED <<chunk, writing, bus, escaped>>,
         port' \notin {"new", "opening"},
         \/ q = <<>> /\ pending = <<>>
         \/ /\ q = <<Tick("write", Head(pending))>> /\ pending # <<>> /\ errCnt = 0
            /\ Head(pending) \notin sentAt \cup echoed
  PROVE  LineInv'
<1> USE DEF requVars, timerVars, resetVars
<1>1. \A x \in Resets : resetAt[x] = "off"
  BY DEF LineInv, Open4All
<1>2. CASE ResetMode = "noDevice"
  <2>1. /\ ticks' = q
        /\ UNCHANGED <<pending, errCnt, requVars, timerVars, resetVars>>
    BY <1>2 DEF resetTargets
  <2>2. Start'
    BY <2>1 DEF LineInv, Start
  <2>3. Queue'
    BY <2>1 DEF LineInv, Queue, Elements
  <2>4. Quiet'
    BY <2>1 DEF Quiet
  <2>5. Open4All'
    <3>1. pending' \in Seq(Requests)
      BY <2>1 DEF LineInv, Open4All
    <3>2. pending' = <<>> => NothingToDo' /\ Reset \notin Elements(ticks')
      BY <2>1, <2>4, NoTicks DEF NothingToDo
    <3>3. pending' # <<>> => Due(Head(pending))' /\ Reset \notin Elements(ticks')
      <4>1. \A j : Elements(<<Tick("write", j)>>) = {Tick("write", j)} /\ Reset # Tick("write", j)
        <5>1. \A a : Elements(<<a>>) = {a}
          BY DEF Elements
        <5> QED BY <5>1 DEF Reset, Tick
      <4> QED BY <2>1, <2>4, <4>1 DEF Due
    <3> QED BY <1>1, <2>1, <3>1, <3>2, <3>3 DEF Open4All
  <2>6. LockedOut'
    BY <2>1 DEF LockedOut
  <2> QED BY <2>2, <2>3, <2>5, <2>6 DEF LineInv
<1>3. CASE ResetMode # "noDevice"
  <2>1. PICK x \in Resets :
          /\ pending' = IF ResetMode = "none" THEN <<>> ELSE <<x>>
          /\ IF ResetMode = "gpio" THEN resetTarget(x)
             ELSE lockedBy' = "resetTargets" /\ UNCHANGED <<receive, resetAt>>
    BY <1>3 DEF resetTargets
  <2>2. /\ timer' = timer \ Elements(pending) /\ timerModbus' = timerModbus \ Elements(pending)
        /\ ticks' = q \o Rejects(pending)
        /\ UNCHANGED <<errCnt, sentAt, echoed, response, outcome>>
    BY <1>3 DEF resetTargets, ClearTimers
  <2>3. /\ lockedBy' # "none" /\ receive' # "frames"
        /\ ResetMode # "gpio" => receive' = "drop" /\ resetAt' = resetAt
        /\ \A y \in Resets : y # x => resetAt'[y] = "off"
    <3>1. CASE ResetMode = "gpio"
      <4>1. /\ lockedBy' = "resetTarget" /\ receive' = "chars"
            /\ resetAt' = [resetAt EXCEPT ![x] = "first"]
        BY <2>1, <3>1 DEF resetTarget
      <4> QED BY <1>1, <3>1, <4>1 DEF TypeOK
    <3>2. CASE ResetMode # "gpio"
      <4>1. receive = "drop"
        BY <3>2 DEF LineInv, Start
      <4> QED BY <1>1, <2>1, <3>2, <4>1
    <3> QED BY <3>1, <3>2
  <2>4. pending' = <<>> \/ pending' = <<x>>
    BY <2>1
  <2>5. timer' = {} /\ Quiet'
    BY <2>2 DEF LineInv, Queue, Quiet
  <2>6. Start'
    BY <1>1, <2>2, <2>3 DEF LineInv, Start
  <2>7. Queue'
    <3>1. Len(pending') \in {0, 1} /\ Elements(pending') \cap Requests = {}
      BY <2>4 DEF Elements, SerialAssumption
    <3>2. /\ \A i, j \in 1..Len(pending') : i = j
          /\ \A i \in 2..Len(pending') : FALSE
      BY <3>1
    <3> QED BY <2>5, <3>1, <3>2 DEF Queue
  <2>8. Open4All'
    BY <2>3 DEF Open4All
  <2>9. NoGhost' \/ (errCnt' = 0 /\ \E g \in Requests : GhostDue(g)')
    <3>1. CASE q = <<>> /\ pending = <<>>
      <4>1. ticks' = <<>>
        <5>1. Rejects(<<>>) = <<>> /\ <<>> \o <<>> = <<>>
          BY DEF Rejects
        <5> QED BY <2>2, <3>1, <5>1
      <4> QED BY <2>5, <4>1, NoTicks DEF NoGhost, OnlyRejects
    <3>2. CASE /\ q = <<Tick("write", Head(pending))>> /\ pending # <<>> /\ errCnt = 0
               /\ Head(pending) \notin sentAt \cup echoed
      <4>1. PICK h \in Requests : h = Head(pending)
        BY <3>2, HeadFacts
      <4> DEFINE w == Tick("write", h)
      <4>2. w \in Ticks
        BY <4>1 DEF Tick, Ticks, Jobs
      <4>3. /\ ticks' # <<>> /\ Head(ticks') = w /\ Tail(ticks') = Rejects(pending)
            /\ OnlyRejects(Rejects(pending))
        <5> HIDE DEF w
        <5>1. ticks' = <<w>> \o Rejects(pending)
          BY <2>2, <3>2, <4>1 DEF w
        <5> QED BY <4>2, <5>1, RejectTicks
      <4>4. OnlyRejects(Tail(ticks'))
        BY <4>3
      <4>5. GhostDue(h)'
        BY <2>2, <2>5, <3>2, <4>1, <4>3, <4>4 DEF GhostDue, OnlyRejects
      <4> QED BY <2>2, <3>2, <4>1, <4>5
    <3> QED BY <3>1, <3>2
  <2>10. LockedOut'
    BY <2>3, <2>4, <2>5, <2>9 DEF LockedOut, Quiet
  <2> QED BY <2>6, <2>7, <2>8, <2>10 DEF LineInv
<1> QED
  BY <1>2, <1>3

LEMMA OpenedLine ==
  ASSUME SerialAssumption, OwnLine, TypeOK, LineInv, PortOpened
  PROVE  LineInv'
<1>1. /\ lockedBy = "none" /\ pending = <<>> /\ ticks = <<>> /\ Quiet
      /\ port' = "open" /\ resetTargets(ticks) /\ UNCHANGED <<chunk, writing, bus, escaped>>
  BY DEF PortOpened, LineInv, Start, Open4All, NothingToDo, lineVars, procVars
<1> QED
  BY <1>1, LockLine

LEMMA ResetTargetsLine ==
  ASSUME SerialAssumption, OwnLine, TypeOK, LineInv, ResetTargetsTick
  PROVE  LineInv'
<1>1. /\ ticks # <<>> /\ Head(ticks).kind = "resetTargets" /\ resetTargets(Tail(ticks))
      /\ UNCHANGED <<port, chunk, writing, bus, escaped>>
  BY DEF ResetTargetsTick, lineVars, procVars
<1>2. port \notin {"new", "opening"}
  BY <1>1 DEF LineInv, Start
<1>3. \A r : Tick("write", r).kind = "write" /\ Tick("write", r) # Reset
  BY DEF Tick, Reset
<1>4. \A q : OnlyRejects(q) /\ q \in Seq(Ticks) /\ q # <<>> => Head(q).kind = "reject"
  BY DEF OnlyRejects
<1>5. lockedBy = "none"
  <2> SUFFICES ASSUME lockedBy # "none" PROVE FALSE
    OBVIOUS
  <2>1. OnlyRejects(ticks) \/ \E g \in Requests : Head(ticks) = Tick("write", g)
    BY DEF LineInv, LockedOut, NoGhost, GhostDue, GhostWritten, GhostAwaited
  <2> QED BY <1>1, <1>3, <1>4, <2>1 DEF TypeOK
<1>6. CASE pending = <<>>
  <2>1. Quiet /\ ticks = <<Reset>>
    BY <1>1, <1>5, <1>6 DEF LineInv, Open4All, NothingToDo
  <2>2. Tail(ticks) = <<>>
    BY <2>1
  <2> QED BY <1>1, <1>2, <1>5, <1>6, <2>1, <2>2, LockLine
<1>7. CASE pending # <<>>
  <2>1. PICK h \in Requests : h = Head(pending)
    BY <1>5, <1>7, HeadFacts
  <2>2. Due(h) /\ (Reset \in Elements(ticks) => errCnt = 0)
    BY <1>1, <1>5, <1>7, <2>1 DEF LineInv, Open4All, BeingWritten, Awaited
  <2>3. ticks = <<Reset, Tick("write", h)>>
    <3>1. ticks # <<Tick("write", h)>>
      <4>1. Head(<<Tick("write", h)>>) = Tick("write", h)
        OBVIOUS
      <4> QED BY <1>1, <1>3, <4>1
    <3> QED BY <2>2, <3>1 DEF Due
  <2>4. /\ Tail(ticks) = <<Tick("write", h)>> /\ Reset \in Elements(ticks)
    <3>1. \A a, b : Tail(<<a, b>>) = <<b>> /\ a \in Elements(<<a, b>>)
      BY DEF Elements
    <3> QED BY <2>3, <3>1
  <2> QED BY <1>1, <1>2, <1>5, <1>7, <2>1, <2>2, <2>4, LockLine DEF Due
<1> QED
  BY <1>6, <1>7

LEMMA SendLine ==
  ASSUME SerialAssumption, OwnLine, TypeOK, LineInv, NEW r \in Requests, send(r)
  PROVE  LineInv'
<1> USE DEF resetVars, lineVars, procVars
<1>1. /\ lockedBy = "none" /\ ticks = <<>> /\ port \notin {"new", "opening"}
      /\ pending' = Append(pending, r) /\ timer' = timer \cup {r}
      /\ outcome' = [outcome EXCEPT ![r] = "open"]
      /\ sentAt' = sentAt \ {r} /\ echoed' = echoed \ {r} /\ failed' = failed \ {r}
      /\ response' = [response EXCEPT ![r] = NoMsg]
      /\ ticks' = IF pending = <<>> THEN <<Tick("write", r)>> ELSE ticks
      /\ UNCHANGED <<port, errCnt, chunk, timerModbus, resetVars, lineVars, escaped>>
  BY DEF send, Idle
<1>2. r \notin Elements(pending) /\ r \notin timer
  BY DEF send, Unused
<1>3. pending \in Seq(Requests) /\ \A x \in Resets : resetAt[x] = "off"
  BY <1>1 DEF LineInv, Open4All
<1>4. /\ pending' \in Seq(Requests) /\ Len(pending') = Len(pending) + 1
      /\ Len(pending) \in Nat /\ pending'[Len(pending) + 1] = r
      /\ \A i \in 1..Len(pending) : pending'[i] = pending[i] /\ pending[i] \in Requests
      /\ pending' # <<>> /\ (pending # <<>> => Head(pending') = Head(pending))
      /\ (pending = <<>> => Head(pending') = r)
  BY <1>1, <1>3
<1>5. \A i \in 1..Len(pending) : pending[i] # r
  BY <1>2 DEF Elements
<1>6. \A i \in 1..Len(pending') : i \in 1..Len(pending) \/ i = Len(pending) + 1
  BY <1>4
<1>7. Start'
  BY <1>1 DEF LineInv, Start
<1>8. Queue'
  <2>1. \A i, j \in 1..Len(pending') : pending'[i] = pending'[j] => i = j
    BY <1>4, <1>5, <1>6 DEF LineInv, Queue
  <2>2. Elements(pending') = Elements(pending) \cup {r}
    BY <1>4, <1>6 DEF Elements
  <2>3. \A s \in Elements(pending') \cap Requests :
          s \in timer' /\ outcome'[s] = "open" /\ s \notin failed' /\ response'[s] = NoMsg
    <3> TAKE s \in Elements(pending') \cap Requests
    <3>1. CASE s = r
      BY <1>1, <3>1 DEF TypeOK
    <3>2. CASE s # r
      BY <1>1, <2>2, <3>2 DEF TypeOK, LineInv, Queue
    <3> QED BY <3>1, <3>2
  <2>4. \A i \in 2..Len(pending') : pending'[i] \notin sentAt' \cup echoed'
    <3> TAKE i \in 2..Len(pending')
    <3>1. i \in 1..Len(pending')
      OBVIOUS
    <3>2. CASE i = Len(pending) + 1
      BY <1>1, <1>4, <3>2
    <3>3. CASE i \in 1..Len(pending)
      <4>1. i \in 2..Len(pending)
        BY <1>4, <3>3
      <4> QED BY <1>1, <1>4, <3>3, <4>1 DEF LineInv, Queue
    <3> QED BY <1>6, <3>1, <3>2, <3>3
  <2>5. timer' \subseteq Elements(pending')
    BY <1>1, <2>2 DEF LineInv, Queue
  <2> QED BY <2>1, <2>3, <2>4, <2>5 DEF Queue
<1>9. Open4All'
  <2>1. CASE pending = <<>>
    <3>1. Due(r)'
      BY <1>1, <2>1 DEF LineInv, Open4All, NothingToDo, Quiet, Due
    <3>2. Reset \notin Elements(ticks')
      <4>1. \A a : Elements(<<a>>) = {a}
        BY DEF Elements
      <4> QED BY <1>1, <2>1, <4>1 DEF Reset, Tick
    <3> QED BY <1>1, <1>3, <1>4, <2>1, <3>1, <3>2 DEF Open4All
  <2>2. CASE pending # <<>>
    <3>1. PICK h \in Requests : h = Head(pending) /\ h \in Elements(pending)
      BY <1>1, <2>2, HeadFacts
    <3>2. ticks' = <<>> /\ Reset \notin Elements(ticks') /\ h # r
      BY <1>1, <1>2, <2>2, <3>1, NoTicks
    <3>3. BeingWritten(h) \/ Awaited(h)
      <4>1. \A a, b : <<a>> # <<>> /\ <<a, b>> # <<>>
        OBVIOUS
      <4> QED BY <1>1, <2>2, <3>1, <4>1 DEF LineInv, Open4All, Due
    <3>4. BeingWritten(h)' \/ Awaited(h)'
      BY <1>1, <3>2, <3>3 DEF BeingWritten, Awaited, Expected, Sent
    <3> QED BY <1>1, <1>3, <1>4, <2>2, <3>1, <3>2, <3>4 DEF Open4All
  <2> QED BY <2>1, <2>2
<1>10. LockedOut'
  BY <1>1 DEF LockedOut
<1> QED
  BY <1>7, <1>8, <1>9, <1>10 DEF LineInv

\* The frame of the head, or of the ghost, is given to the port.
LEMMA WriteLine ==
  ASSUME SerialAssumption, OwnLine, TypeOK, LineInv, WriteTick
  PROVE  LineInv'
<1> USE DEF requVars, timerVars, resetVars, lineVars, procVars
<1>1. /\ ticks # <<>> /\ Head(ticks).kind = "write"
      /\ UNCHANGED <<port, chunk, resetVars, escaped>>
  BY DEF WriteTick
<1>2. port \notin {"new", "opening"}
  BY <1>1 DEF LineInv, Start
<1>3. \A j : Tick("write", j).kind = "write" /\ Tick("write", j).job = j
  BY DEF Tick
<1>4. \A q : OnlyRejects(q) /\ q \in Seq(Ticks) /\ q # <<>> => Head(q).kind = "reject"
  BY DEF OnlyRejects
<1>5. \A a, b : /\ Head(<<a>>) = a /\ Tail(<<a>>) = <<>> /\ <<a>> # <<>>
                /\ Head(<<a, b>>) = a
  OBVIOUS
<1>6. Reset.kind = "resetTargets"
  BY DEF Reset, Tick
<1>7. ASSUME NEW j \in Requests, Head(ticks).job = j, Quiet
      PROVE  /\ \E ok \in BOOLEAN : writing' = <<[requ |-> j, ok |-> ok]>> /\ (ok \/ bus' = <<>>)
             /\ bus' \in Sent(j)
             /\ ticks' = Tail(ticks)
             /\ UNCHANGED <<pending, errCnt, requVars, timerVars>>
  <2>1. \A a : Append(<<>>, a) = <<a>>
    OBVIOUS
  <2>2. LineOutcomes(j) \subseteq Sent(j)
    BY DEF OwnLine, LineOutcomes, Sent
  <2>3. \A out \in Sent(j) : <<>> \o out = out
    <3>1. Sent(j) \subseteq Seq(Messages)
      <4>1. Msg("echo", j) \in Messages /\ Msg("answer", j) \in Messages
        BY DEF Msg, Messages
      <4>2. \A a, b \in Messages : <<>> \in Seq(Messages) /\ <<a>> \in Seq(Messages) /\ <<a, b>> \in Seq(Messages)
        OBVIOUS
      <4> QED BY <4>1, <4>2, Zenon DEF Sent
    <3> QED BY <3>1, ConcatEmptySeq
  <2>4. /\ \/ /\ writing' = Append(writing, [requ |-> j, ok |-> TRUE])
              /\ \E out \in LineOutcomes(j) : bus' = bus \o out
           \/ /\ writing' = Append(writing, [requ |-> j, ok |-> FALSE])
              /\ bus' = bus
        /\ ticks' = Tail(ticks)
        /\ UNCHANGED <<pending, errCnt, requVars, timerVars>>
    BY <1>7 DEF WriteTick
  <2>5. <<>> \in Sent(j)
    BY DEF Sent
  <2>6. bus' \in Sent(j)
    BY <1>7, <2>2, <2>3, <2>4, <2>5 DEF Quiet
  <2>7. \/ writing' = <<[requ |-> j, ok |-> TRUE]>>
        \/ writing' = <<[requ |-> j, ok |-> FALSE]>> /\ bus' = <<>>
    BY <1>7, <2>1, <2>4 DEF Quiet
  <2> QED BY <2>4, <2>6, <2>7
<1>8. CASE lockedBy = "none"
  <2>1. pending # <<>>
    <3> SUFFICES ASSUME pending = <<>> PROVE FALSE
      OBVIOUS
    <3>1. ticks = <<Reset>>
      BY <1>1, <1>8 DEF LineInv, Open4All, NothingToDo
    <3> QED BY <1>1, <1>5, <1>6, <3>1
  <2>2. PICK h \in Requests : h = Head(pending)
    BY <1>8, <2>1, HeadFacts
  <2>3. Due(h)
    BY <1>1, <1>8, <2>1, <2>2 DEF LineInv, Open4All, BeingWritten, Awaited
  <2>4. ticks = <<Tick("write", h)>>
    BY <1>1, <1>5, <1>6, <2>3 DEF Due
  <2>5. Head(ticks).job = h /\ Tail(ticks) = <<>> /\ Quiet
    BY <1>3, <1>5, <2>3, <2>4 DEF Due
  <2>6. /\ \E ok \in BOOLEAN : writing' = <<[requ |-> h, ok |-> ok]>> /\ (ok \/ bus' = <<>>)
        /\ bus' \in Sent(h) /\ ticks' = <<>>
        /\ UNCHANGED <<pending, errCnt, requVars, timerVars>>
    BY <1>7, <2>5
  <2>7. BeingWritten(h)'
    BY <1>1, <2>3, <2>5, <2>6 DEF BeingWritten, Due, Quiet, Sent
  <2>8. Start'
    BY <1>1, <1>2 DEF LineInv, Start
  <2>9. Queue'
    BY <2>6 DEF LineInv, Queue, Elements
  <2>10. Open4All'
    BY <1>1, <1>8, <2>1, <2>2, <2>6, <2>7, NoTicks DEF LineInv, Open4All
  <2>11. LockedOut'
    BY <1>1, <1>8 DEF LockedOut
  <2> QED BY <2>8, <2>9, <2>10, <2>11 DEF LineInv
<1>9. CASE lockedBy # "none"
  <2>1. PICK g \in Requests : GhostDue(g) /\ errCnt = 0
    BY <1>1, <1>4, <1>9 DEF LineInv, LockedOut, NoGhost, GhostWritten, GhostAwaited, TypeOK
  <2>2. Head(ticks).job = g /\ Quiet /\ OnlyRejects(Tail(ticks))
    BY <1>3, <2>1 DEF GhostDue
  <2>3. /\ \E ok \in BOOLEAN : writing' = <<[requ |-> g, ok |-> ok]>> /\ (ok \/ bus' = <<>>)
        /\ ticks' = Tail(ticks)
        /\ UNCHANGED <<pending, errCnt, requVars, timerVars>>
    BY <1>7, <2>2
  <2>4. GhostWritten(g)'
    BY <2>1, <2>2, <2>3 DEF GhostWritten, GhostDue, Quiet, OnlyRejects
  <2>5. Start'
    BY <1>1, <1>2 DEF LineInv, Start
  <2>6. Queue'
    BY <1>9, <2>3, LockedQueue
  <2>7. Open4All'
    BY <1>1, <1>9 DEF Open4All
  <2>8. LockedOut'
    BY <1>1, <1>9, <2>1, <2>3, <2>4 DEF LineInv, LockedOut
  <2> QED BY <2>5, <2>6, <2>7, <2>8 DEF LineInv
<1> QED
  BY <1>8, <1>9

\* A cancelled request is told; nothing else is queued before the write of the ghost.
LEMMA RejectLine ==
  ASSUME SerialAssumption, OwnLine, TypeOK, LineInv, RejectTick
  PROVE  LineInv'
<1> USE DEF timerVars, resetVars, lineVars, procVars
<1>1. /\ ticks # <<>> /\ Head(ticks).kind = "reject" /\ ticks' = Tail(ticks)
      /\ UNCHANGED <<port, pending, errCnt, chunk, sentAt, echoed, failed, response, timer,
                     timerModbus, lockedBy, receive, resetAt, writing, bus, escaped>>
  BY DEF RejectTick
<1>2. \A j : Tick("write", j).kind = "write" /\ Reset.kind = "resetTargets"
  BY DEF Tick, Reset
<1>3. lockedBy # "none"
  <2> SUFFICES ASSUME lockedBy = "none" PROVE FALSE
    OBVIOUS
  <2>1. \A a, b : Head(<<a>>) = a /\ Head(<<a, b>>) = a
    OBVIOUS
  <2>2. ticks \in {<<>>, <<Reset>>} \/ \E h : ticks \in {<<Tick("write", h)>>, <<Reset, Tick("write", h)>>}
    BY <1>1 DEF LineInv, Open4All, NothingToDo, Due, BeingWritten, Awaited
  <2> QED BY <1>1, <1>2, <2>1, <2>2
<1>4. OnlyRejects(ticks) \/ \E g \in Requests : GhostDue(g)
  BY <1>3 DEF LineInv, LockedOut, NoGhost, GhostWritten, GhostAwaited
<1>5. \A g \in Requests : ~GhostDue(g)
  BY <1>1, <1>2 DEF GhostDue
<1>6. OnlyRejects(Tail(ticks))
  <2>1. OnlyRejects(ticks)
    BY <1>4, <1>5
  <2>2. \A i \in 1..Len(Tail(ticks)) : i + 1 \in 1..Len(ticks) /\ Tail(ticks)[i] = ticks[i + 1]
    BY <1>1, TailIndices DEF TypeOK
  <2> QED BY <2>1, <2>2 DEF OnlyRejects
<1>7. Start'
  BY <1>1 DEF LineInv, Start
<1>8. Queue'
  BY <1>1, <1>3, LockedQueue
<1>9. Open4All'
  BY <1>1, <1>3 DEF Open4All
<1>10. LockedOut'
  <2>1. NoGhost => NoGhost'
    BY <1>1, <1>6 DEF NoGhost, Quiet, OnlyRejects
  <2>2. \A g \in Requests : GhostWritten(g) \/ GhostAwaited(g) => GhostWritten(g)' \/ GhostAwaited(g)'
    BY <1>1, <1>6 DEF GhostWritten, GhostAwaited, OnlyRejects
  <2> QED BY <1>1, <1>3, <1>5, <2>1, <2>2 DEF LineInv, LockedOut
<1> QED
  BY <1>7, <1>8, <1>9, <1>10 DEF LineInv

\* The write callback: the time of the sending is set, or an error is handled.
LEMMA WrittenLine ==
  ASSUME SerialAssumption, OwnLine, TypeOK, LineInv, WriteDone
  PROVE  LineInv'
<1> USE DEF resetVars, procVars
<1>1. /\ chunk = <<>> /\ ticks = <<>> /\ writing # <<>> /\ writing' = Tail(writing)
      /\ UNCHANGED <<port, chunk, lockedBy, receive, resetAt, bus>>
  BY DEF WriteDone, Idle
<1>2. \A a : Head(<<a>>) = a /\ Tail(<<a>>) = <<>>
  OBVIOUS
<1>3. ASSUME NEW r \in Requests, NEW ok \in BOOLEAN, writing = <<[requ |-> r, ok |-> ok]>>
      PROVE  /\ writing' = <<>>
             /\ ~ok => /\ handleError(r, ticks)
                       /\ UNCHANGED <<sentAt, echoed, response, escaped>>
             /\ ok /\ r \notin sentAt =>
                  /\ sentAt' = sentAt \cup {r} /\ timerModbus' = timerModbus \cup {r}
                  /\ UNCHANGED <<pending, errCnt, ticks, echoed, failed, response, outcome,
                                 timer, escaped>>
  <2>1. Head(writing).requ = r /\ Head(writing).ok = ok
    BY <1>2, <1>3
  <2>2. \/ ~ok /\ handleError(r, ticks) /\ UNCHANGED <<sentAt, echoed, response, escaped>>
        \/ /\ ok
           /\ r \notin sentAt => /\ sentAt' = sentAt \cup {r}
                                 /\ timerModbus' = timerModbus \cup {r}
                                 /\ UNCHANGED escaped
           /\ UNCHANGED <<pending, errCnt, ticks, echoed, failed, response, outcome, timer>>
    BY <2>1 DEF WriteDone
  <2> QED BY <1>1, <1>2, <1>3, <2>2
<1>4. CASE lockedBy = "none"
  <2>1. pending # <<>>
    BY <1>1, <1>4 DEF LineInv, Open4All, NothingToDo, Quiet
  <2>2. PICK h \in Requests : /\ h = Head(pending)
                              /\ \A i \in 2..Len(pending) : pending[i] # h
    BY <1>4, <2>1, HeadFacts
  <2>3. BeingWritten(h)
    BY <1>1, <1>4, <2>1, <2>2 DEF LineInv, Open4All, Due, Awaited, Quiet
  <2>4. PICK ok \in BOOLEAN : writing = <<[requ |-> h, ok |-> ok]>> /\ (ok \/ bus = <<>>)
    BY <2>3 DEF BeingWritten
  <2>5. CASE ~ok
    <3>1. writing' = <<>> /\ handleError(h, ticks) /\ UNCHANGED <<sentAt, echoed, response, escaped>>
      BY <1>3, <2>4, <2>5
    <3>2. timerModbus = {}
      BY <2>3 DEF BeingWritten
    <3> QED BY <1>1, <1>4, <2>1, <2>2, <2>4, <2>5, <3>1, <3>2, HeadFails
  <2>6. CASE ok
    <3>1. h \notin sentAt /\ h \notin echoed /\ timerModbus = {} /\ bus \in Sent(h)
      BY <2>3 DEF BeingWritten
    <3>2. /\ writing' = <<>> /\ sentAt' = sentAt \cup {h} /\ timerModbus' = {h}
          /\ UNCHANGED <<pending, errCnt, ticks, echoed, failed, response, outcome, timer, escaped>>
      BY <1>3, <2>4, <2>6, <3>1
    <3>3. Awaited(h)'
      <4>1. <<>> \o bus = bus
        BY ConcatEmptySeq DEF TypeOK
      <4> QED BY <1>1, <3>1, <3>2, <4>1 DEF Awaited, Expected, Sent
    <3>4. Start'
      BY <1>1, <3>2 DEF LineInv, Start
    <3>5. Queue'
      BY <2>2, <3>2 DEF LineInv, Queue, Elements
    <3>6. Open4All'
      BY <1>1, <1>4, <2>1, <2>2, <3>2, <3>3, NoTicks DEF LineInv, Open4All
    <3>7. LockedOut'
      BY <1>1, <1>4 DEF LockedOut
    <3> QED BY <3>4, <3>5, <3>6, <3>7 DEF LineInv
  <2> QED BY <2>5, <2>6
<1>5. CASE lockedBy # "none"
  <2>1. PICK g \in Requests : GhostWritten(g) /\ errCnt = 0
    BY <1>1, <1>5 DEF LineInv, LockedOut, NoGhost, GhostDue, GhostAwaited, Quiet
  <2>2. PICK ok \in BOOLEAN : writing = <<[requ |-> g, ok |-> ok]>> /\ (ok \/ bus = <<>>)
    BY <2>1 DEF GhostWritten
  <2>3. timerModbus = {} /\ g \notin sentAt /\ OnlyRejects(ticks)
    BY <2>1 DEF GhostWritten
  <2>4. CASE ~ok
    <3>1. writing' = <<>> /\ handleError(g, ticks) /\ UNCHANGED <<sentAt, echoed, response, escaped>>
      BY <1>3, <2>2, <2>4
    <3> QED BY <1>1, <1>5, <2>1, <2>2, <2>3, <2>4, <3>1, GhostFails
  <2>5. CASE ok
    <3>1. /\ writing' = <<>> /\ sentAt' = sentAt \cup {g} /\ timerModbus' = {g}
          /\ UNCHANGED <<pending, errCnt, ticks, echoed, failed, response, outcome, timer, escaped>>
      BY <1>3, <2>2, <2>3, <2>5
    <3>2. GhostAwaited(g)'
      BY <2>3, <3>1 DEF GhostAwaited, OnlyRejects
    <3>3. Start'
      BY <1>1, <3>1 DEF LineInv, Start
    <3>4. Queue'
      BY <1>5, <3>1, LockedQueue
    <3>5. Open4All'
      BY <1>1, <1>5 DEF Open4All
    <3>6. LockedOut'
      BY <1>1, <1>5, <2>1, <3>1, <3>2 DEF LineInv, LockedOut
    <3> QED BY <3>3, <3>4, <3>5, <3>6 DEF LineInv
  <2> QED BY <2>4, <2>5
<1> QED
  BY <1>4, <1>5

\* Only the head, or the ghost, can time out: its timer was started first.
LEMMA TimeoutLine ==
  ASSUME SerialAssumption, OwnLine, TypeOK, LineInv,
         NEW r \in Requests, NEW modbusTimeout \in BOOLEAN, handleTimeout(r, modbusTimeout)
  PROVE  LineInv'
<1> USE DEF resetVars, lineVars, procVars
<1>1. /\ chunk = <<>> /\ ticks = <<>> /\ writing = <<>> /\ bus = <<>>
      /\ handleError(r, ticks)
      /\ UNCHANGED <<port, chunk, sentAt, echoed, response, lockedBy, receive, resetAt,
                     writing, bus, escaped>>
  BY DEF handleTimeout, TimerTurn, Settled, Idle, OwnLine
<1>2. r \in timerModbus \/ (r \in timer /\ TimersBefore(r) = {})
  BY DEF handleTimeout, OwnLine
<1>3. CASE lockedBy = "none"
  <2>1. pending # <<>>
    <3> SUFFICES ASSUME pending = <<>> PROVE FALSE
      OBVIOUS
    <3>1. timerModbus = {} /\ Elements(pending) = {}
      BY <1>3, NoTicks DEF LineInv, Open4All, NothingToDo, Quiet
    <3> QED BY <1>2, <3>1 DEF LineInv, Queue
  <2>2. PICK h \in Requests :
          /\ h = Head(pending) /\ h = pending[1] /\ h \in timer /\ Len(pending) \in Nat
          /\ h \in Elements(pending)
    BY <1>3, <2>1, HeadFacts
  <2>3. timerModbus = {h}
    <3>1. \A a, b : <<a>> # <<>> /\ <<a, b>> # <<>>
      OBVIOUS
    <3> QED BY <1>1, <1>3, <2>1, <2>2, <3>1 DEF LineInv, Open4All, Due, BeingWritten, Awaited
  <2>4. r = h
    <3> SUFFICES ASSUME r # h PROVE FALSE
      OBVIOUS
    <3>1. r \in timer /\ TimersBefore(r) = {}
      BY <1>2, <2>3
    <3>2. PICK j \in 1..Len(pending) : pending[j] = r
      BY <3>1 DEF LineInv, Queue, Elements
    <3>3. 1 \in 1..Len(pending) /\ 1 < j
      BY <2>2, <3>2
    <3>4. h \in TimersBefore(r)
      BY <2>2, <3>2, <3>3 DEF TimersBefore
    <3> QED BY <3>1, <3>4
  <2> QED BY <1>1, <1>3, <2>1, <2>2, <2>3, <2>4, HeadFails
<1>4. CASE lockedBy # "none"
  <2>1. r \in timerModbus
    BY <1>2, <1>4, LockedFacts
  <2>2. PICK g \in Requests : GhostAwaited(g) /\ errCnt = 0
    BY <1>1, <1>4, <2>1 DEF LineInv, LockedOut, NoGhost, GhostDue, GhostWritten, Quiet
  <2>3. timerModbus = {g} /\ r = g
    BY <2>1, <2>2 DEF GhostAwaited
  <2> QED BY <1>1, <1>4, <2>2, <2>3, GhostFails
<1> QED
  BY <1>3, <1>4

\* A data event while the head is awaited, or one that is dropped.
LEMMA DataLine ==
  ASSUME SerialAssumption, OwnLine, TypeOK, LineInv,
         NEW n \in 1..Len(bus), handleOnSerialData(n)
  PROVE  LineInv'
<1> USE DEF requVars, timerVars, resetVars, procVars
<1>1. /\ chunk = <<>> /\ ticks = <<>> /\ writing = <<>>
      /\ bus' = SubSeq(bus, n + 1, Len(bus))
      /\ chunk' = IF receive = "frames" /\ pending # <<>> THEN SubSeq(bus, 1, n) ELSE <<>>
      /\ UNCHANGED <<port, pending, errCnt, ticks, requVars, timerVars, resetVars, writing,
                     escaped>>
  BY DEF handleOnSerialData, Settled, Idle, OwnLine
<1>2. bus # <<>> /\ bus \in Seq(Messages)
  BY DEF TypeOK
<1>3. SubSeq(bus, 1, n) \o SubSeq(bus, n + 1, Len(bus)) = bus /\ <<>> \o bus = bus
  BY <1>2, Split, ConcatEmptySeq
<1>4. Start'
  BY <1>1 DEF LineInv, Start
<1>5. Queue'
  BY <1>1 DEF LineInv, Queue, Elements
<1>6. CASE lockedBy = "none"
  <2>1. pending # <<>>
    BY <1>2, <1>6 DEF LineInv, Open4All, NothingToDo, Quiet
  <2>2. PICK h \in Requests : h = Head(pending)
    BY <1>6, <2>1, HeadFacts
  <2>3. Awaited(h)
    <3>1. \A a : <<a>> # <<>>
      OBVIOUS
    <3> QED BY <1>1, <1>2, <1>6, <2>1, <2>2, <3>1 DEF LineInv, Open4All, Due, Quiet, BeingWritten
  <2>4. Awaited(h)'
    BY <1>1, <1>3, <2>1, <2>3 DEF Awaited, Expected, Sent
  <2>5. Open4All'
    BY <1>1, <1>6, <2>1, <2>2, <2>4 DEF LineInv, Open4All, Elements
  <2>6. LockedOut'
    BY <1>1, <1>6 DEF LockedOut
  <2> QED BY <1>4, <1>5, <2>5, <2>6 DEF LineInv
<1>7. CASE lockedBy # "none"
  <2>1. PICK g \in Requests : GhostAwaited(g) /\ errCnt = 0
    <3>1. \A a : <<a>> # <<>>
      OBVIOUS
    <3> QED BY <1>1, <1>2, <1>7, <3>1 DEF LineInv, LockedOut, NoGhost, GhostDue, GhostWritten, Quiet
  <2>2. GhostAwaited(g)' /\ chunk' = <<>>
    BY <1>1, <1>7, <2>1, LockedFacts DEF GhostAwaited, OnlyRejects
  <2>3. Open4All'
    BY <1>1, <1>7 DEF Open4All
  <2>4. LockedOut'
    BY <1>1, <1>7, <2>1, <2>2 DEF LineInv, LockedOut
  <2> QED BY <1>4, <1>5, <2>3, <2>4 DEF LineInv
<1> QED
  BY <1>6, <1>7

\* A frame that is handled is one of the head: its echo, or its own answer.
LEMMA FrameOfHead ==
  ASSUME SerialAssumption, OwnLine, TypeOK, LineInv, chunk # <<>>
  PROVE  /\ lockedBy = "none" /\ pending # <<>>
         /\ \E h \in Requests :
              /\ h = Head(pending) /\ receive = "frames" /\ Awaited(h)
              /\ h \notin failed /\ response[h] = NoMsg /\ outcome[h] = "open"
              /\ h \notin echoed => /\ Head(chunk) = Msg("echo", h)
                                    /\ Tail(chunk) \o bus \in {<<>>, <<Msg("answer", h)>>}
              /\ h \in echoed => /\ Head(chunk) = Msg("answer", h)
                                 /\ Tail(chunk) = <<>> /\ bus = <<>>
<1>1. lockedBy = "none"
  BY LockedFacts
<1>2. pending # <<>>
  BY <1>1 DEF LineInv, Open4All, NothingToDo, Quiet
<1>3. PICK h \in Requests : /\ h = Head(pending) /\ h \notin failed
                            /\ response[h] = NoMsg /\ outcome[h] = "open"
  BY <1>1, <1>2, HeadFacts
<1>4. Awaited(h) /\ receive = "frames" /\ chunk \o bus \in Expected(h)
  BY <1>1, <1>2, <1>3 DEF LineInv, Open4All, Due, BeingWritten, Awaited, Quiet
<1>5. chunk \in Seq(Messages) /\ bus \in Seq(Messages)
  BY DEF TypeOK
<1>6. chunk \o bus # <<>>
  BY <1>5, ConcatEqualIffEmpty
<1>7. /\ Head(chunk) = Head(chunk \o bus) /\ Tail(chunk) \o bus = Tail(chunk \o bus)
      /\ Len(chunk \o bus) = 1 => Tail(chunk) = <<>> /\ bus = <<>>
  BY <1>5, FirstFrame
<1>8. \A a, b : /\ Head(<<a>>) = a /\ Tail(<<a>>) = <<>> /\ Len(<<a>>) = 1
                /\ Head(<<a, b>>) = a /\ Tail(<<a, b>>) = <<b>>
  OBVIOUS
<1>9. CASE h \in echoed
  <2>1. chunk \o bus = <<Msg("answer", h)>>
    BY <1>4, <1>6, <1>9 DEF Expected
  <2> QED BY <1>1, <1>2, <1>3, <1>4, <1>7, <1>8, <1>9, <2>1
<1>10. CASE h \notin echoed
  <2>1. chunk \o bus \in {<<Msg("echo", h)>>, <<Msg("echo", h), Msg("answer", h)>>}
    BY <1>4, <1>6, <1>10 DEF Expected, Sent
  <2>2. Head(chunk) = Msg("echo", h)
    BY <1>7, <1>8, <2>1
  <2>3. Tail(chunk \o bus) \in {<<>>, <<Msg("answer", h)>>}
    BY <1>8, <2>1
  <2>4. Tail(chunk) \o bus \in {<<>>, <<Msg("answer", h)>>}
    BY <1>7, <2>3
  <2> QED BY <1>1, <1>2, <1>3, <1>4, <1>10, <2>2, <2>4
<1> QED
  BY <1>9, <1>10

LEMMA FrameLine ==
  ASSUME SerialAssumption, OwnLine, TypeOK, LineInv, FrameStep
  PROVE  LineInv'
<1> USE DEF timerVars, lineVars, procVars
<1>1. chunk # <<>>
  BY DEF FrameStep, FrameWithoutHead, FrameForReset, FrameAsEcho, FrameAsResponse
<1>2. lockedBy = "none" /\ pending # <<>>
  BY <1>1, FrameOfHead
<1>3. PICK h \in Requests :
        /\ h = Head(pending) /\ receive = "frames" /\ Awaited(h)
        /\ h \notin failed /\ response[h] = NoMsg
        /\ h \notin echoed => /\ Head(chunk) = Msg("echo", h)
                              /\ Tail(chunk) \o bus \in {<<>>, <<Msg("answer", h)>>}
        /\ h \in echoed => Tail(chunk) = <<>> /\ bus = <<>>
  BY <1>1, FrameOfHead
<1>4. ticks = <<>> /\ writing = <<>> /\ timerModbus = {h}
  BY <1>3 DEF Awaited
<1>5. \A i \in 2..Len(pending) : pending[i] # h
  BY <1>2, <1>3, HeadFacts
<1>6. FrameAsEcho \/ FrameAsResponse
  BY <1>2, <1>3 DEF FrameStep, FrameWithoutHead, FrameForReset, SerialAssumption
<1>7. CASE FrameAsEcho
  <2>1. /\ h \notin echoed /\ chunk' = Tail(chunk) /\ errCnt' = 0
        /\ UNCHANGED <<port, pending, ticks, sentAt, failed, response, outcome, timer,
                       timerModbus, resetVars, writing, bus, escaped>>
    BY <1>3, <1>7 DEF FrameAsEcho, AwaitsEcho
  <2>2. echoed' = echoed \cup {h}
    <3>1. SameBytes(Head(chunk), h)
      BY <1>3, <2>1 DEF SameBytes, Msg
    <3> QED BY <1>3, <1>7, <3>1 DEF FrameAsEcho
  <2>3. Awaited(h)'
    BY <1>3, <1>4, <2>1, <2>2 DEF Awaited, Expected, resetVars
  <2>4. Start'
    BY <2>1 DEF LineInv, Start, resetVars
  <2>5. Queue'
    BY <1>5, <2>1, <2>2 DEF LineInv, Queue, Elements
  <2>6. Open4All'
    BY <1>2, <1>3, <1>4, <2>1, <2>3, NoTicks DEF LineInv, Open4All, resetVars
  <2>7. LockedOut'
    BY <1>2, <2>1 DEF LockedOut, resetVars
  <2> QED BY <2>4, <2>5, <2>6, <2>7 DEF LineInv
<1>8. CASE FrameAsResponse
  <2> DEFINE p == Tail(pending)
  <2>1. p \in Seq(Requests) /\ WithoutHead(h) = p
    BY <1>2, <1>3 DEF WithoutHead, LineInv, Open4All
  <2>2. /\ h \in echoed /\ chunk' = Tail(chunk) /\ pending' = p /\ errCnt' = 0
        /\ response' = [response EXCEPT ![h] = Head(chunk)]
        /\ ClearTimers({h}) /\ Settle(h, "resolved") /\ ExecuteHead(p, ticks)
        /\ UNCHANGED <<port, sentAt, echoed, failed, writing, bus, escaped>>
    BY <1>3, <1>8, <2>1 DEF FrameAsResponse, AwaitsEcho
  <2>3. Quiet'
    BY <1>3, <1>4, <2>2 DEF Quiet, ClearTimers
  <2>4. p # <<>> => Head(p) \in Requests /\ Head(p) \notin Resets
    BY <2>1 DEF SerialAssumption
  <2>5. WriteNext(p) \in Seq(Ticks) /\ <<>> \o WriteNext(p) = WriteNext(p)
    <3>1. p \in Seq(Jobs)
      BY <2>1 DEF Jobs
    <3> QED BY <3>1, QueueTypes, ConcatEmptySeq
  <2>6. ticks' = WriteNext(p) /\ UNCHANGED <<lockedBy, receive, resetAt>>
    BY <1>4, <2>2, <2>4, <2>5 DEF ExecuteHead, ExecuteTicks, WriteNext, resetVars
  <2>7. timer' = timer \ {h}
    BY <2>2 DEF ClearTimers
  <2>8. \A r \in Requests \ {h} :
           /\ outcome'[r] = outcome[r] /\ response'[r] = response[r]
           /\ (r \in failed') <=> (r \in failed)
    BY <2>2 DEF Settle
  <2> QED BY <1>2, <1>3, <2>2, <2>3, <2>6, <2>7, <2>8, HeadDone
<1> QED
  BY <1>6, <1>7, <1>8

\* The reset ends when no timer runs and the line is quiet: nothing of a ghost is left.
LEMMA ResetLine ==
  ASSUME SerialAssumption, OwnLine, TypeOK, LineInv, NEW x \in Resets, ResetStep(x)
  PROVE  LineInv'
<1> USE DEF requVars, timerVars, lineVars, procVars
<1>1. ResetHeard(x)
  BY DEF ResetStep, ResetAgain, ResetFails, ResetThrows, OwnLine
<1>2. /\ chunk = <<>> /\ ticks = <<>> /\ writing = <<>> /\ timer = {} /\ timerModbus = {}
      /\ resetAt[x] # "off"
  BY <1>1 DEF ResetHeard, ResetTurn, Settled, Idle, OwnLine
<1>3. lockedBy # "none"
  BY <1>2 DEF LineInv, Open4All
<1>4. port \notin {"new", "opening"} /\ pending \in {<<>>, <<x>>}
      /\ \A y \in Resets : resetAt[y] # "off" => y = x
  BY <1>2, <1>3, LockedFacts DEF LineInv, LockedOut
<1>5. Quiet
  BY <1>2, <1>3 DEF LineInv, LockedOut, NoGhost, GhostDue, GhostWritten, GhostAwaited
<1>6. WithoutHead(x) = <<>>
  <2>1. Head(<<x>>) = x /\ Tail(<<x>>) = <<>>
    OBVIOUS
  <2> QED BY <1>4, <2>1 DEF WithoutHead
<1>7. /\ pending' = <<>> /\ ticks' = <<>> /\ lockedBy' = "none" /\ receive' = "frames"
      /\ resetAt' = [y \in Resets |-> IF y = x THEN "off" ELSE resetAt[y]]
      /\ UNCHANGED <<port, errCnt, chunk, requVars, timerVars, lineVars, escaped>>
  BY <1>1, <1>2, <1>6 DEF ResetHeard, ExecuteTicks, Release
<1>8. \A y \in Resets : resetAt'[y] = "off"
  BY <1>4, <1>7
<1>9. Start'
  <2>1. ResetMode = "gpio"
    BY <1>2 DEF LineInv, Start
  <2> QED BY <1>4, <1>7, <2>1 DEF LineInv, Start
<1>10. Queue'
  BY <1>2, <1>7, NoTicks DEF Queue
<1>11. Open4All'
  BY <1>5, <1>7, <1>8, NoTicks DEF Open4All, NothingToDo, Quiet
<1>12. LockedOut'
  BY <1>7 DEF LockedOut
<1> QED
  BY <1>9, <1>10, <1>11, <1>12 DEF LineInv

LEMMA NextLine ==
  ASSUME SerialAssumption, OwnLine, TypeOK, LineInv, [Next]_vars
  PROVE  LineInv'
<1>1. CASE Open \/ PortOpenFails \/ Close \/ Stopped \/ UNCHANGED vars
  BY <1>1, PortLine DEF Stopped
<1>2. CASE PortOpened
  BY <1>2, OpenedLine
<1>3. CASE \E r \in Requests : send(r)
  BY <1>3, SendLine
<1>4. CASE \E r \in Requests, modbusTimeout \in BOOLEAN : handleTimeout(r, modbusTimeout)
  BY <1>4, TimeoutLine
<1>5. CASE \E n \in 1..Len(bus) : handleOnSerialData(n)
  BY <1>5, DataLine
<1>6. CASE WriteDone
  BY <1>6, WrittenLine
<1>7. CASE TickStep
  BY <1>7, WriteLine, RejectLine, ResetTargetsLine DEF TickStep
<1>8. CASE FrameStep
  BY <1>8, FrameLine
<1>9. CASE \E x \in Resets : ResetStep(x)
  BY <1>9, ResetLine
<1> QED
  BY <1>1, <1>2, <1>3, <1>4, <1>5, <1>6, <1>7, <1>8, <1>9 DEF Next

LEMMA LineInvariant == OwnLine => (Spec => []LineInv)
<1> SUFFICES ASSUME OwnLine PROVE Spec => []LineInv
  OBVIOUS
<1>1. Init => LineInv
  BY SerialAssumption, InitLine
<1>2. TypeOK /\ LineInv /\ [Next]_vars => LineInv'
  BY SerialAssumption, NextLine
<1> QED
  BY <1>1, <1>2, TypeCorrect, PTL DEF Spec

-----------------------------------------------------------------------------
(***************************************************************************)
(* The theorems.                                                           *)
(***************************************************************************)
\* However requests, errors and resets interleave, no setter of a request throws: it is
\* sent once, and answered once, while it is at the head of the queue.
THEOREM NoEscape == OwnLine => (Spec => []NothingEscapes)
<1> SUFFICES ASSUME OwnLine PROVE Spec => []NothingEscapes
  OBVIOUS
<1>1. LineInv => NothingEscapes
  BY DEF LineInv, Start, NothingEscapes
<1> QED
  BY <1>1, LineInvariant, PTL

\* A request leaves the queue only when its own promise is settled or about to be: its
\* timer runs no longer, and who is not in the queue has none.
THEOREM LeavesSettled == OwnLine => (Spec => LeavesWhenSettled)
<1> SUFFICES ASSUME OwnLine PROVE Spec => LeavesWhenSettled
  OBVIOUS
<1> DEFINE Leaves == \A r \in Requests :
             r \in Elements(pending) /\ r \notin Elements(pending')
               => \/ outcome'[r] # "open"
                  \/ Tick("reject", r) \in Elements(ticks')
<1>1. LineInv' /\ CallerGuarded' => Leaves
  BY DEF LineInv, Queue, CallerGuarded, Waiting
<1>2. Leaves => [Leaves]_vars
  OBVIOUS
<1>3. Spec => [][Leaves]_vars
  <2> HIDE DEF Leaves
  <2> QED BY <1>1, <1>2, LineInvariant, CallersStayGuarded, PTL
<1> QED
  BY <1>3 DEF LeavesWhenSettled

-----------------------------------------------------------------------------
(***************************************************************************)
(* The request service is implemented.                                     *)
(***************************************************************************)
\* The promise of a job is rejected, if it is open, or nothing happens to the service.
LEMMA Rejection ==
  ASSUME SerialAssumption, TypeOK, NEW j, Settle(j, "rejected"), UNCHANGED response
  PROVE  [Service!Next]_(Service!vars)
<1>1. CASE j \in Requests /\ outcome[j] = "open"
  <2>1. Service!Reject(j)
    BY <1>1 DEF Settle, Service!Reject
  <2> QED BY <1>1, <2>1 DEF Service!Next
<1>2. CASE ~(j \in Requests /\ outcome[j] = "open")
  BY <1>2 DEF Settle, Service!vars
<1> QED
  BY <1>1, <1>2

LEMMA SubmitStep ==
  ASSUME SerialAssumption, TypeOK, NEW r \in Requests, send(r)
  PROVE  [Service!Next]_(Service!vars)
<1>1. /\ outcome[r] # "open" /\ outcome' = [outcome EXCEPT ![r] = "open"]
      /\ response' = [response EXCEPT ![r] = NoMsg]
  BY DEF send, Unused
<1>2. Service!Submit(r)
  BY <1>1 DEF Service!Submit, TypeOK
<1> QED
  BY <1>2 DEF Service!Next

\* The answer that resolves a request is the target's answer to this request.
LEMMA ResolveStep ==
  ASSUME SerialAssumption, OwnLine, TypeOK, LineInv, FrameAsResponse
  PROVE  [Service!Next]_(Service!vars)
<1>1. chunk # <<>>
  BY DEF FrameAsResponse
<1>2. PICK h \in Requests :
        /\ h = Head(pending) /\ h \notin failed /\ response[h] = NoMsg /\ outcome[h] = "open"
        /\ h \in echoed => Head(chunk) = Msg("answer", h)
  BY <1>1, FrameOfHead
<1>3. /\ outcome' = [outcome EXCEPT ![h] = "resolved"]
      /\ response' = [response EXCEPT ![h] = Msg("answer", h)]
  BY <1>2 DEF FrameAsResponse, AwaitsEcho, Settle
<1>4. Msg("answer", h) # NoMsg
  BY NoMsgAssumption DEF Msg, Messages
<1>5. Service!Resolve(h)
  BY <1>2, <1>3, <1>4 DEF Service!Resolve, TypeOK
<1> QED
  BY <1>5 DEF Service!Next

LEMMA ServiceStep ==
  ASSUME SerialAssumption, OwnLine, TypeOK, LineInv, [Next]_vars
  PROVE  [Service!Next]_(Service!vars)
<1> USE DEF requVars
<1>1. ASSUME UNCHANGED <<outcome, response>>
      PROVE  [Service!Next]_(Service!vars)
  BY <1>1 DEF Service!vars
<1>2. ASSUME NEW j, NEW q, handleError(j, q), UNCHANGED response
      PROVE  [Service!Next]_(Service!vars)
  BY <1>2, Rejection DEF handleError
<1>3. CASE Open \/ PortOpenFails \/ Close \/ Stopped \/ UNCHANGED vars
  BY <1>1, <1>3 DEF Open, PortOpenFails, Close, Stopped, vars
<1>4. ASSUME NEW q, resetTargets(q)
      PROVE  [Service!Next]_(Service!vars)
  BY <1>1, <1>4 DEF resetTargets
<1>5. CASE PortOpened
  BY <1>4, <1>5 DEF PortOpened
<1>6. CASE \E r \in Requests : send(r)
  BY <1>6, SubmitStep
<1>7. CASE \E r \in Requests, modbusTimeout \in BOOLEAN : handleTimeout(r, modbusTimeout)
  BY <1>2, <1>7 DEF handleTimeout
<1>8. CASE \E n \in 1..Len(bus) : handleOnSerialData(n)
  BY <1>1, <1>8 DEF handleOnSerialData
<1>9. CASE WriteDone
  BY <1>1, <1>2, <1>9 DEF WriteDone
<1>10. CASE WriteTick
  BY <1>1, <1>2, <1>10 DEF WriteTick
<1>11. CASE RejectTick
  BY <1>11, Rejection DEF RejectTick
<1>12. CASE ResetTargetsTick
  BY <1>4, <1>12 DEF ResetTargetsTick
<1>13. CASE FrameWithoutHead \/ FrameAsEcho
  BY <1>1, <1>13 DEF FrameWithoutHead, FrameAsEcho
<1>14. CASE FrameForReset
  BY <1>2, <1>14 DEF FrameForReset
<1>15. CASE FrameAsResponse
  BY <1>15, ResolveStep
<1>16. CASE \E x \in Resets : ResetStep(x)
  BY <1>1, <1>2, <1>16 DEF ResetStep, ResetHeard, ResetAgain, ResetFails, ResetThrows
<1> QED
  BY <1>3, <1>5, <1>6, <1>7, <1>8, <1>9, <1>10, <1>11, <1>12, <1>13, <1>14, <1>15, <1>16
     DEF Next, TickStep, FrameStep

\* On a line that loses frames and fails to write, the master implements the request
\* service: a request is open until it is rejected, or resolved with the target's answer to
\* this very request, and the verdict is final.
THEOREM Implements == OwnLine => (Spec => Service!Spec)
<1> SUFFICES ASSUME OwnLine PROVE Spec => Service!Spec
  OBVIOUS
<1>1. Init => Service!Init
  BY DEF Init, Service!Init
<1>2. TypeOK /\ LineInv /\ [Next]_vars => [Service!Next]_(Service!vars)
  BY SerialAssumption, ServiceStep
<1> QED
  BY <1>1, <1>2, TypeCorrect, LineInvariant, PTL DEF Spec, Service!Spec
=============================================================================
