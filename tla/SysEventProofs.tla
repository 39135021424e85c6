--------------------------- MODULE SysEventProofs ---------------------------
(***************************************************************************)
(* Proofs about SysEvent for any energy counter and any rate of errors.    *)
(*                                                                         *)
(* The first invariant, Inv, says that a context between cli() and the     *)
(* end of sys_sei() runs alone.  The second one, Calm, holds as long as no *)
(* byte is damaged: while main is between the two halves of sys_cli(),     *)
(* BUSY is pending, so that the receive interrupt leaves sys.flags alone.  *)
(***************************************************************************)
EXTENDS SysEvent, SequenceTheorems, TLAPS

Critical == {"load", "store", "restore", "sei"}

Shapes == {<<"main">>, <<"main", "timer">>, <<"main", "uart">>,
           <<"main", "timer", "uart">>}

TimerOn == stack \in {<<"main", "timer">>, <<"main", "timer", "uart">>}
UartOn  == stack \in {<<"main", "uart">>, <<"main", "timer", "uart">>}

\* The receive interrupt runs with interrupts disabled and keeps them so.
UartMasked ==
  UartOn =>
    /\ ~iflag
    /\ step["uart"] \notin {"mark", "sei"}
    /\ step["uart"] \in {"cli", "load", "store", "restore"} => ~savedI

\* An interrupt that is not in progress is in no sys_ function.
OffStack ==
  /\ ~TimerOn => step["timer"] = "none"
  /\ ~UartOn => step["uart"] = "none"

\* Between cli() and sei() a context runs alone.
CriticalAlone == \A c \in Contexts : step[c] \in Critical => c = Top /\ ~iflag

MainOps  == {Op("set", "ERROR"), Op("set", "FRAME"), Op("read", "none"), Done}
TimerOps == {Op("clear", "FRAME"), Op("clear", "ERROR")}
UartOps  == {Op("set", "BUSY")}

\* Each context calls the sys_ functions for its own events only.
CallsOwned ==
  /\ step["main"] # "none" => op["main"] \in MainOps
  /\ step["timer"] # "none" => op["timer"] \in TimerOps
  /\ step["uart"] # "none" => op["uart"] \in UartOps

\* The energy that was sent is not more than what was counted.
Behind == snapshot <= count

Inv == /\ TypeOK
       /\ UartMasked
       /\ OffStack
       /\ CriticalAlone
       /\ CallsOwned
       /\ LoadedIsCurrent
       /\ Behind

\* A frame that is handled keeps the receiver closed until it is answered.
BusyKept ==
  at["main"] \in {"frame", "answered"} =>
    /\ "BUSY" \in eventFlag
    /\ step["main"] # "none" => op["main"] # Done

\* Between the two halves of sys_cli() in the main loop nobody saves a cleared
\* interrupt flag: USART1 calls nothing and TIMER0 runs with interrupts enabled.
NotTorn ==
  step["main"] \in {"mark", "cli"} =>
    /\ "BUSY" \in eventFlag
    /\ step["uart"] = "none"
    /\ step["main"] = "cli" => savedI
    /\ Top = "timer" /\ step["timer"] \in {"none", "mark", "cli"} => iflag
    /\ step["timer"] # "unmark"
    /\ step["timer"] \in {"cli", "load", "store", "restore", "sei"} => savedI

\* The flag that main saved is the one that was set.
MainSaved ==
  /\ step["main"] # "unmark"
  /\ step["main"] \in Critical => savedI

Calm == /\ ~errSeen
        /\ MainRunsEnabled
        /\ BusyKept
        /\ NotTorn
        /\ MainSaved

-----------------------------------------------------------------------------
(* Facts about the stack of contexts and about the halves of the counter.  *)

\* The running context tells how far the interrupts are nested.
LEMMA TopOfStack ==
  ASSUME stack \in Shapes
  PROVE  /\ UartOn <=> Top = "uart"
         /\ stack = <<"main">> <=> Top = "main"
         /\ stack = <<"main", "timer">> <=> Top = "timer"
         /\ Top \in Contexts
<1>1. CASE stack = <<"main">>
  BY <1>1 DEF Top, UartOn, Contexts
<1>2. CASE stack = <<"main", "timer">>
  BY <1>2 DEF Top, UartOn, Contexts
<1>3. CASE stack = <<"main", "uart">>
  BY <1>3 DEF Top, UartOn, Contexts
<1>4. CASE stack = <<"main", "timer", "uart">>
  BY <1>4 DEF Top, UartOn, Contexts
<1> QED
  BY <1>1, <1>2, <1>3, <1>4 DEF Shapes

\* An element is put on top of one or two others, and taken off again.
LEMMA PushAndPop ==
  ASSUME NEW S, NEW a \in S, NEW b \in S, NEW c \in S
  PROVE  /\ Append(<<a>>, b) = <<a, b>>
         /\ Append(<<a, b>>, c) = <<a, b, c>>
         /\ SubSeq(<<a, b>>, 1, 1) = <<a>>
         /\ SubSeq(<<a, b, c>>, 1, 2) = <<a, b>>
<1> DEFINE one == <<a>>
           two == <<a, b>>
           three == <<a, b, c>>
<1>1. one \in Seq(S) /\ Len(one) = 1 /\ one[1] = a
  OBVIOUS
<1>2. two \in Seq(S) /\ Len(two) = 2 /\ two[1] = a /\ two[2] = b
  OBVIOUS
<1>3. three \in Seq(S) /\ Len(three) = 3
      /\ three[1] = a /\ three[2] = b /\ three[3] = c
  OBVIOUS
<1> HIDE DEF one, two, three
<1>a. \A s \in Seq(S), e \in S :
        /\ Append(s, e) \in Seq(S)
        /\ Len(Append(s, e)) = Len(s) + 1
        /\ Append(s, e)[Len(s) + 1] = e
        /\ \A i \in 1..Len(s) : Append(s, e)[i] = s[i]
  OBVIOUS
<1>4. Append(one, b) = two
  <2>1. /\ Append(one, b) \in Seq(S) /\ Len(Append(one, b)) = 2
        /\ Append(one, b)[1] = a /\ Append(one, b)[2] = b
    <3>1. 1 \in 1..Len(one) /\ Len(one) + 1 = 2
      BY <1>1
    <3>2. /\ Append(one, b) \in Seq(S)
          /\ Len(Append(one, b)) = Len(one) + 1
          /\ Append(one, b)[Len(one) + 1] = b
          /\ \A i \in 1..Len(one) : Append(one, b)[i] = one[i]
      BY <1>1, <1>a, Zenon
    <3> QED
      BY <3>1, <3>2, <1>1
  <2>2. \A i \in 1..2 : Append(one, b)[i] = two[i]
    BY <2>1, <1>2
  <2> QED
    BY <2>1, <2>2, <1>2, SeqEqual, Zenon
<1>5. Append(two, c) = three
  <2>1. /\ Append(two, c) \in Seq(S) /\ Len(Append(two, c)) = 3
        /\ Append(two, c)[1] = a /\ Append(two, c)[2] = b
        /\ Append(two, c)[3] = c
    <3>1. 1 \in 1..Len(two) /\ 2 \in 1..Len(two) /\ Len(two) + 1 = 3
      BY <1>2
    <3>2. /\ Append(two, c) \in Seq(S)
          /\ Len(Append(two, c)) = Len(two) + 1
          /\ Append(two, c)[Len(two) + 1] = c
          /\ \A i \in 1..Len(two) : Append(two, c)[i] = two[i]
      BY <1>2, <1>a, Zenon
    <3> QED
      BY <3>1, <3>2, <1>2
  <2>2. \A i \in 1..3 : Append(two, c)[i] = three[i]
    BY <2>1, <1>3
  <2> QED
    BY <2>1, <2>2, <1>3, SeqEqual, Zenon
<1>6. SubSeq(two, 1, 1) = one
  <2>1. /\ SubSeq(two, 1, 1) \in Seq(S) /\ Len(SubSeq(two, 1, 1)) = 1
        /\ \A i \in 1..1 : SubSeq(two, 1, 1)[i] = one[i]
    BY <1>1, <1>2
  <2> QED
    BY <2>1, <1>1, SeqEqual, Zenon
<1>7. SubSeq(three, 1, 2) = two
  <2>1. /\ SubSeq(three, 1, 2) \in Seq(S) /\ Len(SubSeq(three, 1, 2)) = 2
        /\ \A i \in 1..2 : SubSeq(three, 1, 2)[i] = two[i]
    BY <1>2, <1>3
  <2> QED
    BY <2>1, <1>2, SeqEqual, Zenon
<1> QED
  BY <1>4, <1>5, <1>6, <1>7 DEF one, two, three

\* How interrupts put themselves on the stack of contexts, and leave it.
LEMMA StackMoves ==
  /\ Append(<<"main">>, "timer") = <<"main", "timer">>
  /\ Append(<<"main">>, "uart") = <<"main", "uart">>
  /\ Append(<<"main", "timer">>, "uart") = <<"main", "timer", "uart">>
  /\ SubSeq(<<"main", "timer">>, 1, 1) = <<"main">>
  /\ SubSeq(<<"main", "uart">>, 1, 1) = <<"main">>
  /\ SubSeq(<<"main", "timer", "uart">>, 1, 2) = <<"main", "timer">>
<1>1. "main" \in Contexts /\ "timer" \in Contexts /\ "uart" \in Contexts
  BY DEF Contexts
<1> QED
  BY <1>1, PushAndPop, Zenon

\* TIMER0 only interrupts the main loop.
LEMMA TimerInterruptsMain ==
  ASSUME stack \in Shapes, UartMasked, TimerEnter
  PROVE  stack = <<"main">> /\ stack' = <<"main", "timer">>
<1>1. ~UartOn
  BY DEF UartMasked, TimerEnter, Enter
<1>2. stack # <<"main", "timer">>
  <2> SUFFICES ASSUME stack = <<"main", "timer">>
               PROVE  FALSE
    OBVIOUS
  <2>1. 2 \in 1..Len(stack) /\ stack[2] = "timer"
    OBVIOUS
  <2> QED
    BY <2>1 DEF TimerEnter
<1>3. stack = <<"main">>
  BY <1>1, <1>2 DEF Shapes, UartOn
<1>4. stack' = Append(<<"main">>, "timer")
  BY <1>3 DEF TimerEnter, Enter
<1> QED
  BY <1>3, <1>4, StackMoves, Zenon

\* USART1 interrupts the main loop or a task.
LEMMA UartInterrupts ==
  ASSUME stack \in Shapes, UartMasked, UartEnter
  PROVE  \/ stack = <<"main">> /\ stack' = <<"main", "uart">>
         \/ stack = <<"main", "timer">> /\ stack' = <<"main", "timer", "uart">>
<1>1. ~UartOn /\ stack' = Append(stack, "uart")
  BY DEF UartMasked, UartEnter, Enter
<1>2. CASE stack = <<"main">>
  BY <1>1, <1>2, StackMoves, Zenon
<1>3. CASE stack = <<"main", "timer">>
  BY <1>1, <1>3, StackMoves, Zenon
<1> QED
  BY <1>1, <1>2, <1>3 DEF Shapes, UartOn

\* An interrupt returns to the context it interrupted.
LEMMA ReturnsBelow ==
  ASSUME stack \in Shapes, NEW c \in {"timer", "uart"}, Return(c)
  PROVE  \/ c = "timer" /\ stack = <<"main", "timer">> /\ stack' = <<"main">>
         \/ c = "uart" /\ stack = <<"main", "uart">> /\ stack' = <<"main">>
         \/ /\ c = "uart"
            /\ stack = <<"main", "timer", "uart">>
            /\ stack' = <<"main", "timer">>
<1>1. Top = c /\ stack' = SubSeq(stack, 1, Len(stack) - 1)
  BY DEF Return, Runs
<1>2. CASE stack = <<"main">>
  BY <1>1, <1>2 DEF Top
<1>3. CASE stack = <<"main", "timer">>
  <2>1. Len(stack) - 1 = 1 /\ Top = stack[2]
    BY <1>3 DEF Top
  <2> QED
    BY <2>1, StackMoves, <1>1, <1>3
<1>4. CASE stack = <<"main", "uart">>
  <2>1. Len(stack) - 1 = 1 /\ Top = stack[2]
    BY <1>4 DEF Top
  <2> QED
    BY <2>1, StackMoves, <1>1, <1>4
<1>5. CASE stack = <<"main", "timer", "uart">>
  <2>1. Len(stack) - 1 = 2 /\ Top = stack[3]
    BY <1>5 DEF Top
  <2> QED
    BY <2>1, StackMoves, <1>1, <1>5
<1> QED
  BY <1>2, <1>3, <1>4, <1>5 DEF Shapes

\* The two halves of the counter make up the counter.
LEMMA Halves ==
  ASSUME NEW n \in Nat
  PROVE  /\ n % Base \in 0..(Base - 1)
         /\ (n \div Base) * Base + (n % Base) = n
<1>1. Base \in Nat /\ Base > 0
  BY SysEventAssumption
<1> QED
  BY <1>1

-----------------------------------------------------------------------------
(* Inv holds from the start and through every step.                        *)

LEMMA InvInit == Init => Inv
<1> SUFFICES ASSUME Init PROVE Inv
  OBVIOUS
<1>1. Top = "main"
  BY DEF Init, Top
<1>2. TypeOK
  <2>1. at \in [Contexts -> Labels]
    BY DEF Init, Contexts, Labels
  <2>2. op \in [Contexts -> Ops]
    BY DEF Init, Ops, Op
  <2>3. step \in [Contexts -> Steps] /\ loaded \in [Contexts -> SUBSET Events]
    BY DEF Init, Steps
  <2>4. count \in 0..MaxCount /\ low \in 0..(Base - 1) /\ snapshot \in Nat
    BY SysEventAssumption DEF Init
  <2> QED
    BY <2>1, <2>2, <2>3, <2>4 DEF Init, TypeOK
<1>3. UartMasked /\ OffStack /\ CallsOwned
  BY DEF Init, UartMasked, OffStack, CallsOwned, UartOn, Contexts
<1>4. CriticalAlone /\ LoadedIsCurrent /\ Behind
  BY <1>1 DEF Init, CriticalAlone, LoadedIsCurrent, Behind, Critical, Contexts
<1> QED
  BY <1>2, <1>3, <1>4 DEF Inv

\* The steps of a sys_ function by the context that runs.
\* sys_cli() saves the interrupt flag.
LEMMA InvSaveI ==
  ASSUME Inv, NEW c \in Contexts, SaveI(c)
  PROVE  Inv'
<1>0. Top' = Top
  BY DEF SaveI, sysVars, Top
<1>1. TypeOK'
  BY Halves, SysEventAssumption
  DEF Inv, TypeOK, SaveI, To, sysVars, dataVars, Contexts, Steps, Events
<1>2. UartMasked' /\ OffStack'
  BY TopOfStack
  DEF Inv, TypeOK, UartMasked, OffStack, SaveI, To, sysVars, dataVars, Shapes,
      UartOn, TimerOn, Contexts
<1>3. CriticalAlone' /\ CallsOwned'
  BY <1>0 DEF Inv, TypeOK, CriticalAlone, CallsOwned, SaveI, To, sysVars, dataVars,
      Critical, Contexts
<1>4. LoadedIsCurrent' /\ Behind'
  BY <1>0 DEF Inv, TypeOK, CriticalAlone, LoadedIsCurrent, Behind, SaveI, To,
      sysVars, dataVars, Critical, Contexts
<1> QED
  BY <1>1, <1>2, <1>3, <1>4 DEF Inv

\* sys_cli() clears the interrupt flag.
LEMMA InvCli ==
  ASSUME Inv, NEW c \in Contexts, Cli(c)
  PROVE  Inv'
<1>0. Top' = Top
  BY DEF Cli, sysVars, Top
<1>1. TypeOK'
  BY Halves, SysEventAssumption
  DEF Inv, TypeOK, Cli, To, sysVars, dataVars, Contexts, Steps, Events
<1>2. UartMasked' /\ OffStack'
  BY TopOfStack
  DEF Inv, TypeOK, UartMasked, OffStack, Cli, To, sysVars, dataVars, Shapes,
      UartOn, TimerOn, Contexts
<1>3. CriticalAlone' /\ CallsOwned'
  BY <1>0 DEF Inv, TypeOK, CriticalAlone, CallsOwned, Cli, To, sysVars, dataVars,
      Critical, Contexts
<1>4. LoadedIsCurrent' /\ Behind'
  BY <1>0 DEF Inv, TypeOK, CriticalAlone, LoadedIsCurrent, Behind, Cli, To,
      sysVars, dataVars, Critical, Contexts
<1> QED
  BY <1>1, <1>2, <1>3, <1>4 DEF Inv

\* The access loads the value.
LEMMA InvLoad ==
  ASSUME Inv, NEW c \in Contexts, Load(c)
  PROVE  Inv'
<1>0. Top' = Top
  BY DEF Load, sysVars, Top
<1>1. TypeOK'
  <2>1. count \in Nat
    BY SysEventAssumption DEF Inv, TypeOK
  <2>2. low' \in 0..(Base - 1)
    BY <2>1, Halves DEF Inv, TypeOK, Load
  <2>3. loaded' \in [Contexts -> SUBSET Events]
    BY DEF Inv, TypeOK, Load
  <2> QED
    BY <2>2, <2>3 DEF Inv, TypeOK, Load, To, sysVars, errVars, Steps
<1>2. UartMasked' /\ OffStack'
  BY TopOfStack
  DEF Inv, TypeOK, UartMasked, OffStack, Load, To, sysVars, dataVars, Shapes,
      UartOn, TimerOn, Contexts
<1>3. CriticalAlone' /\ CallsOwned'
  BY <1>0 DEF Inv, TypeOK, CriticalAlone, CallsOwned, Load, To, sysVars, dataVars,
      Critical, Contexts
<1>4. LoadedIsCurrent' /\ Behind'
  BY <1>0 DEF Inv, TypeOK, CriticalAlone, LoadedIsCurrent, Behind, Load, To,
      sysVars, dataVars, Critical, Contexts
<1> QED
  BY <1>1, <1>2, <1>3, <1>4 DEF Inv

\* A store changes nothing but what it is meant to change, and the two halves
\* of the counter belong to the same value of it.
LEMMA StoreWrites ==
  ASSUME Inv, NEW c \in Contexts, Store(c)
  PROVE  /\ snapshot' \in {snapshot, count}
         /\ count' = count
         /\ op[c].kind = "set" => eventFlag' = eventFlag \cup {op[c].event}
         /\ op[c].kind = "clear" => eventFlag' = eventFlag \ {op[c].event}
         /\ op[c].kind = "read" => eventFlag' = eventFlag
<1>1. count \in Nat
  BY SysEventAssumption DEF Inv, TypeOK
<1>2. CASE op[c].kind = "read"
  BY <1>1, <1>2, Halves DEF Inv, LoadedIsCurrent, Store
<1>3. CASE op[c].kind # "read"
  BY <1>3 DEF Inv, LoadedIsCurrent, Store
<1> QED
  BY <1>2, <1>3

\* The access stores the value it loaded.
LEMMA InvStore ==
  ASSUME Inv, NEW c \in Contexts, Store(c)
  PROVE  Inv'
<1>0. Top' = Top
  BY DEF Store, sysVars, Top
<1>s. snapshot' \in {snapshot, count} /\ count' = count /\ count \in Nat
  <2>1. count \in Nat
    BY SysEventAssumption DEF Inv, TypeOK
  <2> QED BY <2>1, StoreWrites
<1>1. TypeOK'
  <2>1. eventFlag' \subseteq Events
    <3>1. op[c] \in Ops /\ loaded[c] \subseteq Events
      BY DEF Inv, TypeOK
    <3>2. op[c].kind = "set" => op[c].event \in Events
      BY <3>1 DEF Ops
    <3> QED
      BY <3>1, <3>2 DEF Inv, TypeOK, Store
  <2>2. loaded' \in [Contexts -> SUBSET Events] /\ low' \in 0..(Base - 1)
    BY SysEventAssumption DEF Inv, TypeOK, Store
  <2> QED
    BY <1>s, <2>1, <2>2 DEF Inv, TypeOK, Store, To, sysVars, errVars, Steps
<1>2. UartMasked' /\ OffStack'
  BY TopOfStack
  DEF Inv, TypeOK, UartMasked, OffStack, Store, To, sysVars, dataVars, Shapes,
      UartOn, TimerOn, Contexts
<1>3. CriticalAlone' /\ CallsOwned'
  BY <1>0 DEF Inv, TypeOK, CriticalAlone, CallsOwned, Store, To, sysVars, dataVars,
      Critical, Contexts
<1>4. LoadedIsCurrent' /\ Behind'
  <2>1. \A d \in Contexts : step'[d] # "store"
    BY DEF Inv, TypeOK, CriticalAlone, Store, To, Critical
  <2>2. Behind'
    BY <1>s, SysEventAssumption DEF Inv, TypeOK, Behind
  <2> QED
    BY <2>1, <2>2 DEF LoadedIsCurrent
<1> QED
  BY <1>1, <1>2, <1>3, <1>4 DEF Inv

\* sys_sei() tests the saved flag.
LEMMA InvRestore ==
  ASSUME Inv, NEW c \in Contexts, Restore(c)
  PROVE  Inv'
<1>0. Top' = Top
  BY DEF Restore, sysVars, Top
<1>1. TypeOK'
  BY Halves, SysEventAssumption
  DEF Inv, TypeOK, Restore, To, sysVars, dataVars, Contexts, Steps, Events
<1>2. UartMasked' /\ OffStack'
  BY TopOfStack
  DEF Inv, TypeOK, UartMasked, OffStack, Restore, To, sysVars, dataVars, Shapes,
      UartOn, TimerOn, Contexts
<1>3. CriticalAlone' /\ CallsOwned'
  BY <1>0 DEF Inv, TypeOK, CriticalAlone, CallsOwned, Restore, To, sysVars, dataVars,
      Critical, Contexts
<1>4. LoadedIsCurrent' /\ Behind'
  BY <1>0 DEF Inv, TypeOK, CriticalAlone, LoadedIsCurrent, Behind, Restore, To,
      sysVars, dataVars, Critical, Contexts
<1> QED
  BY <1>1, <1>2, <1>3, <1>4 DEF Inv

\* sys_sei() sets the interrupt flag.
LEMMA InvSei ==
  ASSUME Inv, NEW c \in Contexts, Sei(c)
  PROVE  Inv'
<1>0. Top' = Top
  BY DEF Sei, sysVars, Top
<1>1. TypeOK'
  BY Halves, SysEventAssumption
  DEF Inv, TypeOK, Sei, To, sysVars, dataVars, Contexts, Steps, Events
<1>2. UartMasked' /\ OffStack'
  BY TopOfStack
  DEF Inv, TypeOK, UartMasked, OffStack, Sei, To, sysVars, dataVars, Shapes,
      UartOn, TimerOn, Contexts
<1>3. CriticalAlone' /\ CallsOwned'
  BY <1>0 DEF Inv, TypeOK, CriticalAlone, CallsOwned, Sei, To, sysVars, dataVars,
      Critical, Contexts
<1>4. LoadedIsCurrent' /\ Behind'
  BY <1>0 DEF Inv, TypeOK, CriticalAlone, LoadedIsCurrent, Behind, Sei, To,
      sysVars, dataVars, Critical, Contexts
<1> QED
  BY <1>1, <1>2, <1>3, <1>4 DEF Inv

OpsOf(c) == CASE c = "main" -> MainOps [] c = "timer" -> TimerOps [] OTHER -> UartOps

\* Whatever a context does in its own code, and whichever sys_ function it
\* calls next, no critical section is open.
LEMMA InvOwnCode ==
  ASSUME Inv, NEW c \in Contexts, NEW l \in Labels, NEW o \in OpsOf(c),
         Top = c, step[c] = "none", Call(c, o, l) \/ Goto(c, l),
         UNCHANGED <<sysVars, eventFlag, loaded, low, snapshot>>,
         errSeen' \in BOOLEAN, damaged' \in BOOLEAN, count' \in {count, count + 1}, count' <= MaxCount
  PROVE  Inv'
<1>0. Top' = Top
  BY DEF sysVars, Top
<1>1. o \in Ops
  BY DEF OpsOf, MainOps, TimerOps, UartOps, Ops, Op, Events, Done, Contexts
<1>2. /\ step' \in [Contexts -> {step[d] : d \in Contexts} \cup {"mark", "unmark"}]
      /\ \A d \in Contexts \ {c} : step'[d] = step[d] /\ op'[d] = op[d]
      /\ step'[c] \in {"none", "mark", "unmark"}
      /\ step'[c] # "none" => op'[c] = o /\ (step'[c] = "mark" => iflag)
  BY DEF Inv, TypeOK, Call, Goto
<1>3. TypeOK'
  <2>1. /\ at' \in [Contexts -> Labels] /\ op' \in [Contexts -> Ops]
        /\ step' \in [Contexts -> Steps]
    BY <1>1 DEF Inv, TypeOK, Call, Goto, Steps
  <2>2. count' \in 0..MaxCount
    BY SysEventAssumption DEF Inv, TypeOK
  <2> QED
    BY <2>1, <2>2 DEF Inv, TypeOK, sysVars
<1>4. UartMasked' /\ OffStack'
  BY <1>2, TopOfStack
  DEF Inv, TypeOK, UartMasked, OffStack, sysVars, Shapes, UartOn, TimerOn, Contexts
<1>5. CallsOwned'
  BY <1>2 DEF Inv, CallsOwned, OpsOf, Contexts
<1>6. \A d \in Contexts : step'[d] \notin Critical
  BY <1>2 DEF Inv, CriticalAlone, Critical
<1>7. CriticalAlone' /\ LoadedIsCurrent'
  BY <1>6 DEF CriticalAlone, LoadedIsCurrent, Critical
<1>8. Behind'
  BY SysEventAssumption DEF Inv, TypeOK, Behind
<1> QED
  BY <1>3, <1>4, <1>5, <1>7, <1>8 DEF Inv

LEMMA InvMain ==
  ASSUME Inv, MainStep
  PROVE  Inv'
<1>1. /\ "main" \in Contexts /\ {"scan", "switch", "poll", "frame", "answered"} \subseteq Labels
      /\ {Op("set", "ERROR"), Op("set", "FRAME"), Op("read", "none"), Done}
           = OpsOf("main")
      /\ errSeen \in BOOLEAN /\ count <= MaxCount /\ damaged \in BOOLEAN
  BY SysEventAssumption DEF Contexts, Labels, OpsOf, MainOps, Inv, TypeOK
<1>2. CASE MainScan
  BY <1>1, <1>2, InvOwnCode DEF MainScan, Runs, sysVars, dataVars
<1>3. CASE MainSwitch
  BY <1>1, <1>3, InvOwnCode DEF MainSwitch, Runs, sysVars
<1>4. CASE MainPoll
  BY <1>1, <1>4, InvOwnCode DEF MainPoll, Runs, sysVars, dataVars
<1>5. CASE MainFrame
  BY <1>1, <1>5, InvOwnCode DEF MainFrame, Damaged, Runs, sysVars, errVars
<1>6. CASE MainAnswered
  BY <1>1, <1>6, InvOwnCode DEF MainAnswered, Runs, sysVars, dataVars
<1> QED
  BY <1>2, <1>3, <1>4, <1>5, <1>6 DEF MainStep

LEMMA InvTimer ==
  ASSUME Inv, TimerTask \/ TimerTask128 \/ TimerLed
  PROVE  Inv'
<1>1. /\ "timer" \in Contexts /\ {"return", "led"} \subseteq Labels
      /\ {Op("clear", "FRAME"), Op("clear", "ERROR")} = OpsOf("timer")
      /\ errSeen \in BOOLEAN /\ damaged \in BOOLEAN /\ count \in 0..MaxCount
  BY SysEventAssumption DEF Contexts, Labels, OpsOf, TimerOps, Inv, TypeOK
<1>2. CASE TimerTask
  BY <1>1, <1>2, InvOwnCode, SysEventAssumption DEF TimerTask, Runs, sysVars, errVars
<1>3. CASE TimerTask128
  BY <1>1, <1>3, InvOwnCode DEF TimerTask128, Runs, sysVars, dataVars
<1>4. CASE TimerLed
  BY <1>1, <1>4, InvOwnCode DEF TimerLed, Runs, sysVars, dataVars
<1> QED
  BY <1>2, <1>3, <1>4

LEMMA InvUart ==
  ASSUME Inv, UartByte
  PROVE  Inv'
<1>1. /\ "uart" \in Contexts /\ "return" \in Labels
      /\ {Op("set", "BUSY")} = OpsOf("uart")
      /\ errSeen \in BOOLEAN /\ count <= MaxCount /\ damaged \in BOOLEAN
  BY SysEventAssumption DEF Contexts, Labels, OpsOf, UartOps, Inv, TypeOK
<1> QED
  BY <1>1, InvOwnCode DEF UartByte, Damaged, Runs, sysVars, errVars

\* An interrupt comes while interrupts are enabled: no critical section is open.
LEMMA InvEnter ==
  ASSUME Inv, TimerEnter \/ UartEnter
  PROVE  Inv'
<1>1. stack \in Shapes /\ UartMasked
  BY DEF Inv, TypeOK, Shapes
<1>2. \A d \in Contexts : step[d] \notin Critical
  BY DEF Inv, CriticalAlone, TimerEnter, UartEnter, Enter
<1>3. /\ UNCHANGED <<step, op, savedI, dataVars>>
      /\ at' \in [Contexts -> Labels] /\ iflag' \in BOOLEAN
  BY DEF Inv, TypeOK, TimerEnter, UartEnter, Enter, Goto, Labels
<1>4. stack' \in Shapes /\ UartMasked' /\ OffStack'
  <2>1. CASE TimerEnter
    BY <1>1, <1>3, <2>1, TimerInterruptsMain
    DEF Inv, OffStack, Shapes, UartMasked, TimerOn, UartOn
  <2>2. CASE UartEnter
    <3>1. ~iflag'
      BY <2>2 DEF UartEnter, Enter
    <3>2. step'["uart"] = "none"
      BY <1>1, <1>3, <2>2, UartInterrupts DEF Inv, OffStack, UartOn
    <3>3. TimerOn' <=> TimerOn
      BY <1>1, <2>2, UartInterrupts DEF TimerOn
    <3> QED
      BY <1>1, <1>3, <2>2, <3>1, <3>2, <3>3, UartInterrupts
      DEF Inv, OffStack, Shapes, UartMasked
  <2> QED
    BY <2>1, <2>2
<1>5. TypeOK'
  BY <1>3, <1>4 DEF Inv, TypeOK, Shapes, dataVars
<1>6. CriticalAlone' /\ LoadedIsCurrent' /\ CallsOwned' /\ Behind'
  BY <1>2, <1>3
  DEF Inv, CriticalAlone, LoadedIsCurrent, CallsOwned, Behind, Critical, dataVars
<1> QED
  BY <1>4, <1>5, <1>6 DEF Inv

\* An interrupt returns from its own code, outside of any critical section.
LEMMA InvReturn ==
  ASSUME Inv, NEW c \in {"timer", "uart"}, Return(c)
  PROVE  Inv'
<1>1. stack \in Shapes
  BY DEF Inv, TypeOK, Shapes
<1>2. \A d \in Contexts : step[d] \notin Critical
  BY DEF Inv, CriticalAlone, Return, Runs, Critical
<1>3. UNCHANGED <<step, op, at, savedI, dataVars>> /\ step[c] = "none"
  BY DEF Return, Runs, callVars
<1>4. stack' \in Shapes /\ UartMasked' /\ OffStack'
  <2>1. ~UartOn' /\ stack' \in Shapes
    BY <1>1, ReturnsBelow DEF UartOn, Shapes
  <2>2. ~TimerOn' => step["timer"] = "none"
    BY <1>1, <1>3, ReturnsBelow DEF Inv, OffStack, TimerOn
  <2>3. step["uart"] = "none"
    BY <1>1, <1>3, ReturnsBelow DEF Inv, OffStack, UartOn
  <2> QED
    BY <1>3, <2>1, <2>2, <2>3 DEF UartMasked, OffStack
<1>5. TypeOK'
  BY <1>3, <1>4 DEF Inv, TypeOK, Shapes, dataVars, Return
<1>6. CriticalAlone' /\ LoadedIsCurrent' /\ CallsOwned' /\ Behind'
  BY <1>2, <1>3
  DEF Inv, CriticalAlone, LoadedIsCurrent, CallsOwned, Behind, Critical, dataVars
<1> QED
  BY <1>4, <1>5, <1>6 DEF Inv

LEMMA InvNext == Inv /\ [Next]_vars => Inv'
<1> SUFFICES ASSUME Inv, [Next]_vars PROVE Inv'
  OBVIOUS
<1>1. ASSUME NEW c \in Contexts, Protected(c) PROVE Inv'
  BY <1>1, InvSaveI, InvCli, InvLoad, InvStore, InvRestore, InvSei DEF Protected
<1>2. CASE MainStep
  BY <1>2, InvMain
<1>3. CASE TimerStep
  BY <1>3, InvTimer, InvReturn DEF TimerStep
<1>4. CASE UartStep
  BY <1>4, InvUart, InvReturn DEF UartStep
<1>5. CASE TimerEnter \/ UartEnter
  BY <1>5, InvEnter
<1>6. CASE UNCHANGED vars
  BY <1>6
  DEF Inv, TypeOK, UartMasked, OffStack, CriticalAlone, CallsOwned,
      LoadedIsCurrent, Behind, UartOn, TimerOn, Top, vars, sysVars, callVars, dataVars
<1> QED
  BY <1>1, <1>2, <1>3, <1>4, <1>5, <1>6 DEF Next

LEMMA InvAlways == Spec => []Inv
<1>1. Init => Inv
  BY InvInit
<1>2. Inv /\ [Next]_vars => Inv'
  BY InvNext
<1> QED
  BY <1>1, <1>2, PTL DEF Spec

-----------------------------------------------------------------------------
(* The results.                                                            *)

\* Every reachable state of the firmware is well formed: interrupts nest in
\* one of three ways and the halves of the counter stay in their range.
THEOREM TypeCorrect == Spec => []TypeOK
<1>1. Inv => TypeOK
  BY DEF Inv
<1> QED
  BY <1>1, InvAlways, PTL

\* sys_cli() and sys_sei() protect every access, however interrupts nest and
\* whatever becomes of the flag they save.
THEOREM AccessesAreAtomic == Spec => []LoadedIsCurrent
<1>1. Inv => LoadedIsCurrent
  BY DEF Inv
<1> QED
  BY <1>1, InvAlways, PTL

\* Nothing but a store writes the events and the copy of the counter.
LEMMA OnlyStoresWrite ==
  ASSUME [Next]_vars
  PROVE  \/ \E c \in Contexts : Store(c)
         \/ UNCHANGED <<eventFlag, snapshot>>
<1>1. ASSUME NEW c \in Contexts, Protected(c), ~Store(c)
      PROVE  UNCHANGED <<eventFlag, snapshot>>
  BY <1>1 DEF Protected, SaveI, Cli, Load, Restore, Sei, dataVars
<1>2. CASE MainStep
  BY <1>2 DEF MainStep, MainScan, MainSwitch, MainPoll, MainFrame, MainAnswered,
              dataVars
<1>3. CASE TimerStep \/ UartStep
  BY <1>3 DEF TimerStep, TimerTask, TimerTask128, TimerLed, UartStep, UartByte,
              Return, dataVars
<1>4. CASE TimerEnter \/ UartEnter
  BY <1>4 DEF TimerEnter, UartEnter, Enter, dataVars
<1>5. CASE UNCHANGED vars
  BY <1>5 DEF vars, dataVars
<1> QED
  BY <1>1, <1>2, <1>3, <1>4, <1>5 DEF Next

\* The energy that is sent never runs ahead of the meter and never goes back,
\* whatever the width of the halves and wherever the counter stops.
THEOREM EnergyNeverBack == Spec => EnergyMonotonic
<1>1. ASSUME Inv, Inv', [Next]_vars
      PROVE  [snapshot' >= snapshot /\ snapshot' <= count']_vars
  <2>1. snapshot' \in {snapshot, count}
    BY <1>1, OnlyStoresWrite, StoreWrites, Zenon
  <2>2. snapshot \in Nat /\ count \in Nat /\ snapshot <= count /\ snapshot' <= count'
    BY <1>1, SysEventAssumption DEF Inv, TypeOK, Behind
  <2> QED
    BY <2>1, <2>2
<1> QED
  BY <1>1, InvAlways, PTL DEF Spec, EnergyMonotonic

\* An event appears only when its producer stores it and disappears only when
\* its consumer does, however the three contexts interleave.
THEOREM EventsHaveOwners == Spec => EventsOwned
<1> DEFINE Owned ==
      /\ "BUSY" \in eventFlag /\ "BUSY" \notin eventFlag' =>
           op["main"] = Done /\ step["main"] = "store"
      /\ "BUSY" \notin eventFlag /\ "BUSY" \in eventFlag' =>
           op["uart"] = Op("set", "BUSY") /\ step["uart"] = "store"
      /\ \A e \in {"FRAME", "ERROR"} :
           /\ e \in eventFlag /\ e \notin eventFlag' =>
                op["timer"] = Op("clear", e) /\ step["timer"] = "store"
           /\ e \notin eventFlag /\ e \in eventFlag' =>
                op["main"] = Op("set", e) /\ step["main"] = "store"
<1>1. ASSUME Inv, NEW c \in Contexts, Store(c)
      PROVE  Owned
  <2>1. step[c] = "store"
    BY <1>1 DEF Store
  <2>2. CASE c = "main"
    <3>1. op[c] \in MainOps
      BY <1>1, <2>1, <2>2 DEF Inv, CallsOwned
    <3> QED
      BY <1>1, <2>1, <2>2, <3>1, StoreWrites DEF MainOps, Op, Done
  <2>3. CASE c = "timer"
    <3>1. op[c] \in TimerOps
      BY <1>1, <2>1, <2>3 DEF Inv, CallsOwned
    <3> QED
      BY <1>1, <2>1, <2>3, <3>1, StoreWrites DEF TimerOps, Op
  <2>4. CASE c = "uart"
    <3>1. op[c] \in UartOps
      BY <1>1, <2>1, <2>4 DEF Inv, CallsOwned
    <3> QED
      BY <1>1, <2>1, <2>4, <3>1, StoreWrites DEF UartOps, Op
  <2> QED
    BY <2>2, <2>3, <2>4 DEF Contexts
<1>2. ASSUME eventFlag' = eventFlag
      PROVE  Owned
  BY <1>2
<1>3. ASSUME Inv, [Next]_vars
      PROVE  [Owned]_vars
  BY <1>1, <1>2, <1>3, OnlyStoresWrite
<1> QED
  BY <1>3, InvAlways, PTL DEF Spec, EventsOwned

-----------------------------------------------------------------------------
(* As long as no byte is damaged, the main loop keeps interrupts enabled.  *)

LEMMA DamageStays ==
  ASSUME Inv, [Next]_vars, damaged
  PROVE  damaged'
BY DEF Next, Protected, SaveI, Cli, Load, Store, Restore, Sei, MainStep, MainScan, MainSwitch,
   MainPoll, MainFrame, MainAnswered, TimerEnter, UartEnter, Enter, TimerStep, TimerTask,
   TimerTask128, TimerLed, UartStep, UartByte, Return, Damaged, errVars, vars, dataVars

LEMMA CalmInit == Init => Calm
<1> SUFFICES ASSUME Init PROVE Calm
  OBVIOUS
<1>1. Top = "main" /\ step["main"] = "none" /\ at["main"] = "scan"
  BY DEF Init, Top, Contexts
<1> QED
  BY <1>1
  DEF Init, Calm, MainRunsEnabled, BusyKept, NotTorn, MainSaved, Critical

\* A store of another context leaves BUSY in place, unless it sets it.
LEMMA BusyStays ==
  ASSUME Inv, NEW c \in Contexts, Store(c), "BUSY" \in eventFlag,
         c = "main" => op["main"] # Done
  PROVE  "BUSY" \in eventFlag'
<1>1. step[c] = "store"
  BY DEF Store
<1>2. CASE c = "main"
  BY <1>1, <1>2, StoreWrites DEF Inv, CallsOwned, MainOps, Op
<1>3. CASE c = "timer"
  BY <1>1, <1>3, StoreWrites DEF Inv, CallsOwned, TimerOps, Op
<1>4. CASE c = "uart"
  BY <1>1, <1>4, StoreWrites DEF Inv, CallsOwned, UartOps, Op
<1> QED
  BY <1>2, <1>3, <1>4 DEF Contexts

LEMMA CalmProtected ==
  ASSUME Inv, Calm, NEW c \in Contexts, Protected(c)
  PROVE  Calm'
<1>0. Top' = Top /\ stack' = stack /\ at' = at /\ op' = op /\ errSeen' = errSeen /\ Top = c
  BY DEF Protected, SaveI, Cli, Load, Store, Restore, Sei, To, sysVars, dataVars, errVars, Top
<1>1. step \in [Contexts -> Steps]
  BY DEF Inv, TypeOK
<1>2. CASE SaveI(c)
  <2>1. /\ step[c] \in {"mark", "unmark"} /\ savedI' = (step[c] = "mark")
        /\ step' = [step EXCEPT ![c] = "cli"]
        /\ UNCHANGED <<iflag, eventFlag>>
    BY <1>2 DEF SaveI, To, dataVars
  <2>2. MainSaved' /\ MainRunsEnabled' /\ BusyKept'
    BY <1>0, <1>1, <2>1
    DEF Calm, MainRunsEnabled, BusyKept, MainSaved, Critical, Contexts,
        Inv, CriticalAlone
  <2>3. NotTorn'
    <3>1. CASE c = "main"
      BY <1>0, <1>1, <2>1, <3>1
      DEF Calm, NotTorn, MainSaved, Contexts, Inv, TypeOK, OffStack
    <3>2. CASE c = "timer"
      BY <1>0, <1>1, <2>1, <3>2 DEF Calm, NotTorn, Contexts
    <3>3. CASE c = "uart"
      BY <1>0, <1>1, <2>1, <3>3 DEF Calm, NotTorn, Contexts
    <3> QED
      BY <3>1, <3>2, <3>3 DEF Contexts
  <2> QED
    BY <1>0, <2>2, <2>3 DEF Calm
<1>3. CASE Cli(c)
  BY <1>0, <1>1, <1>3
  DEF Inv, Calm, MainRunsEnabled, BusyKept, NotTorn, MainSaved, Critical, Cli, To,
      dataVars, Contexts
<1>4. CASE Load(c)
  BY <1>0, <1>1, <1>4
  DEF Inv, Calm, MainRunsEnabled, BusyKept, NotTorn, MainSaved, Critical, Load, To,
      sysVars, Contexts
<1>5. CASE Store(c)
  <2>1. BusyKept'
    BY <1>0, <1>1, <1>5, BusyStays
    DEF Inv, Calm, BusyKept, Store, To, Contexts
  <2>2. NotTorn'
    BY <1>0, <1>1, <1>5, BusyStays
    DEF Inv, Calm, NotTorn, Store, To, sysVars, Contexts
  <2> QED
    BY <1>0, <1>1, <1>5, <2>1, <2>2
    DEF Calm, MainRunsEnabled, MainSaved, Critical, Store, To, sysVars, Contexts
<1>6. CASE Restore(c)
  BY <1>0, <1>1, <1>6
  DEF Inv, Calm, MainRunsEnabled, BusyKept, NotTorn, MainSaved, Critical, Restore, To,
      sysVars, dataVars, Contexts
<1>7. CASE Sei(c)
  BY <1>0, <1>1, <1>7
  DEF Inv, Calm, MainRunsEnabled, BusyKept, NotTorn, MainSaved, Critical, Sei, To,
      dataVars, Contexts
<1> QED
  BY <1>2, <1>3, <1>4, <1>5, <1>6, <1>7 DEF Protected

LEMMA CalmMain ==
  ASSUME ~damaged', Inv, Calm, MainStep
  PROVE  Calm'
<1>0. /\ Top = "main" /\ Top' = Top /\ eventFlag' = eventFlag /\ step["main"] = "none"
      /\ iflag /\ iflag' = iflag /\ savedI' = savedI
      /\ step["timer"] = "none" /\ step["uart"] = "none" /\ stack \in Shapes
  <2>1. stack \in Shapes /\ Top = "main" /\ UNCHANGED <<stack, eventFlag, iflag, savedI>>
        /\ step["main"] = "none"
    BY DEF MainStep, MainScan, MainSwitch, MainPoll, MainFrame, MainAnswered, Runs,
           sysVars, dataVars, Inv, TypeOK, Shapes
  <2>2. iflag /\ ~TimerOn /\ ~UartOn
    BY <2>1, TopOfStack DEF Calm, MainRunsEnabled, TimerOn, UartOn
  <2> QED
    BY <2>1, <2>2 DEF Inv, OffStack, Top
<1>1. step \in [Contexts -> Steps] /\ op \in [Contexts -> Ops]
      /\ at \in [Contexts -> Labels] /\ "main" \in Contexts
  BY DEF Inv, TypeOK, Contexts
<1>2. /\ step'["timer"] = "none" /\ step'["uart"] = "none"
      /\ step'["main"] \in {"none", "mark"}
      /\ ~errSeen'
  <2>1. step' \in {step, [step EXCEPT !["main"] = "mark"]}
    BY <1>0, <1>1
    DEF MainStep, MainScan, MainSwitch, MainPoll, MainFrame, MainAnswered, Call, Goto
  <2>2. ~errSeen'
    BY DEF MainStep, MainScan, MainSwitch, MainPoll, MainFrame, MainAnswered, Damaged,
           errVars, Calm, dataVars
  <2> QED
    BY <1>0, <1>1, <2>1, <2>2 DEF Contexts
<1>3. /\ at'["main"] \in {"frame", "answered"} \/ step'["main"] = "mark" =>
           "BUSY" \in eventFlag
      /\ at'["main"] \in {"frame", "answered"} /\ step'["main"] = "mark" =>
           op'["main"] # Done
  <2>1. CASE MainScan
    BY <1>1, <2>1 DEF MainScan, Goto, Calm, Runs
  <2>2. CASE MainSwitch
    BY <1>1, <2>2 DEF MainSwitch, Goto, Runs
  <2>3. CASE MainPoll
    BY <1>1, <2>3 DEF MainPoll, Goto, Call, Op, Done, Runs
  <2>4. CASE MainFrame
    BY <1>1, <2>4 DEF MainFrame, Goto, Call, Op, Done, Runs, Calm, BusyKept
  <2>5. CASE MainAnswered
    BY <1>1, <2>5 DEF MainAnswered, Call, Runs, Calm, BusyKept
  <2> QED
    BY <2>1, <2>2, <2>3, <2>4, <2>5 DEF MainStep
<1> QED
  BY <1>0, <1>2, <1>3
  DEF Calm, MainRunsEnabled, BusyKept, NotTorn, MainSaved, Critical

\* A task calls a sys_ function with interrupts enabled when main waits between
\* the halves of its own sys_cli().
LEMMA CalmTimer ==
  ASSUME Inv, Calm, TimerTask \/ TimerTask128 \/ TimerLed
  PROVE  Calm'
<1>0. /\ Top = "timer" /\ Top' = Top /\ step["timer"] = "none"
      /\ UNCHANGED <<stack, eventFlag, iflag, savedI, errSeen>>
      /\ step' \in {step, [step EXCEPT !["timer"] = IF iflag THEN "mark" ELSE "unmark"]}
      /\ at'["main"] = at["main"] /\ op'["main"] = op["main"]
  BY DEF TimerTask, TimerTask128, TimerLed, Call, Goto, Runs, sysVars, dataVars, errVars, Top,
         Inv, TypeOK, Contexts
<1>1. step \in [Contexts -> Steps]
  BY DEF Inv, TypeOK
<1>2. NotTorn'
  BY <1>0, <1>1 DEF Calm, NotTorn, Contexts
<1> QED
  BY <1>0, <1>1, <1>2
  DEF Calm, MainRunsEnabled, BusyKept, MainSaved, Critical, Contexts

\* USART1 calls no sys_ function while BUSY is pending.
LEMMA CalmUart ==
  ASSUME ~damaged', Inv, Calm, UartByte
  PROVE  Calm'
<1>0. /\ Top = "uart" /\ Top' = Top
      /\ UNCHANGED <<stack, eventFlag, iflag, savedI>>
      /\ step'["main"] = step["main"] /\ step'["timer"] = step["timer"]
      /\ "BUSY" \in eventFlag => step'["uart"] = step["uart"]
      /\ at'["main"] = at["main"] /\ op'["main"] = op["main"]
  BY DEF UartByte, TakesByte, Call, Goto, Runs, sysVars, Top, Inv, TypeOK, Contexts
<1>1. ~errSeen'
  BY DEF UartByte, Damaged, errVars, Calm
<1>2. NotTorn'
  BY <1>0 DEF Calm, NotTorn
<1> QED
  BY <1>0, <1>1, <1>2 DEF Calm, MainRunsEnabled, BusyKept, MainSaved, Critical

LEMMA CalmEnter ==
  ASSUME Inv, Calm, TimerEnter \/ UartEnter
  PROVE  Calm'
<1>1. /\ UNCHANGED <<step, op, savedI, eventFlag, errSeen>>
      /\ at'["main"] = at["main"]
      /\ iflag
      /\ stack \in Shapes /\ UartMasked
  BY DEF TimerEnter, UartEnter, Enter, Goto, dataVars, Inv, TypeOK, Contexts, Shapes
<1>2. /\ TimerEnter => Top' = "timer" /\ iflag'
      /\ UartEnter /\ ~TimerEnter => Top' = "uart"
  <2>1. CASE TimerEnter
    <3>1. stack' = <<"main", "timer">> /\ iflag'
      BY <1>1, <2>1, TimerInterruptsMain DEF TimerEnter, Enter
    <3>2. UartEnter => stack' \in {<<"main", "uart">>, <<"main", "timer", "uart">>}
      BY <1>1, UartInterrupts
    <3> QED
      BY <3>1, <3>2 DEF Top
  <2>2. CASE UartEnter
    <3>1. Top' = "uart"
      <4>1. CASE stack' = <<"main", "uart">>
        BY <4>1 DEF Top
      <4>2. CASE stack' = <<"main", "timer", "uart">>
        BY <4>2 DEF Top
      <4> QED
        BY <1>1, <2>2, <4>1, <4>2, UartInterrupts
    <3>2. ~iflag'
      BY <2>2 DEF UartEnter, Enter
    <3> QED
      BY <3>1, <3>2 DEF TimerEnter, Enter
  <2> QED
    BY <1>1, <2>1, <2>2
<1>3. Top' # "main" /\ (Top' = "timer" => iflag')
  BY <1>2
<1> QED
  BY <1>1, <1>3 DEF Calm, MainRunsEnabled, BusyKept, NotTorn, MainSaved, Critical

LEMMA CalmReturn ==
  ASSUME Inv, Calm, NEW c \in {"timer", "uart"}, Return(c)
  PROVE  Calm'
<1>1. UNCHANGED <<step, op, at, savedI, eventFlag, errSeen>> /\ iflag'
  BY DEF Return, callVars, dataVars
<1> QED
  BY <1>1 DEF Calm, MainRunsEnabled, BusyKept, NotTorn, MainSaved, Critical

\* As long as no byte is damaged and none comes while a frame is handled, the main loop runs
\* its own code with interrupts enabled.  (Afterwards it need not, as a run of SysEvent shows.)
THEOREM MainStaysEnabled == Spec => []EnabledUntilDamage
<1>1. ASSUME Inv, damaged \/ Calm, [Next]_vars
      PROVE  damaged' \/ Calm'
  <2> SUFFICES ASSUME ~damaged' PROVE Calm'
    OBVIOUS
  <2>0. Calm
    BY <1>1, DamageStays
  <2>1. ASSUME NEW c \in Contexts, Protected(c) PROVE Calm'
    BY <1>1, <2>0, <2>1, CalmProtected
  <2>2. CASE MainStep
    BY <1>1, <2>0, <2>2, CalmMain
  <2>3. CASE TimerStep
    BY <1>1, <2>0, <2>3, CalmTimer, CalmReturn DEF TimerStep
  <2>4. CASE UartStep
    BY <1>1, <2>0, <2>4, CalmUart, CalmReturn DEF UartStep
  <2>5. CASE TimerEnter \/ UartEnter
    BY <1>1, <2>0, <2>5, CalmEnter
  <2>6. CASE UNCHANGED vars
    BY <1>1, <2>0, <2>6
    DEF Calm, MainRunsEnabled, BusyKept, NotTorn, MainSaved, Critical, Top,
        vars, sysVars, callVars, dataVars
  <2> QED
    BY <1>1, <2>1, <2>2, <2>3, <2>4, <2>5, <2>6 DEF Next
<1>2. Init => Calm
  BY CalmInit
<1>3. (damaged \/ Calm) => EnabledUntilDamage
  BY DEF Calm, EnabledUntilDamage
<1> QED
  BY <1>1, <1>2, <1>3, InvAlways, PTL DEF Spec

=============================================================================
