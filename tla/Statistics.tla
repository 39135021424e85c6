----------------------------- MODULE Statistics -----------------------------
(***************************************************************************)
(* Statistics: the records of the Monitor are gathered into a slot, and    *)
(* when the timer fires the slot becomes a line of the CSV file of its     *)
(* day.  The line is appended without waiting for the append before.       *)
(*                                                                         *)
(* One of the five columns of values is followed; the others are treated   *)
(* the same.  A reading is NaN until the heater was read for the first     *)
(* time.                                                                   *)
(***************************************************************************)
EXTENDS DataRecords, Sequences, FiniteSets

CONSTANTS Readings,     \* what a record of the Monitor may hold
          Days,         \* the days of a run, 0..n
          NoSlot,       \* _current = null
          Parts,        \* a mean is kept in whole parts, 1 / Parts of the unit
          MaxRecords,   \* bound: records of the Monitor
          MaxAppends,   \* bound: appends under way
          MaxCrashes    \* bound: restarts of the process

ASSUME ReadingsAssumption == Readings \subseteq Int \cup {NaN}
ASSUME DaysAssumption == 0 \in Days /\ Days \subseteq Nat

ASSUME BoundAssumption == MaxRecords \in Nat

\* The parts are fine enough for the mean of all readings a slot may get.
ASSUME MeanAssumption == Parts \in Nat \ {0} /\ \A n \in 1..MaxRecords : Parts % n = 0

Values == Int \cup {NaN}
Slots  == [count : Nat, day : Days, from : Nat \ {0}, min : Values, avg : Values, max : Values]

ASSUME SlotAssumption == NoSlot \notin Slots

VARIABLES
  current,        \* the slot, or NoSlot
  recordCount,    \* _handleMonitorRecordCount
  appends,        \* the calls of fs.appendFile that are under way
  files,          \* the file of each day: its complete rows
  torn,           \* days whose file ends with a row that was written in part
  day,
  \* history
  received,       \* records received
  slotReadings,   \* the readings of the slot
  lost,           \* numbers of the records whose line was not written, or spoilt
  overlapped,     \* days on which an append began while another was under way
  spoilt,         \* days on which an append failed after it had created the file
  crashes

slotVars    == <<current, recordCount, slotReadings, received>>
historyVars == <<lost, overlapped, spoilt, crashes>>
vars == <<slotVars, appends, files, torn, day, historyVars>>

\* The sum of a sequence of numbers.
Total(xs) ==
  LET sums[n \in 0..Len(xs)] == IF n = 0 THEN 0 ELSE sums[n - 1] + xs[n] IN sums[Len(xs)]

(***************************************************************************)
(* The header of the file, CSVHEADER, and the columns that toHeader and    *)
(* toLine make of it.                                                      *)
(***************************************************************************)
RecordItem == [isRecordItem |-> TRUE, isSingleValue |-> FALSE, hidden |-> 0]
ValueItem(hidden) == [isRecordItem |-> FALSE, isSingleValue |-> FALSE, hidden |-> hidden]

CsvHeader == <<RecordItem, RecordItem, RecordItem, ValueItem(0), ValueItem(0), ValueItem(0),
               ValueItem(2), ValueItem(2)>>

Columns(of(_)) == Total([i \in 1..Len(CsvHeader) |-> of(CsvHeader[i])])

ToHeader == LET columns(h) == IF h.isRecordItem THEN 1
                              ELSE IF h.isSingleValue THEN 2 ELSE 3 - h.hidden
            IN  Columns(columns)

\* formatLineFragment looks at the hidden columns only.
ToLine == LET columns(h) == IF h.isRecordItem THEN 1 ELSE 3 - h.hidden IN Columns(columns)

(***************************************************************************)
(* StatisticsRecordFactory.addMonitorRecord.  avg is kept in parts.        *)
(***************************************************************************)
NewSlot == [count |-> 0, day |-> day, from |-> received + 1, min |-> NaN, avg |-> NaN, max |-> NaN]

\* Mutant of CalcMinimum: the first reading is the minimum, also when it is NaN.
MinimumFromFirst(min, x) == IF Less(x, min) THEN x ELSE min

CalcMinimum(min, x) == IF min = NaN \/ Less(x, min) THEN x ELSE min
CalcMaximum(max, x) == IF max = NaN \/ Less(max, x) THEN x ELSE max

CalcAverage(avg, count, x) ==
  IF avg = NaN THEN (IF x = NaN THEN NaN ELSE Parts * x)
  ELSE IF x = NaN THEN NaN
  ELSE (avg * count + Parts * x) \div (count + 1)

WithReading(slot, x) ==
  [slot EXCEPT !.count = @ + 1,
               !.min = CalcMinimum(@, x),
               !.avg = CalcAverage(@, slot.count, x),
               !.max = CalcMaximum(@, x)]

\* The records that a slot was made of, from the first to the last one.
Records(slot) == slot.from .. slot.from + slot.count - 1

InSlot == IF current = NoSlot THEN {} ELSE Records(current)

UnderWay == UNION {Records(a.slot) : a \in appends}

Init ==
  /\ current = NoSlot /\ recordCount = 0 /\ slotReadings = <<>> /\ received = 0
  /\ appends = {}
  /\ files = [d \in Days |-> [exists |-> FALSE, lines |-> <<>>]] /\ torn = {}
  /\ day = 0
  /\ lost = {} /\ overlapped = {} /\ spoilt = {} /\ crashes = 0

HandleMonitorRecord(x) ==
  /\ received < MaxRecords
  /\ received' = received + 1
  /\ recordCount' = recordCount + 1
  /\ current' = WithReading(IF current = NoSlot THEN NewSlot ELSE current, x)
  /\ slotReadings' = Append(slotReadings, x)
  /\ UNCHANGED <<appends, files, torn, day, historyVars>>

(***************************************************************************)
(* handleTimer, writeToCsvFile and writeToFile: the queue of lines is      *)
(* empty whenever they run, as the line is taken off it at once.  Whether  *)
(* the file exists is looked up now, it is created by the append.          *)
(***************************************************************************)
Header == [columns |-> ToHeader, header |-> TRUE]

\* Mutants of HandleTimer: the slot is kept; a slot of one record waits; the header is
\* written while no append is under way.
TimerKeepsSlot ==
  /\ recordCount # 0 /\ Cardinality(appends) < MaxAppends
  /\ recordCount' = 0
  /\ appends' = appends \cup {[slot |-> current, header |-> ~files[current.day].exists,
                               readings |-> slotReadings, opened |-> FALSE]}
  /\ UNCHANGED <<current, slotReadings, received, files, torn, day, historyVars>>

TimerWaits ==
  /\ recordCount > 1 /\ Cardinality(appends) < MaxAppends
  /\ recordCount' = 0 /\ current' = NoSlot /\ slotReadings' = <<>>
  /\ appends' = appends \cup {[slot |-> current, header |-> ~files[current.day].exists,
                               readings |-> slotReadings, opened |-> FALSE]}
  /\ UNCHANGED <<received, files, torn, day, historyVars>>

HeaderUnlessBusy ==
  /\ recordCount # 0 /\ Cardinality(appends) < MaxAppends
  /\ recordCount' = 0 /\ current' = NoSlot /\ slotReadings' = <<>>
  /\ appends' = appends \cup {[slot |-> current, header |-> appends = {},
                               readings |-> slotReadings, opened |-> FALSE]}
  /\ overlapped' = IF appends = {} THEN overlapped
                   ELSE overlapped \cup {current.day} \cup {a.slot.day : a \in appends}
  /\ UNCHANGED <<received, files, torn, day, lost, spoilt, crashes>>

HandleTimer ==
  /\ recordCount # 0
  /\ Cardinality(appends) < MaxAppends
  /\ recordCount' = 0
  /\ current' = NoSlot
  /\ slotReadings' = <<>>
  /\ appends' = appends \cup {[slot     |-> current,
                               header   |-> ~files[current.day].exists,
                               readings |-> slotReadings,
                               opened   |-> FALSE]}
  /\ overlapped' = IF appends = {} THEN overlapped
                   ELSE overlapped \cup {current.day} \cup {a.slot.day : a \in appends}
  /\ UNCHANGED <<received, files, torn, day, lost, spoilt, crashes>>

\* appendFile opens the file, which creates it, and writes.
AppendOpens(a) ==
  /\ ~a.opened
  /\ appends' = (appends \ {a}) \cup {[a EXCEPT !.opened = TRUE]}
  /\ files' = [files EXCEPT ![a.slot.day].exists = TRUE]
  /\ UNCHANGED <<slotVars, torn, day, historyVars>>

Line(a) == [columns |-> ToLine, header |-> FALSE, slot |-> a.slot, readings |-> a.readings]

\* A row that is written onto a torn one is spoilt with it: here the header.
Heading(a) == IF a.header /\ a.slot.day \notin torn THEN <<Header>> ELSE <<>>

AppendWrites(a) ==
  /\ a.opened
  /\ a.header \/ a.slot.day \notin torn
  /\ appends' = appends \ {a}
  /\ files' = [files EXCEPT ![a.slot.day].lines = @ \o Heading(a) \o <<Line(a)>>]
  /\ torn' = torn \ {a.slot.day}
  /\ UNCHANGED <<slotVars, day, historyVars>>

\* A line without header is spoilt itself.
AppendSpoilt(a) ==
  /\ a.opened
  /\ ~a.header /\ a.slot.day \in torn
  /\ appends' = appends \ {a}
  /\ torn' = torn \ {a.slot.day}
  /\ lost' = lost \cup Records(a.slot)
  /\ UNCHANGED <<slotVars, files, day, overlapped, spoilt, crashes>>

\* Mutant of AppendFails: the line is written, and written again.
AppendRepeats(a) ==
  /\ a.opened
  /\ files' = [files EXCEPT ![a.slot.day].lines = Append(@, Line(a))]
  /\ UNCHANGED <<slotVars, appends, torn, day, historyVars>>

\* What opened appends leave that break off: nothing, or one of them on a day its header,
\* and a row in part.
BreakOff(as) ==
  \E headings \in SUBSET {a.slot.day : a \in {b \in as : b.header}},
     parts    \in SUBSET {a.slot.day : a \in as} :
    /\ files' = [d \in Days |-> IF d \in headings \ torn
                                THEN [files[d] EXCEPT !.lines = Append(@, Header)]
                                ELSE files[d]]
    /\ torn' = (torn \ headings) \cup parts
    /\ spoilt' = spoilt \cup {a.slot.day : a \in as}

\* The error is logged, the line is gone.
AppendFails(a) ==
  /\ appends' = appends \ {a}
  /\ lost' = lost \cup Records(a.slot)
  /\ BreakOff({b \in {a} : b.opened})
  /\ UNCHANGED <<slotVars, day, overlapped, crashes>>

NextDay ==
  /\ day + 1 \in Days
  /\ day' = day + 1
  /\ UNCHANGED <<slotVars, appends, files, torn, historyVars>>

\* The process is killed and starts again.
Crash ==
  /\ crashes < MaxCrashes
  /\ crashes' = crashes + 1
  /\ current' = NoSlot /\ recordCount' = 0 /\ slotReadings' = <<>>
  /\ appends' = {}
  /\ lost' = lost \cup InSlot \cup UnderWay
  /\ BreakOff({b \in appends : b.opened})
  /\ UNCHANGED <<received, day, overlapped>>

Next ==
  \/ \E x \in Readings : HandleMonitorRecord(x)
  \/ HandleTimer
  \/ \E a \in appends :
       AppendOpens(a) \/ AppendWrites(a) \/ AppendSpoilt(a) \/ AppendFails(a)
  \/ NextDay
  \/ Crash

\* The interval timer fires, and a file operation settles.
Fairness ==
  /\ WF_vars(HandleTimer)
  /\ WF_vars(\E a \in appends : AppendOpens(a) \/ AppendWrites(a) \/ AppendSpoilt(a))

Spec == Init /\ [][Next]_vars /\ Fairness

-----------------------------------------------------------------------------
(***************************************************************************)
(* Properties.                                                             *)
(***************************************************************************)
Lines(d) == {i \in DOMAIN files[d].lines : ~files[d].lines[i].header}

Written == UNION {UNION {Records(files[d].lines[i].slot) : i \in Lines(d)} : d \in Days}

\* The variables keep their types; no file has content before it exists.
TypeOK ==
  /\ current = NoSlot <=> recordCount = 0
  /\ current # NoSlot => current.count = recordCount /\ current.day \in 0..day
  /\ \A a \in appends : a.opened => files[a.slot.day].exists
  /\ \A d \in Days : files[d].lines # <<>> \/ d \in torn => files[d].exists
  /\ received \in 0..MaxRecords
  /\ lost \subseteq 1..received

\* Every record of the Monitor is in exactly one place, the slot, an append under way or a
\* line of a file, unless its line was lost with an error or a crash, or onto what one left.
InOnePlace ==
  /\ 1..received = lost \cup InSlot \cup UnderWay \cup Written
  /\ lost \cap (InSlot \cup UnderWay \cup Written) = {}
  /\ InSlot \cap (UnderWay \cup Written) = {}
  /\ UnderWay \cap Written = {}

\* No record is in two appends or in two lines.
InOneLine ==
  /\ \A a, b \in appends : a # b => Records(a.slot) \cap Records(b.slot) = {}
  /\ \A d, e \in Days : \A i \in Lines(d), j \in Lines(e) :
       d # e \/ i # j =>
         Records(files[d].lines[i].slot) \cap Records(files[e].lines[j].slot) = {}

\* Every record of the Monitor counts once: in one place, and there in one line.
EveryRecordOnce == InOnePlace /\ InOneLine

\* The bounds of a slot are those of its numbers, and NaN before the first number spoils
\* neither; a mean lies between them.
BoundsAreRight(slot, xs) ==
  LET numbers == {xs[k] : k \in DOMAIN xs} \ {NaN} IN
  numbers # {} =>
    /\ slot.min \in numbers /\ \A n \in numbers : slot.min <= n
    /\ slot.max \in numbers /\ \A n \in numbers : n <= slot.max
    /\ slot.avg # NaN => slot.avg \in (Parts * slot.min)..(Parts * slot.max)

\* The lines of all files hold the bounds of their readings.
LineBounds ==
  \A d \in Days : \A i \in Lines(d) :
    BoundsAreRight(files[d].lines[i].slot, files[d].lines[i].readings)

\* A line holds the minimum, the mean and the maximum of its readings, if they are numbers,
\* and has a column for each column of the header.
LinesAreRight ==
  /\ LineBounds
  /\ \A d \in Days : \A i \in Lines(d) :
       LET slot == files[d].lines[i].slot
           xs   == files[d].lines[i].readings
       IN  /\ files[d].lines[i].columns = Header.columns
           /\ NaN \notin {xs[k] : k \in DOMAIN xs} =>
                slot.avg * Len(xs) = Parts * Total(xs)

\* A file begins with its only header and its lines are in the order of their slots, unless
\* appends of the day overlapped or one failed between the creation of the file and the
\* header.
WellFormed ==
  \A d \in Days \ (overlapped \cup spoilt) :
    LET lines == files[d].lines IN
    /\ \A i \in DOMAIN lines : lines[i].header <=> i = 1
    /\ \A i, j \in Lines(d) : i < j => lines[i].slot.from < lines[j].slot.from

\* Every record gets into a file in the end, or its line was lost.
RecordsGetOut == \A n \in 1..MaxRecords : received = n ~> n \in Written \cup lost
=============================================================================
