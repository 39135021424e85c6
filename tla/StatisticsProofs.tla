-------------------------- MODULE StatisticsProofs --------------------------
(***************************************************************************)
(* Proofs about Statistics, for any number of days, records, appends,      *)
(* readings and crashes:                                                   *)
(*   - a file of a day whose appends did not overlap and did not fail      *)
(*     half-way begins with its only header, and its lines are in the      *)
(*     order of their slots (FilesWellFormed),                             *)
(*   - every record is in the slot, in one append or in one line, or was   *)
(*     lost with its line (RecordsCountOnce),                              *)
(*   - the minimum and the maximum of a line are those of its numbers, its *)
(*     mean lies between them, and is exact if all its readings are        *)
(*     numbers (LinesHoldTheirReadings).                                   *)
(***************************************************************************)
EXTENDS Statistics, FunctionTheorems, TLAPS

Entries == [slot : Slots, header : BOOLEAN, readings : Seq(Readings), opened : BOOLEAN]

Rows == {Header} \cup
        [columns : {ToLine}, header : {FALSE}, slot : Slots, readings : Seq(Readings)]

\* The types of the variables the files depend on.
Types ==
  /\ current \in Slots \cup {NoSlot}
  /\ recordCount \in Nat
  /\ recordCount # 0 => current \in Slots
  /\ slotReadings \in Seq(Readings)
  /\ received \in Nat
  /\ appends \subseteq Entries
  /\ files \in [Days -> [exists : BOOLEAN, lines : Seq(Rows)]]
  /\ day \in Days

LEMMA TypesInit == Init => Types
  BY DaysAssumption DEF Init, Types

LEMMA ReadingKeepsType ==
  ASSUME NEW slot \in Slots, NEW x \in Values
  PROVE  WithReading(slot, x) \in Slots
<1>1. CalcMinimum(slot.min, x) \in Values /\ CalcMaximum(slot.max, x) \in Values
  BY DEF CalcMinimum, CalcMaximum, Slots
<1>2. CalcAverage(slot.avg, slot.count, x) \in Values
  <2>1. slot.avg \in Values /\ slot.count \in Nat /\ slot.count + 1 \in Nat \ {0}
    BY DEF Slots
  <2>2. CASE slot.avg = NaN \/ x = NaN
    BY <2>1, <2>2, MeanAssumption DEF CalcAverage, Values
  <2>3. CASE slot.avg # NaN /\ x # NaN
    <3>1. slot.avg * slot.count + Parts * x \in Int
      BY <2>1, <2>3, MeanAssumption DEF Values
    <3>2. \A p \in Int, q \in Nat \ {0} : p \div q \in Int
      OBVIOUS
    <3> QED BY <2>1, <2>3, <3>1, <3>2 DEF CalcAverage, Values
  <2> QED BY <2>2, <2>3
<1>3. slot.count + 1 \in Nat
  BY DEF Slots
<1> QED BY <1>1, <1>2, <1>3 DEF WithReading, Slots

LEMMA EntryWritten ==
  ASSUME Types, NEW a \in appends, AppendWrites(a)
  PROVE  /\ a \in Entries /\ a.slot.day \in Days
         /\ files' = [files EXCEPT ![a.slot.day].lines = files'[a.slot.day].lines]
         /\ files'[a.slot.day].lines =
              files[a.slot.day].lines \o Heading(a) \o <<Line(a)>>
         /\ Line(a) \in Rows
         /\ files'[a.slot.day].lines \in Seq(Rows)
<1>1. a \in Entries /\ a.slot.day \in Days
  BY DEF Types, Entries, Slots
<1>2. Line(a) \in Rows /\ Header \in Rows
  BY <1>1 DEF Line, Rows, Entries
<1>3. /\ files \in [Days -> [exists : BOOLEAN, lines : Seq(Rows)]]
      /\ files[a.slot.day].lines \in Seq(Rows)
  BY <1>1 DEF Types
<1>4. files'[a.slot.day].lines =
        files[a.slot.day].lines \o Heading(a) \o <<Line(a)>>
  BY <1>1, <1>3 DEF AppendWrites
<1>5. files' = [files EXCEPT ![a.slot.day].lines = files'[a.slot.day].lines]
  BY <1>1, <1>3, <1>4 DEF AppendWrites
<1>6. \A s \in Seq(Rows), h \in Rows, l \in Rows :
        s \o <<h>> \o <<l>> \in Seq(Rows) /\ s \o <<>> \o <<l>> \in Seq(Rows)
  OBVIOUS
<1>7. files'[a.slot.day].lines \in Seq(Rows)
  BY <1>2, <1>3, <1>4, <1>6 DEF Heading
<1> QED BY <1>1, <1>2, <1>4, <1>5, <1>7

\* The files have the lines they had, and perhaps a header more.
LinesKept ==
  \A d \in Days : /\ files'[d].exists = files[d].exists
                  /\ Lines(d)' = Lines(d)
                  /\ \A i \in Lines(d) : files'[d].lines[i] = files[d].lines[i]

LEMMA FilesKept ==
  ASSUME UNCHANGED files
  PROVE  LinesKept
BY DEF LinesKept, Lines

\* Appends that break off leave every line, and spoil their days.
LEMMA BrokenOff ==
  ASSUME Types, NEW as \in SUBSET appends, BreakOff(as)
  PROVE  /\ files' \in [Days -> [exists : BOOLEAN, lines : Seq(Rows)]]
         /\ LinesKept
         /\ spoilt' = spoilt \cup {a.slot.day : a \in as}
         /\ \A d \in Days \ spoilt' : files'[d] = files[d]
         /\ \A d \in Days : files'[d] # files[d] => \E a \in as : a.slot.day = d
         /\ torn' \subseteq torn \cup {a.slot.day : a \in as}
<1>1. PICK headings \in SUBSET {a.slot.day : a \in {b \in as : b.header}},
           parts    \in SUBSET {a.slot.day : a \in as} :
        /\ files' = [d \in Days |-> IF d \in headings \ torn
                                    THEN [files[d] EXCEPT !.lines = Append(@, Header)]
                                    ELSE files[d]]
        /\ torn' = (torn \ headings) \cup parts
        /\ spoilt' = spoilt \cup {a.slot.day : a \in as}
  BY DEF BreakOff
<1>2. Header \in Rows /\ Header.header
  BY DEF Rows, Header
<1>3. \A f \in [exists : BOOLEAN, lines : Seq(Rows)] :
        LET g == [f EXCEPT !.lines = Append(@, Header)]
        IN  /\ g \in [exists : BOOLEAN, lines : Seq(Rows)]
            /\ g.exists = f.exists /\ g.lines = Append(f.lines, Header)
  BY <1>2
<1>4. ASSUME NEW d \in Days
      PROVE  /\ files'[d] \in [exists : BOOLEAN, lines : Seq(Rows)]
             /\ files'[d].exists = files[d].exists
             /\ \/ files'[d] = files[d]
                \/ d \in headings /\ files'[d].lines = Append(files[d].lines, Header)
  <2>1. files[d] \in [exists : BOOLEAN, lines : Seq(Rows)]
    BY DEF Types
  <2> QED BY <1>1, <1>3, <2>1
<1>5. LinesKept
  <2> SUFFICES ASSUME NEW d \in Days
               PROVE  /\ Lines(d)' = Lines(d)
                      /\ \A i \in Lines(d) : files'[d].lines[i] = files[d].lines[i]
    BY <1>4 DEF LinesKept
  <2>1. CASE files'[d] = files[d]
    BY <2>1 DEF Lines
  <2>2. CASE files'[d].lines = Append(files[d].lines, Header)
    <3> DEFINE old == files[d].lines
               new == files'[d].lines
    <3>1. old \in Seq(Rows) /\ new = Append(old, Header)
      BY <2>2 DEF Types
    <3>2. /\ Lines(d) = {i \in DOMAIN old : ~old[i].header}
          /\ Lines(d)' = {i \in DOMAIN new : ~new[i].header}
      BY DEF Lines
    <3> HIDE DEF old, new
    <3>3. /\ DOMAIN old = 1..Len(old) /\ DOMAIN new = 1..(Len(old) + 1) /\ Len(old) \in Nat
          /\ new[Len(old) + 1] = Header /\ \A i \in 1..Len(old) : new[i] = old[i]
      BY <1>2, <3>1
    <3>4. \A i \in 1..(Len(old) + 1) : i \in 1..Len(old) \/ i = Len(old) + 1
      BY <3>3
    <3>5. Lines(d)' = Lines(d) /\ \A i \in Lines(d) : new[i] = old[i]
      BY <1>2, <3>2, <3>3, <3>4
    <3> QED BY <3>5 DEF old, new
  <2> QED BY <1>4, <2>1, <2>2
<1>6. files' \in [Days -> [exists : BOOLEAN, lines : Seq(Rows)]]
  BY <1>1, <1>4
<1>7. \A d \in Days : files'[d] # files[d] => \E a \in as : a.slot.day = d
  BY <1>4
<1>8. \A d \in Days \ spoilt' : files'[d] = files[d]
  BY <1>1, <1>7
<1>9. torn' \subseteq torn \cup {a.slot.day : a \in as}
  BY <1>1
<1> QED BY <1>1, <1>5, <1>6, <1>7, <1>8, <1>9

LEMMA TypesNext == Types /\ [Next]_vars => Types'
<1> SUFFICES ASSUME Types, [Next]_vars PROVE Types'
  OBVIOUS
<1>1. ASSUME NEW x \in Readings, HandleMonitorRecord(x) PROVE Types'
  <2>1. x \in Values
    BY ReadingsAssumption DEF Values
  <2>2. NewSlot \in Slots
    BY DEF Types, NewSlot, Slots, Values
  <2>3. current' \in Slots
    BY <1>1, <2>1, <2>2, ReadingKeepsType DEF HandleMonitorRecord, Types
  <2>4. slotReadings' \in Seq(Readings)
    BY <1>1 DEF HandleMonitorRecord, Types
  <2> QED BY <1>1, <2>3, <2>4 DEF HandleMonitorRecord, Types
<1>2. ASSUME HandleTimer PROVE Types'
  <2>1. current \in Slots /\ current.day \in Days
    BY <1>2 DEF HandleTimer, Types, Slots
  <2>2. files[current.day].exists \in BOOLEAN
    BY <2>1 DEF Types
  <2>3. appends' \subseteq Entries
    <3> DEFINE header == ~files[current.day].exists
               entry  == [slot |-> current, header |-> header, readings |-> slotReadings,
                          opened |-> FALSE]
    <3>1. header \in BOOLEAN
      BY <2>2
    <3>2. appends' = appends \cup {entry}
      BY <1>2 DEF HandleTimer
    <3> HIDE DEF header
    <3>3. entry \in Entries
      BY <2>1, <3>1 DEF Types, Entries
    <3> QED BY <3>2, <3>3 DEF Types
  <2>4. <<>> \in Seq(Readings)
    OBVIOUS
  <2> QED BY <1>2, <2>3, <2>4 DEF HandleTimer, Types
<1>3. ASSUME NEW a \in appends, AppendOpens(a) PROVE Types'
  <2>1. a \in Entries /\ a.slot.day \in Days
    BY DEF Types, Entries, Slots
  <2>2. [a EXCEPT !.opened = TRUE] \in Entries
    BY <2>1 DEF Entries
  <2>3. files' \in [Days -> [exists : BOOLEAN, lines : Seq(Rows)]]
    BY <1>3, <2>1 DEF AppendOpens, Types
  <2> QED BY <1>3, <2>2, <2>3 DEF AppendOpens, Types, slotVars
<1>4. ASSUME NEW a \in appends, AppendWrites(a) PROVE Types'
  <2>1. files' \in [Days -> [exists : BOOLEAN, lines : Seq(Rows)]]
    BY <1>4, EntryWritten DEF Types
  <2> QED BY <1>4, <2>1 DEF AppendWrites, Types, slotVars
<1>5. ASSUME NEW a \in appends, AppendFails(a) PROVE Types'
  <2>1. files' \in [Days -> [exists : BOOLEAN, lines : Seq(Rows)]]
    BY <1>5, BrokenOff DEF AppendFails
  <2> QED BY <1>5, <2>1 DEF AppendFails, Types, slotVars
<1>9. ASSUME NEW a \in appends, AppendSpoilt(a) PROVE Types'
  BY <1>9 DEF AppendSpoilt, Types, slotVars
<1>6. CASE NextDay
  BY <1>6 DEF NextDay, Types, slotVars
<1>7. CASE Crash
  <2>1. files' \in [Days -> [exists : BOOLEAN, lines : Seq(Rows)]]
    BY <1>7, BrokenOff DEF Crash
  <2> QED BY <1>7, <2>1 DEF Crash, Types
<1>8. CASE UNCHANGED vars
  BY <1>8 DEF Types, vars, slotVars
<1> QED BY <1>1, <1>2, <1>3, <1>4, <1>5, <1>6, <1>7, <1>8, <1>9 DEF Next

-----------------------------------------------------------------------------
(***************************************************************************)
(* The inductive invariant.                                                *)
(***************************************************************************)
Clean == Days \ (overlapped \cup spoilt)

\* Slots begin with later and later records.
Earlier(slot) ==
  /\ slot.from <= received
  /\ current # NoSlot => slot.from < current.from

Numbered ==
  /\ current # NoSlot => current.from <= received
  /\ \A a \in appends : Earlier(a.slot)
  /\ \A d \in Days : \A i \in Lines(d) : Earlier(files[d].lines[i].slot)

Alone == \A a, b \in appends : a.slot.day \notin overlapped => a = b

\* The answer to the question whether the file exists is still right.
Decided ==
  /\ \A d \in Days : files[d].lines # <<>> => files[d].exists
  /\ \A a \in appends : a.opened => files[a.slot.day].exists
  /\ \A a \in appends :
       a.slot.day \in Clean =>
         /\ a.opened => (a.header <=> files[a.slot.day].lines = <<>>)
         /\ ~a.opened => (a.header <=> ~files[a.slot.day].exists)
         /\ \A i \in Lines(a.slot.day) : files[a.slot.day].lines[i].slot.from < a.slot.from

\* A file without a line is being written.
Begun ==
  \A d \in Clean : files[d].exists =>
    \/ files[d].lines # <<>>
    \/ \E a \in appends : a.opened /\ a.slot.day = d

\* Only an append that broke off leaves a row in part.
Fragments == torn \subseteq spoilt \cap Days /\ \A d \in torn : files[d].exists

IInv == Types /\ Numbered /\ Alone /\ Decided /\ Begun /\ WellFormed /\ Fragments

LEMMA InvariantInit == Init => IInv
<1> SUFFICES ASSUME Init PROVE IInv
  OBVIOUS
<1>1. \A d \in Days : files[d].lines = <<>> /\ Lines(d) = {}
  BY DEF Init, Lines
<1>2. appends = {} /\ current = NoSlot /\ \A d \in Days : ~files[d].exists
  BY DEF Init
<1> QED BY <1>1, <1>2, TypesInit DEF IInv, Numbered, Alone, Decided, Begun, WellFormed, Clean,
                                      Fragments, Init

\* The files and their lines are what they were.
LEMMA FilesStay ==
  ASSUME IInv, UNCHANGED files, Clean' \subseteq Clean
  PROVE  WellFormed' /\ \A d \in Days : Lines(d)' = Lines(d)
<1>1. \A d \in Days : Lines(d)' = Lines(d)
  BY DEF Lines
<1> QED BY <1>1 DEF IInv, WellFormed, Clean

LEMMA RecordStep ==
  ASSUME IInv, NEW x \in Readings, HandleMonitorRecord(x)
  PROVE  (Numbered /\ Alone /\ Decided /\ Begun /\ WellFormed)'
<1>1. /\ UNCHANGED <<appends, files, overlapped, spoilt>> /\ Clean' = Clean
      /\ received \in Nat /\ received' = received + 1
  BY DEF HandleMonitorRecord, historyVars, Clean, IInv, Types
<1>2. WellFormed' /\ \A d \in Days : Lines(d)' = Lines(d)
  BY <1>1, FilesStay
<1>3. /\ current = NoSlot => current'.from = received + 1
      /\ current # NoSlot => current'.from = current.from
  <2>1. NewSlot \in Slots /\ NewSlot.from = received + 1
    BY <1>1 DEF NewSlot, Slots, Values, IInv, Types
  <2>2. \A slot \in Slots : WithReading(slot, x).from = slot.from
    BY DEF WithReading, Slots
  <2> QED BY <2>1, <2>2 DEF HandleMonitorRecord, IInv, Types
<1>4. \A a \in appends : a.slot.from \in Nat
  BY DEF IInv, Types, Entries, Slots
<1>5. \A d \in Days : \A i \in Lines(d) : files[d].lines[i].slot.from \in Nat
  <2> SUFFICES ASSUME NEW d \in Days, NEW i \in Lines(d)
               PROVE  files[d].lines[i].slot.from \in Nat
    OBVIOUS
  <2>1. files[d].lines \in Seq(Rows) /\ i \in DOMAIN files[d].lines
    BY DEF IInv, Types, Lines
  <2>2. files[d].lines[i] \in Rows /\ ~files[d].lines[i].header
    BY <2>1 DEF Lines
  <2>3. \A r \in Rows : ~r.header => r.slot \in Slots
    <3>1. Header.header = TRUE
      BY DEF Header
    <3> QED BY <3>1 DEF Rows
  <2> QED BY <2>2, <2>3 DEF Slots
<1>6. Numbered'
  <2>1. current # NoSlot => current.from \in Nat
    BY DEF IInv, Types, Slots
  <2>2. current'.from <= received'
    BY <1>1, <1>3, <2>1 DEF IInv, Numbered
  <2>3. \A a \in appends : a.slot.from <= received' /\ a.slot.from < current'.from
    BY <1>1, <1>3, <1>4, <2>1 DEF IInv, Numbered, Earlier
  <2>4. \A d \in Days : \A i \in Lines(d) :
          files[d].lines[i].slot.from <= received' /\ files[d].lines[i].slot.from < current'.from
    BY <1>1, <1>3, <1>5, <2>1 DEF IInv, Numbered, Earlier
  <2> QED BY <1>1, <1>2, <2>2, <2>3, <2>4 DEF Numbered, Earlier
<1>7. Alone' /\ Decided' /\ Begun'
  BY <1>1, <1>2 DEF IInv, Types, Entries, Slots, Alone, Decided, Begun
<1> QED BY <1>2, <1>6, <1>7

LEMMA TimerStep ==
  ASSUME IInv, HandleTimer
  PROVE  (Numbered /\ Alone /\ Decided /\ Begun /\ WellFormed)'
<1> DEFINE header == ~files[current.day].exists
           entry  == [slot |-> current, header |-> header, readings |-> slotReadings,
                      opened |-> FALSE]
<1>1. /\ UNCHANGED <<files, spoilt, received>> /\ current' = NoSlot
      /\ appends' = appends \cup {entry}
      /\ overlapped' = IF appends = {} THEN overlapped
                       ELSE overlapped \cup {current.day} \cup {a.slot.day : a \in appends}
  BY DEF HandleTimer
<1>2. Clean' \subseteq Clean
  BY <1>1 DEF Clean
<1>3. WellFormed' /\ \A d \in Days : Lines(d)' = Lines(d)
  BY <1>1, <1>2, FilesStay
<1>4. current \in Slots /\ current # NoSlot /\ current.from <= received
  BY SlotAssumption DEF HandleTimer, IInv, Types, Numbered
<1>5. entry.slot = current /\ ~entry.opened /\ (entry.header <=> ~files[current.day].exists)
  OBVIOUS
<1> HIDE DEF entry
<1>6. Numbered'
  BY <1>1, <1>3, <1>4, <1>5 DEF Numbered, Earlier, IInv
<1>7. Alone'
  BY <1>1, <1>5 DEF Alone, IInv
<1>8. \A a \in appends : a.slot.day \notin Clean'
  BY <1>1 DEF Clean
<1>9. Decided'
  <2>1. \A d \in Days : files'[d].lines # <<>> => files'[d].exists
    BY <1>1 DEF IInv, Decided
  <2>2. \A i \in Lines(current.day) : files[current.day].lines[i].slot.from < current.from
    BY <1>4 DEF IInv, Numbered, Earlier, Slots
  <2>3. current.day \in Days
    BY <1>4 DEF Slots
  <2>4. \A a \in appends' : a.opened => files'[a.slot.day].exists
    <3>1. \A a \in appends : a.opened => files[a.slot.day].exists
      BY DEF IInv, Decided
    <3> QED BY <1>1, <1>5, <3>1
  <2> QED BY <1>1, <1>3, <1>5, <1>8, <2>1, <2>2, <2>3, <2>4 DEF Decided
<1>10. Begun'
  BY <1>1, <1>2 DEF IInv, Begun
<1> QED BY <1>3, <1>6, <1>7, <1>9, <1>10

LEMMA OpenStep ==
  ASSUME IInv, NEW a \in appends, AppendOpens(a)
  PROVE  (Numbered /\ Alone /\ Decided /\ Begun /\ WellFormed)'
<1> DEFINE d == a.slot.day
           b == [a EXCEPT !.opened = TRUE]
<1>1. a \in Entries /\ d \in Days
  BY DEF IInv, Types, Entries, Slots
<1>2. b \in Entries /\ b.slot = a.slot /\ b.opened /\ (b.header <=> a.header)
  BY <1>1 DEF Entries
<1>3. /\ UNCHANGED <<current, received, overlapped, spoilt>> /\ Clean' = Clean
      /\ ~a.opened /\ appends' = (appends \ {a}) \cup {b}
      /\ files' = [files EXCEPT ![d].exists = TRUE]
  BY DEF AppendOpens, slotVars, historyVars, Clean
<1>4. /\ \A e \in Days : files'[e].lines = files[e].lines /\ Lines(e)' = Lines(e)
      /\ files'[d].exists /\ \A e \in Days \ {d} : files'[e].exists = files[e].exists
  <2>1. \A e \in Days : files'[e].lines = files[e].lines
    BY <1>1, <1>3 DEF IInv, Types
  <2>2. files'[d].exists /\ \A e \in Days \ {d} : files'[e] = files[e]
    BY <1>1, <1>3 DEF IInv, Types
  <2> QED BY <2>1, <2>2 DEF Lines
<1> HIDE DEF d, b
<1>5. WellFormed'
  BY <1>3, <1>4 DEF IInv, WellFormed, Clean
<1>6. Numbered'
  BY <1>2, <1>3, <1>4 DEF IInv, Numbered, Earlier
<1>7. Alone'
  BY <1>2, <1>3 DEF IInv, Alone
<1>8. Decided'
  <2>1. ASSUME d \in Clean PROVE a.header <=> files[d].lines = <<>>
    <3>1. \A c \in appends : c.slot.day = d => c = a
      BY <2>1 DEF IInv, Alone, Clean, d
    <3>2. files[d].exists => files[d].lines # <<>>
      BY <1>3, <2>1, <3>1 DEF IInv, Begun
    <3>3. a.header <=> ~files[d].exists
      BY <1>3, <2>1 DEF IInv, Decided, d
    <3> QED BY <1>1, <3>2, <3>3 DEF IInv, Decided
  <2>2. \A c \in appends \ {a} : c.slot.day \in Clean => c.slot.day # d
    BY DEF IInv, Alone, Clean, d
  <2>3. \A e \in Days : files'[e].lines # <<>> => files'[e].exists
    BY <1>4 DEF IInv, Decided
  <2>4. b.slot.day \in Clean' =>
          /\ b.header <=> files'[d].lines = <<>>
          /\ \A i \in Lines(d)' : files'[d].lines[i].slot.from < b.slot.from
    BY <1>1, <1>2, <1>3, <1>4, <2>1 DEF IInv, Decided, d
  <2>5. \A c \in appends \ {a} : c.slot.day \in Clean' =>
          /\ c.opened => (c.header <=> files'[c.slot.day].lines = <<>>)
          /\ ~c.opened => (c.header <=> ~files'[c.slot.day].exists)
          /\ \A i \in Lines(c.slot.day)' : files'[c.slot.day].lines[i].slot.from < c.slot.from
    BY <1>3, <1>4, <2>2 DEF IInv, Decided, Clean
  <2>6. \A c \in appends' : c.opened => files'[c.slot.day].exists
    <3>1. files'[b.slot.day].exists
      BY <1>2, <1>4 DEF d
    <3>2. \A c \in appends \ {a} : c.slot.day \in Days
      BY DEF IInv, Types, Entries, Slots
    <3>3. \A c \in appends \ {a} : c.opened => files'[c.slot.day].exists
      <4>1. \A c \in appends : c.opened => files[c.slot.day].exists
        BY DEF IInv, Decided
      <4> QED BY <1>4, <3>2, <4>1
    <3> QED BY <1>3, <3>1, <3>3
  <2> QED BY <1>2, <1>3, <2>3, <2>4, <2>5, <2>6 DEF Decided, d
<1>9. Begun'
  BY <1>1, <1>2, <1>3, <1>4 DEF IInv, Begun, Clean, d
<1> QED BY <1>5, <1>6, <1>7, <1>8, <1>9

\* What an append writes: the first line of a file comes with the header.
LEMMA RowsWritten ==
  ASSUME IInv, NEW a \in appends, AppendWrites(a), a.slot.day \in Clean
  PROVE  LET old == files[a.slot.day].lines
             new == files'[a.slot.day].lines
         IN  \/ (old = <<>> /\ Len(new) = 2 /\ new[1] = Header /\ new[2] = Line(a))
             \/ (old # <<>> /\ new = Append(old, Line(a)))
<1> DEFINE old == files[a.slot.day].lines
<1>1. /\ a.slot.day \in Days /\ Line(a) \in Rows
      /\ files'[a.slot.day].lines =
           old \o (IF a.header THEN <<Header>> ELSE <<>>) \o <<Line(a)>>
  <2>1. a.slot.day \notin torn
    BY DEF IInv, Fragments, Clean
  <2> QED BY <2>1, EntryWritten DEF IInv, Heading
<1>2. old \in Seq(Rows)
  BY <1>1 DEF IInv, Types
<1>3. a.header <=> old = <<>>
  BY DEF AppendWrites, IInv, Decided
<1> HIDE DEF old
<1>4. LET t == <<>> \o <<Header>> \o <<Line(a)>>
      IN  Len(t) = 2 /\ t[1] = Header /\ t[2] = Line(a)
  OBVIOUS
<1>5. \A s \in Seq(Rows), l \in Rows : s \o <<>> \o <<l>> = Append(s, l)
  OBVIOUS
<1>6. CASE a.header
  BY <1>1, <1>3, <1>4, <1>6 DEF old
<1>7. CASE ~a.header
  <2>1. old \o <<>> \o <<Line(a)>> = Append(old, Line(a))
    BY <1>1, <1>2, <1>5
  <2> QED BY <1>1, <1>3, <1>7, <2>1 DEF old
<1> QED BY <1>6, <1>7

\* t is s with row l at its end, and perhaps a header before it.
Extended(s, t, l) ==
  /\ t # <<>>
  /\ \A i \in DOMAIN t : \/ (i \in DOMAIN s /\ t[i] = s[i])
                        \/ t[i] = Header
                        \/ (i = Len(t) /\ t[i] = l)

LEMMA ExtendedWithHeader ==
  ASSUME NEW s \in Seq(Rows), NEW l \in Rows
  PROVE  Extended(s, s \o <<Header>> \o <<l>>, l)
<1> DEFINE t == s \o <<Header>> \o <<l>>
<1>1. Header \in Rows
  BY DEF Rows
<1>2. /\ t # <<>> /\ Len(t) = Len(s) + 2 /\ DOMAIN t = 1..Len(t)
      /\ \A i \in 1..Len(s) : t[i] = s[i] /\ i \in DOMAIN s
      /\ t[Len(s) + 1] = Header /\ t[Len(t)] = l /\ Len(s) \in Nat
  BY <1>1
<1> HIDE DEF t
<1>3. \A i \in 1..Len(t) : i \in 1..Len(s) \/ i = Len(s) + 1 \/ i = Len(t)
  BY <1>2
<1>4. Extended(s, t, l)
  BY <1>2, <1>3 DEF Extended
<1> QED BY <1>4 DEF t

LEMMA ExtendedWithout ==
  ASSUME NEW s \in Seq(Rows), NEW l \in Rows
  PROVE  Extended(s, s \o <<>> \o <<l>>, l)
<1> DEFINE t == s \o <<>> \o <<l>>
<1>1. /\ t # <<>> /\ Len(t) = Len(s) + 1 /\ DOMAIN t = 1..Len(t)
      /\ \A i \in 1..Len(s) : t[i] = s[i] /\ i \in DOMAIN s
      /\ t[Len(t)] = l /\ Len(s) \in Nat
  OBVIOUS
<1> HIDE DEF t
<1>2. \A i \in 1..Len(t) : i \in 1..Len(s) \/ i = Len(t)
  BY <1>1
<1>3. Extended(s, t, l)
  BY <1>1, <1>2 DEF Extended
<1> QED BY <1>3 DEF t

\* The row that an append adds to a file is the last one.
LEMMA LastRow ==
  ASSUME IInv, NEW a \in appends, AppendWrites(a)
  PROVE  /\ files'[a.slot.day].lines \in Seq(Rows)
         /\ Extended(files[a.slot.day].lines, files'[a.slot.day].lines, Line(a))
<1> DEFINE old == files[a.slot.day].lines
           new == files'[a.slot.day].lines
<1>1. /\ a.slot.day \in Days /\ Line(a) \in Rows /\ new \in Seq(Rows)
      /\ (new = old \o <<Header>> \o <<Line(a)>> \/ new = old \o <<>> \o <<Line(a)>>)
  BY EntryWritten DEF IInv, Heading
<1>2. old \in Seq(Rows)
  BY <1>1 DEF IInv, Types
<1> HIDE DEF old, new
<1>3. Extended(old, new, Line(a))
  BY <1>1, <1>2, ExtendedWithHeader, ExtendedWithout
<1> QED BY <1>1, <1>3 DEF old, new

LEMMA AppendRow ==
  ASSUME NEW s \in Seq(Rows), NEW l \in Rows, s # <<>>
  PROVE  LET t == Append(s, l) IN
         /\ Len(t) = Len(s) + 1 /\ DOMAIN t = 1..Len(t) /\ DOMAIN s = 1..Len(s)
         /\ t[Len(t)] = l /\ \A i \in 1..Len(s) : t[i] = s[i]
         /\ Len(s) \in Nat \ {0}
OBVIOUS

\* A file that an append has opened is there.
LEMMA OpenedExists ==
  ASSUME IInv, NEW a \in appends, a.opened
  PROVE  files[a.slot.day].exists
BY DEF IInv, Decided

LEMMA WriteStep ==
  ASSUME IInv, NEW a \in appends, AppendWrites(a)
  PROVE  (Numbered /\ Alone /\ Decided /\ Begun /\ WellFormed)'
<1> DEFINE d == a.slot.day
           old == files[d].lines
           new == files'[d].lines
<1>1. /\ d \in Days /\ a \in Entries /\ new \in Seq(Rows) /\ new # <<>>
      /\ Line(a).slot = a.slot /\ ~Line(a).header /\ Header.header
  BY EntryWritten, LastRow DEF IInv, Line, Header, Extended
<1>2. old \in Seq(Rows)
  BY <1>1 DEF IInv, Types
<1>3. /\ UNCHANGED <<current, received, overlapped, spoilt>> /\ Clean' = Clean
      /\ a.opened /\ appends' = appends \ {a}
  BY DEF AppendWrites, slotVars, historyVars, Clean
<1>4. /\ \A e \in Days : files'[e].exists = files[e].exists
      /\ \A e \in Days \ {d} : files'[e] = files[e] /\ Lines(e)' = Lines(e)
  <2>1. files' = [files EXCEPT ![d].lines = new]
    BY EntryWritten DEF IInv
  <2>2. \A e \in Days \ {d} : files'[e] = files[e]
    BY <1>1, <2>1 DEF IInv, Types
  <2>3. files'[d].exists = files[d].exists
    <3> HIDE DEF d, new
    <3>1. files[d] \in [exists : BOOLEAN, lines : Seq(Rows)]
      BY <1>1 DEF IInv, Types
    <3>2. files'[d] = [files[d] EXCEPT !.lines = new]
      BY <1>1, <2>1 DEF IInv, Types
    <3> QED BY <3>1, <3>2
  <2> QED BY <2>2, <2>3 DEF Lines
<1>5. /\ Lines(d) = {i \in DOMAIN old : ~old[i].header}
      /\ Lines(d)' = {i \in DOMAIN new : ~new[i].header}
  BY DEF Lines
<1>6. \A i \in DOMAIN new : \/ (i \in DOMAIN old /\ new[i] = old[i])
                            \/ new[i] = Header
                            \/ (i = Len(new) /\ new[i] = Line(a))
  BY LastRow DEF Extended
<1>7. d \in Clean => \/ (old = <<>> /\ Len(new) = 2 /\ new[1] = Header /\ new[2] = Line(a))
                     \/ (old # <<>> /\ new = Append(old, Line(a)))
  BY RowsWritten
<1>8. \A c \in appends' : c.slot.day \in Clean => c.slot.day # d
  BY <1>3 DEF IInv, Alone, Clean
<1>9. d \in Clean => \A i \in Lines(d) : old[i].slot.from < a.slot.from
  BY DEF IInv, Decided
<1>10. d \in Clean => /\ \A i \in DOMAIN old : old[i].header <=> i = 1
                      /\ \A i, j \in Lines(d) : i < j => old[i].slot.from < old[j].slot.from
  BY DEF IInv, WellFormed, Clean
<1> HIDE DEF old, new
<1>11. Numbered'
  <2>1. \A i \in Lines(d)' : Earlier(new[i].slot)
    <3> SUFFICES ASSUME NEW i \in DOMAIN new, ~new[i].header PROVE Earlier(new[i].slot)
      BY <1>5
    <3>1. CASE i \in DOMAIN old /\ new[i] = old[i]
      BY <1>1, <1>5, <3>1 DEF IInv, Numbered, old
    <3>2. CASE new[i] = Line(a)
      BY <1>1, <3>2 DEF IInv, Numbered
    <3> QED BY <1>1, <1>6, <3>1, <3>2
  <2>2. \A e \in Days \ {d} : \A i \in Lines(e)' : Earlier(files'[e].lines[i].slot)
    BY <1>4 DEF IInv, Numbered
  <2> QED BY <1>3, <2>1, <2>2 DEF IInv, Numbered, Earlier, new
<1>12. Alone'
  BY <1>3 DEF IInv, Alone
<1>13. Decided'
  <2>1. \A e \in Days : files'[e].lines # <<>> => files'[e].exists
    <3>1. \A e \in Days \ {d} : files'[e].lines # <<>> => files'[e].exists
      BY <1>4 DEF IInv, Decided
    <3>2. files'[d].exists
      BY <1>1, <1>3, <1>4, OpenedExists DEF d
    <3> QED BY <3>1, <3>2
  <2>2. \A c \in appends' : c.slot.day \in Clean' =>
          /\ c.opened => (c.header <=> files'[c.slot.day].lines = <<>>)
          /\ ~c.opened => (c.header <=> ~files'[c.slot.day].exists)
          /\ \A i \in Lines(c.slot.day)' : files'[c.slot.day].lines[i].slot.from < c.slot.from
    <3> SUFFICES ASSUME NEW c \in appends', c.slot.day \in Clean
                 PROVE  /\ c.opened => (c.header <=> files'[c.slot.day].lines = <<>>)
                        /\ ~c.opened => (c.header <=> ~files'[c.slot.day].exists)
                        /\ \A i \in Lines(c.slot.day)' : files'[c.slot.day].lines[i].slot.from < c.slot.from
      BY <1>3
    <3>1. c \in appends /\ c.slot.day \in Days \ {d}
      BY <1>3, <1>8 DEF Clean
    <3>2. Lines(c.slot.day)' = Lines(c.slot.day) /\ files'[c.slot.day] = files[c.slot.day]
      BY <1>4, <3>1
    <3> QED BY <3>1, <3>2 DEF IInv, Decided
  <2>3. \A c \in appends' : c.opened => files'[c.slot.day].exists
    <3>1. \A c \in appends' : c \in appends /\ c.slot.day \in Days
      BY <1>3 DEF IInv, Types, Entries, Slots
    <3> QED BY <1>4, <3>1, OpenedExists
  <2> QED BY <2>1, <2>2, <2>3 DEF Decided
<1>14. Begun'
  <2>1. \A e \in Clean \ {d} : \A c \in appends : c.slot.day = e => c \in appends'
    BY <1>3
  <2> QED BY <1>1, <1>3, <1>4, <2>1 DEF IInv, Begun, Clean, new
<1>15. WellFormed'
  <2>1. ASSUME d \in Clean, Len(new) = 2, new[1] = Header, new[2] = Line(a)
        PROVE  /\ \A i \in DOMAIN new : new[i].header <=> i = 1
               /\ \A i, j \in Lines(d)' : i < j => new[i].slot.from < new[j].slot.from
    BY <1>1, <1>5, <2>1
  <2>2. ASSUME d \in Clean, old # <<>>, new = Append(old, Line(a))
        PROVE  /\ \A i \in DOMAIN new : new[i].header <=> i = 1
               /\ \A i, j \in Lines(d)' : i < j => new[i].slot.from < new[j].slot.from
    <3>1. /\ Len(new) = Len(old) + 1 /\ DOMAIN new = 1..Len(new) /\ DOMAIN old = 1..Len(old)
          /\ new[Len(new)] = Line(a) /\ \A i \in 1..Len(old) : new[i] = old[i]
          /\ Len(old) \in Nat \ {0}
      BY <1>1, <1>2, <2>2, AppendRow, EntryWritten DEF IInv
    <3>2. \A i \in DOMAIN new : new[i].header <=> i = 1
      BY <1>1, <1>10, <2>2, <3>1
    <3>3. ASSUME NEW i \in Lines(d)', NEW j \in Lines(d)', i < j
          PROVE  new[i].slot.from < new[j].slot.from
      <4>1. /\ i \in 1..Len(new) /\ ~new[i].header
            /\ j \in 1..Len(new) /\ ~new[j].header
        BY <1>5, <3>1
      <4>2. i \in 1..Len(old) /\ new[i] = old[i] /\ i \in Lines(d)
        BY <1>5, <3>1, <3>3, <4>1
      <4>3. CASE j = Len(new)
        BY <1>1, <1>9, <2>2, <3>1, <4>2, <4>3
      <4>4. CASE j # Len(new)
        <5>1. j \in 1..Len(old) /\ new[j] = old[j] /\ j \in Lines(d)
          BY <1>5, <3>1, <4>1, <4>4
        <5> QED BY <1>10, <2>2, <3>3, <4>2, <5>1
      <4> QED BY <4>3, <4>4
    <3> QED BY <3>2, <3>3
  <2>3. d \in Clean =>
          /\ \A i \in DOMAIN new : new[i].header <=> i = 1
          /\ \A i, j \in Lines(d)' : i < j => new[i].slot.from < new[j].slot.from
    BY <1>7, <2>1, <2>2 DEF old, new
  <2>4. \A e \in Clean \ {d} :
          /\ \A i \in DOMAIN files'[e].lines : files'[e].lines[i].header <=> i = 1
          /\ \A i, j \in Lines(e)' : i < j => files'[e].lines[i].slot.from < files'[e].lines[j].slot.from
    BY <1>4 DEF IInv, WellFormed, Clean
  <2> QED BY <1>3, <2>3, <2>4 DEF WellFormed, Clean, new
<1> QED BY <1>11, <1>12, <1>13, <1>14, <1>15

\* Appends that end without writing a line, and days that stop being clean.
LEMMA AppendsEnd ==
  ASSUME IInv, UNCHANGED <<received, overlapped>>, LinesKept,
         current' = current \/ current' = NoSlot,
         appends' \subseteq appends, spoilt \subseteq spoilt',
         \A a \in appends \ appends' : a.opened => a.slot.day \in spoilt',
         \A d \in Days \ spoilt' : files'[d] = files[d],
         \A d \in Days : files'[d] # files[d] => files[d].exists
  PROVE  (Numbered /\ Alone /\ Decided /\ Begun /\ WellFormed)'
<1>1. Clean' \subseteq Clean /\ \A d \in Clean' : d \in Days /\ files'[d] = files[d]
  BY DEF Clean
<1>2. \A d \in Days : /\ Lines(d)' = Lines(d) /\ files'[d].exists = files[d].exists
                      /\ \A i \in Lines(d) : files'[d].lines[i] = files[d].lines[i]
  BY DEF LinesKept
<1>3. WellFormed'
  BY <1>1, <1>2 DEF IInv, WellFormed, Clean
<1>4. Numbered'
  BY <1>2 DEF IInv, Numbered, Earlier
<1>5. Alone'
  BY DEF IInv, Alone
<1>6. Decided'
  <2>1. \A a \in appends : a.slot.day \in Days
    BY DEF IInv, Types, Entries, Slots
  <2>2. \A d \in Days : files'[d].lines # <<>> => files'[d].exists
    <3>1. \A d \in Days : files[d].lines # <<>> => files[d].exists
      BY DEF IInv, Decided
    <3> QED BY <1>2, <3>1
  <2>3. \A a \in appends' : a.opened => files'[a.slot.day].exists
    BY <1>2, <2>1 DEF IInv, Decided
  <2>4. ASSUME NEW a \in appends', a.slot.day \in Clean'
        PROVE  /\ a.opened => (a.header <=> files'[a.slot.day].lines = <<>>)
               /\ ~a.opened => (a.header <=> ~files'[a.slot.day].exists)
               /\ \A i \in Lines(a.slot.day)' : files'[a.slot.day].lines[i].slot.from < a.slot.from
    BY <1>1, <1>2, <2>4 DEF IInv, Decided
  <2> QED BY <2>2, <2>3, <2>4 DEF Decided
<1>7. Begun'
  <2>1. \A a \in appends : a.opened /\ a.slot.day \in Clean' => a \in appends'
    BY DEF Clean
  <2> QED BY <1>1, <2>1 DEF IInv, Begun
<1> QED BY <1>3, <1>4, <1>5, <1>6, <1>7

\* Appends that break off do so.
LEMMA BreakStep ==
  ASSUME IInv, UNCHANGED <<received, overlapped>>,
         current' = current \/ current' = NoSlot,
         NEW as \in SUBSET appends, BreakOff(as), appends' \subseteq appends,
         \A a \in as : a.opened,
         \A a \in appends \ appends' : a.opened => a \in as
  PROVE  (Numbered /\ Alone /\ Decided /\ Begun /\ WellFormed)'
<1>1. /\ LinesKept
      /\ spoilt' = spoilt \cup {a.slot.day : a \in as}
      /\ \A d \in Days \ spoilt' : files'[d] = files[d]
      /\ \A d \in Days : files'[d] # files[d] => \E a \in as : a.slot.day = d
  BY BrokenOff DEF IInv
<1>2. \A a \in as : files[a.slot.day].exists
  BY OpenedExists
<1> QED BY <1>1, <1>2, AppendsEnd

\* A row in part is always on a day that is spoilt.
LEMMA FragmentsNext == IInv /\ [Next]_vars => Fragments'
<1> SUFFICES ASSUME IInv, [Next]_vars PROVE Fragments'
  OBVIOUS
<1>1. ASSUME torn' \subseteq torn, UNCHANGED spoilt,
             \A d \in Days : files[d].exists => files'[d].exists
      PROVE  Fragments'
  BY <1>1 DEF IInv, Fragments
<1>2. ASSUME NEW as \in SUBSET appends, BreakOff(as), \A a \in as : a.opened
      PROVE  Fragments'
  <2>1. /\ LinesKept
        /\ spoilt' = spoilt \cup {a.slot.day : a \in as}
        /\ torn' \subseteq torn \cup {a.slot.day : a \in as}
    BY <1>2, BrokenOff DEF IInv
  <2>2. \A a \in as : a.slot.day \in Days /\ files[a.slot.day].exists
    BY <1>2, OpenedExists DEF IInv, Types, Entries, Slots
  <2> DEFINE ended == {a.slot.day : a \in as}
  <2>3. ended \subseteq Days /\ \A d \in ended : files[d].exists
    BY <2>2
  <2>4. torn \subseteq spoilt /\ torn \subseteq Days /\ \A d \in torn : files[d].exists
    BY DEF IInv, Fragments
  <2>5. \A d \in Days : files'[d].exists = files[d].exists
    BY <2>1 DEF LinesKept
  <2>6. spoilt' = spoilt \cup ended /\ torn' \subseteq torn \cup ended
    BY <2>1
  <2> HIDE DEF ended
  <2>7. torn' \subseteq spoilt' \cap Days
    BY <2>3, <2>4, <2>6
  <2>8. \A d \in torn' : d \in Days /\ files[d].exists
    BY <2>3, <2>4, <2>6
  <2> QED BY <2>5, <2>7, <2>8 DEF Fragments
<1>3. CASE (\E x \in Readings : HandleMonitorRecord(x)) \/ HandleTimer \/ NextDay \/ UNCHANGED vars
  <2>1. UNCHANGED <<torn, spoilt, files>>
    BY <1>3 DEF HandleMonitorRecord, HandleTimer, NextDay, vars, historyVars
  <2> QED BY <1>1, <2>1
<1>4. ASSUME NEW a \in appends, AppendOpens(a) PROVE Fragments'
  <2>1. files' = [files EXCEPT ![a.slot.day].exists = TRUE] /\ UNCHANGED <<torn, spoilt>>
    BY <1>4 DEF AppendOpens, historyVars
  <2>2. \A d \in Days : files[d].exists => files'[d].exists
    BY <2>1 DEF IInv, Types
  <2> QED BY <1>1, <2>1, <2>2
<1>5. ASSUME NEW a \in appends, AppendWrites(a) PROVE Fragments'
  <2>1. torn' \subseteq torn /\ UNCHANGED spoilt
    BY <1>5 DEF AppendWrites, historyVars
  <2>2. files' = [files EXCEPT ![a.slot.day].lines = files'[a.slot.day].lines]
    BY <1>5, EntryWritten DEF IInv
  <2>3. \A d \in Days : files[d].exists => files'[d].exists
    BY <2>2 DEF IInv, Types
  <2> QED BY <1>1, <2>1, <2>3
<1>6. ASSUME NEW a \in appends, AppendSpoilt(a) PROVE Fragments'
  BY <1>1, <1>6 DEF AppendSpoilt
<1>7. ASSUME NEW a \in appends, AppendFails(a) PROVE Fragments'
  BY <1>2, <1>7 DEF AppendFails
<1>8. CASE Crash
  BY <1>2, <1>8 DEF Crash
<1> QED BY <1>3, <1>4, <1>5, <1>6, <1>7, <1>8 DEF Next

LEMMA InvariantNext == IInv /\ [Next]_vars => IInv'
<1> SUFFICES ASSUME IInv, [Next]_vars PROVE (Numbered /\ Alone /\ Decided /\ Begun /\ WellFormed)'
  BY TypesNext, FragmentsNext DEF IInv
<1>1. ASSUME NEW x \in Readings, HandleMonitorRecord(x)
      PROVE  (Numbered /\ Alone /\ Decided /\ Begun /\ WellFormed)'
  BY <1>1, RecordStep
<1>2. ASSUME HandleTimer PROVE (Numbered /\ Alone /\ Decided /\ Begun /\ WellFormed)'
  BY <1>2, TimerStep
<1>3. ASSUME NEW a \in appends, AppendOpens(a)
      PROVE  (Numbered /\ Alone /\ Decided /\ Begun /\ WellFormed)'
  BY <1>3, OpenStep
<1>4. ASSUME NEW a \in appends, AppendWrites(a)
      PROVE  (Numbered /\ Alone /\ Decided /\ Begun /\ WellFormed)'
  BY <1>4, WriteStep
<1>5. ASSUME NEW a \in appends, AppendFails(a)
      PROVE  (Numbered /\ Alone /\ Decided /\ Begun /\ WellFormed)'
  <2> DEFINE as == {b \in {a} : b.opened}
  <2>1. UNCHANGED <<received, overlapped, current>> /\ appends' = appends \ {a} /\ BreakOff(as)
    BY <1>5 DEF AppendFails, slotVars
  <2>2. /\ as \in SUBSET appends /\ \A b \in as : b.opened
        /\ \A b \in appends \ appends' : b.opened => b \in as
    BY <2>1
  <2> HIDE DEF as
  <2> QED BY <2>1, <2>2, BreakStep
<1>9. ASSUME NEW a \in appends, AppendSpoilt(a)
      PROVE  (Numbered /\ Alone /\ Decided /\ Begun /\ WellFormed)'
  <2>1. /\ UNCHANGED <<files, received, overlapped, current, spoilt>> /\ appends' = appends \ {a}
        /\ a.slot.day \in spoilt
    BY <1>9 DEF AppendSpoilt, slotVars, IInv, Fragments
  <2> QED BY <2>1, FilesKept, AppendsEnd
<1>6. CASE NextDay
  <2>1. UNCHANGED <<files, received, overlapped, current, appends, spoilt>>
    BY <1>6 DEF NextDay, slotVars, historyVars
  <2> QED BY <2>1, FilesKept, AppendsEnd
<1>7. CASE Crash
  <2> DEFINE as == {b \in appends : b.opened}
  <2>1. UNCHANGED <<received, overlapped>> /\ current' = NoSlot /\ appends' = {} /\ BreakOff(as)
    BY <1>7 DEF Crash
  <2>2. as \in SUBSET appends /\ \A b \in as : b.opened
    OBVIOUS
  <2>3. \A b \in appends \ appends' : b.opened => b \in as
    OBVIOUS
  <2> HIDE DEF as
  <2> QED BY <2>1, <2>2, <2>3, BreakStep
<1>8. CASE UNCHANGED vars
  <2>1. UNCHANGED <<files, received, overlapped, current, appends, spoilt>>
    BY <1>8 DEF vars, slotVars, historyVars
  <2> QED BY <2>1, FilesKept, AppendsEnd
<1> QED BY <1>1, <1>2, <1>3, <1>4, <1>5, <1>6, <1>7, <1>8, <1>9 DEF Next

\* For any days, readings, records, appends and crashes: a file whose appends neither
\* overlapped nor failed half-way begins with its only header, and its lines are in the
\* order of their slots (statistics.ts 102-165).
THEOREM FilesWellFormed == Spec => []WellFormed
<1>1. Init => IInv
  BY InvariantInit
<1>2. IInv /\ [Next]_vars => IInv'
  BY InvariantNext
<1>3. IInv => WellFormed
  BY DEF IInv
<1> QED BY <1>1, <1>2, <1>3, PTL DEF Spec

-----------------------------------------------------------------------------
(***************************************************************************)
(* Every record counts once.  The slot holds the last records received, so *)
(* a new record is in no other place, and every other step moves the       *)
(* records of one slot from one place to another.                          *)
(***************************************************************************)
SlotIsLatest ==
  /\ current = NoSlot <=> recordCount = 0
  /\ current = NoSlot => slotReadings = <<>>
  /\ current # NoSlot => current.count = recordCount /\ current.from + current.count = received + 1
  /\ current # NoSlot => current.day <= day

Ledger == Types /\ SlotIsLatest /\ InOnePlace /\ InOneLine

LEMMA LedgerInit == Init => Ledger
<1> SUFFICES ASSUME Init PROVE Ledger
  OBVIOUS
<1>1. \A d \in Days : Lines(d) = {}
  BY DEF Init, Lines
<1>2. InSlot = {} /\ UnderWay = {} /\ Written = {} /\ lost = {} /\ 1..received = {}
  BY <1>1 DEF Init, InSlot, UnderWay, Written
<1>3. SlotIsLatest
  BY SlotAssumption DEF Init, SlotIsLatest
<1> QED BY <1>1, <1>2, <1>3, TypesInit DEF Ledger, InOnePlace, InOneLine, Init

LEMMA LinesStay ==
  ASSUME LinesKept
  PROVE  /\ Written' = Written /\ \A d \in Days : Lines(d)' = Lines(d)
<1>1. \A d \in Days : /\ Lines(d)' = Lines(d)
                      /\ \A i \in Lines(d) : files'[d].lines[i] = files[d].lines[i]
  BY DEF LinesKept
<1>2. \A n : n \in Written' <=> n \in Written
  BY <1>1 DEF Written
<1> QED BY <1>1, <1>2

LEMMA LinesApart ==
  ASSUME InOneLine, LinesKept
  PROVE  \A d, e \in Days : \A i \in Lines(d)', j \in Lines(e)' :
           d # e \/ i # j =>
             Records(files'[d].lines[i].slot) \cap Records(files'[e].lines[j].slot) = {}
<1>1. \A d \in Days : /\ Lines(d)' = Lines(d)
                      /\ \A i \in Lines(d) : files'[d].lines[i] = files[d].lines[i]
  BY DEF LinesKept
<1> QED BY <1>1 DEF InOneLine

LEMMA ReadingCounts ==
  ASSUME Ledger, NEW x \in Readings, HandleMonitorRecord(x)
  PROVE  (SlotIsLatest /\ InOnePlace /\ InOneLine)'
<1>1. /\ UNCHANGED <<appends, files, lost, day>> /\ received \in Nat /\ received' = received + 1
      /\ recordCount \in Nat /\ recordCount' = recordCount + 1 /\ day \in Nat
  BY DaysAssumption DEF HandleMonitorRecord, historyVars, Ledger, Types
<1>2. /\ current' \in Slots /\ current' # NoSlot
      /\ current = NoSlot => current'.from = received + 1 /\ current'.count = 1 /\ current'.day = day
      /\ current # NoSlot => /\ current'.from = current.from /\ current'.count = current.count + 1
                             /\ current'.day = current.day
  <2>1. /\ NewSlot \in Slots /\ NewSlot.from = received + 1 /\ NewSlot.count = 0
        /\ NewSlot.day = day
    BY <1>1 DEF NewSlot, Slots, Values, Ledger, Types
  <2>2. \A slot \in Slots : /\ WithReading(slot, x).from = slot.from
                            /\ WithReading(slot, x).count = slot.count + 1
                            /\ WithReading(slot, x).day = slot.day
    BY DEF WithReading, Slots
  <2>3. x \in Values
    BY ReadingsAssumption DEF Values
  <2>4. current' = WithReading(IF current = NoSlot THEN NewSlot ELSE current, x)
    BY DEF HandleMonitorRecord
  <2>5. (IF current = NoSlot THEN NewSlot ELSE current) \in Slots
    BY <2>1 DEF Ledger, Types
  <2>6. current' \in Slots
    BY <2>3, <2>4, <2>5, ReadingKeepsType
  <2> QED BY <2>1, <2>2, <2>4, <2>5, <2>6, SlotAssumption
<1>3. SlotIsLatest'
  <2>1. current # NoSlot => current \in Slots
    BY DEF Ledger, Types
  <2>2. current # NoSlot => current.count \in Nat /\ current.from \in Nat
    BY <2>1 DEF Slots
  <2> QED BY <1>1, <1>2, <2>2 DEF Ledger, SlotIsLatest
<1>4. InSlot' = InSlot \cup {received + 1}
  <2>1. InSlot' = current'.from .. current'.from + current'.count - 1
    BY <1>2 DEF InSlot, Records
  <2>2. CASE current = NoSlot
    <3>1. InSlot = {} /\ current'.from = received + 1 /\ current'.count = 1
      BY <1>2, <2>2 DEF InSlot
    <3> QED BY <1>1, <2>1, <3>1
  <2>3. CASE current # NoSlot
    <3>1. InSlot = current.from .. current.from + current.count - 1
      BY <2>3 DEF InSlot, Records
    <3>2. current.from + current.count = received + 1
      BY <2>3 DEF Ledger, SlotIsLatest
    <3>3. current.from \in Nat /\ current.count \in Nat /\ current.count # 0
      BY <2>3 DEF Ledger, Types, SlotIsLatest, Slots
    <3>4. current'.from = current.from /\ current'.count = current.count + 1
      BY <1>2, <2>3
    <3> QED BY <1>1, <2>1, <3>1, <3>2, <3>3, <3>4
  <2> QED BY <2>2, <2>3
<1>5. UnderWay' = UnderWay /\ Written' = Written /\ \A d \in Days : Lines(d)' = Lines(d)
  BY <1>1, LinesStay, FilesKept DEF UnderWay
<1>6. 1..received' = (1..received) \cup {received + 1} /\ received + 1 \notin 1..received
  BY <1>1
<1>7. InOnePlace'
  BY <1>1, <1>4, <1>5, <1>6 DEF Ledger, InOnePlace
<1>8. InOneLine'
  BY <1>1, <1>5, LinesApart, FilesKept DEF Ledger, InOneLine
<1> QED BY <1>3, <1>7, <1>8

LEMMA TimerCounts ==
  ASSUME Ledger, HandleTimer
  PROVE  (SlotIsLatest /\ InOnePlace /\ InOneLine)'
<1>1. PICK entry : entry.slot = current /\ appends' = appends \cup {entry}
  <2> DEFINE e == [slot |-> current, header |-> ~files[current.day].exists,
                   readings |-> slotReadings, opened |-> FALSE]
  <2>1. e.slot = current /\ appends' = appends \cup {e}
    BY DEF HandleTimer
  <2> QED BY <2>1
<1>2. /\ UNCHANGED <<files, lost, received>> /\ current' = NoSlot /\ recordCount' = 0
      /\ slotReadings' = <<>>
  BY DEF HandleTimer
<1>3. current # NoSlot
  BY DEF HandleTimer, Ledger, SlotIsLatest
<1>4. InSlot = Records(entry.slot) /\ InSlot' = {} /\ UnderWay' = UnderWay \cup InSlot
  BY <1>1, <1>2, <1>3 DEF InSlot, UnderWay
<1>5. Written' = Written /\ \A d \in Days : Lines(d)' = Lines(d)
  BY <1>2, LinesStay, FilesKept
<1>6. SlotIsLatest'
  BY <1>2 DEF SlotIsLatest
<1>7. InOnePlace'
  BY <1>2, <1>4, <1>5 DEF Ledger, InOnePlace
<1>8. \A a \in appends : Records(a.slot) \cap Records(entry.slot) = {}
  BY <1>4 DEF Ledger, InOnePlace, UnderWay
<1>9. InOneLine'
  <2>1. ASSUME NEW c \in appends', NEW e \in appends', c # e
        PROVE  Records(c.slot) \cap Records(e.slot) = {}
    BY <1>1, <1>8, <2>1 DEF Ledger, InOneLine
  <2> QED BY <1>2, <2>1, LinesApart, FilesKept DEF Ledger, InOneLine
<1> QED BY <1>6, <1>7, <1>9

LEMMA OpenCounts ==
  ASSUME Ledger, NEW a \in appends, AppendOpens(a)
  PROVE  (SlotIsLatest /\ InOnePlace /\ InOneLine)'
<1> DEFINE b == [a EXCEPT !.opened = TRUE]
<1>1. a \in Entries /\ a.slot.day \in Days
  BY DEF Ledger, Types, Entries, Slots
<1>2. b.slot = a.slot
  BY <1>1 DEF Entries
<1>3. /\ UNCHANGED <<current, recordCount, slotReadings, received, day, lost>>
      /\ appends' = (appends \ {a}) \cup {b}
      /\ files' = [files EXCEPT ![a.slot.day].exists = TRUE]
  BY DEF AppendOpens, slotVars, historyVars
<1> HIDE DEF b
<1>4. \A d \in Days : files'[d].lines = files[d].lines /\ Lines(d)' = Lines(d)
  <2>1. \A d \in Days : files'[d].lines = files[d].lines
    BY <1>1, <1>3 DEF Ledger, Types
  <2> QED BY <2>1 DEF Lines
<1>5. InSlot' = InSlot /\ UnderWay' = UnderWay /\ Written' = Written
  <2>1. UnderWay' = UnderWay
    BY <1>2, <1>3 DEF UnderWay
  <2>2. Written' = Written
    BY <1>4 DEF Written
  <2> QED BY <1>3, <2>1, <2>2 DEF InSlot
<1>6. InOneLine'
  <2>1. ASSUME NEW c \in appends', NEW e \in appends', c # e
        PROVE  Records(c.slot) \cap Records(e.slot) = {}
    BY <1>2, <1>3, <2>1 DEF Ledger, InOneLine
  <2>2. \A d, e \in Days : \A i \in Lines(d)', j \in Lines(e)' :
          d # e \/ i # j =>
            Records(files'[d].lines[i].slot) \cap Records(files'[e].lines[j].slot) = {}
    BY <1>4 DEF Ledger, InOneLine
  <2> QED BY <2>1, <2>2 DEF InOneLine
<1>7. SlotIsLatest' /\ InOnePlace'
  BY <1>3, <1>5 DEF Ledger, SlotIsLatest, InOnePlace
<1> QED BY <1>6, <1>7

\* t is s with row l at its end: nothing of s is gone, and what else is new is a header.
Lengthened(s, t, l) ==
  /\ \A i \in DOMAIN s : i \in DOMAIN t /\ t[i] = s[i]
  /\ Len(t) \in DOMAIN t \ DOMAIN s /\ t[Len(t)] = l
  /\ \A i \in DOMAIN t \ DOMAIN s : i = Len(t) \/ t[i].header

LEMMA LengthenedWithHeader ==
  ASSUME NEW s \in Seq(Rows), NEW l \in Rows
  PROVE  Lengthened(s, s \o <<Header>> \o <<l>>, l)
<1> DEFINE t == s \o <<Header>> \o <<l>>
<1>1. Header \in Rows /\ Header.header
  BY DEF Rows, Header
<1>2. /\ Len(t) = Len(s) + 2 /\ DOMAIN t = 1..Len(t) /\ DOMAIN s = 1..Len(s)
      /\ \A i \in 1..Len(s) : t[i] = s[i]
      /\ t[Len(s) + 1] = Header /\ t[Len(t)] = l /\ Len(s) \in Nat
  BY <1>1
<1> HIDE DEF t
<1>3. Lengthened(s, t, l)
  BY <1>1, <1>2 DEF Lengthened
<1> QED BY <1>3 DEF t

LEMMA LengthenedWithout ==
  ASSUME NEW s \in Seq(Rows), NEW l \in Rows
  PROVE  Lengthened(s, s \o <<>> \o <<l>>, l)
<1> DEFINE t == s \o <<>> \o <<l>>
<1>1. /\ Len(t) = Len(s) + 1 /\ DOMAIN t = 1..Len(t) /\ DOMAIN s = 1..Len(s)
      /\ \A i \in 1..Len(s) : t[i] = s[i]
      /\ t[Len(t)] = l /\ Len(s) \in Nat
  OBVIOUS
<1> HIDE DEF t
<1>2. Lengthened(s, t, l)
  BY <1>1 DEF Lengthened
<1> QED BY <1>2 DEF t

\* What an append does to the lines of the files.
LEMMA LineWritten ==
  ASSUME Types, NEW a \in appends, AppendWrites(a)
  PROVE  LET d == a.slot.day
             n == Len(files'[d].lines)
         IN  /\ d \in Days /\ n \notin Lines(d) /\ Lines(d)' = Lines(d) \cup {n}
             /\ files'[d].lines[n] = Line(a)
             /\ \A i \in Lines(d) : files'[d].lines[i] = files[d].lines[i]
             /\ \A e \in Days \ {d} : files'[e] = files[e] /\ Lines(e)' = Lines(e)
<1> DEFINE d   == a.slot.day
           old == files[d].lines
           new == files'[d].lines
<1>1. /\ d \in Days /\ Line(a) \in Rows /\ ~Line(a).header
      /\ (new = old \o <<Header>> \o <<Line(a)>> \/ new = old \o <<>> \o <<Line(a)>>)
      /\ files' = [files EXCEPT ![d].lines = new]
  BY EntryWritten DEF Line, Heading
<1>2. old \in Seq(Rows)
  BY <1>1 DEF Types
<1>3. /\ Lines(d) = {i \in DOMAIN old : ~old[i].header}
      /\ Lines(d)' = {i \in DOMAIN new : ~new[i].header}
  BY DEF Lines
<1>4. \A e \in Days \ {d} : files'[e] = files[e] /\ Lines(e)' = Lines(e)
  <2>1. \A e \in Days \ {d} : files'[e] = files[e]
    BY <1>1 DEF Types
  <2> QED BY <2>1 DEF Lines
<1> HIDE DEF old, new
<1>5. Lengthened(old, new, Line(a))
  BY <1>1, <1>2, LengthenedWithHeader, LengthenedWithout
<1>6. /\ Len(new) \notin Lines(d) /\ Lines(d)' = Lines(d) \cup {Len(new)}
      /\ new[Len(new)] = Line(a) /\ \A i \in Lines(d) : new[i] = old[i]
  BY <1>1, <1>3, <1>5 DEF Lengthened
<1> QED BY <1>1, <1>4, <1>6 DEF old, new

\* The records of an append are in no other one, so that without it they are not under way.
LEMMA AppendGone ==
  ASSUME InOneLine, NEW a \in appends, appends' = appends \ {a}
  PROVE  /\ UnderWay' = UnderWay \ Records(a.slot) /\ Records(a.slot) \subseteq UnderWay
         /\ \A c, e \in appends' : c # e => Records(c.slot) \cap Records(e.slot) = {}
<1>1. \A c \in appends' : Records(c.slot) \cap Records(a.slot) = {}
  BY DEF InOneLine
<1>2. UnderWay' = UNION {Records(c.slot) : c \in appends'}
  BY DEF UnderWay
<1>3. \A n : n \in UnderWay' <=> n \in UnderWay /\ n \notin Records(a.slot)
  BY <1>1, <1>2 DEF UnderWay
<1>4. UnderWay' = UnderWay \ Records(a.slot)
  BY <1>3
<1> QED BY <1>4 DEF UnderWay, InOneLine

LEMMA WriteCounts ==
  ASSUME Ledger, NEW a \in appends, AppendWrites(a)
  PROVE  (SlotIsLatest /\ InOnePlace /\ InOneLine)'
<1> DEFINE d == a.slot.day
           n == Len(files'[d].lines)
<1>1. /\ d \in Days /\ n \notin Lines(d) /\ Lines(d)' = Lines(d) \cup {n}
      /\ files'[d].lines[n] = Line(a)
      /\ \A i \in Lines(d) : files'[d].lines[i] = files[d].lines[i]
      /\ \A e \in Days \ {d} : files'[e] = files[e] /\ Lines(e)' = Lines(e)
  BY LineWritten DEF Ledger
<1>2. /\ UNCHANGED <<current, recordCount, slotReadings, received, day, lost>>
      /\ appends' = appends \ {a} /\ Line(a).slot = a.slot
  BY DEF AppendWrites, slotVars, historyVars, Line
<1>3. /\ UnderWay' = UnderWay \ Records(a.slot) /\ Records(a.slot) \subseteq UnderWay
      /\ \A c, e \in appends' : c # e => Records(c.slot) \cap Records(e.slot) = {}
  BY <1>2, AppendGone DEF Ledger
<1> HIDE DEF d, n
<1>4. \A e \in Days : \A i \in Lines(e)' :
        \/ e = d /\ i = n
        \/ i \in Lines(e) /\ files'[e].lines[i].slot = files[e].lines[i].slot
  BY <1>1
<1>5. Written' = Written \cup Records(a.slot)
  <2>1. \A m \in Written : m \in Written'
    BY <1>1 DEF Written
  <2>2. \A m \in Records(a.slot) : m \in Written'
    BY <1>1, <1>2 DEF Written
  <2>3. \A m \in Written' : m \in Written \/ m \in Records(a.slot)
    BY <1>1, <1>2, <1>4 DEF Written
  <2> QED BY <2>1, <2>2, <2>3
<1>6. SlotIsLatest' /\ InOnePlace'
  <2>1. InSlot' = InSlot
    BY <1>2 DEF InSlot
  <2> QED BY <1>2, <1>3, <1>5, <2>1 DEF Ledger, SlotIsLatest, InOnePlace
<1>7. InOneLine'
  <2>1. \A e \in Days : \A i \in Lines(e) :
          Records(files[e].lines[i].slot) \cap Records(a.slot) = {}
    BY <1>3 DEF Ledger, InOnePlace, Written
  <2>2. ASSUME NEW e \in Days, NEW f \in Days, NEW i \in Lines(e)', NEW j \in Lines(f)',
               e # f \/ i # j
        PROVE  Records(files'[e].lines[i].slot) \cap Records(files'[f].lines[j].slot) = {}
    <3>1. CASE e = d /\ i = n
      <4>1. ~(f = d /\ j = n)
        BY <2>2, <3>1
      <4>2. j \in Lines(f) /\ files'[f].lines[j].slot = files[f].lines[j].slot
        BY <1>4, <4>1
      <4> QED BY <1>1, <1>2, <2>1, <3>1, <4>2
    <3>2. CASE f = d /\ j = n
      <4>1. ~(e = d /\ i = n)
        BY <2>2, <3>2
      <4>2. i \in Lines(e) /\ files'[e].lines[i].slot = files[e].lines[i].slot
        BY <1>4, <4>1
      <4> QED BY <1>1, <1>2, <2>1, <3>2, <4>2
    <3>3. CASE ~(e = d /\ i = n) /\ ~(f = d /\ j = n)
      <4>1. /\ i \in Lines(e) /\ files'[e].lines[i].slot = files[e].lines[i].slot
            /\ j \in Lines(f) /\ files'[f].lines[j].slot = files[f].lines[j].slot
        BY <1>4, <3>3
      <4> QED BY <2>2, <4>1 DEF Ledger, InOneLine
    <3> QED BY <3>1, <3>2, <3>3
  <2> QED BY <1>3, <2>2 DEF InOneLine
<1> QED BY <1>6, <1>7

LEMMA FailCounts ==
  ASSUME Ledger, NEW a \in appends, AppendFails(a) \/ AppendSpoilt(a)
  PROVE  (SlotIsLatest /\ InOnePlace /\ InOneLine)'
<1>1. /\ UNCHANGED <<current, recordCount, slotReadings, received, day>> /\ LinesKept
      /\ appends' = appends \ {a} /\ lost' = lost \cup Records(a.slot)
  <2>1. CASE AppendFails(a)
    BY <2>1, BrokenOff DEF AppendFails, slotVars, Ledger
  <2>2. CASE AppendSpoilt(a)
    BY <2>2, FilesKept DEF AppendSpoilt, slotVars
  <2> QED BY <2>1, <2>2
<1>2. /\ UnderWay' = UnderWay \ Records(a.slot) /\ Records(a.slot) \subseteq UnderWay
      /\ \A c, e \in appends' : c # e => Records(c.slot) \cap Records(e.slot) = {}
  BY <1>1, AppendGone DEF Ledger
<1>3. InSlot' = InSlot /\ Written' = Written
  BY <1>1, LinesStay, FilesKept DEF InSlot
<1>4. SlotIsLatest' /\ InOnePlace'
  BY <1>1, <1>2, <1>3 DEF Ledger, SlotIsLatest, InOnePlace
<1>5. InOneLine'
  BY <1>1, <1>2, LinesApart, FilesKept DEF Ledger, InOneLine
<1> QED BY <1>4, <1>5

LEMMA CrashCounts ==
  ASSUME Ledger, Crash
  PROVE  (SlotIsLatest /\ InOnePlace /\ InOneLine)'
<1>1. /\ UNCHANGED <<received, day>> /\ LinesKept /\ current' = NoSlot /\ recordCount' = 0
      /\ slotReadings' = <<>> /\ appends' = {} /\ lost' = lost \cup InSlot \cup UnderWay
  BY BrokenOff DEF Crash, Ledger
<1>2. InSlot' = {} /\ UnderWay' = {} /\ Written' = Written
  BY <1>1, LinesStay, FilesKept DEF InSlot, UnderWay
<1>3. SlotIsLatest'
  BY <1>1 DEF SlotIsLatest
<1>4. InOnePlace'
  BY <1>1, <1>2 DEF Ledger, InOnePlace
<1>5. InOneLine'
  BY <1>1, LinesApart, FilesKept DEF Ledger, InOneLine
<1> QED BY <1>3, <1>4, <1>5

\* The day passes, or nothing happens.
LEMMA DayCounts ==
  ASSUME Ledger, NextDay \/ UNCHANGED vars
  PROVE  (SlotIsLatest /\ InOnePlace /\ InOneLine)'
<1>1. /\ UNCHANGED <<current, recordCount, slotReadings, received, appends, files, lost>>
      /\ day' \in {day, day + 1} /\ day \in Nat
  BY DaysAssumption DEF NextDay, vars, slotVars, historyVars, Ledger, Types
<1>2. InSlot' = InSlot /\ UnderWay' = UnderWay /\ Written' = Written
  BY <1>1, LinesStay, FilesKept DEF InSlot, UnderWay
<1>3. SlotIsLatest'
  <2>1. current # NoSlot => current.day \in Nat
    <3>1. current # NoSlot => current.day \in Days
      BY DEF Ledger, Types, Slots
    <3> QED BY <3>1, DaysAssumption
  <2> QED BY <1>1, <2>1 DEF Ledger, SlotIsLatest
<1>4. InOnePlace'
  BY <1>1, <1>2 DEF Ledger, InOnePlace
<1>5. InOneLine'
  BY <1>1, LinesApart, FilesKept DEF Ledger, InOneLine
<1> QED BY <1>3, <1>4, <1>5

LEMMA LedgerNext == Ledger /\ [Next]_vars => Ledger'
<1> SUFFICES ASSUME Ledger, [Next]_vars PROVE (SlotIsLatest /\ InOnePlace /\ InOneLine)'
  BY TypesNext DEF Ledger
<1>1. ASSUME NEW x \in Readings, HandleMonitorRecord(x)
      PROVE  (SlotIsLatest /\ InOnePlace /\ InOneLine)'
  BY <1>1, ReadingCounts
<1>2. ASSUME HandleTimer PROVE (SlotIsLatest /\ InOnePlace /\ InOneLine)'
  BY <1>2, TimerCounts
<1>3. ASSUME NEW a \in appends, AppendOpens(a) PROVE (SlotIsLatest /\ InOnePlace /\ InOneLine)'
  BY <1>3, OpenCounts
<1>4. ASSUME NEW a \in appends, AppendWrites(a) PROVE (SlotIsLatest /\ InOnePlace /\ InOneLine)'
  BY <1>4, WriteCounts
<1>5. ASSUME NEW a \in appends, AppendFails(a) \/ AppendSpoilt(a)
      PROVE  (SlotIsLatest /\ InOnePlace /\ InOneLine)'
  BY <1>5, FailCounts
<1>6. CASE Crash
  BY <1>6, CrashCounts
<1>7. CASE NextDay \/ UNCHANGED vars
  BY <1>7, DayCounts
<1> QED BY <1>1, <1>2, <1>3, <1>4, <1>5, <1>6, <1>7 DEF Next

\* For any readings, days, appends, errors and restarts: every record of the Monitor is in
\* the slot, in an append under way, in a line or lost with one, and nowhere twice
\* (statistics.ts 89-165, 264-291).
THEOREM RecordsCountOnce == Spec => []EveryRecordOnce
<1>1. Ledger => EveryRecordOnce
  BY DEF Ledger, EveryRecordOnce
<1> QED BY <1>1, LedgerInit, LedgerNext, PTL DEF Spec

\* The variables keep their types; no file has content before it exists.
THEOREM StatisticsTypes == Spec => []TypeOK
<1> DEFINE Inv == IInv /\ Ledger /\ received <= MaxRecords
<1>1. Init => Inv
  BY InvariantInit, LedgerInit, BoundAssumption DEF Init
<1>2. Inv /\ [Next]_vars => Inv'
  <2> SUFFICES ASSUME Inv, [Next]_vars PROVE received' <= MaxRecords
    BY InvariantNext, LedgerNext
  <2>1. CASE received' = received
    BY <2>1
  <2>2. CASE received' # received
    <3>1. PICK x \in Readings : HandleMonitorRecord(x)
      BY <2>2 DEF Next, HandleTimer, AppendOpens, AppendWrites, AppendSpoilt, AppendFails, NextDay, Crash,
                  vars, slotVars
    <3>2. received < MaxRecords /\ received' = received + 1
      BY <3>1 DEF HandleMonitorRecord
    <3>3. received \in Nat
      BY DEF Ledger, Types
    <3> QED BY <3>2, <3>3, BoundAssumption
  <2> QED BY <2>1, <2>2
<1>3. Inv => TypeOK
  <2> SUFFICES ASSUME Inv PROVE TypeOK
    OBVIOUS
  <2>1. current = NoSlot <=> recordCount = 0
    BY DEF Ledger, SlotIsLatest
  <2>2. current # NoSlot => current.count = recordCount /\ current.day \in 0..day
    <3> SUFFICES ASSUME current # NoSlot
                 PROVE  current.count = recordCount /\ current.day \in 0..day
      OBVIOUS
    <3>1. current.day \in Days /\ day \in Days
      BY DEF Ledger, Types, Slots
    <3>2. current.count = recordCount /\ current.day <= day
      BY DEF Ledger, SlotIsLatest
    <3>3. current.day \in Nat /\ day \in Nat
      BY <3>1, DaysAssumption
    <3> QED BY <3>2, <3>3
  <2>3. lost \subseteq 1..received
    BY DEF Ledger, InOnePlace
  <2>4. received \in 0..MaxRecords
    BY BoundAssumption DEF Ledger, Types
  <2> QED BY <2>1, <2>2, <2>3, <2>4 DEF TypeOK, IInv, Decided, Fragments
<1> QED BY <1>1, <1>2, <1>3, PTL DEF Spec

-----------------------------------------------------------------------------
(***************************************************************************)
(* The sum of a sequence.  That the recursive function exists, and what it *)
(* yields for a longer sequence, needs an induction over its indices.      *)
(***************************************************************************)
\* A set that holds 0 and the successors of its elements holds every number: were x
\* missing, the numbers up to x could be mapped one to one to those below x.
LEMMA SetInduction ==
  ASSUME NEW S \in SUBSET Nat, 0 \in S, \A n \in S : n + 1 \in S
  PROVE  S = Nat
<1> SUFFICES ASSUME NEW x \in Nat \ S PROVE FALSE
  OBVIOUS
<1> DEFINE f == [i \in 1..(x + 1) |-> IF i - 1 \in S THEN i ELSE i - 1]
<1>1. \A i \in Nat \ {0} : i \in S \/ i - 1 \notin S
  <2> SUFFICES ASSUME NEW i \in Nat \ {0}, i - 1 \in S PROVE i \in S
    OBVIOUS
  <2>1. (i - 1) + 1 \in S /\ (i - 1) + 1 = i
    OBVIOUS
  <2> QED BY <2>1
<1>2. ASSUME NEW i \in 1..(x + 1) PROVE f[i] \in 1..x
  <2>1. CASE i - 1 \in S
    <3>1. i # x + 1
      BY <2>1
    <3> QED BY <2>1, <3>1
  <2>2. CASE i - 1 \notin S
    <3>1. i # 1
      BY <2>2
    <3> QED BY <2>2, <3>1
  <2> QED BY <2>1, <2>2
<1>3. ASSUME NEW i \in 1..(x + 1), NEW j \in 1..(x + 1), i # j, f[i] = f[j]
      PROVE  FALSE
  <2>1. ASSUME NEW k \in 1..(x + 1), NEW l \in 1..(x + 1), f[k] = f[l], k - 1 \in S, l - 1 \notin S
        PROVE  FALSE
    <3>1. k = l - 1
      BY <2>1
    <3>2. l - 1 \in Nat \ {0} /\ k - 1 = (l - 1) - 1
      BY <3>1
    <3>3. l - 1 \in S \/ (l - 1) - 1 \notin S
      BY <1>1, <3>2
    <3> QED BY <2>1, <3>2, <3>3
  <2> QED BY <1>3, <2>1
<1>4. f \in Injection(1..(x + 1), 1..x)
  BY <1>2, <1>3 DEF Injection, IsInjective
<1>5. x + 1 <= x
  BY <1>4, Fun_NatInjLeq DEF ExistsInjection
<1> QED BY <1>5

\* What the definition of Total means: the sums of the first elements.
Summed(sums, xs) ==
  sums = [n \in 0..Len(xs) |-> IF n = 0 THEN 0 ELSE sums[n - 1] + xs[n]]

LEMMA SumsExist ==
  ASSUME NEW xs \in Seq(Int)
  PROVE  \E sums : Summed(sums, xs)
<1> DEFINE Partial(f, n) == /\ f \in [0..n -> Int] /\ f[0] = 0
                            /\ \A i \in 1..n : f[i] = f[i - 1] + xs[i]
           Known(n) == \E f : Partial(f, n)
           S == {n \in Nat : n <= Len(xs) => Known(n)}
<1>1. Len(xs) \in Nat /\ \A i \in 1..Len(xs) : xs[i] \in Int
  OBVIOUS
<1>2. 0 \in S
  <2>1. Partial([i \in 0..0 |-> 0], 0)
    OBVIOUS
  <2> QED BY <2>1
<1>3. ASSUME NEW n \in Nat, n + 1 <= Len(xs), Known(n) PROVE Known(n + 1)
  <2>1. n \in Nat
    BY <1>3
  <2>2. PICK f : Partial(f, n)
    BY <1>3
  <2> DEFINE g == [i \in 0..(n + 1) |-> IF i = n + 1 THEN f[n] + xs[n + 1] ELSE f[i]]
  <2>3. f[n] \in Int /\ xs[n + 1] \in Int
    BY <1>1, <1>3, <2>1, <2>2
  <2>4. g \in [0..(n + 1) -> Int] /\ g[0] = 0
    BY <2>1, <2>2, <2>3
  <2>5. ASSUME NEW i \in 1..(n + 1) PROVE g[i] = g[i - 1] + xs[i]
    <3>1. i - 1 \in 0..n /\ g[i - 1] = f[i - 1]
      BY <2>1
    <3>2. CASE i = n + 1
      BY <2>1, <3>1, <3>2
    <3>3. CASE i \in 1..n
      BY <2>1, <2>2, <3>1, <3>3
    <3> QED BY <2>1, <3>2, <3>3
  <2> QED BY <2>4, <2>5
<1> HIDE DEF Known
<1>4. S = Nat
  <2>1. \A n \in S : n + 1 \in S
    BY <1>1, <1>3
  <2> HIDE DEF S
  <2>2. S \in SUBSET Nat
    BY DEF S
  <2> QED BY <1>2, <2>1, <2>2, SetInduction
<1>5. PICK f : Partial(f, Len(xs))
  <2>1. Known(Len(xs))
    BY <1>1, <1>4
  <2> QED BY <2>1 DEF Known
<1>6. f = [n \in 0..Len(xs) |-> IF n = 0 THEN 0 ELSE f[n - 1] + xs[n]]
  BY <1>1, <1>5
<1> QED BY <1>6 DEF Summed

LEMMA TotalFound ==
  ASSUME NEW xs \in Seq(Int)
  PROVE  \E sums : Summed(sums, xs) /\ Total(xs) = sums[Len(xs)]
BY SumsExist DEF Summed, Total

\* The sums of two sequences agree as long as the sequences do.
LEMMA SumsAgree ==
  ASSUME NEW xs \in Seq(Int), NEW ys \in Seq(Int), NEW f, NEW g, Summed(f, xs), Summed(g, ys),
         Len(xs) <= Len(ys), \A i \in 1..Len(xs) : xs[i] = ys[i]
  PROVE  \A n \in 0..Len(xs) : f[n] = g[n] /\ f[n] \in Int
<1> DEFINE S == {n \in Nat : n <= Len(xs) => f[n] = g[n] /\ f[n] \in Int}
<1>1. Len(xs) \in Nat /\ Len(ys) \in Nat /\ \A i \in 1..Len(xs) : xs[i] \in Int
  OBVIOUS
<1>2. f[0] = 0 /\ g[0] = 0
  BY <1>1 DEF Summed
<1>3. ASSUME NEW n \in 1..Len(xs)
      PROVE  f[n] = f[n - 1] + xs[n] /\ g[n] = g[n - 1] + xs[n]
  <2>1. n \in 0..Len(xs) /\ n \in 0..Len(ys) /\ n # 0 /\ xs[n] = ys[n]
    BY <1>1
  <2> QED BY <2>1 DEF Summed
<1>4. 0 \in S
  BY <1>2
<1>5. ASSUME NEW n \in S PROVE n + 1 \in S
  <2> SUFFICES ASSUME n + 1 <= Len(xs) PROVE f[n + 1] = g[n + 1] /\ f[n + 1] \in Int
    BY <1>5
  <2>1. n \in Nat /\ n + 1 \in 1..Len(xs) /\ (n + 1) - 1 = n /\ n <= Len(xs)
    BY <1>1
  <2>2. f[n] = g[n] /\ f[n] \in Int
    BY <2>1
  <2>3. f[n + 1] = f[n] + xs[n + 1] /\ g[n + 1] = g[n] + xs[n + 1] /\ xs[n + 1] \in Int
    BY <1>1, <1>3, <2>1
  <2> QED BY <2>2, <2>3
<1>6. S = Nat
  <2> HIDE DEF S
  <2>1. S \in SUBSET Nat
    BY DEF S
  <2> QED BY <1>4, <1>5, <2>1, SetInduction
<1> QED BY <1>1, <1>6

LEMMA TotalOfNone == Total(<<>>) = 0
<1>1. <<>> \in Seq(Int) /\ Len(<<>>) = 0
  OBVIOUS
<1>2. PICK f : Summed(f, <<>>) /\ Total(<<>>) = f[Len(<<>>)]
  BY <1>1, TotalFound
<1> QED BY <1>1, <1>2 DEF Summed

LEMMA TotalOfAppend ==
  ASSUME NEW xs \in Seq(Int), NEW x \in Int
  PROVE  Total(xs) \in Int /\ Total(Append(xs, x)) = Total(xs) + x
<1> DEFINE ys == Append(xs, x)
<1>1. /\ ys \in Seq(Int) /\ Len(xs) \in Nat /\ Len(ys) = Len(xs) + 1 /\ ys[Len(xs) + 1] = x
      /\ \A i \in 1..Len(xs) : xs[i] = ys[i]
  OBVIOUS
<1> HIDE DEF ys
<1>2. PICK f : Summed(f, xs) /\ Total(xs) = f[Len(xs)]
  BY TotalFound
<1>3. PICK g : Summed(g, ys) /\ Total(ys) = g[Len(ys)]
  BY <1>1, TotalFound
<1>4. f[Len(xs)] = g[Len(xs)] /\ f[Len(xs)] \in Int
  BY <1>1, <1>2, <1>3, SumsAgree
<1>5. g[Len(xs) + 1] = g[Len(xs)] + x
  <2>1. Len(xs) + 1 \in 0..Len(ys) /\ Len(xs) + 1 # 0 /\ (Len(xs) + 1) - 1 = Len(xs)
    BY <1>1
  <2>2. g[Len(xs) + 1] = g[(Len(xs) + 1) - 1] + ys[Len(xs) + 1]
    BY <1>3, <2>1 DEF Summed
  <2> QED BY <1>1, <2>1, <2>2
<1> QED BY <1>1, <1>2, <1>3, <1>4, <1>5 DEF ys

\* The header has a column for each column of a line: no column of CSVHEADER is a single value.
LEMMA SameColumns == ToLine = ToHeader
<1>1. \A i \in 1..Len(CsvHeader) : ~CsvHeader[i].isSingleValue
  BY DEF CsvHeader, RecordItem, ValueItem
<1> DEFINE Wide(h) == IF h.isRecordItem THEN 1 ELSE 3 - h.hidden
           Titled(h) == IF h.isRecordItem THEN 1 ELSE IF h.isSingleValue THEN 2 ELSE 3 - h.hidden
<1>2. [i \in 1..Len(CsvHeader) |-> Wide(CsvHeader[i])]
        = [i \in 1..Len(CsvHeader) |-> Titled(CsvHeader[i])]
  BY <1>1
<1>3. ToLine = Total([i \in 1..Len(CsvHeader) |-> Wide(CsvHeader[i])])
  BY DEF ToLine, Columns
<1>4. ToHeader = Total([i \in 1..Len(CsvHeader) |-> Titled(CsvHeader[i])])
  BY DEF ToHeader, Columns
<1> QED BY <1>2, <1>3, <1>4

LEMMA TimesMonotone ==
  ASSUME NEW k \in Nat, NEW u \in Int, NEW v \in Int
  PROVE  k * u \in Int /\ (u <= v => k * u <= k * v)
  OBVIOUS

\* In parts, avg is the mean of n numbers with the sum t, and the next mean.
IsMean(avg, n, t) == avg \in Int /\ avg * n = Parts * t

NextMean(avg, n, x) == (avg * n + Parts * x) \div (n + 1)

\* The mean of one more number is exact again, if the parts are fine enough for it.
LEMMA MeanExact ==
  ASSUME NEW avg, NEW n \in Nat, NEW t \in Int, NEW x \in Int,
         IsMean(avg, n, t), n < MaxRecords
  PROVE  IsMean(NextMean(avg, n, x), n + 1, t + x)
<1> DEFINE p == Parts
           m == n + 1
           k == p \div m
           s == avg * n + p * x
<1>1. m \in Nat \ {0} /\ m \in 1..MaxRecords
  BY BoundAssumption
<1>2. avg \in Int /\ avg * n = p * t /\ p \in Nat /\ p % m = 0
  BY <1>1, MeanAssumption DEF IsMean
<1> HIDE DEF p
<1>3. s = p * (t + x)
  BY <1>2
<1> HIDE DEF m, s
<1>4. \A b \in Nat \ {0} : p \div b \in Int /\ p % b = p - b * (p \div b)
  BY <1>2
<1>5. k \in Int /\ m * k \in Int /\ 0 = p - m * k
  BY <1>1, <1>4, <1>2
<1> HIDE DEF k
<1>6. p = m * k
  BY <1>5, <1>2
<1>7. s = m * (k * (t + x)) /\ k * (t + x) \in Int
  BY <1>1, <1>3, <1>5, <1>6
<1>8. \A b \in Nat \ {0}, q \in Int : (b * q) \div b = q
  OBVIOUS
<1>9. s \div m = k * (t + x)
  BY <1>1, <1>7, <1>8
<1>10. k * (t + x) \in Int /\ (k * (t + x)) * m = p * (t + x)
  BY <1>1, <1>3, <1>7
<1>11. NextMean(avg, n, x) = k * (t + x)
  BY <1>9 DEF NextMean, m, s, p
<1> QED BY <1>10, <1>11 DEF IsMean, m, p

-----------------------------------------------------------------------------
(***************************************************************************)
(* The minimum, the mean and the maximum of a slot.                        *)
(***************************************************************************)
NumbersOf(xs) == {xs[k] : k \in DOMAIN xs} \ {NaN}

\* The bounds are those of the numbers, and there are none before the first one.
BoundsOf(slot, numbers) ==
  IF numbers = {} THEN slot.min = NaN /\ slot.max = NaN /\ slot.avg = NaN
  ELSE /\ slot.min \in numbers /\ \A n \in numbers : slot.min <= n
       /\ slot.max \in numbers /\ \A n \in numbers : n <= slot.max
       /\ slot.avg # NaN => slot.avg \in (Parts * slot.min)..(Parts * slot.max)

\* As long as every reading is a number the mean is exact.
AllNumbers(xs) == \A k \in DOMAIN xs : xs[k] # NaN

MeanOf(slot, xs) ==
  /\ Len(xs) = slot.count
  /\ AllNumbers(xs) =>
       IF slot.count = 0 THEN slot.avg = NaN
       ELSE IsMean(slot.avg, slot.count, Total(xs))

SlotRight(slot, xs) == BoundsOf(slot, NumbersOf(xs)) /\ MeanOf(slot, xs)

LEMMA NumbersGrow ==
  ASSUME NEW xs \in Seq(Readings), NEW x \in Readings
  PROVE  /\ NumbersOf(Append(xs, x)) = NumbersOf(xs) \cup ({x} \ {NaN})
         /\ NumbersOf(xs) \subseteq Int
<1> DEFINE ys == Append(xs, x)
<1>1. /\ DOMAIN ys = 1..(Len(xs) + 1) /\ DOMAIN xs = 1..Len(xs) /\ Len(xs) \in Nat
      /\ ys[Len(xs) + 1] = x /\ \A k \in 1..Len(xs) : ys[k] = xs[k] /\ xs[k] \in Readings
  OBVIOUS
<1> HIDE DEF ys
<1>2. {ys[k] : k \in DOMAIN ys} = {xs[k] : k \in DOMAIN xs} \cup {x}
  <2>1. \A k \in DOMAIN ys : k \in DOMAIN xs \/ k = Len(xs) + 1
    BY <1>1
  <2>2. \A k \in DOMAIN xs : k \in DOMAIN ys /\ Len(xs) + 1 \in DOMAIN ys
    BY <1>1
  <2>3. Len(xs) + 1 \in DOMAIN ys
    BY <1>1
  <2> QED BY <1>1, <2>1, <2>2, <2>3
<1>3. NumbersOf(ys) = NumbersOf(xs) \cup ({x} \ {NaN})
  BY <1>2 DEF NumbersOf
<1>4. NumbersOf(xs) \subseteq Int
  BY <1>1, ReadingsAssumption DEF NumbersOf
<1> QED BY <1>3, <1>4 DEF ys

\* A weighted mean lies between the bounds, also when it is rounded down.
LEMMA MeanBetween ==
  ASSUME NEW lo \in Int, NEW hi \in Int, NEW avg \in Int, NEW p \in Int, NEW n \in Nat,
         lo <= avg, avg <= hi, lo <= p, p <= hi
  PROVE  (avg * n + p) \div (n + 1) \in lo..hi
<1> DEFINE s == avg * n + p
           m == n + 1
           q == s \div m
<1>1. \A u, v \in Int, k \in Nat : u <= v => u * k <= v * k
  OBVIOUS
<1>2. lo * n <= avg * n /\ avg * n <= hi * n
  BY <1>1
<1>3. lo * m = lo * n + lo /\ hi * m = hi * n + hi
  OBVIOUS
<1>4. lo * n \in Int /\ avg * n \in Int /\ hi * n \in Int
  OBVIOUS
<1>5. s \in Int /\ lo * m <= s /\ s <= hi * m
  BY <1>2, <1>3, <1>4
<1>6. \A a \in Int, b \in Nat \ {0} : a \div b \in Int /\ b * (a \div b) <= a /\ a < b * (a \div b) + b
  OBVIOUS
<1>7. m \in Nat \ {0}
  OBVIOUS
<1> HIDE DEF s, m
<1>8. m * q <= s /\ s < m * q + m /\ q \in Int
  BY <1>5, <1>6, <1>7
<1> HIDE DEF q
<1>9. lo <= q
  <2> SUFFICES ASSUME q + 1 <= lo PROVE FALSE
    BY <1>7, <1>8
  <2>1. (q + 1) * m <= lo * m
    BY <1>1, <1>7, <1>8
  <2>2. (q + 1) * m = m * q + m
    BY <1>7, <1>8
  <2> QED BY <1>5, <1>7, <1>8, <2>1, <2>2
<1>10. q <= hi
  <2> SUFFICES ASSUME hi + 1 <= q PROVE FALSE
    BY <1>7, <1>8
  <2>1. (hi + 1) * m <= q * m
    BY <1>1, <1>7, <1>8
  <2>2. (hi + 1) * m = hi * m + m /\ q * m = m * q /\ hi * m \in Int /\ m * q \in Int
    BY <1>7, <1>8
  <2> QED BY <1>5, <1>7, <1>8, <2>1, <2>2
<1> QED BY <1>8, <1>9, <1>10 DEF s, m, q

LEMMA BoundsStayRight ==
  ASSUME NEW slot \in Slots, NEW xs \in Seq(Readings), NEW x \in Readings,
         BoundsOf(slot, NumbersOf(xs))
  PROVE  BoundsOf(WithReading(slot, x), NumbersOf(Append(xs, x)))
<1> DEFINE new == WithReading(slot, x)
           ns  == NumbersOf(xs)
           ms  == NumbersOf(Append(xs, x))
<1>1. ms = ns \cup ({x} \ {NaN}) /\ ns \subseteq Int /\ x \in Int \cup {NaN}
  BY NumbersGrow, ReadingsAssumption
<1>2. /\ new.min = CalcMinimum(slot.min, x) /\ new.max = CalcMaximum(slot.max, x)
      /\ new.avg = CalcAverage(slot.avg, slot.count, x)
  BY DEF WithReading, Slots
<1>3. /\ slot.min \in Int \cup {NaN} /\ slot.max \in Int \cup {NaN}
      /\ slot.avg \in Int \cup {NaN} /\ slot.count \in Nat
  BY DEF Slots, Values
<1>4. ns # {} => /\ slot.min \in ns /\ \A n \in ns : slot.min <= n
                 /\ slot.max \in ns /\ \A n \in ns : n <= slot.max
                 /\ slot.avg # NaN => slot.avg \in (Parts * slot.min)..(Parts * slot.max)
  BY DEF BoundsOf
<1>5. ns = {} => slot.min = NaN /\ slot.max = NaN /\ slot.avg = NaN
  BY DEF BoundsOf
<1> DEFINE Scaled(u) == Parts * u
<1>6. \A u, v \in Int : Scaled(u) \in Int /\ (u <= v => Scaled(u) <= Scaled(v))
  BY MeanAssumption, TimesMonotone
<1> HIDE DEF new, ns, ms
<1>7. ASSUME x = NaN PROVE BoundsOf(new, ms)
  <2>1. ms = ns
    BY <1>1, <1>7
  <2>2. new.min = slot.min /\ new.max = slot.max /\ new.avg = NaN
    BY <1>2, <1>7 DEF CalcMinimum, CalcMaximum, CalcAverage, Less
  <2> QED BY <1>4, <1>5, <2>1, <2>2 DEF BoundsOf
<1>8. ASSUME x # NaN /\ ns = {} PROVE BoundsOf(new, ms)
  <2>1. ms = {x} /\ x \in Int
    BY <1>1, <1>8
  <2>2. new.min = x /\ new.max = x /\ new.avg = Parts * x
    BY <1>2, <1>5, <1>8 DEF CalcMinimum, CalcMaximum, CalcAverage
  <2>3. Parts * x \in (Parts * x)..(Parts * x) /\ \A n \in {x} : x <= n /\ n <= x
    BY <1>6, <2>1
  <2> QED BY <2>1, <2>2, <2>3 DEF BoundsOf
<1>9. ASSUME x # NaN /\ ns # {} PROVE BoundsOf(new, ms)
  <2>1. x \in Int /\ ms = ns \cup {x} /\ slot.min \in Int /\ slot.max \in Int
    BY <1>1, <1>4, <1>9
  <2>2. /\ slot.min # NaN /\ slot.max # NaN
    BY <2>1, NotNumbers
  <2>3. /\ new.min = IF x < slot.min THEN x ELSE slot.min
        /\ new.max = IF slot.max < x THEN x ELSE slot.max
    BY <1>2, <1>9, <2>2 DEF CalcMinimum, CalcMaximum, Less
  <2>4. /\ new.min \in ms /\ new.min <= x /\ new.min <= slot.min /\ new.min \in Int
        /\ new.max \in ms /\ x <= new.max /\ slot.max <= new.max /\ new.max \in Int
    BY <1>4, <1>9, <2>1, <2>3
  <2>5. \A n \in ms : new.min <= n /\ n <= new.max
    <3> SUFFICES ASSUME NEW n \in ms PROVE new.min <= n /\ n <= new.max
      OBVIOUS
    <3>1. CASE n = x
      BY <2>4, <3>1
    <3>2. CASE n \in ns
      <4>1. n \in Int /\ slot.min <= n /\ n <= slot.max
        BY <1>1, <1>4, <1>9, <3>2
      <4> QED BY <2>1, <2>4, <4>1
    <3> QED BY <2>1, <3>1, <3>2
  <2>6. new.avg \in (Parts * new.min)..(Parts * new.max)
    <3>1. CASE slot.avg = NaN
      <4>1. new.avg = Scaled(x)
        BY <1>2, <1>9, <3>1 DEF CalcAverage
      <4>2. /\ Scaled(new.min) \in Int /\ Scaled(new.max) \in Int /\ Scaled(x) \in Int
            /\ Scaled(new.min) <= Scaled(x) /\ Scaled(x) <= Scaled(new.max)
        BY <1>6, <2>1, <2>4
      <4> HIDE DEF Scaled
      <4>3. new.avg \in Scaled(new.min)..Scaled(new.max)
        BY <4>1, <4>2
      <4> QED BY <4>3 DEF Scaled
    <3>2. CASE slot.avg # NaN
      <4>1. new.avg = (slot.avg * slot.count + Scaled(x)) \div (slot.count + 1)
        BY <1>2, <1>9, <3>2 DEF CalcAverage
      <4>2. slot.avg \in Scaled(slot.min)..Scaled(slot.max)
        BY <1>4, <1>9, <3>2
      <4>3. \A u, v \in {slot.min, slot.max, new.min, new.max, x} :
              Scaled(u) \in Int /\ (u <= v => Scaled(u) <= Scaled(v))
        BY <1>6, <2>1, <2>4
      <4> HIDE DEF Scaled
      <4>4. /\ Scaled(new.min) \in Int /\ Scaled(new.max) \in Int /\ Scaled(x) \in Int
            /\ slot.avg \in Int
            /\ Scaled(new.min) <= slot.avg /\ slot.avg <= Scaled(new.max)
            /\ Scaled(new.min) <= Scaled(x) /\ Scaled(x) <= Scaled(new.max)
        BY <2>4, <4>2, <4>3
      <4>5. new.avg \in Scaled(new.min)..Scaled(new.max)
        BY <1>3, <4>1, <4>4, MeanBetween
      <4> QED BY <4>5 DEF Scaled
    <3> QED BY <3>1, <3>2
  <2> QED BY <2>1, <2>4, <2>5, <2>6 DEF BoundsOf
<1>10. BoundsOf(new, ms)
  BY <1>7, <1>8, <1>9
<1> QED BY <1>10 DEF new, ms

\* A number more: the mean of the slot is exact again.
LEMMA MeanStaysRight ==
  ASSUME NEW slot \in Slots, NEW xs \in Seq(Readings), NEW x \in Readings,
         MeanOf(slot, xs), slot.count < MaxRecords
  PROVE  MeanOf(WithReading(slot, x), Append(xs, x))
<1> DEFINE new == WithReading(slot, x)
           ys  == Append(xs, x)
<1>1. /\ new.count = slot.count + 1 /\ new.avg = CalcAverage(slot.avg, slot.count, x)
      /\ slot.count \in Nat /\ slot.avg \in Values
  BY DEF WithReading, Slots
<1>2. /\ DOMAIN ys = 1..(Len(xs) + 1) /\ DOMAIN xs = 1..Len(xs) /\ Len(xs) \in Nat
      /\ Len(ys) = Len(xs) + 1 /\ ys[Len(xs) + 1] = x
      /\ \A k \in 1..Len(xs) : ys[k] = xs[k] /\ xs[k] \in Readings
  OBVIOUS
<1>3. Len(xs) = slot.count
  BY DEF MeanOf
<1>4. Len(ys) = new.count
  BY <1>1, <1>2, <1>3
<1>5. ASSUME AllNumbers(ys) PROVE IsMean(new.avg, new.count, Total(ys))
  <2>1. AllNumbers(xs) /\ x # NaN
    <3>1. \A k \in 1..(Len(xs) + 1) : ys[k] # NaN
      BY <1>2, <1>5 DEF AllNumbers
    <3>2. \A k \in 1..Len(xs) : xs[k] # NaN
      BY <1>2, <3>1
    <3>3. Len(xs) + 1 \in 1..(Len(xs) + 1)
      BY <1>2
    <3> QED BY <1>2, <3>1, <3>2, <3>3 DEF AllNumbers
  <2>2. x \in Int
    BY <2>1, ReadingsAssumption
  <2>3. xs \in Seq(Int)
    <3>1. \A k \in 1..Len(xs) : xs[k] \in Int
      BY <1>2, <2>1, ReadingsAssumption DEF AllNumbers
    <3> QED BY <3>1, <1>2
  <2>4. Total(xs) \in Int /\ Total(ys) = Total(xs) + x
    BY <2>2, <2>3, TotalOfAppend
  <2>5. CASE slot.count = 0
    <3>1. new.avg = Parts * x /\ new.count = 1
      BY <1>1, <2>1, <2>5 DEF CalcAverage, MeanOf
    <3>2. xs = <<>>
      BY <1>3, <2>5
    <3>3. Total(ys) = x
      BY <2>2, <2>4, <3>2, TotalOfNone
    <3>4. Parts * x \in Int /\ (Parts * x) * 1 = Parts * x
      BY <2>2, MeanAssumption
    <3> QED BY <3>1, <3>3, <3>4 DEF IsMean
  <2>6. CASE slot.count # 0
    <3>1. IsMean(slot.avg, slot.count, Total(xs))
      BY <2>1, <2>6 DEF MeanOf
    <3>2. slot.avg # NaN
      BY <3>1, NotNumbers DEF IsMean
    <3>3. new.avg = NextMean(slot.avg, slot.count, x)
      BY <1>1, <2>1, <3>2 DEF CalcAverage, NextMean
    <3> QED BY <1>1, <2>2, <2>4, <3>1, <3>3, MeanExact
  <2> QED BY <2>5, <2>6
<1>6. new.count # 0
  BY <1>1
<1> HIDE DEF new, ys
<1>7. MeanOf(new, ys)
  BY <1>4, <1>5, <1>6 DEF MeanOf
<1> QED BY <1>7 DEF new, ys

LEMMA ReadingIsRight ==
  ASSUME NEW slot \in Slots, NEW xs \in Seq(Readings), NEW x \in Readings,
         SlotRight(slot, xs), slot.count < MaxRecords
  PROVE  SlotRight(WithReading(slot, x), Append(xs, x))
BY BoundsStayRight, MeanStaysRight DEF SlotRight

\* A slot that is kept or written has a reading.
Filled(slot, xs) == slot.count # 0 /\ SlotRight(slot, xs)

Bounds ==
  /\ current # NoSlot => Filled(current, slotReadings)
  /\ \A a \in appends : Filled(a.slot, a.readings)
  /\ \A d \in Days : \A i \in Lines(d) :
       Filled(files[d].lines[i].slot, files[d].lines[i].readings)

LEMMA BoundsInit == Init => Bounds
<1>1. Init => \A d \in Days : Lines(d) = {}
  BY DEF Init, Lines
<1> QED BY <1>1 DEF Init, Bounds

\* The lines stay, and every append was there before or holds the slot.
LEMMA BoundsMove ==
  ASSUME Bounds, LinesKept,
         current' = NoSlot \/ UNCHANGED <<current, slotReadings>>,
         \A c \in appends' :
           \/ \E a \in appends : c.slot = a.slot /\ c.readings = a.readings
           \/ c.slot = current /\ c.readings = slotReadings /\ current # NoSlot
  PROVE  Bounds'
<1>1. \A d \in Days : /\ Lines(d)' = Lines(d)
                      /\ \A i \in Lines(d) : files'[d].lines[i] = files[d].lines[i]
  BY DEF LinesKept
<1>2. \A c \in appends' : Filled(c.slot, c.readings)
  BY DEF Bounds
<1> QED BY <1>1, <1>2 DEF Bounds

LEMMA BoundsNext == Ledger /\ Bounds /\ [Next]_vars => Bounds'
<1> SUFFICES ASSUME Ledger, Bounds, [Next]_vars PROVE Bounds'
  OBVIOUS
<1>1. ASSUME NEW x \in Readings, HandleMonitorRecord(x) PROVE Bounds'
  <2> DEFINE old == IF current = NoSlot THEN NewSlot ELSE current
  <2>1. /\ current' = WithReading(old, x) /\ slotReadings' = Append(slotReadings, x)
        /\ UNCHANGED <<appends, files>> /\ slotReadings \in Seq(Readings)
    BY <1>1 DEF HandleMonitorRecord, Ledger, Types
  <2>2. old \in Slots
    BY DEF Ledger, Types, NewSlot, Slots, Values
  <2>3. SlotRight(old, slotReadings)
    <3>1. CASE current # NoSlot
      BY <3>1 DEF Bounds, Filled
    <3>2. CASE current = NoSlot
      <4>1. old = NewSlot /\ slotReadings = <<>>
        BY <3>2 DEF Ledger, SlotIsLatest
      <4>2. {slotReadings[k] : k \in DOMAIN slotReadings} = {}
        BY <4>1
      <4>3. BoundsOf(old, NumbersOf(slotReadings))
        BY <4>1, <4>2 DEF BoundsOf, NumbersOf, NewSlot
      <4>4. MeanOf(old, slotReadings)
        BY <4>1 DEF MeanOf, NewSlot
      <4> QED BY <4>3, <4>4 DEF SlotRight
    <3> QED BY <3>1, <3>2
  <2>4. old.count < MaxRecords
    <3>1. received < MaxRecords /\ received \in Nat
      BY <1>1 DEF HandleMonitorRecord, Ledger, Types
    <3>2. old.count \in Nat /\ old.count <= received
      <4>1. CASE current = NoSlot
        BY <3>1, <4>1 DEF NewSlot
      <4>2. CASE current # NoSlot
        <5>1. current \in Slots /\ current.from + current.count = received + 1
          BY <4>2 DEF Ledger, SlotIsLatest, Types
        <5>2. current.from \in Nat \ {0} /\ current.count \in Nat
          BY <5>1 DEF Slots
        <5> QED BY <3>1, <4>2, <5>1, <5>2
      <4> QED BY <4>1, <4>2
    <3> QED BY <3>1, <3>2, BoundAssumption
  <2> HIDE DEF old
  <2>5. Filled(current', slotReadings')
    <3>1. SlotRight(current', slotReadings')
      BY <1>1, <2>1, <2>2, <2>3, <2>4, ReadingIsRight
    <3>2. current'.count = old.count + 1 /\ old.count \in Nat
      BY <2>1, <2>2 DEF WithReading, Slots
    <3> QED BY <3>1, <3>2 DEF Filled
  <2>6. \A d \in Days : Lines(d)' = Lines(d)
    BY <2>1 DEF Lines
  <2> QED BY <2>1, <2>5, <2>6 DEF Bounds
<1>2. CASE HandleTimer
  <2>1. current # NoSlot
    BY <1>2 DEF HandleTimer, Ledger, SlotIsLatest
  <2> DEFINE e == [slot |-> current, header |-> ~files[current.day].exists,
                   readings |-> slotReadings, opened |-> FALSE]
  <2>2. e.slot = current /\ e.readings = slotReadings
    OBVIOUS
  <2>3. appends' = appends \cup {e} /\ UNCHANGED files /\ current' = NoSlot
    BY <1>2 DEF HandleTimer
  <2> HIDE DEF e
  <2> QED BY <2>1, <2>2, <2>3, FilesKept, BoundsMove
<1>3. ASSUME NEW a \in appends, AppendOpens(a) PROVE Bounds'
  <2> DEFINE b == [a EXCEPT !.opened = TRUE]
  <2>1. a \in Entries /\ a.slot.day \in Days
    BY DEF Ledger, Types, Entries, Slots
  <2>2. b.slot = a.slot /\ b.readings = a.readings
    BY <2>1 DEF Entries
  <2>3. /\ UNCHANGED <<current, slotReadings>> /\ appends' = (appends \ {a}) \cup {b}
        /\ files' = [files EXCEPT ![a.slot.day].exists = TRUE]
    BY <1>3 DEF AppendOpens, slotVars
  <2> HIDE DEF b
  <2>4. \A d \in Days : files'[d].lines = files[d].lines
    BY <2>1, <2>3 DEF Ledger, Types
  <2>5. \A d \in Days : Lines(d)' = Lines(d)
    BY <2>4 DEF Lines
  <2> QED BY <2>2, <2>3, <2>4, <2>5 DEF Bounds
<1>4. ASSUME NEW a \in appends, AppendWrites(a) PROVE Bounds'
  <2>1. LET d == a.slot.day
            n == Len(files'[d].lines)
        IN  /\ d \in Days /\ n \notin Lines(d) /\ Lines(d)' = Lines(d) \cup {n}
            /\ files'[d].lines[n] = Line(a)
            /\ \A i \in Lines(d) : files'[d].lines[i] = files[d].lines[i]
            /\ \A e \in Days \ {d} : files'[e] = files[e] /\ Lines(e)' = Lines(e)
    BY <1>4, LineWritten DEF Ledger
  <2>2. /\ UNCHANGED <<current, slotReadings>> /\ appends' = appends \ {a}
        /\ Line(a).slot = a.slot /\ Line(a).readings = a.readings
    BY <1>4 DEF AppendWrites, slotVars, Line
  <2>3. \A d \in Days : \A i \in Lines(d)' :
          Filled(files'[d].lines[i].slot, files'[d].lines[i].readings)
    BY <2>1, <2>2 DEF Bounds
  <2> QED BY <2>2, <2>3 DEF Bounds
<1>5. ASSUME NEW a \in appends, AppendFails(a) PROVE Bounds'
  BY <1>5, BrokenOff, BoundsMove DEF AppendFails, slotVars, Ledger
<1>8. ASSUME NEW a \in appends, AppendSpoilt(a) PROVE Bounds'
  BY <1>8, FilesKept, BoundsMove DEF AppendSpoilt, slotVars
<1>6. CASE Crash
  BY <1>6, BrokenOff, BoundsMove DEF Crash, Ledger
<1>7. CASE NextDay \/ UNCHANGED vars
  <2>1. UNCHANGED <<current, slotReadings, appends, files>>
    BY <1>7 DEF NextDay, vars, slotVars
  <2> QED BY <2>1, FilesKept, BoundsMove
<1> QED BY <1>1, <1>2, <1>3, <1>4, <1>5, <1>6, <1>7, <1>8 DEF Next

\* For any readings and any number of them in a slot: the minimum and the maximum of a line
\* are those of the numbers it was made of, its mean lies between them and is exact if no
\* reading was NaN (statistics.ts 417-439), and it has the columns of the header (293-409).
THEOREM LinesHoldTheirReadings == Spec => []LinesAreRight
<1>1. Init => Ledger /\ Bounds
  BY LedgerInit, BoundsInit
<1>2. Ledger /\ Bounds /\ [Next]_vars => (Ledger /\ Bounds)'
  BY LedgerNext, BoundsNext
<1>3. Ledger /\ Bounds => LinesAreRight
  <2> SUFFICES ASSUME Ledger, Bounds PROVE LinesAreRight
    OBVIOUS
  <2>1. \A slot, xs : Filled(slot, xs) => BoundsAreRight(slot, xs)
    BY DEF Filled, SlotRight, BoundsOf, NumbersOf, BoundsAreRight
  <2>2. LineBounds
    BY <2>1 DEF Bounds, LineBounds
  <2>3. ASSUME NEW d \in Days, NEW i \in Lines(d)
        PROVE  LET slot == files[d].lines[i].slot
                   xs   == files[d].lines[i].readings
               IN  /\ files[d].lines[i].columns = Header.columns
                   /\ NaN \notin {xs[k] : k \in DOMAIN xs} =>
                        slot.avg * Len(xs) = Parts * Total(xs)
    <3> DEFINE line == files[d].lines[i]
               xs   == line.readings
               slot == line.slot
    <3>1. line \in Rows /\ line.header = FALSE
      <4>1. files[d].lines \in Seq(Rows) /\ i \in DOMAIN files[d].lines /\ ~line.header
        BY DEF Ledger, Types, Lines
      <4>2. line \in Rows
        BY <4>1
      <4> HIDE DEF line
      <4>3. line # Header
        BY <4>1 DEF Header
      <4> QED BY <4>2, <4>3 DEF Rows
    <3>2. line.columns = ToLine
      <4> HIDE DEF line
      <4>1. line # Header
        BY <3>1 DEF Header
      <4> QED BY <3>1, <4>1 DEF Rows
    <3>3. line.columns = Header.columns
      BY <3>2, SameColumns DEF Header
    <3>4. slot.count # 0 /\ MeanOf(slot, xs)
      BY DEF Bounds, Filled, SlotRight
    <3> HIDE DEF slot, xs
    <3>5. NaN \notin {xs[k] : k \in DOMAIN xs} => slot.avg * Len(xs) = Parts * Total(xs)
      <4> SUFFICES ASSUME NaN \notin {xs[k] : k \in DOMAIN xs}
                   PROVE  slot.avg * Len(xs) = Parts * Total(xs)
        OBVIOUS
      <4>1. AllNumbers(xs)
        BY DEF AllNumbers
      <4> QED BY <3>4, <4>1 DEF MeanOf, IsMean
    <3> QED BY <3>3, <3>5 DEF slot, xs
  <2> QED BY <2>2, <2>3 DEF LinesAreRight
<1> QED BY <1>1, <1>2, <1>3, PTL DEF Spec
=============================================================================
